---------------------------- MODULE StmtCodeGen ----------------------------
(***************************************************************************)
(* The statements of the code generator (codegen.cc): from the tree nodes  *)
(* of StmtParser to the basic blocks of one LLVM function.                 *)
(*                                                                         *)
(* The visitor's state is the record g: the basic blocks made so far with  *)
(* their code, the order in which they were put into the function, the     *)
(* builder's insertion block, localVarMap, the jump maps and switchStack.  *)
(* A block that was made and not put in is in blocks and not in placed.    *)
(***************************************************************************)
EXTENDS StmtParser

-----------------------------------------------------------------------------
(***************************************************************************)
(* Instructions.  Eval is all the code of one expression: part says which  *)
(* expression of statement node, decl whose alloca it reads or writes.     *)
(***************************************************************************)
Instr(op) == [op |-> op, node |-> 0, part |-> "expr", decl |-> 0,
              to |-> 0, other |-> 0, cases |-> <<>>]
Eval(n, p, d) == [Instr("eval") EXCEPT !.node = n, !.part = p, !.decl = d]
Br(b) == [Instr("br") EXCEPT !.to = b]
\* Fault: the condition is compared equal to zero.
F_ConditionInverted(b, c) == [Instr("condbr") EXCEPT !.to = c, !.other = b]

CondBr(b, c) == [Instr("condbr") EXCEPT !.to = b, !.other = c]
Switch(b) == [Instr("switch") EXCEPT !.to = b]
Ret == Instr("ret")

IsTerminator(i) == i.op # "eval"

StartOfFunction ==
  [blocks |-> <<<<>>>>, placed |-> <<1>>, at |-> 1, vars |-> <<0>>,
   brk |-> [n \in 0..MaxNodes |-> 0], cont |-> [n \in 0..MaxNodes |-> 0],
   switches |-> <<>>, crash |-> FALSE]

Crash(g) == [g EXCEPT !.crash = TRUE]
Emit(g, i) == [g EXCEPT !.blocks[g.at] = Append(@, i)]
\* BasicBlock::Create, for k blocks at once; they are numbered on from Made(g).
Create(g, k) == [g EXCEPT !.blocks = @ \o [j \in 1..k |-> <<>>]]
Made(g) == Len(g.blocks)
SetInsertPoint(g, b) == [g EXCEPT !.at = b]
\* insertInto asserts that the block is in no function yet.
Place(g, b) ==
  IF b \in Range(g.placed) THEN Crash(g)
  ELSE SetInsertPoint([g EXCEPT !.placed = Append(@, b)], b)

Unterminated(g, b) == g.blocks[b] = <<>> \/ ~IsTerminator(Last(g.blocks[b]))
\* A branch to block "to", unless block "from" already ends in a terminator.
BranchUnlessTerminated(g, from, to) == IF Unterminated(g, from) THEN Emit(g, Br(to)) ELSE g

-----------------------------------------------------------------------------
(***************************************************************************)
(* localVarMap: per level the statement whose alloca x is, or 0.           *)
(***************************************************************************)
PushScope(g) == [g EXCEPT !.vars = Append(@, 0)]
PopScope(g) == [g EXCEPT !.vars = Front(@)]
AddLocalVarToMap(g, n) ==
  [g EXCEPT !.vars[Len(g.vars)] = IF @ = 0 THEN n ELSE @]
GetVarByName(g) ==
  LET levels == {i \in DOMAIN g.vars : g.vars[i] # 0}
  IN  IF levels = {} THEN Global ELSE g.vars[Innermost(levels)]

\* The expression x of statement n, read.
Read(g, n, p) == Emit(g, Eval(n, p, GetVarByName(g)))
\* int x = 0: the name is entered and the new variable itself is written.
VisitVariableDecl(g, n, p) == Emit(AddLocalVarToMap(g, n), Eval(n, p, n))

-----------------------------------------------------------------------------
VisitBreakStmt(g, n) ==
  LET b == g.brk[nodes[n].target] IN IF b = 0 THEN Crash(g) ELSE Emit(g, Br(b))

VisitContinueStmt(g, n) ==
  LET b == g.cont[nodes[n].target] IN IF b = 0 THEN Crash(g) ELSE Emit(g, Br(b))
VisitReturnStmt(g) == Emit(g, Ret)

EnterJumps(g, n, b, c) == [g EXCEPT !.brk[n] = b, !.cont[n] = c]
LeaveJumps(g, n) == [g EXCEPT !.brk[n] = 0, !.cont[n] = 0]

RECURSIVE Visit(_, _)

RECURSIVE VisitSequence(_, _)
VisitSequence(g, kids) ==
  IF kids = <<>> THEN g
  ELSE LET g1 == Visit(g, Head(kids))
       IN  IF nodes[Head(kids)].kind \in {"return", "break", "continue"} THEN g1
           ELSE VisitSequence(g1, Tail(kids))

VisitBlockStmt(g, n) == PopScope(VisitSequence(PushScope(g), nodes[n].kids))

VisitIfStmt(g, n) ==
  LET els == nodes[n].els /\ nodes[n].kids[2] # Null
      then == Made(g) + 1
      else == Made(g) + 2
      last == Made(g) + (IF els THEN 3 ELSE 2)
      g0 == Create(g, IF els THEN 3 ELSE 2)
      g1 == Emit(Read(g0, n, "cond"), CondBr(then, IF els THEN else ELSE last))
      g2 == Visit(Place(g1, then), nodes[n].kids[1])
      g3 == BranchUnlessTerminated(g2, g2.at, last)
      g4 == Visit(Place(g3, else), nodes[n].kids[2])
      g5 == BranchUnlessTerminated(g4, g4.at, last)
  IN  Place(IF els THEN g5 ELSE g3, last)

\* A while is a for with a condition only.  No scope is entered for the header.
VisitForStmt(g, n) ==
  LET h == nodes[n].header
      cond == Made(g) + 1
      inc == Made(g) + 2
      body == Made(g) + 3
      last == Made(g) + 4
      g0 == EnterJumps(Create(g, 4), n, last, inc)
      g1 == Emit(IF h.init THEN VisitVariableDecl(g0, n, "init") ELSE g0, Br(cond))
      g2 == Place(g1, cond)
      g3 == IF h.cond \/ nodes[n].kind = "while"
            THEN Emit(Read(g2, n, "cond"), CondBr(body, last))
            ELSE Emit(g2, Br(body))
      g4 == Place(g3, body)
      g5 == IF nodes[n].kids[1] = Null THEN g4 ELSE Visit(g4, nodes[n].kids[1])
      g6 == Place(BranchUnlessTerminated(g5, g5.at, inc), inc)
      g7 == Emit(IF h.inc THEN Read(g6, n, "inc") ELSE g6, Br(cond))
  IN  LeaveJumps(Place(g7, last), n)

VisitDoWhileStmt(g, n) ==
  LET body == Made(g) + 1
      cond == Made(g) + 2
      then == Made(g) + 3
      g0 == EnterJumps(Create(g, 3), n, then, cond)
      g1 == Visit(Place(Emit(g0, Br(body)), body), nodes[n].kids[1])
      g2 == Place(BranchUnlessTerminated(g1, g1.at, cond), cond)
      g3 == Emit(Read(g2, n, "cond"), CondBr(body, then))
  IN  LeaveJumps(Place(g3, then), n)

\* The switch instruction, at its block b and index i, that case labels add to.
SwitchOf(g) == Last(g.switches)
SwitchInst(g) == g.blocks[SwitchOf(g).b][SwitchOf(g).i]

\* The instruction just emitted takes the labels, break goes past the statement.
OpenSwitch(g, n, then) ==
  [EnterJumps(g, n, then, 0)
     EXCEPT !.switches = Append(@, [b |-> g.at, i |-> Len(g.blocks[g.at])])]

VisitSwitchStmt(g, n) ==
  LET default == Made(g) + 1
      then == Made(g) + 2
      g0 == Emit(Read(Create(g, 2), n, "cond"), Switch(default))
      g2 == Visit(OpenSwitch(g0, n, then), nodes[n].kids[1])
      g3 == IF nodes[n].dflt = Null THEN Emit(Place(g2, default), Br(then)) ELSE g2
      g4 == IF Unterminated(g3, default)
            THEN Emit(SetInsertPoint(g3, default), Br(then)) ELSE g3
  IN  [LeaveJumps(Place(g4, then), n) EXCEPT !.switches = Front(@)]

\* The block of the case before, if it was left open, goes on into block b.
FallThrough(g, b) ==
  LET cases == SwitchInst(g).cases
  IN  IF cases = <<>> THEN g ELSE BranchUnlessTerminated(g, Last(cases)[2], b)

VisitCaseStmt(g, n) ==
  LET b == Made(g) + 1
      s == SwitchOf(g)
      g1 == FallThrough(Create(g, 1), b)
      g2 == [g1 EXCEPT !.blocks[s.b][s.i].cases = Append(@, <<nodes[n].val, b>>)]
  IN  VisitBlockStmt(Place(g2, b), n)

VisitDefaultStmt(g, n) ==
  LET b == SwitchInst(g).to IN VisitBlockStmt(Place(FallThrough(g, b), b), n)

Visit(g, n) ==
  IF n = Null THEN Crash(g)
  ELSE CASE nodes[n].kind = "block" -> VisitBlockStmt(g, n)
         [] nodes[n].kind = "x" -> Read(g, n, "expr")
         [] nodes[n].kind = "int" -> VisitVariableDecl(g, n, "expr")
         [] nodes[n].kind = "if" -> VisitIfStmt(g, n)
         [] nodes[n].kind \in {"for", "while"} -> VisitForStmt(g, n)
         [] nodes[n].kind = "do" -> VisitDoWhileStmt(g, n)
         [] nodes[n].kind = "switch" -> VisitSwitchStmt(g, n)
         [] nodes[n].kind = "case" -> VisitCaseStmt(g, n)
         [] nodes[n].kind = "default" -> VisitDefaultStmt(g, n)
         [] nodes[n].kind = "break" -> VisitBreakStmt(g, n)
         [] nodes[n].kind = "continue" -> VisitContinueStmt(g, n)
         [] nodes[n].kind = "return" -> VisitReturnStmt(g)

\* The body of a function; a last block left open returns.
VisitFunctionDecl ==
  LET g == Visit(StartOfFunction, 1)
  IN  IF Unterminated(g, Last(g.placed)) THEN Emit(g, Ret) ELSE g

-----------------------------------------------------------------------------
(***************************************************************************)
(* What llvm::verifyModule accepts of this code: every block ends in its   *)
(* only terminator, branches stay in the function, and no switch has two   *)
(* cases of one value.                                                     *)
(***************************************************************************)
Targets(i) ==
  CASE i.op = "br" -> {i.to}
    [] i.op = "condbr" -> {i.to, i.other}
    [] i.op = "switch" -> {i.to} \cup {c[2] : c \in Range(i.cases)}
    [] OTHER -> {}

verifyModule(g) ==
  \A b \in Range(g.placed) :
    LET code == g.blocks[b]
    IN  /\ ~Unterminated(g, b)
        /\ \A i \in 1..Len(code) :
             /\ IsTerminator(code[i]) => i = Len(code)
             /\ Targets(code[i]) \subseteq Range(g.placed)
             /\ Cardinality({c[1] : c \in Range(code[i].cases)}) = Len(code[i].cases)
=============================================================================
