---------------------------- MODULE ExprCodeGen ----------------------------
(***************************************************************************)
(* Expressions in the code generator (codegen.cc): from the trees of       *)
(* ExprParser over one int variable x to basic blocks, and what the blocks *)
(* do when they run.                                                       *)
(*                                                                         *)
(* A visitor takes the generator g and returns it with the llvm::Value v   *)
(* of the expression.  A value is the instruction that computes it (id),   *)
(* or an int constant (id 0), with its width: a comparison is one bit.     *)
(* The null pointer and a failed assertion are crashes.                    *)
(***************************************************************************)
EXTENDS ExprParser

-----------------------------------------------------------------------------
Value(id, bits, load) == [id |-> id, const |-> 0, bits |-> bits, load |-> load]
Const(c) == [Value(0, 32, FALSE) EXCEPT !.const = c]
Nullptr == Value(-1, 0, FALSE)

StartOfFunction == [blocks |-> <<<<>>>>, placed |-> <<1>>, at |-> 1, ids |-> 0, crash |-> FALSE]
Result(g, v) == [g |-> g, v |-> v]
Crash(g) == Result([g EXCEPT !.crash = TRUE], Nullptr)

\* An instruction: its operands, for phi the blocks they come from, for br the targets.
Emit(g, op, id, args, blocks) ==
  [g EXCEPT !.blocks[g.at] = Append(@, [op |-> op, id |-> id, args |-> args, blocks |-> blocks])]
Build(g, op, args, bits) ==
  IF Nullptr \in Range(args) THEN Crash(g)
  ELSE Result(Emit([g EXCEPT !.ids = @ + 1], op, g.ids + 1, args, <<>>),
              Value(g.ids + 1, bits, op = "load"))
Br(g, b) == Emit(g, "br", 0, <<>>, <<b>>)
CondBr(g, v, b, c) == Emit(g, "condbr", 0, <<v>>, <<b, c>>)
Store(g, v) == Emit(g, "store", 0, <<v>>, <<>>)
Phi(g, v, b, w, c) ==
  Result(Emit([g EXCEPT !.ids = @ + 1], "phi", g.ids + 1, <<v, w>>, <<b, c>>),
         Value(g.ids + 1, 32, FALSE))

Create(g, k) == [g EXCEPT !.blocks = @ \o [j \in 1..k |-> <<>>]]
Made(g) == Len(g.blocks)
Place(g, b) == [g EXCEPT !.placed = Append(@, b), !.at = b]

-----------------------------------------------------------------------------
\* CreateIntCast to int, signed.
AssignCast(g, v) ==
  IF v = Nullptr THEN Crash(g) ELSE IF v.bits = 32 THEN Result(g, v) ELSE Build(g, "sext", <<v>>, 32)
BooleanCast(g, v) ==
  IF v = Nullptr THEN Crash(g) ELSE IF v.bits = 1 THEN Result(g, v) ELSE Build(g, "ne0", <<v>>, 1)

RECURSIVE Visit(_, _)

\* A statically chosen operation on both operands, after BinaryArithCast.
Comparisons == {"==", "!=", "<", ">", "<=", ">="}
Arithmetic(g, op, v, w) ==
  LET l == AssignCast(g, v)
      r == AssignCast(l.g, w)
  IN  Build(r.g, op, <<l.v, r.v>>, IF op \in Comparisons THEN 1 ELSE 32)

\* The left side must be a load, whose address is stored to.
StoreTo(g, left, r) == IF left.load /\ ~r.g.crash THEN Result(Store(r.g, r.v), r.v) ELSE Crash(g)

\* The operation of a compound assignment.
CompoundOp == "+=" :> "+" @@ "-=" :> "-" @@ "*=" :> "*" @@ "/=" :> "/" @@ "%=" :> "%" @@ "|=" :> "|"
           @@ "&=" :> "&" @@ "^=" :> "^" @@ "<<=" :> "<<" @@ ">>=" :> ">>"

\* Every binary operator but && and ||.  There is no case for the comma.
VisitBinaryExpr(g, t) ==
  LET l == Visit(g, t.kids[1])
      r == Visit(l.g, t.kids[2])
  IN  CASE t.op = "," -> Result(r.g, Nullptr)
        [] t.op = "=" -> StoreTo(r.g, l.v, AssignCast(r.g, r.v))
        [] t.op \in DOMAIN CompoundOp ->
             StoreTo(r.g, l.v, Arithmetic(r.g, CompoundOp[t.op], l.v, r.v))
        [] OTHER -> Arithmetic(r.g, t.op, l.v, r.v)

\* Fault: a value comes from the block its code began in.
F_FirstBlock(g, next) == next

\* A value comes from the block its code has ended in.
LastBlock(g, next) == g.at

\* && and ||: the constant when the left operand decides, with a block of its own.
VisitLogical(g, t) ==
  LET next == Made(g) + 1
      short == Made(g) + 2
      merge == Made(g) + 3
      l == Visit(Create(g, 3), t.kids[1])
      c == BooleanCast(l.g, l.v)
      g1 == IF t.op = "&&" THEN CondBr(c.g, c.v, next, short) ELSE CondBr(c.g, c.v, short, next)
      r == Visit(Place(g1, next), t.kids[2])
      b == BooleanCast(r.g, r.v)
      z == Build(b.g, "zext", <<b.v>>, 32)
      g2 == Br(z.g, merge)
      g3 == Br(Place(g2, short), merge)
  IN  Phi(Place(g3, merge), z.v, LastBlock(g2, next), Const(IF t.op = "&&" THEN 0 ELSE 1), short)

\* The then block is in the function from the start.
VisitThreeExpr(g, t) ==
  LET then == Made(g) + 1
      els == Made(g) + 2
      merge == Made(g) + 3
      g0 == [Create(g, 3) EXCEPT !.placed = Append(@, then)]
      v == Visit(g0, t.kids[1])
      c == BooleanCast(v.g, v.v)
      a == Visit([CondBr(c.g, c.v, then, els) EXCEPT !.at = then], t.kids[2])
      b == Visit(Place(Br(a.g, merge), els), t.kids[3])
      g3 == Place(Br(b.g, merge), merge)
      x == AssignCast(g3, a.v)
      y == AssignCast(x.g, b.v)
  IN  Phi(y.g, x.v, LastBlock(a.g, then), y.v, LastBlock(b.g, els))

\* ++x, --x, x++ and x--: what is stored, and what the expression is worth.
Step(g, t) ==
  LET l == Visit(g, t.kids[1])
      n == Build(l.g, IF t.op = "++" THEN "+" ELSE "-", <<l.v, Const(1)>>, 32)
  IN  IF ~l.v.load THEN Crash(g) ELSE Result(Store(n.g, n.v), IF t.prefix THEN n.v ELSE l.v)

VisitUnaryExpr(g, t) ==
  LET v == Visit(g, t.kids[1])
  IN  CASE t.op \in {"++", "--"} -> Step(g, t)
        [] t.op = "+" -> v
        [] t.op = "-" -> Build(v.g, "neg", <<v.v>>, v.v.bits)
        [] t.op = "~" -> Build(v.g, "com", <<v.v>>, v.v.bits)
        [] t.op = "!" ->
             IF v.v.bits = 1 THEN Crash(g)
             ELSE LET b == BooleanCast(v.g, v.v)
                      n == Build(b.g, "not", <<b.v>>, 1)
                  IN  Build(n.g, "zext", <<n.v>>, 32)

\* The operand of a sizeof is not visited.
Visit(g, t) ==
  IF g.crash THEN Crash(g)
  ELSE CASE t.op = "x" -> Build(g, "load", <<>>, 32)
         [] t.op \in {"sizeof", "sizeof(T)"} -> Result(g, Const(4))
         [] t.op = "(T)" -> LET v == Visit(g, t.kids[1]) IN AssignCast(v.g, v.v)
         [] t.op \in {"&&", "||"} -> VisitLogical(g, t)
         [] t.op = "?" -> VisitThreeExpr(g, t)
         [] t.prefix -> VisitUnaryExpr(g, t)
         [] t.op \in {"++", "--"} -> Step(g, t)
         [] OTHER -> VisitBinaryExpr(g, t)

\* The statement t;  Its value, which the statement drops, is what the code "returns".
Code(t) == LET v == Visit(StartOfFunction, t) IN Emit(v.g, "ret", 0, <<v.v>>, <<>>)
=============================================================================
