------------------------------ MODULE StmtExec ------------------------------
(***************************************************************************)
(* One function body from text to execution: parsed (StmtParser),          *)
(* compiled (StmtCodeGen), verified as main.cc does, and run.  A run       *)
(* executes the basic blocks one instruction at a time; what an evaluation *)
(* yields is any of its outcomes.                                          *)
(***************************************************************************)
EXTENDS StmtCodeGen

CONSTANTS Considered(_)   \* bound: the trees that are taken on to code generation

VARIABLES code,   \* the blocks of the compiled function
          block, index, value,
          last    \* the statement whose variable was read or written last

execVars == <<code, block, index, value, last>>
vars == <<parserVars, status, execVars>>

Instruction == code[block][index]
Outcomes(i) ==
  IF i.part # "cond" THEN {"none"}
  ELSE IF nodes[i.node].kind = "switch" THEN CaseValues \cup {"other"}
  ELSE {"true", "false"}

Init ==
  /\ ParseInit
  /\ code = <<>> /\ block = 0 /\ index = 0 /\ value = "none" /\ last = 0

Parse == ParseStmt /\ UNCHANGED execVars

\* CodeGen, then assert(!verifyModule(module)) before the function may run.
Compile ==
  /\ status = "parsed" /\ Considered(nodes)
  /\ LET g == VisitFunctionDecl
     IN  IF g.crash \/ ~verifyModule(g)
         THEN /\ status' = IF g.crash THEN "crash" ELSE "assert"
              /\ UNCHANGED execVars
         ELSE /\ status' = "running"
              /\ code' = g.blocks /\ block' = 1 /\ index' = 1
              /\ UNCHANGED <<value, last>>
  /\ UNCHANGED parserVars

\* The block a terminator leads to.
Destination(i, v) ==
  CASE i.op = "br" -> i.to
    [] i.op = "condbr" -> IF v = "true" THEN i.to ELSE i.other
    [] i.op = "switch" ->
         LET hits == {c \in Range(i.cases) : c[1] = v}
         IN  IF hits = {} THEN i.to ELSE (CHOOSE c \in hits : TRUE)[2]

Execute ==
  /\ status = "running"
  /\ LET i == Instruction
     IN  \/ /\ i.op = "eval"
            /\ value' \in Outcomes(i)
            /\ last' = i.decl
            /\ index' = index + 1
            /\ UNCHANGED <<code, block, status>>
         \/ /\ i.op \in {"br", "condbr", "switch"}
            /\ block' = Destination(i, value)
            /\ index' = 1
            /\ UNCHANGED <<code, value, last, status>>
         \/ /\ i.op = "ret"
            /\ status' = "done"
            /\ UNCHANGED execVars
  /\ UNCHANGED parserVars

Stopped ==
  /\ status \notin {"run", "parsed", "running"} \/ (status = "parsed" /\ ~Considered(nodes))
  /\ UNCHANGED vars

Next == Parse \/ Compile \/ Execute \/ Stopped
Spec == Init /\ [][Next]_vars
-----------------------------------------------------------------------------
\* The evaluation that a run at instruction i of block b comes to next.
RECURSIVE Pending(_, _)
Pending(b, i) ==
  LET in == code[b][i]
  IN  CASE in.op = "eval" -> <<in.node, in.part>>
        [] in.op = "ret" -> <<0, "end">>
        [] OTHER -> Pending(Destination(in, value), 1)

Meaning == INSTANCE CStatements WITH
             at <- IF status \in {"running", "done"} THEN Pending(block, index) ELSE <<0, "idle">>

\* A compiled function does what its text says: what it evaluates after an evaluation that
\* yielded value is what the structured statements evaluate then, about the same variable.
RunsAsWritten == Meaning!Spec
-----------------------------------------------------------------------------
(***************************************************************************)
(* What the sources say and the code does not do.                          *)
(***************************************************************************)

\* main.cc:51: the module generated for an accepted text passes the verifier.
ModuleVerifies == status # "assert"

\* codegen.h:95, parser.cc:852: names have their scopes in the generated code too; the
\* instructions of an expression address the variable that Sema resolved its name to.
ScopesAgree ==
  \A b \in DOMAIN code : \A i \in DOMAIN code[b] :
    code[b][i].op = "eval" => code[b][i].decl = nodes[code[b][i].node].decl
=============================================================================
