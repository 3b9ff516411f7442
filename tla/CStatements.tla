---------------------------- MODULE CStatements ----------------------------
(***************************************************************************)
(* What the statements of C mean, on the syntax tree alone: the order in   *)
(* which the expressions of a function body are evaluated, given what each *)
(* evaluation yields, and the declaration whose variable each one is       *)
(* about.  No code is generated here and no jump is resolved beforehand:   *)
(* break, continue, the labels of a switch and the scope of a name are     *)
(* found by looking outwards from the statement.                           *)
(*                                                                         *)
(* The state is the evaluation that comes next, and the variable and the   *)
(* value of the last one: where control goes is decided by that value.     *)
(***************************************************************************)
EXTENDS Integers, Sequences, FiniteSets

CONSTANTS CaseValues, Global

VARIABLES nodes, at, last, value

Idle == <<0, "idle">>
End == <<0, "end">>

IsLoop(n) == nodes[n].kind \in {"for", "while", "do"}
IsSwitch(n) == nodes[n].kind = "switch"
HasBody(n) == nodes[n].kids[1] # 0

Innermost(S) == CHOOSE n \in S : \A m \in S : m <= n

\* The statements around n, n included.
RECURSIVE Around(_)
Around(n) == IF n = 0 THEN {} ELSE {n} \cup Around(nodes[n].up)

BreaksOutOf(n) == Innermost({m \in Around(n) : IsLoop(m) \/ IsSwitch(m)})
ContinuesWith(n) == Innermost({m \in Around(n) : IsLoop(m)})
LabelsOf(s) == {n \in DOMAIN nodes : /\ nodes[n].kind \in {"case", "default"}
                                     /\ Innermost({m \in Around(n) : IsSwitch(m)}) = s}

\* Where control goes on entering statement n, and after it.
RECURSIVE Enter(_), After(_)

Test(n) == <<n, "cond">>
Body(n) == IF HasBody(n) THEN Enter(nodes[n].kids[1])
           ELSE IF nodes[n].header.inc THEN <<n, "inc">> ELSE Test(n)
TestOfFor(n) == IF nodes[n].header.cond THEN Test(n) ELSE Body(n)
Again(n) == CASE nodes[n].header.inc -> <<n, "inc">>
              [] nodes[n].kind = "for" /\ ~nodes[n].header.inc -> TestOfFor(n)
              [] OTHER -> Test(n)

Enter(n) ==
  CASE nodes[n].kind \in {"x", "int"} -> <<n, "expr">>
    [] nodes[n].kind \in {"if", "while", "switch"} -> Test(n)
    [] nodes[n].kind = "for" -> IF nodes[n].header.init THEN <<n, "init">> ELSE TestOfFor(n)
    [] nodes[n].kind = "do" -> Body(n)
    [] nodes[n].kind = "break" -> After(BreaksOutOf(n))
    [] nodes[n].kind = "continue" -> Again(ContinuesWith(n))
    [] nodes[n].kind = "return" -> End
    [] nodes[n].kind \in {"block", "case", "default"} ->
         IF nodes[n].kids = <<>> THEN After(n) ELSE Enter(nodes[n].kids[1])

After(n) ==
  LET p == nodes[n].up
  IN  CASE n = 1 -> End
        [] n # 1 /\ IsLoop(p) -> Again(p)
        [] n # 1 /\ nodes[p].kind \in {"if", "switch"} -> After(p)
        [] OTHER ->
             LET next == 1 + CHOOSE i \in DOMAIN nodes[p].kids : nodes[p].kids[i] = n
             IN  IF next > Len(nodes[p].kids) THEN After(p) ELSE Enter(nodes[p].kids[next])

\* What evaluation e may yield, and where control goes when it has yielded v.
Outcomes(e) ==
  IF e[2] # "cond" THEN {"none"}
  ELSE IF IsSwitch(e[1]) THEN CaseValues \cup {"other"} ELSE {"true", "false"}

Choice(n, v) ==
  LET labels == LabelsOf(n)
      cases == {l \in labels : nodes[l].kind = "case" /\ nodes[l].val = v}
      defaults == {l \in labels : nodes[l].kind = "default"}
  IN  IF cases # {} THEN Enter(CHOOSE l \in cases : TRUE)
      ELSE IF defaults # {} THEN Enter(CHOOSE l \in defaults : TRUE)
      ELSE After(n)

Part(n, i) == IF Len(nodes[n].kids) < i \/ nodes[n].kids[i] = 0 THEN After(n)
              ELSE Enter(nodes[n].kids[i])

Successor(e, v) ==
  CASE e[2] = "expr" -> After(e[1])
    [] e[2] = "init" -> TestOfFor(e[1])
    [] e[2] = "inc" -> TestOfFor(e[1])
    [] e[2] = "cond" /\ IsLoop(e[1]) -> IF v = "true" THEN Body(e[1]) ELSE After(e[1])
    [] e[2] = "cond" /\ IsSwitch(e[1]) -> Choice(e[1], v)
    [] OTHER -> Part(e[1], IF v = "true" THEN 1 ELSE 2)

(***************************************************************************)
(* The declaration x refers to in statement n: a scope is a block, or a    *)
(* for with what it declares, and the name holds from its declaration on.  *)
(***************************************************************************)
Declares(n) == nodes[n].kind = "int" \/ nodes[n].header.init
ScopeOf(d) == IF nodes[d].kind = "for" THEN d
              ELSE Innermost({m \in Around(d) : nodes[m].kind \in {"block", "for"}})
Visible(n) ==
  {d \in DOMAIN nodes :
     /\ Declares(d)
     /\ ScopeOf(d) \in Around(n)
     /\ d <= n \/ (nodes[n].kind = "do" /\ n \in Around(d))}
Declaration(n) ==
  IF Visible(n) = {} THEN Global
  ELSE LET scope == Innermost({ScopeOf(d) : d \in Visible(n)})
       IN  CHOOSE d \in Visible(n) : ScopeOf(d) = scope

Init == at = Idle /\ last = 0 /\ value = "none"

Parse == at = Idle /\ at' = Idle /\ UNCHANGED <<last, value>>
Start == at = Idle /\ at' = Enter(1) /\ UNCHANGED <<nodes, last, value>>
Evaluate ==
  /\ at \notin {Idle, End}
  /\ value' \in Outcomes(at)
  /\ at' = Successor(at, value')
  /\ last' = Declaration(at[1])
  /\ UNCHANGED nodes

Spec == Init /\ [][Parse \/ Start \/ Evaluate]_<<nodes, at, last, value>>
=============================================================================
