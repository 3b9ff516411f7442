----------------------------- MODULE MCStmtExec -----------------------------
(***************************************************************************)
(* Small function bodies for StmtExec.                                     *)
(***************************************************************************)
EXTENDS StmtExec

CONSTANTS v1, v2

OneName == {"x"}
OneValue == {v1}
TwoValues == {v1, v2}

LoopTokens == {";", "x", "int", "{", "if", "else", "for", "while", "do",
               "break", "continue", "return"}
SwitchTokens == {"x", "{", "switch", "case", "default", "break"}
JumpTokens == {"x", "{", "while", "switch", "case", "default", "break", "continue"}
NameTokens == {"x", "int", "{", "for"}

\* Bodies of fewer than k statements begun by tokens of T.
Within(T, k, ns, t) == t \in T /\ Kinds(ns) \subseteq T \cup {"block"} /\ Len(ns) < k
Switches(ns, t) == Within(SwitchTokens, 7, ns, t)
Headers(ns, t) == Within(NameTokens, 5, ns, t)
LoopsAndSwitches(ns, t) ==
  \/ Within(LoopTokens, 5, ns, t)
  \/ Switches(ns, t)
  \/ Within(JumpTokens, 7, ns, t)

AllForms == {s \in [init : BOOLEAN, cond : BOOLEAN, inc : BOOLEAN] : s.cond \/ s.inc}
FullForms == {s \in AllForms : s.init /\ s.cond /\ s.inc}
SomeForms == {s \in AllForms : s.init => s.cond /\ s.inc}

Every(t) == TRUE

(***************************************************************************)
(* The trees the runs go on with.  The first three leave out those on      *)
(* which the generator is known to go wrong; see README.                   *)
(***************************************************************************)

\* A default is the last label of its switch.
DefaultsLast(t) ==
  \A d, c \in DOMAIN t :
    t[d].kind = "default" /\ t[c].kind = "case" /\ c > d => t[d].target \notin Meaning!Around(c)
\* No label comes after a jump in one sequence, where the generator has stopped.
Labels == {"case", "default"}
JumpsLast(t) ==
  \A n \in DOMAIN t : \A i, j \in DOMAIN t[n].kids :
    /\ i < j
    /\ Sequences(n)
    /\ t[t[n].kids[i]].kind \in {"break", "continue", "return"}
    => \A m \in DOMAIN t : t[m].kind \in Labels => t[n].kids[j] \notin Meaning!Around(m)

\* The generator's scope of a declaration is the sequence around it.
Level(n) == Meaning!Innermost({m \in Meaning!Around(nodes[n].up) : Sequences(m)})
\* What a for declares is not used, or declared again, in the rest of the sequence, and
\* declarations stand in sequences only, as the grammar of C has it.
PlainHeaders(t) ==
  /\ \A n \in DOMAIN t : t[n].kind = "int" => Sequences(t[n].up)
  /\ \A f, n \in DOMAIN t :
       f # n /\ t[f].header.init /\ Level(f) \in Meaning!Around(n) /\ f \notin Meaning!Around(n)
         => /\ n < f
            /\ t[n].kind = "int" \/ t[n].header.init \/ t[n].header.inc => Level(n) # Level(f)
            /\ t[n].kind = "do" => n \notin Meaning!Around(f) \/ Level(n) # Level(f)

Plain(t) == DefaultsLast(t) /\ JumpsLast(t) /\ PlainHeaders(t)

\* Everything in the body of a switch is under a label.
Labelled(t) ==
  \A n \in DOMAIN t : t[n].kind = "switch" =>
    LET body == t[n].kids[1]
    IN  body # Null /\ t[body].kind = "block" /\ \A k \in Range(t[body].kids) : t[k].kind \in Labels
=============================================================================
