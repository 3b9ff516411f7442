--------------------------- MODULE LexicalScoping ---------------------------
(***************************************************************************)
(* What the parser promises about names, with no parser in sight: the C    *)
(* rule of block structure.  Scopes nest; a declaration is entered in the  *)
(* innermost scope, once, and is never replaced or withdrawn while its     *)
(* scope is open; nothing else ever happens.  In particular there is no    *)
(* looking ahead.                                                          *)
(***************************************************************************)
EXTENDS Integers, Sequences

CONSTANT Keys       \* the names of all name spaces

VARIABLE scopes     \* the open scopes: for every key where it is declared, or 0

Blank == [k \in Keys |-> 0]
Inner == Len(scopes)

Open == scopes' = Append(scopes, Blank)

\* The step s to t enters k, which was absent, in the innermost scope of s.
Enters(s, t, k) ==
  /\ s[Len(s)][k] = 0
  /\ Len(t) = Len(s)
  /\ t[Len(s)][k] # 0
  /\ t = [s EXCEPT ![Len(s)][k] = t[Len(s)][k]]

Declare == \E k \in Keys : Enters(scopes, scopes', k)

Outer == SubSeq(scopes, 1, Inner - 1)

Close == Inner > 1 /\ scopes' = Outer

\* A function's scope ends and its name is declared where the function stands; so
\* does a struct's, with its tag.
CloseAndDeclare == Inner > 1 /\ \E k \in Keys : Enters(Outer, scopes', k)

Init == scopes = <<Blank>>
Next == Open \/ Declare \/ Close \/ CloseAndDeclare

Spec == Init /\ [][Next]_scopes
=============================================================================
