------------------------------- MODULE MCExpr -------------------------------
(***************************************************************************)
(* Small expressions for ExprExec.                                         *)
(***************************************************************************)
EXTENDS ExprExec

SmallInts == {-1, 0, 2}

-----------------------------------------------------------------------------
\* Texts with one operator more than those of S, from infix operators and brackets.
More(S, infixes, wraps) ==
  LET Around(a) ==
        [paren |-> <<"(">> \o a \o <<")">>, after |-> a \o <<"++">>, index |-> <<"x", "[">> \o a \o <<"]">>,
         call |-> <<"x", "(">> \o a \o <<")">>, args |-> <<"x", "(", "x", ",">> \o a \o <<")">>,
         none |-> a \o <<"(", ")">>, if |-> a \o <<"?", "x", ":", "x">>,
         then |-> <<"x", "?">> \o a \o <<":", "x">>, else |-> <<"x", "?", "x", ":">> \o a,
         cast |-> <<"(", "T", ")">> \o a, minus |-> <<"-">> \o a, inc |-> <<"++">> \o a,
         not |-> <<"!">> \o a, com |-> <<"~">> \o a, sizeof |-> <<"sizeof">> \o a]
  IN  {Around(a)[w] : a \in S, w \in wraps} \cup {a \o <<o, "x">> : a \in S, o \in infixes}
        \cup {<<"x", o>> \o a : a \in S, o \in infixes}

AllWraps == {"paren", "after", "index", "call", "args", "none", "if", "then", "else", "cast",
             "minus", "inc", "not", "com", "sizeof"}
LogicWraps == {"paren", "after", "if", "then", "else", "not"}
\* An operator of each level, two where they group with each other.
Infixes == {",", "=", "+=", "||", "&&", "|", "^", "&", "==", "<", ">>", "+", "-", "*", "."}
Simple == {<<"x">>, <<"sizeof", "(", "T", ")">>}

\* All texts of up to three tokens, expressions of two operators, and some of three.
Alphabet == Infixes \cup {"x", "T", "(", ")", "[", "]", "?", ":", "++", "!", "sizeof"}
Short == UNION {[1..n -> Alphabet] : n \in 1..3}
TwoOperators == More(More(Simple, Infixes, AllWraps), Infixes, AllWraps)
Logic == More(More(More({<<"x">>}, {"&&", "||", "-"}, LogicWraps), {"&&", "||"}, LogicWraps),
              {"&&", "||", "="}, LogicWraps)
Expressions == Short \cup TwoOperators \cup Logic

-----------------------------------------------------------------------------
\* The operators that ExprCodeGen has, on operands that C allows them.
RECURSIVE Supported(_)
Supported(t) ==
  /\ \A i \in DOMAIN t.kids : Supported(t.kids[i])
  /\ t.op \in {"=", "+=", "-=", "*=", "++", "--"} => t.kids[1].op = "x"
  /\ IF t.prefix THEN t.op \in {"+", "-", "~", "!", "++", "--", "(T)", "sizeof", "sizeof(T)"}
     ELSE t.op \in {"x", ",", "=", "+=", "-=", "*=", "||", "&&", "?", "+", "-", "*", "++", "--"}
                    \cup Comparisons

\* The value of t is one bit, and the value of t is used as an int.
RECURSIVE IsBit(_), BitsAreTested(_)
IsBit(t) == t.op \in Comparisons \/ (t.op = "+" /\ t.prefix /\ IsBit(t.kids[1]))
BitsAreTested(t) ==
  /\ \A i \in DOMAIN t.kids : BitsAreTested(t.kids[i])
  /\ \A i \in DOMAIN t.kids :
       IsBit(t.kids[i]) => t.op \in {"&&", "||", ","} \/ (t.op = "?" /\ i = 1) \/ (t.op = "+" /\ t.prefix)

\* A comma is the statement itself or the left side of such a comma.
RECURSIVE CommasDropped(_)
CommasDropped(t) ==
  \A i \in DOMAIN t.kids : CommasDropped(t.kids[i]) /\ (t.kids[i].op = "," => t.op = "," /\ i = 1)

Plain(t) == Supported(t) /\ BitsAreTested(t) /\ CommasDropped(t)
=============================================================================
