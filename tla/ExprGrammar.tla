---------------------------- MODULE ExprGrammar ----------------------------
(***************************************************************************)
(* The trees that the grammar of expressions (doc/ebnf.txt) has for a      *)
(* text: read as the left-recursive productions of C, by all the ways to   *)
(* split the text, and not by a descent from left to right.                *)
(***************************************************************************)
EXTENDS Sequences, Integers

CONSTANTS text

Node(op, kids) == [op |-> op, prefix |-> FALSE, at |-> 0, kids |-> kids]
Prefix(op, kids) == [Node(op, kids) EXCEPT !.prefix = TRUE]

\* The binary levels from loose to tight: their operators, and the level of a right operand.
Infix ==
  [expr |-> <<{","}, "assign">>, logor |-> <<{"||"}, "logand">>,
   logand |-> <<{"&&"}, "bitor">>, bitor |-> <<{"|"}, "bitxor">>,
   bitxor |-> <<{"^"}, "bitand">>, bitand |-> <<{"&"}, "equal">>,
   equal |-> <<{"==", "!="}, "relational">>,
   relational |-> <<{"<", ">", "<=", ">="}, "shift">>,
   shift |-> <<{"<<", ">>"}, "add">>, add |-> <<{"+", "-"}, "mult">>,
   mult |-> <<{"*", "/", "%"}, "cast">>]
Assignments == {"=", "+=", "-=", "*=", "/=", "%=", "|=", "&=", "^=", "<<=", ">>="}
Prefixes == {"++", "--", "+", "-", "*", "&", "!", "~", "sizeof"}

Reads(i, s) == i + Len(s) - 1 \in DOMAIN text /\ SubSeq(text, i, i + Len(s) - 1) = s
At(ops, i, j) == {k \in i..j : text[k] \in ops}
TypeName == <<"(", "T", ")">>

RECURSIVE Trees(_, _, _), Arguments(_, _)

\* Operator op over a tree of each of the sets.
Unary(op, S) == {Node(op, <<a>>) : a \in S}
Binary(op, S, T) == {Node(op, <<a, b>>) : a \in S, b \in T}

\* The trees of the tokens i to j as a p.
Trees(p, i, j) ==
  IF i > j THEN {}
  ELSE IF p \in DOMAIN Infix
  THEN Trees(Infix[p][2], i, j) \cup
       UNION {Binary(text[k], Trees(p, i, k-1), Trees(Infix[p][2], k+1, j)) :
                k \in At(Infix[p][1], i, j)}
  ELSE CASE p = "assign" ->
         Trees("conditional", i, j) \cup
         UNION {Binary(text[k], Trees("conditional", i, k-1), Trees("assign", k+1, j)) :
                  k \in At(Assignments, i, j)}
    [] p = "conditional" ->
         Trees("logor", i, j) \cup
         UNION {{Node("?", <<a, b, c>>) : a \in Trees("logor", i, k-1),
                                          b \in Trees("expr", k+1, l-1),
                                          c \in Trees("conditional", l+1, j)} :
                  <<k, l>> \in At({"?"}, i, j) \X At({":"}, i, j)}
    [] p = "cast" ->
         Trees("unary", i, j) \cup
         IF Reads(i, TypeName) THEN {Prefix("(T)", <<a>>) : a \in Trees("cast", i+3, j)} ELSE {}
    [] p = "unary" ->
         Trees("postfix", i, j) \cup
         (IF text[i] \in Prefixes THEN {Prefix(text[i], <<a>>) : a \in Trees("unary", i+1, j)} ELSE {})
         \cup
         (IF j = i + 3 /\ Reads(i, <<"sizeof">> \o TypeName) THEN {Prefix("sizeof(T)", <<>>)} ELSE {})
    [] p = "postfix" ->
         Trees("primary", i, j) \cup
         (IF text[j] \in {"++", "--"} THEN Unary(text[j], Trees("postfix", i, j-1)) ELSE {}) \cup
         (IF j > i + 1 /\ text[j] = "x" /\ text[j-1] \in {".", "->"}
          THEN Unary(text[j-1], Trees("postfix", i, j-2)) ELSE {}) \cup
         (IF text[j] = "]" THEN UNION {Binary("[", Trees("postfix", i, k-1), Trees("expr", k+1, j-1)) :
                                         k \in At({"["}, i, j)} ELSE {}) \cup
         (IF text[j] = ")" THEN UNION {{Node("(", <<a>> \o as) : a \in Trees("postfix", i, k-1),
                                                               as \in Arguments(k+1, j-1)} :
                                         k \in At({"("}, i, j)} ELSE {})
    [] p = "primary" ->
         (IF i = j /\ text[i] = "x" THEN {[Node("x", <<>>) EXCEPT !.at = i]} ELSE {}) \cup
         (IF text[i] = "(" /\ text[j] = ")" THEN Trees("expr", i+1, j-1) ELSE {})

\* The sequences of arguments that the tokens i to j are.
Arguments(i, j) ==
  IF i > j THEN {<<>>}
  ELSE {<<a>> : a \in Trees("assign", i, j)} \cup
       UNION {{<<a>> \o as : a \in Trees("assign", i, k-1), as \in Arguments(k+1, j) \ {<<>>}} :
                k \in At({","}, i, j)}
=============================================================================
