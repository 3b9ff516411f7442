----------------------------- MODULE ExprParser -----------------------------
(***************************************************************************)
(* The expression parser (parser.cc: ParseExpr to ParsePrimaryExpr) as the *)
(* machine it is: a stack of calls, one for each procedure that has been   *)
(* entered and has not returned, and the token under the lexer.  A call    *)
(* keeps the trees its callees have returned so far and the operator it    *)
(* has read.  One step is one call, one return or one token with what is   *)
(* done about it.                                                          *)
(*                                                                         *)
(* A token stands for its kind.  "x" is an operand (a variable or a        *)
(* number), "T" the tokens of a type name.  Types are taken to fit, so     *)
(* that of the semantic actions only the tree they build remains.          *)
(***************************************************************************)
EXTENDS SequencesExt, Integers

CONSTANT Texts   \* bound: the expressions that are read, as sequences of tokens
ASSUME TextsAssumption == \A t \in Texts : t \in Seq(STRING)

VARIABLES text, at,     \* the tokens and the position of the parser's token
          calls,
          status,       \* "parsing", "accepted", "rejected"
          tree          \* the tree of an accepted text

vars == <<text, at, calls, status, tree>>

-----------------------------------------------------------------------------
\* The procedures, each followed by the one it calls for an operand.
Procedures == <<"expr", "assign", "conditional", "logor", "logand", "bitor", "bitxor",
                "bitand", "equal", "relational", "shift", "add", "mult", "cast",
                "unary", "postfix", "primary">>
Below(p) == Procedures[1 + CHOOSE i \in 1..16 : Procedures[i] = p]

\* The tokens that the loop of a left-associative procedure goes on with.
Operators ==
  [expr |-> {","}, logor |-> {"||"}, logand |-> {"&&"}, bitor |-> {"|"}, bitxor |-> {"^"},
   bitand |-> {"&"}, equal |-> {"==", "!="}, relational |-> {"<", ">", "<=", ">="},
   shift |-> {"<<", ">>"}, add |-> {"+", "-"}, mult |-> {"*", "/", "%"}]
IsAssignOperator(t) ==
  t \in {"=", "+=", "-=", "*=", "/=", "%=", "|=", "&=", "^=", "<<=", ">>="}
IsUnaryOperator(t) == t \in {"++", "--", "+", "-", "*", "&", "!", "~", "sizeof"}

\* The tree of operator op over the trees kids; an operand is where it stands, and
\* a prefix operator is told from its binary or postfix namesake.
Node(op, kids) == [op |-> op, prefix |-> FALSE, at |-> 0, kids |-> kids]
Prefix(op, kids) == [Node(op, kids) EXCEPT !.prefix = TRUE]
Operand(i) == [Node("x", <<>>) EXCEPT !.at = i]

TokenAt(i) == IF i \in DOMAIN text THEN text[i] ELSE "eof"
token == TokenAt(at)
Top == Last(calls)

Init ==
  /\ text \in Texts
  /\ at = 1
  /\ calls = <<[procedure |-> "expr", op |-> "", kids |-> <<>>]>>
  /\ status = "parsing"
  /\ tree = Node("", <<>>)

-----------------------------------------------------------------------------
\* What a step does: the top call reads n tokens and is left as c.
Continue(c, n) ==
  /\ calls' = Append(Front(calls), c)
  /\ at' = at + n
  /\ UNCHANGED <<text, status, tree>>

\* It reads n tokens, is left as c and calls p.
CallFrom(c, n, p) ==
  /\ calls' = Front(calls) \o <<c, [procedure |-> p, op |-> "", kids |-> <<>>]>>
  /\ at' = at + n
  /\ UNCHANGED <<text, status, tree>>
Call(p) == CallFrom(Top, 0, p)
CallAfter(op, p) == CallFrom([Top EXCEPT !.op = op], 1, p)

\* It reads n tokens and returns the tree t.  The outermost call returns to
\* ParseExprStmt, which wants the end of the expression there.
Return(t, n) ==
  /\ at' = at + n
  /\ UNCHANGED text
  /\ IF Len(calls) > 1
     THEN /\ calls' = LET below == Front(calls)
                      IN  Append(Front(below), [Last(below) EXCEPT !.kids = Append(@, t)])
          /\ UNCHANGED <<status, tree>>
     ELSE /\ calls' = <<>>
          /\ status' = IF token = "eof" THEN "accepted" ELSE "rejected"
          /\ tree' = t

\* Expect reports the error, which ends the program.
Reject == status' = "rejected" /\ UNCHANGED <<text, at, calls, tree>>

\* Fault: the error does not end the program, and the token is waited for again.
F_Ignored(t, Step) == IF token = t THEN Step ELSE UNCHANGED vars

\* Consume: the step is taken on token t only.
Consume(t, Step) == IF token = t THEN Step ELSE Reject

In(p) == status = "parsing" /\ Top.procedure = p
Returned == Len(Top.kids)
FirstOperand(p) == In(p) /\ Returned = 0 /\ Top.op = "" /\ Call(Below(p))

-----------------------------------------------------------------------------
\* Fault: the right operand is read by the procedure itself.
F_RightAssociative(p) ==
  \/ FirstOperand(p)
  \/ /\ In(p) /\ Returned = 1
     /\ IF token \in Operators[p] THEN CallAfter(token, p) ELSE Return(Top.kids[1], 0)
  \/ /\ In(p) /\ Returned = 2
     /\ Continue([Top EXCEPT !.op = "", !.kids = <<Node(Top.op, Top.kids)>>], 0)

\* The loop of ParseExpr and of the ten binary levels: operands of the level below,
\* grouped from the left.
LeftAssociative(p) ==
  \/ FirstOperand(p)
  \/ /\ In(p) /\ Returned = 1
     /\ IF token \in Operators[p] THEN CallAfter(token, Below(p)) ELSE Return(Top.kids[1], 0)
  \/ /\ In(p) /\ Returned = 2
     /\ Continue([Top EXCEPT !.op = "", !.kids = <<Node(Top.op, Top.kids)>>], 0)

ParseExpr == LeftAssociative("expr")
ParseBinaryExpr == \E p \in DOMAIN Operators \ {"expr"} : LeftAssociative(p)

ParseAssignExpr ==
  \/ FirstOperand("assign")
  \/ /\ In("assign") /\ Returned = 1
     /\ IF IsAssignOperator(token) THEN CallAfter(token, "assign") ELSE Return(Top.kids[1], 0)
  \/ In("assign") /\ Returned = 2 /\ Return(Node(Top.op, Top.kids), 0)

ParseConditionalExpr ==
  \/ FirstOperand("conditional")
  \/ /\ In("conditional") /\ Returned = 1
     /\ IF token = "?" THEN CallAfter("?", "expr") ELSE Return(Top.kids[1], 0)
  \/ In("conditional") /\ Returned = 2 /\ Consume(":", CallAfter("?", "conditional"))
  \/ In("conditional") /\ Returned = 3 /\ Return(Node("?", Top.kids), 0)

\* "(" and a type name ahead, seen with a saved and restored lexer.
TypeNameAhead == token = "(" /\ TokenAt(at + 1) = "T"

ParseCastExpr ==
  \/ /\ In("cast") /\ Returned = 0 /\ TypeNameAhead
     /\ IF TokenAt(at + 2) = ")" THEN CallFrom([Top EXCEPT !.op = "(T)"], 3, "cast") ELSE Reject
  \/ FirstOperand("cast") /\ ~TypeNameAhead
  \/ /\ In("cast") /\ Returned = 1
     /\ Return(IF Top.op = "(T)" THEN Prefix("(T)", Top.kids) ELSE Top.kids[1], 0)

ParseUnaryExpr ==
  \/ /\ In("unary") /\ Returned = 0 /\ Top.op = ""
     /\ IF IsUnaryOperator(token) THEN Continue([Top EXCEPT !.op = token], 1) ELSE Call("postfix")
  \/ /\ In("unary") /\ Returned = 0 /\ Top.op # ""
     /\ IF Top.op = "sizeof" /\ TypeNameAhead
        THEN IF TokenAt(at + 2) = ")" THEN Return(Prefix("sizeof(T)", <<>>), 3) ELSE Reject
        ELSE Call("unary")
  \/ /\ In("unary") /\ Returned = 1
     /\ Return(IF Top.op = "" THEN Top.kids[1] ELSE Prefix(Top.op, Top.kids), 0)

Postfix(op, n) == Continue([Top EXCEPT !.op = "", !.kids = <<Node(op, Top.kids)>>], n)

\* After the first operand, suffixes are read as long as there are any.  Between two
\* arguments a comma is skipped if it is there.
ParsePostfixExpr ==
  \/ FirstOperand("postfix")
  \/ /\ In("postfix") /\ Returned = 1 /\ Top.op = ""
     /\ CASE token \in {"++", "--"} -> Postfix(token, 1)
          [] token \in {".", "->"} -> IF TokenAt(at + 1) = "x" THEN Postfix(token, 2) ELSE Reject
          [] token = "[" -> CallAfter("[", "expr")
          [] token = "(" -> Continue([Top EXCEPT !.op = "("], 1)
          [] OTHER -> Return(Top.kids[1], 0)
  \/ In("postfix") /\ Top.op = "[" /\ Returned = 2 /\ Consume("]", Postfix("[", 1))
  \/ /\ In("postfix") /\ Top.op = "("
     /\ IF token = ")" THEN Postfix("(", 1)
        ELSE CallFrom(Top, IF Returned > 1 /\ token = "," THEN 1 ELSE 0, "assign")

\* Fault: the token of an operand is not stepped over.
F_OperandStays ==
  \/ /\ In("primary") /\ Returned = 0
     /\ CASE token = "(" -> CallAfter("(", "expr")
          [] token = "x" -> Return(Operand(at), 0)
          [] OTHER -> Reject
  \/ In("primary") /\ Returned = 1 /\ Consume(")", Return(Top.kids[1], 1))

ParsePrimaryExpr ==
  \/ /\ In("primary") /\ Returned = 0
     /\ CASE token = "(" -> CallAfter("(", "expr")
          [] token = "x" -> Return(Operand(at), 1)
          [] OTHER -> Reject
  \/ In("primary") /\ Returned = 1 /\ Consume(")", Return(Top.kids[1], 1))

Stopped == status # "parsing" /\ UNCHANGED vars

Next ==
  \/ ParseExpr \/ ParseAssignExpr \/ ParseConditionalExpr \/ ParseBinaryExpr
  \/ ParseCastExpr \/ ParseUnaryExpr \/ ParsePostfixExpr \/ ParsePrimaryExpr
  \/ Stopped

Spec == Init /\ [][Next]_vars
FairSpec == Spec /\ WF_vars(Next)

-----------------------------------------------------------------------------
\* What is left to do: the tokens that have not been read and, at one token, the calls
\* that can still return and the stage of the last one.  A call that has done nothing
\* yet can only call the procedures below its own; one that has two operands of a
\* binary level makes a tree of them first.
Level(p) == CHOOSE i \in 1..17 : Procedures[i] = p
Stage(c) ==
  IF c.kids = <<>> /\ c.op = "" THEN 3 * (17 - Level(c.procedure))
  ELSE IF Len(c.kids) = 2 /\ c.procedure \in DOMAIN Operators THEN 52 ELSE 51
Remaining ==
  IF status = "parsing" THEN 100 * (Len(text) + 1 - at) + 2 * Len(calls) + Stage(Top) ELSE 0

\* The recursive descent comes to an end: each step leaves less to do, so that no loop
\* of the parser (an operator's, a suffix's, or the arguments' of ParsePostfixExpr,
\* which may pass without a comma) and no chain of calls goes on without a token.
StepsDescend == [][Remaining' \in Nat /\ Remaining' < Remaining]_vars
=============================================================================
