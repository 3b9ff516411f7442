--------------------------- MODULE ExprSemaProofs ---------------------------
(***************************************************************************)
(* Invariance proofs for ExprSema, for any variables, literals and types,  *)
(* and for expressions of any size.                                        *)
(***************************************************************************)
EXTENDS ExprSema, SequenceTheorems, TLAPS

IsNode(u) ==
  u = [op |-> u.op, kids |-> u.kids, type |-> u.type, lvalue |-> u.lvalue, name |-> u.name, value |-> u.value]

\* What may be stepped is a name or a dereference.
Stepping(u) == u.lvalue => u.op \in {"var", "deref"}

IInv ==
  /\ nodes \in Seq(Range(nodes))
  /\ status \in {"building", "rejected"}
  /\ status = "rejected" => nodes # <<>>
  /\ \A i \in DOMAIN nodes : IsNode(nodes[i]) /\ Stepping(nodes[i])
  /\ OperandsFit

-----------------------------------------------------------------------------
(***************************************************************************)
(* Operands and what is built of them.                                     *)
(***************************************************************************)
LEMMA Operands ==
  ASSUME IInv, NEW n \in Nat, Ready(n), NEW k \in 1..n
  PROVE  IsNode(Operand(n, k)) /\ Stepping(Operand(n, k))
<1>1. Len(nodes) \in Nat /\ DOMAIN nodes = 1..Len(nodes) /\ n <= Len(nodes)
  BY LenProperties DEF IInv, Ready
<1>2. Len(nodes) - n + k \in DOMAIN nodes
  BY <1>1
<1> QED BY <1>2 DEF IInv, Operand

\* A node takes the place of its operands; it is right unless it is an error.
LEMMA BuildKeeps ==
  ASSUME IInv, NEW n \in Nat, Ready(n), NEW u, NEW error \in BOOLEAN,
         IsNode(u), Stepping(u), ~error => Fits(u), Build(n, u, error)
  PROVE  IInv'
<1> DEFINE l == Len(nodes) - n
           s == SubSeq(nodes, 1, l)
           R == Range(nodes) \cup {u}
           t == Append(s, u)
<1>1. /\ Len(nodes) \in Nat /\ DOMAIN nodes = 1..Len(nodes) /\ l \in Nat /\ l <= Len(nodes)
      /\ status = "building" /\ nodes \in Seq(R)
  BY LenProperties, SeqMonotonic DEF IInv, Ready
<1>2. nodes' = t /\ status' = (IF error THEN "rejected" ELSE "building")
  BY DEF Build
<1> HIDE DEF l
<1>3. \A i \in 1..l : nodes[i] \in R /\ i \in DOMAIN nodes
  BY <1>1, ElementOfSeq
<1>4. /\ s \in Seq(R)
      /\ Len(s) = (IF 1 <= l THEN l - 1 + 1 ELSE 0)
      /\ \A i \in 1..l - 1 + 1 : s[i] = nodes[1 + i - 1]
  BY <1>1, <1>3, SubSeqProperties
<1>5. /\ Len(s) = l /\ \A i \in 1..l : s[i] = nodes[i]
  <2>1. (IF 1 <= l THEN l - 1 + 1 ELSE 0) = l
    BY <1>1
  <2>2. \A i \in 1..l : i \in 1..l - 1 + 1 /\ 1 + i - 1 = i
    BY <1>1
  <2> QED BY <2>1, <2>2, <1>4
<1> HIDE DEF s
<1>6. u \in R
  OBVIOUS
<1>7. /\ t \in Seq(R) /\ t # <<>> /\ Len(t) = l + 1
      /\ \A i \in 1..l : t[i] = s[i]
      /\ t[l + 1] = u
  BY <1>4, <1>5, <1>6, AppendProperties
<1>8. t \in Seq(Range(t)) /\ DOMAIN t = 1..l + 1
  BY <1>7, SeqOfRange, LenProperties
<1> HIDE DEF t
<1>9. \A i \in DOMAIN t : (i \in 1..l /\ t[i] = nodes[i] /\ i \in DOMAIN nodes) \/ t[i] = u
  <2>1. \A i \in 1..l + 1 : i \in 1..l \/ i = l + 1
    BY <1>1
  <2> QED BY <2>1, <1>3, <1>5, <1>7, <1>8
<1>10. \A i \in DOMAIN t : IsNode(t[i]) /\ Stepping(t[i])
  BY <1>9 DEF IInv
<1>11. ~error => \A i \in DOMAIN t : Fits(t[i])
  BY <1>1, <1>9 DEF IInv, OperandsFit
<1> QED BY <1>2, <1>7, <1>8, <1>10, <1>11 DEF IInv, OperandsFit

\* The node that is made of an operator with its operands.
LEMMA NodeFacts ==
  ASSUME NEW op, NEW kids, NEW type
  PROVE  /\ IsNode(Node(op, kids, type)) /\ Stepping(Node(op, kids, type))
         /\ Node(op, kids, type).op = op /\ Node(op, kids, type).kids = kids
         /\ Node(op, kids, type).type = type
  BY DEF Node, IsNode, Stepping

\* The fields of it that some operators set.
LEMMA LvalueFacts ==
  ASSUME NEW u, IsNode(u), u.op \in {"var", "deref"}, NEW x
  PROVE  LET v == [u EXCEPT !.lvalue = x] IN
         IsNode(v) /\ Stepping(v) /\ v.op = u.op /\ v.kids = u.kids
<1> DEFINE v == [u EXCEPT !.lvalue = x]
<1>1. u = [op |-> u.op, kids |-> u.kids, type |-> u.type, lvalue |-> u.lvalue, name |-> u.name, value |-> u.value]
  BY DEF IsNode
<1>2. v = [op |-> u.op, kids |-> u.kids, type |-> u.type, lvalue |-> x, name |-> u.name, value |-> u.value]
  BY <1>1
<1> HIDE DEF v
<1>3. v.op = u.op /\ v.kids = u.kids /\ v.type = u.type /\ v.lvalue = x /\ v.name = u.name /\ v.value = u.value
  BY <1>2
<1>4. IsNode(v) /\ Stepping(v) /\ v.op = u.op /\ v.kids = u.kids
  BY <1>2, <1>3 DEF IsNode, Stepping
<1> QED BY <1>4 DEF v

LEMMA NameFacts ==
  ASSUME NEW u, IsNode(u), NEW x
  PROVE  LET v == [u EXCEPT !.name = x] IN
         IsNode(v) /\ v.op = u.op /\ v.kids = u.kids /\ v.lvalue = u.lvalue /\ v.name = x
  BY DEF IsNode

LEMMA ValueFacts ==
  ASSUME NEW u, IsNode(u), NEW x
  PROVE  LET v == [u EXCEPT !.value = x] IN
         IsNode(v) /\ v.op = u.op /\ v.kids = u.kids /\ v.lvalue = u.lvalue
  BY DEF IsNode

LEMMA TypeFacts ==
  ASSUME NEW u, IsNode(u), NEW x
  PROVE  LET v == [u EXCEPT !.type = x] IN v.type = x
  BY DEF IsNode

\* The operators about whose operands the generator takes something for granted.
Particular == {"inc", "dec", "post_inc", "post_dec", "deref", "subscript", "dot", "arrow", "call"}

LEMMA OthersFit ==
  ASSUME NEW u, u.op \notin Particular
  PROVE  Fits(u)
  BY DEF Fits, Particular

-----------------------------------------------------------------------------
(***************************************************************************)
(* The operations, one by one.                                             *)
(***************************************************************************)
LEMMA VariableKeeps ==
  ASSUME IInv, semaVariableAccessNode
  PROVE  IInv'
<1>1. PICK x \in DOMAIN Variables :
         Ready(0) /\ Build(0, [Node("var", <<>>, Variables[x].type) EXCEPT !.lvalue = TRUE, !.name = x], FALSE)
  BY DEF semaVariableAccessNode
<1> DEFINE u == Node("var", <<>>, Variables[x].type)
           v == [u EXCEPT !.lvalue = TRUE]
           w == [v EXCEPT !.name = x]
<1>2. [u EXCEPT !.lvalue = TRUE, !.name = x] = w
  OBVIOUS
<1>3. IsNode(u) /\ u.op = "var"
  BY NodeFacts
<1> HIDE DEF u
<1>4. IsNode(v) /\ v.op = "var"
  BY <1>3, LvalueFacts
<1> HIDE DEF v
<1>5. IsNode(w) /\ w.op = "var"
  BY <1>4, NameFacts
<1> HIDE DEF w
<1>6. Stepping(w) /\ Fits(w)
  BY <1>5, OthersFit DEF Stepping, Particular
<1>7. Ready(0) /\ Build(0, w, FALSE)
  BY <1>1, <1>2 DEF u, v, w
<1> QED BY <1>5, <1>6, <1>7, BuildKeeps

LEMMA NumberKeeps ==
  ASSUME IInv, semaNumberExprNode
  PROVE  IInv'
<1>1. PICK x \in Numbers : Ready(0) /\ Build(0, [Node("number", <<>>, IntType) EXCEPT !.value = x], FALSE)
  BY DEF semaNumberExprNode
<1> DEFINE u == Node("number", <<>>, IntType)
           v == [u EXCEPT !.value = x]
<1>2. IsNode(u) /\ u.op = "number" /\ Stepping(u)
  BY NodeFacts
<1>3. Build(0, v, FALSE)
  BY <1>1
<1> HIDE DEF u
<1>4. IsNode(v) /\ v.op = "number" /\ Stepping(v)
  BY <1>2, ValueFacts DEF Stepping
<1> HIDE DEF v
<1> QED BY <1>1, <1>3, <1>4, OthersFit, BuildKeeps DEF Particular

LEMMA StringKeeps ==
  ASSUME IInv, semaStringExprNode
  PROVE  IInv'
<1>1. PICK s \in DOMAIN Strings :
        /\ Ready(0)
        /\ Build(0, [Node("string", <<>>, CArrayType(CharType, Strings[s].length)) EXCEPT !.name = s], FALSE)
  BY DEF semaStringExprNode
<1> DEFINE u == Node("string", <<>>, CArrayType(CharType, Strings[s].length))
           v == [u EXCEPT !.name = s]
<1>2. IsNode(u) /\ u.op = "string" /\ Stepping(u)
  BY NodeFacts
<1>3. Build(0, v, FALSE)
  BY <1>1
<1> HIDE DEF u
<1>4. IsNode(v) /\ v.op = "string" /\ Stepping(v)
  BY <1>2, NameFacts DEF Stepping
<1> HIDE DEF v
<1> QED BY <1>1, <1>3, <1>4, OthersFit, BuildKeeps DEF Particular

\* A node without anything particular about it.
LEMMA PlainKeeps ==
  ASSUME IInv, NEW n \in Nat, Ready(n), NEW op, NEW kids, NEW type, op \notin Particular,
         NEW error \in BOOLEAN, Build(n, Node(op, kids, type), error)
  PROVE  IInv'
<1> DEFINE u == Node(op, kids, type)
<1>1. IsNode(u) /\ u.op = op /\ Stepping(u)
  BY NodeFacts
<1>2. Build(n, u, error)
  OBVIOUS
<1> HIDE DEF u
<1> QED BY <1>1, <1>2, OthersFit, BuildKeeps

LEMMA BinaryKeeps ==
  ASSUME IInv, semaBinaryExprNode
  PROVE  IInv'
<1>1. PICK op \in BinaryOps :
        /\ Ready(2)
        /\ LET l == Operand(2, 1)
               r == Operand(2, 2)
               error == Misfits(op, l.type, r.type)
           IN  Build(2, IF error THEN Node(op, <<l, r>>, l.type) ELSE BinaryNode(op, l, r), error)
  BY DEF semaBinaryExprNode
<1> DEFINE l == Operand(2, 1)
           r == Operand(2, 2)
           error == Misfits(op, l.type, r.type)
           u == IF error THEN Node(op, <<l, r>>, l.type) ELSE BinaryNode(op, l, r)
<1>2. Build(2, u, error)
  BY <1>1
<1>3. op \notin Particular
  BY DEF BinaryOps, Multiplies, IntegerOps, Compares, Logics, Particular
<1> HIDE DEF l, r
<1>4. PICK kids, type : u = Node(op, kids, type)
  BY DEF BinaryNode
<1>5. error \in BOOLEAN
  BY DEF Misfits, IsScalar, ArePointers, OffsetMisfits, IsPoint, IsArithType, IsIntegerType,
         BinaryOps, Multiplies, IntegerOps, Compares, Logics
<1> HIDE DEF u, error
<1> QED BY <1>1, <1>2, <1>3, <1>4, <1>5, PlainKeeps

\* ++, -- and * look at their operand; the others are plain.
LEMMA UnaryKeeps ==
  ASSUME IInv, semaUnaryExprNode
  PROVE  IInv'
<1>1. PICK op \in UnaryOps :
        /\ Ready(1)
        /\ LET x == Operand(1, 1)
           IN  Build(1, UnaryNode(op, x),
                     CASE op \in {"inc", "dec"} -> ~x.lvalue
                       [] op = "deref" -> ~IsPoint(x.type)
                       [] op = "addr" -> FALSE
                       [] OTHER -> x.type.kind # "int")
  BY DEF semaUnaryExprNode
<1> DEFINE x == Operand(1, 1)
           error == CASE op \in {"inc", "dec"} -> ~x.lvalue
                      [] op = "deref" -> ~IsPoint(x.type)
                      [] op = "addr" -> FALSE
                      [] OTHER -> x.type.kind # "int"
<1>2. Build(1, UnaryNode(op, x), error)
  BY <1>1
<1>3. Stepping(x)
  BY <1>1, Operands
<1> HIDE DEF x
<1>4. error \in BOOLEAN
  OBVIOUS
<1>5. CASE op \in {"inc", "dec"}
  <2> DEFINE u == Node(op, <<x>>, x.type)
  <2>1. UnaryNode(op, x) = u
    BY <1>5 DEF UnaryNode
  <2>2. IsNode(u) /\ Stepping(u) /\ u.op = op /\ u.kids = <<x>>
    BY NodeFacts
  <2> HIDE DEF u
  <2>3. error = ~x.lvalue
    BY <1>5
  <2>4. u.kids[1] = x
    BY <2>2
  <2> HIDE DEF error
  <2>5. ~error => Fits(u)
    BY <1>3, <1>5, <2>2, <2>3, <2>4 DEF Fits, Stepping
  <2> QED BY <1>1, <1>2, <1>4, <2>1, <2>2, <2>5, BuildKeeps
<1>6. CASE op = "deref" /\ IsPoint(x.type)
  <2> DEFINE u == Node(op, <<x>>, x.type.base)
             v == [u EXCEPT !.lvalue = TRUE]
  <2>1. UnaryNode(op, x) = v
    BY <1>6 DEF UnaryNode
  <2>2. IsNode(u) /\ u.op = "deref" /\ u.kids = <<x>>
    BY <1>6, NodeFacts
  <2> HIDE DEF u
  <2>3. IsNode(v) /\ Stepping(v) /\ v.op = "deref" /\ v.kids = <<x>>
    BY <2>2, LvalueFacts
  <2> HIDE DEF v
  <2>4. v.kids[1] = x
    BY <2>3
  <2>5. Fits(v)
    BY <1>6, <2>3, <2>4 DEF Fits
  <2> QED BY <1>1, <1>2, <1>4, <2>1, <2>3, <2>5, BuildKeeps
<1>7. CASE op = "deref" /\ ~IsPoint(x.type)
  <2> DEFINE u == Node(op, <<x>>, x.type)
  <2>1. UnaryNode(op, x) = u
    BY <1>7 DEF UnaryNode
  <2>2. IsNode(u) /\ Stepping(u)
    BY NodeFacts
  <2> HIDE DEF u
  <2>3. error
    BY <1>7
  <2> QED BY <1>1, <1>2, <1>4, <2>1, <2>2, <2>3, BuildKeeps
<1>8. CASE op \notin {"inc", "dec", "deref"}
  <2>1. PICK type : UnaryNode(op, x) = Node(op, <<x>>, type)
    BY <1>8 DEF UnaryNode
  <2>2. op \notin Particular
    BY <1>8 DEF UnaryOps, Particular
  <2> HIDE DEF error
  <2> QED BY <1>1, <1>2, <1>4, <2>1, <2>2, PlainKeeps
<1> QED BY <1>5, <1>6, <1>7, <1>8

LEMMA PostIncKeeps ==
  ASSUME IInv, semaPostIncExprNode
  PROVE  IInv'
<1> DEFINE x == Operand(1, 1)
<1>1. PICK op \in {"post_inc", "post_dec"} : Ready(1) /\ Build(1, Node(op, <<x>>, x.type), ~x.lvalue)
  BY DEF semaPostIncExprNode
<1>2. Stepping(x)
  BY <1>1, Operands
<1> HIDE DEF x
<1> DEFINE u == Node(op, <<x>>, x.type)
<1>3. IsNode(u) /\ Stepping(u) /\ u.op = op /\ u.kids = <<x>>
  BY NodeFacts
<1>4. Build(1, u, ~x.lvalue)
  BY <1>1
<1> HIDE DEF u
<1>5. u.kids[1] = x
  BY <1>3
<1>6. x.lvalue => Fits(u)
  BY <1>1, <1>2, <1>3, <1>5 DEF Fits, Stepping
<1> DEFINE error == ~x.lvalue
<1>7. error \in BOOLEAN /\ Build(1, u, error) /\ (~error => Fits(u))
  BY <1>4, <1>6
<1> HIDE DEF error
<1> QED BY <1>1, <1>3, <1>7, BuildKeeps

LEMMA CastKeeps ==
  ASSUME IInv, semaCastExprNode
  PROVE  IInv'
<1>1. PICK T \in TypeNames : Ready(1) /\ Build(1, Node("cast", <<Operand(1, 1)>>, T), FALSE)
  BY DEF semaCastExprNode
<1> QED BY <1>1, PlainKeeps DEF Particular

LEMMA SizeOfKeeps ==
  ASSUME IInv, semaSizeOfExprNode
  PROVE  IInv'
<1>1. PICK n, kids, size :
         n \in {0, 1} /\ Ready(n) /\ Build(n, [Node("sizeof", kids, IntType) EXCEPT !.value = size], FALSE)
  BY DEF semaSizeOfExprNode
<1> DEFINE u == Node("sizeof", kids, IntType)
           v == [u EXCEPT !.value = size]
<1>2. IsNode(u) /\ u.op = "sizeof" /\ Stepping(u)
  BY NodeFacts
<1>3. Build(n, v, FALSE)
  BY <1>1
<1> HIDE DEF u
<1>4. IsNode(v) /\ v.op = "sizeof" /\ Stepping(v)
  BY <1>2, ValueFacts DEF Stepping
<1> HIDE DEF v
<1> QED BY <1>1, <1>3, <1>4, OthersFit, BuildKeeps DEF Particular

LEMMA ThreeKeeps ==
  ASSUME IInv, semaThreeExprNode
  PROVE  IInv'
<1> DEFINE x == Operand(3, 1)
           then == Operand(3, 2)
           els == Operand(3, 3)
           error == then.type.kind # els.type.kind
<1>1. Ready(3) /\ Build(3, Node("three", <<x, then, els>>, then.type), error)
  BY DEF semaThreeExprNode
<1>2. error \in BOOLEAN
  OBVIOUS
<1> HIDE DEF x, then, els, error
<1> QED BY <1>1, <1>2, PlainKeeps DEF Particular

-----------------------------------------------------------------------------
(***************************************************************************)
(* The operators after an operand.                                         *)
(***************************************************************************)
LEMMA SubscriptKeeps ==
  ASSUME IInv, semaPostSubscriptNode
  PROVE  IInv'
<1> DEFINE l == Operand(2, 1)
           r == Operand(2, 2)
<1>1. /\ Ready(2)
      /\ LET N(type) == Node("subscript", <<l, r>>, type)
         IN  CASE l.type.kind = "array" -> Build(2, N(l.type.elem), FALSE)
               [] l.type.kind = "point" -> Build(2, N(l.type.base), FALSE)
               [] OTHER -> Build(2, N(l.type), TRUE)
  BY DEF semaPostSubscriptNode
<1> HIDE DEF l, r
<1>2. PICK type, error :
        /\ error \in BOOLEAN
        /\ Build(2, Node("subscript", <<l, r>>, type), error)
        /\ ~error => l.type.kind \in {"array", "point"}
  <2>1. CASE l.type.kind = "array"
    <3>1. Build(2, Node("subscript", <<l, r>>, l.type.elem), FALSE)
      BY <1>1, <2>1
    <3> QED BY <2>1, <3>1
  <2>2. CASE l.type.kind = "point"
    <3>1. Build(2, Node("subscript", <<l, r>>, l.type.base), FALSE)
      BY <1>1, <2>2
    <3> QED BY <2>2, <3>1
  <2>3. CASE l.type.kind \notin {"array", "point"}
    <3>1. Build(2, Node("subscript", <<l, r>>, l.type), TRUE)
      BY <1>1, <2>3
    <3> QED BY <3>1
  <2> QED BY <2>1, <2>2, <2>3
<1> DEFINE u == Node("subscript", <<l, r>>, type)
<1>3. IsNode(u) /\ Stepping(u) /\ u.op = "subscript" /\ u.kids = <<l, r>>
  BY NodeFacts
<1>4. Build(2, u, error)
  BY <1>2
<1> HIDE DEF u
<1>5. u.kids[1] = l
  BY <1>3
<1>6. ~error => Fits(u)
  BY <1>2, <1>3, <1>5 DEF Fits
<1> QED BY <1>1, <1>2, <1>3, <1>4, <1>6, BuildKeeps

\* T is the record, or what is behind the pointer, in which m is looked up.
LEMMA MemberKeeps ==
  ASSUME IInv, Ready(1), NEW op \in {"dot", "arrow"}, NEW m, NEW T, NEW bad \in BOOLEAN,
         op = "dot" => T = Operand(1, 1).type,
         op = "arrow" /\ ~bad => IsPoint(Operand(1, 1).type) /\ T = Operand(1, 1).type.base,
         Member(op, T, m, bad)
  PROVE  IInv'
<1> DEFINE x == Operand(1, 1)
           found == T.kind = "record" /\ m \in DOMAIN T.members
           error == bad \/ ~found
           type == IF found THEN T.members[m].type ELSE T
           u == Node(op, <<x>>, type)
           v == [u EXCEPT !.name = m]
<1>1. Build(1, v, error)
  BY DEF Member
<1>2. op = "dot" => T = x.type
  OBVIOUS
<1>3. op = "arrow" /\ ~bad => IsPoint(x.type) /\ T = x.type.base
  OBVIOUS
<1>4. error \in BOOLEAN
  OBVIOUS
<1> HIDE DEF x, type
<1>5. IsNode(u) /\ Stepping(u) /\ u.op = op /\ u.kids = <<x>>
  BY NodeFacts
<1> HIDE DEF u
<1>6. IsNode(v) /\ Stepping(v) /\ v.op = op /\ v.kids = <<x>> /\ v.name = m
  BY <1>5, NameFacts DEF Stepping
<1> HIDE DEF v
<1>7. v.kids[1] = x
  BY <1>6
<1>8. ~error => Fits(v)
  BY <1>2, <1>3, <1>6, <1>7 DEF Fits
<1> HIDE DEF error
<1> QED BY <1>1, <1>4, <1>6, <1>8, BuildKeeps

LEMMA DotKeeps ==
  ASSUME IInv, semaPostMemberDotNode
  PROVE  IInv'
<1>1. PICK m : Ready(1) /\ Member("dot", Operand(1, 1).type, m, FALSE)
  BY DEF semaPostMemberDotNode
<1> QED BY <1>1, MemberKeeps

LEMMA ArrowKeeps ==
  ASSUME IInv, semaPostMemberArrowNode
  PROVE  IInv'
<1> DEFINE T == Operand(1, 1).type
           behind == IF IsPoint(T) THEN T.base ELSE T
           bad == ~IsPoint(T)
<1>1. PICK m : Ready(1) /\ Member("arrow", behind, m, bad)
  BY DEF semaPostMemberArrowNode
<1>2. bad \in BOOLEAN /\ (~bad => IsPoint(T) /\ behind = T.base)
  OBVIOUS
<1> HIDE DEF behind, bad
<1>3. "arrow" = "arrow" /\ ~bad => IsPoint(Operand(1, 1).type) /\ behind = Operand(1, 1).type.base
  BY <1>2
<1> QED BY <1>1, <1>2, <1>3, MemberKeeps

\* The node of a call has the function and each of its arguments.
LEMMA CallKeeps ==
  ASSUME IInv, semaFuncCallExprNode
  PROVE  IInv'
<1>1. PICK n \in 0..2 :
        /\ Ready(n + 1)
        /\ LET f == Operand(n + 1, 1)
               T == IF IsPoint(f.type) THEN f.type.base ELSE f.type
               args == SubSeq(nodes, Len(nodes) - n + 1, Len(nodes))
               isFunc == T.kind = "func"
           IN  Build(n + 1, Node("call", <<[f EXCEPT !.type = T]>> \o args, IF isFunc THEN T.ret ELSE T),
                     ~isFunc \/ (Len(T.params) # n /\ ~T.isVarArg))
  BY DEF semaFuncCallExprNode
<1> DEFINE f == Operand(n + 1, 1)
           T == IF IsPoint(f.type) THEN f.type.base ELSE f.type
           args == SubSeq(nodes, Len(nodes) - n + 1, Len(nodes))
           isFunc == T.kind = "func"
           error == ~isFunc \/ (Len(T.params) # n /\ ~T.isVarArg)
           type == IF isFunc THEN T.ret ELSE T
           callee == [f EXCEPT !.type = T]
           kids == <<callee>> \o args
           u == Node("call", kids, type)
<1>2. Build(n + 1, u, error)
  BY <1>1
<1>3. error \in BOOLEAN
  OBVIOUS
<1>4. ~error => T.kind = "func" /\ (Len(T.params) = n \/ T.isVarArg)
  OBVIOUS
<1>5. n \in Nat /\ n + 1 \in Nat /\ 1 \in 1..n + 1
  OBVIOUS
<1>6. IsNode(f)
  BY <1>1, <1>5, Operands
<1>7. callee.type = T
  <2> HIDE DEF f, T
  <2> QED BY <1>6, TypeFacts
<1>8. args \in Seq(Range(nodes)) /\ Len(args) = n
  <2> DEFINE m == Len(nodes) - n + 1
             R == Range(nodes)
  <2>1. Len(nodes) \in Nat /\ DOMAIN nodes = 1..Len(nodes) /\ n + 1 <= Len(nodes) /\ nodes \in Seq(R)
    BY <1>1, LenProperties DEF IInv, Ready
  <2>2. m \in 1..Len(nodes) + 1 /\ Len(nodes) \in m-1..Len(nodes) /\ m \in Nat /\ m >= 1
    BY <1>5, <2>1
  <2>3. \A i \in m..Len(nodes) : nodes[i] \in R
    <3> SUFFICES ASSUME NEW i \in m..Len(nodes) PROVE nodes[i] \in R
      OBVIOUS
    <3>1. i \in 1..Len(nodes)
      BY <2>1, <2>2
    <3> QED BY <2>1, <3>1, ElementOfSeq
  <2>4. (IF m <= Len(nodes) THEN Len(nodes) - m + 1 ELSE 0) = n
    BY <1>5, <2>1
  <2> HIDE DEF m, R
  <2>5. /\ SubSeq(nodes, m, Len(nodes)) \in Seq(R)
        /\ Len(SubSeq(nodes, m, Len(nodes))) = (IF m <= Len(nodes) THEN Len(nodes) - m + 1 ELSE 0)
    BY <2>1, <2>2, <2>3, SubSeqProperties
  <2> QED BY <2>4, <2>5 DEF m, R
<1> HIDE DEF f, T, args, type, error
<1>9. Len(kids) = n + 1 /\ kids[1] = callee
  <2> HIDE DEF callee
  <2> DEFINE R == Range(nodes) \cup {callee}
  <2>1. args \in Seq(R)
    BY <1>8, SeqMonotonic
  <2>2. <<callee>> \in Seq(R) /\ Len(<<callee>>) = 1 /\ <<callee>>[1] = callee
    OBVIOUS
  <2> HIDE DEF R
  <2>3. /\ Len(<<callee>> \o args) = Len(<<callee>>) + Len(args)
        /\ (<<callee>> \o args)[1] = <<callee>>[1]
    BY <1>5, <1>8, <2>1, <2>2, ConcatProperties
  <2> QED BY <1>5, <1>8, <2>2, <2>3
<1> HIDE DEF callee, kids
<1>10. IsNode(u) /\ Stepping(u) /\ u.op = "call" /\ u.kids = kids
  BY NodeFacts
<1> HIDE DEF u
<1>11. ~error => Fits(u)
  <2> SUFFICES ASSUME ~error PROVE Fits(u)
    OBVIOUS
  <2>1. u.kids[1].type = T
    BY <1>7, <1>9, <1>10
  <2>2. Len(u.kids) = Len(T.params) + 1 \/ T.isVarArg
    BY <1>4, <1>9, <1>10
  <2> QED BY <1>4, <1>10, <2>1, <2>2 DEF Fits
<1> QED BY <1>1, <1>2, <1>3, <1>5, <1>10, <1>11, BuildKeeps

-----------------------------------------------------------------------------
(***************************************************************************)
(* The theorems.                                                           *)
(***************************************************************************)
LEMMA InitHolds == Init => IInv
<1> SUFFICES ASSUME Init PROVE IInv
  OBVIOUS
<1>1. nodes = <<>> /\ status = "building" /\ DOMAIN nodes = {}
  BY DEF Init
<1>2. nodes \in Seq(Range(nodes))
  BY <1>1
<1> QED BY <1>1, <1>2 DEF IInv, OperandsFit

LEMMA NextKeeps == IInv /\ [Next]_vars => IInv'
<1> SUFFICES ASSUME IInv, [Next]_vars PROVE IInv'
  OBVIOUS
<1>1. CASE UNCHANGED vars
  BY <1>1 DEF vars, IInv, OperandsFit
<1>2. CASE Finished
  BY <1>2 DEF Finished, vars, IInv, OperandsFit
<1> QED BY <1>1, <1>2, VariableKeeps, NumberKeeps, StringKeeps, BinaryKeeps, UnaryKeeps, PostIncKeeps,
           CastKeeps, SizeOfKeeps, ThreeKeeps, SubscriptKeeps, DotKeeps, ArrowKeeps, CallKeeps DEF Next

LEMMA Invariance == Spec => []IInv
BY InitHolds, NextKeeps, PTL DEF Spec

\* The nodes are there until the first error, and only names and dereferences may be stepped.
THEOREM TypeCorrectness == Spec => []TypeOK
<1>1. IInv => TypeOK
  BY DEF IInv, TypeOK, Stepping
<1> QED BY <1>1, Invariance, PTL

\* Whatever an expression is made of, and whatever the types of its operands, a node that Sema
\* (sema.cc:155-358, 563-602) accepts has the operand that the generator casts without a look
\* (codegen.cc:985-1290).
THEOREM GeneratorCastsHold == Spec => []OperandsFit
<1>1. IInv => OperandsFit
  BY DEF IInv
<1> QED BY <1>1, Invariance, PTL
=============================================================================
