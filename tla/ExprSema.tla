------------------------------ MODULE ExprSema ------------------------------
(***************************************************************************)
(* Sema on expressions (sema.cc: semaVariableAccessNode to                 *)
(* semaFuncCallExprNode) in Normal mode.  The parser asks for a node when  *)
(* it has the operands, so that the calls come in postfix order; nodes     *)
(* holds the operands that no operator has taken yet.  An error ends the   *)
(* program, with the node it is about last.                                *)
(***************************************************************************)
EXTENDS CTypes

CONSTANTS Variables,      \* the names in scope: each with its type and its address
          Numbers,        \* bound: the int literals
          Strings,        \* bound: string literals, each with its length and its address
          TypeNames,      \* bound: the types of casts and sizeof
          MayHave(_)      \* bound: the sequences of operands that are taken further

VARIABLES nodes,
          status          \* "building", "rejected"

vars == <<nodes, status>>

-----------------------------------------------------------------------------
Node(op, kids, type) ==
  [op |-> op, kids |-> kids, type |-> type, lvalue |-> FALSE, name |-> "", value |-> 0]
Operand(n, k) == nodes[Len(nodes) - n + k]

\* The last n nodes become one, or the error about it.
Build(n, node, error) ==
  /\ nodes' = Append(SubSeq(nodes, 1, Len(nodes) - n), node)
  /\ MayHave(nodes')
  /\ status' = IF error THEN "rejected" ELSE "building"
Ready(n) == status = "building" /\ Len(nodes) >= n

Init == nodes = <<>> /\ status = "building"

-----------------------------------------------------------------------------
semaVariableAccessNode ==
  \E x \in DOMAIN Variables :
    /\ Ready(0)
    /\ Build(0, [Node("var", <<>>, Variables[x].type) EXCEPT !.lvalue = TRUE, !.name = x], FALSE)

semaNumberExprNode ==
  \E v \in Numbers : Ready(0) /\ Build(0, [Node("number", <<>>, IntType) EXCEPT !.value = v], FALSE)

semaStringExprNode ==
  \E s \in DOMAIN Strings :
    /\ Ready(0)
    /\ Build(0, [Node("string", <<>>, CArrayType(CharType, Strings[s].length)) EXCEPT !.name = s], FALSE)

-----------------------------------------------------------------------------
Multiplies == {"mul", "div", "mul_assign", "div_assign"}
IntegerOps == {"mod", "bitwise_or", "bitwise_and", "bitwise_xor", "left_shift", "right_shift",
               "mod_assign", "bitwise_or_assign", "bitwise_and_assign", "bitwise_xor_assign",
               "left_shift_assign", "right_shift_assign"}
Compares == {"equal", "not_equal", "less", "less_equal", "greater", "greater_equal"}
Logics == {"logic_or", "logic_and"}
BinaryOps == {"add", "sub", "add_assign", "sub_assign", "assign", "comma"}
             \cup Multiplies \cup IntegerOps \cup Compares \cup Logics

IsScalar(T) == IsArithType(T) \/ IsPoint(T)
ArePointers(T, U) == IsPoint(T) /\ IsPoint(U)
OffsetMisfits(T, U) == IsPoint(T) /\ ~IsIntegerType(U)

\* Fault: the offset of a pointer is looked for on the right only.
F_Misfits(op, T, U) ==
  \/ op \in {"add", "sub"} /\ (~IsScalar(T) \/ ~IsScalar(U) \/ OffsetMisfits(T, U) \/ IsPoint(U))
  \/ op \notin {"add", "sub", "comma", "assign"} /\ (~IsScalar(T) \/ ~IsScalar(U))

\* Which operand types are errors.
Misfits(op, T, U) ==
  CASE op = "add" -> \/ ~IsScalar(T) \/ ~IsScalar(U) \/ ArePointers(T, U)
                     \/ OffsetMisfits(T, U) \/ OffsetMisfits(U, T)
    [] op = "sub" -> \/ ~IsScalar(T) \/ ~IsScalar(U)
                     \/ ~ArePointers(T, U) /\ (OffsetMisfits(T, U) \/ OffsetMisfits(U, T))
    [] op \in {"add_assign", "sub_assign"} -> ~IsScalar(T) \/ ~IsArithType(U)
    [] op \in Multiplies -> ~IsArithType(T) /\ ~IsArithType(U)
    [] op \in IntegerOps -> \/ IsIntegerType(T) /\ ~IsIntegerType(U)
                           \/ ~IsScalar(T) \/ ~IsScalar(U)
    [] op \in Compares \cup Logics -> ~IsScalar(T) \/ ~IsScalar(U)
    [] OTHER -> FALSE

\* A pointer on the right of + or - changes places with the left operand.
BinaryNode(op, l, r) ==
  IF op = "sub" /\ ArePointers(l.type, r.type) THEN Node(op, <<l, r>>, LongType)
  ELSE IF op \in {"add", "sub"} /\ IsPoint(r.type) THEN Node(op, <<r, l>>, r.type)
  ELSE Node(op, <<l, r>>, l.type)

semaBinaryExprNode ==
  \E op \in BinaryOps :
    /\ Ready(2)
    /\ LET l == Operand(2, 1)
           r == Operand(2, 2)
           error == Misfits(op, l.type, r.type)
       IN  Build(2, IF error THEN Node(op, <<l, r>>, l.type) ELSE BinaryNode(op, l, r), error)

-----------------------------------------------------------------------------
UnaryOps == {"positive", "negative", "logic_not", "bitwise_not", "addr", "deref", "inc", "dec"}

\* Fault: ++x can be stepped again.
F_UnaryNode(op, x) ==
  CASE op = "addr" -> Node(op, <<x>>, CPointType(x.type))
    [] op = "deref" /\ IsPoint(x.type) -> [Node(op, <<x>>, x.type.base) EXCEPT !.lvalue = TRUE]
    [] OTHER -> [Node(op, <<x>>, x.type) EXCEPT !.lvalue = x.lvalue]

UnaryNode(op, x) ==
  CASE op = "addr" -> Node(op, <<x>>, CPointType(x.type))
    [] op = "deref" /\ IsPoint(x.type) -> [Node(op, <<x>>, x.type.base) EXCEPT !.lvalue = TRUE]
    [] OTHER -> Node(op, <<x>>, x.type)

semaUnaryExprNode ==
  \E op \in UnaryOps :
    /\ Ready(1)
    /\ LET x == Operand(1, 1)
       IN  Build(1, UnaryNode(op, x),
                 CASE op \in {"inc", "dec"} -> ~x.lvalue
                   [] op = "deref" -> ~IsPoint(x.type)
                   [] op = "addr" -> FALSE
                   [] OTHER -> x.type.kind # "int")

\* x++ and x--
semaPostIncExprNode ==
  \E op \in {"post_inc", "post_dec"} :
    Ready(1) /\ Build(1, Node(op, <<Operand(1, 1)>>, Operand(1, 1).type), ~Operand(1, 1).lvalue)

semaCastExprNode ==
  \E T \in TypeNames : Ready(1) /\ Build(1, Node("cast", <<Operand(1, 1)>>, T), FALSE)

\* The type of the node is int, that of the operand, or the one named, is in value.
semaSizeOfExprNode ==
  \/ Ready(1) /\ Build(1, [Node("sizeof", <<Operand(1, 1)>>, IntType) EXCEPT !.value = Operand(1, 1).type.size], FALSE)
  \/ \E T \in TypeNames : Ready(0) /\ Build(0, [Node("sizeof", <<>>, IntType) EXCEPT !.value = T.size], FALSE)

semaThreeExprNode ==
  /\ Ready(3)
  /\ LET then == Operand(3, 2)
         els == Operand(3, 3)
     IN  Build(3, Node("three", <<Operand(3, 1), then, els>>, then.type), then.type.kind # els.type.kind)

-----------------------------------------------------------------------------
\* a[i]: the left side must be the array or the pointer.
semaPostSubscriptNode ==
  /\ Ready(2)
  /\ LET T == Operand(2, 1).type
         N(type) == Node("subscript", <<Operand(2, 1), Operand(2, 2)>>, type)
     IN  CASE T.kind = "array" -> Build(2, N(T.elem), FALSE)
           [] T.kind = "point" -> Build(2, N(T.base), FALSE)
           [] OTHER -> Build(2, N(T), TRUE)

Member(op, T, m, error) ==
  LET found == T.kind = "record" /\ m \in DOMAIN T.members
  IN  Build(1, [Node(op, <<Operand(1, 1)>>, IF found THEN T.members[m].type ELSE T) EXCEPT !.name = m],
            error \/ ~found)
MemberNames == UNION {DOMAIN Variables[x].type.members :
                        x \in {y \in DOMAIN Variables : Variables[y].type.kind = "record"}}

semaPostMemberDotNode ==
  \E m \in MemberNames : Ready(1) /\ Member("dot", Operand(1, 1).type, m, FALSE)

\* Fault: that there is a pointer is not checked.
F_ArrowNode ==
  \E m \in MemberNames :
    /\ Ready(1)
    /\ LET T == Operand(1, 1).type
       IN  Member("arrow", IF IsPoint(T) THEN T.base ELSE T, m, FALSE)

semaPostMemberArrowNode ==
  \E m \in MemberNames :
    /\ Ready(1)
    /\ LET T == Operand(1, 1).type
       IN  Member("arrow", IF IsPoint(T) THEN T.base ELSE T, m, ~IsPoint(T))

\* A call through a pointer gives the operand the type of the function.
semaFuncCallExprNode ==
  \E n \in 0..2 :
    /\ Ready(n + 1)
    /\ LET f == Operand(n + 1, 1)
           T == IF IsPoint(f.type) THEN f.type.base ELSE f.type
           args == SubSeq(nodes, Len(nodes) - n + 1, Len(nodes))
           isFunc == T.kind = "func"
       IN  Build(n + 1, Node("call", <<[f EXCEPT !.type = T]>> \o args, IF isFunc THEN T.ret ELSE T),
                 ~isFunc \/ (Len(T.params) # n /\ ~T.isVarArg))

-----------------------------------------------------------------------------
\* The parser has come to the end of the expression, or of what is considered of it.
Finished == nodes # <<>> /\ UNCHANGED vars

Next ==
  \/ semaVariableAccessNode \/ semaNumberExprNode \/ semaStringExprNode
  \/ semaBinaryExprNode \/ semaUnaryExprNode \/ semaPostIncExprNode \/ semaCastExprNode
  \/ semaSizeOfExprNode \/ semaThreeExprNode \/ semaPostSubscriptNode
  \/ semaPostMemberDotNode \/ semaPostMemberArrowNode \/ semaFuncCallExprNode
  \/ Finished

Spec == Init /\ [][Next]_vars

-----------------------------------------------------------------------------
\* The nodes are there until the first error, which is about the last of them; names and
\* dereferences are what may be stepped.
TypeOK ==
  /\ status \in {"building", "rejected"}
  /\ status = "rejected" => nodes # <<>>
  /\ \A i \in DOMAIN nodes : nodes[i].lvalue => nodes[i].op \in {"var", "deref"}

\* What CodeGen's visitors of u take its operands for without a look: they go on with what
\* dyn_cast makes of the operand's type, and a step stores where its operand was loaded from.
Fits(u) ==
  LET T == u.kids[1].type
  IN  /\ u.op \in {"inc", "dec", "post_inc", "post_dec"} => u.kids[1].op \in {"var", "deref"}
      /\ u.op = "deref" => IsPoint(T)
      /\ u.op = "subscript" => T.kind \in {"array", "point"}
      /\ u.op = "dot" => T.kind = "record" /\ u.name \in DOMAIN T.members
      /\ u.op = "arrow" => IsPoint(T) /\ T.base.kind = "record" /\ u.name \in DOMAIN T.base.members
      /\ u.op = "call" => T.kind = "func" /\ (Len(u.kids) = Len(T.params) + 1 \/ T.isVarArg)

\* Sema's checks are the only ones (sema.cc:155-358 and 563-602): whatever the operands were
\* made of, a node that is accepted has operands of the types that the generator casts them to
\* (codegen.cc:1011-1290: CRecordType, CPointType and its base, CFuncType), with the member and as
\* many arguments as it then looks up.  A call of a function with ... may be short of arguments,
\* and & may have an operand that was not loaded: Sema has no check of either.
OperandsFit == status = "building" => \A i \in DOMAIN nodes : Fits(nodes[i])
=============================================================================
