---------------------------- MODULE ConstantEval ----------------------------
(***************************************************************************)
(* EvalConstant (eval_constant.cc): the value of an expression that the    *)
(* parser needs as an array bound or to check a case label.  A constant is *)
(* an int64_t or a double (fp); Eval may also report an error or stop the  *)
(* compiler with a division by zero.  Unlike the generated code it         *)
(* evaluates every operand.                                                *)
(***************************************************************************)
EXTENDS ExprSema

Constant(fp, v) == [is |-> "constant", fp |-> fp, v |-> v]
Integer(v) == Constant(FALSE, v)
Truth(b) == Integer(IF b THEN 1 ELSE 0)
ReportConstantExpr == [is |-> "error", fp |-> FALSE, v |-> 0]
DivisionByZero == [is |-> "crash", fp |-> FALSE, v |-> 0]

\* A static_cast.
To(fp, c) ==
  CASE fp /\ ~c.fp -> Constant(TRUE, 4 * c.v)
    [] ~fp /\ c.fp -> Integer(Quot(c.v, 4))
    [] OTHER -> c

VisitBinaryConstant(op, lhs, rhs) ==
  LET fp == lhs.fp \/ rhs.fp
      l == To(fp, lhs).v
      r == To(fp, rhs).v
  IN  CASE op \in {"add", "sub", "mul", "div"} ->
             IF op = "div" /\ ~fp /\ r = 0 THEN DivisionByZero ELSE Constant(fp, Arith(op, fp, l, r))
        [] op \in {"mod", "bitwise_or", "bitwise_xor", "bitwise_and", "left_shift", "right_shift"} ->
             CASE fp -> ReportConstantExpr
               [] ~fp /\ op = "mod" /\ r = 0 -> DivisionByZero
               [] OTHER -> Integer(Arith(op, FALSE, l, r))
        [] op \in Compares -> Truth(Compare(op, l, r))
        [] op = "logic_or" -> Truth(l # 0 \/ r # 0)
        [] op = "logic_and" -> Truth(l # 0 /\ r # 0)
        [] op = "comma" -> rhs
        [] OTHER -> ReportConstantExpr

VisitUnaryConstant(op, val) ==
  CASE op = "positive" -> val
    [] op = "negative" -> Constant(val.fp, -val.v)
    [] op = "logic_not" -> Truth(val.v = 0)
    [] op = "bitwise_not" -> IF val.fp THEN ReportConstantExpr ELSE Integer(-1 - val.v)
    [] OTHER -> ReportConstantExpr

\* By the kind, and not the size, of the type.
VisitCastConstant(T, val) ==
  CASE T.kind = "char" -> Integer(Wrap(To(FALSE, val).v, 1))
    [] T.kind \in {"int", "long"} -> To(FALSE, val)
    [] T.kind = "double" -> To(TRUE, val)
    [] OTHER -> ReportConstantExpr

\* Fault: the branches change places.
F_VisitThreeConstant(cond, then, els) == IF cond.v # 0 THEN els ELSE then

VisitThreeConstant(cond, then, els) == IF cond.v # 0 THEN then ELSE els

\* With the constants of the operands.
VisitConstant(t, C) ==
  LET failed == {i \in DOMAIN C : C[i].is # "constant"}
  IN  CASE t.op = "number" -> Integer(t.value)
        \* The type of the node, an int, and its size in bytes for one in bits.
        [] t.op = "sizeof" -> Integer(t.type.size \div 8)
        [] t.op \in BinaryOps \cup UnaryOps \cup {"cast", "three"} /\ failed # {} ->
             C[CHOOSE i \in failed : \A j \in failed : i <= j]
        [] t.op \in BinaryOps /\ failed = {} -> VisitBinaryConstant(t.op, C[1], C[2])
        [] t.op \in UnaryOps /\ failed = {} -> VisitUnaryConstant(t.op, C[1])
        [] t.op = "cast" /\ failed = {} -> VisitCastConstant(t.type, C[1])
        [] t.op = "three" /\ failed = {} -> VisitThreeConstant(C[1], C[2], C[3])
        [] OTHER -> ReportConstantExpr

RECURSIVE EvalConst(_)
EvalConst(t) == VisitConstant(t, [i \in DOMAIN t.kids |-> EvalConst(t.kids[i])])
=============================================================================
