---------------------------- MODULE TypedCodeGen ----------------------------
(***************************************************************************)
(* Expressions of any type in the code generator (codegen.cc).  Its code   *)
(* for an expression has no loop, so that it can be executed as it is      *)
(* emitted.  Every visitor visits all its operands, whether they are going *)
(* to be executed or not.                                                  *)
(***************************************************************************)
EXTENDS ExprSema, IRValues

CONSTANT Returns(_, _)   \* external: what the function at an address returns for the numbers it is given

-----------------------------------------------------------------------------
(***************************************************************************)
(* Instructions on two operands of one type.                               *)
(***************************************************************************)
CompoundOps == "add_assign" :> "add" @@ "sub_assign" :> "sub" @@ "mul_assign" :> "mul"
            @@ "div_assign" :> "div" @@ "mod_assign" :> "mod"
            @@ "left_shift_assign" :> "left_shift" @@ "right_shift_assign" :> "right_shift"
            @@ "bitwise_and_assign" :> "bitwise_and" @@ "bitwise_or_assign" :> "bitwise_or"
            @@ "bitwise_xor_assign" :> "bitwise_xor"

\* The instruction for integers or for doubles (fp).
CreateArith(c, op, fp) ==
  IF ~c.g.crash /\ \A v \in {c.l, c.r} : IF fp THEN IsDouble(v) ELSE IsInt(v)
  THEN Ok(c.g, Value(c.l.ty, Wrap(Arith(op, fp, c.l.n, c.r.n), Bytes(c.l.ty))))
  ELSE Crash(c.g)

\* Addition and subtraction go by the type of the node on the left, multiplication and
\* division by that of the value, and the others are there for integers only.
IsFloating(op, left, c) ==
  CASE op \in {"add", "sub"} -> LLVMType(left.type) = DoubleTy
    [] op \in {"mul", "div"} -> IsDouble(c.l)
    [] OTHER -> FALSE

CreateCmp(c, op) ==
  IF c.g.crash THEN Crash(c.g) ELSE Ok(c.g, Bit(Compare(op, c.l.n, c.r.n)))

-----------------------------------------------------------------------------
(***************************************************************************)
(* The visitors.  A visitor of the node t finds its operands visited, one  *)
(* after the other, in k; g is what the last of them left.                 *)
(***************************************************************************)
Both(g, k) == [g |-> g, l |-> k[1].v, r |-> k[2].v]

\* What an assignment stores is what it yields.
Assign(result, ty, to) ==
  LET cast == AssignCast(result.g, result.v, ty)
  IN  IF IsLoad(to) THEN Ok(CreateStore(cast.g, cast.v, PointerOperand(to)), cast.v) ELSE Crash(result.g)

\* The type that the result is cast to is the one the left operand, in c, has been widened to.
VisitCompound(c, op, t, to) ==
  Assign(CreateArith(c, op, IsFloating(op, t.kids[1], c)), c.l.ty, to)

\* On two numbers made alike.
VisitArithmetic(c, t, to) ==
  CASE t.op \in DOMAIN CompoundOps -> VisitCompound(c, CompoundOps[t.op], t, to)
    [] t.op \in Compares -> CreateCmp(c, t.op)
    [] OTHER -> CreateArith(c, t.op, IsFloating(t.op, t.kids[1], c))

\* The right side has its own block, and a phi of 32 bits joins it.
JoinLogic(g, cond, next, t, k) ==
  LET goesOn == (cond.v.n # 0) = (t.op = "logic_and")
  IN  Ok([mem |-> IF goesOn THEN g.mem ELSE k[1].g.mem, crash |-> cond.g.crash \/ next.g.crash],
         Value(IntTy(32), IF (IF goesOn THEN next.v.n # 0 ELSE t.op = "logic_or") THEN 1 ELSE 0))
VisitLogic(g, t, k) == JoinLogic(g, BooleanCast(k[1].g, k[1].v), BooleanCast(g, k[2].v), t, k)

VisitBinaryExpr(g, t, k) ==
  CASE t.op \in Logics -> VisitLogic(g, t, k)
    [] t.op = "assign" -> Assign(Ok(g, k[2].v), k[1].v.ty, k[1].v)
    [] t.op = "comma" -> Ok(g, Value(NoType, 0))
    [] OTHER -> VisitArithmetic(BinaryArithCast(Both(g, k)), t, k[1].v)

\* What IRBuilder folds to a constant as it is made.
RECURSIVE Folded(_)
Folded(t) ==
  \/ t.op \in {"number", "sizeof"}
  \/ /\ t.op \in (BinaryOps \ (Logics \cup {"assign", "comma"} \cup DOMAIN CompoundOps))
                 \cup {"positive", "negative", "logic_not", "bitwise_not", "cast"}
     /\ \A i \in DOMAIN t.kids : Folded(t.kids[i])

\* The branches are made alike behind them, in front of the phi, where no instruction
\* may be; the type of the phi is that of the node.
JoinBranches(cond, c, t, k) ==
  LET stays == \A i \in 2..3 : Folded(t.kids[i]) \/ k[i].v = (IF i = 2 THEN c.l ELSE c.r)
      taken == cond.v.n # 0
  IN  IF ~c.g.crash /\ ~cond.g.crash /\ stays /\ {c.l.ty, c.r.ty} = {LLVMType(t.type)}
      THEN Ok([c.g EXCEPT !.mem = IF taken THEN k[2].g.mem ELSE @], IF taken THEN c.l ELSE c.r)
      ELSE Crash(c.g)
VisitThreeExpr(g, t, k) ==
  JoinBranches(BooleanCast(k[1].g, k[1].v), BinaryArithCast([g |-> g, l |-> k[2].v, r |-> k[3].v]), t, k)

VisitCastExpr(g, t, k) ==
  IF LLVMType(t.type) = NoType THEN Crash(g) ELSE AssignCast(g, k[1].v, LLVMType(t.type))

-----------------------------------------------------------------------------
\* ++ and --: a pointer moves by the size of a pointer, the type it is given to GEP.
Stepped(x, down) ==
  LET by == (IF down THEN -1 ELSE 1) * (IF x.ty = PtrTy THEN 8 ELSE 1)
  IN  Value(x.ty, Wrap(x.n + by, Bytes(x.ty)))

VisitStep(g, t, x) ==
  LET ty == LLVMType(t.kids[1].type)
      new == Stepped(x, t.op \in {"dec", "post_dec"})
  IN  IF IsLoad(x) /\ (ty = PtrTy \/ (ty.k = "int" /\ x.ty = IntTy(32)))
      THEN Ok(CreateStore(g, new, PointerOperand(x)), IF t.op \in {"inc", "dec"} THEN new ELSE x)
      ELSE Crash(g)

VisitUnaryExpr(g, t, v) ==
  LET Make(possible, ty, n) == IF possible THEN Ok(g, Value(ty, n)) ELSE Crash(g)
  IN  CASE t.op = "positive" -> Ok(g, v)
        [] t.op = "negative" -> Make(IsInt(v), v.ty, -v.n)
        [] t.op = "bitwise_not" -> Make(IsInt(v), v.ty, -1 - v.n)
        [] t.op = "logic_not" -> Make(v.ty = IntTy(32), IntTy(32), IF v.n = 0 THEN 1 ELSE 0)
        [] t.op = "addr" -> IF IsLoad(v) THEN Ok(g, Value(PtrTy, PointerOperand(v))) ELSE Crash(g)
        [] t.op = "deref" -> IF v.ty = PtrTy THEN CreateLoad(g, LLVMType(t.type), v.n) ELSE Crash(g)

VisitNumberExpr(g, t) == Ok(g, Value(IntTy(8 * t.type.size), t.value))
VisitStringExpr(g, t) == Ok(g, Value(PtrTy, Strings[t.name].addr))
VisitSizeOfExpr(g, t) == Ok(g, Value(IntTy(32), t.value))

VisitVariableAccessExpr(g, t) ==
  LET ty == LLVMType(Variables[t.name].type)
      addr == Variables[t.name].addr
  IN  IF ty.k = "func" THEN Ok(g, Value(PtrTy, addr)) ELSE CreateLoad(g, ty, addr)

-----------------------------------------------------------------------------
\* The address that the elements of an array or behind a pointer begin at.
Base(v) == CASE v.ty = PtrTy -> <<v.n>>
             [] v.ty.k = "array" -> v.from
             [] OTHER -> <<>>

VisitPostSubscript(g, t, k) ==
  LET ty == LLVMType(t.type)
      base == Base(k[1].v)
  IN  IF base # <<>> /\ IsInt(k[2].v) THEN CreateLoad(g, ty, base[1] + Bytes(ty) * k[2].v.n)
      ELSE Crash(g)

\* base: where the record is, if that is known.
LoadMember(g, t, T, base) ==
  IF base # <<>> THEN CreateLoad(g, LLVMType(t.type), base[1] + T.members[t.name].offset) ELSE Crash(g)
VisitPostMemberDotExpr(g, t, v) == LoadMember(g, t, t.kids[1].type, v.from)
VisitPostMemberArrowExpr(g, t, v) ==
  LoadMember(g, t, t.kids[1].type.base, IF v.ty = PtrTy THEN <<v.n>> ELSE <<>>)

\* Each argument is converted to its parameter, if it has one.
VisitPostFunctionCallExpr(g, t, k) ==
  LET T == t.kids[1].type
      args == [i \in 1..Len(k) - 1 |->
                 IF i <= Len(T.params) THEN AssignCast(g, k[i + 1].v, LLVMType(T.params[i]))
                 ELSE Ok(g, Cast(k[i + 1].v))]
  IN  IF k[1].v.ty = PtrTy /\ \A i \in DOMAIN args : ~args[i].g.crash
      THEN Ok(g, Value(LLVMType(T.ret), Returns(k[1].v.n, [i \in DOMAIN args |-> args[i].v.n])))
      ELSE Crash(g)

-----------------------------------------------------------------------------
\* Where the code of the next operand starts from: the third one of ?: from where the second did.
From(g, t, k) ==
  CASE k = <<>> -> g
    [] t.op = "three" /\ Len(k) = 2 -> [k[1].g EXCEPT !.crash = k[2].g.crash]
    [] OTHER -> Last(k).g

\* With the operands visited in k.
VisitNode(g0, t, k) ==
  LET g == IF k = <<>> THEN g0 ELSE Last(k).g
  IN  CASE t.op = "var" -> VisitVariableAccessExpr(g, t)
        [] t.op = "number" -> VisitNumberExpr(g, t)
        [] t.op = "string" -> VisitStringExpr(g, t)
        [] t.op = "sizeof" -> VisitSizeOfExpr(g, t)
        [] t.op \in BinaryOps -> VisitBinaryExpr(g, t, k)
        [] t.op \in UnaryOps \ {"inc", "dec"} -> VisitUnaryExpr(g, t, k[1].v)
        [] t.op \in {"inc", "dec", "post_inc", "post_dec"} -> VisitStep(g, t, k[1].v)
        [] t.op = "cast" -> VisitCastExpr(g, t, k)
        [] t.op = "three" -> VisitThreeExpr(g, t, k)
        [] t.op = "subscript" -> VisitPostSubscript(g, t, k)
        [] t.op = "dot" -> VisitPostMemberDotExpr(g, t, k[1].v)
        [] t.op = "arrow" -> VisitPostMemberArrowExpr(g, t, k[1].v)
        [] t.op = "call" -> VisitPostFunctionCallExpr(g, t, k)

\* The operand of sizeof is not visited.
RECURSIVE Visit(_, _)
Visit(g, t) ==
  VisitNode(g, t, FoldLeft(LAMBDA before, x : Append(before, Visit(From(g, t, before), x)), <<>>,
                           IF t.op = "sizeof" THEN <<>> ELSE t.kids))
=============================================================================
