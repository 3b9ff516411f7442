------------------------------ MODULE IRValues ------------------------------
(***************************************************************************)
(* The values that the code generator works with and their conversions     *)
(* (codegen.cc).  g is the memory, and whether something was asked of LLVM *)
(* that it does not have (a failed assertion, a null pointer, an           *)
(* instruction that does not verify).                                      *)
(*                                                                         *)
(* An llvm::Value has its LLVM type, the number it is (of a pointer the    *)
(* address; of an aggregate its bytes instead) and, when it is a load, the *)
(* address it was loaded from.  A true bit is -1, as LLVM extends it.      *)
(***************************************************************************)
EXTENDS CTypes

-----------------------------------------------------------------------------
\* LLVM types.  Pointers are opaque; there is none for long.
IntTy(n) == [k |-> "int", bits |-> n]
DoubleTy == [k |-> "double", bits |-> 64]
PtrTy == [k |-> "ptr", bits |-> 64]
AggregateTy(T) == [k |-> T.kind, bits |-> 8 * T.size, of |-> T]
NoType == [k |-> "none", bits |-> 0]

RECURSIVE LLVMType(_)
LLVMType(T) ==
  CASE T.kind \in {"int", "char"} -> IntTy(8 * T.size)
    [] T.kind = "double" -> DoubleTy
    [] T.kind = "long" -> NoType
    [] T.kind = "point" -> IF LLVMType(T.base) = NoType THEN NoType ELSE PtrTy
    [] T.kind = "array" -> IF LLVMType(T.elem) = NoType THEN NoType ELSE AggregateTy(T)
    [] OTHER -> AggregateTy(T)

IsInt(v) == v.ty.k = "int"
IsDouble(v) == v.ty = DoubleTy
IsAggregate(ty) == ty.k \in {"array", "record"}
Bytes(ty) == IF ty.bits = 1 THEN 1 ELSE ty.bits \div 8

-----------------------------------------------------------------------------
Ok(g, v) == [g |-> g, v |-> v]
Value(ty, n) == [ty |-> ty, n |-> n, cells |-> <<>>, from |-> <<>>]
Crash(g) == Ok([g EXCEPT !.crash = TRUE], Value(NoType, 0))
IsLoad(v) == v.from # <<>>
\* What load->getPointerOperand() yields.
PointerOperand(v) == v.from[1]

CreateLoad(g, ty, addr) ==
  LET cells == Load(g.mem, addr, Bytes(ty))
      loaded == [Value(ty, 0) EXCEPT !.from = <<addr>>]
  IN  IF ty.k \in {"none", "func"} THEN Crash(g)
      ELSE Ok(g, IF IsAggregate(ty) THEN [loaded EXCEPT !.cells = cells]
                 ELSE [loaded EXCEPT !.n = NumberOf(cells, ty = DoubleTy)])
CreateStore(g, v, addr) ==
  [g EXCEPT !.mem = Store(@, addr, IF IsAggregate(v.ty) THEN v.cells
                                   ELSE Cells(IsDouble(v), v.n, Bytes(v.ty)))]

-----------------------------------------------------------------------------
(***************************************************************************)
(* Conversions.                                                            *)
(***************************************************************************)
CreateIntCast(v, bits) == Value(IntTy(bits), Wrap(v.n, bits \div 8))

\* An array is the address it was loaded from; to any other type than an integer or a
\* pointer it stays as it is.
AssignCast(g, v, ty) ==
  CASE v.ty = ty -> Ok(g, v)
    [] v.ty # ty /\ IsInt(v) ->
         CASE ty.k = "int" -> Ok(g, CreateIntCast(v, ty.bits))
           [] ty = DoubleTy -> Ok(g, Value(DoubleTy, 4 * v.n))
           [] ty = PtrTy -> Ok(g, Value(PtrTy, v.n))
           [] OTHER -> Crash(g)
    [] v.ty # ty /\ IsDouble(v) -> IF ty.k = "int" THEN Ok(g, Value(ty, Wrap(Quot(v.n, 4), Bytes(ty)))) ELSE Crash(g)
    [] v.ty # ty /\ v.ty = PtrTy -> IF ty.k = "int" THEN Ok(g, Value(ty, Wrap(v.n, Bytes(ty)))) ELSE Crash(g)
    [] v.ty # ty /\ v.ty.k = "array" ->
         IF ty.k = "int" \/ ty = PtrTy
         THEN IF IsLoad(v) THEN Ok(g, Value(ty, Wrap(PointerOperand(v), Bytes(ty)))) ELSE Crash(g)
         ELSE Ok(g, v)
    [] OTHER -> Crash(g)

\* Of an argument beyond the parameters.
Cast(v) == IF v.ty.k = "array" /\ IsLoad(v) THEN Value(PtrTy, PointerOperand(v)) ELSE v

ToDouble(v) == IF IsInt(v) THEN Value(DoubleTy, 4 * v.n) ELSE v

\* Fault: of two chars neither is widened to an int.
F_Widen(v, other) == IF v.ty.bits < other.ty.bits THEN CreateIntCast(v, other.ty.bits) ELSE v

Widen(v, other) ==
  IF v.ty.bits < 32 \/ v.ty.bits < other.ty.bits
  THEN CreateIntCast(v, IF other.ty.bits < 32 THEN 32 ELSE other.ty.bits)
  ELSE v

\* Both operands of a binary operator: two doubles or two integers of one width.
BinaryArithCast(c) ==
  LET l == Widen(c.l, c.r)
      numbers == \A v \in {c.l, c.r} : IsInt(v) \/ IsDouble(v)
  IN  CASE ~numbers -> [c EXCEPT !.g.crash = TRUE]
        [] numbers /\ (IsDouble(c.l) \/ IsDouble(c.r)) ->
             [c EXCEPT !.l = ToDouble(c.l), !.r = ToDouble(c.r)]
        [] OTHER -> [c EXCEPT !.l = l, !.r = Widen(c.r, l)]

Bit(b) == Value(IntTy(1), IF b THEN -1 ELSE 0)
BooleanCast(g, v) ==
  CASE IsInt(v) \/ IsDouble(v) \/ v.ty = PtrTy -> Ok(g, Bit(v.n # 0))
    [] v.ty.k = "array" -> IF IsLoad(v) THEN Ok(g, Bit(TRUE)) ELSE Crash(g)
    [] OTHER -> Crash(g)
=============================================================================
