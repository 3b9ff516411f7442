---------------------------- MODULE InitCodeGen ----------------------------
(***************************************************************************)
(* What VisitVariableDeclExpr (codegen.cc) makes of the list of values:    *)
(* the stores to a local variable, or the constant of a global one.        *)
(***************************************************************************)
EXTENDS Initializers, IRValues

CONSTANT StringAt   \* the address of the string literal

\* The code of the expression.
VisitInitValue(node) == IF node.op = "number" THEN Value(IntTy(32), node.value) ELSE Value(PtrTy, StringAt)

-----------------------------------------------------------------------------
\* The LLVM type of a union has its largest member only.
LargestMember(T) ==
  LET sizes == [i \in DOMAIN T.members |-> T.members[i].type.size]
  IN  T.members[CHOOSE i \in DOMAIN sizes :
                  \A j \in DOMAIN sizes : sizes[i] > sizes[j] \/ (sizes[i] = sizes[j] /\ i <= j)]
IRElements(T) ==
  CASE T.kind = "array" -> [i \in 1..T.count |-> [type |-> T.elem, offset |-> (i - 1) * T.elem.size]]
    [] T.kind = "record" /\ T.tag = "struct" -> T.members
    [] T.kind = "record" /\ T.tag = "union" -> <<LargestMember(T)>>
    [] OTHER -> <<>>

\* The address that indices lead to, if the type has them.
CreateGEP(indices) ==
  FoldLeft(LAMBDA p, i : IF p.ok /\ i + 1 \in DOMAIN IRElements(p.type)
                         THEN [p EXCEPT !.type = IRElements(p.type)[i + 1].type,
                                        !.addr = @ + IRElements(p.type)[i + 1].offset]
                         ELSE [p EXCEPT !.ok = FALSE],
           [type |-> declared, addr |-> 0, ok |-> TRUE], Tail(indices))

StoreValue(g, v, addr) ==
  LET cast == AssignCast(g, VisitInitValue(v.value), LLVMType(v.type))
  IN  IF cast.g.crash THEN cast.g ELSE CreateStore(cast.g, cast.v, addr)

\* Fault: the values go where the variable begins.
F_StoreElement(g, v) == StoreValue(g, v, 0)

StoreElement(g, v) ==
  LET p == CreateGEP(v.offsets) IN IF p.ok THEN StoreValue(g, v, p.addr) ELSE [g EXCEPT !.crash = TRUE]

\* What no store has reached is <<FALSE, 0, 0>>.
Untouched == [mem |-> [a \in 0..(declared.size - 1) |-> <<FALSE, 0, 0>>], crash |-> FALSE]

\* A single value is stored where the variable begins.
LocalVariable ==
  CASE initValues = <<>> -> Untouched
    [] Len(initValues) = 1 -> StoreValue(Untouched, initValues[1], 0)
    [] OTHER -> IF declared.kind = "array" \/ (declared.kind = "record" /\ declared.tag = "struct")
                THEN FoldLeft(StoreElement, Untouched, initValues)
                ELSE [Untouched EXCEPT !.crash = TRUE]

\* Fault: the last index is not compared.
F_GetInitValueByOffset(offset) == SelectSeq(initValues, LAMBDA v : Front(v.offsets) = Front(offset))

GetInitValueByOffset(offset) == SelectSeq(initValues, LAMBDA v : v.offsets = offset)

\* The constant for a scalar; without a value it is an int 0 or a null pointer.  There is none
\* for doubles.
InitialScalar(ty, found) ==
  LET g == [mem |-> <<>>, crash |-> FALSE]
  IN  CASE ty = DoubleTy -> Crash(g)
        [] ty # DoubleTy /\ found # <<>> -> AssignCast(g, VisitInitValue(found[1].value), ty)
        [] OTHER -> IF ty \in {IntTy(32), PtrTy} THEN Ok(g, Value(ty, 0)) ELSE Crash(g)

\* Stores the constant for the T at addr, whose place is offset.
RECURSIVE GetInitialValue(_, _, _, _)
GetInitialValue(g, T, addr, offset) ==
  IF T.kind \in {"array", "record"}
  THEN LET elems == IRElements(T)
       IN  FoldLeft(LAMBDA h, i : GetInitialValue(h, elems[i].type, addr + elems[i].offset, Append(offset, i - 1)),
                    g, [i \in DOMAIN elems |-> i])
  ELSE LET c == InitialScalar(LLVMType(T), GetInitValueByOffset(offset))
       IN  IF c.g.crash THEN [g EXCEPT !.crash = TRUE] ELSE CreateStore(g, c.v, addr)

GlobalVariable == GetInitialValue(Untouched, declared, 0, <<0>>)
=============================================================================
