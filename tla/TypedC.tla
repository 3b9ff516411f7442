------------------------------- MODULE TypedC -------------------------------
(***************************************************************************)
(* Expressions in C (C11 6.3 and 6.5), over the trees of ExprSema: which   *)
(* of them are legal, their types, and what they do to memory.  Operands   *)
(* are evaluated from left to right, one of the orders that C allows.      *)
(***************************************************************************)
EXTENDS CTypes

CONSTANTS Variables, Strings, Returns(_, _)

IllegalType == [kind |-> "illegal", size |-> 0]
IsLegal(T) == T # IllegalType
Decayed(T) == CASE T.kind = "array" -> CPointType(T.elem)
                [] T.kind = "func" -> CPointType(T)
                [] OTHER -> T
IsScalar(T) == IsArithType(T) \/ IsPoint(T)
IsObjectPointer(T) == IsPoint(T) /\ T.base.kind # "func"

\* The usual arithmetic conversions.
Common(T, U) == CASE "double" \in {T.kind, U.kind} -> DoubleType
                  [] "double" \notin {T.kind, U.kind} /\ "long" \in {T.kind, U.kind} -> LongType
                  [] OTHER -> IntType
Promoted(T) == Common(T, IntType)

IsNull(t) == t.op = "number" /\ t.value = 0
\* Whether the expression t, of type U, may be assigned to a T.
Assignable(T, t, U) ==
  \/ IsArithType(T) /\ IsArithType(U)
  \/ T = U /\ (IsPoint(T) \/ T.kind = "record")
  \/ IsPoint(T) /\ IsNull(t)

-----------------------------------------------------------------------------
(***************************************************************************)
(* Types.                                                                  *)
(***************************************************************************)
Additive == {"add", "sub"}
Multiplicative == {"mul", "div"}
IntegerOnly == {"mod", "bitwise_or", "bitwise_and", "bitwise_xor"}
Shifts == {"left_shift", "right_shift"}
Relations == {"less", "less_equal", "greater", "greater_equal"}
Equalities == {"equal", "not_equal"}
Steps == {"inc", "dec", "post_inc", "post_dec"}

\* a op b on values of the types T and U.
BinaryType(op, T, U) ==
  CASE op \in Additive /\ IsObjectPointer(T) /\ IsIntegerType(U) -> T
    [] op = "add" /\ IsIntegerType(T) /\ IsObjectPointer(U) -> U
    [] op = "sub" /\ IsObjectPointer(T) /\ T = U -> LongType
    [] op \in Additive \cup Multiplicative /\ IsArithType(T) /\ IsArithType(U) -> Common(T, U)
    [] op \in IntegerOnly /\ IsIntegerType(T) /\ IsIntegerType(U) -> Common(T, U)
    [] op \in Shifts /\ IsIntegerType(T) /\ IsIntegerType(U) -> Promoted(T)
    [] op \in Relations /\ ((T = U /\ IsObjectPointer(T)) \/ (IsArithType(T) /\ IsArithType(U))) -> IntType
    [] OTHER -> IllegalType

CompoundOf == "add_assign" :> "add" @@ "sub_assign" :> "sub" @@ "mul_assign" :> "mul"
           @@ "div_assign" :> "div" @@ "mod_assign" :> "mod"
           @@ "left_shift_assign" :> "left_shift" @@ "right_shift_assign" :> "right_shift"
           @@ "bitwise_and_assign" :> "bitwise_and" @@ "bitwise_or_assign" :> "bitwise_or"
           @@ "bitwise_xor_assign" :> "bitwise_xor"

MemberType(T, m) == IF T.kind = "record" /\ m \in DOMAIN T.members THEN T.members[m].type ELSE IllegalType
If(possible, T) == IF possible THEN T ELSE IllegalType

\* Of the node t, whose operands k have legal types.
TypeOf(t, k) ==
  LET raw == k[1].type
      V(i) == Decayed(k[i].type)
      T == V(1)
      U == V(2)
      F == IF IsPoint(T) THEN T.base ELSE T
      modifiable == k[1].lvalue /\ raw.kind # "array"
      numbers == IsArithType(T) /\ IsArithType(U)
  IN  CASE t.op \in Equalities ->
             If(numbers \/ (IsPoint(T) /\ (T = U \/ IsNull(t.kids[2]))) \/ (IsNull(t.kids[1]) /\ IsPoint(U)), IntType)
        [] t.op \in {"logic_or", "logic_and"} -> If(IsScalar(T) /\ IsScalar(U), IntType)
        [] t.op = "comma" -> U
        [] t.op = "assign" -> If(modifiable /\ Assignable(raw, t.kids[2], U), raw)
        [] t.op \in DOMAIN CompoundOf ->
             If(/\ modifiable
                /\ numbers \/ (IsPoint(T) /\ IsIntegerType(U))
                /\ IsLegal(BinaryType(CompoundOf[t.op], T, U)), raw)
        [] t.op \in {"positive", "negative"} -> If(IsArithType(T), Promoted(T))
        [] t.op = "bitwise_not" -> If(IsIntegerType(T), Promoted(T))
        [] t.op = "logic_not" -> If(IsScalar(T), IntType)
        [] t.op = "addr" -> If(k[1].lvalue \/ raw.kind = "func", CPointType(raw))
        [] t.op = "deref" -> If(IsPoint(T), F)
        [] t.op \in Steps -> If(modifiable /\ (IsArithType(T) \/ IsObjectPointer(T)), raw)
        [] t.op = "cast" ->
             If(/\ IsScalar(T) /\ IsScalar(t.type)
                /\ {T.kind, t.type.kind} # {"double", "point"}, t.type)
        [] t.op = "sizeof" -> If(raw.kind # "func", IntType)
        [] t.op = "three" ->
             If(IsScalar(T),
                CASE IsArithType(U) /\ IsArithType(V(3)) -> Common(U, V(3))
                  [] IsPoint(U) /\ IsNull(t.kids[3]) -> U
                  [] IsPoint(V(3)) /\ IsNull(t.kids[2]) -> V(3)
                  [] OTHER -> If(U = V(3), U))
        [] t.op = "subscript" ->
             CASE IsObjectPointer(T) /\ IsIntegerType(U) -> T.base
               [] IsIntegerType(T) /\ IsObjectPointer(U) -> U.base
               [] OTHER -> IllegalType
        [] t.op = "dot" -> MemberType(raw, t.name)
        [] t.op = "arrow" -> If(IsPoint(T), MemberType(F, t.name))
        [] t.op = "call" ->
             If(/\ F.kind = "func" /\ Len(F.params) = Len(k) - 1
                /\ \A i \in DOMAIN F.params : Assignable(F.params[i], t.kids[i + 1], V(i + 1)), F.ret)
        [] OTHER -> BinaryType(t.op, T, U)

-----------------------------------------------------------------------------
(***************************************************************************)
(* Values.  What an expression does: mem is memory afterwards; addr is the *)
(* place it designates, if any; v is its value (of a record its bytes), of *)
(* an array or a function its address.  ok: the evaluation is defined;     *)
(* known: so is the value.                                                 *)
(***************************************************************************)
Inside(addr, n) ==
  \E x \in DOMAIN Variables :
    addr >= Variables[x].addr /\ addr + n <= Variables[x].addr + Variables[x].type.size

Result(mem, ok, T, v) ==
  [mem |-> mem, type |-> T, lvalue |-> FALSE, addr |-> 0, v |-> v, ok |-> ok,
   known |-> ok /\ (T.kind = "record" \/ v # Junk)]
Illegal(mem) == Result(mem, FALSE, IllegalType, 0)

Fetched(mem, T, addr) ==
  LET cells == Load(mem, addr, T.size)
  IN  IF T.kind = "record" THEN cells ELSE NumberOf(cells, T.kind = "double")

\* What is at an address.
Designated(mem, ok, T, addr) ==
  IF T.kind = "func" THEN Result(mem, ok, T, addr)
  ELSE [Result(mem, ok, T, IF T.kind = "array" THEN addr ELSE Fetched(mem, T, addr))
          EXCEPT !.lvalue = TRUE, !.addr = addr]

Convert(v, T, U) ==
  CASE U.kind = "double" /\ T.kind # "double" -> 4 * v
    [] IsIntegerType(U) -> Wrap(IF T.kind = "double" THEN Quot(v, 4) ELSE v, U.size)
    [] OTHER -> v

\* The value v, of type U, is stored where the T at place is, and is the value of it all.
Stored(mem, ok, place, v, U) ==
  LET T == place.type
      new == Convert(v, U, T)
      fits == ok /\ Inside(place.addr, T.size)
  IN  Result(IF fits THEN Store(mem, place.addr, IF T.kind = "record" THEN new
                                                 ELSE Cells(T.kind = "double", new, T.size))
             ELSE mem, fits, T, new)

BinaryValue(op, T, U, v, w) ==
  LET C == Common(T, U)
      l == IF IsPoint(T) THEN v ELSE Convert(v, T, C)
      r == IF IsPoint(U) THEN w ELSE Convert(w, U, C)
  IN  CASE op \in Relations \cup Equalities -> IF Compare(op, l, r) THEN 1 ELSE 0
        [] IsPoint(T) /\ IsPoint(U) /\ op = "sub" -> Quot(v - w, T.base.size)
        [] IsPoint(T) /\ ~IsPoint(U) /\ op = "add" -> v + w * T.base.size
        [] IsPoint(T) /\ ~IsPoint(U) /\ op = "sub" -> v - w * T.base.size
        [] ~IsPoint(T) /\ IsPoint(U) /\ op = "add" -> w + v * U.base.size
        [] OTHER -> IF op \in Shifts THEN Arith(op, FALSE, v, w) ELSE Arith(op, C = DoubleType, l, r)

\* place = place op w, where w is of type U.
Updated(mem, place, op, w, U) ==
  LET T == place.type
      v == BinaryValue(op, T, U, place.v, w)
  IN  Stored(mem, place.known /\ v # Junk, place, v, IF IsPoint(T) THEN T ELSE BinaryType(op, T, U))

UnaryValue(op, v) ==
  CASE op = "positive" -> v
    [] op = "negative" -> -v
    [] op = "bitwise_not" -> -1 - v
    [] op = "logic_not" -> IF v = 0 THEN 1 ELSE 0

\* Of the node t, of the legal type T, with its operands evaluated.
ResultOf(mem, t, T, k) ==
  LET m == IF k = <<>> THEN mem ELSE Last(k).mem
      U(i) == Decayed(k[i].type)
      known == \A i \in DOMAIN k : k[i].known
      Truth(v) == IF v # 0 THEN 1 ELSE 0
      taken == k[IF k[1].v # 0 THEN 2 ELSE 3]
  IN  CASE t.op = "var" -> Designated(m, TRUE, T, Variables[t.name].addr)
        [] t.op = "string" -> Designated(m, TRUE, T, Strings[t.name].addr)
        [] t.op = "number" -> Result(m, TRUE, T, t.value)
        [] t.op = "sizeof" -> Result(mem, TRUE, T, IF k = <<>> THEN t.value ELSE k[1].type.size)
        [] t.op = "deref" -> Designated(m, known, T, k[1].v)
        [] t.op = "addr" -> Result(m, k[1].ok, T, IF k[1].lvalue THEN k[1].addr ELSE k[1].v)
        [] t.op = "subscript" -> Designated(m, known, T, BinaryValue("add", U(1), U(2), k[1].v, k[2].v))
        [] t.op = "arrow" -> Designated(m, known, T, k[1].v + U(1).base.members[t.name].offset)
        [] t.op = "dot" ->
             LET at == k[1].type.members[t.name].offset
             IN  IF k[1].lvalue THEN Designated(m, k[1].ok, T, k[1].addr + at)
                 ELSE Result(m, known, T, Fetched(k[1].v, T, at + 1))
        [] t.op = "assign" -> Stored(m, k[1].ok /\ k[2].known, k[1], k[2].v, U(2))
        [] t.op \in DOMAIN CompoundOf -> Updated(m, [k[1] EXCEPT !.known = known], CompoundOf[t.op], k[2].v, U(2))
        [] t.op \in Steps ->
             LET new == Updated(m, k[1], IF t.op \in {"inc", "post_inc"} THEN "add" ELSE "sub", 1, IntType)
             IN  IF t.op \in {"post_inc", "post_dec"} THEN [new EXCEPT !.v = k[1].v] ELSE new
        [] t.op \in {"logic_or", "logic_and"} ->
             IF (k[1].v # 0) = (t.op = "logic_and") THEN Result(m, known, T, Truth(k[2].v))
             ELSE Result(k[1].mem, k[1].known, T, Truth(k[1].v))
        [] t.op = "three" -> Result(taken.mem, k[1].known /\ taken.known, T, Convert(taken.v, Decayed(taken.type), T))
        [] t.op = "comma" -> Result(m, k[1].ok /\ k[2].known, T, k[2].v)
        [] t.op = "cast" -> Result(m, known, T, Convert(k[1].v, U(1), T))
        [] t.op \in {"positive", "negative", "bitwise_not", "logic_not"} ->
             Result(m, known, T, UnaryValue(t.op, k[1].v))
        [] t.op = "call" ->
             Result(m, known, T, Returns(k[1].v, [i \in 1..Len(k) - 1 |->
                                                    Convert(k[i + 1].v, U(i + 1), U(1).base.params[i])]))
        [] OTHER -> Result(m, known, T, BinaryValue(t.op, U(1), U(2), k[1].v, k[2].v))

\* Memory as the next operand finds it.  The operands that are not evaluated in the end
\* (those of sizeof, one side of ?:, && or ||) leave no trace in what is made of them.
Before(mem, t, k) == CASE k = <<>> -> mem
                       [] t.op = "three" /\ Len(k) = 2 -> k[1].mem
                       [] OTHER -> Last(k).mem

\* With the operands evaluated in k.
EvalNode(mem, t, k) ==
  LET T == CASE t.op = "var" -> Variables[t.name].type
             [] t.op = "string" -> CArrayType(CharType, Strings[t.name].length + 1)
             [] t.op = "number" \/ (t.op = "sizeof" /\ k = <<>>) -> IntType
             [] OTHER -> If(\A i \in DOMAIN k : IsLegal(k[i].type), TypeOf(t, k))
  IN  IF IsLegal(T) THEN ResultOf(mem, t, T, k) ELSE Illegal(mem)

RECURSIVE Eval(_, _)
Eval(mem, t) ==
  EvalNode(mem, t, FoldLeft(LAMBDA before, x : Append(before, Eval(Before(mem, t, before), x)), <<>>, t.kids))
Type(t) == Eval([a \in {} |-> <<>>], t).type
=============================================================================
