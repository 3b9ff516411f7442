------------------------------- MODULE CTypes -------------------------------
(***************************************************************************)
(* The types of the front end (type.h, type.cc), and memory as the         *)
(* generated code and C both see it: bytes, each of which knows of which   *)
(* value it is which part.                                                 *)
(*                                                                         *)
(* A double is counted in quarters.  The kinds without a case of their own *)
(* in what is modelled are left out: float, the unsigned types, which have *)
(* the kinds and sizes of the signed ones, and void.                       *)
(***************************************************************************)
EXTENDS SequencesExt, Integers

Primary(kind, size) == [kind |-> kind, size |-> size]
CharType == Primary("char", 1)
IntType == Primary("int", 4)
LongType == Primary("long", 8)
DoubleType == Primary("double", 8)
CPointType(base) == [kind |-> "point", size |-> 8, base |-> base]
CArrayType(elem, count) ==
  [kind |-> "array", size |-> count * elem.size, elem |-> elem, count |-> count]
\* members: from names to types and offsets.
CRecordType(tag, members, size) ==
  [kind |-> "record", size |-> size, tag |-> tag, members |-> members]
CFuncType(params, ret, isVarArg) ==
  [kind |-> "func", size |-> 0, params |-> params, ret |-> ret, isVarArg |-> isVarArg]

IsIntegerType(T) == T.kind \in {"char", "int", "long"}
IsArithType(T) == IsIntegerType(T) \/ T.kind = "double"
IsPoint(T) == T.kind = "point"

-----------------------------------------------------------------------------
\* Numbers of n bytes, signed; none of four bytes comes near 2^31 (Largest).
Wrap(v, n) ==
  CASE n = 1 -> ((v + 2^7) % 2^8) - 2^7
    [] n = 2 -> ((v + 2^15) % 2^16) - 2^15
    [] OTHER -> v
Abs(v) == IF v < 0 THEN -v ELSE v
Quot(v, w) == IF (v < 0) = (w < 0) THEN Abs(v) \div Abs(w) ELSE -(Abs(v) \div Abs(w))
Rem(v, w) == v - w * Quot(v, w)

\* What is read where no whole value is.
Junk == 99999

\* The n bytes of the number v, an integer or (fp) a double.
Cells(fp, v, n) == [k \in 1..n |-> <<fp, v, k>>]
NumberOf(cells, fp) ==
  LET v == cells[1][2]
  IN  IF cells = Cells(fp, v, Len(cells)) THEN Wrap(v, Len(cells)) ELSE Junk

Load(mem, addr, n) ==
  [k \in 1..n |-> IF addr + k - 1 \in DOMAIN mem THEN mem[addr + k - 1] ELSE <<FALSE, 0, 0>>]
Store(mem, addr, cells) ==
  [a \in DOMAIN mem |-> IF a - addr + 1 \in DOMAIN cells THEN cells[a - addr + 1] ELSE mem[a]]

-----------------------------------------------------------------------------
(***************************************************************************)
(* Operators on numbers: integers or (fp) doubles.  What is undefined is   *)
(* Junk, and so is what is beyond the numbers that are considered (bound). *)
(***************************************************************************)
Largest == 2^14

ShiftRight(a, n) == IF n \in 0..30 THEN a \div 2^n ELSE Junk

\* Of two's complement numbers of 16 bits.
BitAnd(a, b) ==
  LET Bit(x, k) == (x \div 2^k) % 2
      both[k \in 0..15] == (IF k = 0 THEN 0 ELSE both[k - 1]) + Bit(a, k) * Bit(b, k) * 2^k
  IN  Wrap(both[15], 2)

Operated(op, fp, a, b) ==
  CASE op = "add" -> a + b
    [] op = "sub" -> a - b
    [] op = "mul" -> IF fp THEN Quot(a * b, 4) ELSE a * b
    [] op = "div" -> IF b = 0 THEN Junk ELSE Quot(IF fp THEN 4 * a ELSE a, b)
    [] op = "mod" -> IF b = 0 THEN Junk ELSE Rem(a, b)
    [] op = "left_shift" -> IF b \in 0..15 THEN a * 2^b ELSE Junk
    [] op = "right_shift" -> ShiftRight(a, b)
    [] op = "bitwise_and" -> BitAnd(a, b)
    [] op = "bitwise_or" -> a + b - BitAnd(a, b)
    [] op = "bitwise_xor" -> a + b - 2 * BitAnd(a, b)
Arith(op, fp, a, b) ==
  IF Abs(a) <= Largest /\ Abs(b) <= Largest
  THEN LET v == Operated(op, fp, a, b) IN IF Abs(v) <= Largest THEN v ELSE Junk
  ELSE Junk

Compare(op, a, b) ==
  CASE op = "equal" -> a = b
    [] op = "not_equal" -> a # b
    [] op = "less" -> a < b
    [] op = "less_equal" -> a <= b
    [] op = "greater" -> a > b
    [] op = "greater_equal" -> a >= b
=============================================================================
