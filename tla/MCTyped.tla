------------------------------ MODULE MCTyped ------------------------------
(***************************************************************************)
(* Expressions over an int, a char, a double, an array, two structs,       *)
(* pointers to them, and a function.                                       *)
(***************************************************************************)
EXTENDS TypedExec, FiniteSetsExt

S == CRecordType("S", "x" :> [type |-> CharType, offset |-> 0]
                      @@ "y" :> [type |-> IntType, offset |-> 4], 8)
F == CFuncType(<<CharType, DoubleType>>, IntType, FALSE)
At(type, addr) == [type |-> type, addr |-> addr]

MCVariables ==
     "i" :> At(IntType, 100) @@ "c" :> At(CharType, 110) @@ "d" :> At(DoubleType, 120)
  @@ "p" :> At(CPointType(IntType), 130) @@ "a" :> At(CArrayType(IntType, 2), 140)
  @@ "s" :> At(S, 150) @@ "q" :> At(CPointType(S), 160) @@ "t" :> At(S, 170)
  @@ "f" :> At(F, 200)
MCStrings == "ab" :> [length |-> 2, addr |-> 180]
MCNumbers == {0, 1, 300}
MCTypeNames == {CharType, IntType, DoubleType, CPointType(IntType)}

Put(mem, addr, fp, v, n) == Store(mem, addr, Cells(fp, v, n))
MCMemory ==
  LET m0 == [a \in 100..199 |-> <<FALSE, 0, 0>>]
      m1 == Put(Put(Put(m0, 100, FALSE, 1, 4), 110, FALSE, -3, 1), 120, TRUE, 10, 8)
      m2 == Put(Put(Put(m1, 130, FALSE, 140, 8), 140, FALSE, 5, 4), 144, FALSE, 0, 4)
      m3 == Put(Put(Put(m2, 150, FALSE, 2, 1), 154, FALSE, 9, 4), 160, FALSE, 170, 8)
      m4 == Put(Put(m3, 170, FALSE, 7, 1), 174, FALSE, -6, 4)
  IN  Put(Put(Put(m4, 180, FALSE, 97, 1), 181, FALSE, 98, 1), 182, FALSE, 0, 1)

\* f(c, d) = 2 * c + d, with d in quarters.
MCReturns(addr, ns) == IF addr = 200 /\ Len(ns) = 2 THEN 2 * ns[1] + ns[2] ELSE Junk

-----------------------------------------------------------------------------
RECURSIVE Size(_)
Size(t) == 1 + FoldSeq(LAMBDA k, n : n + Size(k), 0, t.kids)
\* Up to four nodes, or up to five of these: with the operators that the operands need.
Core == {"var", "assign", "mul", "mul_assign", "logic_and", "subscript", "less", "deref", "addr"}
CoreNames == {"i", "c", "d", "p"}
IsCore(t) == \A u \in Parts(t) : u.op \in Core /\ (u.op = "var" => u.name \in CoreNames)

MCMayHave(ns) ==
  LET size == FoldSeq(LAMBDA t, n : n + Size(t), 0, ns)
      open == IF Len(ns) = 1 THEN 0 ELSE 1
  IN  size + open <= IF \A k \in DOMAIN ns : IsCore(ns[k]) THEN 5 ELSE 4

-----------------------------------------------------------------------------
(***************************************************************************)
(* What is known to go wrong, in the node u.                               *)
(***************************************************************************)
Sums == {"add", "sub", "add_assign", "sub_assign"}
Steps == {"inc", "dec", "post_inc", "post_dec"}
LeftIs(u, kinds) == u.kids[1].type.kind \in kinds

\* Operands of + and of comparisons must be numbers to BinaryArithCast; p++ moves by 8 bytes.
PointerArithmetic(u) ==
  \/ u.op \in Sums \cup Compares /\ \E T \in Types(u) : ~IsArithType(T)
  \/ u.op \in Steps /\ LeftIs(u, {"point"})
\* A true comparison is the number -1.
BitIsUsed(u) ==
  \E i \in DOMAIN u.kids : /\ u.kids[i].op \in Compares
                           /\ u.op \notin Logics \cup {"sizeof"} /\ ~(u.op = "three" /\ i = 1)
\* int + double is an integer addition of doubles; a sum or product that was widened is
\* stored as wide as it is.
MixedTypes(u) ==
  /\ u.op \in Sums \cup DOMAIN CompoundOps
  /\ \/ IsIntegerType(u.kids[1].type) /\ C!Type(u.kids[2]) = DoubleType
     \/ u.op \in DOMAIN CompoundOps /\ LeftIs(u, {"char"})
\* ++ and -- are for ints.
OtherStep(u) == u.op \in Steps /\ ~LeftIs(u, {"int"})
\* The branches of ?: must be of the machine type of the first, without a conversion.
OtherBranches(u) ==
  u.op = "three" /\ ~\E T \in {IntType, DoubleType} : {u.kids[2].type, u.kids[3].type} = {T} /\ C!Type(u) = T
\* A binary operation has the type of its left operand, whatever its value is: sizeof and the
\* operators that go by the types of nodes are wrong about i * d, c + c and d < d.
OtherType(u) ==
  /\ u.op \in {"sizeof", "negative", "bitwise_not", "logic_not", "subscript"} \cup Sums
  /\ \E i \in DOMAIN u.kids : u.kids[i].type # C!Type(u.kids[i])
\* Only what has been loaded has an address.
NoAddress(u) == u.op = "addr" /\ (LeftIs(u, {"func"}) \/ u.kids[1].op = "string")

Known(u) ==
  \/ u.op = "comma" \/ PointerArithmetic(u) \/ BitIsUsed(u) \/ MixedTypes(u) \/ OtherStep(u)
  \/ OtherBranches(u) \/ OtherType(u) \/ NoAddress(u)

MCConsidered(t) == \A u \in Parts(t) : ~Known(u)

\* With one of them: p++.
WithPointers(t) == \A u \in Parts(t) : Known(u) => PointerArithmetic(u) /\ u.op = "post_inc"
=============================================================================
