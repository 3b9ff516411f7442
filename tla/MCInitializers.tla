--------------------------- MODULE MCInitializers ---------------------------
(***************************************************************************)
(* Scalars, arrays, strings, structs and unions of two levels.             *)
(***************************************************************************)
EXTENDS InitExec

Part(type, offset) == [type |-> type, offset |-> offset]
TwoInts == CArrayType(IntType, 2)
Pair == CRecordType("struct", <<Part(CharType, 0), Part(IntType, 4)>>, 8)
IntOrChars == CRecordType("union", <<Part(IntType, 0), Part(CArrayType(CharType, 2), 0)>>, 4)
CharsOrInt == CRecordType("union", <<Part(CArrayType(CharType, 2), 0), Part(IntType, 0)>>, 4)

MCDeclared == {
  IntType, CharType, DoubleType, TwoInts, CArrayType(TwoInts, 2), CArrayType(Pair, 2), Pair,
  CArrayType(IntType, -1), CArrayType(TwoInts, -1),
  CArrayType(CharType, 1), CArrayType(CharType, 2), CArrayType(CharType, 4), CArrayType(CharType, -1),
  CArrayType(CArrayType(CharType, 3), 2), CArrayType(CPointType(CharType), 2),
  CRecordType("struct", <<Part(TwoInts, 0), Part(CArrayType(CharType, 3), 8)>>, 12),
  CRecordType("struct", <<Part(IntOrChars, 0), Part(IntType, 4)>>, 8),
  CRecordType("struct", <<Part(IntType, 0), Part(Pair, 4)>>, 12),
  IntOrChars, CharsOrInt }
Parts(T) ==
  CASE T.kind = "array" -> {T.elem}
    [] T.kind = "record" -> {T.members[i].type : i \in DOMAIN T.members}
    [] OTHER -> {}
RECURSIVE Inside(_)
Inside(T) == Parts(T) \cup UNION {Inside(U) : U \in Parts(T)}
MCElementTypes == UNION {Inside(T) : T \in MCDeclared}
MCChars == <<97, 98>>

-----------------------------------------------------------------------------
\* A single value is stored at the start of the variable, which is its place unless empty
\* braces come before it.
NotEmpty(tokens) == \A k \in 1..(Len(tokens) - 1) : SubSeq(tokens, k, k + 1) # <<"{", "}">>
\* The LLVM type of a union has not got its first member.
RECURSIVE FirstIsLargest(_)
FirstIsLargest(T) ==
  CASE T.kind = "array" -> FirstIsLargest(T.elem)
    [] T.kind = "record" ->
         /\ T.tag = "union" => LargestMember(T) = T.members[1]
         /\ \A i \in DOMAIN T.members : FirstIsLargest(T.members[i].type)
    [] OTHER -> TRUE
MCConsidered(T, tokens) ==
  C!Meaning(T, tokens).uses = {} /\ NotEmpty(tokens) /\ FirstIsLargest(T)

\* The constant for an integer without a value is an int; there is none for a double.
HasConstants(elements) ==
  \A leaf \in Leaves(declared, 0) :
    /\ leaf.type # DoubleType
    /\ leaf.type.kind = "char" => \E e \in elements : e.addr = leaf.addr /\ e.type = leaf.type
MCConsideredGlobal(T, tokens) == MCConsidered(T, tokens) /\ HasConstants(C!Meaning(T, tokens).elements)
=============================================================================
