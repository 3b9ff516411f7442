---------------------------- MODULE RecordLayout ----------------------------
(***************************************************************************)
(* The size and alignment of types (type.cc, type.h) and of the LLVM types *)
(* that the code generator makes of records.                               *)
(*                                                                         *)
(* A type is an index into types and is made of older types.  A record is  *)
(* laid out member by member, as UpdateStructOffset and UpdateUnionOffset  *)
(* go through the vector of members; record holds the locals of that loop. *)
(***************************************************************************)
EXTENDS Integers, Sequences

CONSTANTS Basic,         \* the basic types and the pointer, as size and alignment
          Counts,        \* element counts of arrays
          LeastMembers,  \* the fewest members of a record
          MaxMembers,    \* bound: members of a record
          MaxTypes       \* bound: types that are made

Aligns == {1, 2, 4, 8}

ASSUME BasicAssumption ==
  /\ Basic \in Seq([size : Nat, align : Aligns])
  /\ \A i \in 1..Len(Basic) : Basic[i].size % Basic[i].align = 0
ASSUME CountsAssumption == Counts \subseteq Nat
ASSUME MembersAssumption == LeastMembers \in Nat

VARIABLES types, record
vars == <<types, record>>

Kinds == {"basic", "array", "struct", "union"}
Type(k, s, a, n, ms, os, m) ==
  [kind |-> k, size |-> s, align |-> a, count |-> n,
   members |-> ms, offsets |-> os, maxElementIdx |-> m]

Idle == [kind |-> "none", members |-> <<>>, offsets |-> <<>>, offset |-> 0,
         maxAlign |-> 0, maxSize |-> 0, maxIdx |-> 1]

\* (x + align - 1) & ~(align - 1), for an align that is a power of two, or 0.
roundup(x, align) == IF align = 0 THEN 0 ELSE ((x + align - 1) \div align) * align

Larger(x, y) == IF x < y THEN y ELSE x
-----------------------------------------------------------------------------
CanMake == record = Idle /\ Len(types) < MaxTypes

\* The constructor of an array type.
CArrayType(t, n) ==
  /\ CanMake
  /\ types' = Append(types, Type("array", n * types[t].size, types[t].align, n, <<t>>, <<0>>, 1))
  /\ UNCHANGED record

\* The members of a record are known; one of the two loops begins.
SetMembers(tagKind, members) ==
  /\ CanMake
  /\ record' = [Idle EXCEPT !.kind = tagKind, !.members = members]
  /\ UNCHANGED types

idx == Len(record.offsets) + 1
Member == types[record.members[idx]]
Laying(tagKind) == record.kind = tagKind /\ Len(record.offsets) < Len(record.members)
LaidOut(tagKind) == record.kind = tagKind /\ Len(record.offsets) = Len(record.members)

\* The first of the largest members so far.
Largest(r) == IF r.maxSize < Member.size THEN idx ELSE r.maxIdx

\* Record r with its next member at offset at, and the one after it not before end.
Place(r, at, end) ==
  [r EXCEPT !.offsets = Append(@, at), !.offset = end, !.maxAlign = Larger(@, Member.align),
            !.maxSize = Larger(@, Member.size), !.maxIdx = Largest(r)]

\* Faults: the member is not aligned; the next one may lie over it.
F_NotAligned(r) == Place(r, r.offset, r.offset + Member.size)
F_NoRoom(r) == Place(r, roundup(r.offset, Member.align), roundup(r.offset, Member.align))

StructMember(r) ==
  LET at == roundup(r.offset, Member.align) IN Place(r, at, at + Member.size)

\* Fault: the alignment of the member is forgotten.
F_AlignForgotten(r) == [Place(r, 0, 0) EXCEPT !.maxAlign = r.maxAlign]

UnionMember(r) == Place(r, 0, 0)

UpdateStructOffset ==
  \/ Laying("struct") /\ record' = StructMember(record) /\ UNCHANGED types
  \/ /\ LaidOut("struct")
     /\ types' = Append(types, Type("struct", roundup(record.offset, record.maxAlign), record.maxAlign,
                                    0, record.members, record.offsets, record.maxIdx))
     /\ record' = Idle

UpdateUnionOffset ==
  \/ Laying("union") /\ record' = UnionMember(record) /\ UNCHANGED types
  \/ /\ LaidOut("union")
     /\ types' = Append(types, Type("union", roundup(record.maxSize, record.maxAlign), record.maxAlign,
                                    0, record.members, record.offsets, record.maxIdx))
     /\ record' = Idle

Tuples == UNION {[1..n -> DOMAIN types] : n \in LeastMembers..MaxMembers}

Init ==
  /\ types = [i \in DOMAIN Basic |-> Type("basic", Basic[i].size, Basic[i].align, 0, <<>>, <<>>, 1)]
  /\ record = Idle

Next ==
  \/ \E t \in DOMAIN types, n \in Counts : CArrayType(t, n)
  \/ \E k \in {"struct", "union"}, ms \in Tuples : SetMembers(k, ms)
  \/ UpdateStructOffset \/ UpdateUnionOffset

Spec == Init /\ [][Next]_vars
-----------------------------------------------------------------------------
(***************************************************************************)
(* The LLVM type of a record (VisitRecordType): all members of a struct,   *)
(* the largest one of a union; and the memory LLVM's data layout gives it. *)
(***************************************************************************)

\* Fault: the last member stands for a union.
F_LastMember(y) == IF y.kind = "union" THEN <<y.members[Len(y.members)]>> ELSE y.members

VisitRecordType(y) == IF y.kind = "union" THEN <<y.members[y.maxElementIdx]>> ELSE y.members

\* Each element of an LLVM struct lies behind the one before, aligned for itself.
ElementOffsets(parts) ==
  LET at[i \in DOMAIN parts] ==
        IF i = 1 THEN 0 ELSE roundup(at[i - 1] + parts[i - 1].size, parts[i].align)
  IN  at

StrictestAlign(parts) ==
  LET aligns == {1} \cup {parts[i].align : i \in DOMAIN parts}
  IN  CHOOSE a \in aligns : \A b \in aligns : b <= a

\* The memory of a type whose elements have that of parts.
IRLayoutOf(y, parts) ==
  LET last == Len(parts)
      at == ElementOffsets(parts)
      end == IF last = 0 THEN 0 ELSE at[last] + parts[last].size
  IN  CASE y.kind = "basic" -> [size |-> y.size, align |-> y.align, offsets |-> <<>>]
        [] y.kind = "array" -> [size |-> y.count * parts[1].size, align |-> parts[1].align,
                                offsets |-> <<0>>]
        [] OTHER -> [size |-> roundup(end, StrictestAlign(parts)),
                     align |-> StrictestAlign(parts), offsets |-> at]

IRLayout ==
  LET layout[t \in DOMAIN types] ==
        IRLayoutOf(types[t], [i \in DOMAIN VisitRecordType(types[t]) |->
                                layout[VisitRecordType(types[t])[i]]])
  IN  layout
-----------------------------------------------------------------------------
\* Member i of type y takes the bytes from its offset on.
EndOf(y, i) == y.offsets[i] + types[y.members[i]].size

\* The types that are ready, and the locals of the loop, keep their types.
Types == [kind : Kinds, size : Nat, align : Aligns, count : Nat, members : Seq(Nat),
          offsets : Seq(Nat), maxElementIdx : Nat]
Records == [kind : {"none", "struct", "union"}, members : Seq(Nat), offsets : Seq(Nat),
            offset : Nat, maxAlign : Aligns \cup {0}, maxSize : Nat, maxIdx : Nat]
TypeOK ==
  /\ types \in Seq(Types)
  /\ record \in Records
  /\ Len(record.offsets) <= Len(record.members)
  /\ \A i \in 1..Len(record.members) : record.members[i] \in 1..Len(types)

\* Every member lies inside its record, and two members of a struct share no byte.
MembersFit ==
  \A t \in 1..Len(types) : LET y == types[t] IN
    y.kind \in {"struct", "union"} =>
      /\ \A i \in 1..Len(y.members) : EndOf(y, i) <= y.size
      /\ y.kind = "struct" =>
           \A i, j \in 1..Len(y.members) : i < j => EndOf(y, i) <= y.offsets[j]

\* A member is aligned wherever an aligned record starts, and so is every element of an
\* array of records: sizes are multiples of alignments, and those of the members'.
MembersAligned ==
  \A t \in 1..Len(types) : LET y == types[t] IN
    /\ y.size % y.align = 0
    /\ \A i \in 1..Len(y.members) :
         /\ y.offsets[i] % types[y.members[i]].align = 0
         /\ y.align % types[y.members[i]].align = 0

Agrees(t) ==
  LET ir == IRLayout[t]
  IN  /\ ir.size = types[t].size /\ ir.align = types[t].align
      /\ types[t].kind # "union" => ir.offsets = types[t].offsets

\* type.cc and LLVM lay out a type alike, so that sizeof and the addresses of members
\* and elements fit together, if they do so for its parts and no union is as strictly
\* aligned only because of a member that is not its largest.
LayoutsAgree ==
  \A t \in DOMAIN types : LET y == types[t] IN
    /\ \A i \in DOMAIN y.members : Agrees(y.members[i])
    /\ y.kind = "union" => types[y.members[y.maxElementIdx]].align = y.align
    => Agrees(t)
=============================================================================
