------------------------- MODULE RecordLayoutProofs -------------------------
(***************************************************************************)
(* Proofs about RecordLayout, for all basic types, numbers of members and  *)
(* depths of nesting.                                                      *)
(***************************************************************************)
EXTENDS RecordLayout, SequenceTheorems, WellFoundedInduction, TLAPS

(***************************************************************************)
(* The inductive invariant.  Made says of a type that is ready what the    *)
(* properties say; Begun says it of the members of the record that have    *)
(* been placed, against the locals of the loop.                            *)
(***************************************************************************)
Made(ts, y) ==
  /\ Len(y.offsets) = Len(y.members)
  /\ y.size % y.align = 0
  /\ \A i \in 1..Len(y.members) :
       /\ y.members[i] \in 1..Len(ts)
       /\ y.offsets[i] % ts[y.members[i]].align = 0
       /\ y.align % ts[y.members[i]].align = 0
       /\ y.kind \in {"struct", "union"} => y.offsets[i] + ts[y.members[i]].size <= y.size
  /\ y.kind = "struct" =>
       \A i, j \in 1..Len(y.members) :
         i < j => y.offsets[i] + ts[y.members[i]].size <= y.offsets[j]

Begun(ts, r) ==
  /\ \A i \in 1..Len(r.offsets) :
       /\ r.offsets[i] % ts[r.members[i]].align = 0
       /\ ts[r.members[i]].align <= r.maxAlign
       /\ ts[r.members[i]].size <= r.maxSize
       /\ r.kind = "struct" => r.offsets[i] + ts[r.members[i]].size <= r.offset
       /\ r.kind = "union" => r.offsets[i] = 0
  /\ r.kind = "struct" =>
       \A i, j \in 1..Len(r.offsets) :
         i < j => r.offsets[i] + ts[r.members[i]].size <= r.offsets[j]
  /\ r.kind # "none" => r.members # <<>>

IInv == TypeOK /\ (\A t \in 1..Len(types) : Made(types, types[t])) /\ Begun(types, record)
-----------------------------------------------------------------------------
LEMMA RoundUp ==
  ASSUME NEW x \in Nat, NEW a \in Aligns
  PROVE  roundup(x, a) \in Nat /\ roundup(x, a) >= x /\ roundup(x, a) % a = 0
<1>1. CASE a = 1
  BY <1>1 DEF roundup
<1>2. CASE a = 2
  BY <1>2 DEF roundup
<1>3. CASE a = 4
  BY <1>3 DEF roundup
<1>4. CASE a = 8
  BY <1>4 DEF roundup
<1> QED BY <1>1, <1>2, <1>3, <1>4 DEF Aligns

LEMMA Divides ==
  ASSUME NEW a \in Aligns, NEW b \in Aligns, a <= b
  PROVE  b % a = 0
BY DEF Aligns

LEMMA Multiples ==
  ASSUME NEW n \in Nat, NEW s \in Nat, NEW a \in Aligns, s % a = 0
  PROVE  n * s \in Nat /\ (n * s) % a = 0
<1>1. n * s \in Nat
  OBVIOUS
<1>2. \A b \in {2, 4, 8} : s % b = 0 => \E q \in Nat : s = b * q
  <2> SUFFICES ASSUME NEW b \in {2, 4, 8}, s % b = 0 PROVE s = b * (s \div b) /\ s \div b \in Nat
    OBVIOUS
  <2>1. CASE b = 2
    BY <2>1
  <2>2. CASE b = 4
    BY <2>2
  <2>3. CASE b = 8
    BY <2>3
  <2> QED BY <2>1, <2>2, <2>3
<1>3. \A q \in Nat : /\ n * q \in Nat
                     /\ n * (2 * q) = 2 * (n * q) /\ n * (4 * q) = 4 * (n * q) /\ n * (8 * q) = 8 * (n * q)
  OBVIOUS
<1>4. \A m \in Nat : (2 * m) % 2 = 0 /\ (4 * m) % 4 = 0 /\ (8 * m) % 8 = 0 /\ m % 1 = 0
  OBVIOUS
<1>5. CASE a = 1
  BY <1>1, <1>4, <1>5
<1>6. CASE a = 2
  <2>1. PICK q \in Nat : s = 2 * q
    BY <1>2, <1>6
  <2> QED BY <1>1, <1>3, <1>4, <1>6, <2>1
<1>7. CASE a = 4
  <2>1. PICK q \in Nat : s = 4 * q
    BY <1>2, <1>7
  <2> QED BY <1>1, <1>3, <1>4, <1>7, <2>1
<1>8. CASE a = 8
  <2>1. PICK q \in Nat : s = 8 * q
    BY <1>2, <1>8
  <2> QED BY <1>1, <1>3, <1>4, <1>8, <2>1
<1> QED BY <1>5, <1>6, <1>7, <1>8 DEF Aligns

\* Types that are ready stay so when another one is made.
LEMMA MadeGrows ==
  ASSUME NEW ts \in Seq(Types), NEW z \in Types, Made(ts, z),
         \A i \in 1..Len(ts) : Made(ts, ts[i])
  PROVE  /\ Append(ts, z) \in Seq(Types)
         /\ \A i \in 1..Len(Append(ts, z)) : Made(Append(ts, z), Append(ts, z)[i])
<1> DEFINE us == Append(ts, z)
<1>1. /\ us \in Seq(Types) /\ Len(us) = Len(ts) + 1 /\ us[Len(us)] = z
      /\ \A i \in 1..Len(ts) : us[i] = ts[i]
  OBVIOUS
<1> HIDE DEF us
<1>2. \A y \in Types : Made(ts, y) => Made(us, y)
  <2> SUFFICES ASSUME NEW y \in Types, Made(ts, y) PROVE Made(us, y)
    OBVIOUS
  <2>1. /\ Len(y.offsets) = Len(y.members)
        /\ \A i \in 1..Len(y.members) : y.members[i] \in 1..Len(us) /\ us[y.members[i]] = ts[y.members[i]]
    BY <1>1 DEF Made
  <2>3. /\ y.size % y.align = 0
        /\ \A i \in 1..Len(y.members) :
             /\ y.offsets[i] % us[y.members[i]].align = 0
             /\ y.align % us[y.members[i]].align = 0
             /\ y.kind \in {"struct", "union"} => y.offsets[i] + us[y.members[i]].size <= y.size
    BY <2>1 DEF Made
  <2>4. y.kind = "struct" =>
          \A i, j \in 1..Len(y.members) : i < j => y.offsets[i] + us[y.members[i]].size <= y.offsets[j]
    BY <2>1 DEF Made
  <2> QED BY <2>1, <2>3, <2>4 DEF Made
<1>3. \A i \in 1..Len(us) : us[i] \in Types /\ Made(ts, us[i])
  <2>1. \A i \in 1..Len(us) : i \in 1..Len(ts) \/ i = Len(us)
    BY <1>1
  <2> QED BY <1>1, <2>1
<1> QED BY <1>1, <1>2, <1>3 DEF us

\* A type is appended and the loop is over.
LEMMA MakeKeeps ==
  ASSUME IInv, NEW z \in Types, Made(types, z), types' = Append(types, z), record' = Idle
  PROVE  IInv'
<1>1. types \in Seq(Types) /\ \A i \in 1..Len(types) : Made(types, types[i])
  BY DEF IInv, TypeOK, Types
<1>2. types' \in Seq(Types) /\ \A i \in 1..Len(types') : Made(types', types'[i])
  BY <1>1, MadeGrows
<1>3. Begun(types', record')
  BY DEF Begun, Idle
<1>4. TypeOK'
  BY <1>2 DEF TypeOK, Records, Idle
<1> QED BY <1>2, <1>3, <1>4 DEF IInv

LEMMA CArrayTypeKeeps ==
  ASSUME IInv, NEW t \in DOMAIN types, NEW n \in Counts, CArrayType(t, n)
  PROVE  IInv'
<1> DEFINE z == Type("array", n * types[t].size, types[t].align, n, <<t>>, <<0>>, 1)
<1>1. types \in Seq(Types) /\ t \in 1..Len(types) /\ types[t] \in Types /\ n \in Nat
  <2>1. types \in Seq(Types)
    BY DEF IInv, TypeOK
  <2>2. n \in Nat
    BY CountsAssumption
  <2> QED BY <2>1, <2>2
<1>2. types[t].size % types[t].align = 0 /\ types[t].size \in Nat /\ types[t].align \in Aligns
  BY <1>1 DEF IInv, Made, Types
<1>3. n * types[t].size \in Nat /\ (n * types[t].size) % types[t].align = 0
  BY <1>1, <1>2, Multiples
<1>4. z \in Types
  BY <1>1, <1>2, <1>3 DEF Type, Types, Kinds
<1>5. /\ z.kind = "array" /\ z.members = <<t>> /\ z.offsets = <<0>>
      /\ z.size = n * types[t].size /\ z.align = types[t].align
  BY DEF Type
<1>6. 0 % types[t].align = 0 /\ types[t].align % types[t].align = 0
  BY <1>2 DEF Aligns
<1>7. Made(types, z)
  <2> HIDE DEF z
  <2>1. Len(z.offsets) = 1 /\ Len(z.members) = 1 /\ z.members[1] = t /\ z.offsets[1] = 0
    BY <1>5
  <2>2. \A i \in 1..Len(z.members) : i = 1
    BY <2>1
  <2> QED BY <1>1, <1>3, <1>5, <1>6, <2>1, <2>2 DEF Made
<1> QED BY <1>4, <1>7, MakeKeeps DEF CArrayType, CanMake

LEMMA SetMembersKeeps ==
  ASSUME IInv, LeastMembers # 0, NEW k \in {"struct", "union"}, NEW ms \in Tuples, SetMembers(k, ms)
  PROVE  IInv'
<1>1. PICK n \in LeastMembers..MaxMembers : ms \in [1..n -> DOMAIN types]
  BY DEF Tuples
<1>2. n \in Nat \ {0} /\ DOMAIN types = 1..Len(types)
  BY <1>1, MembersAssumption DEF IInv, TypeOK
<1>3. /\ ms \in Seq(Nat) /\ Len(ms) = n /\ ms # <<>>
      /\ \A i \in 1..Len(ms) : ms[i] \in 1..Len(types)
  BY <1>1, <1>2
<1>4. /\ record'.kind = k /\ record'.members = ms /\ record'.offsets = <<>>
      /\ record'.offset = 0 /\ record'.maxSize = 0 /\ record'.maxAlign = 0 /\ record'.maxIdx = 1
      /\ types' = types
  BY DEF SetMembers, Idle
<1>5. TypeOK'
  <2>1. record' \in Records
    <3>1. record' = [kind |-> k, members |-> ms, offsets |-> <<>>, offset |-> 0,
                     maxAlign |-> 0, maxSize |-> 0, maxIdx |-> 1]
      BY DEF SetMembers, Idle
    <3> QED BY <1>3, <3>1 DEF Records
  <2> QED BY <1>3, <1>4, <2>1 DEF IInv, TypeOK
<1>6. Begun(types', record')
  BY <1>3, <1>4 DEF Begun
<1> QED BY <1>4, <1>5, <1>6 DEF IInv

\* One more member is placed: at "at", and behind all the others.
LEMMA PlaceKeeps ==
  ASSUME IInv, Len(record.offsets) < Len(record.members), NEW at \in Nat, NEW end \in Nat,
         record' = Place(record, at, end), UNCHANGED types,
         at % Member.align = 0,
         record.kind = "struct" => record.offset <= at /\ at + Member.size <= end,
         record.kind = "union" => at = 0
  PROVE  IInv'
<1> DEFINE r == record
           k == Len(record.offsets) + 1
           q == record'
<1>1. /\ r.members \in Seq(Nat) /\ r.offsets \in Seq(Nat) /\ k \in Nat /\ k \in 1..Len(r.members)
      /\ types \in Seq(Types) /\ \A i \in 1..Len(r.members) : r.members[i] \in 1..Len(types)
      /\ r.offset \in Nat /\ r.maxSize \in Nat /\ r.maxIdx \in Nat /\ r.maxAlign \in Aligns \cup {0}
  BY DEF IInv, TypeOK, Records
<1>2. Member = types[r.members[k]] /\ Member \in Types
  BY <1>1 DEF Member, idx
<1>3. /\ q.kind = r.kind /\ q.members = r.members /\ q.offset = end
      /\ q.offsets = Append(r.offsets, at)
      /\ q.maxAlign = Larger(r.maxAlign, Member.align) /\ q.maxSize = Larger(r.maxSize, Member.size)
      /\ q.maxIdx = Largest(r)
  BY DEF IInv, TypeOK, Records, Place
<1>4. /\ Larger(r.maxAlign, Member.align) \in Aligns /\ r.maxAlign <= q.maxAlign
      /\ Member.align <= q.maxAlign /\ q.maxAlign \in Aligns
  <2>1. Member.align \in {1, 2, 4, 8} /\ r.maxAlign \in {0, 1, 2, 4, 8}
    BY <1>1, <1>2 DEF Types, Aligns
  <2> HIDE DEF r, q
  <2> QED BY <2>1, <1>3 DEF Larger, Aligns
<1>5. /\ q.maxSize \in Nat /\ r.maxSize <= q.maxSize /\ Member.size <= q.maxSize
      /\ q.maxIdx \in Nat
  <2>1. Member.size \in Nat /\ r.maxSize \in Nat
    BY <1>1, <1>2 DEF Types
  <2>2. q.maxIdx = k \/ q.maxIdx = r.maxIdx
    BY <1>3 DEF Largest, idx
  <2> HIDE DEF r, q, k
  <2> QED BY <1>1, <2>1, <2>2, <1>3 DEF Larger
<1>6. /\ q.offsets \in Seq(Nat) /\ Len(q.offsets) = k /\ q.offsets[k] = at
      /\ \A i \in 1..k-1 : q.offsets[i] = r.offsets[i]
  BY <1>1, <1>3
<1>7. TypeOK'
  <2>1. record' \in Records
    BY <1>3, <1>4, <1>5, <1>6 DEF IInv, TypeOK, Records, Place
  <2> QED BY <1>1, <1>3, <1>6, <2>1 DEF TypeOK
<1>8. Begun(types, q)
  <2> DEFINE n == Len(r.offsets)
             Al(i) == types[r.members[i]].align
             Sz(i) == types[r.members[i]].size
  <2>1. /\ n \in Nat /\ k = n + 1 /\ k - 1 = n
        /\ \A i \in 1..n : i \in 1..k /\ i \in 1..Len(r.members)
        /\ \A i \in 1..k : i \in 1..n \/ i = k
    <3>1. n \in Nat /\ Len(r.members) \in Nat /\ n < Len(r.members)
      BY <1>1
    <3> HIDE DEF n
    <3> QED BY <3>1 DEF n
  <2>2. \A i \in 1..n : Sz(i) \in Nat /\ Al(i) \in Aligns
    <3>1. \A i \in 1..n : r.members[i] \in 1..Len(types)
      BY <1>1, <2>1
    <3>2. \A t \in 1..Len(types) : types[t] \in Types
      BY <1>1
    <3> QED BY <3>1, <3>2 DEF Types
  <2>3. \A i \in 1..n : r.offsets[i] \in Nat /\ q.offsets[i] = r.offsets[i] /\ q.members[i] = r.members[i]
    <3>1. \A i \in 1..n : r.offsets[i] \in Nat
      <4>1. r.offsets \in Seq(Nat)
        BY <1>1
      <4> QED BY <4>1
    <3>2. \A i \in 1..n : q.offsets[i] = r.offsets[i]
      BY <1>6, <2>1
    <3> QED BY <1>3, <3>1, <3>2
  <2>4. Sz(k) = Member.size /\ Al(k) = Member.align /\ Sz(k) \in Nat /\ q.members[k] = r.members[k]
        /\ q.offsets[k] = at
    BY <1>2, <1>3, <1>6 DEF Types
  <2>5. Begun(types, r)
    BY DEF IInv
  <2>6. \A i \in 1..n : Al(i) <= q.maxAlign
    <3>1. \A i \in 1..n : Al(i) <= r.maxAlign
      BY <2>5 DEF Begun
    <3>2. \A a \in Aligns, b \in Aligns \cup {0}, c \in Aligns : a <= b /\ b <= c => a <= c
      BY DEF Aligns
    <3> HIDE DEF r, q, k
    <3> QED BY <1>1, <1>4, <2>2, <3>1, <3>2
  <2>7. \A i \in 1..n : Sz(i) <= q.maxSize
    <3>1. \A i \in 1..n : Sz(i) <= r.maxSize
      BY <2>5 DEF Begun
    <3>2. r.maxSize \in Nat /\ q.maxSize \in Nat /\ r.maxSize <= q.maxSize
      BY <1>1, <1>5
    <3>3. \A i \in 1..n : Sz(i) \in Nat
      BY <2>2
    <3> HIDE DEF r, q, k, Sz, n
    <3> QED BY <3>1, <3>2, <3>3
  <2>8. q.kind = "struct" => \A i \in 1..n : r.offsets[i] + Sz(i) <= at /\ r.offsets[i] + Sz(i) <= q.offset
    <3>1. q.kind = "struct" => \A i \in 1..n : r.offsets[i] + Sz(i) <= r.offset
      BY <1>3, <2>5 DEF Begun
    <3>2. q.kind = "struct" => r.offset <= at /\ at <= q.offset
      BY <1>3, <2>4
    <3>3. r.offset \in Nat /\ q.offset \in Nat
      BY <1>1, <1>3
    <3>4. \A i \in 1..n : Sz(i) \in Nat /\ r.offsets[i] \in Nat
      BY <2>2, <2>3
    <3> HIDE DEF r, q, k, Sz, n
    <3> QED BY <3>1, <3>2, <3>3, <3>4
  <2>9. q.kind = "struct" => at + Sz(k) <= q.offset
    BY <1>3, <2>4
  <2>10. \A i \in 1..k : /\ q.offsets[i] % types[q.members[i]].align = 0
                         /\ types[q.members[i]].align <= q.maxAlign
                         /\ types[q.members[i]].size <= q.maxSize
                         /\ q.kind = "struct" => q.offsets[i] + types[q.members[i]].size <= q.offset
                         /\ q.kind = "union" => q.offsets[i] = 0
    <3>1. ASSUME NEW i \in 1..n
          PROVE  q.offsets[i] % types[q.members[i]].align = 0 /\ (q.kind = "union" => q.offsets[i] = 0)
      BY <1>3, <2>3, <2>5 DEF Begun
    <3>2. at % Al(k) = 0 /\ (q.kind = "union" => at = 0)
      BY <1>3, <2>4
    <3>3. Al(k) <= q.maxAlign /\ Sz(k) <= q.maxSize
      BY <1>4, <1>5, <2>4
    <3> HIDE DEF r, q, k, n
    <3> QED BY <2>1, <2>3, <2>4, <2>6, <2>7, <2>8, <2>9, <3>1, <3>2, <3>3
  <2>11. q.kind = "struct" => \A i, j \in 1..k :
           i < j => q.offsets[i] + types[q.members[i]].size <= q.offsets[j]
    <3>1. q.kind = "struct" => \A i, j \in 1..n : i < j => r.offsets[i] + Sz(i) <= r.offsets[j]
      BY <1>3, <2>5 DEF Begun
    <3>2. \A i, j \in 1..k : i < j => i \in 1..n /\ (j \in 1..n \/ j = k)
      BY <2>1
    <3> HIDE DEF r, q, k, n
    <3> QED BY <2>3, <2>4, <2>8, <3>1, <3>2
  <2>12. Len(q.offsets) = k /\ (q.kind # "none" => q.members # <<>>)
    BY <1>3, <1>6, <2>5 DEF Begun
  <2> HIDE DEF r, q, k
  <2> QED BY <2>10, <2>11, <2>12 DEF Begun
<1> QED BY <1>7, <1>8 DEF IInv

\* All members are placed: what holds of the locals holds of the type.
LEMMA LaidOutFacts ==
  ASSUME IInv, record.kind # "none", Len(record.offsets) = Len(record.members)
  PROVE  /\ record.maxAlign \in Aligns
         /\ \A i \in 1..Len(record.members) :
              /\ record.members[i] \in 1..Len(types)
              /\ record.offsets[i] \in Nat
              /\ types[record.members[i]].size \in Nat
              /\ types[record.members[i]].align \in Aligns
              /\ types[record.members[i]].align <= record.maxAlign
              /\ record.maxAlign % types[record.members[i]].align = 0
<1> DEFINE n == Len(record.members)
<1>1. /\ record.members \in Seq(Nat) /\ record.offsets \in Seq(Nat) /\ n \in Nat
      /\ record.maxAlign \in Aligns \cup {0}
  BY DEF IInv, TypeOK, Records
<1>2. \A i \in 1..n : /\ types[record.members[i]].size \in Nat
                      /\ types[record.members[i]].align \in Aligns
                      /\ record.members[i] \in 1..Len(types)
  <2>1. \A i \in 1..n : record.members[i] \in 1..Len(types)
    BY DEF IInv, TypeOK
  <2>2. \A t \in 1..Len(types) : types[t] \in Types
    BY DEF IInv, TypeOK
  <2> QED BY <2>1, <2>2 DEF Types
<1>3. /\ n # 0 /\ \A i \in 1..n : types[record.members[i]].align <= record.maxAlign
  BY <1>1 DEF IInv, Begun
<1>4. record.maxAlign \in Aligns
  <2>1. 1 \in 1..n
    BY <1>1, <1>3
  <2>2. \A a \in Aligns : ~ (a <= 0)
    BY DEF Aligns
  <2> QED BY <1>1, <1>2, <1>3, <2>1, <2>2
<1> QED BY <1>1, <1>2, <1>3, <1>4, Divides

LEMMA UpdateStructOffsetKeeps ==
  ASSUME IInv, UpdateStructOffset
  PROVE  IInv'
<1> DEFINE r == record
           size == roundup(r.offset, r.maxAlign)
           z == Type("struct", size, r.maxAlign, 0, r.members, r.offsets, r.maxIdx)
<1>0. /\ r.members \in Seq(Nat) /\ r.offsets \in Seq(Nat) /\ r.offset \in Nat /\ r.maxIdx \in Nat
  BY DEF IInv, TypeOK, Records
<1>1. CASE Laying("struct") /\ record' = StructMember(record) /\ UNCHANGED types
  <2> DEFINE at == roundup(r.offset, Member.align)
  <2>1. Member.align \in Aligns /\ Member.size \in Nat
    <3>1. idx \in 1..Len(r.members)
      BY <1>0, <1>1 DEF Laying, idx
    <3>2. Member \in Types
      BY <3>1 DEF IInv, TypeOK, Member
    <3> QED BY <3>2 DEF Types
  <2>2. at \in Nat /\ at >= r.offset /\ at % Member.align = 0
    BY <1>0, <2>1, RoundUp
  <2>3. at + Member.size \in Nat /\ r.offset <= at /\ r.kind = "struct"
    BY <1>0, <1>1, <2>1, <2>2 DEF Laying
  <2> HIDE DEF at
  <2>4. record' = Place(r, at, at + Member.size)
    BY <1>1 DEF StructMember, at
  <2> QED BY <1>1, <2>1, <2>2, <2>3, <2>4, PlaceKeeps DEF Laying
<1>2. CASE LaidOut("struct") /\ types' = Append(types, z) /\ record' = Idle
  <2>1. r.kind = "struct" /\ Len(r.offsets) = Len(r.members)
    BY <1>2 DEF LaidOut
  <2>2. /\ r.maxAlign \in Aligns
        /\ \A i \in 1..Len(r.members) :
             /\ r.members[i] \in 1..Len(types) /\ r.offsets[i] \in Nat
             /\ types[r.members[i]].size \in Nat
             /\ r.maxAlign % types[r.members[i]].align = 0
    BY <2>1, LaidOutFacts
  <2>3. size \in Nat /\ size >= r.offset /\ size % r.maxAlign = 0
    BY <1>0, <2>2, RoundUp
  <2> HIDE DEF size
  <2>4. z \in Types
    BY <1>0, <2>2, <2>3 DEF Type, Types, Kinds
  <2>5. /\ z.kind = "struct" /\ z.members = r.members /\ z.offsets = r.offsets
        /\ z.size = size /\ z.align = r.maxAlign
    BY DEF Type
  <2>6. /\ \A i \in 1..Len(r.members) :
             /\ r.offsets[i] % types[r.members[i]].align = 0
             /\ r.offsets[i] + types[r.members[i]].size <= r.offset
        /\ \A i, j \in 1..Len(r.members) :
             i < j => r.offsets[i] + types[r.members[i]].size <= r.offsets[j]
    BY <2>1 DEF IInv, Begun
  <2>7. \A i \in 1..Len(r.members) : r.offsets[i] + types[r.members[i]].size <= size
    <3>1. \A a, b, c \in Nat : a <= b /\ b <= c => a <= c
      OBVIOUS
    <3>2. \A i \in 1..Len(r.members) : r.offsets[i] + types[r.members[i]].size \in Nat
      BY <2>2
    <3> HIDE DEF r
    <3> QED BY <1>0, <2>3, <2>6, <3>1, <3>2
  <2>8. Made(types, z)
    <3> HIDE DEF z, r
    <3> QED BY <2>1, <2>2, <2>3, <2>5, <2>6, <2>7 DEF Made
  <2> QED BY <1>2, <2>4, <2>8, MakeKeeps
<1> QED BY <1>1, <1>2 DEF UpdateStructOffset

LEMMA UpdateUnionOffsetKeeps ==
  ASSUME IInv, UpdateUnionOffset
  PROVE  IInv'
<1> DEFINE r == record
           size == roundup(r.maxSize, r.maxAlign)
           z == Type("union", size, r.maxAlign, 0, r.members, r.offsets, r.maxIdx)
<1>0. /\ r.members \in Seq(Nat) /\ r.offsets \in Seq(Nat) /\ r.maxSize \in Nat /\ r.maxIdx \in Nat
  BY DEF IInv, TypeOK, Records
<1>1. CASE Laying("union") /\ record' = UnionMember(record) /\ UNCHANGED types
  <2>1. Member.align \in Aligns
    <3>1. idx \in 1..Len(r.members)
      BY <1>0, <1>1 DEF Laying, idx
    <3>2. Member \in Types
      BY <3>1 DEF IInv, TypeOK, Member
    <3> QED BY <3>2 DEF Types
  <2>2. 0 % Member.align = 0 /\ r.kind = "union" /\ Len(r.offsets) < Len(r.members)
    BY <1>1, <2>1 DEF Aligns, Laying
  <2>3. record' = Place(r, 0, 0)
    BY <1>1 DEF UnionMember
  <2> QED BY <1>1, <2>2, <2>3, PlaceKeeps
<1>2. CASE LaidOut("union") /\ types' = Append(types, z) /\ record' = Idle
  <2>1. r.kind = "union" /\ Len(r.offsets) = Len(r.members)
    BY <1>2 DEF LaidOut
  <2>2. /\ r.maxAlign \in Aligns
        /\ \A i \in 1..Len(r.members) :
             /\ r.members[i] \in 1..Len(types) /\ r.offsets[i] \in Nat
             /\ types[r.members[i]].size \in Nat
             /\ r.maxAlign % types[r.members[i]].align = 0
    BY <2>1, LaidOutFacts
  <2>3. size \in Nat /\ size >= r.maxSize /\ size % r.maxAlign = 0
    BY <1>0, <2>2, RoundUp
  <2> HIDE DEF size
  <2>4. z \in Types
    BY <1>0, <2>2, <2>3 DEF Type, Types, Kinds
  <2>5. /\ z.kind = "union" /\ z.members = r.members /\ z.offsets = r.offsets
        /\ z.size = size /\ z.align = r.maxAlign
    BY DEF Type
  <2>6. \A i \in 1..Len(r.members) :
          /\ r.offsets[i] % types[r.members[i]].align = 0
          /\ r.offsets[i] = 0 /\ types[r.members[i]].size <= r.maxSize
    BY <2>1 DEF IInv, Begun
  <2>7. \A i \in 1..Len(r.members) : r.offsets[i] + types[r.members[i]].size <= size
    <3> HIDE DEF r
    <3> QED BY <1>0, <2>2, <2>3, <2>6
  <2>8. Made(types, z)
    <3> HIDE DEF z, r
    <3> QED BY <2>1, <2>2, <2>3, <2>5, <2>6, <2>7 DEF Made
  <2> QED BY <1>2, <2>4, <2>8, MakeKeeps
<1> QED BY <1>1, <1>2 DEF UpdateUnionOffset
-----------------------------------------------------------------------------
LEMMA InitEstablishes ==
  ASSUME Init
  PROVE  IInv
<1> DEFINE n == Len(Basic)
           Ready(i) == Type("basic", Basic[i].size, Basic[i].align, 0, <<>>, <<>>, 1)
<1>1. n \in Nat /\ DOMAIN Basic = 1..n
  BY BasicAssumption
<1>2. \A i \in 1..n : Basic[i] \in [size : Nat, align : Aligns] /\ Basic[i].size % Basic[i].align = 0
  <2>1. Basic \in Seq([size : Nat, align : Aligns])
    BY BasicAssumption
  <2>2. \A i \in 1..n : Basic[i] \in [size : Nat, align : Aligns]
    <3> DEFINE R == [size : Nat, align : Aligns]
    <3>1. Basic \in Seq(R)
      BY <2>1
    <3> HIDE DEF R
    <3>2. \A i \in 1..n : Basic[i] \in R
      BY <3>1
    <3> QED BY <3>2 DEF R
  <2>3. \A i \in 1..n : Basic[i].size % Basic[i].align = 0
    BY BasicAssumption
  <2> QED BY <2>2, <2>3
<1>3. types = [i \in 1..n |-> Ready(i)]
  BY <1>1 DEF Init
<1>a. \A i \in 1..n : Ready(i) \in Types /\ Made(types, Ready(i))
  BY <1>2 DEF Type, Types, Kinds, Made
<1>b. types \in Seq(Types) /\ Len(types) = n /\ \A i \in 1..n : types[i] = Ready(i)
  <2> HIDE DEF Ready, n
  <2> QED BY <1>1, <1>3, <1>a
<1>c. \A i \in 1..Len(types) : Made(types, types[i])
  <2> HIDE DEF Ready, n
  <2> QED BY <1>a, <1>b
<1>4. record = Idle /\ Idle \in Records /\ Idle.members = <<>> /\ Idle.offsets = <<>> /\ Idle.kind = "none"
  BY DEF Init, Idle, Records
<1>5. TypeOK
  BY <1>b, <1>4 DEF TypeOK
<1>6. Begun(types, record)
  BY <1>4 DEF Begun
<1> QED BY <1>c, <1>5, <1>6 DEF IInv

THEOREM Invariance == LeastMembers # 0 => (Spec => []IInv)
<1> SUFFICES ASSUME LeastMembers # 0 PROVE Spec => []IInv
  OBVIOUS
<1>1. Init => IInv
  BY InitEstablishes
<1>2. IInv /\ [Next]_vars => IInv'
  <2> SUFFICES ASSUME IInv, [Next]_vars PROVE IInv'
    OBVIOUS
  <2>1. CASE UNCHANGED vars
    BY <2>1 DEF IInv, TypeOK, Made, Begun, vars
  <2> QED BY <2>1, CArrayTypeKeeps, SetMembersKeeps, UpdateStructOffsetKeeps,
             UpdateUnionOffsetKeeps DEF Next
<1> QED BY <1>1, <1>2, PTL DEF Spec

\* Types and the locals of the loops keep their types, whatever records are declared:
\* no alignment is ever lost, and a member is a type made before.
THEOREM TypeCorrectness == LeastMembers # 0 => (Spec => []TypeOK)
<1>1. IInv => TypeOK
  BY DEF IInv
<1> QED BY <1>1, Invariance, PTL

\* Members lie inside their record and, in a struct, apart from each other.
THEOREM MembersAreApart == LeastMembers # 0 => (Spec => []MembersFit)
<1>1. IInv => MembersFit
  BY DEF IInv, Made, MembersFit, EndOf
<1> QED BY <1>1, Invariance, PTL

\* Every member is aligned, in every element of every array of records.
THEOREM MembersAreAligned == LeastMembers # 0 => (Spec => []MembersAligned)
<1>1. IInv => MembersAligned
  BY DEF IInv, Made, MembersAligned
<1> QED BY <1>1, Invariance, PTL
-----------------------------------------------------------------------------
(***************************************************************************)
(* What LLVM makes of a record.  Here the invariant has to say not only    *)
(* what holds of a type but which it is: made of older ones (Composed), as *)
(* the loop has left its locals (Packed, Reached).                         *)
(***************************************************************************)
Packed(ts, ms, os) ==
  \A i \in 1..Len(os) :
    os[i] = IF i = 1 THEN 0 ELSE roundup(os[i - 1] + ts[ms[i - 1]].size, ts[ms[i]].align)

\* The type y is made of the types of ts before the n-th.
Composed(ts, y, n) ==
  LET k == Len(y.members) IN
  /\ Len(y.offsets) = k
  /\ \A i \in 1..k : y.members[i] \in 1..n - 1
  /\ y.kind = "basic" => k = 0 /\ y.offsets = <<>>
  /\ y.kind = "array" =>
       /\ k = 1 /\ y.offsets = <<0>>
       /\ y.size = y.count * ts[y.members[1]].size /\ y.align = ts[y.members[1]].align
  /\ y.kind \in {"struct", "union"} =>
       /\ k # 0
       /\ \A i \in 1..k : ts[y.members[i]].align <= y.align
       /\ \E i \in 1..k : ts[y.members[i]].align = y.align
  /\ y.kind = "struct" =>
       /\ Packed(ts, y.members, y.offsets)
       /\ y.size = roundup(y.offsets[k] + ts[y.members[k]].size, y.align)
  /\ y.kind = "union" =>
       /\ y.maxElementIdx \in 1..k
       /\ y.size = roundup(ts[y.members[y.maxElementIdx]].size, y.align)

Reached(ts, r) ==
  LET n == Len(r.offsets) IN
  /\ n = 0 => r.offset = 0 /\ r.maxAlign = 0 /\ r.maxSize = 0 /\ r.maxIdx = 1
  /\ n # 0 =>
       /\ \E i \in 1..n : ts[r.members[i]].align = r.maxAlign
       /\ r.maxIdx \in 1..n /\ ts[r.members[r.maxIdx]].size = r.maxSize
       /\ r.kind = "struct" => r.offset = r.offsets[n] + ts[r.members[n]].size
  /\ r.kind = "struct" => Packed(ts, r.members, r.offsets)

CInv == (\A t \in 1..Len(types) : Composed(types, types[t], t)) /\ Reached(types, record)

LEMMA RoundUpZero == \A a \in Aligns : roundup(0, a) = 0
<1>1. roundup(0, 1) = 0 /\ roundup(0, 2) = 0 /\ roundup(0, 4) = 0 /\ roundup(0, 8) = 0
  BY DEF roundup
<1> QED BY <1>1 DEF Aligns

LEMMA ComposedGrows ==
  ASSUME NEW ts \in Seq(Types), NEW z \in Types, Composed(ts, z, Len(ts) + 1),
         \A t \in 1..Len(ts) : Composed(ts, ts[t], t)
  PROVE  \A t \in 1..Len(Append(ts, z)) : Composed(Append(ts, z), Append(ts, z)[t], t)
<1> DEFINE us == Append(ts, z)
<1>1. /\ us \in Seq(Types) /\ Len(us) = Len(ts) + 1 /\ us[Len(us)] = z /\ Len(ts) \in Nat
      /\ \A i \in 1..Len(ts) : us[i] = ts[i]
  OBVIOUS
<1> HIDE DEF us
<1>2. ASSUME NEW y \in Types, NEW n \in 1..Len(ts) + 1, Composed(ts, y, n)
      PROVE  Composed(us, y, n)
  <2> DEFINE k == Len(y.members)
  <2>1. k \in Nat /\ Len(y.offsets) = k /\ \A i \in 1..k : y.members[i] \in 1..n - 1
    BY <1>2 DEF Composed, Types
  <2>2. \A i \in 1..k : us[y.members[i]] = ts[y.members[i]]
    <3>1. \A j \in 1..n - 1 : j \in 1..Len(ts)
      BY <1>1
    <3> QED BY <1>1, <2>1, <3>1
  <2>3. \A i \in 1..k : i # 1 => i - 1 \in 1..k
    BY <2>1
  <2>4. 1 \in 1..k \/ k = 0
    BY <2>1
  <2>5. k \in 1..k \/ k = 0
    BY <2>1
  <2>6. Packed(ts, y.members, y.offsets) => Packed(us, y.members, y.offsets)
    BY <2>1, <2>2, <2>3 DEF Packed
  <2>7. /\ y.kind = "basic" => k = 0 /\ y.offsets = <<>>
        /\ y.kind = "array" =>
             /\ k = 1 /\ y.offsets = <<0>>
             /\ y.size = y.count * us[y.members[1]].size /\ y.align = us[y.members[1]].align
    BY <1>2, <2>2, <2>4 DEF Composed
  <2>8. y.kind \in {"struct", "union"} =>
             /\ k # 0
             /\ \A i \in 1..k : us[y.members[i]].align <= y.align
             /\ \E i \in 1..k : us[y.members[i]].align = y.align
    BY <1>2, <2>2 DEF Composed
  <2>9. y.kind = "struct" =>
             /\ Packed(us, y.members, y.offsets)
             /\ y.size = roundup(y.offsets[k] + us[y.members[k]].size, y.align)
    BY <1>2, <2>2, <2>5, <2>6, <2>8 DEF Composed
  <2>10. y.kind = "union" =>
             /\ y.maxElementIdx \in 1..k
             /\ y.size = roundup(us[y.members[y.maxElementIdx]].size, y.align)
    BY <1>2, <2>2 DEF Composed
  <2> QED BY <2>1, <2>7, <2>8, <2>9, <2>10 DEF Composed
<1>3. ASSUME NEW t \in 1..Len(us)
      PROVE  Composed(us, us[t], t)
  <2>1. us[t] \in Types /\ t \in 1..Len(ts) + 1
    BY <1>1
  <2>2. CASE t \in 1..Len(ts)
    BY <1>1, <1>2, <2>1, <2>2
  <2>3. CASE t = Len(ts) + 1
    BY <1>1, <1>2, <2>1, <2>3
  <2> QED BY <1>1, <2>2, <2>3
<1> QED BY <1>3 DEF us

\* A type is appended and the loop is over.
LEMMA ComposeKeeps ==
  ASSUME IInv, CInv, NEW z \in Types, Composed(types, z, Len(types) + 1),
         types' = Append(types, z), record' = Idle
  PROVE  CInv'
<1>1. types \in Seq(Types)
  BY DEF IInv, TypeOK
<1>2. \A t \in 1..Len(types') : Composed(types', types'[t], t)
  BY <1>1, ComposedGrows DEF CInv
<1>3. Reached(types', record')
  BY DEF Reached, Packed, Idle
<1> QED BY <1>2, <1>3 DEF CInv

LEMMA NewType ==
  ASSUME IInv, IInv', NEW z, types' = Append(types, z)
  PROVE  z \in Types
<1>1. types \in Seq(Types) /\ types' \in Seq(Types)
  BY DEF IInv, TypeOK
<1>2. Len(types') = Len(types) + 1 /\ types'[Len(types) + 1] = z /\ Len(types) + 1 \in 1..Len(types')
  <2> DEFINE U == Types \cup {z}
  <2>1. types \in Seq(U) /\ z \in U
    BY <1>1
  <2> HIDE DEF U
  <2> QED BY <2>1
<1> QED BY <1>1, <1>2

LEMMA CArrayTypeComposes ==
  ASSUME IInv, IInv', CInv, NEW t \in DOMAIN types, NEW n \in Counts, CArrayType(t, n)
  PROVE  CInv'
<1> DEFINE z == Type("array", n * types[t].size, types[t].align, n, <<t>>, <<0>>, 1)
<1>1. types \in Seq(Types) /\ t \in 1..Len(types) /\ Len(types) \in Nat
  BY DEF IInv, TypeOK
<1>2. types' = Append(types, z) /\ record' = Idle
  BY DEF CArrayType, CanMake
<1>3. z \in Types
  BY <1>2, NewType
<1>4. /\ z.kind = "array" /\ z.members = <<t>> /\ z.offsets = <<0>> /\ z.count = n
      /\ z.size = n * types[t].size /\ z.align = types[t].align
  BY DEF Type
<1> HIDE DEF z
<1>5. Len(z.members) = 1 /\ Len(z.offsets) = 1 /\ z.members[1] = t
  BY <1>4
<1>6. \A i \in 1..Len(z.members) : z.members[i] \in 1..(Len(types) + 1) - 1
  BY <1>1, <1>5
<1>7. Composed(types, z, Len(types) + 1)
  BY <1>4, <1>5, <1>6 DEF Composed
<1> QED BY <1>2, <1>3, <1>7, ComposeKeeps

LEMMA SetMembersComposes ==
  ASSUME IInv, CInv, NEW k \in {"struct", "union"}, NEW ms, SetMembers(k, ms)
  PROVE  CInv'
<1>1. /\ record'.offsets = <<>> /\ record'.offset = 0 /\ record'.maxSize = 0
      /\ record'.maxAlign = 0 /\ record'.maxIdx = 1 /\ types' = types
  BY DEF SetMembers, Idle
<1>2. Reached(types', record')
  BY <1>1 DEF Reached, Packed
<1> QED BY <1>1, <1>2 DEF CInv

\* One more member is placed.
LEMMA PlaceReaches ==
  ASSUME IInv, CInv, Len(record.offsets) < Len(record.members), NEW at \in Nat, NEW end \in Nat,
         record' = Place(record, at, end), UNCHANGED types,
         record.kind = "struct" =>
           at = roundup(record.offset, Member.align) /\ end = at + Member.size
  PROVE  CInv'
<1> DEFINE r == record
           n == Len(record.offsets)
           k == n + 1
           q == record'
<1>1. /\ r.members \in Seq(Nat) /\ r.offsets \in Seq(Nat) /\ n \in Nat /\ k \in 1..Len(r.members)
      /\ types \in Seq(Types) /\ \A i \in 1..Len(r.members) : r.members[i] \in 1..Len(types)
      /\ r.maxAlign \in Aligns \cup {0} /\ r.maxSize \in Nat
  BY DEF IInv, TypeOK, Records
<1>2. Member = types[r.members[k]] /\ Member.align \in Aligns /\ Member.size \in Nat
  <2>1. types[r.members[k]] \in Types
    BY <1>1
  <2>2. Member = types[r.members[k]]
    BY DEF Member, idx
  <2> QED BY <2>1, <2>2 DEF Types
<1>3. /\ q.kind = r.kind /\ q.members = r.members /\ q.offset = end
      /\ q.offsets = Append(r.offsets, at)
      /\ q.maxAlign = Larger(r.maxAlign, Member.align) /\ q.maxSize = Larger(r.maxSize, Member.size)
      /\ q.maxIdx = IF r.maxSize < Member.size THEN k ELSE r.maxIdx
  BY DEF IInv, TypeOK, Records, Place, Largest, idx
<1>4. /\ Len(q.offsets) = k /\ q.offsets[k] = at /\ k # 0
      /\ \A i \in 1..n : q.offsets[i] = r.offsets[i]
      /\ \A i \in 1..k : i \in 1..n \/ i = k
      /\ \A i \in 1..n : i \in 1..k
      /\ k \in 1..k
  BY <1>1, <1>3
<1>5. Reached(types, r)
  BY DEF CInv
<1> HIDE DEF r, q, k, n
<1>6. n = 0 => k = 1
  BY DEF k
<1>7. \E i \in 1..k : types[q.members[i]].align = q.maxAlign
  <2>1. CASE r.maxAlign < Member.align
    <3>1. q.maxAlign = Member.align
      BY <1>3, <2>1 DEF Larger
    <3> QED BY <1>2, <1>3, <1>4, <3>1
  <2>2. CASE ~(r.maxAlign < Member.align)
    <3>1. q.maxAlign = r.maxAlign
      BY <1>3, <2>2 DEF Larger
    <3>2. r.maxAlign # 0
      BY <1>2, <2>2 DEF Aligns
    <3>3. n # 0
      BY <1>5, <3>2 DEF Reached, n, r
    <3>4. PICK i \in 1..n : types[r.members[i]].align = r.maxAlign
      BY <1>5, <3>3 DEF Reached, n, r
    <3> QED BY <1>3, <1>4, <3>1, <3>4
  <2> QED BY <2>1, <2>2
<1>8. q.maxIdx \in 1..k /\ types[q.members[q.maxIdx]].size = q.maxSize
  <2>1. CASE r.maxSize < Member.size
    BY <1>2, <1>3, <1>4, <2>1 DEF Larger
  <2>2. CASE ~(r.maxSize < Member.size)
    <3>1. q.maxIdx = r.maxIdx /\ q.maxSize = r.maxSize
      BY <1>3, <2>2 DEF Larger
    <3>2. CASE n = 0
      <4>1. r.maxIdx = 1 /\ r.maxSize = 0 /\ k = 1
        BY <1>5, <1>6, <3>2 DEF Reached, n, r
      <4>2. Member.size = 0
        BY <1>2, <2>2, <4>1
      <4> QED BY <1>2, <1>3, <1>4, <3>1, <4>1, <4>2
    <3>3. CASE n # 0
      <4>1. r.maxIdx \in 1..n /\ types[r.members[r.maxIdx]].size = r.maxSize
        BY <1>5, <3>3 DEF Reached, n, r
      <4> QED BY <1>3, <1>4, <3>1, <4>1
    <3> QED BY <3>2, <3>3
  <2> QED BY <2>1, <2>2
<1>9. q.kind = "struct" => q.offset = q.offsets[k] + types[q.members[k]].size
  BY <1>2, <1>3, <1>4 DEF r
<1>10. q.kind = "struct" => Packed(types, q.members, q.offsets)
  <2> SUFFICES ASSUME q.kind = "struct", NEW i \in 1..k
               PROVE  q.offsets[i] = IF i = 1 THEN 0
                                     ELSE roundup(q.offsets[i - 1] + types[q.members[i - 1]].size,
                                                  types[q.members[i]].align)
    BY <1>4 DEF Packed
  <2>1. Packed(types, r.members, r.offsets) /\ at = roundup(r.offset, Member.align)
    BY <1>3, <1>5 DEF Reached, r
  <2>2. i # 1 => i - 1 \in 1..n
    BY <1>1 DEF k
  <2>3. CASE i \in 1..n
    BY <1>3, <1>4, <2>1, <2>2, <2>3 DEF Packed, n, r
  <2>4. CASE i = k /\ n = 0
    <3>1. at = 0 /\ i = 1
      BY <1>2, <1>5, <1>6, <2>1, <2>4, RoundUpZero DEF Reached, n, r
    <3> QED BY <1>4, <2>4, <3>1
  <2>5. CASE i = k /\ n # 0
    <3>1. r.offset = r.offsets[n] + types[r.members[n]].size
      BY <1>3, <1>5, <2>5 DEF Reached, n, r
    <3>2. i - 1 = n /\ i # 1
      BY <1>1, <2>5 DEF k
    <3>3. n \in 1..n
      BY <1>1, <2>5
    <3> QED BY <1>2, <1>3, <1>4, <2>1, <2>5, <3>1, <3>2, <3>3
  <2> QED BY <1>4, <2>3, <2>4, <2>5
<1>11. Reached(types, q)
  BY <1>4, <1>7, <1>8, <1>9, <1>10 DEF Reached
<1> QED BY <1>11 DEF CInv, q

\* All members are placed.
LEMMA LaidOutComposes ==
  ASSUME IInv, CInv, record.kind \in {"struct", "union"}, Len(record.offsets) = Len(record.members),
         NEW z \in Types, z.kind = record.kind, z.members = record.members,
         z.offsets = record.offsets, z.align = record.maxAlign, z.maxElementIdx = record.maxIdx,
         z.kind = "struct" => z.size = roundup(record.offset, record.maxAlign),
         z.kind = "union" => z.size = roundup(record.maxSize, record.maxAlign)
  PROVE  Composed(types, z, Len(types) + 1)
<1> DEFINE n == Len(record.members)
<1>1. n \in Nat /\ n # 0 /\ Len(types) \in Nat
  BY DEF IInv, TypeOK, Records, Begun
<1>2. /\ \A i \in 1..n : record.members[i] \in 1..Len(types)
      /\ \A i \in 1..n : types[record.members[i]].align <= record.maxAlign
  BY LaidOutFacts
<1>3. \A i \in 1..n : record.members[i] \in 1..(Len(types) + 1) - 1
  BY <1>1, <1>2
<1>4. /\ \E i \in 1..n : types[record.members[i]].align = record.maxAlign
      /\ record.maxIdx \in 1..n /\ types[record.members[record.maxIdx]].size = record.maxSize
      /\ record.kind = "struct" =>
           /\ record.offset = record.offsets[n] + types[record.members[n]].size
           /\ Packed(types, record.members, record.offsets)
  BY <1>1 DEF CInv, Reached
<1> QED BY <1>1, <1>2, <1>3, <1>4 DEF Composed

LEMMA UpdateStructOffsetComposes ==
  ASSUME IInv, IInv', CInv, UpdateStructOffset
  PROVE  CInv'
<1> DEFINE at == roundup(record.offset, Member.align)
           z == Type("struct", roundup(record.offset, record.maxAlign), record.maxAlign,
                     0, record.members, record.offsets, record.maxIdx)
<1>1. CASE Laying("struct") /\ record' = StructMember(record) /\ UNCHANGED types
  <2>1. Member.align \in Aligns /\ Member.size \in Nat /\ record.offset \in Nat
    <3>1. record.offset \in Nat /\ idx \in 1..Len(record.members)
      BY <1>1 DEF IInv, TypeOK, Records, Laying, idx
    <3>2. Member \in Types
      BY <3>1 DEF IInv, TypeOK, Member
    <3> QED BY <3>1, <3>2 DEF Types
  <2>2. at \in Nat
    BY <2>1, RoundUp
  <2>3. at + Member.size \in Nat /\ record' = Place(record, at, at + Member.size)
    <3> HIDE DEF at
    <3>1. at + Member.size \in Nat
      BY <2>1, <2>2
    <3> QED BY <1>1, <3>1 DEF StructMember, at
  <2> QED BY <1>1, <2>2, <2>3, PlaceReaches DEF Laying
<1>2. CASE LaidOut("struct") /\ types' = Append(types, z) /\ record' = Idle
  <2>1. z \in Types
    BY <1>2, NewType
  <2>2. /\ z.kind = "struct" /\ z.members = record.members /\ z.offsets = record.offsets
        /\ z.align = record.maxAlign /\ z.maxElementIdx = record.maxIdx
        /\ z.size = roundup(record.offset, record.maxAlign)
    BY DEF Type
  <2> HIDE DEF z
  <2>3. Composed(types, z, Len(types) + 1)
    BY <1>2, <2>1, <2>2, LaidOutComposes DEF LaidOut
  <2> QED BY <1>2, <2>1, <2>3, ComposeKeeps
<1> QED BY <1>1, <1>2 DEF UpdateStructOffset

LEMMA UpdateUnionOffsetComposes ==
  ASSUME IInv, IInv', CInv, UpdateUnionOffset
  PROVE  CInv'
<1> DEFINE z == Type("union", roundup(record.maxSize, record.maxAlign), record.maxAlign,
                     0, record.members, record.offsets, record.maxIdx)
<1>1. CASE Laying("union") /\ record' = UnionMember(record) /\ UNCHANGED types
  BY <1>1, PlaceReaches DEF Laying, UnionMember
<1>2. CASE LaidOut("union") /\ types' = Append(types, z) /\ record' = Idle
  <2>1. z \in Types
    BY <1>2, NewType
  <2>2. /\ z.kind = "union" /\ z.members = record.members /\ z.offsets = record.offsets
        /\ z.align = record.maxAlign /\ z.maxElementIdx = record.maxIdx
        /\ z.size = roundup(record.maxSize, record.maxAlign)
    BY DEF Type
  <2> HIDE DEF z
  <2>3. Composed(types, z, Len(types) + 1)
    BY <1>2, <2>1, <2>2, LaidOutComposes DEF LaidOut
  <2> QED BY <1>2, <2>1, <2>3, ComposeKeeps
<1> QED BY <1>1, <1>2 DEF UpdateUnionOffset

LEMMA BasicTypesCompose ==
  ASSUME Init, IInv
  PROVE  CInv
<1> DEFINE n == Len(Basic)
           Ready(i) == Type("basic", Basic[i].size, Basic[i].align, 0, <<>>, <<>>, 1)
<1>1. types = [i \in 1..n |-> Ready(i)] /\ n \in Nat /\ types \in Seq(Types)
  <2>1. n \in Nat /\ DOMAIN Basic = 1..n
    BY BasicAssumption
  <2> QED BY <2>1 DEF Init, IInv, TypeOK
<1>2. Len(types) = n
  <2> HIDE DEF Ready, n
  <2> QED BY <1>1
<1>3. \A t \in 1..n : /\ Ready(t).kind = "basic" /\ Ready(t).members = <<>>
                      /\ Ready(t).offsets = <<>>
  BY DEF Type
<1>4. \A t \in 1..n : types[t] = Ready(t)
  <2> HIDE DEF Ready, n
  <2> QED BY <1>1
<1>5. \A t \in 1..n : Composed(types, types[t], t)
  <2> HIDE DEF Ready
  <2> QED BY <1>3, <1>4 DEF Composed
<1>6. Reached(types, record)
  BY DEF Init, Idle, Reached, Packed
<1> QED BY <1>2, <1>5, <1>6 DEF CInv

LEMMA ComposedAlways == LeastMembers # 0 => (Spec => [](IInv /\ CInv))
<1> SUFFICES ASSUME LeastMembers # 0 PROVE Spec => [](IInv /\ CInv)
  OBVIOUS
<1>1. Init => CInv
  BY InitEstablishes, BasicTypesCompose
<1>2. IInv /\ IInv' /\ CInv /\ [Next]_vars => CInv'
  <2> SUFFICES ASSUME IInv, IInv', CInv, [Next]_vars PROVE CInv'
    OBVIOUS
  <2>1. CASE UNCHANGED vars
    BY <2>1 DEF CInv, Composed, Reached, Packed, vars
  <2> QED BY <2>1, CArrayTypeComposes, SetMembersComposes, UpdateStructOffsetComposes,
             UpdateUnionOffsetComposes DEF Next
<1>3. Spec => []IInv
  BY Invariance
<1> QED BY <1>1, <1>2, <1>3, PTL DEF Spec
-----------------------------------------------------------------------------
(***************************************************************************)
(* The recursive definitions of LLVM's layout, by induction on the         *)
(* smallest number for which something would be wrong.                     *)
(***************************************************************************)
LEMMA Least ==
  ASSUME NEW T \in SUBSET Nat, T # {}
  PROVE  \E x \in T : \A y \in T : x <= y
<1> DEFINE R == OpToRel(<, Nat)
<1>1. IsWellFoundedOn(R, Nat)
  BY NatLessThanWellFounded
<1>2. \A x, y \in Nat : y < x => <<y, x>> \in R
  BY DEF OpToRel
<1> HIDE DEF R
<1>3. PICK x \in T : \A y \in T : ~ (<<y, x>> \in R)
  BY <1>1, WFMin
<1>4. \A y \in T : ~ (y < x)
  BY <1>2, <1>3
<1>5. \A y \in T : x <= y
  BY <1>4
<1> QED BY <1>5

\* Offsets that go on as LLVM's do are LLVM's.
GoOn(os, parts, n) ==
  /\ DOMAIN parts = 1..n
  /\ os = [i \in 1..n |-> os[i]]
  /\ \A i \in 1..n :
       os[i] = IF i = 1 THEN 0 ELSE roundup(os[i - 1] + parts[i - 1].size, parts[i].align)

LEMMA ElementOffsetsAre ==
  ASSUME NEW os, NEW parts, NEW n \in Nat, GoOn(os, parts, n)
  PROVE  ElementOffsets(parts) = os
<1> DEFINE body(f) == [i \in DOMAIN parts |->
                         IF i = 1 THEN 0 ELSE roundup(f[i - 1] + parts[i - 1].size, parts[i].align)]
           E == ElementOffsets(parts)
<1>0. /\ DOMAIN parts = 1..n
      /\ os = [i \in 1..n |-> os[i]]
      /\ \A i \in 1..n :
           os[i] = IF i = 1 THEN 0 ELSE roundup(os[i - 1] + parts[i - 1].size, parts[i].align)
  BY DEF GoOn
<1>1. os = body(os)
  BY <1>0
<1>2. E = CHOOSE w : w = body(w)
  BY DEF ElementOffsets
<1>3. E = body(E)
  <2> HIDE DEF body, E
  <2> QED BY <1>1, <1>2
<1> HIDE DEF E
<1>4. \A i \in 1..n : E[i] = IF i = 1 THEN 0 ELSE roundup(E[i - 1] + parts[i - 1].size, parts[i].align)
  BY <1>0, <1>3
<1>5. E = [i \in 1..n |-> E[i]]
  <2>1. body(E) = [i \in 1..n |-> body(E)[i]]
    BY <1>0
  <2> HIDE DEF body
  <2> QED BY <1>3, <2>1
<1> DEFINE T == {i \in 1..n : E[i] # os[i]}
<1>6. T = {}
  <2> SUFFICES ASSUME T # {} PROVE FALSE
    OBVIOUS
  <2>1. PICK x \in T : \A y \in T : x <= y
    <3>1. T \in SUBSET Nat
      OBVIOUS
    <3> HIDE DEF T
    <3> QED BY <3>1, Least
  <2>2. x \in 1..n /\ E[x] # os[x]
    OBVIOUS
  <2>3. x # 1
    BY <1>0, <1>4, <2>2
  <2>4. x - 1 \in 1..n /\ ~(x <= x - 1)
    BY <2>2, <2>3
  <2>5. E[x - 1] = os[x - 1]
    BY <2>1, <2>4
  <2> QED BY <1>0, <1>4, <2>2, <2>3, <2>5
<1>7. \A i \in 1..n : E[i] = os[i]
  BY <1>6
<1>8. E = os
  BY <1>0, <1>5, <1>7
<1> QED BY <1>8 DEF E

LEMMA StrictestAlignIs ==
  ASSUME NEW parts, NEW a \in Aligns, \A i \in DOMAIN parts : parts[i].align \in Aligns /\ parts[i].align <= a,
         \E i \in DOMAIN parts : parts[i].align = a
  PROVE  StrictestAlign(parts) = a
<1> DEFINE S == {1} \cup {parts[i].align : i \in DOMAIN parts}
<1>1. a \in S /\ S \subseteq Aligns
  BY DEF Aligns
<1>2. \A b \in S : b <= a
  BY DEF Aligns
<1>3. StrictestAlign(parts) = CHOOSE c \in S : \A b \in S : b <= c
  BY DEF StrictestAlign
<1> HIDE DEF S
<1>4. StrictestAlign(parts) \in S /\ \A b \in S : b <= StrictestAlign(parts)
  BY <1>1, <1>2, <1>3
<1>5. StrictestAlign(parts) \in Aligns /\ a <= StrictestAlign(parts) /\ StrictestAlign(parts) <= a
  BY <1>1, <1>2, <1>4
<1> QED BY <1>5 DEF Aligns

\* The elements of LLVM's struct are older than the record.
LEMMA ElementsAreOlder ==
  ASSUME IInv, CInv, NEW t \in 1..Len(types)
  PROVE  \A i \in DOMAIN VisitRecordType(types[t]) : VisitRecordType(types[t])[i] \in 1..t - 1
<1> DEFINE y == types[t]
<1>1. y \in Types /\ Composed(types, y, t)
  BY DEF IInv, TypeOK, CInv
<1>2. y.members \in Seq(Nat) /\ \A i \in 1..Len(y.members) : y.members[i] \in 1..t - 1
  BY <1>1 DEF Types, Composed
<1>3. DOMAIN y.members = 1..Len(y.members)
  BY <1>2
<1>4. CASE y.kind = "union"
  <2>1. y.maxElementIdx \in 1..Len(y.members)
    BY <1>1, <1>4 DEF Composed
  <2>2. VisitRecordType(y) = <<y.members[y.maxElementIdx]>>
    BY <1>4 DEF VisitRecordType
  <2> QED BY <1>2, <2>1, <2>2
<1>5. CASE y.kind # "union"
  BY <1>2, <1>3, <1>5 DEF VisitRecordType
<1> QED BY <1>4, <1>5

Parts(t, f) ==
  [i \in DOMAIN VisitRecordType(types[t]) |-> f[VisitRecordType(types[t])[i]]]
SoFar(f, m) == \A t \in 1..m : f[t] = IRLayoutOf(types[t], Parts(t, f))

LEMMA LayoutsSoFar ==
  ASSUME IInv, CInv
  PROVE  \A m \in 0..Len(types) : \E f : SoFar(f, m)
<1> DEFINE T == {m \in 0..Len(types) : ~ \E f : SoFar(f, m)}
<1> SUFFICES ASSUME T # {} PROVE FALSE
  OBVIOUS
<1>0. Len(types) \in Nat
  BY DEF IInv, TypeOK
<1>1. PICK x \in T : \A y \in T : x <= y
  <2>1. T \in SUBSET Nat
    BY <1>0
  <2> HIDE DEF T
  <2> QED BY <2>1, Least
<1>2. x \in 0..Len(types) /\ ~ \E f : SoFar(f, x)
  OBVIOUS
<1>3. x # 0
  BY <1>2 DEF SoFar
<1>4. x - 1 \in 0..Len(types) /\ ~(x <= x - 1) /\ x \in 1..Len(types)
  BY <1>0, <1>2, <1>3
<1>5. PICK f : SoFar(f, x - 1)
  BY <1>1, <1>4
<1> DEFINE g == [t \in 1..x |-> IF t = x THEN IRLayoutOf(types[x], Parts(x, f)) ELSE f[t]]
<1>6. \A t \in 1..x - 1 : g[t] = f[t]
  BY <1>0, <1>2
<1>7. g[x] = IRLayoutOf(types[x], Parts(x, f))
  BY <1>4
<1> HIDE DEF g
<1>8. \A t \in 1..x : Parts(t, g) = Parts(t, f)
  <2> TAKE t \in 1..x
  <2>1. t \in 1..Len(types) /\ \A j \in 1..t - 1 : j \in 1..x - 1
    BY <1>0, <1>4
  <2>2. \A i \in DOMAIN VisitRecordType(types[t]) : VisitRecordType(types[t])[i] \in 1..x - 1
    BY <2>1, ElementsAreOlder
  <2> QED BY <1>6, <2>2 DEF Parts
<1>9. SoFar(g, x)
  <2> SUFFICES ASSUME NEW t \in 1..x PROVE g[t] = IRLayoutOf(types[t], Parts(t, g))
    BY DEF SoFar
  <2>1. CASE t = x
    BY <1>7, <1>8, <2>1
  <2>2. CASE t # x
    <3>1. t \in 1..x - 1
      BY <1>4, <2>2
    <3> QED BY <1>5, <1>6, <1>8, <3>1 DEF SoFar
  <2> QED BY <2>1, <2>2
<1> QED BY <1>2, <1>9

LEMMA IRLayoutUnfolds ==
  ASSUME IInv, CInv
  PROVE  \A t \in 1..Len(types) : IRLayout[t] = IRLayoutOf(types[t], Parts(t, IRLayout))
<1> DEFINE body(f) ==
      [t \in DOMAIN types |->
         IRLayoutOf(types[t], [i \in DOMAIN VisitRecordType(types[t]) |->
                                 f[VisitRecordType(types[t])[i]]])]
<1>1. DOMAIN types = 1..Len(types) /\ Len(types) \in Nat
  BY DEF IInv, TypeOK
<1>2. PICK f : SoFar(f, Len(types))
  <2>1. Len(types) \in 0..Len(types)
    BY <1>1
  <2> QED BY <2>1, LayoutsSoFar
<1> DEFINE g == [t \in 1..Len(types) |-> f[t]]
<1>3. \A t \in 1..Len(types) : Parts(t, g) = Parts(t, f)
  <2> TAKE t \in 1..Len(types)
  <2>1. \A j \in 1..t - 1 : j \in 1..Len(types)
    BY <1>1
  <2>2. \A i \in DOMAIN VisitRecordType(types[t]) : VisitRecordType(types[t])[i] \in 1..Len(types)
    BY <2>1, ElementsAreOlder
  <2> QED BY <2>2 DEF Parts
<1>4. g = body(g)
  <2>1. \A t \in 1..Len(types) : g[t] = IRLayoutOf(types[t], Parts(t, g))
    <3>1. \A t \in 1..Len(types) : g[t] = f[t]
      OBVIOUS
    <3> HIDE DEF g
    <3> QED BY <1>2, <1>3, <3>1 DEF SoFar
  <2>2. g = [t \in 1..Len(types) |-> g[t]]
    OBVIOUS
  <2> HIDE DEF g
  <2>3. body(g) = [t \in 1..Len(types) |-> IRLayoutOf(types[t], Parts(t, g))]
    BY <1>1 DEF Parts
  <2> HIDE DEF body
  <2> QED BY <2>1, <2>2, <2>3
<1>5. IRLayout = CHOOSE w : w = body(w)
  BY DEF IRLayout
<1>6. IRLayout = body(IRLayout)
  <2> HIDE DEF body, g
  <2> QED BY <1>4, <1>5
<1> QED BY <1>1, <1>6 DEF Parts
-----------------------------------------------------------------------------
(***************************************************************************)
(* The two layouts of a type whose parts agree.                            *)
(***************************************************************************)
PartsAgree(t) == \A i \in 1..Len(types[t].members) : Agrees(types[t].members[i])

\* What is known of the type, and of its parts in either layout.
LEMMA PartFacts ==
  ASSUME IInv, CInv, NEW t \in 1..Len(types), PartsAgree(t)
  PROVE  LET y == types[t] IN
         /\ y \in Types /\ Composed(types, y, t) /\ Len(y.members) \in Nat
         /\ DOMAIN y.members = 1..Len(y.members)
         /\ y.offsets = [i \in 1..Len(y.members) |-> y.offsets[i]]
         /\ \A i \in 1..Len(y.members) :
              LET m == y.members[i] IN
              /\ m \in 1..Len(types) /\ types[m].align \in Aligns /\ types[m].size \in Nat
              /\ IRLayout[m].size = types[m].size /\ IRLayout[m].align = types[m].align
<1> DEFINE y == types[t]
<1>1. y \in Types /\ Composed(types, y, t) /\ Len(types) \in Nat
  BY DEF IInv, TypeOK, CInv
<1>2. /\ y.members \in Seq(Nat) /\ y.offsets \in Seq(Nat) /\ Len(y.offsets) = Len(y.members)
      /\ \A i \in 1..Len(y.members) : y.members[i] \in 1..t - 1
  BY <1>1 DEF Types, Composed
<1>3. \A i \in 1..Len(y.members) : y.members[i] \in 1..Len(types)
  BY <1>1, <1>2
<1>4. \A m \in 1..Len(types) : types[m].align \in Aligns /\ types[m].size \in Nat
  <2>1. \A m \in 1..Len(types) : types[m] \in Types
    BY DEF IInv, TypeOK
  <2> QED BY <2>1 DEF Types
<1>5. Len(y.members) \in Nat /\ DOMAIN y.members = 1..Len(y.members)
      /\ y.offsets = [i \in 1..Len(y.members) |-> y.offsets[i]]
  BY <1>2
<1>6. \A i \in 1..Len(y.members) :
        /\ IRLayout[y.members[i]].size = types[y.members[i]].size
        /\ IRLayout[y.members[i]].align = types[y.members[i]].align
  BY DEF PartsAgree, Agrees
<1> QED BY <1>1, <1>3, <1>4, <1>5, <1>6

LEMMA BasicAgrees ==
  ASSUME IInv, CInv, NEW t \in 1..Len(types), types[t].kind = "basic"
  PROVE  Agrees(t)
<1>1. IRLayout[t] = IRLayoutOf(types[t], Parts(t, IRLayout))
  BY IRLayoutUnfolds
<1>2. types[t].offsets = <<>>
  BY DEF CInv, Composed
<1>3. IRLayout[t] = [size |-> types[t].size, align |-> types[t].align, offsets |-> <<>>]
  BY <1>1 DEF IRLayoutOf
<1> QED BY <1>2, <1>3 DEF Agrees

LEMMA ArrayAgrees ==
  ASSUME IInv, CInv, NEW t \in 1..Len(types), types[t].kind = "array", PartsAgree(t)
  PROVE  Agrees(t)
<1> DEFINE y == types[t]
           parts == Parts(t, IRLayout)
<1>1. IRLayout[t] = IRLayoutOf(y, parts)
  BY IRLayoutUnfolds
<1>2. /\ Len(y.members) = 1 /\ y.offsets = <<0>>
      /\ y.size = y.count * types[y.members[1]].size /\ y.align = types[y.members[1]].align
  BY PartFacts DEF Composed
<1>3. DOMAIN y.members = 1..1
  BY <1>2, PartFacts
<1>4. parts[1] = IRLayout[y.members[1]]
  BY <1>3 DEF Parts, VisitRecordType
<1>5. IRLayout[t] = [size |-> y.count * parts[1].size, align |-> parts[1].align, offsets |-> <<0>>]
  <2> HIDE DEF parts
  <2> QED BY <1>1 DEF IRLayoutOf
<1>6. parts[1].size = types[y.members[1]].size /\ parts[1].align = types[y.members[1]].align
  <2>1. /\ IRLayout[y.members[1]].size = types[y.members[1]].size
        /\ IRLayout[y.members[1]].align = types[y.members[1]].align
    <3>1. 1 \in 1..Len(y.members)
      BY <1>2
    <3> QED BY <3>1, PartFacts
  <2> HIDE DEF parts, y
  <2> QED BY <1>4, <2>1
<1> HIDE DEF parts
<1> QED BY <1>2, <1>5, <1>6 DEF Agrees

LEMMA LengthIs ==
  ASSUME NEW s, NEW n \in Nat, DOMAIN s = 1..n
  PROVE  Len(s) = n
OBVIOUS

\* LLVM's layout of a record, whose elements are one at least.
LEMMA RecordUnfolds ==
  ASSUME NEW y, y.kind \in {"struct", "union"}, NEW parts, NEW n \in Nat \ {0}, DOMAIN parts = 1..n
  PROVE  IRLayoutOf(y, parts) =
           [size |-> roundup(ElementOffsets(parts)[n] + parts[n].size, StrictestAlign(parts)),
            align |-> StrictestAlign(parts), offsets |-> ElementOffsets(parts)]
<1>1. Len(parts) = n
  BY LengthIs
<1>2. y.kind # "basic" /\ y.kind # "array"
  OBVIOUS
<1> QED BY <1>1, <1>2 DEF IRLayoutOf

LEMMA StructAgrees ==
  ASSUME IInv, CInv, NEW t \in 1..Len(types), types[t].kind = "struct", PartsAgree(t)
  PROVE  Agrees(t)
<1> DEFINE y == types[t]
           n == Len(y.members)
           parts == Parts(t, IRLayout)
<1>1. IRLayout[t] = IRLayoutOf(y, parts)
  BY IRLayoutUnfolds
<1>2. /\ n \in Nat \ {0} /\ y.align \in Aligns
      /\ \A i \in 1..n : types[y.members[i]].align <= y.align
      /\ \E i \in 1..n : types[y.members[i]].align = y.align
      /\ Len(y.offsets) = n /\ Packed(types, y.members, y.offsets)
      /\ y.size = roundup(y.offsets[n] + types[y.members[n]].size, y.align)
  BY PartFacts DEF Composed, Types
<1>3. DOMAIN parts = 1..n /\ \A i \in 1..n : parts[i] = IRLayout[y.members[i]]
  BY PartFacts DEF Parts, VisitRecordType
<1>4. \A i \in 1..n : /\ types[y.members[i]].align \in Aligns
                      /\ parts[i].size = types[y.members[i]].size
                      /\ parts[i].align = types[y.members[i]].align
  <2>1. \A i \in 1..n : /\ types[y.members[i]].align \in Aligns
                        /\ IRLayout[y.members[i]].size = types[y.members[i]].size
                        /\ IRLayout[y.members[i]].align = types[y.members[i]].align
    BY PartFacts
  <2> HIDE DEF parts, y, n
  <2> QED BY <1>3, <2>1
<1>5. y.offsets = [i \in 1..n |-> y.offsets[i]]
  BY PartFacts
<1> HIDE DEF parts
<1>6. ElementOffsets(parts) = y.offsets
  <2>1. \A i \in 1..n : y.offsets[i] = IF i = 1 THEN 0
                                      ELSE roundup(y.offsets[i - 1] + parts[i - 1].size, parts[i].align)
    <3>1. \A i \in 1..n : i # 1 => i - 1 \in 1..n
      BY <1>2
    <3> HIDE DEF y, n
    <3> QED BY <1>2, <1>4, <3>1 DEF Packed
  <2>2. GoOn(y.offsets, parts, n)
    <3> HIDE DEF y, n
    <3> QED BY <1>3, <1>5, <2>1 DEF GoOn
  <2> HIDE DEF y, n
  <2> QED BY <1>2, <2>2, ElementOffsetsAre
<1>7. StrictestAlign(parts) = y.align
  <2>1. \A i \in DOMAIN parts : parts[i].align \in Aligns /\ parts[i].align <= y.align
    <3> HIDE DEF y, n
    <3> QED BY <1>2, <1>3, <1>4
  <2>2. \E i \in DOMAIN parts : parts[i].align = y.align
    <3> HIDE DEF y, n
    <3> QED BY <1>2, <1>3, <1>4
  <2> HIDE DEF y, n
  <2> QED BY <1>2, <2>1, <2>2, StrictestAlignIs
<1>8. IRLayoutOf(y, parts) = [size |-> roundup(y.offsets[n] + parts[n].size, y.align),
                              align |-> y.align, offsets |-> y.offsets]
  <2>1. y.kind \in {"struct", "union"}
    OBVIOUS
  <2> HIDE DEF y, n
  <2> QED BY <1>2, <1>3, <1>6, <1>7, <2>1, RecordUnfolds
<1>9. parts[n].size = types[y.members[n]].size
  BY <1>2, <1>4
<1>10. IRLayout[t].size = y.size /\ IRLayout[t].align = y.align /\ IRLayout[t].offsets = y.offsets
  BY <1>1, <1>2, <1>8, <1>9
<1> QED BY <1>10 DEF Agrees

LEMMA UnionAgrees ==
  ASSUME IInv, CInv, NEW t \in 1..Len(types), types[t].kind = "union", PartsAgree(t),
         types[types[t].members[types[t].maxElementIdx]].align = types[t].align
  PROVE  Agrees(t)
<1> DEFINE y == types[t]
           m == y.members[y.maxElementIdx]
           parts == Parts(t, IRLayout)
<1>1. IRLayout[t] = IRLayoutOf(y, parts)
  BY IRLayoutUnfolds
<1>2. /\ y.maxElementIdx \in 1..Len(y.members) /\ y.align \in Aligns
      /\ y.size = roundup(types[m].size, y.align) /\ types[m].align = y.align
  BY PartFacts DEF Composed, Types
<1>3. /\ types[m].size \in Nat
      /\ IRLayout[m].size = types[m].size /\ IRLayout[m].align = types[m].align
  BY <1>2, PartFacts
<1>4. DOMAIN parts = 1..1 /\ parts[1] = IRLayout[m]
  BY DEF Parts, VisitRecordType
<1> HIDE DEF parts
<1>5. ElementOffsets(parts) = <<0>>
  <2> DEFINE os == [i \in 1..1 |-> 0]
  <2>1. os = [i \in 1..1 |-> os[i]] /\ 1 \in Nat /\ os = <<0>>
    OBVIOUS
  <2>2. \A i \in 1..1 : os[i] = IF i = 1 THEN 0
                                ELSE roundup(os[i - 1] + parts[i - 1].size, parts[i].align)
    OBVIOUS
  <2> HIDE DEF os
  <2>3. GoOn(os, parts, 1)
    BY <1>4, <2>1, <2>2 DEF GoOn
  <2>4. ElementOffsets(parts) = os
    BY <2>1, <2>3, ElementOffsetsAre
  <2> QED BY <2>1, <2>4
<1>6. StrictestAlign(parts) = y.align
  <2>1. \A i \in DOMAIN parts : parts[i].align = y.align
    BY <1>2, <1>3, <1>4
  <2>2. \E i \in DOMAIN parts : parts[i].align = y.align
    BY <1>4, <2>1
  <2>3. y.align <= y.align
    BY <1>2 DEF Aligns
  <2> HIDE DEF y
  <2> QED BY <1>2, <2>1, <2>2, <2>3, StrictestAlignIs
<1>7. IRLayoutOf(y, parts) = [size |-> roundup(<<0>>[1] + parts[1].size, y.align),
                              align |-> y.align, offsets |-> <<0>>]
  <2> DEFINE n == Len(parts)
  <2>1. n = 1
    BY <1>4, LengthIs
  <2>2. n \in Nat \ {0} /\ DOMAIN parts = 1..n /\ y.kind \in {"struct", "union"}
    BY <1>4, <2>1
  <2> HIDE DEF y, n
  <2>3. IRLayoutOf(y, parts) =
          [size |-> roundup(ElementOffsets(parts)[n] + parts[n].size, StrictestAlign(parts)),
           align |-> StrictestAlign(parts), offsets |-> ElementOffsets(parts)]
    BY <2>2, RecordUnfolds
  <2> QED BY <1>5, <1>6, <2>1, <2>3
<1>8. <<0>>[1] + parts[1].size = types[m].size
  <2> HIDE DEF m
  <2> QED BY <1>3, <1>4
<1>9. IRLayout[t].size = y.size /\ IRLayout[t].align = y.align
  BY <1>1, <1>2, <1>7, <1>8
<1> QED BY <1>9 DEF Agrees

\* sizeof and the offsets of type.cc are those of the LLVM type that VisitRecordType
\* (codegen.cc) makes of a record, for every nesting of arrays and structs, and of unions
\* that have their alignment from their largest member.
THEOREM FrontEndAgreesWithLLVM == LeastMembers # 0 => (Spec => []LayoutsAgree)
<1>1. IInv /\ CInv => LayoutsAgree
  <2> SUFFICES ASSUME IInv, CInv, NEW t \in DOMAIN types,
                      \A i \in DOMAIN types[t].members : Agrees(types[t].members[i]),
                      types[t].kind = "union" =>
                        types[types[t].members[types[t].maxElementIdx]].align = types[t].align
               PROVE  Agrees(t)
    BY DEF LayoutsAgree
  <2>1. t \in 1..Len(types) /\ types[t] \in Types
    BY DEF IInv, TypeOK
  <2>2. PartsAgree(t)
    BY <2>1 DEF PartsAgree, Types
  <2>3. types[t].kind \in {"basic", "array", "struct", "union"}
    BY <2>1 DEF Types, Kinds
  <2> QED BY <2>1, <2>2, <2>3, BasicAgrees, ArrayAgrees, StructAgrees, UnionAgrees
<1> QED BY <1>1, ComposedAlways, PTL

\* A set of types with all their parts, in which every union has its alignment from its
\* largest member.
Plain(S) ==
  \A t \in S :
    /\ \A i \in 1..Len(types[t].members) : types[t].members[i] \in S
    /\ types[t].kind = "union" => types[types[t].members[types[t].maxElementIdx]].align = types[t].align

\* By induction on the nesting: all types of such a set have one layout, so that sizeof and
\* the addresses of the generator's code agree about a type together with all it is made of.
THEOREM PlainTypesAgree ==
  LeastMembers # 0 =>
    (Spec => [](\A S \in SUBSET (1..Len(types)) : Plain(S) => \A t \in S : Agrees(t)))
<1>1. ASSUME IInv, CInv, NEW S \in SUBSET (1..Len(types)), Plain(S)
      PROVE  \A t \in S : Agrees(t)
  <2> DEFINE T == {t \in S : ~Agrees(t)}
  <2> SUFFICES ASSUME T # {} PROVE FALSE
    OBVIOUS
  <2>1. PICK x \in T : \A y \in T : x <= y
    <3>1. Len(types) \in Nat
      BY <1>1 DEF IInv, TypeOK
    <3>2. T \subseteq S
      OBVIOUS
    <3>3. S \subseteq Nat
      BY <1>1, <3>1
    <3> HIDE DEF T
    <3>4. T \in SUBSET Nat
      BY <3>2, <3>3
    <3> QED BY <3>4, Least
  <2>2. x \in S /\ x \in 1..Len(types) /\ ~Agrees(x)
    OBVIOUS
  <2>3. types[x] \in Types /\ Composed(types, types[x], x)
    BY <1>1, <2>2 DEF IInv, TypeOK, CInv
  <2>4. \A i \in 1..Len(types[x].members) :
          types[x].members[i] \in S /\ ~(x <= types[x].members[i])
    <3>1. \A j \in 1..x - 1 : ~(x <= j)
      BY <2>2
    <3> QED BY <1>1, <2>2, <2>3, <3>1 DEF Plain, Composed
  <2>5. PartsAgree(x)
    BY <2>1, <2>4 DEF PartsAgree
  <2>6. types[x].kind \in {"basic", "array", "struct", "union"}
    BY <2>3 DEF Types, Kinds
  <2>7. types[x].kind = "union" =>
          types[types[x].members[types[x].maxElementIdx]].align = types[x].align
    BY <1>1, <2>2 DEF Plain
  <2> QED BY <1>1, <2>2, <2>5, <2>6, <2>7, BasicAgrees, ArrayAgrees, StructAgrees, UnionAgrees
<1> DEFINE P == \A S \in SUBSET (1..Len(types)) : Plain(S) => \A t \in S : Agrees(t)
<1>2. IInv /\ CInv => P
  BY <1>1
<1> HIDE DEF P
<1>3. LeastMembers # 0 => (Spec => []P)
  BY <1>2, ComposedAlways, PTL
<1> QED BY <1>3 DEF P
=============================================================================
