------------------------- MODULE InitializersProofs -------------------------
(***************************************************************************)
(* The values of an initializer are listed in the order of their places,   *)
(* each place once, and each with the type of the element at its place,    *)
(* for all types, texts and strings.                                       *)
(***************************************************************************)
EXTENDS Initializers, SequenceTheorems, WellFoundedInduction, TLAPS

Types == Declared \cup ElementTypes
Frames == [type : Types, i : Nat]
Exprs == [op : {"number", "string"}, value : Int \cup {Chars}]
InitValues == [type : Types \cup {CharType}, value : Exprs, offsets : Seq(Nat)]

\* The indices of the lists s that are being read, behind the one for the variable.
Places(s) == <<0>> \o [k \in DOMAIN s |-> s[k].i]

\* Every index that is pushed to offsetList is popped with the list it is an index of.
TypeOK ==
  /\ stack \in Seq(Frames)
  /\ text \in Seq(Tokens) /\ token \in Tokens
  /\ at \in {"call", "list", "next", "close"}
  /\ initValues \in Seq(InitValues)
  /\ offsetList = Places(stack)

\* An initializer is read for something that there is.
Called ==
  at \in {"call", "list"} =>
    IF stack = <<>> THEN declared \in Declared ELSE HasElement(Frame.type, Frame.i)

\* v is u or a place inside it.
Inside(u, v) == DOMAIN u \subseteq DOMAIN v /\ \A j \in DOMAIN u : u[j] = v[j]

\* The values that are listed come before the place that is being read, or are inside it.
Passed(v) == Before(v.offsets, offsetList) \/ (at \in {"next", "close"} /\ Inside(offsetList, v.offsets))
AllPassed == \A k \in DOMAIN initValues : Passed(initValues[k])

IInv == TypeOK /\ Called /\ AllPassed /\ PlacesInOrder

-----------------------------------------------------------------------------
(***************************************************************************)
(* Places.                                                                 *)
(***************************************************************************)
LEMMA BeforeInside ==
  ASSUME NEW u \in Seq(Nat), NEW v \in Seq(Nat), NEW w \in Seq(Nat), Before(u, v), Inside(v, w)
  PROVE  Before(u, w)
<1>1. PICK k \in DOMAIN u \cap DOMAIN v : u[k] < v[k] /\ \A j \in 1..(k - 1) : u[j] = v[j]
  BY DEF Before
<1>2. k \in DOMAIN w /\ w[k] = v[k]
  BY <1>1 DEF Inside
<1>3. \A j \in 1..(k - 1) : j \in DOMAIN v
  BY <1>1
<1>4. \A j \in 1..(k - 1) : u[j] = w[j]
  BY <1>1, <1>3 DEF Inside
<1> QED BY <1>1, <1>2, <1>4 DEF Before

LEMMA InsideAppend ==
  ASSUME NEW v \in Seq(Nat), NEW i \in Nat
  PROVE  Inside(v, v) /\ Inside(v, Append(v, i)) /\ Append(v, i) \in Seq(Nat)
  BY DEF Inside

LEMMA BeforeSibling ==
  ASSUME NEW v \in Seq(Nat), NEW i \in Nat, NEW j \in Nat, i < j
  PROVE  Before(Append(v, i), Append(v, j))
<1>1. Len(v) + 1 \in DOMAIN Append(v, i) \cap DOMAIN Append(v, j)
  OBVIOUS
<1>2. \A k \in 1..Len(v) : Append(v, i)[k] = Append(v, j)[k]
  OBVIOUS
<1>3. Append(v, i)[Len(v) + 1] = i /\ Append(v, j)[Len(v) + 1] = j
  OBVIOUS
<1> QED BY <1>1, <1>2, <1>3 DEF Before

\* What was before the element i of v, or inside it, is before the next one ...
LEMMA BeforeNext ==
  ASSUME NEW v \in Seq(Nat), NEW i \in Nat, NEW u \in Seq(Nat),
         Before(u, Append(v, i)) \/ Inside(Append(v, i), u)
  PROVE  Before(u, Append(v, i + 1))
<1>1. \A k \in 1..Len(v) : Append(v, i)[k] = v[k] /\ Append(v, i + 1)[k] = v[k]
  OBVIOUS
<1>2. Append(v, i)[Len(v) + 1] = i /\ Append(v, i + 1)[Len(v) + 1] = i + 1
  OBVIOUS
<1>3. DOMAIN Append(v, i) = 1..(Len(v) + 1) /\ DOMAIN Append(v, i + 1) = 1..(Len(v) + 1)
  OBVIOUS
<1>4. CASE Before(u, Append(v, i))
  <2>1. PICK k \in DOMAIN u \cap DOMAIN Append(v, i) :
               u[k] < Append(v, i)[k] /\ \A j \in 1..(k - 1) : u[j] = Append(v, i)[j]
    BY <1>4 DEF Before
  <2>2. u[k] < Append(v, i + 1)[k]
    BY <2>1, <1>1, <1>2, <1>3
  <2>3. \A j \in 1..(k - 1) : u[j] = Append(v, i + 1)[j]
    BY <2>1, <1>1, <1>3
  <2> QED BY <2>1, <2>2, <2>3, <1>3 DEF Before
<1>5. CASE Inside(Append(v, i), u)
  <2>1. Len(v) + 1 \in DOMAIN u \cap DOMAIN Append(v, i + 1)
    BY <1>5, <1>3 DEF Inside
  <2>2. u[Len(v) + 1] < Append(v, i + 1)[Len(v) + 1]
    BY <1>5, <1>2, <1>3 DEF Inside
  <2>3. \A j \in 1..(Len(v) + 1 - 1) : u[j] = Append(v, i + 1)[j]
    <3>1. Len(v) + 1 - 1 = Len(v)
      OBVIOUS
    <3>2. \A j \in 1..Len(v) : u[j] = Append(v, i)[j]
      <4>1. \A j \in 1..Len(v) : j \in DOMAIN Append(v, i)
        BY <1>3
      <4> QED BY <4>1, <1>5 DEF Inside
    <3> QED BY <3>1, <3>2, <1>1
  <2> DEFINE w == Append(v, i + 1)
             n == Len(v) + 1
  <2>4. n \in DOMAIN u \cap DOMAIN w /\ u[n] < w[n] /\ \A j \in 1..(n - 1) : u[j] = w[j]
    BY <2>1, <2>2, <2>3
  <2> HIDE DEF n, w
  <2>5. Before(u, w)
    BY <2>4 DEF Before
  <2> QED BY <2>5 DEF w
<1> QED BY <1>4, <1>5

\* ... and before v or inside it.
LEMMA BeforeOuter ==
  ASSUME NEW v \in Seq(Nat), NEW i \in Nat, NEW u \in Seq(Nat),
         Before(u, Append(v, i)) \/ Inside(Append(v, i), u)
  PROVE  Before(u, v) \/ Inside(v, u)
<1>1. \A k \in 1..Len(v) : Append(v, i)[k] = v[k]
  OBVIOUS
<1>2. DOMAIN Append(v, i) = 1..(Len(v) + 1) /\ DOMAIN v = 1..Len(v)
  OBVIOUS
<1>3. CASE Before(u, Append(v, i))
  <2>1. PICK k \in DOMAIN u \cap DOMAIN Append(v, i) :
               u[k] < Append(v, i)[k] /\ \A j \in 1..(k - 1) : u[j] = Append(v, i)[j]
    BY <1>3 DEF Before
  <2>2. CASE k \in DOMAIN v
    BY <2>1, <2>2, <1>1, <1>2 DEF Before
  <2>3. CASE k = Len(v) + 1
    <3>1. \A j \in 1..Len(v) : u[j] = v[j]
      BY <2>1, <2>3, <1>1
    <3>2. DOMAIN v \subseteq DOMAIN u
      BY <2>1, <2>3, <1>2
    <3> QED BY <3>1, <3>2, <1>2 DEF Inside
  <2> QED BY <2>1, <2>2, <2>3, <1>2
<1>4. CASE Inside(Append(v, i), u)
  BY <1>4, <1>1, <1>2 DEF Inside
<1> QED BY <1>3, <1>4
-----------------------------------------------------------------------------
(***************************************************************************)
(* The place that is being read.                                           *)
(***************************************************************************)
LEMMA PlacesAt ==
  ASSUME NEW s \in Seq(Frames)
  PROVE  /\ Places(s) \in Seq(Nat) /\ Len(Places(s)) = Len(s) + 1
         /\ Places(s)[1] = 0
         /\ \A k \in 1..Len(s) : Places(s)[k + 1] = s[k].i
<1> DEFINE is == [k \in DOMAIN s |-> s[k].i]
<1>1. DOMAIN s = 1..Len(s) /\ Len(s) \in Nat
  BY LenProperties
<1>2. \A k \in 1..Len(s) : s[k].i \in Nat
  <2>1. \A k \in 1..Len(s) : s[k] \in Frames
    BY ElementOfSeq
  <2> QED BY <2>1 DEF Frames
<1>3. is \in [1..Len(s) -> Nat]
  BY <1>1, <1>2
<1>4. is \in Seq(Nat) /\ Len(is) = Len(s)
  BY <1>1, <1>3
<1>5. \A k \in 1..Len(s) : is[k] = s[k].i
  BY <1>1
<1> HIDE DEF is
<1>6. <<0>> \in Seq(Nat) /\ Len(<<0>>) = 1 /\ <<0>>[1] = 0
  OBVIOUS
<1>7. /\ <<0>> \o is \in Seq(Nat)
      /\ Len(<<0>> \o is) = Len(<<0>>) + Len(is)
      /\ \A i \in 1..(Len(<<0>>) + Len(is)) :
           (<<0>> \o is)[i] = IF i <= Len(<<0>>) THEN <<0>>[i] ELSE is[i - Len(<<0>>)]
  BY <1>4, <1>6, ConcatProperties
<1>8. Places(s) = <<0>> \o is
  BY DEF Places, is
<1>9. Len(Places(s)) = Len(s) + 1 /\ Places(s)[1] = 0
  BY <1>1, <1>4, <1>6, <1>7, <1>8
<1>10. ASSUME NEW k \in 1..Len(s) PROVE Places(s)[k + 1] = s[k].i
  <2>1. k + 1 \in 1..(1 + Len(s)) /\ ~(k + 1 <= 1) /\ k + 1 - 1 = k
    BY <1>1
  <2> QED BY <2>1, <1>4, <1>5, <1>6, <1>7, <1>8
<1> QED BY <1>7, <1>8, <1>9, <1>10

LEMMA FrontOfPlaces ==
  ASSUME NEW p \in Seq(Nat), NEW i \in Nat
  PROVE  Front(Append(p, i)) = p
<1> DEFINE q == Append(p, i)
<1>1. /\ q \in Seq(Nat) /\ Len(q) = Len(p) + 1 /\ Len(p) \in Nat
      /\ \A k \in 1..Len(p) : q[k] = p[k]
  BY AppendProperties, LenProperties
<1> HIDE DEF q
<1>2. Len(q) - 1 = Len(p)
  BY <1>1
<1>3. /\ SubSeq(q, 1, Len(p)) \in Seq(Nat) /\ Len(SubSeq(q, 1, Len(p))) = Len(p)
      /\ \A k \in 1..Len(p) : SubSeq(q, 1, Len(p))[k] = p[k]
  BY <1>1
<1>4. SubSeq(q, 1, Len(p)) = p
  BY <1>3, SeqEqual
<1> QED BY <1>2, <1>4 DEF Front, q

\* A list within the list ...
LEMMA PlacesDeeper ==
  ASSUME NEW s \in Seq(Frames), NEW f \in Frames
  PROVE  Places(Append(s, f)) = Append(Places(s), f.i)
<1> DEFINE t == Append(s, f)
           p == Append(Places(s), f.i)
<1>1. /\ t \in Seq(Frames) /\ Len(t) = Len(s) + 1
      /\ \A k \in 1..Len(s) : t[k] = s[k]
      /\ t[Len(s) + 1] = f
  BY AppendProperties
<1>2. Places(s) \in Seq(Nat) /\ f.i \in Nat /\ Len(s) \in Nat
  BY PlacesAt, LenProperties DEF Frames
<1>3. /\ p \in Seq(Nat) /\ Len(p) = Len(Places(s)) + 1
      /\ \A k \in 1..Len(Places(s)) : p[k] = Places(s)[k]
      /\ p[Len(Places(s)) + 1] = f.i
  BY <1>2, AppendProperties
<1> HIDE DEF t, p
<1>4. /\ Places(s)[1] = 0 /\ Len(Places(s)) = Len(s) + 1
      /\ \A k \in 1..Len(s) : Places(s)[k + 1] = s[k].i
  BY PlacesAt
<1>5. /\ Places(t)[1] = 0 /\ Places(t) \in Seq(Nat) /\ Len(Places(t)) = Len(t) + 1
      /\ \A k \in 1..Len(t) : Places(t)[k + 1] = t[k].i
  BY <1>1, PlacesAt
<1>6. ASSUME NEW k \in 1..Len(Places(t)) PROVE Places(t)[k] = p[k]
  <2>1. CASE k = 1
    BY <2>1, <1>2, <1>3, <1>4, <1>5
  <2>2. CASE k # 1 /\ k # Len(s) + 2
    <3>1. PICK j \in 1..Len(s) : k = j + 1
      <4>1. k - 1 \in 1..Len(s) /\ k = (k - 1) + 1
        BY <2>2, <1>1, <1>2, <1>5
      <4> QED BY <4>1
    <3>2. Places(t)[k] = s[j].i
      BY <3>1, <1>1, <1>2, <1>5
    <3>3. p[k] = s[j].i
      BY <3>1, <1>2, <1>3, <1>4
    <3> QED BY <3>2, <3>3
  <2>3. CASE k = Len(s) + 2
    <3>1. Len(s) + 1 \in 1..Len(t) /\ Len(s) + 1 + 1 = Len(s) + 2
      BY <1>1, <1>2
    <3>2. Places(t)[k] = f.i
      BY <2>3, <3>1, <1>1, <1>5
    <3>3. p[k] = f.i
      BY <2>3, <3>1, <1>3, <1>4
    <3> QED BY <3>2, <3>3
  <2> QED BY <2>1, <2>2, <2>3
<1>7. Len(Places(t)) = Len(p)
  BY <1>1, <1>3, <1>4, <1>5
<1>8. Places(t) = p
  BY <1>3, <1>5, <1>6, <1>7, SeqEqual
<1> QED BY <1>8 DEF t, p

LEMMA FrontOfStack ==
  ASSUME NEW s \in Seq(Frames), s # <<>>
  PROVE  /\ Len(s) \in Nat \ {0}
         /\ Front(s) \in Seq(Frames) /\ Len(Front(s)) = Len(s) - 1
         /\ \A k \in 1..(Len(s) - 1) : Front(s)[k] = s[k]
<1>1. Len(s) \in Nat \ {0} /\ 1 \in Int /\ Len(s) - 1 \in Int
  BY EmptySeq
<1>2. \A k \in 1..Len(s) : s[k] \in Frames
  BY ElementOfSeq
<1>3. \A k \in 1..(Len(s) - 1) : s[k] \in Frames
  BY <1>1, <1>2
<1>4. /\ SubSeq(s, 1, Len(s) - 1) \in Seq(Frames)
      /\ Len(SubSeq(s, 1, Len(s) - 1)) = IF 1 <= Len(s) - 1 THEN Len(s) - 1 - 1 + 1 ELSE 0
      /\ \A k \in 1..(Len(s) - 1 - 1 + 1) : SubSeq(s, 1, Len(s) - 1)[k] = s[1 + k - 1]
  BY <1>1, <1>3, SubSeqProperties
<1>5. \A n \in Nat \ {0} : n - 1 - 1 + 1 = n - 1 /\ (1 <= n - 1 \/ n - 1 = 0)
  OBVIOUS
<1>6. \A k \in 1..(Len(s) - 1) : 1 + k - 1 = k
  OBVIOUS
<1> QED BY <1>1, <1>4, <1>5, <1>6 DEF Front

\* ... its end, and its next element.
LEMMA EndOfStack ==
  ASSUME NEW s \in Seq(Frames), s # <<>>
  PROVE  /\ Front(s) \in Seq(Frames) /\ Last(s) \in Frames
         /\ s = Append(Front(s), Last(s))
<1>1. Len(s) \in Nat \ {0}
  BY EmptySeq
<1>2. \A k \in 1..Len(s) : s[k] \in Frames
  BY ElementOfSeq
<1>4. Front(s) \in Seq(Frames)
  BY FrontOfStack
<1>5. Len(Front(s)) = Len(s) - 1 /\ \A k \in 1..(Len(s) - 1) : Front(s)[k] = s[k]
  BY FrontOfStack
<1>6. Last(s) \in Frames /\ Last(s) = s[Len(s)]
  BY <1>1, <1>2 DEF Last
<1> DEFINE t == Append(Front(s), Last(s))
<1>7. /\ t \in Seq(Frames) /\ Len(t) = Len(Front(s)) + 1
      /\ \A k \in 1..Len(Front(s)) : t[k] = Front(s)[k]
      /\ t[Len(Front(s)) + 1] = Last(s)
  BY <1>4, <1>6, AppendProperties
<1> HIDE DEF t
<1>8. Len(s) = Len(t) /\ \A k \in 1..Len(s) : s[k] = t[k]
  BY <1>1, <1>5, <1>6, <1>7
<1>9. s = t
  BY <1>7, <1>8, SeqEqual
<1> QED BY <1>4, <1>6, <1>9 DEF t

LEMMA NextOfStack ==
  ASSUME NEW s \in Seq(Frames), s # <<>>, NEW t, t = [s EXCEPT ![Len(s)].i = @ + 1]
  PROVE  LET f == [type |-> Last(s).type, i |-> Last(s).i + 1]
         IN  f \in Frames /\ t = Append(Front(s), f) /\ t \in Seq(Frames) /\ t # <<>> /\ Last(t) = f
<1> DEFINE f == [type |-> Last(s).type, i |-> Last(s).i + 1]
<1>1. Len(s) \in Nat \ {0} /\ Last(s) = s[Len(s)] /\ Last(s) \in Frames /\ Front(s) \in Seq(Frames)
  BY EmptySeq, EndOfStack DEF Last
<1>2. f \in Frames /\ f = [s[Len(s)] EXCEPT !.i = @ + 1]
  BY <1>1 DEF Frames
<1>3. t = [s EXCEPT ![Len(s)] = f]
  BY <1>2
<1> HIDE DEF f
<1>4. Len(s) \in 1..Len(s)
  BY <1>1
<1>5. /\ t \in Seq(Frames) /\ Len(t) = Len(s)
      /\ \A k \in 1..Len(s) : t[k] = IF k = Len(s) THEN f ELSE s[k]
  BY <1>2, <1>3, <1>4, ExceptSeq
<1>6. t # <<>> /\ Last(t) = f
  BY <1>1, <1>4, <1>5, EmptySeq DEF Last
<1>7. Front(t) = Front(s)
  <2>1. \A k \in 1..(Len(s) - 1) : t[k] = s[k]
    BY <1>1, <1>5
  <2>2. /\ Front(t) \in Seq(Frames) /\ Len(Front(t)) = Len(s) - 1
        /\ \A k \in 1..(Len(s) - 1) : Front(t)[k] = t[k]
    BY <1>5, <1>6, FrontOfStack
  <2>3. /\ Front(s) \in Seq(Frames) /\ Len(Front(s)) = Len(s) - 1
        /\ \A k \in 1..(Len(s) - 1) : Front(s)[k] = s[k]
    BY FrontOfStack
  <2>4. \A k \in 1..Len(Front(t)) : Front(t)[k] = Front(s)[k]
    BY <2>1, <2>2, <2>3
  <2> QED BY <2>2, <2>3, <2>4, SeqEqual
<1>8. t = Append(Front(s), f)
  BY <1>5, <1>6, <1>7, EndOfStack
<1> QED BY <1>2, <1>5, <1>6, <1>8 DEF f

-----------------------------------------------------------------------------
(***************************************************************************)
(* What is called, and with which type.                                    *)
(***************************************************************************)
LEMMA ElementInTypes ==
  ASSUME NEW T \in Types, NEW i \in Nat, HasElement(T, i)
  PROVE  ElementType(T, i) \in Types
<1> USE TypesAssumption DEF Types
<1>1. CASE T.kind = "array"
  BY <1>1 DEF ElementType
<1>2. CASE T.kind = "record"
  <2>1. T.members \in Seq([type : ElementTypes, offset : Nat])
    BY <1>2
  <2>2. i < Elements(T)
    BY <1>2 DEF HasElement
  <2>3. T.members # <<>> => Len(T.members) \in Nat \ {0}
    BY <2>1, EmptySeq
  <2>4. i + 1 \in 1..Len(T.members)
    BY <1>2, <2>1, <2>2, <2>3, LenProperties DEF Elements
  <2>5. T.members[i + 1] \in [type : ElementTypes, offset : Nat]
    BY <2>1, <2>4, ElementOfSeq
  <2> QED BY <1>2, <2>5 DEF ElementType
<1>3. CASE T.kind \notin {"array", "record"}
  BY <1>3 DEF HasElement, Elements
<1> QED BY <1>1, <1>2, <1>3

LEMMA CalledForType ==
  ASSUME TypeOK, Called, at \in {"call", "list"}
  PROVE  declType \in Types
<1>1. CASE stack = <<>>
  BY <1>1 DEF Called, declType, Types
<1>2. CASE stack # <<>>
  <2>1. Frame \in Frames
    BY <1>2, EndOfStack DEF TypeOK, Frame
  <2>2. HasElement(Frame.type, Frame.i)
    BY <1>2 DEF Called
  <2> QED BY <1>2, <2>1, <2>2, ElementInTypes DEF declType, Frames
<1> QED BY <1>1, <1>2

LEMMA OffsetsType ==
  ASSUME TypeOK
  PROVE  offsetList \in Seq(Nat)
  BY PlacesAt DEF TypeOK

LEMMA ValueTypes ==
  ASSUME TypeOK, NEW k \in DOMAIN initValues
  PROVE  initValues[k] \in InitValues /\ initValues[k].offsets \in Seq(Nat)
<1>1. initValues[k] \in InitValues
  BY LenProperties, ElementOfSeq DEF TypeOK
<1> QED BY <1>1 DEF InitValues

LEMMA TokensTyped ==
  ASSUME TypeOK, Advance \/ Stay
  PROVE  text' \in Seq(Tokens) /\ token' \in Tokens
<1>1. CASE Advance
  <2>1. text' \in Seq(Tokens)
    BY <1>1, AppendProperties DEF TypeOK, Advance
  <2>2. token' \in Tokens
    BY <1>1 DEF Advance, Tokens
  <2> QED BY <2>1, <2>2
<1>2. CASE Stay
  BY <1>2 DEF TypeOK, Stay
<1> QED BY <1>1, <1>2
-----------------------------------------------------------------------------
(***************************************************************************)
(* The steps: lists are left, values are listed.                           *)
(***************************************************************************)
LEMMA LeavesLoop ==
  ASSUME IInv, stack # <<>>, NEW i, LeaveLoop(i), Advance \/ Stay, UNCHANGED initValues
  PROVE  IInv'
<1>1. /\ Front(stack) \in Seq(Frames) /\ Frame \in Frames
      /\ stack = Append(Front(stack), Frame)
  BY EndOfStack DEF IInv, TypeOK, Frame
<1>2. stack' = Front(stack) /\ offsetList' = Front(offsetList) /\ at' = "close"
  BY DEF LeaveLoop
<1>3. Called'
  BY <1>2 DEF Called
<1>4. Frame.i \in Nat
  BY <1>1 DEF Frames
<1>5. Places(Front(stack)) \in Seq(Nat) /\ offsetList = Append(Places(Front(stack)), Frame.i)
  <2>1. offsetList = Places(stack)
    BY DEF IInv, TypeOK
  <2>2. Places(Append(Front(stack), Frame)) = Append(Places(Front(stack)), Frame.i)
    BY <1>1, PlacesDeeper
  <2> QED BY <1>1, <2>1, <2>2, PlacesAt
<1>6. offsetList' = Places(Front(stack))
  BY <1>2, <1>4, <1>5, FrontOfPlaces
<1>7. TypeOK'
  BY <1>1, <1>2, <1>6, TokensTyped DEF IInv, TypeOK
<1>8. ASSUME NEW k \in DOMAIN initValues'
      PROVE  Passed(initValues[k])'
  <2>1. k \in DOMAIN initValues /\ initValues'[k] = initValues[k]
    OBVIOUS
  <2>2. initValues[k].offsets \in Seq(Nat)
    BY <2>1, ValueTypes DEF IInv
  <2>3. Before(initValues[k].offsets, offsetList) \/ Inside(offsetList, initValues[k].offsets)
    BY <2>1 DEF IInv, AllPassed, Passed
  <2>4. Before(initValues[k].offsets, offsetList') \/ Inside(offsetList', initValues[k].offsets)
    BY <1>4, <1>5, <1>6, <2>2, <2>3, BeforeOuter
  <2> QED BY <1>2, <2>1, <2>4 DEF Passed
<1>9. PlacesInOrder'
  BY DEF IInv, PlacesInOrder
<1> QED BY <1>7, <1>3, <1>8, <1>9 DEF IInv, AllPassed

\* The values ws are inside the place that is being read, and in order.
LEMMA ListsValues ==
  ASSUME IInv, at \in {"call", "list"}, at' \in {"next", "close"}, Advance, UNCHANGED lists,
         NEW ws \in Seq(InitValues), initValues' = initValues \o ws,
         \A k \in 1..Len(ws) : Inside(offsetList, ws[k].offsets),
         \A k, l \in 1..Len(ws) : k < l => Before(ws[k].offsets, ws[l].offsets)
  PROVE  IInv'
<1> DEFINE m == Len(initValues)
<1>1. /\ initValues \in Seq(InitValues) /\ m \in Nat /\ DOMAIN initValues = 1..m
      /\ Len(ws) \in Nat
  BY LenProperties DEF IInv, TypeOK
<1>2. /\ initValues' \in Seq(InitValues) /\ Len(initValues') = m + Len(ws)
      /\ \A k \in 1..(m + Len(ws)) : initValues'[k] = IF k <= m THEN initValues[k] ELSE ws[k - m]
  BY <1>1, ConcatProperties
<1>3. DOMAIN initValues' = 1..(m + Len(ws))
  BY <1>2, LenProperties
<1> HIDE DEF m
<1>4. TypeOK'
  BY <1>2, TokensTyped DEF IInv, TypeOK, lists
<1>5. Called'
  BY DEF Called
<1>6. offsetList' = offsetList /\ offsetList \in Seq(Nat)
  BY OffsetsType DEF lists, IInv
<1>7. ASSUME NEW k \in 1..m
      PROVE  /\ initValues'[k] = initValues[k] /\ initValues[k].offsets \in Seq(Nat)
             /\ Before(initValues[k].offsets, offsetList)
  <2>1. k \in 1..(m + Len(ws)) /\ k <= m
    BY <1>1
  <2>2. initValues[k].offsets \in Seq(Nat)
    BY <1>1, ValueTypes DEF IInv
  <2>3. Before(initValues[k].offsets, offsetList)
    BY <1>1 DEF IInv, AllPassed, Passed
  <2> QED BY <1>2, <2>1, <2>2, <2>3
<1>8. ASSUME NEW k \in 1..(m + Len(ws)), ~(k <= m)
      PROVE  k - m \in 1..Len(ws) /\ initValues'[k] = ws[k - m]
             /\ ws[k - m].offsets \in Seq(Nat) /\ Inside(offsetList, ws[k - m].offsets)
  <2>1. k - m \in 1..Len(ws)
    BY <1>1, <1>8
  <2>2. ws[k - m] \in InitValues
    BY <2>1, ElementOfSeq
  <2> QED BY <1>2, <1>8, <2>1, <2>2 DEF InitValues
<1>9. AllPassed'
  <2>1. ASSUME NEW k \in 1..(m + Len(ws))
        PROVE  Passed(initValues[k])'
    <3>1. CASE k <= m
      BY <3>1, <1>1, <1>6, <1>7 DEF Passed
    <3>2. CASE ~(k <= m)
      BY <3>2, <1>6, <1>8 DEF Passed
    <3> QED BY <3>1, <3>2
  <2> QED BY <1>3, <2>1 DEF AllPassed
<1>10. ASSUME NEW k \in 1..(m + Len(ws)), NEW l \in 1..(m + Len(ws)), k < l
       PROVE  Before(initValues'[k].offsets, initValues'[l].offsets)
  <2>1. CASE l <= m
    <3>1. k \in 1..m /\ l \in 1..m
      BY <1>1, <1>10, <2>1
    <3>2. Before(initValues[k].offsets, initValues[l].offsets)
      BY <1>1, <1>10, <3>1 DEF IInv, PlacesInOrder
    <3> QED BY <1>7, <3>1, <3>2
  <2>2. CASE k <= m /\ ~(l <= m)
    <3>1. k \in 1..m
      BY <1>1, <2>2
    <3>2. Before(initValues[k].offsets, ws[l - m].offsets)
      BY <1>6, <1>7, <1>8, <2>2, <3>1, BeforeInside
    <3> QED BY <1>7, <1>8, <2>2, <3>1, <3>2
  <2>3. CASE ~(k <= m) /\ ~(l <= m)
    <3>1. k - m < l - m
      BY <1>1, <1>10
    <3> QED BY <1>8, <2>3, <3>1
  <2> QED BY <1>1, <1>10, <2>1, <2>2, <2>3
<1>11. PlacesInOrder'
  BY <1>3, <1>10 DEF PlacesInOrder
<1> QED BY <1>4, <1>5, <1>9, <1>11 DEF IInv

LEMMA Stays ==
  ASSUME IInv, UNCHANGED <<parsed, token, text, at>>
  PROVE  IInv'
<1>1. UNCHANGED <<declared, stack, offsetList, initValues, token, text, at>>
  BY DEF parsed, lists
<1>2. TypeOK'
  BY <1>1 DEF IInv, TypeOK
<1>3. Called'
  BY <1>1 DEF IInv, Called, Frame
<1>4. AllPassed'
  BY <1>1 DEF IInv, AllPassed, Passed
<1>5. PlacesInOrder'
  BY <1>1 DEF IInv, PlacesInOrder
<1> QED BY <1>2, <1>3, <1>4, <1>5 DEF IInv

LEMMA ListsString ==
  ASSUME IInv, at \in {"call", "list"}, IsStringArrayType(declType),
         NEW next \in {"next", "close"}, ParseStringInitializer(next)
  PROVE  IInv'
<1> DEFINE n == IF IsFlex(declType) THEN Len(Chars) + 1 ELSE declType.count
           value(i) == Number(IF i <= Len(Chars) THEN Chars[i] ELSE 0)
           ws == [i \in 1..n |-> semaDeclInitValue(CharType, value(i), Append(offsetList, i - 1))]
<1>1. n \in Int /\ Len(Chars) \in Nat
  <2>1. declType \in Types
    BY CalledForType DEF IInv
  <2> QED BY <2>1, CharsAssumption, LenProperties, TypesAssumption DEF IsStringArrayType, Types
<1>2. CASE n < Len(Chars)
  BY <1>2, Stays DEF ParseStringInitializer, Reject
<1>3. CASE ~(n < Len(Chars))
  <2>1. /\ Advance /\ at' = next /\ UNCHANGED lists
        /\ initValues' = initValues \o ws
    BY <1>3 DEF ParseStringInitializer
  <2>2. n \in Nat
    BY <1>1, <1>3
  <2>3. offsetList \in Seq(Nat)
    BY OffsetsType DEF IInv
  <2>4. ASSUME NEW i \in 1..n
        PROVE  /\ Append(offsetList, i - 1) \in Seq(Nat) /\ Inside(offsetList, Append(offsetList, i - 1))
               /\ value(i) \in Exprs
    <3>1. i - 1 \in Nat
      BY <2>2
    <3>2. IF i <= Len(Chars) THEN Chars[i] \in Int ELSE TRUE
      BY <1>1, <2>2, CharsAssumption, ElementOfSeq
    <3>3. value(i) \in Exprs
      BY <3>2 DEF Exprs, Number
    <3> QED BY <2>3, <3>1, <3>3, InsideAppend
  <2> HIDE DEF value
  <2> DEFINE w(i) == semaDeclInitValue(CharType, value(i), Append(offsetList, i - 1))
  <2>5. ASSUME NEW i \in 1..n
         PROVE  w(i) \in InitValues /\ w(i).offsets = Append(offsetList, i - 1)
    BY <2>4 DEF semaDeclInitValue, InitValues
  <2>6. ws = [i \in 1..n |-> w(i)]
    OBVIOUS
  <2> HIDE DEF w
  <2>7. \A i \in 1..n : ws[i].offsets = Append(offsetList, i - 1)
    BY <2>5, <2>6
  <2>8. ws \in [1..n -> InitValues]
    BY <2>5, <2>6
  <2> HIDE DEF n
  <2>9. ws \in Seq(InitValues) /\ Len(ws) = n
    BY <2>2, <2>8
  <2> HIDE DEF ws
  <2>10. \A k \in 1..Len(ws) : Inside(offsetList, ws[k].offsets)
    BY <2>4, <2>7, <2>9
  <2>11. ASSUME NEW k \in 1..Len(ws), NEW l \in 1..Len(ws), k < l
        PROVE  Before(ws[k].offsets, ws[l].offsets)
    <3>1. k - 1 \in Nat /\ l - 1 \in Nat /\ k - 1 < l - 1
      BY <2>2, <2>9, <2>11
    <3>2. Before(Append(offsetList, k - 1), Append(offsetList, l - 1))
      BY <2>3, <3>1, BeforeSibling
    <3> QED BY <2>7, <2>9, <3>2
  <2> QED BY <2>1, <2>9, <2>10, <2>11, ListsValues
<1> QED BY <1>2, <1>3

-----------------------------------------------------------------------------
LEMMA InitHolds == Init => IInv
<1> SUFFICES ASSUME Init PROVE IInv
  OBVIOUS
<1>1. /\ stack = <<>> /\ text = <<>> /\ initValues = <<>>
      /\ token \in Tokens /\ at \in {"call", "next"} /\ declared \in Declared
  BY DEF Init
<1>2. TypeOK
  <2>1. stack \in Seq(Frames) /\ offsetList = <<0>>
    BY <1>1, EmptySeq DEF Init
  <2>2. Places(stack) = <<0>>
    <3>1. Len(stack) = 0
      BY <1>1, EmptySeq
    <3>2. Places(stack) \in Seq(Nat) /\ Len(Places(stack)) = Len(stack) + 1 /\ Places(stack)[1] = 0
      BY <2>1, PlacesAt
    <3> QED BY <3>1, <3>2
  <2> QED BY <1>1, <2>1, <2>2, EmptySeq DEF TypeOK
<1>3. Called
  BY <1>1 DEF Called
<1>4. ~\E k : k \in DOMAIN initValues
  <2>1. initValues \in Seq(InitValues) /\ Len(initValues) = 0
    BY <1>1, EmptySeq
  <2> QED BY <2>1, LenProperties
<1>5. AllPassed /\ PlacesInOrder
  BY <1>4 DEF AllPassed, PlacesInOrder
<1> QED BY <1>2, <1>3, <1>5 DEF IInv

LEMMA EndOfListKeeps == ASSUME IInv, EndOfList PROVE IInv'
<1>1. CASE stack = <<>>
  BY <1>1, Stays DEF EndOfList, Reject
<1>2. CASE stack # <<>>
  BY <1>2, LeavesLoop DEF EndOfList
<1> QED BY <1>1, <1>2

LEMMA OpenBraceKeeps == ASSUME IInv, OpenBrace PROVE IInv'
<1>1. /\ at = "call" /\ at' = "list" /\ Advance
      /\ UNCHANGED <<declared, stack, offsetList, initValues>>
  BY DEF OpenBrace, At, parsed, lists
<1>2. TypeOK'
  BY <1>1, TokensTyped DEF IInv, TypeOK
<1>3. Called'
  BY <1>1 DEF IInv, Called, Frame
<1>4. AllPassed' /\ PlacesInOrder'
  BY <1>1 DEF IInv, AllPassed, PlacesInOrder, Passed
<1> QED BY <1>2, <1>3, <1>4 DEF IInv

LEMMA AssignExprKeeps == ASSUME IInv, AssignExpr PROVE IInv'
<1>1. CASE token \in {",", ";"}
  BY <1>1, Stays DEF AssignExpr, Reject
<1>2. CASE token \notin {",", ";"}
  <2> DEFINE v == semaDeclInitValue(declType, IF token = "number" THEN Number(Len(text) + 1) ELSE String,
                                    offsetList)
             ws == <<v>>
  <2>1. /\ at = "call" /\ at' = "next" /\ Advance /\ UNCHANGED lists
        /\ initValues' = Append(initValues, v)
    BY <1>2 DEF AssignExpr, At
  <2>2. offsetList \in Seq(Nat) /\ declType \in Types /\ Len(text) + 1 \in Int
    BY <2>1, OffsetsType, CalledForType, LenProperties DEF IInv, TypeOK
  <2>3. v \in InitValues /\ v.offsets = offsetList
    BY <2>2 DEF semaDeclInitValue, InitValues, Exprs, Number, String
  <2> HIDE DEF v
  <2>4. initValues' = initValues \o ws
    BY <2>1, <2>3, AppendIsConcat DEF IInv, TypeOK
  <2>5. ws \in Seq(InitValues) /\ Len(ws) = 1 /\ ws[1] = v
    BY <2>3
  <2> HIDE DEF ws
  <2>6. \A k \in 1..Len(ws) : Inside(offsetList, ws[k].offsets)
    BY <2>2, <2>3, <2>5 DEF Inside
  <2>7. \A k, l \in 1..Len(ws) : k < l => Before(ws[k].offsets, ws[l].offsets)
    BY <2>5
  <2> QED BY <2>1, <2>4, <2>5, <2>6, <2>7, ListsValues
<1> QED BY <1>1, <1>2

LEMMA FirstElementKeeps == ASSUME IInv, FirstElement PROVE IInv'
<1>1. /\ at = "list" /\ UNCHANGED <<declared, token, text, initValues>>
      /\ IF HasElement(declType, 0)
         THEN /\ stack' = Append(stack, [type |-> declType, i |-> 0]) /\ at' = "call"
              /\ offsetList' = Append(offsetList, 0)
         ELSE UNCHANGED <<stack, offsetList>> /\ at' = "close"
  BY DEF FirstElement, At, Stay, lists
<1>2. PlacesInOrder'
  BY <1>1 DEF IInv, PlacesInOrder
<1>3. CASE HasElement(declType, 0)
  <2> DEFINE f == [type |-> declType, i |-> 0]
  <2>1. f \in Frames
    BY <1>1, CalledForType DEF IInv, Frames
  <2>2. /\ stack' = Append(stack, f) /\ at' = "call" /\ stack \in Seq(Frames)
    BY <1>1, <1>3 DEF IInv, TypeOK
  <2>3. stack' \in Seq(Frames) /\ stack' # <<>> /\ Last(stack') = f
    BY <2>1, <2>2, AppendProperties DEF Last
  <2>4. Called'
    BY <1>3, <2>3 DEF Called, Frame, HasElement, Elements, IsFlex
  <2>5. offsetList' = Append(offsetList, 0) /\ offsetList \in Seq(Nat)
    BY <1>1, <1>3, OffsetsType DEF IInv
  <2>6. TypeOK'
    <3>1. Places(stack') = Append(Places(stack), 0)
      BY <2>1, <2>2, PlacesDeeper
    <3> QED BY <1>1, <2>2, <2>3, <2>5, <3>1 DEF IInv, TypeOK
  <2>7. ASSUME NEW k \in DOMAIN initValues'
        PROVE  Passed(initValues[k])'
    <3>1. k \in DOMAIN initValues /\ initValues'[k] = initValues[k]
      BY <1>1
    <3>2. initValues[k].offsets \in Seq(Nat) /\ Before(initValues[k].offsets, offsetList)
      BY <1>1, <3>1, ValueTypes DEF IInv, AllPassed, Passed
    <3>3. Before(initValues[k].offsets, offsetList')
      BY <2>5, <3>2, InsideAppend, BeforeInside
    <3> QED BY <3>1, <3>3 DEF Passed
  <2> QED BY <1>2, <2>6, <2>4, <2>7 DEF IInv, AllPassed
<1>4. CASE ~HasElement(declType, 0)
  <2>1. stack' = stack /\ offsetList' = offsetList /\ at' = "close"
    BY <1>1, <1>4
  <2>2. TypeOK' /\ Called'
    BY <1>1, <2>1 DEF IInv, TypeOK, Called
  <2>3. AllPassed'
    BY <1>1, <2>1 DEF IInv, AllPassed, Passed
  <2> QED BY <1>2, <2>2, <2>3 DEF IInv
<1> QED BY <1>3, <1>4

LEMMA NextElementKeeps == ASSUME IInv, NextElement PROVE IInv'
<1>1. at = "next" /\ stack # <<>> /\ stack \in Seq(Frames)
  BY DEF NextElement, At, IInv, TypeOK
<1>2. CASE ~HasElement(Frame.type, Frame.i + 1)
  BY <1>1, <1>2, LeavesLoop DEF NextElement
<1>3. CASE HasElement(Frame.type, Frame.i + 1)
  <2> DEFINE f == [type |-> Frame.type, i |-> Frame.i + 1]
  <2>1. /\ stack' = [stack EXCEPT ![Len(stack)].i = @ + 1]
        /\ offsetList' = Append(Front(offsetList), Frame.i + 1)
        /\ at' = "call"
        /\ Advance \/ Stay
        /\ UNCHANGED <<declared, initValues>>
    BY <1>3 DEF NextElement
  <2>2. /\ f \in Frames /\ stack' = Append(Front(stack), f) /\ stack' \in Seq(Frames)
        /\ stack' # <<>> /\ Last(stack') = f
    BY <1>1, <2>1, NextOfStack DEF Frame
  <2>3. Called'
    BY <1>3, <2>2 DEF Called, Frame, HasElement, Elements, IsFlex
  <2>4. /\ Front(stack) \in Seq(Frames) /\ Frame \in Frames
        /\ stack = Append(Front(stack), Frame)
    BY <1>1, EndOfStack DEF Frame
  <2> DEFINE p == Places(Front(stack))
  <2>5. /\ p \in Seq(Nat) /\ Frame.i \in Nat
        /\ Places(stack) = Append(p, Frame.i) /\ Places(stack') = Append(p, f.i)
    BY <2>2, <2>4, PlacesAt, PlacesDeeper DEF Frames
  <2>6. offsetList = Append(p, Frame.i) /\ offsetList' = Append(p, Frame.i + 1)
    <3>1. offsetList = Places(stack)
      BY DEF IInv, TypeOK
    <3> QED BY <2>1, <2>5, <3>1, FrontOfPlaces
  <2>7. TypeOK'
    BY <2>1, <2>2, <2>5, <2>6, TokensTyped DEF IInv, TypeOK
  <2>8. ASSUME NEW k \in DOMAIN initValues'
        PROVE  Passed(initValues[k])'
    <3>1. k \in DOMAIN initValues /\ initValues'[k] = initValues[k]
      BY <2>1
    <3>2. /\ initValues[k].offsets \in Seq(Nat)
          /\ Before(initValues[k].offsets, offsetList) \/ Inside(offsetList, initValues[k].offsets)
      BY <3>1, ValueTypes DEF IInv, AllPassed, Passed
    <3>3. Before(initValues[k].offsets, offsetList')
      BY <2>5, <2>6, <3>2, BeforeNext
    <3> QED BY <3>1, <3>3 DEF Passed
  <2>9. PlacesInOrder'
    BY <2>1 DEF IInv, PlacesInOrder
  <2> QED BY <2>7, <2>3, <2>8, <2>9 DEF IInv, AllPassed
<1> QED BY <1>2, <1>3

LEMMA CloseBraceKeeps == ASSUME IInv, CloseBrace PROVE IInv'
<1>1. CASE token # "}"
  BY <1>1, Stays DEF CloseBrace, Reject
<1>2. CASE token = "}"
  <2>1. /\ at = "close" /\ at' = "next" /\ Advance
        /\ UNCHANGED <<declared, stack, offsetList, initValues>>
    BY <1>2 DEF CloseBrace, At, parsed, lists
  <2>2. TypeOK' /\ Called'
    BY <2>1, TokensTyped DEF IInv, TypeOK, Called
  <2>3. AllPassed' /\ PlacesInOrder'
    BY <2>1 DEF IInv, AllPassed, PlacesInOrder, Passed
  <2> QED BY <2>2, <2>3 DEF IInv
<1> QED BY <1>1, <1>2

LEMMA NextHolds == IInv /\ [Next]_vars => IInv'
<1> SUFFICES ASSUME IInv, [Next]_vars PROVE IInv'
  OBVIOUS
<1>1. CASE EndOfList
  BY <1>1, EndOfListKeeps
<1>2. CASE StringArray
  BY <1>2, ListsString DEF StringArray, At
<1>3. CASE OpenBrace
  BY <1>3, OpenBraceKeeps
<1>4. CASE AssignExpr
  BY <1>4, AssignExprKeeps
<1>5. CASE StringInBraces
  BY <1>5, ListsString DEF StringInBraces, At
<1>6. CASE FirstElement
  BY <1>6, FirstElementKeeps
<1>7. CASE NextElement
  BY <1>7, NextElementKeeps
<1>8. CASE CloseBrace
  BY <1>8, CloseBraceKeeps
<1>9. CASE EndOfDeclaration
  BY <1>9, Stays DEF EndOfDeclaration, Reject
<1>10. CASE UNCHANGED vars
  BY <1>10, Stays DEF vars, parsed, lists
<1> QED BY <1>1, <1>2, <1>3, <1>4, <1>5, <1>6, <1>7, <1>8, <1>9, <1>10 DEF Next

\* For all types, texts and strings: the values of an initializer are listed in the order of
\* their places, no place twice (parser.cc:569-740).
THEOREM ValuesInOrder == Spec => []PlacesInOrder
<1>1. Init => IInv
  BY InitHolds
<1>2. IInv /\ [Next]_vars => IInv'
  BY NextHolds
<1>3. IInv => PlacesInOrder
  BY DEF IInv
<1> QED BY <1>1, <1>2, <1>3, PTL DEF Spec

-----------------------------------------------------------------------------
(***************************************************************************)
(* The types of the places.  Way is what TypesTo computes, one step at a   *)
(* time: p are the types on the way from an object of type D to o.         *)
(***************************************************************************)
Way(p, D, o) ==
  /\ p = [k \in DOMAIN o |-> p[k]]
  /\ p[1] = D
  /\ \A k \in 1..(Len(o) - 1) : HasPart(p[k], o[k + 1]) /\ p[k + 1] = ElementType(p[k], o[k + 1])

\* Each list that is being read is for the element of the one around it, which has it; none
\* but the outermost is for an array of unknown bound.
Lists ==
  \A k \in 1..Len(stack) :
    /\ stack[k].type = IF k = 1 THEN declared ELSE ElementType(stack[k - 1].type, stack[k - 1].i)
    /\ HasPart(stack[k].type, stack[k].i)
    /\ k # 1 => stack[k].type \in ElementTypes

\* The values that are listed have the types of their places, in an object of type D.
Fits(v, D) == v.offsets # <<>> /\ \E p : Way(p, D, v.offsets) /\ p[Len(v.offsets)] = v.type
Listed == \A k \in DOMAIN initValues : Fits(initValues[k], declared)

LEMMA LeastNumber ==
  ASSUME NEW S \in SUBSET Nat, S # {}
  PROVE  \E n \in S : \A m \in S : ~(m < n)
<1> DEFINE R == OpToRel(<, Nat)
<1>1. IsWellFoundedOn(R, Nat)
  BY NatLessThanWellFounded
<1>2. \A m, n \in Nat : m < n => <<m, n>> \in R
  BY DEF OpToRel
<1> HIDE DEF R
<1>3. \E n \in S : \A m \in S : ~(<<m, n>> \in R)
  BY <1>1, WFMin
<1> QED BY <1>2, <1>3

\* There is one way.
LEMMA WayIsTypesTo ==
  ASSUME NEW o \in Seq(Nat), o # <<>>, NEW p, Way(p, declared, o)
  PROVE  TypesTo(o) = p
<1> DEFINE Step(f) == [k \in DOMAIN o |->
                         IF k = 1 THEN declared
                         ELSE IF HasPart(f[k - 1], o[k]) THEN ElementType(f[k - 1], o[k]) ELSE Untyped]
           t == TypesTo(o)
<1>1. Len(o) \in Nat \ {0} /\ DOMAIN o = 1..Len(o)
  BY EmptySeq, LenProperties
<1>2. p = Step(p)
  <2>1. ASSUME NEW k \in DOMAIN o, k # 1
        PROVE  HasPart(p[k - 1], o[k]) /\ p[k] = ElementType(p[k - 1], o[k])
    <3>1. k - 1 \in 1..(Len(o) - 1) /\ (k - 1) + 1 = k
      BY <1>1, <2>1
    <3> QED BY <3>1 DEF Way
  <2>2. p = [k \in DOMAIN o |-> p[k]] /\ p[1] = declared
    BY DEF Way
  <2>3. \A k \in DOMAIN o : p[k] = Step(p)[k]
    BY <2>1, <2>2
  <2> QED BY <2>2, <2>3
<1>3. t = CHOOSE f : f = Step(f)
  BY DEF TypesTo
<1> HIDE DEF t
<1>4. t = Step(t)
  <2> HIDE DEF Step
  <2> QED BY <1>2, <1>3
<1>5. SUFFICES ASSUME NEW k \in DOMAIN o PROVE t[k] = p[k]
  <2>1. t = [k \in DOMAIN o |-> t[k]]
    BY <1>4
  <2>2. p = [k \in DOMAIN o |-> p[k]]
    BY <1>2
  <2>3. \A k \in DOMAIN o : t[k] = p[k]
    BY <1>5
  <2>4. t = p
    BY <2>1, <2>2, <2>3
  <2> QED BY <2>4 DEF t
<1> DEFINE S == {j \in DOMAIN o : t[j] # p[j]}
<1>6. SUFFICES ASSUME S # {} PROVE FALSE
  OBVIOUS
<1>7. PICK n \in S : \A m \in S : ~(m < n)
  <2>1. S \in SUBSET Nat
    BY <1>1
  <2> HIDE DEF S
  <2> QED BY <1>6, <2>1, LeastNumber
<1>8. n \in DOMAIN o /\ t[n] # p[n]
  OBVIOUS
<1>9. n # 1
  BY <1>2, <1>4, <1>8
<1>10. n - 1 \in DOMAIN o /\ n - 1 < n
  BY <1>1, <1>8, <1>9
<1>11. t[n - 1] = p[n - 1]
  BY <1>7, <1>10
<1>12. t[n] = Step(t)[n] /\ p[n] = Step(p)[n]
  BY <1>2, <1>4
<1> QED BY <1>8, <1>9, <1>11, <1>12

LEMMA WayDeeper ==
  ASSUME NEW o \in Seq(Nat), o # <<>>, NEW D, NEW p, Way(p, D, o),
         NEW i \in Nat, HasPart(p[Len(o)], i)
  PROVE  LET c == Append(o, i)
         IN  \E q : Way(q, D, c) /\ q[Len(c)] = ElementType(p[Len(o)], i)
<1> DEFINE c == Append(o, i)
           q == [k \in DOMAIN c |-> IF k <= Len(o) THEN p[k] ELSE ElementType(p[Len(o)], i)]
<1>1. Len(o) \in Nat \ {0}
  BY EmptySeq
<1>2. /\ c \in Seq(Nat) /\ Len(c) = Len(o) + 1 /\ DOMAIN c = 1..(Len(o) + 1)
      /\ \A k \in 1..Len(o) : c[k] = o[k]
      /\ c[Len(o) + 1] = i
  BY AppendProperties, LenProperties
<1> HIDE DEF c
<1>3. /\ \A k \in 1..Len(o) : q[k] = p[k]
      /\ q[Len(o) + 1] = ElementType(p[Len(o)], i)
      /\ q = [k \in DOMAIN c |-> q[k]]
  BY <1>1, <1>2
<1> HIDE DEF q
<1>4. q[1] = D
  <2>1. p[1] = D
    BY DEF Way
  <2>2. 1 \in 1..Len(o)
    BY <1>1
  <2> QED BY <1>3, <2>1, <2>2
<1>5. ASSUME NEW k \in 1..(Len(c) - 1)
      PROVE  HasPart(q[k], c[k + 1]) /\ q[k + 1] = ElementType(q[k], c[k + 1])
  <2>1. k \in 1..Len(o)
    BY <1>1, <1>2
  <2>2. CASE k = Len(o)
    <3>1. q[k] = p[Len(o)] /\ c[k + 1] = i /\ q[k + 1] = ElementType(p[Len(o)], i)
      BY <1>2, <1>3, <2>1, <2>2
    <3> QED BY <3>1
  <2>3. CASE k # Len(o)
    <3>1. k \in 1..(Len(o) - 1) /\ k + 1 \in 1..Len(o)
      BY <1>1, <2>1, <2>3
    <3> QED BY <1>2, <1>3, <3>1, <2>1 DEF Way
  <2> QED BY <2>2, <2>3
<1>6. Way(q, D, c)
  BY <1>3, <1>4, <1>5 DEF Way
<1> QED BY <1>2, <1>3, <1>6 DEF c

\* An array gets its bound.
LEMMA WayBound ==
  ASSUME NEW o \in Seq(Nat), NEW D, NEW E, NEW p, Way(p, D, o),
         D.kind = "array", E.kind = "array", E.elem = D.elem,
         Len(o) > 1, o[2] < E.count
  PROVE  \E q : Way(q, E, o) /\ q[Len(o)] = p[Len(o)]
<1> DEFINE q == [k \in DOMAIN o |-> IF k = 1 THEN E ELSE p[k]]
<1>1. Len(o) \in Nat /\ DOMAIN o = 1..Len(o)
  BY LenProperties
<1>2. /\ q[1] = E
      /\ \A k \in 1..Len(o) : k # 1 => q[k] = p[k]
      /\ q = [k \in DOMAIN o |-> q[k]]
  BY <1>1
<1> HIDE DEF q
<1>3. ASSUME NEW k \in 1..(Len(o) - 1)
      PROVE  HasPart(q[k], o[k + 1]) /\ q[k + 1] = ElementType(q[k], o[k + 1])
  <2>1. HasPart(p[k], o[k + 1]) /\ p[k + 1] = ElementType(p[k], o[k + 1])
    BY DEF Way
  <2>2. k \in 1..Len(o) /\ k + 1 \in 1..Len(o) /\ k + 1 # 1
    BY <1>1
  <2>3. q[k + 1] = p[k + 1]
    BY <1>2, <2>2
  <2>4. CASE k = 1
    <3>1. p[1] = D
      BY DEF Way
    <3>2. HasPart(E, o[2])
      BY DEF HasPart
    <3>3. p[2] = E.elem
      BY <2>1, <2>4, <3>1 DEF ElementType
    <3> QED BY <1>2, <2>3, <2>4, <3>2, <3>3 DEF ElementType
  <2>5. CASE k # 1
    BY <1>2, <2>1, <2>2, <2>3, <2>5
  <2> QED BY <2>4, <2>5
<1>4. Way(q, E, o)
  BY <1>2, <1>3 DEF Way
<1>5. q[Len(o)] = p[Len(o)]
  BY <1>1, <1>2
<1> QED BY <1>4, <1>5

LEMMA PartOfType ==
  ASSUME NEW T \in Types, NEW i \in Nat, HasElement(T, i)
  PROVE  HasPart(T, i) /\ ElementType(T, i) \in ElementTypes
<1> USE TypesAssumption DEF Types
<1>1. CASE T.kind = "array"
  BY <1>1 DEF ElementType, HasPart, HasElement, Elements
<1>2. CASE T.kind = "record"
  <2>1. T.members \in Seq([type : ElementTypes, offset : Nat])
    BY <1>2
  <2>2. i < Elements(T)
    BY <1>2 DEF HasElement
  <2>3. T.members # <<>> => Len(T.members) \in Nat \ {0}
    BY <2>1, EmptySeq
  <2>4. i + 1 \in 1..Len(T.members) /\ (T.tag = "union" => i = 0)
    BY <1>2, <2>1, <2>2, <2>3, LenProperties DEF Elements
  <2>5. T.members[i + 1] \in [type : ElementTypes, offset : Nat] /\ i + 1 \in DOMAIN T.members
    BY <2>1, <2>4, ElementOfSeq, LenProperties
  <2> QED BY <1>2, <2>4, <2>5 DEF ElementType, HasPart
<1>3. CASE T.kind \notin {"array", "record"}
  BY <1>3 DEF HasElement, Elements
<1> QED BY <1>1, <1>2, <1>3

-----------------------------------------------------------------------------
(***************************************************************************)
(* The steps keep the types of the lists and of the values.                *)
(***************************************************************************)
PartsInv == IInv /\ Lists /\ Listed

\* The way to the place that is being read.
LEMMA WayHere ==
  ASSUME PartsInv
  PROVE  /\ offsetList \in Seq(Nat) /\ Len(offsetList) = Len(stack) + 1
         /\ \E p : Way(p, declared, offsetList) /\ p[Len(offsetList)] = declType
<1> DEFINE o == offsetList
           p == [k \in DOMAIN o |-> IF k <= Len(stack) THEN stack[k].type ELSE declType]
<1>1. /\ o \in Seq(Nat) /\ Len(o) = Len(stack) + 1
      /\ \A k \in 1..Len(stack) : o[k + 1] = stack[k].i
  BY PlacesAt DEF PartsInv, IInv, TypeOK
<1>2. stack \in Seq(Frames) /\ Len(stack) \in Nat /\ DOMAIN o = 1..(Len(stack) + 1)
  BY <1>1, LenProperties DEF PartsInv, IInv, TypeOK
<1> HIDE DEF o
<1>3. /\ \A k \in 1..Len(stack) : p[k] = stack[k].type
      /\ p[Len(stack) + 1] = declType
      /\ p = [k \in DOMAIN o |-> p[k]]
  BY <1>2
<1> HIDE DEF p
<1>4. p[1] = declared
  <2>1. CASE stack = <<>>
    BY <1>2, <1>3, <2>1, EmptySeq DEF declType
  <2>2. CASE stack # <<>>
    <3>1. 1 \in 1..Len(stack)
      BY <1>2, <2>2, EmptySeq
    <3> QED BY <1>3, <3>1 DEF PartsInv, Lists
  <2> QED BY <2>1, <2>2
<1>5. ASSUME NEW k \in 1..(Len(o) - 1)
      PROVE  HasPart(p[k], o[k + 1]) /\ p[k + 1] = ElementType(p[k], o[k + 1])
  <2>1. k \in 1..Len(stack) /\ p[k] = stack[k].type /\ o[k + 1] = stack[k].i
    <3>1. Len(o) - 1 = Len(stack)
      BY <1>1, <1>2
    <3>2. k \in 1..Len(stack)
      BY <3>1
    <3> QED BY <1>1, <1>3, <3>2
  <2>2. HasPart(stack[k].type, stack[k].i)
    BY <2>1 DEF PartsInv, Lists
  <2>3. p[k + 1] = ElementType(stack[k].type, stack[k].i)
    <3>1. CASE k = Len(stack)
      <4>1. stack # <<>> /\ Frame = stack[k]
        BY <1>2, <2>1, <3>1, EmptySeq DEF Frame, Last
      <4> QED BY <1>3, <3>1, <4>1 DEF declType
    <3>2. CASE k # Len(stack)
      <4>1. k + 1 \in 1..Len(stack) /\ k + 1 # 1 /\ (k + 1) - 1 = k
        BY <1>2, <2>1, <3>2
      <4>2. stack[k + 1].type = ElementType(stack[k].type, stack[k].i)
        BY <4>1 DEF PartsInv, Lists
      <4> QED BY <1>3, <4>1, <4>2
    <3> QED BY <3>1, <3>2
  <2> QED BY <2>1, <2>2, <2>3
<1>6. Way(p, declared, o)
  BY <1>3, <1>4, <1>5 DEF Way
<1>7. p[Len(o)] = declType
  BY <1>1, <1>3
<1> QED BY <1>1, <1>6, <1>7 DEF o

LEMMA SameParts ==
  ASSUME PartsInv, UNCHANGED <<declared, stack, initValues>>
  PROVE  (Lists /\ Listed)'
<1>1. Lists'
  BY DEF PartsInv, Lists
<1>2. Listed'
  BY DEF PartsInv, Listed, Fits
<1> QED BY <1>1, <1>2

\* A list is begun.
LEMMA MoreLists ==
  ASSUME PartsInv, at = "list", HasElement(declType, 0),
         stack' = Append(stack, [type |-> declType, i |-> 0]), UNCHANGED <<declared, initValues>>
  PROVE  (Lists /\ Listed)'
<1> DEFINE f == [type |-> declType, i |-> 0]
<1>1. declType \in Types /\ stack \in Seq(Frames) /\ Len(stack) \in Nat
  BY CalledForType, LenProperties DEF PartsInv, IInv, TypeOK
<1>2. f \in Frames /\ f.type = declType /\ f.i = 0
  BY <1>1 DEF Frames
<1> HIDE DEF f
<1>3. /\ stack' \in Seq(Frames) /\ Len(stack') = Len(stack) + 1
      /\ \A k \in 1..Len(stack) : stack'[k] = stack[k]
      /\ stack'[Len(stack) + 1] = f
  <2>1. stack' = Append(stack, f)
    BY DEF f
  <2> QED BY <1>1, <1>2, <2>1, AppendProperties
<1>4. HasPart(declType, 0)
  BY <1>1, PartOfType
<1>5. stack # <<>> => declType \in ElementTypes
  <2>1. SUFFICES ASSUME stack # <<>> PROVE declType \in ElementTypes
    OBVIOUS
  <2>2. Frame \in Frames /\ HasElement(Frame.type, Frame.i)
    BY <1>1, <2>1, EndOfStack DEF Frame, PartsInv, IInv, Called
  <2> QED BY <2>1, <2>2, PartOfType DEF declType, Frames
<1>6. ASSUME NEW k \in 1..Len(stack')
      PROVE  /\ stack'[k].type = IF k = 1 THEN declared' ELSE ElementType(stack'[k - 1].type, stack'[k - 1].i)
             /\ HasPart(stack'[k].type, stack'[k].i)
             /\ k # 1 => stack'[k].type \in ElementTypes
  <2>1. CASE k \in 1..Len(stack)
    <3>1. k # 1 => k - 1 \in 1..Len(stack)
      BY <1>1, <2>1
    <3> QED BY <1>3, <2>1, <3>1 DEF PartsInv, Lists
  <2>2. CASE k = Len(stack) + 1
    <3>1. stack'[k].type = declType /\ stack'[k].i = 0
      BY <1>2, <1>3, <2>2
    <3>2. CASE stack = <<>>
      <4>1. k = 1 /\ declType = declared
        BY <1>1, <2>2, <3>2, EmptySeq DEF declType
      <4> QED BY <1>4, <3>1, <4>1
    <3>3. CASE stack # <<>>
      <4>1. k # 1 /\ k - 1 \in 1..Len(stack) /\ k - 1 = Len(stack)
        BY <1>1, <2>2, <3>3, EmptySeq
      <4>2. declType = ElementType(stack[k - 1].type, stack[k - 1].i)
        BY <3>3, <4>1 DEF declType, Frame, Last
      <4> QED BY <1>3, <1>4, <1>5, <3>1, <3>3, <4>1, <4>2
    <3> QED BY <3>2, <3>3
  <2> QED BY <1>1, <1>3, <2>1, <2>2
<1>7. Lists'
  BY <1>6 DEF Lists
<1>8. Listed'
  BY DEF PartsInv, Listed, Fits
<1> QED BY <1>7, <1>8

\* A list goes on to its next element.
LEMMA NextParts ==
  ASSUME PartsInv, stack # <<>>, HasElement(Frame.type, Frame.i + 1),
         stack' = [stack EXCEPT ![Len(stack)].i = @ + 1], UNCHANGED <<declared, initValues>>
  PROVE  (Lists /\ Listed)'
<1> DEFINE f == [type |-> Frame.type, i |-> Frame.i + 1]
           n == Len(stack)
<1>1. stack \in Seq(Frames) /\ n \in Nat \ {0} /\ Frame = stack[n] /\ Frame \in Frames
  BY EmptySeq, EndOfStack DEF PartsInv, IInv, TypeOK, Frame, Last
<1>2. f \in Frames /\ f.type = Frame.type /\ f.i = Frame.i + 1 /\ stack' = Append(Front(stack), f)
  BY <1>1, NextOfStack DEF Frame
<1> HIDE DEF f
<1>3. /\ Front(stack) \in Seq(Frames) /\ Len(Front(stack)) = n - 1
      /\ \A k \in 1..(n - 1) : Front(stack)[k] = stack[k]
  BY <1>1, FrontOfStack
<1>4. /\ Len(stack') = Len(Front(stack)) + 1
      /\ \A k \in 1..Len(Front(stack)) : stack'[k] = Front(stack)[k]
      /\ stack'[Len(Front(stack)) + 1] = f
  BY <1>2, <1>3, AppendProperties
<1> HIDE DEF n
<1>5. Len(stack') = n /\ stack'[n] = f /\ \A k \in 1..(n - 1) : stack'[k] = stack[k]
  BY <1>1, <1>3, <1>4
<1>6. HasPart(f.type, f.i)
  BY <1>1, <1>2, PartOfType DEF Frames
<1>7. \A k \in 1..n : stack'[k].type = stack[k].type
  BY <1>1, <1>2, <1>5
<1>8. ASSUME NEW k \in 1..Len(stack')
      PROVE  /\ stack'[k].type = IF k = 1 THEN declared' ELSE ElementType(stack'[k - 1].type, stack'[k - 1].i)
             /\ HasPart(stack'[k].type, stack'[k].i)
             /\ k # 1 => stack'[k].type \in ElementTypes
  <2>1. k \in 1..n
    BY <1>5
  <2>2. k # 1 => stack'[k - 1] = stack[k - 1]
    BY <1>1, <1>5, <2>1
  <2>3. /\ stack[k].type = IF k = 1 THEN declared ELSE ElementType(stack[k - 1].type, stack[k - 1].i)
        /\ HasPart(stack[k].type, stack[k].i)
        /\ k # 1 => stack[k].type \in ElementTypes
    BY <2>1 DEF PartsInv, Lists, n
  <2>4. HasPart(stack'[k].type, stack'[k].i)
    <3>1. CASE k = n
      BY <1>5, <1>6, <3>1
    <3>2. CASE k # n
      <4>1. stack'[k] = stack[k]
        BY <1>1, <1>5, <2>1, <3>2
      <4> QED BY <2>3, <4>1
    <3> QED BY <3>1, <3>2
  <2> QED BY <1>7, <2>1, <2>2, <2>3, <2>4
<1>9. Lists'
  BY <1>8 DEF Lists
<1>10. Listed'
  BY DEF PartsInv, Listed, Fits
<1> QED BY <1>9, <1>10

\* A list is left, and gives an array of unknown bound the bound i.  There are no values but
\* those of the elements before i.
LEMMA LeavesParts ==
  ASSUME PartsInv, stack # <<>>, NEW i \in Nat, LeaveLoop(i), UNCHANGED initValues,
         \/ at = "call" /\ i = Frame.i
         \/ i = Frame.i + 1
  PROVE  (Lists /\ Listed)'
<1> DEFINE n == Len(stack)
<1>1. stack \in Seq(Frames) /\ n \in Nat \ {0} /\ Frame = stack[n] /\ Frame \in Frames
  BY EmptySeq, EndOfStack DEF PartsInv, IInv, TypeOK, Frame, Last
<1>2. /\ stack' = Front(stack) /\ Front(stack) \in Seq(Frames) /\ Len(Front(stack)) = n - 1
      /\ \A k \in 1..(n - 1) : Front(stack)[k] = stack[k]
  BY <1>1, FrontOfStack DEF LeaveLoop
<1> HIDE DEF n
<1>3. CASE ~(Frame.type.kind = "array" /\ IsFlex(Frame.type))
  <2>1. declared' = declared
    BY <1>3 DEF LeaveLoop
  <2>2. ASSUME NEW k \in 1..Len(stack')
        PROVE  k \in 1..n /\ stack'[k] = stack[k] /\ (k # 1 => stack'[k - 1] = stack[k - 1])
    BY <1>1, <1>2
  <2>3. Lists'
    BY <2>1, <2>2 DEF PartsInv, Lists, n
  <2>4. Listed'
    BY <2>1 DEF PartsInv, Listed, Fits
  <2> QED BY <2>3, <2>4
<1>4. CASE Frame.type.kind = "array" /\ IsFlex(Frame.type)
  <2>1. declared' = CArrayType(Frame.type.elem, i)
    BY <1>4 DEF LeaveLoop
  <2>2. n = 1
    <3>1. SUFFICES ASSUME n # 1 PROVE FALSE
      OBVIOUS
    <3>2. Frame.type \in ElementTypes
      BY <1>1, <3>1 DEF PartsInv, Lists, n
    <3> QED BY <1>4, <3>2, TypesAssumption DEF IsFlex
  <2>3. Lists'
    <3>1. Len(stack') = 0
      BY <1>2, <2>2
    <3> QED BY <3>1 DEF Lists
  <2>4. declared = Frame.type
    BY <1>1, <2>2 DEF PartsInv, Lists, n
  <2>5. Len(offsetList) = 2 /\ offsetList[1] = 0 /\ offsetList[2] = Frame.i /\ offsetList \in Seq(Nat)
    <3>1. /\ Places(stack) \in Seq(Nat) /\ Len(Places(stack)) = Len(stack) + 1
          /\ Places(stack)[1] = 0
          /\ \A k \in 1..Len(stack) : Places(stack)[k + 1] = stack[k].i
      BY <1>1, PlacesAt
    <3>2. Places(stack)[1 + 1] = stack[1].i
      BY <2>2, <3>1 DEF n
    <3> QED BY <1>1, <2>2, <3>1, <3>2 DEF n, PartsInv, IInv, TypeOK
  <2>6. ASSUME NEW k \in DOMAIN initValues'
        PROVE  Fits(initValues'[k], declared')
    <3> DEFINE o == initValues[k].offsets
    <3>1. k \in DOMAIN initValues /\ initValues'[k] = initValues[k]
      OBVIOUS
    <3>2. o \in Seq(Nat) /\ Len(o) \in Nat /\ DOMAIN o = 1..Len(o)
      BY <3>1, ValueTypes, LenProperties DEF PartsInv, IInv
    <3>3. PICK p : Way(p, declared, o) /\ p[Len(o)] = initValues[k].type
      BY <3>1 DEF PartsInv, Listed, Fits
    <3>4. Before(o, offsetList) \/ (at # "call" /\ Inside(offsetList, o))
      BY <3>1 DEF PartsInv, IInv, AllPassed, Passed
    <3> HIDE DEF o
    <3>5. Frame.i \in Nat /\ DOMAIN offsetList = 1..2
      BY <1>1, <2>5, LenProperties DEF Frames
    <3>6. Len(o) > 1 /\ o[2] < i
      <4>1. CASE Before(o, offsetList)
        <5>1. PICK j \in DOMAIN o \cap DOMAIN offsetList : o[j] < offsetList[j]
          BY <4>1 DEF Before
        <5>2. o[j] \in Nat
          BY <3>2, <5>1, ElementOfSeq
        <5>3. j = 2
          BY <2>5, <3>5, <5>1, <5>2
        <5>4. o[2] < Frame.i /\ o[2] \in Nat /\ Frame.i <= i
          BY <2>5, <3>5, <5>1, <5>2, <5>3
        <5> QED BY <3>2, <3>5, <5>1, <5>3, <5>4
      <4>2. CASE at # "call" /\ Inside(offsetList, o)
        <5>1. 2 \in DOMAIN o /\ o[2] = Frame.i
          BY <2>5, <3>5, <4>2 DEF Inside
        <5> QED BY <3>2, <3>5, <4>2, <5>1
      <4> QED BY <3>4, <4>1, <4>2
    <3>7. declared'.kind = "array" /\ declared'.elem = declared.elem /\ declared'.count = i
      BY <2>1, <2>4 DEF CArrayType
    <3>8. \E q : Way(q, declared', o) /\ q[Len(o)] = p[Len(o)]
      BY <1>4, <2>4, <3>2, <3>3, <3>6, <3>7, WayBound
    <3>9. o # <<>>
      BY <3>2, <3>6, EmptySeq
    <3> QED BY <3>1, <3>3, <3>8, <3>9 DEF Fits, o
  <2> QED BY <2>3, <2>6 DEF Listed
<1> QED BY <1>3, <1>4

\* Values are listed.
LEMMA MoreParts ==
  ASSUME PartsInv, UNCHANGED stack, declared' = declared \/ stack = <<>>,
         NEW ws \in Seq(InitValues), initValues' = initValues \o ws,
         declared' = declared \/ initValues = <<>>,
         \A k \in 1..Len(ws) : Fits(ws[k], declared')
  PROVE  (Lists /\ Listed)'
<1> DEFINE m == Len(initValues)
<1>1. initValues \in Seq(InitValues) /\ m \in Nat /\ DOMAIN initValues = 1..m /\ Len(ws) \in Nat
  BY LenProperties DEF PartsInv, IInv, TypeOK
<1>2. /\ initValues' \in Seq(InitValues) /\ Len(initValues') = m + Len(ws)
      /\ \A k \in 1..(m + Len(ws)) : initValues'[k] = IF k <= m THEN initValues[k] ELSE ws[k - m]
  BY <1>1, ConcatProperties
<1>3. DOMAIN initValues' = 1..(m + Len(ws))
  BY <1>2, LenProperties
<1>4. initValues = <<>> => m = 0
  BY EmptySeq
<1> HIDE DEF m
<1>5. Lists'
  <2>1. CASE declared' = declared
    BY <2>1 DEF PartsInv, Lists
  <2>2. CASE stack = <<>>
    <3>1. Len(stack') = 0
      BY <2>2, EmptySeq
    <3> QED BY <3>1 DEF Lists
  <2> QED BY <2>1, <2>2
<1>6. ASSUME NEW k \in DOMAIN initValues'
      PROVE  Fits(initValues'[k], declared')
  <2>1. CASE k <= m
    <3>1. k \in DOMAIN initValues /\ initValues'[k] = initValues[k] /\ m # 0
      BY <1>1, <1>2, <1>3, <2>1
    <3>2. declared' = declared
      BY <1>4, <3>1
    <3>3. Fits(initValues[k], declared)
      BY <3>1 DEF PartsInv, Listed
    <3> QED BY <3>1, <3>2, <3>3 DEF Fits
  <2>2. CASE ~(k <= m)
    <3>1. k - m \in 1..Len(ws) /\ initValues'[k] = ws[k - m]
      BY <1>1, <1>2, <1>3, <2>2
    <3>2. Fits(ws[k - m], declared')
      BY <3>1
    <3> QED BY <3>1, <3>2 DEF Fits
  <2> QED BY <2>1, <2>2
<1>7. Listed'
  BY <1>6 DEF Listed, Fits
<1> QED BY <1>5, <1>7

\* Where the variable itself is read nothing has been listed.
LEMMA NothingListed ==
  ASSUME PartsInv, stack = <<>>, at \in {"call", "list"}
  PROVE  initValues = <<>> /\ Len(offsetList) = 1
<1>1. Len(stack) = 0 /\ stack \in Seq(Frames)
  BY EmptySeq DEF PartsInv, IInv, TypeOK
<1>2. offsetList \in Seq(Nat) /\ Len(offsetList) = 1 /\ offsetList[1] = 0
  <2>1. offsetList = Places(stack)
    BY DEF PartsInv, IInv, TypeOK
  <2>2. Places(stack) \in Seq(Nat) /\ Len(Places(stack)) = Len(stack) + 1 /\ Places(stack)[1] = 0
    BY <1>1, PlacesAt
  <2> QED BY <1>1, <2>1, <2>2
<1>3. ASSUME NEW k \in DOMAIN initValues PROVE FALSE
  <2> DEFINE o == initValues[k].offsets
  <2>1. o \in Seq(Nat) /\ Before(o, offsetList)
    BY ValueTypes DEF PartsInv, IInv, AllPassed, Passed
  <2> HIDE DEF o
  <2>2. PICK j \in DOMAIN o \cap DOMAIN offsetList : o[j] < offsetList[j]
    BY <2>1 DEF Before
  <2>3. j = 1 /\ o[j] \in Nat
    BY <1>2, <2>1, <2>2, LenProperties, ElementOfSeq
  <2> QED BY <1>2, <2>2, <2>3
<1>4. initValues \in Seq(InitValues)
  BY DEF PartsInv, IInv, TypeOK
<1> QED BY <1>2, <1>3, <1>4, EmptySeq, LenProperties

LEMMA StringParts ==
  ASSUME PartsInv, at \in {"call", "list"}, IsStringArrayType(declType),
         NEW next \in {"next", "close"}, ParseStringInitializer(next)
  PROVE  (Lists /\ Listed)'
<1> DEFINE n == IF IsFlex(declType) THEN Len(Chars) + 1 ELSE declType.count
           value(i) == Number(IF i <= Len(Chars) THEN Chars[i] ELSE 0)
           w(i) == semaDeclInitValue(CharType, value(i), Append(offsetList, i - 1))
           ws == [i \in 1..n |-> w(i)]
<1>1. declType \in Types /\ declType.kind = "array" /\ declType.elem = CharType
  BY CalledForType DEF PartsInv, IInv, IsStringArrayType
<1>2. n \in Int /\ Len(Chars) \in Nat
  BY <1>1, CharsAssumption, LenProperties, TypesAssumption DEF Types
<1>3. CASE n < Len(Chars)
  BY <1>3, SameParts DEF ParseStringInitializer, Reject, parsed, lists
<1>4. CASE ~(n < Len(Chars))
  <2>1. /\ UNCHANGED stack
        /\ initValues' = initValues \o ws
        /\ declared' = IF IsFlex(declType) THEN CArrayType(CharType, n) ELSE declared
    BY <1>4 DEF ParseStringInitializer, lists
  <2>2. n \in Nat
    BY <1>2, <1>4
  <2>3. /\ offsetList \in Seq(Nat) /\ Len(offsetList) = Len(stack) + 1 /\ offsetList # <<>>
    <3>1. Len(stack) \in Nat
      BY LenProperties DEF PartsInv, IInv, TypeOK
    <3> QED BY <3>1, WayHere, EmptySeq
  <2>4. ASSUME NEW i \in 1..n
        PROVE  /\ value(i) \in Exprs
               /\ Append(offsetList, i - 1) \in Seq(Nat) /\ Append(offsetList, i - 1) # <<>>
    <3>1. i - 1 \in Nat
      BY <2>2
    <3>2. IF i <= Len(Chars) THEN Chars[i] \in Int ELSE TRUE
      BY <1>2, <2>2, CharsAssumption, ElementOfSeq
    <3>3. value(i) \in Exprs
      BY <3>2 DEF Exprs, Number
    <3>4. Append(offsetList, i - 1) \in Seq(Nat) /\ Append(offsetList, i - 1) # <<>>
      BY <2>3, <3>1, AppendProperties
    <3> QED BY <3>3, <3>4
  <2> HIDE DEF value
  <2>5. ASSUME NEW i \in 1..n
        PROVE  /\ w(i) \in InitValues /\ w(i).offsets = Append(offsetList, i - 1)
               /\ w(i).type = CharType
    BY <2>4 DEF semaDeclInitValue, InitValues
  <2> HIDE DEF w
  <2>6. ws \in Seq(InitValues) /\ Len(ws) = n /\ \A i \in 1..n : ws[i] = w(i)
    <3>1. ws \in [1..n -> InitValues]
      BY <2>5
    <3> QED BY <2>2, <3>1
  <2>7. IsFlex(declType) => stack = <<>> /\ declType = declared
    <3>1. SUFFICES ASSUME IsFlex(declType), stack # <<>> PROVE FALSE
      BY DEF declType
    <3>2. Frame \in Frames /\ HasElement(Frame.type, Frame.i)
      BY <3>1, EndOfStack DEF Frame, PartsInv, IInv, TypeOK, Called
    <3>3. declType \in ElementTypes
      BY <3>1, <3>2, PartOfType DEF declType, Frames
    <3> QED BY <1>1, <3>1, <3>3, TypesAssumption DEF IsFlex
  <2>8. \E p : /\ Way(p, declared', offsetList)
               /\ p[Len(offsetList)].kind = "array" /\ p[Len(offsetList)].elem = CharType
               /\ p[Len(offsetList)].count = n
    <3>1. CASE IsFlex(declType)
      <4> DEFINE p == [k \in DOMAIN offsetList |-> declared']
      <4>1. Len(offsetList) = 1
        BY <2>7, <3>1, NothingListed
      <4>2. DOMAIN offsetList = 1..1
        BY <2>3, <4>1, LenProperties
      <4>3. p[1] = declared' /\ p = [k \in DOMAIN offsetList |-> p[k]]
        BY <4>2
      <4> HIDE DEF p
      <4>4. Way(p, declared', offsetList)
        BY <4>1, <4>3 DEF Way
      <4>5. declared'.kind = "array" /\ declared'.elem = CharType /\ declared'.count = n
        BY <2>1, <3>1 DEF CArrayType
      <4> QED BY <4>1, <4>3, <4>4, <4>5
    <3>2. CASE ~IsFlex(declType)
      BY <1>1, <2>1, <3>2, WayHere
    <3> QED BY <3>1, <3>2
  <2> HIDE DEF n
  <2>9. ASSUME NEW i \in 1..Len(ws)
        PROVE  Fits(ws[i], declared')
    <3>1. i \in 1..n /\ i - 1 \in Nat /\ i - 1 < n /\ ws[i] = w(i)
      BY <2>2, <2>6
    <3> DEFINE c == Append(offsetList, i - 1)
    <3>2. ws[i].offsets = c /\ ws[i].type = CharType /\ c # <<>>
      BY <2>4, <2>5, <3>1
    <3>3. PICK p : /\ Way(p, declared', offsetList)
                   /\ p[Len(offsetList)].kind = "array" /\ p[Len(offsetList)].elem = CharType
                   /\ p[Len(offsetList)].count = n
      BY <2>8
    <3>4. HasPart(p[Len(offsetList)], i - 1) /\ ElementType(p[Len(offsetList)], i - 1) = CharType
      BY <3>1, <3>3 DEF HasPart, ElementType
    <3>5. \E q : Way(q, declared', c) /\ q[Len(c)] = CharType
      BY <2>3, <3>1, <3>3, <3>4, WayDeeper
    <3> HIDE DEF c, ws
    <3> QED BY <3>2, <3>5 DEF Fits
  <2>10. (declared' = declared \/ stack = <<>>) /\ (declared' = declared \/ initValues = <<>>)
    BY <2>1, <2>7, NothingListed
  <2> HIDE DEF ws
  <2> QED BY <2>1, <2>6, <2>9, <2>10, MoreParts
<1> QED BY <1>3, <1>4

LEMMA InitParts == Init => Lists /\ Listed
<1> SUFFICES ASSUME Init PROVE Lists /\ Listed
  OBVIOUS
<1>1. Len(stack) = 0 /\ Len(initValues) = 0 /\ initValues = <<>>
  BY EmptySeq DEF Init
<1>2. ~\E k : k \in DOMAIN initValues
  <2>1. initValues \in Seq(InitValues)
    BY <1>1, EmptySeq
  <2> QED BY <1>1, <2>1, LenProperties
<1> QED BY <1>1, <1>2 DEF Lists, Listed

LEMMA AssignExprParts == ASSUME PartsInv, AssignExpr PROVE (Lists /\ Listed)'
<1>1. CASE token \in {",", ";"}
  BY <1>1, SameParts DEF AssignExpr, Reject, parsed, lists
<1>2. CASE token \notin {",", ";"}
  <2> DEFINE v == semaDeclInitValue(declType, IF token = "number" THEN Number(Len(text) + 1) ELSE String,
                                    offsetList)
             ws == <<v>>
  <2>1. /\ at = "call" /\ UNCHANGED <<declared, stack>>
        /\ initValues' = Append(initValues, v)
    BY <1>2 DEF AssignExpr, At, lists
  <2>2. declType \in Types /\ Len(text) + 1 \in Int /\ Len(stack) \in Nat
    BY <2>1, CalledForType, LenProperties DEF PartsInv, IInv, TypeOK
  <2>3. /\ offsetList \in Seq(Nat) /\ Len(offsetList) = Len(stack) + 1
        /\ \E p : Way(p, declared, offsetList) /\ p[Len(offsetList)] = declType
    BY WayHere
  <2>4. v \in InitValues /\ v.offsets = offsetList /\ v.type = declType
    BY <2>2, <2>3 DEF semaDeclInitValue, InitValues, Exprs, Number, String
  <2> HIDE DEF v
  <2>5. offsetList # <<>>
    BY <2>2, <2>3, EmptySeq
  <2>6. Fits(v, declared')
    BY <2>1, <2>3, <2>4, <2>5 DEF Fits
  <2>7. initValues' = initValues \o ws
    BY <2>1, <2>4, AppendIsConcat DEF PartsInv, IInv, TypeOK
  <2>8. ws \in Seq(InitValues) /\ \A k \in 1..Len(ws) : Fits(ws[k], declared')
    BY <2>4, <2>6
  <2> HIDE DEF ws
  <2> QED BY <2>1, <2>7, <2>8, MoreParts
<1> QED BY <1>1, <1>2

LEMMA NextKeepsParts == PartsInv /\ [Next]_vars => (Lists /\ Listed)'
<1> SUFFICES ASSUME PartsInv, [Next]_vars PROVE (Lists /\ Listed)'
  OBVIOUS
<1>1. stack # <<>> => Frame \in Frames /\ Frame.i \in Nat /\ Frame.i + 1 \in Nat
  <2>1. stack # <<>> => Frame \in Frames
    BY EndOfStack DEF PartsInv, IInv, TypeOK, Frame
  <2> QED BY <2>1 DEF Frames
<1>2. CASE EndOfList
  <2>1. CASE stack = <<>>
    BY <1>2, <2>1, SameParts DEF EndOfList, Reject, parsed, lists
  <2>2. CASE stack # <<>>
    BY <1>1, <1>2, <2>2, LeavesParts DEF EndOfList, At
  <2> QED BY <2>1, <2>2
<1>3. CASE StringArray
  BY <1>3, StringParts DEF StringArray, At
<1>4. CASE OpenBrace
  BY <1>4, SameParts DEF OpenBrace, parsed, lists
<1>5. CASE AssignExpr
  BY <1>5, AssignExprParts
<1>6. CASE StringInBraces
  BY <1>6, StringParts DEF StringInBraces, At
<1>7. CASE FirstElement
  <2>1. CASE HasElement(declType, 0)
    BY <1>7, <2>1, MoreLists DEF FirstElement, At
  <2>2. CASE ~HasElement(declType, 0)
    BY <1>7, <2>2, SameParts DEF FirstElement, lists
  <2> QED BY <2>1, <2>2
<1>8. CASE NextElement
  <2>1. CASE HasElement(Frame.type, Frame.i + 1)
    BY <1>8, <2>1, NextParts DEF NextElement
  <2>2. CASE ~HasElement(Frame.type, Frame.i + 1)
    BY <1>1, <1>8, <2>2, LeavesParts DEF NextElement
  <2> QED BY <2>1, <2>2
<1>9. CASE CloseBrace
  BY <1>9, SameParts DEF CloseBrace, Reject, parsed, lists
<1>10. CASE EndOfDeclaration
  BY <1>10, SameParts DEF EndOfDeclaration, Reject, parsed, lists
<1>11. CASE UNCHANGED vars
  BY <1>11, SameParts DEF vars
<1> QED BY <1>2, <1>3, <1>4, <1>5, <1>6, <1>7, <1>8, <1>9, <1>10, <1>11 DEF Next

LEMMA PartsGivePlaces == ASSUME PartsInv PROVE PlacesMatch
<1> SUFFICES ASSUME NEW n \in DOMAIN initValues
             PROVE  LET v == initValues[n]
                        types == TypesTo(v.offsets)
                    IN  /\ \A k \in 1..(Len(v.offsets) - 1) : HasPart(types[k], v.offsets[k + 1])
                        /\ types[Len(v.offsets)] = v.type
  BY DEF PlacesMatch
<1> DEFINE v == initValues[n]
<1> DEFINE o == v.offsets
<1>1. o \in Seq(Nat) /\ o # <<>>
  BY ValueTypes DEF PartsInv, IInv, Listed, Fits
<1>2. PICK p : Way(p, declared, o) /\ p[Len(o)] = v.type
  BY DEF PartsInv, Listed, Fits
<1> HIDE DEF o
<1>3. TypesTo(o) = p
  BY <1>1, <1>2, WayIsTypesTo
<1>4. \A k \in 1..(Len(o) - 1) : HasPart(p[k], o[k + 1])
  BY <1>2 DEF Way
<1> QED BY <1>2, <1>3, <1>4 DEF o

\* For all types, texts and strings: every value has the type of the element at its place, and
\* the variable has that element, whatever bound it is given in the end (parser.cc:653-718).
THEOREM ValuesHavePlaces == Spec => []PlacesMatch
<1>1. Init => IInv /\ Lists /\ Listed
  BY InitHolds, InitParts
<1>2. (IInv /\ Lists /\ Listed) /\ [Next]_vars => (IInv /\ Lists /\ Listed)'
  BY NextHolds, NextKeepsParts DEF PartsInv
<1>3. IInv /\ Lists /\ Listed => PlacesMatch
  BY PartsGivePlaces DEF PartsInv
<1> QED BY <1>1, <1>2, <1>3, PTL DEF Spec
=============================================================================
