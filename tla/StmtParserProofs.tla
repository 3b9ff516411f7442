-------------------------- MODULE StmtParserProofs --------------------------
(***************************************************************************)
(* Invariance proofs for StmtParser, for function bodies of any size: the  *)
(* jumps found with the parser's stacks are those of the text, and its     *)
(* scopes are those of the statements it is in.                            *)
(***************************************************************************)
EXTENDS StmtParser, SequenceTheorems, FiniteSetTheorems, WellFoundedInduction, TLAPS

StatementKinds == StatementTokens \cup {"block"}

Nodes == [kind : StatementKinds, up : Nat, kids : Seq(Nat), els : BOOLEAN,
          header : [init : BOOLEAN, cond : BOOLEAN, inc : BOOLEAN],
          val : CaseValues \cup {"other"}, target : Nat, dflt : Nat, decl : Nat]

TypeOK ==
  /\ nodes \in Seq(Nodes)
  /\ open \in Seq(Nat)
  /\ breakNodes \in Seq(Nat) /\ continueNodes \in Seq(Nat) /\ switchNodes \in Seq(Nat)
  /\ envs \in Seq(Envs)
  /\ status = "run" => open # <<>>

\* A statement is made after the one it is a part of.
Upwards == \A n \in DOMAIN nodes : nodes[n].up < n

Increasing(s) == \A i, j \in DOMAIN s : i < j => s[i] < s[j]

\* The open statements ns[op[1]], ns[op[2]] ... lie each in the one before.
Chain(ns, op) ==
  /\ Increasing(op)
  /\ \A i \in DOMAIN op : op[i] \in DOMAIN ns
  /\ \A i \in DOMAIN op : ns[op[i]].up = IF i = 1 THEN Null ELSE op[i - 1]

\* A stack of jump targets holds the open statements of its kinds, innermost last.
Holds(ns, op, s, K) == Increasing(s) /\ Range(s) = {m \in Range(op) : ns[m].kind \in K}

StacksMatch ==
  /\ Holds(nodes, open, breakNodes, Breakable)
  /\ Holds(nodes, open, continueNodes, Loops)
  /\ Holds(nodes, open, switchNodes, {"switch"})

\* Only the body is no part of a statement.
Rooted == \A n \in DOMAIN nodes : nodes[n].up = Null => nodes[n].kind = "block"

IInv ==
  /\ TypeOK /\ Upwards /\ Rooted /\ Chain(nodes, open) /\ StacksMatch
  /\ TargetsAreInnermost /\ ScopesMatch

-----------------------------------------------------------------------------
(***************************************************************************)
(* Stacks of increasing numbers.                                           *)
(***************************************************************************)
LEMMA FrontFacts ==
  ASSUME NEW S, NEW q \in Seq(S), q # <<>>
  PROVE  /\ Len(q) \in Nat \ {0}
         /\ Front(q) \in Seq(S) /\ Len(Front(q)) = Len(q) - 1
         /\ \A i \in 1..Len(q)-1 : Front(q)[i] = q[i]
<1>1. Len(q) \in Nat \ {0}
  OBVIOUS
<1>2. \A i \in 1..Len(q)-1 : q[i] \in S
  OBVIOUS
<1>3. /\ SubSeq(q, 1, Len(q)-1) \in Seq(S)
      /\ Len(SubSeq(q, 1, Len(q)-1)) = (IF 1 <= Len(q)-1 THEN Len(q)-1-1+1 ELSE 0)
      /\ \A i \in 1..Len(q)-1-1+1 : SubSeq(q, 1, Len(q)-1)[i] = q[1+i-1]
  BY <1>1, <1>2, SubSeqProperties
<1>4. \A n \in Nat \ {0} : n-1-1+1 = n-1 /\ (1 <= n-1 \/ n-1 = 0)
  OBVIOUS
<1>5. \A i \in 1..Len(q)-1 : 1+i-1 = i
  BY <1>1
<1> QED BY <1>1, <1>3, <1>4, <1>5 DEF Front

LEMMA AppendIncreasing ==
  ASSUME NEW s \in Seq(Nat), Increasing(s), NEW n \in Nat, \A m \in Range(s) : m < n
  PROVE  /\ Append(s, n) \in Seq(Nat)
         /\ Increasing(Append(s, n))
         /\ Range(Append(s, n)) = Range(s) \cup {n}
         /\ Append(s, n) # <<>> /\ Last(Append(s, n)) = n
<1>1. DOMAIN Append(s, n) = 1..(Len(s) + 1) /\ DOMAIN s = 1..Len(s)
  OBVIOUS
<1>2. \A i \in DOMAIN s : Append(s, n)[i] = s[i] /\ s[i] \in Range(s)
  BY DEF Range
<1>3. Append(s, n)[Len(s) + 1] = n
  OBVIOUS
<1>4. Increasing(Append(s, n))
  <2> SUFFICES ASSUME NEW i \in 1..(Len(s) + 1), NEW j \in 1..(Len(s) + 1), i < j
               PROVE  Append(s, n)[i] < Append(s, n)[j]
    BY <1>1 DEF Increasing
  <2>1. CASE j \in 1..Len(s)
    BY <2>1, <1>1, <1>2 DEF Increasing
  <2>2. CASE j = Len(s) + 1
    <3>1. i \in DOMAIN s
      BY <2>2
    <3> QED BY <3>1, <2>2, <1>2, <1>3
  <2> QED BY <2>1, <2>2
<1>5. Range(Append(s, n)) = Range(s) \cup {n}
  <2>1. ASSUME NEW m \in Range(Append(s, n)) PROVE m \in Range(s) \cup {n}
    <3>1. PICK i \in 1..(Len(s) + 1) : m = Append(s, n)[i]
      BY <1>1, <2>1 DEF Range
    <3>2. i \in DOMAIN s \/ i = Len(s) + 1
      OBVIOUS
    <3> QED BY <3>1, <3>2, <1>2, <1>3
  <2>2. ASSUME NEW m \in Range(s) \cup {n} PROVE m \in Range(Append(s, n))
    <3>1. CASE m = n
      BY <3>1, <1>1, <1>3 DEF Range
    <3>2. CASE m \in Range(s)
      <4>1. PICK i \in DOMAIN s : m = s[i]
        BY <3>2 DEF Range
      <4>2. i \in DOMAIN Append(s, n)
        BY <1>1
      <4>3. m = Append(s, n)[i]
        BY <4>1, <1>2
      <4> QED BY <4>2, <4>3 DEF Range
    <3> QED BY <3>1, <3>2
  <2> QED BY <2>1, <2>2
<1>6. Last(Append(s, n)) = n
  BY <1>3 DEF Last
<1> QED BY <1>4, <1>5, <1>6

LEMMA LastIncreasing ==
  ASSUME NEW s \in Seq(Nat), Increasing(s), s # <<>>
  PROVE  Last(s) \in Range(s) /\ Last(s) \in Nat /\ \A m \in Range(s) : m <= Last(s)
<1>1. Len(s) \in DOMAIN s
  OBVIOUS
<1>2. \A i \in DOMAIN s : s[i] \in Nat /\ (i < Len(s) \/ i = Len(s))
  OBVIOUS
<1>3. \A i \in DOMAIN s : s[i] <= Last(s)
  BY <1>1, <1>2 DEF Increasing, Last
<1> QED BY <1>1, <1>2, <1>3 DEF Range, Last

LEMMA FrontIncreasing ==
  ASSUME NEW s \in Seq(Nat), Increasing(s), s # <<>>
  PROVE  /\ Front(s) \in Seq(Nat)
         /\ Increasing(Front(s))
         /\ Range(Front(s)) = Range(s) \ {Last(s)}
<1>1. /\ Len(s) \in Nat \ {0}
      /\ Front(s) \in Seq(Nat) /\ Len(Front(s)) = Len(s) - 1
      /\ \A i \in 1..Len(s)-1 : Front(s)[i] = s[i]
  BY FrontFacts
<1>2. DOMAIN Front(s) = 1..(Len(s) - 1) /\ DOMAIN s = 1..Len(s)
  BY <1>1
<1>3. \A i \in DOMAIN Front(s) : i \in DOMAIN s /\ i < Len(s) /\ Front(s)[i] = s[i]
  BY <1>1, <1>2
<1>4. Increasing(Front(s))
  BY <1>3 DEF Increasing
<1>5. Range(Front(s)) = Range(s) \ {Last(s)}
  <2>1. ASSUME NEW m \in Range(Front(s)) PROVE m \in Range(s) \ {Last(s)}
    <3>1. PICK i \in DOMAIN Front(s) : m = Front(s)[i]
      BY <2>1 DEF Range
    <3>2. s[i] < s[Len(s)]
      BY <1>1, <1>3 DEF Increasing
    <3>3. s[i] \in Nat /\ s[Len(s)] \in Nat
      BY <1>1, <1>3
    <3>4. m \in Range(s)
      BY <3>1, <1>3 DEF Range
    <3>5. m # Last(s)
      BY <3>1, <3>2, <3>3, <1>3 DEF Last
    <3> QED BY <3>4, <3>5
  <2>2. ASSUME NEW m \in Range(s), m # Last(s) PROVE m \in Range(Front(s))
    <3>1. PICK i \in DOMAIN s : m = s[i]
      BY <2>2 DEF Range
    <3>2. i # Len(s)
      BY <3>1, <2>2 DEF Last
    <3>3. i \in DOMAIN Front(s)
      BY <3>2, <1>1, <1>2
    <3> QED BY <3>1, <3>3, <1>3 DEF Range
  <2> QED BY <2>1, <2>2
<1> QED BY <1>1, <1>4, <1>5

\* A non-empty set of numbers up to n has a greatest one.
LEMMA Greatest ==
  ASSUME NEW n \in Nat, NEW S \in SUBSET (1..n), S # {}
  PROVE  \E i \in S : \A j \in S : j <= i
<1> DEFINE T == {n - i : i \in S}
           R == OpToRel(<, Nat)
<1>1. T \in SUBSET Nat
  <2>1. \A i \in S : n - i \in Nat
    OBVIOUS
  <2> QED BY <2>1
<1>2. T # {}
  OBVIOUS
<1>3. PICK t \in T : \A u \in T : ~ (<<u, t>> \in R)
  <2>1. IsWellFoundedOn(R, Nat)
    BY NatLessThanWellFounded
  <2> HIDE DEF R, T
  <2> QED BY <2>1, <1>1, <1>2, WFMin
<1>4. \A u \in T : ~ (u < t)
  <2>1. \A u, w \in Nat : u < w => <<u, w>> \in R
    BY DEF OpToRel
  <2> HIDE DEF R, T
  <2> QED BY <2>1, <1>1, <1>3
<1>5. PICK i \in S : t = n - i
  OBVIOUS
<1>6. \A j \in S : j <= i
  <2> TAKE j \in S
  <2>1. n - j \in T
    OBVIOUS
  <2>2. ~ (n - j < n - i)
    BY <2>1, <1>4, <1>5
  <2> QED BY <2>2
<1> QED BY <1>6

-----------------------------------------------------------------------------
(***************************************************************************)
(* What is around a statement, in any list ns of statements.               *)
(***************************************************************************)
\* ns2 has the statements of ns, and perhaps more.
Kept(ns, ns2) ==
  \A m \in DOMAIN ns : /\ m \in DOMAIN ns2
                       /\ ns2[m].kind = ns[m].kind
                       /\ ns2[m].up = ns[m].up
                       /\ ns2[m].target = ns[m].target

Higher(ns) == \A n \in DOMAIN ns : ns[n].up < n
Encloses(ns, n, S) == ns[n].up \in S \cup {Null} /\ \A m \in S : ns[m].up \in S \cup {Null}
AroundIn(ns, n) == {m \in DOMAIN ns : \A S \in SUBSET (1..(n - 1)) : Encloses(ns, n, S) => m \in S}

LeavesInnermost(ns, n, K) ==
  IsInnermost(ns[n].target, {m \in AroundIn(ns, n) : ns[m].kind \in K})
JumpOK(ns, n) ==
  /\ ns[n].kind = "break" => LeavesInnermost(ns, n, Breakable)
  /\ ns[n].kind = "continue" => LeavesInnermost(ns, n, Loops)
  /\ ns[n].kind = "default" => LeavesInnermost(ns, n, {"switch"})

LEMMA TargetsIn ==
  /\ TargetsAreInnermost <=> \A n \in DOMAIN nodes : JumpOK(nodes, n)
  /\ TargetsAreInnermost' <=> \A n \in DOMAIN nodes' : JumpOK(nodes', n)
<1>1. \A n : Around(n) = AroundIn(nodes, n)
  BY DEF Around, AroundIn, Encloses, Closed
<1>2. \A n : Around(n)' = AroundIn(nodes', n)
  BY DEF Around, AroundIn, Encloses, Closed
<1>3. \A n, K : IsInnermostAround(n, K) <=> LeavesInnermost(nodes, n, K)
  BY <1>1 DEF IsInnermostAround, LeavesInnermost
<1>4. \A n, K : IsInnermostAround(n, K)' <=> LeavesInnermost(nodes', n, K)
  BY <1>2 DEF IsInnermostAround, LeavesInnermost
<1> QED BY <1>3, <1>4 DEF TargetsAreInnermost, JumpOK

LEMMA NodeFields ==
  ASSUME NEW ns \in Seq(Nodes), NEW n \in DOMAIN ns
  PROVE  /\ ns[n] \in Nodes /\ ns[n].kind \in StatementKinds
         /\ ns[n].up \in Nat /\ ns[n].target \in Nat /\ ns[n].kids \in Seq(Nat)
<1>1. ns[n] \in Nodes
  OBVIOUS
<1> QED BY <1>1 DEF Nodes

LEMMA AroundBelow ==
  ASSUME NEW ns \in Seq(Nodes), Higher(ns), NEW n \in DOMAIN ns
  PROVE  AroundIn(ns, n) \subseteq 1..(n - 1)
<1>1. n \in Nat /\ n <= Len(ns) /\ DOMAIN ns = 1..Len(ns)
  OBVIOUS
<1>2. \A m \in 1..n : m \in DOMAIN ns
  BY <1>1
<1>3. \A m \in DOMAIN ns : ns[m].up \in Nat
  BY NodeFields
<1>4. \A m \in 1..n : ns[m].up \in Nat /\ ns[m].up < m
  BY <1>2, <1>3 DEF Higher
<1>5. Encloses(ns, n, 1..(n - 1))
  BY <1>1, <1>4 DEF Encloses, Null
<1> QED BY <1>5 DEF AroundIn

LEMMA AroundKept ==
  ASSUME NEW ns \in Seq(Nodes), NEW ns2 \in Seq(Nodes), Higher(ns2), Kept(ns, ns2), NEW n \in DOMAIN ns
  PROVE  AroundIn(ns2, n) = AroundIn(ns, n)
<1>1. n \in DOMAIN ns2 /\ DOMAIN ns = 1..Len(ns) /\ n \in Nat
  BY DEF Kept
<1>2. \A S \in SUBSET (1..(n - 1)) : Encloses(ns2, n, S) <=> Encloses(ns, n, S)
  <2> TAKE S \in SUBSET (1..(n - 1))
  <2>1. \A m \in S : m \in DOMAIN ns
    BY <1>1
  <2> QED BY <2>1 DEF Encloses, Kept
<1>3. \A m \in DOMAIN ns : m \in DOMAIN ns2
  BY DEF Kept
<1>4. AroundIn(ns2, n) \subseteq DOMAIN ns
  <2>1. AroundIn(ns2, n) \subseteq 1..(n - 1)
    BY <1>1, AroundBelow
  <2> QED BY <2>1, <1>1
<1> QED BY <1>2, <1>3, <1>4 DEF AroundIn

\* Around a part of the last of the statements op, each a part of the one before, are these.
LEMMA AroundLast ==
  ASSUME NEW ns \in Seq(Nodes), NEW op \in Seq(Nat), Chain(ns, op), op # <<>>,
         NEW ns2 \in Seq(Nodes), Kept(ns, ns2), NEW n \in DOMAIN ns2, ns2[n].up = Last(op),
         \A m \in Range(op) : m < n
  PROVE  AroundIn(ns2, n) = Range(op)
<1>1. DOMAIN op = 1..Len(op) /\ Len(op) \in Nat \ {0} /\ n \in Nat \ {0}
  OBVIOUS
<1>2. \A i \in DOMAIN op : op[i] \in 1..(n - 1) /\ op[i] # Null
  <2>1. \A i \in DOMAIN op : op[i] \in DOMAIN ns /\ op[i] \in Range(op)
    BY DEF Chain, Range
  <2>2. DOMAIN ns = 1..Len(ns) /\ Len(ns) \in Nat
    OBVIOUS
  <2> QED BY <1>1, <2>1, <2>2 DEF Null
<1>3. \A i \in DOMAIN op : ns2[op[i]].up = IF i = 1 THEN Null ELSE op[i - 1]
  BY DEF Chain, Kept
<1>4. ns2[n].up = op[Len(op)]
  BY DEF Last
<1>5. Range(op) \subseteq 1..(n - 1)
  BY <1>2 DEF Range
<1>6. Encloses(ns2, n, Range(op))
  <2>1. ns2[n].up \in Range(op)
    BY <1>1, <1>4 DEF Range
  <2>2. ASSUME NEW m \in Range(op) PROVE ns2[m].up \in Range(op) \cup {Null}
    <3>1. PICK i \in DOMAIN op : m = op[i]
      BY <2>2 DEF Range
    <3>2. CASE i = 1
      BY <3>1, <3>2, <1>3
    <3>3. CASE i # 1
      <4>1. i - 1 \in DOMAIN op
        BY <3>3, <1>1
      <4> QED BY <4>1, <3>1, <3>3, <1>3 DEF Range
    <3> QED BY <3>2, <3>3
  <2> QED BY <2>1, <2>2 DEF Encloses
<1>7. ASSUME NEW m \in AroundIn(ns2, n) PROVE m \in Range(op)
  BY <1>5, <1>6, <1>7 DEF AroundIn
<1>8. ASSUME NEW S \in SUBSET (1..(n - 1)), Encloses(ns2, n, S) PROVE Range(op) \subseteq S
  <2> DEFINE Missed == {i \in DOMAIN op : op[i] \notin S}
  <2>1. SUFFICES ASSUME Missed # {} PROVE FALSE
    BY DEF Range
  <2>2. Missed \in SUBSET (1..Len(op))
    BY <1>1
  <2>3. PICK i \in Missed : \A j \in Missed : j <= i
    <3> HIDE DEF Missed
    <3> QED BY <2>1, <2>2, <1>1, Greatest
  <2>4. CASE i = Len(op)
    BY <2>3, <2>4, <1>2, <1>4, <1>8 DEF Encloses
  <2>5. CASE i # Len(op)
    <3>1. i + 1 \in DOMAIN op /\ i + 1 # 1 /\ i + 1 - 1 = i
      BY <2>5, <1>1
    <3>2. i + 1 \notin Missed
      <4> HIDE DEF Missed
      <4>1. i \in Nat
        BY <2>2
      <4> QED BY <2>3, <4>1
    <3>3. op[i + 1] \in S
      BY <3>1, <3>2
    <3>4. ns2[op[i + 1]].up = op[i]
      BY <3>1, <1>3
    <3> QED BY <3>3, <3>4, <2>3, <1>2, <1>8 DEF Encloses
  <2> QED BY <2>4, <2>5
<1>9. ASSUME NEW m \in Range(op) PROVE m \in AroundIn(ns2, n)
  <2>1. m \in DOMAIN ns2
    BY <1>9 DEF Chain, Kept, Range
  <2> QED BY <2>1, <1>8 DEF AroundIn
<1> QED BY <1>7, <1>9

\* Around a statement that is made now are the open ones.
LEMMA AroundNew ==
  ASSUME NEW ns \in Seq(Nodes), NEW op \in Seq(Nat), Chain(ns, op), op # <<>>,
         NEW ns2 \in Seq(Nodes), Kept(ns, ns2), Len(ns2) = Len(ns) + 1, ns2[Len(ns2)].up = Last(op)
  PROVE  AroundIn(ns2, Len(ns2)) = Range(op)
<1>1. Len(ns2) \in DOMAIN ns2 /\ DOMAIN ns = 1..Len(ns) /\ Len(ns) \in Nat
  OBVIOUS
<1>2. \A m \in Range(op) : m < Len(ns2)
  <2>1. \A m \in Range(op) : m \in DOMAIN ns
    BY DEF Chain, Range
  <2> QED BY <1>1, <2>1
<1> QED BY <1>1, <1>2, AroundLast

LEMMA JumpsKept ==
  ASSUME NEW ns \in Seq(Nodes), NEW ns2 \in Seq(Nodes), Higher(ns2), Kept(ns, ns2),
         NEW n \in DOMAIN ns, JumpOK(ns, n)
  PROVE  JumpOK(ns2, n)
<1>1. AroundIn(ns2, n) = AroundIn(ns, n)
  BY AroundKept
<1>2. \A m \in AroundIn(ns, n) : m \in DOMAIN ns
  BY DEF AroundIn
<1>3. \A K : {m \in AroundIn(ns2, n) : ns2[m].kind \in K} = {m \in AroundIn(ns, n) : ns[m].kind \in K}
  BY <1>1, <1>2 DEF Kept
<1>4. \A K : LeavesInnermost(ns, n, K) => LeavesInnermost(ns2, n, K)
  BY <1>3 DEF LeavesInnermost, Kept
<1> QED BY <1>4 DEF JumpOK, Kept

\* A jump that is made now and whose target is on top of its stack.
LEMMA JumpNew ==
  ASSUME NEW ns \in Seq(Nodes), NEW op \in Seq(Nat), Chain(ns, op), op # <<>>,
         NEW ns2 \in Seq(Nodes), Kept(ns, ns2), Len(ns2) = Len(ns) + 1, ns2[Len(ns2)].up = Last(op),
         NEW s \in Seq(Nat), NEW K, Holds(ns, op, s, K), s # <<>>, ns2[Len(ns2)].target = Last(s)
  PROVE  LeavesInnermost(ns2, Len(ns2), K)
<1>1. AroundIn(ns2, Len(ns2)) = Range(op)
  BY AroundNew
<1>2. \A m \in Range(op) : m \in DOMAIN ns
  BY DEF Range, Chain
<1>3. {m \in AroundIn(ns2, Len(ns2)) : ns2[m].kind \in K} = Range(s)
  BY <1>1, <1>2 DEF Holds, Kept
<1>4. Last(s) \in Range(s) /\ \A m \in Range(s) : m <= Last(s)
  BY LastIncreasing DEF Holds
<1> QED BY <1>3, <1>4 DEF LeavesInnermost, IsInnermost

-----------------------------------------------------------------------------
(***************************************************************************)
(* The open statements and the stacks of jump targets.                     *)
(***************************************************************************)
LEMMA OpenKept ==
  ASSUME NEW ns, NEW ns2, NEW op \in Seq(Nat), Chain(ns, op), Kept(ns, ns2)
  PROVE  /\ Chain(ns2, op)
         /\ \A s, K : Holds(ns, op, s, K) => Holds(ns2, op, s, K)
<1>1. Chain(ns2, op)
  BY DEF Chain, Kept
<1>2. \A m \in Range(op) : ns2[m].kind = ns[m].kind
  BY DEF Chain, Kept, Range
<1> QED BY <1>1, <1>2 DEF Holds

LEMMA OpenBelow ==
  ASSUME NEW ns \in Seq(Nodes), NEW op \in Seq(Nat), Chain(ns, op)
  PROVE  \A m \in Range(op) : m \in DOMAIN ns /\ m \in Nat /\ m < Len(ns) + 1
  BY DEF Chain, Range

LEMMA ChainOpened ==
  ASSUME NEW ns \in Seq(Nodes), NEW op \in Seq(Nat), Chain(ns, op), op # <<>>,
         NEW ns2 \in Seq(Nodes), Kept(ns, ns2), Len(ns2) = Len(ns) + 1, ns2[Len(ns2)].up = Last(op)
  PROVE  Append(op, Len(ns2)) \in Seq(Nat) /\ Chain(ns2, Append(op, Len(ns2)))
<1> DEFINE n == Len(ns2)
<1>1. n \in Nat /\ n \in DOMAIN ns2
  OBVIOUS
<1>2. Append(op, n) \in Seq(Nat) /\ Increasing(Append(op, n))
  <2>1. \A m \in Range(op) : m < n
    BY OpenBelow
  <2> QED BY <2>1, <1>1, AppendIncreasing DEF Chain
<1>3. /\ DOMAIN Append(op, n) = 1..(Len(op) + 1) /\ DOMAIN op = 1..Len(op) /\ Len(op) \in Nat \ {0}
      /\ Append(op, n)[Len(op) + 1] = n
      /\ \A i \in DOMAIN op : Append(op, n)[i] = op[i]
  OBVIOUS
<1>4. \A i \in DOMAIN op : op[i] \in DOMAIN ns2 /\ ns2[op[i]].up = IF i = 1 THEN Null ELSE op[i - 1]
  BY DEF Chain, Kept
<1>5. ASSUME NEW i \in DOMAIN Append(op, n)
      PROVE  /\ Append(op, n)[i] \in DOMAIN ns2
             /\ ns2[Append(op, n)[i]].up = IF i = 1 THEN Null ELSE Append(op, n)[i - 1]
  <2>1. CASE i \in DOMAIN op
    <3>1. i # 1 => i - 1 \in DOMAIN op
      BY <2>1, <1>3
    <3> QED BY <3>1, <2>1, <1>3, <1>4
  <2>2. CASE i = Len(op) + 1
    <3>1. i # 1 /\ i - 1 = Len(op) /\ Len(op) \in DOMAIN op
      BY <2>2, <1>3
    <3>2. Append(op, n)[i - 1] = Last(op)
      BY <3>1, <1>3 DEF Last
    <3> QED BY <2>2, <3>1, <3>2, <1>1, <1>3
  <2> QED BY <2>1, <2>2, <1>3
<1> QED BY <1>2, <1>5 DEF Chain

LEMMA HoldsOpened ==
  ASSUME NEW ns \in Seq(Nodes), NEW op \in Seq(Nat), Chain(ns, op),
         NEW ns2 \in Seq(Nodes), Kept(ns, ns2), Len(ns2) = Len(ns) + 1,
         NEW s \in Seq(Nat), NEW K, Holds(ns, op, s, K)
  PROVE  Holds(ns2, Append(op, Len(ns2)), IF ns2[Len(ns2)].kind \in K THEN Append(s, Len(ns2)) ELSE s, K)
<1> DEFINE n == Len(ns2)
<1>1. n \in Nat
  OBVIOUS
<1>2. \A m \in Range(op) : m < n /\ ns2[m].kind = ns[m].kind
  BY OpenBelow DEF Kept
<1>3. Range(Append(op, n)) = Range(op) \cup {n}
  BY <1>1, <1>2, AppendIncreasing DEF Chain
<1>4. \A m \in Range(s) : m < n
  BY <1>2 DEF Holds
<1>5. Increasing(Append(s, n)) /\ Range(Append(s, n)) = Range(s) \cup {n}
  BY <1>1, <1>4, AppendIncreasing DEF Holds
<1> HIDE DEF n
<1> QED BY <1>2, <1>3, <1>5 DEF Holds, n

LEMMA ChainClosed ==
  ASSUME NEW ns \in Seq(Nodes), NEW op \in Seq(Nat), Chain(ns, op), op # <<>>
  PROVE  Front(op) \in Seq(Nat) /\ Chain(ns, Front(op))
<1>1. /\ Len(op) \in Nat \ {0}
      /\ Front(op) \in Seq(Nat) /\ Len(Front(op)) = Len(op) - 1
      /\ \A i \in 1..Len(op)-1 : Front(op)[i] = op[i]
  BY FrontFacts
<1>2. Increasing(Front(op))
  BY FrontIncreasing DEF Chain
<1>3. \A i \in DOMAIN Front(op) :
        i \in DOMAIN op /\ Front(op)[i] = op[i] /\ (i # 1 => Front(op)[i - 1] = op[i - 1])
  <2> TAKE i \in DOMAIN Front(op)
  <2>1. i \in 1..Len(op)-1 /\ i \in DOMAIN op
    BY <1>1
  <2>2. i # 1 => i - 1 \in 1..Len(op)-1
    BY <2>1, <1>1
  <2> QED BY <2>1, <2>2, <1>1
<1> QED BY <1>1, <1>2, <1>3 DEF Chain

LEMMA HoldsClosed ==
  ASSUME NEW ns \in Seq(Nodes), NEW op \in Seq(Nat), Chain(ns, op), op # <<>>,
         NEW s \in Seq(Nat), NEW K, Holds(ns, op, s, K)
  PROVE  /\ Holds(ns, Front(op), IF ns[Last(op)].kind \in K THEN Front(s) ELSE s, K)
         /\ ns[Last(op)].kind \in K => s # <<>>
<1>1. Last(op) \in Range(op) /\ Last(op) \in Nat /\ \A m \in Range(op) : m <= Last(op)
  BY LastIncreasing DEF Chain
<1>2. Range(Front(op)) = Range(op) \ {Last(op)}
  BY FrontIncreasing DEF Chain
<1>3. CASE ns[Last(op)].kind \in K
  <2>1. Last(op) \in Range(s)
    BY <1>1, <1>3 DEF Holds
  <2>2. s # <<>>
    BY <2>1 DEF Range
  <2>3. Last(s) \in Range(s) /\ Last(s) \in Nat /\ \A m \in Range(s) : m <= Last(s)
    BY <2>2, LastIncreasing DEF Holds
  <2>4. Last(s) = Last(op)
    BY <2>1, <2>3, <1>1 DEF Holds
  <2>5. Increasing(Front(s)) /\ Range(Front(s)) = Range(s) \ {Last(s)}
    BY <2>2, FrontIncreasing DEF Holds
  <2> QED BY <2>2, <2>4, <2>5, <1>2, <1>3 DEF Holds
<1>4. CASE ns[Last(op)].kind \notin K
  BY <1>2, <1>4 DEF Holds
<1> QED BY <1>3, <1>4

-----------------------------------------------------------------------------
(***************************************************************************)
(* The scopes of the open statements.                                      *)
(***************************************************************************)
Scoped == {"block", "for"}
ScopesIn(ns, op) == {i \in DOMAIN op : ns[op[i]].kind \in Scoped}

LEMMA ScopesCounted ==
  ASSUME NEW ns, NEW op \in Seq(Nat)
  PROVE  IsFiniteSet(ScopesIn(ns, op)) /\ Cardinality(ScopesIn(ns, op)) \in Nat
<1>1. ScopesIn(ns, op) \in SUBSET (1..Len(op)) /\ Len(op) \in Nat
  BY DEF ScopesIn
<1>2. IsFiniteSet(1..Len(op))
  BY <1>1, FS_Interval
<1> QED BY <1>1, <1>2, FS_Subset, FS_CardinalityType

LEMMA CountKept ==
  ASSUME NEW ns, NEW ns2, NEW op \in Seq(Nat), Chain(ns, op), Kept(ns, ns2)
  PROVE  ScopesIn(ns2, op) = ScopesIn(ns, op)
  BY DEF ScopesIn, Chain, Kept

LEMMA CountOpened ==
  ASSUME NEW ns, NEW op \in Seq(Nat), Chain(ns, op), NEW ns2, Kept(ns, ns2), NEW n \in Nat
  PROVE  Cardinality(ScopesIn(ns2, Append(op, n)))
           = Cardinality(ScopesIn(ns, op)) + IF ns2[n].kind \in Scoped THEN 1 ELSE 0
<1>1. /\ DOMAIN Append(op, n) = 1..(Len(op) + 1) /\ DOMAIN op = 1..Len(op) /\ Len(op) \in Nat
      /\ Append(op, n)[Len(op) + 1] = n
      /\ \A i \in DOMAIN op : Append(op, n)[i] = op[i] /\ ns2[op[i]].kind = ns[op[i]].kind
  BY DEF Chain, Kept
<1>2. Len(op) + 1 \notin ScopesIn(ns, op)
  BY <1>1 DEF ScopesIn
<1>3. ScopesIn(ns2, Append(op, n))
        = IF ns2[n].kind \in Scoped THEN ScopesIn(ns, op) \cup {Len(op) + 1} ELSE ScopesIn(ns, op)
  <2>1. \A i : i \in DOMAIN Append(op, n) <=> i \in DOMAIN op \/ i = Len(op) + 1
    BY <1>1
  <2>2. \A i : i \in ScopesIn(ns2, Append(op, n))
                 <=> i \in ScopesIn(ns, op) \/ (i = Len(op) + 1 /\ ns2[n].kind \in Scoped)
    BY <1>1, <2>1 DEF ScopesIn
  <2> QED BY <2>2
<1>4. IsFiniteSet(ScopesIn(ns, op)) /\ Cardinality(ScopesIn(ns, op)) \in Nat
  BY ScopesCounted
<1>5. Cardinality(ScopesIn(ns, op) \cup {Len(op) + 1}) = Cardinality(ScopesIn(ns, op)) + 1
  BY <1>2, <1>4, FS_AddElement
<1> QED BY <1>3, <1>4, <1>5

LEMMA CountClosed ==
  ASSUME NEW ns, NEW op \in Seq(Nat), op # <<>>
  PROVE  Cardinality(ScopesIn(ns, Front(op)))
           = Cardinality(ScopesIn(ns, op)) - IF ns[Last(op)].kind \in Scoped THEN 1 ELSE 0
<1>1. /\ Len(op) \in Nat \ {0}
      /\ Front(op) \in Seq(Nat) /\ Len(Front(op)) = Len(op) - 1
      /\ \A i \in 1..Len(op)-1 : Front(op)[i] = op[i]
  BY FrontFacts
<1>2. \A i : i \in DOMAIN Front(op) <=> i \in DOMAIN op /\ i # Len(op)
  BY <1>1
<1>3. Len(op) \in ScopesIn(ns, op) <=> ns[Last(op)].kind \in Scoped
  BY <1>1 DEF ScopesIn, Last
<1>4. ScopesIn(ns, Front(op)) = ScopesIn(ns, op) \ {Len(op)}
  <2>1. ASSUME NEW q \in Seq(Nat), Len(q) = Len(op) - 1, \A i \in 1..Len(op)-1 : q[i] = op[i]
        PROVE  \A i \in DOMAIN q : q[i] = op[i]
    <3>1. DOMAIN q = 1..(Len(op) - 1)
      BY <2>1, LenProperties
    <3> QED BY <2>1, <3>1
  <2>2. \A i \in DOMAIN Front(op) : Front(op)[i] = op[i]
    BY <1>1, <2>1
  <2> QED BY <1>2, <2>2 DEF ScopesIn
<1>5. IsFiniteSet(ScopesIn(ns, op)) /\ Cardinality(ScopesIn(ns, op)) \in Nat
  BY ScopesCounted
<1>6. Cardinality(ScopesIn(ns, op) \ {Len(op)})
        = IF Len(op) \in ScopesIn(ns, op) THEN Cardinality(ScopesIn(ns, op)) - 1
          ELSE Cardinality(ScopesIn(ns, op))
  BY <1>5, FS_RemoveElement
<1> QED BY <1>3, <1>4, <1>5, <1>6

LEMMA ScopesOf ==
  /\ OpenScopes = ScopesIn(nodes, open)
  /\ OpenScopes' = ScopesIn(nodes', open')
  BY DEF OpenScopes, ScopesIn, Scoped

-----------------------------------------------------------------------------
(***************************************************************************)
(* The symbol tables keep their type.                                      *)
(***************************************************************************)
LEMMA XIsName == x \in Names
  BY NamesAssumption DEF x

LEMMA EntersScope ==
  ASSUME NEW e \in Seq(Envs)
  PROVE  EnterScope(e) \in Seq(Envs) /\ Len(EnterScope(e)) = Len(e) + 1 /\ EnterScope(e) # <<>>
<1>1. EmptyEnv \in Envs
  BY DEF EmptyEnv, Envs, NoSymbol, Symbols, Shapes, Obj, NoRecord
<1>2. \A a \in Envs : Append(e, a) \in Seq(Envs) /\ Len(Append(e, a)) = Len(e) + 1 /\ Append(e, a) # <<>>
  BY AppendProperties
<1> QED BY <1>1, <1>2 DEF EnterScope

LEMMA LeavesScope ==
  ASSUME NEW e \in Seq(Envs), e # <<>>
  PROVE  ExitScope(e) \in Seq(Envs) /\ Len(ExitScope(e)) = Len(e) - 1
  BY FrontFacts DEF ExitScope

LEMMA SymbolMade ==
  ASSUME NEW n \in Nat
  PROVE  Symbol(n) \in Symbols
  BY DEF Symbol, Symbols, Shapes, Obj

LEMMA AddsObject ==
  ASSUME NEW e \in Seq(Envs), e # <<>>, NEW sym \in Symbols
  PROVE  AddObjSymbol(e, x, sym) \in Seq(Envs) /\ Len(AddObjSymbol(e, x, sym)) = Len(e)
<1>1. Len(e) \in DOMAIN e /\ e[Len(e)] \in Envs
  OBVIOUS
<1>2. [e[Len(e)].obj EXCEPT ![x] = sym] \in [Names -> Symbols]
  BY <1>1 DEF Envs
<1>3. [e[Len(e)] EXCEPT !.obj = [e[Len(e)].obj EXCEPT ![x] = sym]] \in Envs
  BY <1>1, <1>2 DEF Envs
<1>4. [e EXCEPT ![Len(e)].obj[x] = sym]
        = [e EXCEPT ![Len(e)] = [e[Len(e)] EXCEPT !.obj = [e[Len(e)].obj EXCEPT ![x] = sym]]]
  BY <1>1 DEF Envs
<1> QED BY <1>1, <1>3, <1>4 DEF AddObjSymbol

LEMMA ResolvedIsNat ==
  ASSUME NEW e \in Seq(Envs)
  PROVE  Resolved(e) \in Nat
<1> DEFINE found == {i \in DOMAIN e : HasObj(e, i, x)}
<1>1. \A i \in DOMAIN e : e[i].obj[x].at \in Nat
  <2>1. \A i \in DOMAIN e : e[i] \in Envs
    OBVIOUS
  <2> QED BY <2>1, XIsName DEF Envs, Symbols
<1>2. found # {} => Innermost(found) \in found
  <2>1. found \in SUBSET (1..Len(e)) /\ Len(e) \in Nat
    OBVIOUS
  <2> HIDE DEF found
  <2>2. found # {} => \E i \in found : \A j \in found : j <= i
    BY <2>1, Greatest
  <2> QED BY <2>2 DEF Innermost
<1> QED BY <1>1, <1>2 DEF Resolved, FindObjSymbol, NoSymbol

-----------------------------------------------------------------------------
(***************************************************************************)
(* Steps: statement New is added to Cur, Cur is closed, or the statements  *)
(* stay as they are.                                                       *)
(***************************************************************************)
LEMMA CurFacts ==
  ASSUME IInv, status = "run"
  PROVE  /\ open # <<>> /\ Cur = Last(open) /\ Cur \in Nat \ {0} /\ Cur \in DOMAIN nodes
         /\ New \in Nat /\ New = Len(nodes) + 1 /\ New # Null
         /\ envs # <<>>
<1>1. open # <<>> /\ open \in Seq(Nat)
  BY DEF IInv, TypeOK
<1>2. Len(open) \in DOMAIN open
  BY <1>1
<1>3. Cur \in DOMAIN nodes /\ nodes \in Seq(Nodes)
  BY <1>2 DEF Cur, IInv, Chain, TypeOK
<1>4. envs # <<>>
  <2>1. Len(envs) = Cardinality(ScopesIn(nodes, open)) + 1
    BY ScopesOf DEF IInv, ScopesMatch
  <2>2. Cardinality(ScopesIn(nodes, open)) \in Nat
    BY <1>1, ScopesCounted
  <2> QED BY <2>1, <2>2
<1> QED BY <1>1, <1>3, <1>4 DEF Cur, Last, New, Null

LEMMA Adds ==
  ASSUME IInv, status = "run", NEW f \in Nodes, f.up = Cur, Add(f)
  PROVE  /\ nodes' \in Seq(Nodes) /\ Kept(nodes, nodes')
         /\ Len(nodes') = New /\ nodes'[New] = f
         /\ Higher(nodes') /\ Upwards' /\ Rooted'
<1> DEFINE a == [nodes[Cur] EXCEPT !.kids = Append(@, New)]
           b == [nodes EXCEPT ![Cur].kids = Append(@, New)]
<1>1. /\ Cur \in Nat \ {0} /\ Cur \in DOMAIN nodes /\ New \in Nat /\ New = Len(nodes) + 1
      /\ nodes \in Seq(Nodes)
  BY CurFacts DEF IInv, TypeOK
<1>2. a \in Nodes /\ a.kind = nodes[Cur].kind /\ a.up = nodes[Cur].up /\ a.target = nodes[Cur].target
  <2>1. nodes[Cur] \in Nodes /\ Append(nodes[Cur].kids, New) \in Seq(Nat)
    BY <1>1, NodeFields, AppendProperties
  <2> QED BY <2>1 DEF Nodes
<1>3. b = [nodes EXCEPT ![Cur] = a]
  BY <1>1
<1>4. /\ b \in Seq(Nodes) /\ Len(b) = Len(nodes) /\ b[Cur] = a
      /\ \A m \in DOMAIN nodes : m # Cur => b[m] = nodes[m]
  <2> HIDE DEF a, b
  <2> QED BY <1>1, <1>2, <1>3
<1>5. /\ nodes' \in Seq(Nodes) /\ Len(nodes') = Len(b) + 1 /\ nodes'[Len(b) + 1] = f
      /\ \A m \in 1..Len(b) : nodes'[m] = b[m]
  <2>1. nodes' = Append(b, f)
    BY DEF Add
  <2> HIDE DEF b
  <2> QED BY <2>1, <1>4, AppendProperties
<1> HIDE DEF a, b
<1>6. DOMAIN nodes = 1..Len(nodes) /\ DOMAIN nodes' = 1..New
  BY <1>1, <1>4, <1>5
<1>7. \A m \in DOMAIN nodes : /\ m \in DOMAIN nodes'
                              /\ nodes'[m].kind = nodes[m].kind
                              /\ nodes'[m].up = nodes[m].up
                              /\ nodes'[m].target = nodes[m].target
  <2> TAKE m \in DOMAIN nodes
  <2>1. m \in DOMAIN nodes' /\ nodes'[m] = b[m]
    BY <1>1, <1>4, <1>5, <1>6
  <2> QED BY <2>1, <1>2, <1>4
<1>8. nodes'[New] = f
  BY <1>1, <1>4, <1>5
<1>9. \A n \in DOMAIN nodes' : n \in DOMAIN nodes \/ n = New
  BY <1>1, <1>6
<1>10. Higher(nodes')
  <2>1. Cur < New
    BY <1>1
  <2> QED BY <2>1, <1>7, <1>8, <1>9 DEF Higher, IInv, Upwards
<1>11. Rooted'
  BY <1>1, <1>7, <1>8, <1>9 DEF IInv, Rooted, Null
<1> QED BY <1>1, <1>4, <1>5, <1>7, <1>8, <1>10, <1>11 DEF Kept, Higher, Upwards

\* The target of a jump is on top of the stack of its kind.
Aims(f) ==
  /\ f.kind = "break" => breakNodes # <<>> /\ f.target = Last(breakNodes)
  /\ f.kind = "continue" => continueNodes # <<>> /\ f.target = Last(continueNodes)
  /\ f.kind = "default" => switchNodes # <<>> /\ f.target = Last(switchNodes)

LEMMA AddsJump ==
  ASSUME IInv, status = "run", NEW f \in Nodes, f.up = Cur, Add(f), Aims(f)
  PROVE  TargetsAreInnermost'
<1>1. /\ nodes' \in Seq(Nodes) /\ Kept(nodes, nodes')
      /\ Len(nodes') = New /\ nodes'[New] = f /\ Higher(nodes')
  BY Adds
<1>2. /\ open # <<>> /\ Cur = Last(open) /\ New \in Nat /\ New = Len(nodes) + 1
  BY CurFacts
<1>3. /\ nodes \in Seq(Nodes) /\ open \in Seq(Nat) /\ Chain(nodes, open)
      /\ breakNodes \in Seq(Nat) /\ Holds(nodes, open, breakNodes, Breakable)
      /\ continueNodes \in Seq(Nat) /\ Holds(nodes, open, continueNodes, Loops)
      /\ switchNodes \in Seq(Nat) /\ Holds(nodes, open, switchNodes, {"switch"})
  BY DEF IInv, TypeOK, StacksMatch
<1>4. \A n \in DOMAIN nodes : JumpOK(nodes', n)
  <2>1. \A n \in DOMAIN nodes : JumpOK(nodes, n)
    BY TargetsIn DEF IInv
  <2> QED BY <2>1, <1>1, <1>3, JumpsKept
<1>5. JumpOK(nodes', New)
  <2>1. ASSUME NEW s \in Seq(Nat), NEW K, Holds(nodes, open, s, K), s # <<>>, f.target = Last(s)
        PROVE  LeavesInnermost(nodes', New, K)
    BY <2>1, <1>1, <1>2, <1>3, JumpNew
  <2> QED BY <2>1, <1>1, <1>3 DEF JumpOK, Aims
<1>6. \A n \in DOMAIN nodes' : n \in DOMAIN nodes \/ n = New
  BY <1>1, <1>2, <1>3
<1> QED BY <1>4, <1>5, <1>6, TargetsIn

LEMMA Keeps ==
  ASSUME IInv, nodes' \in Seq(Nodes), Len(nodes') = Len(nodes), Kept(nodes, nodes')
  PROVE  Upwards' /\ Rooted' /\ TargetsAreInnermost'
<1>1. nodes \in Seq(Nodes) /\ DOMAIN nodes' = DOMAIN nodes
  BY DEF IInv, TypeOK
<1>2. Upwards' /\ Higher(nodes') /\ Rooted'
  BY <1>1 DEF IInv, Upwards, Rooted, Higher, Kept
<1>3. \A n \in DOMAIN nodes : JumpOK(nodes, n)
  BY TargetsIn DEF IInv
<1> QED BY <1>1, <1>2, <1>3, JumpsKept, TargetsIn

Pushed(s, n, k, K) == IF k \in K THEN Append(s, n) ELSE s
Popped(s, k, K) == IF k \in K THEN Front(s) ELSE s

\* The text ends in an error, or only what is not followed here changes.
LEMMA SameKeeps ==
  ASSUME IInv, nodes' \in Seq(Nodes), Len(nodes') = Len(nodes), Kept(nodes, nodes'),
         open' = open, JumpVars' = JumpVars, envs' = envs, status' = "run" => status = "run"
  PROVE  IInv'
<1>1. open \in Seq(Nat) /\ Chain(nodes, open)
  BY DEF IInv, TypeOK
<1>2. Upwards' /\ Rooted' /\ TargetsAreInnermost'
  BY Keeps
<1>3. TypeOK'
  BY DEF IInv, TypeOK, JumpVars
<1>4. Chain(nodes, open)' /\ StacksMatch'
  BY <1>1, OpenKept DEF IInv, StacksMatch, JumpVars
<1>5. ScopesMatch'
  <2>1. ScopesIn(nodes', open') = ScopesIn(nodes, open)
    BY <1>1, CountKept
  <2> QED BY <2>1, ScopesOf DEF IInv, ScopesMatch
<1> QED BY <1>2, <1>3, <1>4, <1>5 DEF IInv

LEMMA LeafKeeps ==
  ASSUME IInv, status = "run", NEW f \in Nodes, f.up = Cur, Leaf(f), Aims(f),
         JumpVars' = JumpVars, envs' \in Seq(Envs), Len(envs') = Len(envs), status' = status
  PROVE  IInv'
<1>1. open \in Seq(Nat) /\ Chain(nodes, open) /\ open' = open
  BY DEF IInv, TypeOK, Leaf
<1>2. nodes' \in Seq(Nodes) /\ Kept(nodes, nodes') /\ Upwards' /\ Rooted'
  BY Adds DEF Leaf
<1>3. TargetsAreInnermost'
  BY AddsJump DEF Leaf
<1>4. TypeOK'
  BY <1>1, <1>2 DEF IInv, TypeOK, JumpVars
<1>5. Chain(nodes, open)' /\ StacksMatch'
  BY <1>1, <1>2, OpenKept DEF IInv, StacksMatch, JumpVars
<1>6. ScopesMatch'
  <2>1. ScopesIn(nodes', open') = ScopesIn(nodes, open)
    BY <1>1, <1>2, CountKept
  <2> QED BY <2>1, ScopesOf DEF IInv, ScopesMatch
<1> QED BY <1>2, <1>3, <1>4, <1>5, <1>6 DEF IInv

LEMMA CompoundKeeps ==
  ASSUME IInv, status = "run", NEW f \in Nodes, f.up = Cur, Compound(f), Aims(f),
         breakNodes' = Pushed(breakNodes, New, f.kind, Breakable),
         continueNodes' = Pushed(continueNodes, New, f.kind, Loops),
         switchNodes' = Pushed(switchNodes, New, f.kind, {"switch"}),
         envs' \in Seq(Envs), Len(envs') = Len(envs) + IF f.kind \in Scoped THEN 1 ELSE 0,
         status' = status
  PROVE  IInv'
<1>1. /\ nodes \in Seq(Nodes) /\ open \in Seq(Nat) /\ Chain(nodes, open) /\ envs \in Seq(Envs)
      /\ breakNodes \in Seq(Nat) /\ continueNodes \in Seq(Nat) /\ switchNodes \in Seq(Nat)
  BY DEF IInv, TypeOK
<1>2. open # <<>> /\ Cur = Last(open) /\ New \in Nat /\ New = Len(nodes) + 1
  BY CurFacts
<1>3. /\ nodes' \in Seq(Nodes) /\ Kept(nodes, nodes') /\ Upwards' /\ Rooted'
      /\ Len(nodes') = New /\ nodes'[New] = f /\ open' = Append(open, New)
  BY Adds DEF Compound
<1>4. TargetsAreInnermost'
  BY AddsJump DEF Compound
<1>5. open' \in Seq(Nat) /\ Chain(nodes, open)'
  BY <1>1, <1>2, <1>3, ChainOpened
<1>6. TypeOK'
  <2>1. \A s \in Seq(Nat) : Append(s, New) \in Seq(Nat) /\ Append(s, New) # <<>>
    BY <1>2, AppendProperties
  <2> QED BY <1>1, <1>3, <1>5, <2>1 DEF TypeOK, Pushed
<1>7. StacksMatch'
  <2>1. ASSUME NEW s \in Seq(Nat), NEW K, Holds(nodes, open, s, K)
        PROVE  Holds(nodes', open', Pushed(s, New, f.kind, K), K)
    BY <2>1, <1>1, <1>2, <1>3, HoldsOpened DEF Pushed
  <2> QED BY <2>1, <1>1 DEF IInv, StacksMatch
<1>8. ScopesMatch'
  <2>1. Cardinality(ScopesIn(nodes', open'))
          = Cardinality(ScopesIn(nodes, open)) + IF f.kind \in Scoped THEN 1 ELSE 0
    BY <1>1, <1>2, <1>3, CountOpened
  <2>2. Cardinality(ScopesIn(nodes, open)) \in Nat
    BY <1>1, ScopesCounted
  <2>3. Len(envs) = Cardinality(ScopesIn(nodes, open)) + 1
    BY ScopesOf DEF IInv, ScopesMatch
  <2>4. Len(envs') = Cardinality(ScopesIn(nodes', open')) + 1
    BY <2>1, <2>2, <2>3
  <2> QED BY <2>4, ScopesOf DEF ScopesMatch
<1> QED BY <1>3, <1>4, <1>5, <1>6, <1>7, <1>8 DEF IInv

LEMMA CloseKeeps ==
  ASSUME IInv, status = "run", NEW k, k = nodes[Cur].kind, Close,
         nodes' \in Seq(Nodes), Len(nodes') = Len(nodes), Kept(nodes, nodes'),
         breakNodes' = Popped(breakNodes, k, Breakable),
         continueNodes' = Popped(continueNodes, k, Loops),
         switchNodes' = Popped(switchNodes, k, {"switch"}),
         envs' = Popped(envs, k, Scoped),
         status' = "run" => Len(open) # 1
  PROVE  IInv'
<1>1. /\ nodes \in Seq(Nodes) /\ open \in Seq(Nat) /\ Chain(nodes, open) /\ envs \in Seq(Envs)
      /\ breakNodes \in Seq(Nat) /\ continueNodes \in Seq(Nat) /\ switchNodes \in Seq(Nat)
  BY DEF IInv, TypeOK
<1>2. open # <<>> /\ Cur = Last(open) /\ Cur \in DOMAIN nodes /\ envs # <<>> /\ open' = Front(open)
  BY CurFacts DEF Close
<1>3. Upwards' /\ Rooted' /\ TargetsAreInnermost'
  BY Keeps
<1>4. nodes'[Last(open)].kind = k
  BY <1>2 DEF Kept
<1>5. Chain(nodes', open) /\ \A s, K : Holds(nodes, open, s, K) => Holds(nodes', open, s, K)
  BY <1>1, OpenKept
<1>6. open' \in Seq(Nat) /\ Chain(nodes, open)'
  BY <1>1, <1>2, <1>5, ChainClosed
<1>7. ASSUME NEW s \in Seq(Nat), NEW K, Holds(nodes, open, s, K)
      PROVE  Holds(nodes', open', Popped(s, k, K), K) /\ Popped(s, k, K) \in Seq(Nat)
  <2>1. Holds(nodes', open, s, K)
    BY <1>5, <1>7
  <2>2. Holds(nodes', open', Popped(s, k, K), K) /\ (k \in K => s # <<>>)
    BY <2>1, <1>1, <1>2, <1>4, <1>5, HoldsClosed DEF Popped
  <2>3. k \in K => Front(s) \in Seq(Nat)
    BY <2>2, FrontFacts
  <2> QED BY <2>2, <2>3 DEF Popped
<1>8. StacksMatch' /\ breakNodes' \in Seq(Nat) /\ continueNodes' \in Seq(Nat) /\ switchNodes' \in Seq(Nat)
  BY <1>1, <1>7 DEF IInv, StacksMatch
<1>9. TypeOK'
  <2>1. envs' \in Seq(Envs)
    BY <1>1, <1>2, FrontFacts DEF Popped
  <2>2. status' = "run" => open' # <<>>
    <3>1. Len(open) \in Nat \ {0} /\ Len(open') = Len(open) - 1
      BY <1>1, <1>2, FrontFacts
    <3> QED BY <3>1
  <2> QED BY <1>6, <1>8, <2>1, <2>2 DEF TypeOK
<1>10. ScopesMatch'
  <2>1. Cardinality(ScopesIn(nodes', open'))
          = Cardinality(ScopesIn(nodes', open)) - IF k \in Scoped THEN 1 ELSE 0
    BY <1>1, <1>2, <1>4, CountClosed
  <2>2. ScopesIn(nodes', open) = ScopesIn(nodes, open)
    BY <1>1, CountKept
  <2>3. Cardinality(ScopesIn(nodes, open)) \in Nat
    BY <1>1, ScopesCounted
  <2>4. Len(envs) = Cardinality(ScopesIn(nodes, open)) + 1
    BY ScopesOf DEF IInv, ScopesMatch
  <2>5. Len(envs') = Len(envs) - IF k \in Scoped THEN 1 ELSE 0
    <3>1. Len(Front(envs)) = Len(envs) - 1
      BY <1>1, <1>2, FrontFacts
    <3> QED BY <3>1, <1>1 DEF Popped
  <2>6. Len(envs') = Cardinality(ScopesIn(nodes', open')) + 1
    BY <2>1, <2>2, <2>3, <2>4, <2>5
  <2> QED BY <2>6, ScopesOf DEF ScopesMatch
<1> QED BY <1>3, <1>6, <1>8, <1>9, <1>10 DEF IInv

\* Fields that are set later: of the kind, the parent and the target there are none.
LEMMA Touches ==
  ASSUME IInv, NEW n \in DOMAIN nodes, NEW a \in Nodes,
         a.kind = nodes[n].kind, a.up = nodes[n].up, a.target = nodes[n].target,
         nodes' = [nodes EXCEPT ![n] = a]
  PROVE  nodes' \in Seq(Nodes) /\ Len(nodes') = Len(nodes) /\ Kept(nodes, nodes')
<1>1. nodes \in Seq(Nodes)
  BY DEF IInv, TypeOK
<1>2. nodes' \in Seq(Nodes) /\ Len(nodes') = Len(nodes) /\ DOMAIN nodes' = DOMAIN nodes
  BY <1>1
<1>3. \A m \in DOMAIN nodes : nodes'[m] = IF m = n THEN a ELSE nodes[m]
  BY <1>1
<1> QED BY <1>2, <1>3 DEF Kept

LEMMA Untouched ==
  ASSUME IInv, nodes' = nodes
  PROVE  nodes' \in Seq(Nodes) /\ Len(nodes') = Len(nodes) /\ Kept(nodes, nodes')
  BY DEF IInv, TypeOK, Kept

LEMMA NodeMade ==
  ASSUME NEW k \in StatementKinds, NEW p \in Nat
  PROVE  /\ Node(k, p) \in Nodes
         /\ Node(k, p).kind = k /\ Node(k, p).up = p
  BY DEF Node, Nodes, NoHeader, Null

LEMMA KidsSet ==
  ASSUME NEW f \in Nodes, NEW c \in Seq(Nat), NEW g, g = [f EXCEPT !.kids = c]
  PROVE  g \in Nodes /\ g.kind = f.kind /\ g.up = f.up /\ g.target = f.target
  BY DEF Nodes

LEMMA ElsSet ==
  ASSUME NEW f \in Nodes, NEW b \in BOOLEAN, NEW g, g = [f EXCEPT !.els = b]
  PROVE  g \in Nodes /\ g.kind = f.kind /\ g.up = f.up /\ g.target = f.target
  BY DEF Nodes

LEMMA DeclSet ==
  ASSUME NEW f \in Nodes, NEW d \in Nat, NEW g, g = [f EXCEPT !.decl = d]
  PROVE  g \in Nodes /\ g.kind = f.kind /\ g.up = f.up /\ g.target = f.target
  BY DEF Nodes

LEMMA DefaultSet ==
  ASSUME NEW f \in Nodes, NEW d \in Nat, NEW g, g = [f EXCEPT !.dflt = d]
  PROVE  g \in Nodes /\ g.kind = f.kind /\ g.up = f.up /\ g.target = f.target
  BY DEF Nodes

LEMMA TargetSet ==
  ASSUME NEW f \in Nodes, NEW t \in Nat, NEW g, g = [f EXCEPT !.target = t]
  PROVE  g \in Nodes /\ g.kind = f.kind /\ g.up = f.up /\ g.target = t
  BY DEF Nodes

LEMMA ValueSet ==
  ASSUME NEW f \in Nodes, NEW v \in CaseValues, NEW g, g = [f EXCEPT !.val = v]
  PROVE  g \in Nodes /\ g.kind = f.kind /\ g.up = f.up
  BY DEF Nodes

LEMMA ExitKeeps ==
  ASSUME IInv, NEW s, Exit(s), s # "run"
  PROVE  IInv'
<1>1. /\ nodes' = nodes /\ open' = open /\ JumpVars' = JumpVars /\ envs' = envs /\ status' = s
  BY DEF Exit, parserVars, JumpVars
<1> QED BY <1>1, Untouched, SameKeeps

-----------------------------------------------------------------------------
(***************************************************************************)
(* Every procedure of the parser keeps the invariant.                      *)
(***************************************************************************)
LEMMA NullKeeps == ASSUME IInv, NullStmt PROVE IInv'
<1>1. status = "run" /\ Cur \in DOMAIN nodes /\ nodes \in Seq(Nodes)
  BY CurFacts DEF NullStmt, Starts, IInv, TypeOK
<1>2. nodes' \in Seq(Nodes) /\ Len(nodes') = Len(nodes) /\ Kept(nodes, nodes')
  <2>1. CASE nodes' = nodes
    BY <2>1, Untouched
  <2>2. CASE nodes' = [nodes EXCEPT ![Cur].kids = Append(@, Null)]
    <3> DEFINE a == [nodes[Cur] EXCEPT !.kids = Append(nodes[Cur].kids, Null)]
    <3>1. nodes[Cur] \in Nodes /\ Append(nodes[Cur].kids, Null) \in Seq(Nat)
      BY <1>1, NodeFields, AppendProperties DEF Null
    <3>2. a \in Nodes /\ a.kind = nodes[Cur].kind /\ a.up = nodes[Cur].up /\ a.target = nodes[Cur].target
      BY <3>1, KidsSet
    <3>3. nodes' = [nodes EXCEPT ![Cur] = a]
      BY <1>1, <2>2
    <3> HIDE DEF a
    <3> QED BY <1>1, <3>2, <3>3, Touches
  <2> QED BY <2>1, <2>2 DEF NullStmt
<1>3. open' = open /\ JumpVars' = JumpVars /\ envs' = envs /\ status' = status
  BY DEF NullStmt
<1> QED BY <1>1, <1>2, <1>3, SameKeeps

LEMMA DeclareKeeps == ASSUME IInv, ParseDeclareStmt PROVE IInv'
<1>1. status = "run"
  BY DEF ParseDeclareStmt, Starts
<1>2. Cur \in Nat /\ New \in Nat /\ envs \in Seq(Envs) /\ envs # <<>>
  BY <1>1, CurFacts DEF IInv, TypeOK
<1>3. CASE Exit("redefined")
  BY <1>3, ExitKeeps
<1>4. CASE ~ Exit("redefined")
  <2> DEFINE f == [Node("int", Cur) EXCEPT !.decl = New]
  <2>1. f \in Nodes /\ f.kind = "int" /\ f.up = Cur
    <3>1. "int" \in StatementKinds /\ Cur \in Nat
      BY <1>2 DEF StatementKinds, StatementTokens
    <3>2. Node("int", Cur) \in Nodes /\ Node("int", Cur).kind = "int" /\ Node("int", Cur).up = Cur
      BY <3>1, NodeMade
    <3> QED BY <3>2, <1>2, DeclSet
  <2>2. Leaf(f) /\ JumpVars' = JumpVars /\ status' = status /\ envs' = AddObjSymbol(envs, x, Symbol(New))
    BY <1>4 DEF ParseDeclareStmt
  <2> HIDE DEF f
  <2>3. envs' \in Seq(Envs) /\ Len(envs') = Len(envs)
    BY <1>2, <2>2, SymbolMade, AddsObject
  <2>4. Aims(f)
    BY <2>1 DEF Aims
  <2> QED BY <1>1, <2>1, <2>2, <2>3, <2>4, LeafKeeps
<1> QED BY <1>3, <1>4

\* A statement made of one token that enters nothing.
LEMMA PlainLeafKeeps ==
  ASSUME IInv, status = "run", NEW f \in Nodes, f.up = Cur, Leaf(f), Aims(f),
         UNCHANGED <<JumpVars, envs, status>>
  PROVE  IInv'
<1>1. envs' \in Seq(Envs) /\ Len(envs') = Len(envs) /\ JumpVars' = JumpVars /\ status' = status
  BY DEF IInv, TypeOK
<1> QED BY <1>1, LeafKeeps

LEMMA ExprKeeps == ASSUME IInv, ParseExprStmt PROVE IInv'
<1>1. CASE Starts("x") /\ Leaf([Node("x", Cur) EXCEPT !.decl = Resolved(envs)])
           /\ UNCHANGED <<JumpVars, envs, status>>
  <2> DEFINE f == [Node("x", Cur) EXCEPT !.decl = Resolved(envs)]
  <2>1. status = "run"
    BY <1>1 DEF Starts
  <2>2. Cur \in Nat /\ Resolved(envs) \in Nat
    BY <2>1, CurFacts, ResolvedIsNat DEF IInv, TypeOK
  <2>3. f \in Nodes /\ f.kind = "x" /\ f.up = Cur
    <3>1. "x" \in StatementKinds /\ Cur \in Nat
      BY <2>2 DEF StatementKinds, StatementTokens
    <3>2. Node("x", Cur) \in Nodes /\ Node("x", Cur).kind = "x" /\ Node("x", Cur).up = Cur
      BY <3>1, NodeMade
    <3> QED BY <3>2, <2>2, DeclSet
  <2>4. Leaf(f) /\ UNCHANGED <<JumpVars, envs, status>>
    BY <1>1
  <2> HIDE DEF f
  <2>5. Aims(f)
    BY <2>3 DEF Aims
  <2> QED BY <2>1, <2>3, <2>4, <2>5, PlainLeafKeeps
<1>2. CASE Exit("syntax")
  BY <1>2, ExitKeeps
<1> QED BY <1>1, <1>2 DEF ParseExprStmt

LEMMA BreakKeeps == ASSUME IInv, ParseBreakStmt PROVE IInv'
<1>1. status = "run"
  BY DEF ParseBreakStmt, Starts
<1>2. CASE breakNodes = <<>>
  BY <1>2, ExitKeeps DEF ParseBreakStmt
<1>3. CASE breakNodes # <<>>
  <2> DEFINE f == [Node("break", Cur) EXCEPT !.target = Last(breakNodes)]
  <2>1. Cur \in Nat /\ Last(breakNodes) \in Nat
    BY <1>1, <1>3, CurFacts, LastIncreasing DEF IInv, TypeOK, StacksMatch, Holds
  <2>2. f \in Nodes /\ f.kind = "break" /\ f.up = Cur /\ f.target = Last(breakNodes)
    <3>1. "break" \in StatementKinds /\ Cur \in Nat
      BY <2>1 DEF StatementKinds, StatementTokens
    <3>2. Node("break", Cur) \in Nodes /\ Node("break", Cur).kind = "break" /\ Node("break", Cur).up = Cur
      BY <3>1, NodeMade
    <3> QED BY <3>2, <2>1, TargetSet
  <2>3. Leaf(f) /\ UNCHANGED <<JumpVars, envs, status>>
    BY <1>3 DEF ParseBreakStmt
  <2> HIDE DEF f
  <2>4. Aims(f)
    BY <1>3, <2>2 DEF Aims
  <2> QED BY <1>1, <2>2, <2>3, <2>4, PlainLeafKeeps
<1> QED BY <1>2, <1>3

LEMMA ContinueKeeps == ASSUME IInv, ParseContinueStmt PROVE IInv'
<1>1. status = "run"
  BY DEF ParseContinueStmt, Starts
<1>2. CASE continueNodes = <<>>
  BY <1>2, ExitKeeps DEF ParseContinueStmt
<1>3. CASE continueNodes # <<>>
  <2> DEFINE f == [Node("continue", Cur) EXCEPT !.target = Last(continueNodes)]
  <2>1. Cur \in Nat /\ Last(continueNodes) \in Nat
    BY <1>1, <1>3, CurFacts, LastIncreasing DEF IInv, TypeOK, StacksMatch, Holds
  <2>2. f \in Nodes /\ f.kind = "continue" /\ f.up = Cur /\ f.target = Last(continueNodes)
    <3>1. "continue" \in StatementKinds /\ Cur \in Nat
      BY <2>1 DEF StatementKinds, StatementTokens
    <3>2. Node("continue", Cur) \in Nodes /\ Node("continue", Cur).kind = "continue" /\ Node("continue", Cur).up = Cur
      BY <3>1, NodeMade
    <3> QED BY <3>2, <2>1, TargetSet
  <2>3. Leaf(f) /\ UNCHANGED <<JumpVars, envs, status>>
    BY <1>3 DEF ParseContinueStmt
  <2> HIDE DEF f
  <2>4. Aims(f)
    BY <1>3, <2>2 DEF Aims
  <2> QED BY <1>1, <2>2, <2>3, <2>4, PlainLeafKeeps
<1> QED BY <1>2, <1>3

LEMMA ReturnKeeps == ASSUME IInv, ParseReturnStmt PROVE IInv'
<1> DEFINE f == Node("return", Cur)
<1>1. status = "run" /\ Leaf(f) /\ UNCHANGED <<JumpVars, envs, status>>
  BY DEF ParseReturnStmt, Starts
<1>2. f \in Nodes /\ f.kind = "return" /\ f.up = Cur
  <2>1. Cur \in Nat
    BY <1>1, CurFacts
  <2> QED BY <2>1, NodeMade DEF StatementKinds, StatementTokens
<1> HIDE DEF f
<1>3. Aims(f)
  BY <1>2 DEF Aims
<1> QED BY <1>1, <1>2, <1>3, PlainLeafKeeps

LEMMA BeyondKeeps == ASSUME IInv, Beyond PROVE IInv'
  BY ExitKeeps DEF Beyond

\* A statement that opens no scope begins or ends.
LEMMA PlainCompoundKeeps ==
  ASSUME IInv, status = "run", NEW f \in Nodes, f.up = Cur, f.kind \notin Scoped, Compound(f), Aims(f),
         breakNodes' = Pushed(breakNodes, New, f.kind, Breakable),
         continueNodes' = Pushed(continueNodes, New, f.kind, Loops),
         switchNodes' = Pushed(switchNodes, New, f.kind, {"switch"}),
         UNCHANGED <<envs, status>>
  PROVE  IInv'
<1>1. envs' \in Seq(Envs) /\ Len(envs') = Len(envs) + IF f.kind \in Scoped THEN 1 ELSE 0
  BY DEF IInv, TypeOK
<1> QED BY <1>1, CompoundKeeps

LEMMA PlainCloseKeeps ==
  ASSUME IInv, status = "run", NEW k, k = nodes[Cur].kind, k # "block", Close,
         nodes' \in Seq(Nodes), Len(nodes') = Len(nodes), Kept(nodes, nodes'),
         breakNodes' = Popped(breakNodes, k, Breakable),
         continueNodes' = Popped(continueNodes, k, Loops),
         switchNodes' = Popped(switchNodes, k, {"switch"}),
         envs' = Popped(envs, k, Scoped), UNCHANGED status
  PROVE  IInv'
<1>1. open \in Seq(Nat) /\ Chain(nodes, open) /\ open # <<>>
  BY CurFacts DEF IInv, TypeOK
<1>2. Len(open) # 1
  <2> SUFFICES ASSUME Len(open) = 1 PROVE FALSE
    OBVIOUS
  <2>1. 1 \in DOMAIN open /\ Cur = open[1]
    BY <1>1 DEF Cur
  <2>2. Cur \in DOMAIN nodes /\ nodes[Cur].up = Null
    BY <2>1, <1>1 DEF Chain
  <2> QED BY <2>2 DEF IInv, Rooted
<1> QED BY <1>2, CloseKeeps

LEMMA IfKeeps == ASSUME IInv, ParseIfStmt PROVE IInv'
<1>1. status = "run"
  BY DEF ParseIfStmt, Starts, Finishes
<1>2. Cur \in Nat /\ Cur \in DOMAIN nodes /\ nodes \in Seq(Nodes) /\ envs \in Seq(Envs)
  BY <1>1, CurFacts DEF IInv, TypeOK
<1>3. CASE Compound([Node("if", Cur) EXCEPT !.decl = Resolved(envs)]) /\ UNCHANGED <<JumpVars, envs, status>>
  <2> DEFINE f == [Node("if", Cur) EXCEPT !.decl = Resolved(envs)]
  <2>1. f \in Nodes /\ f.kind = "if" /\ f.up = Cur
    <3>1. "if" \in StatementKinds /\ Resolved(envs) \in Nat
      BY <1>2, ResolvedIsNat DEF StatementKinds, StatementTokens
    <3>2. Node("if", Cur) \in Nodes /\ Node("if", Cur).kind = "if" /\ Node("if", Cur).up = Cur
      BY <1>2, <3>1, NodeMade
    <3> QED BY <3>1, <3>2, DeclSet
  <2>2. Compound(f)
    BY <1>3
  <2> HIDE DEF f
  <2>3. Aims(f) /\ f.kind \notin Scoped
    BY <2>1 DEF Aims, Scoped
  <2>4. /\ breakNodes' = Pushed(breakNodes, New, f.kind, Breakable)
        /\ continueNodes' = Pushed(continueNodes, New, f.kind, Loops)
        /\ switchNodes' = Pushed(switchNodes, New, f.kind, {"switch"})
    BY <1>3, <2>1 DEF JumpVars, Pushed, Breakable, Loops
  <2> QED BY <1>1, <1>3, <2>1, <2>2, <2>3, <2>4, PlainCompoundKeeps
<1>4. CASE nodes' = [nodes EXCEPT ![Cur].els = TRUE] /\ UNCHANGED <<open, JumpVars, envs, status>>
  <2> DEFINE a == [nodes[Cur] EXCEPT !.els = TRUE]
  <2>1. a \in Nodes /\ a.kind = nodes[Cur].kind /\ a.up = nodes[Cur].up /\ a.target = nodes[Cur].target
    <3>1. nodes[Cur] \in Nodes /\ TRUE \in BOOLEAN
      BY <1>2
    <3> QED BY <3>1, ElsSet
  <2>2. nodes' = [nodes EXCEPT ![Cur] = a]
    BY <1>2, <1>4
  <2> HIDE DEF a
  <2>3. nodes' \in Seq(Nodes) /\ Len(nodes') = Len(nodes) /\ Kept(nodes, nodes')
    BY <1>2, <2>1, <2>2, Touches
  <2>4. open' = open /\ JumpVars' = JumpVars /\ envs' = envs /\ status' = status
    BY <1>4
  <2> QED BY <1>1, <2>3, <2>4, SameKeeps
<1>5. CASE Finishes({"if"}) /\ Close /\ UNCHANGED <<token, nodes, JumpVars, envs, status>>
  <2>1. nodes' \in Seq(Nodes) /\ Len(nodes') = Len(nodes) /\ Kept(nodes, nodes')
    BY <1>5, Untouched
  <2>2. nodes[Cur].kind = "if"
    BY <1>5 DEF Finishes
  <2>3. /\ breakNodes' = Popped(breakNodes, "if", Breakable)
        /\ continueNodes' = Popped(continueNodes, "if", Loops)
        /\ switchNodes' = Popped(switchNodes, "if", {"switch"})
        /\ envs' = Popped(envs, "if", Scoped)
    BY <1>5 DEF JumpVars, Popped, Breakable, Loops, Scoped
  <2> QED BY <1>1, <1>5, <2>1, <2>2, <2>3, PlainCloseKeeps
<1> QED BY <1>3, <1>4, <1>5 DEF ParseIfStmt

LEMMA BlockKeeps == ASSUME IInv, ParseBlockStmt PROVE IInv'
<1>1. status = "run"
  BY DEF ParseBlockStmt, Starts, Finishes
<1>2. Cur \in Nat /\ envs \in Seq(Envs)
  BY <1>1, CurFacts DEF IInv, TypeOK
<1>3. CASE Compound(Node("block", Cur)) /\ envs' = EnterScope(envs) /\ UNCHANGED <<JumpVars, status>>
  <2> DEFINE f == Node("block", Cur)
  <2>1. f \in Nodes /\ f.kind = "block" /\ f.up = Cur
    <3>1. "block" \in StatementKinds
      BY DEF StatementKinds
    <3> QED BY <1>2, <3>1, NodeMade
  <2>2. Compound(f)
    BY <1>3
  <2> HIDE DEF f
  <2>3. Aims(f)
    BY <2>1 DEF Aims
  <2>4. /\ breakNodes' = Pushed(breakNodes, New, f.kind, Breakable)
        /\ continueNodes' = Pushed(continueNodes, New, f.kind, Loops)
        /\ switchNodes' = Pushed(switchNodes, New, f.kind, {"switch"})
    BY <1>3, <2>1 DEF JumpVars, Pushed, Breakable, Loops
  <2>5. envs' \in Seq(Envs) /\ Len(envs') = Len(envs) + IF f.kind \in Scoped THEN 1 ELSE 0
    BY <1>2, <1>3, <2>1, EntersScope DEF Scoped
  <2> QED BY <1>1, <1>3, <2>1, <2>2, <2>3, <2>4, <2>5, CompoundKeeps
<1>4. CASE /\ Finishes({"block"}) /\ Close /\ envs' = ExitScope(envs)
           /\ IF Len(open) = 1 THEN status' = "parsed" /\ UNCHANGED <<token, nodes>>
              ELSE UNCHANGED <<nodes, status>> /\ NextToken
           /\ UNCHANGED JumpVars
  <2>1. nodes' \in Seq(Nodes) /\ Len(nodes') = Len(nodes) /\ Kept(nodes, nodes')
    BY <1>4, Untouched
  <2>2. nodes[Cur].kind = "block"
    BY <1>4 DEF Finishes
  <2>3. /\ breakNodes' = Popped(breakNodes, "block", Breakable)
        /\ continueNodes' = Popped(continueNodes, "block", Loops)
        /\ switchNodes' = Popped(switchNodes, "block", {"switch"})
        /\ envs' = Popped(envs, "block", Scoped)
    BY <1>4 DEF JumpVars, Popped, Breakable, Loops, Scoped, ExitScope
  <2>4. status' = "run" => Len(open) # 1
    BY <1>4
  <2> QED BY <1>1, <1>4, <2>1, <2>2, <2>3, <2>4, CloseKeeps
<1> QED BY <1>3, <1>4 DEF ParseBlockStmt


LEMMA WhileKeeps == ASSUME IInv, ParseWhileStmt PROVE IInv'
<1>1. status = "run"
  BY DEF ParseWhileStmt, Starts, Finishes
<1>2. Cur \in Nat /\ Cur \in DOMAIN nodes /\ nodes \in Seq(Nodes) /\ envs \in Seq(Envs) /\ envs # <<>>
  BY <1>1, CurFacts DEF IInv, TypeOK
<1>3. CASE EnterLoop(New) /\ Compound([Node("while", Cur) EXCEPT !.decl = Resolved(envs)])
           /\ UNCHANGED <<switchNodes, envs, status>>
  <2> DEFINE f == [Node("while", Cur) EXCEPT !.decl = Resolved(envs)]
  <2>1. f \in Nodes /\ f.kind = "while" /\ f.up = Cur
    <3>1. "while" \in StatementKinds /\ Resolved(envs) \in Nat
      BY <1>2, ResolvedIsNat DEF StatementKinds, StatementTokens
    <3>2. Node("while", Cur) \in Nodes /\ Node("while", Cur).kind = "while" /\ Node("while", Cur).up = Cur
      BY <1>2, <3>1, NodeMade
    <3> QED BY <3>1, <3>2, DeclSet
  <2>2. Compound(f) /\ UNCHANGED <<envs, status>>
    BY <1>3
  <2> HIDE DEF f
  <2>3. Aims(f) /\ f.kind \notin Scoped
    BY <2>1 DEF Aims, Scoped
  <2>4. /\ breakNodes' = Pushed(breakNodes, New, f.kind, Breakable)
        /\ continueNodes' = Pushed(continueNodes, New, f.kind, Loops)
        /\ switchNodes' = Pushed(switchNodes, New, f.kind, {"switch"})
    BY <1>3, <2>1 DEF EnterLoop, EnterSwitch, JumpVars, Pushed, Breakable, Loops
  <2> QED BY <1>1, <2>1, <2>2, <2>3, <2>4, PlainCompoundKeeps
<1>4. CASE Finishes({"while"}) /\ Close /\ LeaveLoop /\ UNCHANGED <<token, nodes, switchNodes, envs, status>>
  <2>1. nodes' \in Seq(Nodes) /\ Len(nodes') = Len(nodes) /\ Kept(nodes, nodes')
    BY <1>4, Untouched
  <2>2. nodes[Cur].kind = "while" /\ Close /\ status' = status
    BY <1>4 DEF Finishes
  <2>3. /\ breakNodes' = Popped(breakNodes, "while", Breakable)
        /\ continueNodes' = Popped(continueNodes, "while", Loops)
        /\ switchNodes' = Popped(switchNodes, "while", {"switch"})
        /\ envs' = Popped(envs, "while", Scoped)
    BY <1>4 DEF LeaveLoop, LeaveSwitch, JumpVars, Popped, Breakable, Loops, Scoped, ExitScope
  <2> QED BY <1>1, <2>1, <2>2, <2>3, PlainCloseKeeps
<1> QED BY <1>3, <1>4 DEF ParseWhileStmt

LEMMA ForKeeps == ASSUME IInv, ParseForStmt PROVE IInv'
<1>1. status = "run"
  BY DEF ParseForStmt, Starts, Finishes
<1>2. Cur \in Nat /\ Cur \in DOMAIN nodes /\ nodes \in Seq(Nodes) /\ envs \in Seq(Envs) /\ envs # <<>>
  BY <1>1, CurFacts DEF IInv, TypeOK
<1>3. ASSUME NEW s \in ForShapes, NEW inner,
             inner = IF s.init THEN AddObjSymbol(EnterScope(envs), x, Symbol(New)) ELSE EnterScope(envs),
             EnterLoop(New), envs' = inner,
             Compound([Node("for", Cur) EXCEPT !.header = s, !.decl = Resolved(inner)]),
             UNCHANGED <<switchNodes, status>>
      PROVE  IInv'
  <2> DEFINE f == [Node("for", Cur) EXCEPT !.header = s, !.decl = Resolved(inner)]
  <2>5. inner \in Seq(Envs) /\ Len(inner) = Len(envs) + 1
    <3>1. New \in Nat
      BY <1>1, CurFacts
    <3> QED BY <1>2, <1>3, <3>1, EntersScope, SymbolMade, AddsObject
  <2>6. Resolved(inner) \in Nat
    BY <2>5, ResolvedIsNat
  <2>1. f \in Nodes /\ f.kind = "for" /\ f.up = Cur
    <3>1. "for" \in StatementKinds
      BY DEF StatementKinds, StatementTokens
    <3>2. Node("for", Cur) \in Nodes /\ Node("for", Cur).kind = "for" /\ Node("for", Cur).up = Cur
      BY <1>2, <3>1, NodeMade
    <3>3. s \in ForShapes /\ f = [Node("for", Cur) EXCEPT !.header = s, !.decl = Resolved(inner)]
      BY <1>3
    <3> HIDE DEF f
    <3> QED BY <3>2, <3>3, <2>6, ForShapesAssumption DEF Nodes
  <2>2. Compound(f)
    BY <1>3
  <2> HIDE DEF f
  <2>3. Aims(f)
    BY <2>1 DEF Aims
  <2>4. /\ breakNodes' = Pushed(breakNodes, New, f.kind, Breakable)
        /\ continueNodes' = Pushed(continueNodes, New, f.kind, Loops)
        /\ switchNodes' = Pushed(switchNodes, New, f.kind, {"switch"})
    BY <1>3, <2>1 DEF EnterLoop, EnterSwitch, JumpVars, Pushed, Breakable, Loops
  <2>7. envs' \in Seq(Envs) /\ Len(envs') = Len(envs) + IF f.kind \in Scoped THEN 1 ELSE 0
    BY <1>3, <2>1, <2>5 DEF Scoped
  <2> QED BY <1>1, <1>3, <2>1, <2>2, <2>3, <2>4, <2>7, CompoundKeeps
<1>4. CASE Finishes({"for"}) /\ Close /\ LeaveLoop /\ envs' = ExitScope(envs)
           /\ UNCHANGED <<token, nodes, switchNodes, status>>
  <2>1. nodes' \in Seq(Nodes) /\ Len(nodes') = Len(nodes) /\ Kept(nodes, nodes')
    BY <1>4, Untouched
  <2>2. nodes[Cur].kind = "for" /\ Close /\ status' = status
    BY <1>4 DEF Finishes
  <2>3. /\ breakNodes' = Popped(breakNodes, "for", Breakable)
        /\ continueNodes' = Popped(continueNodes, "for", Loops)
        /\ switchNodes' = Popped(switchNodes, "for", {"switch"})
        /\ envs' = Popped(envs, "for", Scoped)
    BY <1>4 DEF LeaveLoop, LeaveSwitch, JumpVars, Popped, Breakable, Loops, Scoped, ExitScope
  <2> QED BY <1>1, <2>1, <2>2, <2>3, PlainCloseKeeps
<1> QED BY <1>3, <1>4 DEF ParseForStmt

LEMMA DoWhileKeeps == ASSUME IInv, ParseDoWhileStmt PROVE IInv'
<1>1. status = "run"
  BY DEF ParseDoWhileStmt, Starts, Finishes
<1>2. Cur \in Nat /\ Cur \in DOMAIN nodes /\ nodes \in Seq(Nodes) /\ envs \in Seq(Envs) /\ envs # <<>>
  BY <1>1, CurFacts DEF IInv, TypeOK
<1>3. CASE EnterLoop(New) /\ Compound(Node("do", Cur)) /\ UNCHANGED <<switchNodes, envs, status>>
  <2> DEFINE f == Node("do", Cur)
  <2>1. f \in Nodes /\ f.kind = "do" /\ f.up = Cur
    <3>1. "do" \in StatementKinds
      BY DEF StatementKinds, StatementTokens
    <3>2. Node("do", Cur) \in Nodes /\ Node("do", Cur).kind = "do" /\ Node("do", Cur).up = Cur
      BY <1>2, <3>1, NodeMade
    <3> QED BY <3>1, <3>2
  <2>2. Compound(f) /\ UNCHANGED <<envs, status>>
    BY <1>3
  <2> HIDE DEF f
  <2>3. Aims(f) /\ f.kind \notin Scoped
    BY <2>1 DEF Aims, Scoped
  <2>4. /\ breakNodes' = Pushed(breakNodes, New, f.kind, Breakable)
        /\ continueNodes' = Pushed(continueNodes, New, f.kind, Loops)
        /\ switchNodes' = Pushed(switchNodes, New, f.kind, {"switch"})
    BY <1>3, <2>1 DEF EnterLoop, EnterSwitch, JumpVars, Pushed, Breakable, Loops
  <2> QED BY <1>1, <2>1, <2>2, <2>3, <2>4, PlainCompoundKeeps
<1>4. CASE Exit("syntax")
  BY <1>4, ExitKeeps
<1>5. CASE /\ Finishes({"do"}) /\ nodes' = [nodes EXCEPT ![Cur].decl = Resolved(envs)]
           /\ Close /\ LeaveLoop /\ UNCHANGED <<switchNodes, envs, status>>
  <2> DEFINE a == [nodes[Cur] EXCEPT !.decl = Resolved(envs)]
  <2>1. a \in Nodes /\ a.kind = nodes[Cur].kind /\ a.up = nodes[Cur].up /\ a.target = nodes[Cur].target
    <3>1. nodes[Cur] \in Nodes /\ Resolved(envs) \in Nat
      BY <1>2, ResolvedIsNat
    <3> QED BY <3>1, DeclSet
  <2>2. nodes' = [nodes EXCEPT ![Cur] = a]
    BY <1>2, <1>5
  <2> HIDE DEF a
  <2>3. nodes' \in Seq(Nodes) /\ Len(nodes') = Len(nodes) /\ Kept(nodes, nodes')
    BY <1>2, <2>1, <2>2, Touches
  <2>4. nodes[Cur].kind = "do" /\ Close /\ status' = status
    BY <1>5 DEF Finishes
  <2>5. /\ breakNodes' = Popped(breakNodes, "do", Breakable)
        /\ continueNodes' = Popped(continueNodes, "do", Loops)
        /\ switchNodes' = Popped(switchNodes, "do", {"switch"})
        /\ envs' = Popped(envs, "do", Scoped)
    BY <1>5 DEF LeaveLoop, Popped, Breakable, Loops, Scoped
  <2> QED BY <1>1, <2>3, <2>4, <2>5, PlainCloseKeeps
<1> QED BY <1>3, <1>4, <1>5 DEF ParseDoWhileStmt

LEMMA SwitchKeeps == ASSUME IInv, ParseSwitchStmt PROVE IInv'
<1>1. status = "run"
  BY DEF ParseSwitchStmt, Starts, Finishes
<1>2. Cur \in Nat /\ Cur \in DOMAIN nodes /\ nodes \in Seq(Nodes) /\ envs \in Seq(Envs) /\ envs # <<>>
  BY <1>1, CurFacts DEF IInv, TypeOK
<1>3. CASE EnterSwitch(New) /\ Compound([Node("switch", Cur) EXCEPT !.decl = Resolved(envs)])
           /\ UNCHANGED <<continueNodes, envs, status>>
  <2> DEFINE f == [Node("switch", Cur) EXCEPT !.decl = Resolved(envs)]
  <2>1. f \in Nodes /\ f.kind = "switch" /\ f.up = Cur
    <3>1. "switch" \in StatementKinds /\ Resolved(envs) \in Nat
      BY <1>2, ResolvedIsNat DEF StatementKinds, StatementTokens
    <3>2. Node("switch", Cur) \in Nodes /\ Node("switch", Cur).kind = "switch" /\ Node("switch", Cur).up = Cur
      BY <1>2, <3>1, NodeMade
    <3> QED BY <3>1, <3>2, DeclSet
  <2>2. Compound(f) /\ UNCHANGED <<envs, status>>
    BY <1>3
  <2> HIDE DEF f
  <2>3. Aims(f) /\ f.kind \notin Scoped
    BY <2>1 DEF Aims, Scoped
  <2>4. /\ breakNodes' = Pushed(breakNodes, New, f.kind, Breakable)
        /\ continueNodes' = Pushed(continueNodes, New, f.kind, Loops)
        /\ switchNodes' = Pushed(switchNodes, New, f.kind, {"switch"})
    BY <1>3, <2>1 DEF EnterLoop, EnterSwitch, JumpVars, Pushed, Breakable, Loops
  <2> QED BY <1>1, <2>1, <2>2, <2>3, <2>4, PlainCompoundKeeps
<1>4. CASE Finishes({"switch"}) /\ Close /\ LeaveSwitch /\ UNCHANGED <<token, nodes, continueNodes, envs, status>>
  <2>1. nodes' \in Seq(Nodes) /\ Len(nodes') = Len(nodes) /\ Kept(nodes, nodes')
    BY <1>4, Untouched
  <2>2. nodes[Cur].kind = "switch" /\ Close /\ status' = status
    BY <1>4 DEF Finishes
  <2>3. /\ breakNodes' = Popped(breakNodes, "switch", Breakable)
        /\ continueNodes' = Popped(continueNodes, "switch", Loops)
        /\ switchNodes' = Popped(switchNodes, "switch", {"switch"})
        /\ envs' = Popped(envs, "switch", Scoped)
    BY <1>4 DEF LeaveLoop, LeaveSwitch, JumpVars, Popped, Breakable, Loops, Scoped, ExitScope
  <2> QED BY <1>1, <2>1, <2>2, <2>3, PlainCloseKeeps
<1> QED BY <1>3, <1>4 DEF ParseSwitchStmt

LEMMA CaseKeeps == ASSUME IInv, ParseCaseStmt PROVE IInv'
<1>1. status = "run"
  BY DEF ParseCaseStmt, Starts, Finishes
<1>2. Cur \in Nat /\ Cur \in DOMAIN nodes /\ nodes \in Seq(Nodes) /\ envs \in Seq(Envs) /\ envs # <<>>
  BY <1>1, CurFacts DEF IInv, TypeOK
<1>3. ASSUME NEW v \in CaseValues, Compound([Node("case", Cur) EXCEPT !.val = v]),
             UNCHANGED <<JumpVars, envs, status>>
      PROVE  IInv'
  <2> DEFINE f == [Node("case", Cur) EXCEPT !.val = v]
  <2>1. f \in Nodes /\ f.kind = "case" /\ f.up = Cur
    <3>1. "case" \in StatementKinds
      BY DEF StatementKinds, StatementTokens
    <3>2. Node("case", Cur) \in Nodes /\ Node("case", Cur).kind = "case" /\ Node("case", Cur).up = Cur
      BY <1>2, <3>1, NodeMade
    <3> QED BY <3>1, <3>2, ValueSet
  <2>2. Compound(f) /\ UNCHANGED <<envs, status>>
    BY <1>3
  <2> HIDE DEF f
  <2>3. Aims(f) /\ f.kind \notin Scoped
    BY <2>1 DEF Aims, Scoped
  <2>4. /\ breakNodes' = Pushed(breakNodes, New, f.kind, Breakable)
        /\ continueNodes' = Pushed(continueNodes, New, f.kind, Loops)
        /\ switchNodes' = Pushed(switchNodes, New, f.kind, {"switch"})
    BY <1>3, <2>1 DEF EnterLoop, EnterSwitch, JumpVars, Pushed, Breakable, Loops
  <2> QED BY <1>1, <2>1, <2>2, <2>3, <2>4, PlainCompoundKeeps
<1>4. CASE Finishes({"case"}) /\ Close /\ UNCHANGED <<token, nodes, JumpVars, envs, status>>
  <2>1. nodes' \in Seq(Nodes) /\ Len(nodes') = Len(nodes) /\ Kept(nodes, nodes')
    BY <1>4, Untouched
  <2>2. nodes[Cur].kind = "case" /\ Close /\ status' = status
    BY <1>4 DEF Finishes
  <2>3. /\ breakNodes' = Popped(breakNodes, "case", Breakable)
        /\ continueNodes' = Popped(continueNodes, "case", Loops)
        /\ switchNodes' = Popped(switchNodes, "case", {"switch"})
        /\ envs' = Popped(envs, "case", Scoped)
    BY <1>4 DEF LeaveLoop, LeaveSwitch, JumpVars, Popped, Breakable, Loops, Scoped, ExitScope
  <2> QED BY <1>1, <2>1, <2>2, <2>3, PlainCloseKeeps
<1>5. CASE Exit("case")
  BY <1>5, ExitKeeps
<1> QED BY <1>3, <1>4, <1>5 DEF ParseCaseStmt

LEMMA DefaultKeeps == ASSUME IInv, ParseDefaultStmt PROVE IInv'
<1>1. status = "run"
  BY DEF ParseDefaultStmt, Starts, Finishes
<1>2. Cur \in Nat /\ Cur \in DOMAIN nodes /\ nodes \in Seq(Nodes) /\ envs \in Seq(Envs) /\ envs # <<>>
  BY <1>1, CurFacts DEF IInv, TypeOK
<1>3. CASE /\ switchNodes # <<>>
           /\ Compound([Node("default", Cur) EXCEPT !.target = Last(switchNodes)])
           /\ UNCHANGED <<JumpVars, envs, status>>
  <2> DEFINE f == [Node("default", Cur) EXCEPT !.target = Last(switchNodes)]
  <2>1. f \in Nodes /\ f.kind = "default" /\ f.up = Cur /\ f.target = Last(switchNodes)
    <3>1. "default" \in StatementKinds /\ Last(switchNodes) \in Nat
      BY <1>3, LastIncreasing DEF IInv, TypeOK, StacksMatch, Holds, StatementKinds, StatementTokens
    <3>2. Node("default", Cur) \in Nodes /\ Node("default", Cur).kind = "default" /\ Node("default", Cur).up = Cur
      BY <1>2, <3>1, NodeMade
    <3> QED BY <3>1, <3>2, TargetSet
  <2>2. Compound(f) /\ UNCHANGED <<envs, status>>
    BY <1>3
  <2> HIDE DEF f
  <2>3. Aims(f) /\ f.kind \notin Scoped
    BY <1>3, <2>1 DEF Aims, Scoped
  <2>4. /\ breakNodes' = Pushed(breakNodes, New, f.kind, Breakable)
        /\ continueNodes' = Pushed(continueNodes, New, f.kind, Loops)
        /\ switchNodes' = Pushed(switchNodes, New, f.kind, {"switch"})
    BY <1>3, <2>1 DEF EnterLoop, EnterSwitch, JumpVars, Pushed, Breakable, Loops
  <2> QED BY <1>1, <2>1, <2>2, <2>3, <2>4, PlainCompoundKeeps
<1>4. CASE /\ Finishes({"default"}) /\ Close
           /\ nodes' = [nodes EXCEPT ![nodes[Cur].target].dflt = Cur]
           /\ UNCHANGED <<token, JumpVars, envs, status>>
  <2> DEFINE n == nodes[Cur].target
             a == [nodes[n] EXCEPT !.dflt = Cur]
  <2>1. nodes[Cur].kind = "default" /\ status' = status
    BY <1>4 DEF Finishes
  <2>2. n \in DOMAIN nodes
    <3>1. LeavesInnermost(nodes, Cur, {"switch"})
      BY <1>2, <2>1, TargetsIn DEF IInv, JumpOK
    <3> QED BY <3>1 DEF LeavesInnermost, IsInnermost, AroundIn
  <2>3. a \in Nodes /\ a.kind = nodes[n].kind /\ a.up = nodes[n].up /\ a.target = nodes[n].target
    <3>1. nodes[n] \in Nodes
      BY <1>2, <2>2
    <3> HIDE DEF n
    <3> QED BY <1>2, <3>1, DefaultSet
  <2>4. nodes' = [nodes EXCEPT ![n] = a]
    BY <1>2, <1>4, <2>2
  <2> HIDE DEF n, a
  <2>5. nodes' \in Seq(Nodes) /\ Len(nodes') = Len(nodes) /\ Kept(nodes, nodes')
    BY <2>2, <2>3, <2>4, Touches
  <2>6. /\ breakNodes' = Popped(breakNodes, "default", Breakable)
        /\ continueNodes' = Popped(continueNodes, "default", Loops)
        /\ switchNodes' = Popped(switchNodes, "default", {"switch"})
        /\ envs' = Popped(envs, "default", Scoped)
    BY <1>4 DEF JumpVars, Popped, Breakable, Loops, Scoped
  <2> QED BY <1>1, <1>4, <2>1, <2>5, <2>6, PlainCloseKeeps
<1>5. CASE Exit("default") \/ Exit("defaults")
  BY <1>5, ExitKeeps
<1> QED BY <1>3, <1>4, <1>5 DEF ParseDefaultStmt

-----------------------------------------------------------------------------
LEMMA InitHolds == ParseInit => IInv
<1> SUFFICES ASSUME ParseInit PROVE IInv
  OBVIOUS
<1> DEFINE body == Node("block", Null)
<1>1. body \in Nodes /\ body.kind = "block" /\ body.up = Null
  BY NodeMade DEF StatementKinds, Null
<1>2. nodes = <<body>> /\ open = <<1>> /\ breakNodes = <<>> /\ continueNodes = <<>> /\ switchNodes = <<>>
  BY DEF ParseInit
<1> HIDE DEF body
<1>3. nodes \in Seq(Nodes) /\ DOMAIN nodes = {1} /\ nodes[1] = body
  BY <1>1, <1>2
<1>4. open \in Seq(Nat) /\ open # <<>> /\ DOMAIN open = {1} /\ open[1] = 1
  BY <1>2
<1>5. envs \in Seq(Envs) /\ Len(envs) = 2
  <2>1. EmptyEnv \in Envs
    BY DEF EmptyEnv, Envs, NoSymbol, Symbols, Shapes, Obj, NoRecord
  <2>2. RootScope \in Seq(Envs) /\ RootScope # <<>> /\ Len(RootScope) = 1
    BY <2>1 DEF RootScope
  <2>3. Global \in Nat
    BY MaxNodesAssumption DEF Global
  <2> DEFINE e == AddObjSymbol(RootScope, x, Symbol(Global))
  <2>4. e \in Seq(Envs) /\ Len(e) = 1
    BY <2>2, <2>3, SymbolMade, AddsObject
  <2>5. envs = EnterScope(e)
    BY DEF ParseInit
  <2> HIDE DEF e
  <2>6. EnterScope(e) \in Seq(Envs) /\ Len(EnterScope(e)) = Len(e) + 1
    BY <2>4, EntersScope
  <2> QED BY <2>4, <2>5, <2>6
<1>6. TypeOK
  BY <1>2, <1>3, <1>4, <1>5 DEF TypeOK
<1>7. Upwards /\ Rooted /\ Chain(nodes, open)
  BY <1>1, <1>3, <1>4 DEF Upwards, Rooted, Chain, Increasing, Null
<1>8. StacksMatch
  <2>1. Range(open) = {1}
    BY <1>4 DEF Range
  <2>2. Increasing(<<>>) /\ Range(<<>>) = {}
    BY DEF Increasing, Range
  <2> QED BY <1>1, <1>2, <1>3, <2>1, <2>2 DEF StacksMatch, Holds, Breakable, Loops
<1>9. TargetsAreInnermost
  BY <1>1, <1>3 DEF TargetsAreInnermost
<1>10. ScopesMatch
  <2>1. OpenScopes = {1}
    BY <1>1, <1>3, <1>4 DEF OpenScopes
  <2>2. Cardinality({1}) = 1
    BY FS_Singleton
  <2> QED BY <2>1, <2>2, <1>5 DEF ScopesMatch
<1> QED BY <1>6, <1>7, <1>8, <1>9, <1>10 DEF IInv

LEMMA StepKeeps == IInv /\ [ParseStmt]_<<parserVars, status>> => IInv'
<1> SUFFICES ASSUME IInv, [ParseStmt]_<<parserVars, status>> PROVE IInv'
  OBVIOUS
<1>1. CASE ParseStmt
  BY <1>1, NullKeeps, DeclareKeeps, IfKeeps, BlockKeeps, ForKeeps, BreakKeeps, ContinueKeeps,
     ReturnKeeps, WhileKeeps, DoWhileKeeps, SwitchKeeps, CaseKeeps, DefaultKeeps, ExprKeeps,
     BeyondKeeps DEF ParseStmt
<1>2. CASE UNCHANGED <<parserVars, status>>
  <2>1. /\ nodes' = nodes /\ open' = open /\ JumpVars' = JumpVars /\ envs' = envs /\ status' = status
    BY <1>2 DEF parserVars, JumpVars
  <2> QED BY <2>1, Untouched, SameKeeps
<1> QED BY <1>1, <1>2

THEOREM Invariance == ParserSpec => []IInv
  BY InitHolds, StepKeeps, PTL DEF ParserSpec

\* In a body of any size every break and continue leads to the innermost statement around it
\* that may take it, and every default belongs to the innermost switch (parser.cc:790-1075).
THEOREM JumpsAreInnermost == ParserSpec => []TargetsAreInnermost
<1>1. IInv => TargetsAreInnermost
  BY DEF IInv
<1> QED BY <1>1, Invariance, PTL

\* There is always one scope for each open block and for, beside that of the file, so that a
\* body of any size leaves no scope behind (parser.cc:82-110, 850-905).
THEOREM ScopesAreBalanced == ParserSpec => []ScopesMatch
<1>1. IInv => ScopesMatch
  BY DEF IInv
<1> QED BY <1>1, Invariance, PTL

=============================================================================
