-------------------------- MODULE ExprParserProofs --------------------------
(***************************************************************************)
(* Proofs about ExprParser, for texts of any length: every step leaves     *)
(* less to do, and no call waits for what its procedure does not handle.   *)
(***************************************************************************)
EXTENDS ExprParser, SequenceTheorems, TLAPS

Names == {Procedures[i] : i \in 1..17}

IsCall(c) ==
  /\ c = [procedure |-> c.procedure, op |-> c.op, kids |-> c.kids]
  /\ c.procedure \in Names
  /\ c.kids \in Seq(Range(c.kids))

\* With the trees of n operands, a call of p that has read op is at a point where the
\* procedure goes on: a first operand, one more of its loop, or its return.
GoesOn(p, op, n) ==
  \/ n = 0 /\ (op = "" \/ p = "unary")
  \/ n = 1 /\ (p = "postfix" => op \in {"", "("})
  \/ n = 2 /\ (p \in DOMAIN Operators \cup {"assign", "conditional"} \/ (p = "postfix" /\ op \in {"[", "("}))
  \/ n = 3 /\ p = "conditional"
  \/ n > 0 /\ p = "postfix" /\ op = "("

\* A stack of calls, each but the last waiting for one operand more.
Stack(s) ==
  /\ s \in Seq(Range(s))
  /\ \A i \in DOMAIN s : IsCall(s[i])
  /\ \A i \in DOMAIN s : GoesOn(s[i].procedure, s[i].op, Len(s[i].kids) + (IF i = Len(s) THEN 0 ELSE 1))

\* The parser's token is one of the text or the end of it.
TypeOK ==
  /\ text \in Seq(STRING)
  /\ at \in 1..Len(text) + 1
  /\ status \in {"parsing", "accepted", "rejected"}
  /\ Stack(calls)

IInv == TypeOK /\ (status = "parsing" => calls # <<>>)

-----------------------------------------------------------------------------
(***************************************************************************)
(* The procedures.                                                         *)
(***************************************************************************)
LEMMA ProceduresDiffer == \A i, j \in 1..17 : Procedures[i] = Procedures[j] => i = j
  BY SMTT(60) DEF Procedures

LEMMA LevelFacts ==
  /\ \A i \in 1..17 : Level(Procedures[i]) = i
  /\ \A i \in 1..16 : Below(Procedures[i]) = Procedures[i + 1]
<1>1. ASSUME NEW i \in 1..17 PROVE Level(Procedures[i]) = i
  <2>1. \A j \in 1..17 : Procedures[j] = Procedures[i] <=> j = i
    BY ProceduresDiffer
  <2> QED BY <2>1 DEF Level
<1>2. ASSUME NEW i \in 1..16 PROVE Below(Procedures[i]) = Procedures[i + 1]
  <2>1. \A j \in 1..16 : Procedures[j] = Procedures[i] <=> j = i
    BY ProceduresDiffer
  <2>2. (CHOOSE j \in 1..16 : Procedures[j] = Procedures[i]) = i
    BY <2>1
  <2>3. Below(Procedures[i]) = Procedures[1 + i]
    BY <2>2 DEF Below
  <2>4. 1 + i = i + 1
    OBVIOUS
  <2> QED BY <2>3, <2>4
<1> QED BY <1>1, <1>2

LEMMA OneToSeventeen ==
  \A i \in 1..17 : i = 1 \/ i = 2 \/ i = 3 \/ i = 4 \/ i = 5 \/ i = 6 \/ i = 7 \/ i = 8 \/ i = 9
                   \/ i = 10 \/ i = 11 \/ i = 12 \/ i = 13 \/ i = 14 \/ i = 15 \/ i = 16 \/ i = 17
  OBVIOUS

\* The levels of the procedures that are called by name.
LEMMA Levels ==
  /\ "expr" \in Names /\ Level("expr") = 1
  /\ "assign" \in Names /\ Level("assign") = 2
  /\ "conditional" \in Names /\ Level("conditional") = 3
  /\ "cast" \in Names /\ Level("cast") = 14
  /\ "unary" \in Names /\ Level("unary") = 15
  /\ "postfix" \in Names /\ Level("postfix") = 16
  /\ "primary" \in Names /\ Level("primary") = 17
<1>1. /\ Procedures[1] = "expr" /\ Procedures[2] = "assign" /\ Procedures[3] = "conditional"
      /\ Procedures[14] = "cast" /\ Procedures[15] = "unary" /\ Procedures[16] = "postfix"
      /\ Procedures[17] = "primary"
  BY DEF Procedures
<1>2. 1 \in 1..17 /\ 2 \in 1..17 /\ 3 \in 1..17 /\ 14 \in 1..17 /\ 15 \in 1..17 /\ 16 \in 1..17 /\ 17 \in 1..17
  OBVIOUS
<1>3. /\ "expr" \in Names /\ "assign" \in Names /\ "conditional" \in Names /\ "cast" \in Names
      /\ "unary" \in Names /\ "postfix" \in Names /\ "primary" \in Names
  BY <1>1, <1>2 DEF Names
<1> QED BY <1>1, <1>2, <1>3, LevelFacts

LEMMA LevelRange == \A p \in Names : Level(p) \in 1..17
  BY LevelFacts DEF Names

\* A procedure above the last calls one of the next level.
LEMMA BelowFacts ==
  ASSUME NEW p \in Names, p # "primary"
  PROVE  Below(p) \in Names /\ Level(Below(p)) = Level(p) + 1
<1>1. PICK i \in 1..17 : p = Procedures[i]
  BY DEF Names
<1>2. Procedures[17] = "primary"
  BY DEF Procedures
<1>3. i \in 1..16 /\ i + 1 \in 1..17
  BY <1>1, <1>2
<1>4. Below(p) = Procedures[i + 1] /\ Level(p) = i
  BY <1>1, <1>3, LevelFacts
<1> QED BY <1>3, <1>4, LevelFacts DEF Names

-----------------------------------------------------------------------------
(***************************************************************************)
(* Stacks of calls.                                                        *)
(***************************************************************************)
LEMMA AppendRange ==
  ASSUME NEW S, NEW s \in Seq(S), NEW e
  PROVE  /\ Append(s, e) \in Seq(Range(Append(s, e)))
         /\ Len(s) \in Nat /\ Len(Append(s, e)) = Len(s) + 1
         /\ \A i \in 1..Len(s) : Append(s, e)[i] = s[i]
         /\ Append(s, e)[Len(s) + 1] = e
         /\ DOMAIN Append(s, e) = 1..Len(s) + 1
<1>1. s \in Seq(S \cup {e}) /\ e \in S \cup {e}
  BY SeqMonotonic
<1>2. Append(s, e) \in Seq(S \cup {e}) /\ Len(Append(s, e)) = Len(s) + 1
  BY <1>1, AppendProperties
<1>3. /\ \A i \in 1..Len(s) : Append(s, e)[i] = s[i]
      /\ Append(s, e)[Len(s) + 1] = e
  BY <1>1, AppendProperties
<1> QED BY <1>1, <1>2, <1>3, SeqOfRange, LenProperties

LEMMA FrontFacts ==
  ASSUME NEW S, NEW q \in Seq(S), q # <<>>
  PROVE  /\ Len(q) \in Nat \ {0}
         /\ Front(q) \in Seq(S) /\ Len(Front(q)) = Len(q) - 1
         /\ \A i \in 1..Len(q)-1 : Front(q)[i] = q[i]
<1>1. Len(q) \in Nat \ {0}
  OBVIOUS
<1>2. \A i \in 1..Len(q)-1 : q[i] \in S
  OBVIOUS
<1>3. /\ SubSeq(q, 1, Len(q)-1) \in Seq(S)
      /\ Len(SubSeq(q, 1, Len(q)-1)) = (IF 1 <= Len(q)-1 THEN Len(q)-1-1+1 ELSE 0)
      /\ \A i \in 1..Len(q)-1-1+1 : SubSeq(q, 1, Len(q)-1)[i] = q[1+i-1]
  BY <1>1, <1>2, SubSeqProperties
<1>4. \A n \in Nat \ {0} : n-1-1+1 = n-1 /\ (1 <= n-1 \/ n-1 = 0)
  OBVIOUS
<1>5. \A i \in 1..Len(q)-1 : 1+i-1 = i
  BY <1>1
<1> QED BY <1>1, <1>3, <1>4, <1>5 DEF Front

\* The call on top is at a point where its procedure goes on.
LEMMA TopFacts ==
  ASSUME NEW s, Stack(s), s # <<>>
  PROVE  /\ Len(s) \in Nat \ {0} /\ DOMAIN s = 1..Len(s)
         /\ IsCall(Last(s))
         /\ GoesOn(Last(s).procedure, Last(s).op, Len(Last(s).kids))
<1>1. Len(s) \in Nat \ {0} /\ DOMAIN s = 1..Len(s)
  BY FrontFacts, LenProperties DEF Stack
<1>2. Len(s[Len(s)].kids) \in Nat
  BY <1>1, LenProperties DEF Stack, IsCall
<1> DEFINE n == Len(s)
<1>3. n \in DOMAIN s /\ Last(s) = s[n]
  BY <1>1 DEF Last
<1>4. GoesOn(s[n].procedure, s[n].op, Len(s[n].kids) + (IF n = n THEN 0 ELSE 1))
  BY <1>3 DEF Stack
<1>5. Len(s[n].kids) + (IF n = n THEN 0 ELSE 1) = Len(s[n].kids)
  BY <1>2
<1>6. IsCall(s[n])
  BY <1>3 DEF Stack
<1> HIDE DEF n
<1>7. GoesOn(s[n].procedure, s[n].op, Len(s[n].kids))
  BY <1>4, <1>5
<1> QED BY <1>1, <1>3, <1>6, <1>7

\* The call on top is replaced.
LEMMA ReplaceFacts ==
  ASSUME NEW s, Stack(s), s # <<>>, NEW c, IsCall(c), GoesOn(c.procedure, c.op, Len(c.kids))
  PROVE  LET t == Append(Front(s), c) IN
         Stack(t) /\ Len(t) = Len(s) /\ t # <<>> /\ Last(t) = c
<1> DEFINE t == Append(Front(s), c)
<1>1. Len(s) \in Nat \ {0} /\ DOMAIN s = 1..Len(s) /\ s \in Seq(Range(s))
  BY TopFacts DEF Stack
<1>2. /\ Front(s) \in Seq(Range(s)) /\ Len(Front(s)) = Len(s) - 1
      /\ \A i \in 1..Len(s)-1 : Front(s)[i] = s[i]
  BY <1>1, FrontFacts
<1>3. /\ t \in Seq(Range(t)) /\ Len(t) = Len(s) - 1 + 1
      /\ \A i \in 1..Len(s)-1 : t[i] = Front(s)[i]
      /\ t[Len(s) - 1 + 1] = c
      /\ DOMAIN t = 1..Len(s) - 1 + 1
  BY <1>2, AppendRange
<1> HIDE DEF t
<1>4. /\ Len(t) = Len(s) /\ t[Len(s)] = c /\ DOMAIN t = 1..Len(s)
      /\ \A i \in 1..Len(s)-1 : t[i] = s[i]
  BY <1>1, <1>2, <1>3
<1>5. Len(c.kids) \in Nat
  BY LenProperties DEF IsCall
<1>6. \A i \in DOMAIN t : IsCall(t[i])
  BY <1>1, <1>4 DEF Stack
<1>7. ASSUME NEW i \in DOMAIN t
      PROVE  GoesOn(t[i].procedure, t[i].op, Len(t[i].kids) + (IF i = Len(t) THEN 0 ELSE 1))
  <2>1. CASE i = Len(s)
    BY <2>1, <1>4, <1>5
  <2>2. CASE i # Len(s)
    <3>1. i \in 1..Len(s)-1 /\ i \in DOMAIN s
      BY <2>2, <1>1, <1>4
    <3>2. GoesOn(s[i].procedure, s[i].op, Len(s[i].kids) + (IF i = Len(s) THEN 0 ELSE 1))
      BY <3>1 DEF Stack
    <3> QED BY <2>2, <3>1, <3>2, <1>4
  <2> QED BY <2>1, <2>2
<1>8. t # <<>>
  BY <1>1, <1>4
<1>9. Stack(t)
  BY <1>3, <1>6, <1>7 DEF Stack
<1>10. Last(t) = c
  BY <1>4 DEF Last
<1> QED BY <1>4, <1>8, <1>9, <1>10 DEF t

\* The call on top is replaced by one that waits, and another is entered.
LEMMA PushFacts ==
  ASSUME NEW s, Stack(s), s # <<>>, NEW c, IsCall(c), GoesOn(c.procedure, c.op, Len(c.kids) + 1),
         NEW p \in Names
  PROVE  LET new == [procedure |-> p, op |-> "", kids |-> <<>>]
             t == Front(s) \o <<c, new>>
         IN  Stack(t) /\ Len(t) = Len(s) + 1 /\ t # <<>> /\ Last(t) = new
<1> DEFINE new == [procedure |-> p, op |-> "", kids |-> <<>>]
           pair == <<c, new>>
           t == Front(s) \o pair
           R == Range(s) \cup {c, new}
<1>1. Len(s) \in Nat \ {0} /\ DOMAIN s = 1..Len(s) /\ s \in Seq(Range(s))
  BY TopFacts DEF Stack
<1>2. /\ Front(s) \in Seq(Range(s)) /\ Len(Front(s)) = Len(s) - 1
      /\ \A i \in 1..Len(s)-1 : Front(s)[i] = s[i]
  BY <1>1, FrontFacts
<1>3. Front(s) \in Seq(R)
  BY <1>2, SeqMonotonic
<1>4. /\ pair \in Seq(R) /\ Len(pair) = 2
      /\ pair[1] = c /\ pair[2] = new
  OBVIOUS
<1>11. IsCall(new) /\ new.procedure = p /\ new.op = "" /\ Len(new.kids) = 0
  BY EmptySeq, SeqOfRange DEF IsCall
<1> HIDE DEF pair, R, new
<1>5. /\ t \in Seq(R) /\ Len(t) = Len(s) - 1 + 2
      /\ \A i \in 1..Len(s) - 1 + 2 : t[i] = IF i <= Len(s) - 1 THEN Front(s)[i] ELSE pair[i - (Len(s) - 1)]
  <2>1. /\ t \in Seq(R) /\ Len(t) = Len(Front(s)) + Len(pair)
        /\ \A i \in 1..Len(Front(s)) + Len(pair) :
             t[i] = IF i <= Len(Front(s)) THEN Front(s)[i] ELSE pair[i - Len(Front(s))]
    BY <1>3, <1>4, ConcatProperties
  <2> QED BY <2>1, <1>2, <1>4
<1>6. t \in Seq(Range(t)) /\ DOMAIN t = 1..Len(t)
  BY <1>5, SeqOfRange, LenProperties
<1> HIDE DEF t
<1>7. Len(t) = Len(s) + 1 /\ Len(s) \in 1..Len(t) /\ Len(s) + 1 \in 1..Len(t)
  BY <1>1, <1>5
<1>8. t[Len(s)] = c /\ t[Len(s) + 1] = new
  <2>1. ~(Len(s) <= Len(s) - 1) /\ Len(s) - (Len(s) - 1) = 1
    BY <1>1
  <2>2. ~(Len(s) + 1 <= Len(s) - 1) /\ Len(s) + 1 - (Len(s) - 1) = 2
    BY <1>1
  <2>3. Len(s) \in 1..Len(s) - 1 + 2 /\ Len(s) + 1 \in 1..Len(s) - 1 + 2
    BY <1>1
  <2> QED BY <2>1, <2>2, <2>3, <1>4, <1>5
<1>9. \A i \in 1..Len(s)-1 : t[i] = s[i] /\ i \in DOMAIN s
  BY <1>1, <1>2, <1>5
<1>10. \A i \in DOMAIN t : i \in 1..Len(s)-1 \/ i = Len(s) \/ i = Len(s) + 1
  BY <1>1, <1>6, <1>7
<1>12. \A i \in DOMAIN t : IsCall(t[i])
  BY <1>8, <1>9, <1>10, <1>11 DEF Stack
<1>13. ASSUME NEW i \in DOMAIN t
       PROVE  GoesOn(t[i].procedure, t[i].op, Len(t[i].kids) + (IF i = Len(t) THEN 0 ELSE 1))
  <2>1. CASE i = Len(s) + 1
    <3>1. t[i] = new /\ i = Len(t)
      BY <2>1, <1>7, <1>8
    <3>2. (IF i = Len(t) THEN 0 ELSE 1) = 0
      BY <3>1
    <3>3. t[i].kids = new.kids /\ t[i].op = new.op
      BY <3>1
    <3>6. t[i].op = ""
      BY <3>3, <1>11
    <3>7. 0 + 0 = 0
      OBVIOUS
    <3>4. Len(t[i].kids) = 0
      BY <3>3, <1>11
    <3>5. GoesOn(t[i].procedure, t[i].op, 0 + 0)
      BY <3>6, <3>7 DEF GoesOn
    <3> QED BY <3>2, <3>4, <3>5
  <2>2. CASE i = Len(s)
    <3>1. t[i] = c /\ i # Len(t)
      BY <2>2, <1>1, <1>7, <1>8
    <3> QED BY <3>1
  <2>3. CASE i \in 1..Len(s)-1
    <3>1. GoesOn(s[i].procedure, s[i].op, Len(s[i].kids) + (IF i = Len(s) THEN 0 ELSE 1))
      BY <2>3, <1>9 DEF Stack
    <3>2. i # Len(s) /\ i # Len(t)
      BY <2>3, <1>1, <1>7
    <3> QED BY <2>3, <3>1, <3>2, <1>9
  <2> QED BY <2>1, <2>2, <2>3, <1>10
<1>14. Stack(t)
  BY <1>6, <1>12, <1>13 DEF Stack
<1>15. t # <<>> /\ Last(t) = new
  BY <1>1, <1>7, <1>8 DEF Last
<1> QED BY <1>7, <1>14, <1>15 DEF t, pair, new

\* The call on top returns t to the one under it.
LEMMA PopFacts ==
  ASSUME NEW s, Stack(s), s # <<>>, Len(s) > 1, NEW t
  PROVE  LET below == Front(s)
             c == [Last(below) EXCEPT !.kids = Append(@, t)]
             u == Append(Front(below), c)
         IN  Stack(u) /\ Len(u) = Len(s) - 1 /\ u # <<>> /\ Last(u) = c /\ IsCall(c) /\ c.kids # <<>>
<1> DEFINE below == Front(s)
           n == Len(s)
           b == s[n - 1]
           c == [b EXCEPT !.kids = Append(@, t)]
           u == Append(Front(below), c)
<1>1. n > 1 /\ n \in Nat \ {0} /\ DOMAIN s = 1..n /\ s \in Seq(Range(s))
  BY TopFacts DEF Stack
<1>17. n = Len(s)
  OBVIOUS
<1> HIDE DEF n
<1>2. /\ below \in Seq(Range(s)) /\ Len(below) = n - 1
      /\ \A i \in 1..n-1 : below[i] = s[i]
  BY <1>1, <1>17, FrontFacts
<1> HIDE DEF below
<1>3. below # <<>> /\ Last(below) = b /\ n - 1 \in DOMAIN s /\ n - 1 # n
  <2>1. n - 1 \in 1..n - 1 /\ n - 1 \in 1..n /\ n - 1 # n
    BY <1>1
  <2>2. Len(below) # 0
    BY <2>1, <1>2
  <2>3. below # <<>>
    BY <2>2, EmptySeq
  <2>4. below[n - 1] = s[n - 1] /\ Last(below) = below[n - 1]
    BY <2>1, <1>2 DEF Last
  <2> QED BY <2>1, <2>3, <2>4, <1>1
<1>4. IsCall(b) /\ GoesOn(b.procedure, b.op, Len(b.kids) + 1)
  BY <1>3, <1>17 DEF Stack
<1> HIDE DEF b
<1>5. /\ Append(b.kids, t) \in Seq(Range(Append(b.kids, t)))
      /\ Len(b.kids) \in Nat /\ Len(Append(b.kids, t)) = Len(b.kids) + 1
  BY <1>4, AppendRange DEF IsCall
<1>6. c = [procedure |-> b.procedure, op |-> b.op, kids |-> Append(b.kids, t)]
  BY <1>4 DEF IsCall
<1> HIDE DEF c
<1>7. IsCall(c) /\ GoesOn(c.procedure, c.op, Len(c.kids)) /\ c.kids # <<>>
  <2>1. c.procedure = b.procedure /\ c.op = b.op /\ c.kids = Append(b.kids, t)
    BY <1>6
  <2>2. IsCall(c)
    BY <2>1, <1>4, <1>5, <1>6 DEF IsCall
  <2>3. Len(c.kids) = Len(b.kids) + 1 /\ Len(c.kids) # 0
    BY <2>1, <1>5
  <2>4. c.kids # <<>>
    BY <2>3, EmptySeq
  <2> QED BY <2>1, <2>2, <2>3, <2>4, <1>4
<1>8. /\ Front(below) \in Seq(Range(s)) /\ Len(Front(below)) = n - 2
      /\ \A i \in 1..n-2 : Front(below)[i] = s[i]
  <2>1. Len(below) - 1 = n - 2
    BY <1>1, <1>2
  <2>2. /\ Front(below) \in Seq(Range(s)) /\ Len(Front(below)) = Len(below) - 1
        /\ \A i \in 1..Len(below) - 1 : Front(below)[i] = below[i]
    BY <1>2, <1>3, FrontFacts
  <2>3. \A i \in 1..n - 2 : i \in 1..n - 1
    BY <1>1
  <2> QED BY <2>1, <2>2, <2>3, <1>2
<1>9. /\ u \in Seq(Range(u)) /\ Len(u) = n - 2 + 1
      /\ \A i \in 1..n - 2 : u[i] = Front(below)[i]
      /\ u[n - 2 + 1] = c
      /\ DOMAIN u = 1..n - 2 + 1
  BY <1>8, AppendRange
<1> HIDE DEF u
<1>10. /\ Len(u) = n - 1 /\ u[n - 1] = c /\ DOMAIN u = 1..n - 1
       /\ \A i \in 1..n - 2 : u[i] = s[i]
  BY <1>1, <1>8, <1>9
<1>11. \A i \in DOMAIN u : i \in 1..n - 2 \/ i = n - 1
  BY <1>1, <1>10
<1>12. \A i \in 1..n - 2 : i \in DOMAIN s /\ i # n /\ i # Len(u)
  BY <1>1, <1>10
<1>13. \A i \in DOMAIN u : IsCall(u[i])
  BY <1>7, <1>10, <1>11, <1>12 DEF Stack
<1>14. ASSUME NEW i \in DOMAIN u
       PROVE  GoesOn(u[i].procedure, u[i].op, Len(u[i].kids) + (IF i = Len(u) THEN 0 ELSE 1))
  <2>1. CASE i = n - 1
    <3>1. Len(c.kids) + 0 = Len(c.kids)
      BY <1>5, <1>6
    <3> QED BY <2>1, <3>1, <1>7, <1>10
  <2>2. CASE i \in 1..n - 2
    <3>1. GoesOn(s[i].procedure, s[i].op, Len(s[i].kids) + (IF i = n THEN 0 ELSE 1))
      BY <2>2, <1>12, <1>17 DEF Stack
    <3> QED BY <2>2, <3>1, <1>10, <1>12
  <2> QED BY <2>1, <2>2, <1>11
<1>15. Stack(u)
  BY <1>9, <1>13, <1>14 DEF Stack
<1>16. u # <<>> /\ Last(u) = c
  BY <1>1, <1>3, <1>10 DEF Last
<1> QED BY <1>3, <1>7, <1>10, <1>15, <1>16, <1>17 DEF u, c, b, below

-----------------------------------------------------------------------------
(***************************************************************************)
(* What the ways to step do: less is left, and the invariant holds.        *)
(***************************************************************************)
Progress == IInv' /\ Remaining' \in Nat /\ Remaining' < Remaining

\* Sums in which 100 is more than any stage and two calls.
LEMMA ReadingCounts ==
  ASSUME NEW l \in Nat, NEW a \in 1..l + 1, NEW n \in Nat, a + n \in 1..l + 1
  PROVE  /\ 100 * (l + 1 - (a + n)) \in Nat
         /\ 100 * (l + 1 - (a + n)) + 100 * n = 100 * (l + 1 - a)
  OBVIOUS

LEMMA DescendingCounts ==
  ASSUME NEW x \in Nat, NEW y \in Int, NEW n \in Nat, x + 100 * n = y,
         NEW m \in Nat, NEW g \in 0..52, NEW k \in Nat, NEW s \in 0..52,
         2 * m + g < 2 * k + s + 100 * n
  PROVE  x + 2 * m + g \in Nat /\ x + 2 * m + g < y + 2 * k + s
  OBVIOUS

LEMMA CallingCounts ==
  ASSUME NEW k \in Nat, NEW l \in 1..17, NEW s \in 0..52, NEW n \in Nat, 3 * (17 - l) + 2 < s + 100 * n
  PROVE  2 * (k + 1) + 3 * (17 - l) < 2 * k + s + 100 * n
  OBVIOUS

LEMMA ReplacingCounts ==
  ASSUME NEW k \in Nat, NEW g \in 0..52, NEW s \in 0..52, NEW n \in Nat, g < s + 100 * n
  PROVE  2 * k + g < 2 * k + s + 100 * n
  OBVIOUS

LEMMA ReturningCounts ==
  ASSUME NEW k \in Nat \ {0}, NEW g \in 0..52, NEW s \in 0..52, NEW n \in Nat, n > 0 \/ s \in 51..52
  PROVE  2 * (k - 1) + g < 2 * k + s + 100 * n
  OBVIOUS

LEMMA StageFacts ==
  ASSUME NEW c, IsCall(c)
  PROVE  /\ Stage(c) \in 0..52
         /\ c.kids # <<>> \/ c.op # "" => Stage(c) \in 51..52
         /\ Len(c.kids) = 2 /\ c.procedure \in DOMAIN Operators => Stage(c) = 52
         /\ c.kids = <<>> /\ c.op = "" => Stage(c) = 3 * (17 - Level(c.procedure))
<1>1. Level(c.procedure) \in 1..17
  BY LevelRange DEF IsCall
<1>2. \A l \in 1..17 : 3 * (17 - l) \in 0..48
  OBVIOUS
<1>3. CASE c.kids = <<>> /\ c.op = ""
  <2>1. Stage(c) = 3 * (17 - Level(c.procedure))
    BY <1>3 DEF Stage
  <2>2. Stage(c) \in 0..48
    BY <2>1, <1>1, <1>2
  <2>3. Len(c.kids) = 0
    BY <1>3, EmptySeq
  <2>4. Stage(c) \in 0..52 /\ Len(c.kids) # 2
    BY <2>2, <2>3
  <2> QED BY <1>3, <2>1, <2>4
<1>4. CASE ~(c.kids = <<>> /\ c.op = "")
  <2>1. Stage(c) = IF Len(c.kids) = 2 /\ c.procedure \in DOMAIN Operators THEN 52 ELSE 51
    BY <1>4 DEF Stage
  <2>2. 51 \in 51..52 /\ 52 \in 51..52 /\ 51 \in 0..52 /\ 52 \in 0..52
    OBVIOUS
  <2>3. Stage(c) \in 0..52 /\ Stage(c) \in 51..52
    BY <2>1, <2>2
  <2> QED BY <1>4, <2>1, <2>3
<1> QED BY <1>3, <1>4

\* A token that is seen is not the end, and can be read.
LEMMA ReadOne ==
  ASSUME TypeOK, token # "eof"
  PROVE  at + 1 \in 1..Len(text) + 1
<1>1. DOMAIN text = 1..Len(text) /\ Len(text) \in Nat
  BY LenProperties DEF TypeOK
<1>2. at \in DOMAIN text
  BY DEF token, TokenAt
<1> QED BY <1>1, <1>2

LEMMA ReadMore ==
  ASSUME TypeOK, NEW k \in Nat, TokenAt(at + k) # "eof"
  PROVE  at + (k + 1) \in 1..Len(text) + 1
<1>1. DOMAIN text = 1..Len(text) /\ Len(text) \in Nat
  BY LenProperties DEF TypeOK
<1>2. at + k \in DOMAIN text
  BY DEF TokenAt
<1>3. at \in Nat
  BY <1>1 DEF TypeOK
<1> QED BY <1>1, <1>2, <1>3

LEMMA RemainingFacts ==
  ASSUME IInv, status = "parsing"
  PROVE  /\ Len(text) \in Nat /\ at \in 1..Len(text) + 1
         /\ Len(calls) \in Nat \ {0} /\ Stage(Top) \in 0..52
         /\ Remaining = 100 * (Len(text) + 1 - at) + 2 * Len(calls) + Stage(Top)
         /\ Remaining \in Nat \ {0}
         /\ IsCall(Top) /\ GoesOn(Top.procedure, Top.op, Len(Top.kids)) /\ Len(Top.kids) \in Nat
<1>1. Len(text) \in Nat /\ at \in 1..Len(text) + 1
  BY LenProperties DEF IInv, TypeOK
<1>2. /\ Len(calls) \in Nat \ {0}
      /\ IsCall(Top) /\ GoesOn(Top.procedure, Top.op, Len(Top.kids))
  BY TopFacts DEF IInv, TypeOK, Top
<1>3. Stage(Top) \in 0..52 /\ Len(Top.kids) \in Nat
  BY <1>2, StageFacts, LenProperties DEF IsCall
<1>4. Remaining = 100 * (Len(text) + 1 - at) + 2 * Len(calls) + Stage(Top)
  BY DEF Remaining
<1>5. ASSUME NEW l \in Nat, NEW a \in 1..l + 1, NEW n \in Nat \ {0}, NEW g \in 0..52
      PROVE  100 * (l + 1 - a) + 2 * n + g \in Nat \ {0}
  OBVIOUS
<1>6. 100 * (Len(text) + 1 - at) + 2 * Len(calls) + Stage(Top) \in Nat \ {0}
  BY <1>1, <1>2, <1>3, <1>5
<1>7. Remaining \in Nat \ {0}
  BY <1>4, <1>6
<1> QED BY <1>1, <1>2, <1>3, <1>4, <1>7

\* The parser is left at token at + n with m calls, the last one at stage g.
LEMMA Descends ==
  ASSUME IInv, status = "parsing",
         NEW n \in Nat, at' = at + n, at + n \in 1..Len(text) + 1, text' = text,
         status' = "parsing", Stack(calls'), calls' # <<>>,
         NEW g \in 0..52, Stage(Last(calls')) = g,
         2 * Len(calls') + g < 2 * Len(calls) + Stage(Top) + 100 * n
  PROVE  Progress
<1>1. /\ Len(text) \in Nat /\ at \in 1..Len(text) + 1
      /\ Len(calls) \in Nat \ {0} /\ Stage(Top) \in 0..52
      /\ Remaining = 100 * (Len(text) + 1 - at) + 2 * Len(calls) + Stage(Top)
  BY RemainingFacts
<1>2. Len(calls') \in Nat
  BY TopFacts
<1>3. IInv'
  BY DEF IInv, TypeOK
<1>4. Remaining' = 100 * (Len(text) + 1 - (at + n)) + 2 * Len(calls') + g
  BY DEF Remaining, Top
<1>6. /\ 100 * (Len(text) + 1 - (at + n)) + 2 * Len(calls') + g \in Nat
      /\ 100 * (Len(text) + 1 - (at + n)) + 2 * Len(calls') + g
         < 100 * (Len(text) + 1 - at) + 2 * Len(calls) + Stage(Top)
  <2> DEFINE x == 100 * (Len(text) + 1 - (at + n))
             y == 100 * (Len(text) + 1 - at)
             m == Len(calls')
             k == Len(calls)
             s == Stage(Top)
  <2>1. x \in Nat /\ x + 100 * n = y
    BY <1>1, ReadingCounts
  <2>2. m \in Nat /\ k \in Nat /\ s \in 0..52 /\ 2 * m + g < 2 * k + s + 100 * n
    BY <1>1, <1>2
  <2> HIDE DEF x, y, m, k, s
  <2>3. y \in Int
    BY <2>1
  <2>4. x + 2 * m + g \in Nat /\ x + 2 * m + g < y + 2 * k + s
    BY <2>1, <2>2, <2>3, DescendingCounts
  <2> QED BY <2>4 DEF x, y, m, k, s
<1>7. Remaining' \in Nat /\ Remaining' < Remaining
  BY <1>1, <1>4, <1>6
<1> QED BY <1>3, <1>7 DEF Progress

LEMMA AfterContinue ==
  ASSUME IInv, status = "parsing",
         NEW c, IsCall(c), GoesOn(c.procedure, c.op, Len(c.kids)),
         NEW n \in Nat, at + n \in 1..Len(text) + 1, Stage(c) < Stage(Top) + 100 * n,
         Continue(c, n)
  PROVE  Progress
<1>1. /\ Stack(Append(Front(calls), c)) /\ Len(Append(Front(calls), c)) = Len(calls)
      /\ Append(Front(calls), c) # <<>> /\ Last(Append(Front(calls), c)) = c
  BY ReplaceFacts DEF IInv, TypeOK
<1>2. /\ calls' = Append(Front(calls), c) /\ at' = at + n
      /\ text' = text /\ status' = "parsing"
  BY DEF Continue
<1>3. Stack(calls') /\ Len(calls') = Len(calls) /\ calls' # <<>> /\ Last(calls') = c
  BY <1>1, <1>2
<1>4. Stage(c) \in 0..52 /\ Stage(Top) \in 0..52 /\ Len(calls) \in Nat
  BY StageFacts, RemainingFacts
<1>5. 2 * Len(calls') + Stage(c) < 2 * Len(calls) + Stage(Top) + 100 * n
  BY <1>3, <1>4, ReplacingCounts
<1> QED BY <1>2, <1>3, <1>4, <1>5, Descends

LEMMA AfterCall ==
  ASSUME IInv, status = "parsing",
         NEW c, IsCall(c), GoesOn(c.procedure, c.op, Len(c.kids) + 1), NEW p \in Names,
         NEW n \in Nat, at + n \in 1..Len(text) + 1,
         3 * (17 - Level(p)) + 2 < Stage(Top) + 100 * n,
         CallFrom(c, n, p)
  PROVE  Progress
<1> DEFINE new == [procedure |-> p, op |-> "", kids |-> <<>>]
           t == Front(calls) \o <<c, new>>
<1>1. Stack(t) /\ Len(t) = Len(calls) + 1 /\ t # <<>> /\ Last(t) = new
  BY PushFacts DEF IInv, TypeOK
<1>2. calls' = t /\ at' = at + n /\ text' = text /\ status' = "parsing"
  BY DEF CallFrom
<1> HIDE DEF t
<1>3. Stack(calls') /\ Len(calls') = Len(calls) + 1 /\ calls' # <<>> /\ Last(calls') = new
  BY <1>1, <1>2
<1>4. IsCall(Last(calls'))
  BY <1>3, TopFacts
<1>9. new.kids = <<>> /\ new.op = "" /\ new.procedure = p
  OBVIOUS
<1> HIDE DEF new
<1>8. Last(calls').kids = <<>> /\ Last(calls').op = "" /\ Last(calls').procedure = p
  BY <1>3, <1>9
<1>5. Stage(Last(calls')) = 3 * (17 - Level(p)) /\ Stage(Last(calls')) \in 0..52
  BY <1>4, <1>8, StageFacts
<1>6. Len(calls) \in Nat /\ Stage(Top) \in 0..52 /\ Level(p) \in 1..17
  BY RemainingFacts, LevelRange
<1>7. 2 * Len(calls') + 3 * (17 - Level(p)) < 2 * Len(calls) + Stage(Top) + 100 * n
  BY <1>3, <1>6, CallingCounts
<1> QED BY <1>2, <1>3, <1>5, <1>7, Descends

LEMMA EmptyStack == Stack(<<>>)
<1>1. <<>> \in Seq(Range(<<>>)) /\ Len(<<>>) = 0
  BY EmptySeq, SeqOfRange
<1>2. DOMAIN <<>> = 1..0
  BY <1>1, LenProperties
<1>3. \A i \in 1..0 : FALSE
  OBVIOUS
<1>4. \A i \in DOMAIN <<>> : FALSE
  BY <1>2, <1>3, Zenon
<1> QED BY <1>1, <1>4, Zenon DEF Stack

LEMMA AfterEnd ==
  ASSUME IInv, status = "parsing", status' \in {"accepted", "rejected"},
         text' = text, at' \in 1..Len(text) + 1, Stack(calls')
  PROVE  Progress
<1>1. Remaining' = 0 /\ Remaining \in Nat \ {0}
  BY RemainingFacts DEF Remaining
<1>2. IInv'
  BY DEF IInv, TypeOK
<1> QED BY <1>1, <1>2 DEF Progress

LEMMA AfterReject ==
  ASSUME IInv, status = "parsing", Reject
  PROVE  Progress
  BY AfterEnd DEF Reject, IInv, TypeOK

\* A call that has read nothing itself must read a token to return.
LEMMA AfterReturn ==
  ASSUME IInv, status = "parsing", NEW t, NEW n \in Nat, at + n \in 1..Len(text) + 1,
         n > 0 \/ Top.kids # <<>> \/ Top.op # "",
         Return(t, n)
  PROVE  Progress
<1>1. /\ Len(calls) \in Nat \ {0} /\ Stage(Top) \in 0..52 /\ IsCall(Top)
  BY RemainingFacts
<1>2. n > 0 \/ Stage(Top) \in 51..52
  BY <1>1, StageFacts
<1>3. at' = at + n /\ text' = text
  BY DEF Return
<1>4. CASE Len(calls) > 1
  <2> DEFINE c == [Last(Front(calls)) EXCEPT !.kids = Append(@, t)]
             u == Append(Front(Front(calls)), c)
  <2>1. Stack(u) /\ Len(u) = Len(calls) - 1 /\ u # <<>> /\ Last(u) = c /\ IsCall(c) /\ c.kids # <<>>
    BY <1>4, PopFacts DEF IInv, TypeOK
  <2>2. calls' = u /\ status' = status
    BY <1>4 DEF Return
  <2> HIDE DEF c, u
  <2>3. Stack(calls') /\ Len(calls') = Len(calls) - 1 /\ calls' # <<>> /\ Last(calls') = c
    BY <2>1, <2>2
  <2>4. Stage(c) \in 0..52
    BY <2>1, StageFacts
  <2>5. 2 * Len(calls') + Stage(c) < 2 * Len(calls) + Stage(Top) + 100 * n
    BY <2>3, <2>4, <1>1, <1>2, ReturningCounts
  <2> QED BY <1>3, <2>2, <2>3, <2>4, <2>5, Descends
<1>5. CASE ~(Len(calls) > 1)
  <2>1. calls' = <<>> /\ status' \in {"accepted", "rejected"}
    BY <1>5 DEF Return
  <2> QED BY <1>3, <2>1, EmptyStack, AfterEnd
<1> QED BY <1>4, <1>5

-----------------------------------------------------------------------------
(***************************************************************************)
(* The procedures, one by one.                                             *)
(***************************************************************************)
LEMMA StageCounts ==
  /\ \A l \in 1..17, s \in 51..52 : l > 1 => 3 * (17 - l) + 2 < s + 100 * 0
  /\ \A l \in 1..17, s \in 0..52, n \in Nat \ {0} : 3 * (17 - l) + 2 < s + 100 * n
  /\ \A s \in 0..52, n \in Nat \ {0} : 51 < s + 100 * n
  /\ \A l \in 1..17 : 3 * (17 - (l + 1)) + 2 < 3 * (17 - l) + 100 * 0
  /\ 51 < 52 + 100 * 0
  OBVIOUS

\* A call that reads an operator, and one whose operands become one tree.
LEMMA WithOperator ==
  ASSUME NEW c, IsCall(c), NEW op
  PROVE  LET d == [c EXCEPT !.op = op] IN
         IsCall(d) /\ d.procedure = c.procedure /\ d.op = op /\ d.kids = c.kids
<1>1. [c EXCEPT !.op = op] = [procedure |-> c.procedure, op |-> op, kids |-> c.kids]
  BY DEF IsCall
<1> QED BY <1>1 DEF IsCall

LEMMA WithTree ==
  ASSUME NEW c, IsCall(c), NEW t
  PROVE  LET d == [c EXCEPT !.op = "", !.kids = <<t>>] IN
         IsCall(d) /\ d.procedure = c.procedure /\ d.op = "" /\ Len(d.kids) = 1 /\ d.kids # <<>>
<1> DEFINE k == <<t>>
           d == [c EXCEPT !.op = "", !.kids = k]
<1>1. k \in Seq({t}) /\ Len(k) = 1 /\ k # <<>>
  OBVIOUS
<1>2. k \in Seq(Range(k))
  BY <1>1, SeqOfRange
<1> HIDE DEF k
<1>3. d = [procedure |-> c.procedure, op |-> "", kids |-> k]
  <2> DEFINE e == [c EXCEPT !.op = ""]
  <2>1. IsCall(e) /\ e.procedure = c.procedure /\ e.op = ""
    BY WithOperator
  <2>2. d = [e EXCEPT !.kids = k]
    OBVIOUS
  <2> HIDE DEF e
  <2>3. [e EXCEPT !.kids = k] = [procedure |-> e.procedure, op |-> e.op, kids |-> k]
    <3>1. e = [procedure |-> e.procedure, op |-> e.op, kids |-> e.kids]
      BY <2>1 DEF IsCall
    <3> QED BY <3>1
  <2> QED BY <2>1, <2>2, <2>3
<1>4. IsCall(d)
  BY <1>2, <1>3 DEF IsCall
<1>5. d.procedure = c.procedure /\ d.op = "" /\ d.kids = k
  BY <1>3
<1> HIDE DEF d
<1>6. IsCall(d) /\ d.procedure = c.procedure /\ d.op = "" /\ Len(d.kids) = 1 /\ d.kids # <<>>
  BY <1>1, <1>4, <1>5
<1> QED BY <1>6 DEF d, k

LEMMA InFacts ==
  ASSUME IInv, NEW p, In(p)
  PROVE  /\ status = "parsing" /\ Top.procedure = p /\ p \in Names
         /\ IsCall(Top) /\ GoesOn(p, Top.op, Len(Top.kids)) /\ Len(Top.kids) \in Nat
         /\ Stage(Top) \in 0..52
         /\ Top.kids # <<>> \/ Top.op # "" => Stage(Top) \in 51..52
         /\ Len(Top.kids) = 0 <=> Top.kids = <<>>
         /\ at + 0 \in 1..Len(text) + 1
<1>1. status = "parsing" /\ Top.procedure = p
  BY DEF In
<1>2. IsCall(Top) /\ GoesOn(p, Top.op, Len(Top.kids)) /\ Len(Top.kids) \in Nat
  BY <1>1, RemainingFacts
<1>3. p \in Names
  BY <1>1, <1>2 DEF IsCall
<1>4. Len(Top.kids) = 0 <=> Top.kids = <<>>
  BY <1>2, EmptySeq DEF IsCall
<1>5. at + 0 \in 1..Len(text) + 1
  BY <1>1, RemainingFacts
<1>6. /\ Stage(Top) \in 0..52
      /\ Top.kids # <<>> \/ Top.op # "" => Stage(Top) \in 51..52
  BY <1>2, StageFacts
<1> QED BY <1>1, <1>2, <1>3, <1>4, <1>5, <1>6

\* A call that has something already may call any procedure at the same token.
LEMMA CallHere ==
  ASSUME IInv, NEW p, In(p), Top.kids # <<>> \/ Top.op # "",
         GoesOn(p, Top.op, Len(Top.kids) + 1), NEW q \in Names, Level(q) > 1, Call(q)
  PROVE  Progress
<1>1. 3 * (17 - Level(q)) + 2 < Stage(Top) + 100 * 0
  <2>1. Level(q) \in 1..17 /\ Stage(Top) \in 51..52
    BY InFacts, LevelRange
  <2> QED BY <2>1, StageCounts
<1> QED BY <1>1, InFacts, AfterCall DEF Call

\* A call of any procedure after a token that is read.
LEMMA CallNext ==
  ASSUME IInv, status = "parsing",
         NEW c, IsCall(c), GoesOn(c.procedure, c.op, Len(c.kids) + 1), NEW q \in Names,
         NEW n \in Nat \ {0}, at + n \in 1..Len(text) + 1, CallFrom(c, n, q)
  PROVE  Progress
<1>1. Level(q) \in 1..17 /\ Stage(Top) \in 0..52
  BY LevelRange, RemainingFacts
<1>2. 3 * (17 - Level(q)) + 2 < Stage(Top) + 100 * n
  BY <1>1, StageCounts
<1>3. n \in Nat
  OBVIOUS
<1> QED BY <1>2, <1>3, AfterCall

LEMMA CallAfterStep ==
  ASSUME IInv, NEW p, In(p), token # "eof", NEW op, GoesOn(p, op, Len(Top.kids) + 1),
         NEW q \in Names, CallAfter(op, q)
  PROVE  Progress
<1> DEFINE c == [Top EXCEPT !.op = op]
<1>1. IsCall(c) /\ c.procedure = p /\ c.op = op /\ c.kids = Top.kids
  BY InFacts, WithOperator
<1>2. at + 1 \in 1..Len(text) + 1
  BY ReadOne DEF IInv
<1>3. CallFrom(c, 1, q)
  BY DEF CallAfter
<1> HIDE DEF c
<1>4. GoesOn(c.procedure, c.op, Len(c.kids) + 1)
  BY <1>1
<1>5. status = "parsing"
  BY InFacts
<1>6. 1 \in Nat \ {0}
  OBVIOUS
<1> QED BY <1>1, <1>2, <1>3, <1>4, <1>5, <1>6, CallNext

LEMMA FirstOperandStep ==
  ASSUME IInv, NEW p, p # "primary", FirstOperand(p)
  PROVE  Progress
<1>1. In(p) /\ Len(Top.kids) = 0 /\ Top.op = "" /\ CallFrom(Top, 0, Below(p))
  BY DEF FirstOperand, Returned, Call
<1>2. /\ status = "parsing" /\ Top.procedure = p /\ p \in Names /\ IsCall(Top)
      /\ Top.kids = <<>> /\ at + 0 \in 1..Len(text) + 1
  BY <1>1, InFacts
<1>3. Below(p) \in Names /\ Level(Below(p)) = Level(p) + 1
  BY <1>2, BelowFacts
<1>4. Stage(Top) = 3 * (17 - Level(p))
  BY <1>1, <1>2, StageFacts
<1>5. 3 * (17 - Level(Below(p))) + 2 < Stage(Top) + 100 * 0
  <2>1. Level(p) \in 1..17
    BY <1>2, LevelRange
  <2>2. 3 * (17 - (Level(p) + 1)) + 2 < 3 * (17 - Level(p)) + 100 * 0
    BY <2>1, StageCounts
  <2> QED BY <2>2, <1>3, <1>4
<1>6. GoesOn(Top.procedure, Top.op, 1)
  BY <1>1 DEF GoesOn
<1>9. \A k : k = 0 => k + 1 = 1
  OBVIOUS
<1>8. Len(Top.kids) + 1 = 1
  BY <1>1, <1>9
<1>7. GoesOn(Top.procedure, Top.op, Len(Top.kids) + 1)
  BY <1>6, <1>8
<1> QED BY <1>1, <1>2, <1>3, <1>5, <1>7, AfterCall

\* The operands of a binary level, or of a suffix, become one tree.
LEMMA TreeStep ==
  ASSUME IInv, NEW p, In(p), NEW t, NEW n \in Nat, at + n \in 1..Len(text) + 1,
         n > 0 \/ (p \in DOMAIN Operators /\ Len(Top.kids) = 2),
         Continue([Top EXCEPT !.op = "", !.kids = <<t>>], n)
  PROVE  Progress
<1> DEFINE c == [Top EXCEPT !.op = "", !.kids = <<t>>]
<1>1. /\ IsCall(c) /\ c.procedure = p /\ c.op = "" /\ Len(c.kids) = 1 /\ c.kids # <<>>
  BY InFacts, WithTree
<1>2. Continue(c, n)
  OBVIOUS
<1> HIDE DEF c
<1>3. GoesOn(c.procedure, c.op, Len(c.kids))
  BY <1>1 DEF GoesOn
<1>4. Stage(c) = 51
  BY <1>1 DEF Stage
<1>5. CASE n > 0
  <2>1. Stage(c) < Stage(Top) + 100 * n
    <3>1. Stage(Top) \in 0..52
      BY InFacts
    <3>2. n \in Nat \ {0}
      BY <1>5
    <3>3. 51 < Stage(Top) + 100 * n
      BY <3>1, <3>2, StageCounts
    <3> QED BY <3>3, <1>4
  <2> QED BY <1>1, <1>2, <1>3, <2>1, InFacts, AfterContinue
<1>6. CASE n = 0 /\ p \in DOMAIN Operators /\ Len(Top.kids) = 2
  <2>1. Stage(Top) = 52
    <3>1. IsCall(Top) /\ Top.procedure = p
      BY InFacts
    <3> QED BY <3>1, <1>6, StageFacts
  <2>2. Stage(c) < Stage(Top) + 100 * n
    BY <1>4, <1>6, <2>1, StageCounts
  <2> QED BY <1>1, <1>2, <1>3, <2>2, InFacts, AfterContinue
<1> QED BY <1>5, <1>6

LEMMA ReturnHere ==
  ASSUME IInv, NEW p, In(p), Top.kids # <<>> \/ Top.op # "", NEW t, Return(t, 0)
  PROVE  Progress
  BY InFacts, AfterReturn

-----------------------------------------------------------------------------
LEMMA OperatorFacts ==
  ASSUME NEW p \in DOMAIN Operators
  PROVE  /\ p \in Names /\ Below(p) \in Names
         /\ p \notin {"assign", "conditional", "cast", "unary", "postfix", "primary"}
         /\ "eof" \notin Operators[p]
<1>1. p \in {"expr", "logor", "logand", "bitor", "bitxor", "bitand", "equal", "relational", "shift", "add", "mult"}
  BY DEF Operators
<1>2. /\ Procedures[1] = "expr" /\ Procedures[4] = "logor" /\ Procedures[5] = "logand" /\ Procedures[6] = "bitor"
      /\ Procedures[7] = "bitxor" /\ Procedures[8] = "bitand" /\ Procedures[9] = "equal"
      /\ Procedures[10] = "relational" /\ Procedures[11] = "shift" /\ Procedures[12] = "add" /\ Procedures[13] = "mult"
  BY DEF Procedures
<1>3. /\ 1 \in 1..17 /\ 4 \in 1..17 /\ 5 \in 1..17 /\ 6 \in 1..17 /\ 7 \in 1..17 /\ 8 \in 1..17
      /\ 9 \in 1..17 /\ 10 \in 1..17 /\ 11 \in 1..17 /\ 12 \in 1..17 /\ 13 \in 1..17
  OBVIOUS
<1>4. p \in Names
  BY <1>1, <1>2, <1>3 DEF Names
<1>5. p \notin {"assign", "conditional", "cast", "unary", "postfix", "primary"}
  BY <1>1
<1>6. Below(p) \in Names
  BY <1>4, <1>5, BelowFacts
<1>8. /\ "eof" \notin Operators["expr"] /\ "eof" \notin Operators["logor"] /\ "eof" \notin Operators["logand"]
      /\ "eof" \notin Operators["bitor"] /\ "eof" \notin Operators["bitxor"] /\ "eof" \notin Operators["bitand"]
      /\ "eof" \notin Operators["equal"] /\ "eof" \notin Operators["relational"]
      /\ "eof" \notin Operators["shift"] /\ "eof" \notin Operators["add"] /\ "eof" \notin Operators["mult"]
  BY DEF Operators
<1>7. "eof" \notin Operators[p]
  BY <1>1, <1>8
<1> QED BY <1>4, <1>5, <1>6, <1>7

LEMMA SomeKids ==
  ASSUME Returned # 0
  PROVE  Top.kids # <<>>
<1>1. Top.kids = <<>> => Len(Top.kids) = 0
  BY EmptySeq
<1> QED BY <1>1 DEF Returned

LEMMA LeftAssociativeStep ==
  ASSUME IInv, NEW p \in DOMAIN Operators, LeftAssociative(p)
  PROVE  Progress
<1>1. CASE FirstOperand(p)
  BY <1>1, FirstOperandStep, OperatorFacts
<1>2. CASE In(p) /\ Returned = 1 /\ IF token \in Operators[p] THEN CallAfter(token, Below(p)) ELSE Return(Top.kids[1], 0)
  <2>1. CASE token \in Operators[p]
    <3>1. token # "eof" /\ Below(p) \in Names
      BY <2>1, OperatorFacts
    <3>2. Len(Top.kids) + 1 = 2
      BY <1>2 DEF Returned
    <3>3. GoesOn(p, token, Len(Top.kids) + 1)
      BY <3>2 DEF GoesOn
    <3> QED BY <1>2, <2>1, <3>1, <3>3, CallAfterStep
  <2>2. CASE token \notin Operators[p]
    <3>1. Top.kids # <<>>
      BY <1>2, SomeKids
    <3> QED BY <1>2, <2>2, <3>1, ReturnHere
  <2> QED BY <2>1, <2>2
<1>3. CASE In(p) /\ Returned = 2 /\ Continue([Top EXCEPT !.op = "", !.kids = <<Node(Top.op, Top.kids)>>], 0)
  <2>1. In(p) /\ Len(Top.kids) = 2 /\ at + 0 \in 1..Len(text) + 1
    BY <1>3, InFacts DEF Returned
  <2> QED BY <1>3, <2>1, TreeStep
<1> QED BY <1>1, <1>2, <1>3 DEF LeftAssociative

LEMMA ParseAssignStep ==
  ASSUME IInv, ParseAssignExpr
  PROVE  Progress
<1>1. CASE FirstOperand("assign")
  BY <1>1, FirstOperandStep
<1>2. CASE In("assign") /\ Returned = 1 /\ IF IsAssignOperator(token) THEN CallAfter(token, "assign") ELSE Return(Top.kids[1], 0)
  <2>1. CASE IsAssignOperator(token)
    <3>1. token # "eof" /\ "assign" \in Names
      BY <2>1, Levels DEF IsAssignOperator
    <3>2. Len(Top.kids) + 1 = 2
      BY <1>2 DEF Returned
    <3>3. GoesOn("assign", token, Len(Top.kids) + 1)
      BY <3>2 DEF GoesOn
    <3> QED BY <1>2, <2>1, <3>1, <3>3, CallAfterStep
  <2>2. CASE ~IsAssignOperator(token)
    <3>1. Top.kids # <<>>
      BY <1>2, SomeKids
    <3> QED BY <1>2, <2>2, <3>1, ReturnHere
  <2> QED BY <2>1, <2>2
<1>3. CASE In("assign") /\ Returned = 2 /\ Return(Node(Top.op, Top.kids), 0)
  <2>1. Top.kids # <<>>
    BY <1>3, SomeKids
  <2> QED BY <1>3, <2>1, ReturnHere
<1> QED BY <1>1, <1>2, <1>3 DEF ParseAssignExpr

LEMMA ParseConditionalStep ==
  ASSUME IInv, ParseConditionalExpr
  PROVE  Progress
<1>1. CASE FirstOperand("conditional")
  BY <1>1, FirstOperandStep
<1>2. CASE In("conditional") /\ Returned = 1 /\ IF token = "?" THEN CallAfter("?", "expr") ELSE Return(Top.kids[1], 0)
  <2>1. CASE token = "?"
    <3>1. token # "eof" /\ "expr" \in Names
      BY <2>1, Levels
    <3>2. Len(Top.kids) + 1 = 2
      BY <1>2 DEF Returned
    <3>3. GoesOn("conditional", "?", Len(Top.kids) + 1)
      BY <3>2 DEF GoesOn
    <3> QED BY <1>2, <2>1, <3>1, <3>3, CallAfterStep
  <2>2. CASE token # "?"
    <3>1. Top.kids # <<>>
      BY <1>2, SomeKids
    <3> QED BY <1>2, <2>2, <3>1, ReturnHere
  <2> QED BY <2>1, <2>2
<1>3. CASE In("conditional") /\ Returned = 2 /\ Consume(":", CallAfter("?", "conditional"))
  <2>1. CASE token = ":"
    <3>1. token # "eof" /\ "conditional" \in Names
      BY <2>1, Levels
    <3>2. Len(Top.kids) + 1 = 3
      BY <1>3 DEF Returned
    <3>3. GoesOn("conditional", "?", Len(Top.kids) + 1)
      BY <3>2 DEF GoesOn
    <3> QED BY <1>3, <2>1, <3>1, <3>3, CallAfterStep DEF Consume
  <2>2. CASE token # ":"
    BY <1>3, <2>2, InFacts, AfterReject DEF Consume
  <2> QED BY <2>1, <2>2
<1>4. CASE In("conditional") /\ Returned = 3 /\ Return(Node("?", Top.kids), 0)
  <2>1. Top.kids # <<>>
    BY <1>4, SomeKids
  <2> QED BY <1>4, <2>1, ReturnHere
<1> QED BY <1>1, <1>2, <1>3, <1>4 DEF ParseConditionalExpr
LEMMA AnyStage == \A g, s \in 0..52 : g < s + 100 * 1
  OBVIOUS

\* An operator is read, and the call goes on itself.
LEMMA ReadOperatorStep ==
  ASSUME IInv, NEW p, In(p), token # "eof", NEW op, GoesOn(p, op, Len(Top.kids)),
         Continue([Top EXCEPT !.op = op], 1)
  PROVE  Progress
<1> DEFINE c == [Top EXCEPT !.op = op]
<1>1. IsCall(c) /\ c.procedure = p /\ c.op = op /\ c.kids = Top.kids
  BY InFacts, WithOperator
<1>2. at + 1 \in 1..Len(text) + 1
  BY ReadOne DEF IInv
<1>3. Continue(c, 1)
  OBVIOUS
<1> HIDE DEF c
<1>4. GoesOn(c.procedure, c.op, Len(c.kids))
  BY <1>1
<1>5. Stage(c) \in 0..52 /\ Stage(Top) \in 0..52 /\ status = "parsing"
  BY <1>1, StageFacts, InFacts
<1>7. Stage(c) < Stage(Top) + 100 * 1 /\ 1 \in Nat
  BY <1>5, AnyStage
<1> QED BY <1>1, <1>2, <1>3, <1>4, <1>5, <1>7, AfterContinue

LEMMA ReturnNext ==
  ASSUME IInv, NEW p, In(p), token # "eof", NEW t, Return(t, 1)
  PROVE  Progress
<1>1. at + 1 \in 1..Len(text) + 1 /\ status = "parsing"
  BY ReadOne, InFacts DEF IInv
<1>2. 1 \in Nat /\ 1 > 0
  OBVIOUS
<1> QED BY <1>1, <1>2, AfterReturn

\* "(", the tokens of a type and ")".
LEMMA TypeNameRead ==
  ASSUME IInv, TokenAt(at + 2) = ")"
  PROVE  at + 3 \in 1..Len(text) + 1
<1>1. TokenAt(at + 2) # "eof" /\ 2 \in Nat /\ 2 + 1 = 3
  OBVIOUS
<1>2. at + (2 + 1) \in 1..Len(text) + 1
  BY <1>1, ReadMore DEF IInv
<1> QED BY <1>1, <1>2

LEMMA ParseCastStep ==
  ASSUME IInv, ParseCastExpr
  PROVE  Progress
<1>1. CASE /\ In("cast") /\ Returned = 0 /\ TypeNameAhead
           /\ IF TokenAt(at + 2) = ")" THEN CallFrom([Top EXCEPT !.op = "(T)"], 3, "cast") ELSE Reject
  <2>1. CASE TokenAt(at + 2) = ")"
    <3> DEFINE c == [Top EXCEPT !.op = "(T)"]
    <3>1. CallFrom(c, 3, "cast")
      BY <1>1, <2>1
    <3>2. IsCall(c) /\ c.procedure = "cast" /\ c.kids = Top.kids
      BY <1>1, InFacts, WithOperator
    <3> HIDE DEF c
    <3>3. Len(c.kids) + 1 = 1
      BY <1>1, <3>2 DEF Returned
    <3>4. GoesOn(c.procedure, c.op, Len(c.kids) + 1)
      BY <3>2, <3>3 DEF GoesOn
    <3>5. at + 3 \in 1..Len(text) + 1
      BY <2>1, TypeNameRead
    <3>6. 3 \in Nat \ {0}
      OBVIOUS
    <3>7. status = "parsing" /\ "cast" \in Names
      BY <1>1, InFacts
    <3> QED BY <3>1, <3>2, <3>4, <3>5, <3>6, <3>7, CallNext
  <2>2. CASE TokenAt(at + 2) # ")"
    BY <1>1, <2>2, InFacts, AfterReject
  <2> QED BY <2>1, <2>2
<1>2. CASE FirstOperand("cast")
  BY <1>2, FirstOperandStep
<1>3. CASE In("cast") /\ Returned = 1 /\ Return(IF Top.op = "(T)" THEN Prefix("(T)", Top.kids) ELSE Top.kids[1], 0)
  <2>1. Top.kids # <<>>
    BY <1>3, SomeKids
  <2> QED BY <1>3, <2>1, ReturnHere
<1> QED BY <1>1, <1>2, <1>3 DEF ParseCastExpr

LEMMA ParseUnaryStep ==
  ASSUME IInv, ParseUnaryExpr
  PROVE  Progress
<1>1. CASE /\ In("unary") /\ Returned = 0 /\ Top.op = ""
           /\ IF IsUnaryOperator(token) THEN Continue([Top EXCEPT !.op = token], 1) ELSE Call("postfix")
  <2>1. CASE IsUnaryOperator(token)
    <3>1. token # "eof"
      BY <2>1 DEF IsUnaryOperator
    <3>2. GoesOn("unary", token, Len(Top.kids))
      BY <1>1 DEF GoesOn, Returned
    <3>3. Continue([Top EXCEPT !.op = token], 1)
      BY <1>1, <2>1
    <3> QED BY <1>1, <3>1, <3>2, <3>3, ReadOperatorStep
  <2>2. CASE ~IsUnaryOperator(token)
    <3>1. Procedures[15] = "unary" /\ Procedures[15 + 1] = "postfix" /\ 15 \in 1..16
      BY DEF Procedures
    <3>2. Below("unary") = "postfix"
      BY <3>1, LevelFacts
    <3>3. FirstOperand("unary")
      BY <1>1, <2>2, <3>2 DEF FirstOperand
    <3> QED BY <3>3, FirstOperandStep
  <2> QED BY <2>1, <2>2
<1>2. CASE /\ In("unary") /\ Returned = 0 /\ Top.op # ""
           /\ IF Top.op = "sizeof" /\ TypeNameAhead
              THEN IF TokenAt(at + 2) = ")" THEN Return(Prefix("sizeof(T)", <<>>), 3) ELSE Reject
              ELSE Call("unary")
  <2>1. CASE Top.op = "sizeof" /\ TypeNameAhead /\ TokenAt(at + 2) = ")"
    <3>1. at + 3 \in 1..Len(text) + 1 /\ status = "parsing"
      BY <1>2, <2>1, TypeNameRead, InFacts
    <3>2. 3 \in Nat /\ 3 > 0
      OBVIOUS
    <3> QED BY <1>2, <2>1, <3>1, <3>2, AfterReturn
  <2>2. CASE Top.op = "sizeof" /\ TypeNameAhead /\ TokenAt(at + 2) # ")"
    BY <1>2, <2>2, InFacts, AfterReject
  <2>3. CASE ~(Top.op = "sizeof" /\ TypeNameAhead)
    <3>0. Len(Top.kids) = 0
      BY <1>2, Zenon DEF Returned
    <3>1. Len(Top.kids) + 1 = 1
      BY <3>0
    <3>2. GoesOn("unary", Top.op, Len(Top.kids) + 1)
      BY <3>1 DEF GoesOn
    <3>3. "unary" \in Names /\ Level("unary") > 1
      BY Levels
    <3> QED BY <1>2, <2>3, <3>2, <3>3, CallHere
  <2> QED BY <2>1, <2>2, <2>3
<1>3. CASE In("unary") /\ Returned = 1 /\ Return(IF Top.op = "" THEN Top.kids[1] ELSE Prefix(Top.op, Top.kids), 0)
  <2>1. Returned = 1
    BY <1>3
  <2>2. Top.kids # <<>>
    BY <2>1, SomeKids
  <2> QED BY <1>3, <2>2, ReturnHere
<1> QED BY <1>1, <1>2, <1>3 DEF ParseUnaryExpr

LEMMA SuffixStep ==
  ASSUME IInv, In("postfix"), NEW op, NEW n \in {1, 2}, at + n \in 1..Len(text) + 1, Postfix(op, n)
  PROVE  Progress
<1>1. n \in Nat /\ n > 0
  OBVIOUS
<1> QED BY <1>1, TreeStep DEF Postfix

LEMMA ParsePostfixStep ==
  ASSUME IInv, ParsePostfixExpr
  PROVE  Progress
<1>1. CASE FirstOperand("postfix")
  BY <1>1, FirstOperandStep
<1>2. CASE /\ In("postfix") /\ Returned = 1 /\ Top.op = ""
           /\ CASE token \in {"++", "--"} -> Postfix(token, 1)
                [] token \in {".", "->"} -> IF TokenAt(at + 1) = "x" THEN Postfix(token, 2) ELSE Reject
                [] token = "[" -> CallAfter("[", "expr")
                [] token = "(" -> Continue([Top EXCEPT !.op = "("], 1)
                [] OTHER -> Return(Top.kids[1], 0)
  <2>0. Top.kids # <<>> /\ status = "parsing" /\ Len(Top.kids) = 1 /\ Len(Top.kids) + 1 = 2
    <3>1. Len(Top.kids) = 1 /\ status = "parsing"
      BY <1>2, InFacts DEF Returned
    <3>3. Returned = 1
      BY <1>2, Zenon
    <3>2. Top.kids # <<>>
      BY <3>3, SomeKids
    <3> QED BY <3>1, <3>2
  <2>1. CASE token \in {"++", "--"}
    <3>1. token # "eof" /\ Postfix(token, 1)
      BY <1>2, <2>1
    <3>2. at + 1 \in 1..Len(text) + 1
      BY <3>1, ReadOne DEF IInv
    <3> QED BY <1>2, <3>1, <3>2, SuffixStep
  <2>2. CASE token \in {".", "->"}
    <3>1. IF TokenAt(at + 1) = "x" THEN Postfix(token, 2) ELSE Reject
      BY <1>2, <2>2
    <3>2. CASE TokenAt(at + 1) = "x"
      <4>1. TokenAt(at + 1) # "eof" /\ 1 \in Nat /\ 1 + 1 = 2
        BY <3>2
      <4>2. at + (1 + 1) \in 1..Len(text) + 1
        BY <4>1, ReadMore DEF IInv
      <4>3. at + 2 \in 1..Len(text) + 1
        BY <4>1, <4>2
      <4> QED BY <1>2, <3>1, <3>2, <4>3, SuffixStep
    <3>3. CASE TokenAt(at + 1) # "x"
      BY <3>1, <3>3, <2>0, AfterReject
    <3> QED BY <3>2, <3>3
  <2>3. CASE token = "["
    <3>1. token # "eof" /\ CallAfter("[", "expr")
      BY <1>2, <2>3
    <3>2. GoesOn("postfix", "[", Len(Top.kids) + 1)
      BY <2>0 DEF GoesOn
    <3>3. "expr" \in Names
      BY Levels
    <3> QED BY <1>2, <3>1, <3>2, <3>3, CallAfterStep
  <2>4. CASE token = "("
    <3>1. token # "eof" /\ Continue([Top EXCEPT !.op = "("], 1)
      BY <1>2, <2>4
    <3>2. GoesOn("postfix", "(", Len(Top.kids))
      BY <2>0 DEF GoesOn
    <3> QED BY <1>2, <3>1, <3>2, ReadOperatorStep
  <2>5. CASE token \notin {"++", "--", ".", "->", "[", "("}
    <3>1. Return(Top.kids[1], 0)
      BY <1>2, <2>5
    <3> QED BY <1>2, <2>0, <3>1, ReturnHere
  <2> QED BY <2>1, <2>2, <2>3, <2>4, <2>5
<1>3. CASE In("postfix") /\ Top.op = "[" /\ Returned = 2 /\ Consume("]", Postfix("[", 1))
  <2>1. CASE token = "]"
    <3>1. at + 1 \in 1..Len(text) + 1
      BY <2>1, ReadOne DEF IInv
    <3> QED BY <1>3, <2>1, <3>1, SuffixStep DEF Consume
  <2>2. CASE token # "]"
    BY <1>3, <2>2, InFacts, AfterReject DEF Consume
  <2> QED BY <2>1, <2>2
<1>4. CASE /\ In("postfix") /\ Top.op = "("
           /\ IF token = ")" THEN Postfix("(", 1)
              ELSE CallFrom(Top, IF Returned > 1 /\ token = "," THEN 1 ELSE 0, "assign")
  <2>1. CASE token = ")"
    <3>1. at + 1 \in 1..Len(text) + 1
      BY <2>1, ReadOne DEF IInv
    <3> QED BY <1>4, <2>1, <3>1, SuffixStep
  <2>2. CASE token # ")"
    <3>1. "assign" \in Names /\ Level("assign") > 1
      BY Levels
    <3>2. Len(Top.kids) \in Nat /\ status = "parsing" /\ IsCall(Top) /\ Top.procedure = "postfix"
      BY <1>4, InFacts
    <3>3. \A k \in Nat : k + 1 > 0
      OBVIOUS
    <3>4. GoesOn("postfix", Top.op, Len(Top.kids) + 1)
      BY <1>4, <3>2, <3>3 DEF GoesOn
    <3>5. CASE Returned > 1 /\ token = ","
      <4>1. CallFrom(Top, 1, "assign") /\ token # "eof"
        BY <1>4, <2>2, <3>5
      <4>2. at + 1 \in 1..Len(text) + 1
        BY <4>1, ReadOne DEF IInv
      <4>3. 1 \in Nat \ {0}
        OBVIOUS
      <4> QED BY <3>1, <3>2, <3>4, <4>1, <4>2, <4>3, CallNext
    <3>6. CASE ~(Returned > 1 /\ token = ",")
      <4>1. Call("assign") /\ Top.op # ""
        BY <1>4, <2>2, <3>6 DEF Call
      <4> QED BY <1>4, <3>1, <3>4, <4>1, CallHere
    <3> QED BY <3>5, <3>6
  <2> QED BY <2>1, <2>2
<1> QED BY <1>1, <1>2, <1>3, <1>4 DEF ParsePostfixExpr

LEMMA ParsePrimaryStep ==
  ASSUME IInv, ParsePrimaryExpr
  PROVE  Progress
<1>1. CASE /\ In("primary") /\ Returned = 0
           /\ CASE token = "(" -> CallAfter("(", "expr")
                [] token = "x" -> Return(Operand(at), 1)
                [] OTHER -> Reject
  <2>1. CASE token = "("
    <3>1. token # "eof" /\ CallAfter("(", "expr")
      BY <1>1, <2>1
    <3>2. Len(Top.kids) + 1 = 1
      BY <1>1 DEF Returned
    <3>3. GoesOn("primary", "(", Len(Top.kids) + 1)
      BY <3>2 DEF GoesOn
    <3>4. "expr" \in Names
      BY Levels
    <3> QED BY <1>1, <3>1, <3>3, <3>4, CallAfterStep
  <2>2. CASE token = "x"
    <3>1. token # "eof" /\ Return(Operand(at), 1)
      BY <1>1, <2>2
    <3> QED BY <1>1, <3>1, ReturnNext
  <2>3. CASE token \notin {"(", "x"}
    <3>1. Reject /\ status = "parsing"
      BY <1>1, <2>3, InFacts
    <3> QED BY <3>1, AfterReject
  <2> QED BY <2>1, <2>2, <2>3
<1>2. CASE In("primary") /\ Returned = 1 /\ Consume(")", Return(Top.kids[1], 1))
  <2>1. CASE token = ")"
    <3>1. token # "eof" /\ Return(Top.kids[1], 1)
      BY <1>2, <2>1 DEF Consume
    <3> QED BY <1>2, <3>1, ReturnNext
  <2>2. CASE token # ")"
    BY <1>2, <2>2, InFacts, AfterReject DEF Consume
  <2> QED BY <2>1, <2>2
<1> QED BY <1>1, <1>2 DEF ParsePrimaryExpr

-----------------------------------------------------------------------------
(***************************************************************************)
(* The parser.                                                             *)
(***************************************************************************)
LEMMA InitHolds == Init => IInv
<1> SUFFICES ASSUME Init PROVE IInv
  OBVIOUS
<1> DEFINE c == [procedure |-> "expr", op |-> "", kids |-> <<>>]
           s == <<c>>
<1>1. text \in Seq(STRING) /\ at = 1 /\ status = "parsing" /\ calls = s
  BY TextsAssumption DEF Init
<1>2. at \in 1..Len(text) + 1
  <2>1. Len(text) \in Nat
    BY <1>1, LenProperties
  <2>2. \A l \in Nat : 1 \in 1..l + 1
    OBVIOUS
  <2> QED BY <1>1, <2>1, <2>2
<1>3. IsCall(c) /\ c.op = "" /\ c.kids = <<>>
  BY Levels, EmptySeq, SeqOfRange DEF IsCall
<1>4. s \in Seq({c}) /\ Len(s) = 1 /\ s[1] = c /\ s # <<>>
  OBVIOUS
<1>5. s \in Seq(Range(s)) /\ DOMAIN s = 1..1
  BY <1>4, SeqOfRange, LenProperties
<1> HIDE DEF c, s
<1>6. Len(c.kids) + 0 = 0
  <2>1. Len(c.kids) = 0
    BY <1>3, EmptySeq
  <2> QED BY <2>1
<1>7. GoesOn(c.procedure, c.op, Len(c.kids) + 0)
  BY <1>3, <1>6 DEF GoesOn
<1>8. \A i \in DOMAIN s : i = 1
  BY <1>5
<1>9. \A i \in DOMAIN s : GoesOn(s[i].procedure, s[i].op, Len(s[i].kids) + (IF i = Len(s) THEN 0 ELSE 1))
  BY <1>4, <1>7, <1>8
<1>10. \A i \in DOMAIN s : IsCall(s[i])
  BY <1>3, <1>4, <1>8
<1>11. Stack(s)
  BY <1>5, <1>9, <1>10 DEF Stack
<1> QED BY <1>1, <1>2, <1>4, <1>11 DEF IInv, TypeOK

LEMMA NextProgresses ==
  ASSUME IInv, Next
  PROVE  Progress \/ UNCHANGED vars
<1>1. CASE ParseExpr
  <2>1. "expr" \in DOMAIN Operators
    BY DEF Operators
  <2> QED BY <1>1, <2>1, LeftAssociativeStep DEF ParseExpr
<1>2. CASE ParseAssignExpr
  BY <1>2, ParseAssignStep
<1>3. CASE ParseConditionalExpr
  BY <1>3, ParseConditionalStep
<1>4. CASE ParseBinaryExpr
  <2>1. PICK p \in DOMAIN Operators : LeftAssociative(p)
    BY <1>4 DEF ParseBinaryExpr
  <2> QED BY <2>1, LeftAssociativeStep
<1>5. CASE ParseCastExpr
  BY <1>5, ParseCastStep
<1>6. CASE ParseUnaryExpr
  BY <1>6, ParseUnaryStep
<1>7. CASE ParsePostfixExpr
  BY <1>7, ParsePostfixStep
<1>8. CASE ParsePrimaryExpr
  BY <1>8, ParsePrimaryStep
<1>9. CASE Stopped
  BY <1>9 DEF Stopped
<1> QED BY <1>1, <1>2, <1>3, <1>4, <1>5, <1>6, <1>7, <1>8, <1>9 DEF Next

LEMMA StepKeepsInv == IInv /\ [Next]_vars => IInv'
<1> SUFFICES ASSUME IInv, [Next]_vars PROVE IInv'
  OBVIOUS
<1>1. CASE UNCHANGED vars
  BY <1>1 DEF IInv, TypeOK, vars
<1>2. CASE Next
  BY <1>1, <1>2, NextProgresses DEF Progress
<1> QED BY <1>1, <1>2

\* The parser's token stays within the text and its end, and each call that has been
\* entered is at a point where its procedure goes on once its callee has returned: the
\* stack never holds a call that nothing in parser.cc handles.
THEOREM TypeCorrectness == Spec => []IInv
<1>1. Spec => Init /\ [][Next]_vars
  BY DEF Spec
<1> QED BY <1>1, InitHolds, StepKeepsInv, PTL

\* Reading an expression of any length comes to an end: each step of the recursive
\* descent leaves less of a natural number to do (parser.cc, ParseExpr to
\* ParsePrimaryExpr), so that a text of n tokens is read in at most 100 n + 50 steps.
THEOREM DescentEnds == Spec => StepsDescend
<1>1. IInv /\ [Next]_vars => [Remaining' \in Nat /\ Remaining' < Remaining]_vars
  BY NextProgresses DEF Progress
<1>2. Spec => Init /\ [][Next]_vars
  BY DEF Spec
<1> QED BY <1>1, <1>2, InitHolds, StepKeepsInv, PTL DEF StepsDescend
=============================================================================
