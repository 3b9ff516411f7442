-------------------------- MODULE DeclParserProofs --------------------------
(***************************************************************************)
(* Invariance proofs for DeclParser, for every alphabet, set of names and  *)
(* bound on the text.                                                      *)
(***************************************************************************)
EXTENDS DeclParserProps, SequenceTheorems, WellFoundedInduction, TLAPS

Modes == {"Normal", "Skip"}
Outermost == {"program", "verdict"}
Rewinding == {"isfun.spec", "isfun.decl"}

(***************************************************************************)
(* The inductive invariant.  Its heart, Core, is stated of any value of    *)
(* the three stacks, so that the lemmas about it are about sequences.      *)
(***************************************************************************)

\* Below any frame the stacks are at least as high as that frame keeps them.
Nested(stk) ==
  \A j \in 1..Len(stk) : \A i \in 1..j-1 :
    /\ ScopesOf(stk[i]) <= stk[j].depth
    /\ ModesOf(stk[i]) <= stk[j].mdepth
    /\ StatesOf(stk[i]) <= stk[j].sdepth

\* What a frame that will rewind the lexer remembers: the scopes and the token.
Remembers(f, e, s) ==
  /\ f.at \in SaveHeld =>
       /\ Len(f.mark) = f.depth
       /\ Len(e) >= f.depth
       /\ \A k \in 1..f.depth : e[k] = f.mark[k]
  /\ f.at \in Rewinding => s[f.sdepth + 1] = f.begin

\* The stacks are as high as the frame f says.
High(f, e, m, s) ==
  ScopesOf(f) = Len(e) /\ ModesOf(f) = Len(m) /\ StatesOf(f) = Len(s)

\* The frame g was made while f was on top.
Follows(f, g) ==
  ScopesOf(f) = g.depth /\ ModesOf(f) = g.mdepth /\ StatesOf(f) = g.sdepth

Core(stk, e, m, s) ==
  /\ stk \in Seq(Frames) /\ stk # <<>>
  /\ \A i \in 1..Len(stk) : stk[i].at \in Outermost <=> i = 1
  /\ \A i \in 1..Len(stk)-1 : Follows(stk[i], stk[i+1])
  /\ High(stk[Len(stk)], e, m, s)
  /\ Nested(stk)
  /\ \A i \in 1..Len(stk) : Remembers(stk[i], e, s)

\* The frames under the top one find the scopes and the saved tokens they remember.
Kept(stk, e, f, s, t) ==
  \A i \in 1..Len(stk)-1 :
    /\ stk[i].at \in SaveHeld =>
         Len(f) >= stk[i].depth /\ \A k \in 1..stk[i].depth : f[k] = e[k]
    /\ stk[i].at \in Rewinding => t[stk[i].sdepth + 1] = s[stk[i].sdepth + 1]

SameProcedure(f, g) ==
  /\ f.depth = g.depth /\ f.mdepth = g.mdepth /\ f.sdepth = g.sdepth
  /\ f.at \in Outermost <=> g.at \in Outermost

LEMMA FrontFacts ==
  ASSUME NEW S, NEW q \in Seq(S), Len(q) \in Nat \ {0}
  PROVE  /\ Front(q) \in Seq(S) /\ Len(Front(q)) = Len(q) - 1
         /\ \A i \in 1..Len(q)-1 : Front(q)[i] = q[i]
<1>0. \A i \in 1..Len(q)-1 : q[i] \in S
  OBVIOUS
<1>1. 1 \in Int /\ Len(q)-1 \in Int
  OBVIOUS
<1>2. /\ SubSeq(q, 1, Len(q)-1) \in Seq(S)
      /\ Len(SubSeq(q, 1, Len(q)-1)) = (IF 1 <= Len(q)-1 THEN Len(q)-1-1+1 ELSE 0)
      /\ \A i \in 1..Len(q)-1-1+1 : SubSeq(q, 1, Len(q)-1)[i] = q[1+i-1]
  BY <1>0, <1>1, SubSeqProperties
<1>3. \A n \in Nat \ {0} : n-1-1+1 = n-1 /\ (1 <= n-1 \/ n-1 = 0)
  OBVIOUS
<1>4. \A i \in 1..Len(q)-1 : 1+i-1 = i
  OBVIOUS
<1> QED BY <1>1, <1>2, <1>3, <1>4 DEF Front

LEMMA Heights ==
  ASSUME NEW f \in Frames
  PROVE  /\ f.depth \in Nat \ {0} /\ f.mdepth \in Nat \ {0} /\ f.sdepth \in Nat
         /\ ScopesOf(f) \in Nat /\ ModesOf(f) \in Nat /\ StatesOf(f) \in Nat
         /\ f.depth <= ScopesOf(f) /\ f.mdepth <= ModesOf(f) /\ f.sdepth <= StatesOf(f)
<1>1. f.depth \in Nat \ {0} /\ f.mdepth \in Nat \ {0} /\ f.sdepth \in Nat
  BY DEF Frames
<1>2. \A S : Held(S, f.at) \in 0..1
  BY DEF Held
<1> QED BY <1>1, <1>2 DEF ScopesOf, ModesOf, StatesOf

LEMMA CoreContinue ==
  ASSUME NEW stk, NEW e, NEW m, NEW s, NEW f \in Frames,
         NEW e2, NEW m2, NEW s2,
         Core(stk, e, m, s), SameProcedure(f, stk[Len(stk)]),
         High(f, e2, m2, s2),
         Kept(stk, e, e2, s, s2), Remembers(f, e2, s2)
  PROVE  Core([stk EXCEPT ![Len(stk)] = f], e2, m2, s2)
<1> DEFINE t == [stk EXCEPT ![Len(stk)] = f]
<1>1. /\ t \in Seq(Frames) /\ Len(t) = Len(stk) /\ t # <<>> /\ Len(stk) \in Nat \ {0}
      /\ t[Len(t)] = f /\ \A i \in 1..Len(t)-1 : t[i] = stk[i]
  BY DEF Core
<1> HIDE DEF t
<1>2. \A i \in 1..Len(t) : t[i].at \in Outermost <=> i = 1
  BY <1>1 DEF Core, SameProcedure
<1>3. \A i \in 1..Len(t)-1 : Follows(t[i], t[i+1])
  BY <1>1 DEF Core, SameProcedure, Follows
<1>4. Nested(t)
  BY <1>1 DEF Core, SameProcedure, Nested
<1>5. \A i \in 1..Len(t) : Remembers(t[i], e2, s2)
  BY <1>1 DEF Core, Kept, Remembers
<1> QED BY <1>1, <1>2, <1>3, <1>4, <1>5 DEF Core, t

LEMMA CorePush ==
  ASSUME NEW stk, NEW e, NEW m, NEW s, NEW g \in Frames,
         Core(stk, e, m, s), Follows(stk[Len(stk)], g),
         g.at \notin ScopeHeld \cup SkipHeld \cup Outermost
  PROVE  Core(Append(stk, g), e, m, s)
<1> DEFINE t == Append(stk, g)
<1>1. /\ t \in Seq(Frames) /\ Len(t) = Len(stk) + 1 /\ t # <<>> /\ Len(stk) \in Nat \ {0}
      /\ t[Len(t)] = g /\ \A i \in 1..Len(t)-1 : t[i] = stk[i]
  BY DEF Core
<1> HIDE DEF t
<1>a. g.at \notin SaveHeld /\ g.at \notin Rewinding
  BY DEF SkipHeld, SaveHeld, Rewinding
<1>b. g.depth \in Nat /\ g.mdepth \in Nat /\ g.sdepth \in Nat
  BY DEF Frames
<1>2. \A i \in 1..Len(t) : t[i].at \in Outermost <=> i = 1
  BY <1>1 DEF Core
<1>3. \A i \in 1..Len(t)-1 : Follows(t[i], t[i+1])
  BY <1>1 DEF Core
<1>4. High(g, e, m, s)
  <2>1. High(stk[Len(stk)], e, m, s)
    BY DEF Core
  <2>2. ScopesOf(g) = g.depth /\ ModesOf(g) = g.mdepth /\ StatesOf(g) = g.sdepth
    BY <1>a, <1>b DEF ScopesOf, ModesOf, StatesOf, Held
  <2> QED BY <2>1, <2>2 DEF High, Follows
<1>5. Nested(t)
  <2>1. \A i \in 1..Len(stk)-1 :
          /\ ScopesOf(stk[i]) <= stk[Len(stk)].depth
          /\ ModesOf(stk[i]) <= stk[Len(stk)].mdepth
          /\ StatesOf(stk[i]) <= stk[Len(stk)].sdepth
    BY <1>1 DEF Core, Nested
  <2>2. \A i \in 1..Len(stk) : stk[i] \in Frames
    BY DEF Core
  <2>3. /\ stk[Len(stk)].depth <= g.depth
        /\ stk[Len(stk)].mdepth <= g.mdepth
        /\ stk[Len(stk)].sdepth <= g.sdepth
    BY <1>1, <2>2, Heights DEF Follows
  <2>5. \A i \in 1..Len(stk) :
          ScopesOf(stk[i]) <= g.depth /\ ModesOf(stk[i]) <= g.mdepth /\ StatesOf(stk[i]) <= g.sdepth
    <3> SUFFICES ASSUME NEW i \in 1..Len(stk)
                 PROVE  ScopesOf(stk[i]) <= g.depth /\ ModesOf(stk[i]) <= g.mdepth
                        /\ StatesOf(stk[i]) <= g.sdepth
      OBVIOUS
    <3>1. CASE i = Len(stk)
      BY <3>1, <1>b DEF Follows
    <3>2. CASE i \in 1..Len(stk)-1
      <4>1. /\ ScopesOf(stk[i]) \in Nat /\ ModesOf(stk[i]) \in Nat /\ StatesOf(stk[i]) \in Nat
        BY <2>2, Heights
      <4>2. /\ stk[Len(stk)].depth \in Nat /\ stk[Len(stk)].mdepth \in Nat
            /\ stk[Len(stk)].sdepth \in Nat
        <5>1. stk[Len(stk)] \in Frames
          BY <1>1, <2>2
        <5> QED BY <5>1, Heights
      <4> QED BY <3>2, <4>1, <4>2, <2>1, <2>3, <1>b
    <3> QED BY <3>1, <3>2, <1>1
  <2> QED BY <1>1, <2>5 DEF Core, Nested
<1>6. \A i \in 1..Len(t) : Remembers(t[i], e, s)
  BY <1>1, <1>a DEF Core, Remembers
<1> QED BY <1>1, <1>2, <1>3, <1>4, <1>5, <1>6 DEF Core, t

LEMMA CorePop ==
  ASSUME NEW stk, NEW e, NEW m, NEW s, NEW e2, NEW m2, NEW s2,
         Core(stk, e, m, s), stk[Len(stk)].at \notin Outermost,
         Len(e2) = stk[Len(stk)].depth, Len(m2) = stk[Len(stk)].mdepth,
         Len(s2) = stk[Len(stk)].sdepth,
         Kept(stk, e, e2, s, s2)
  PROVE  Core(Front(stk), e2, m2, s2)
<1> DEFINE t == Front(stk)
<1>0. Len(stk) \in Nat \ {0, 1} /\ stk \in Seq(Frames)
  BY DEF Core
<1>1. /\ t \in Seq(Frames) /\ Len(t) = Len(stk) - 1 /\ t # <<>>
      /\ \A i \in 1..Len(t) : t[i] = stk[i]
  <2>1. t \in Seq(Frames) /\ Len(t) = Len(stk) - 1 /\ \A i \in 1..Len(stk)-1 : t[i] = stk[i]
    BY <1>0, FrontFacts
  <2> QED BY <1>0, <2>1
<1> HIDE DEF t
<1>2. \A i \in 1..Len(t) : t[i].at \in Outermost <=> i = 1
  BY <1>0, <1>1 DEF Core
<1>3. \A i \in 1..Len(t)-1 : Follows(t[i], t[i+1])
  BY <1>0, <1>1 DEF Core
<1>4. High(t[Len(t)], e2, m2, s2)
  BY <1>0, <1>1 DEF Core, Follows, High
<1>5. Nested(t)
  <2>1. Nested(stk)
    BY DEF Core
  <2> QED BY <2>1, <1>0, <1>1 DEF Nested
<1>6. \A i \in 1..Len(t) : Remembers(t[i], e2, s2)
  BY <1>0, <1>1 DEF Core, Remembers, Kept
<1> QED BY <1>1, <1>2, <1>3, <1>4, <1>5, <1>6 DEF Core, t

-----------------------------------------------------------------------------
(***************************************************************************)
(* What happens to the three stacks, as far as the waiting procedures are  *)
(* concerned.                                                              *)
(***************************************************************************)
ModesOK(m) ==
  /\ m \in Seq(Modes) /\ m # <<>>
  /\ m[1] = "Normal" /\ \A k \in 2..Len(m) : m[k] = "Skip"

\* While the mode is Normal no procedure waits to rewind the lexer.
LEMMA NoRewind ==
  ASSUME NEW stk, NEW e, NEW m, NEW s, Core(stk, e, m, s), ModesOK(m),
         m[Len(m)] = "Normal"
  PROVE  \A i \in 1..Len(stk) : stk[i].at \notin SaveHeld /\ stk[i].at \notin Rewinding
<1>1. Len(m) = 1
  <2>1. Len(m) \in Nat \ {0}
    BY DEF ModesOK
  <2>2. Len(m) \notin 2..Len(m)
    BY DEF ModesOK
  <2> QED BY <2>1, <2>2
<1>2. /\ Len(stk) \in Nat \ {0} /\ \A i \in 1..Len(stk) : stk[i] \in Frames
      /\ ModesOf(stk[Len(stk)]) = 1
  BY <1>1 DEF Core, High
<1>3. ASSUME NEW i \in 1..Len(stk), stk[i].at \in SaveHeld
      PROVE  FALSE
  <2>1. ModesOf(stk[i]) = stk[i].mdepth + 1 /\ stk[i].mdepth \in Nat \ {0}
    BY <1>2, <1>3, Heights DEF ModesOf, Held, SkipHeld
  <2>2. CASE i = Len(stk)
    BY <2>1, <2>2, <1>2
  <2>3. CASE i \in 1..Len(stk)-1
    <3>1. ModesOf(stk[i]) <= stk[Len(stk)].mdepth
      BY <2>3, <1>2 DEF Core, Nested
    <3>2. /\ stk[Len(stk)].mdepth <= ModesOf(stk[Len(stk)])
          /\ stk[Len(stk)].mdepth \in Nat
      <4>1. stk[Len(stk)] \in Frames
        BY <1>2
      <4> QED BY <4>1, Heights
    <3> QED BY <3>1, <3>2, <2>1, <1>2
  <2> QED BY <2>2, <2>3, <1>2
<1> QED BY <1>3 DEF SaveHeld, Rewinding

LEMMA KeptNormal ==
  ASSUME NEW stk, NEW e, NEW m, NEW s, Core(stk, e, m, s), ModesOK(m),
         m[Len(m)] = "Normal", NEW f, NEW t
  PROVE  Kept(stk, e, f, s, t)
BY NoRewind DEF Kept

LEMMA KeptSame ==
  ASSUME NEW stk, NEW e, NEW m, NEW s, Core(stk, e, m, s)
  PROVE  Kept(stk, e, e, s, s)
BY DEF Core, Kept, Remembers

LEMMA KeptEnter ==
  ASSUME NEW stk, NEW e \in Seq(Envs), NEW m, NEW s, Core(stk, e, m, s), NEW x \in Envs
  PROVE  Kept(stk, e, Append(e, x), s, s)
<1>1. \A i \in 1..Len(stk) : stk[i].depth \in Nat
  BY Heights DEF Core
<1>2. /\ Len(Append(e, x)) = Len(e) + 1
      /\ \A k \in 1..Len(e) : Append(e, x)[k] = e[k]
  OBVIOUS
<1>3. \A i \in 1..Len(stk)-1 : stk[i].at \in SaveHeld => Len(e) >= stk[i].depth
  BY DEF Core, Remembers
<1> QED BY <1>1, <1>2, <1>3 DEF Kept

\* What a waiting procedure has under it when the top one has more.
LEMMA Under ==
  ASSUME NEW stk, NEW e, NEW m, NEW s, Core(stk, e, m, s), NEW i \in 1..Len(stk)-1
  PROVE  /\ stk[i].depth \in Nat /\ stk[i].sdepth \in Nat
         /\ stk[Len(stk)].depth \in Nat /\ stk[Len(stk)].sdepth \in Nat
         /\ stk[i].depth <= stk[Len(stk)].depth
         /\ stk[i].at \in SaveHeld => stk[i].sdepth + 1 <= stk[Len(stk)].sdepth
<1>1. /\ Len(stk) \in Nat \ {0} /\ stk[i] \in Frames /\ stk[Len(stk)] \in Frames
      /\ ScopesOf(stk[i]) <= stk[Len(stk)].depth
      /\ StatesOf(stk[i]) <= stk[Len(stk)].sdepth
  BY DEF Core, Nested
<1>2. /\ stk[i].depth \in Nat /\ stk[i].sdepth \in Nat /\ ScopesOf(stk[i]) \in Nat
      /\ stk[Len(stk)].depth \in Nat /\ stk[Len(stk)].sdepth \in Nat
      /\ stk[i].depth <= ScopesOf(stk[i])
  BY <1>1, Heights
<1>3. stk[i].at \in SaveHeld => StatesOf(stk[i]) = stk[i].sdepth + 1
  BY <1>2 DEF StatesOf, Held
<1> QED BY <1>1, <1>2, <1>3

LEMMA Under2 ==
  ASSUME NEW stk, NEW e, NEW m, NEW s, Core(stk, e, m, s), NEW i \in 1..Len(stk)-1
  PROVE  stk[i] \in Frames /\ ModesOf(stk[i]) <= stk[Len(stk)].mdepth
BY DEF Core, Nested

LEMMA KeptExit ==
  ASSUME NEW stk, NEW e \in Seq(Envs), NEW m, NEW s, Core(stk, e, m, s),
         stk[Len(stk)].at \in ScopeHeld
  PROVE  /\ Kept(stk, e, Front(e), s, s)
         /\ Len(Front(e)) = stk[Len(stk)].depth /\ Len(e) \in Nat \ {0, 1}
<1>1. stk[Len(stk)] \in Frames /\ ScopesOf(stk[Len(stk)]) = Len(e)
  BY DEF Core, High
<1>2. Len(e) = stk[Len(stk)].depth + 1 /\ stk[Len(stk)].depth \in Nat \ {0}
  BY <1>1, Heights DEF ScopesOf, Held
<1>3. /\ Len(Front(e)) = stk[Len(stk)].depth
      /\ \A k \in 1..stk[Len(stk)].depth : Front(e)[k] = e[k]
  BY <1>2, FrontFacts
<1> QED BY <1>2, <1>3, Under DEF Kept

LEMMA KeptPop ==
  ASSUME NEW stk, NEW e, NEW m, NEW s \in Seq(Nat), Core(stk, e, m, s),
         stk[Len(stk)].at \in SaveHeld
  PROVE  /\ Kept(stk, e, e, s, Front(s))
         /\ Len(Front(s)) = stk[Len(stk)].sdepth /\ Len(s) \in Nat \ {0}
         /\ stk[Len(stk)].at \in Rewinding => s[Len(s)] = stk[Len(stk)].begin
<1>1. stk[Len(stk)] \in Frames /\ StatesOf(stk[Len(stk)]) = Len(s)
  BY DEF Core, High
<1>2. Len(s) = stk[Len(stk)].sdepth + 1 /\ stk[Len(stk)].sdepth \in Nat
  BY <1>1, Heights DEF StatesOf, Held
<1>3. /\ Len(Front(s)) = stk[Len(stk)].sdepth
      /\ \A k \in 1..stk[Len(stk)].sdepth : Front(s)[k] = s[k]
  BY <1>2, FrontFacts
<1>4. \A i \in 1..Len(stk)-1 : stk[i].at \in Rewinding =>
         Front(s)[stk[i].sdepth + 1] = s[stk[i].sdepth + 1]
  BY <1>3, Under DEF Rewinding, SaveHeld
<1>5. stk[Len(stk)].at \in Rewinding => s[Len(s)] = stk[Len(stk)].begin
  <2>1. Remembers(stk[Len(stk)], e, s)
    BY DEF Core
  <2> QED BY <2>1, <1>2 DEF Remembers
<1>6. Kept(stk, e, e, s, s)
  BY KeptSame
<1> QED BY <1>2, <1>3, <1>4, <1>5, <1>6 DEF Kept

LEMMA KeptPush ==
  ASSUME NEW stk, NEW e, NEW m, NEW s \in Seq(Nat), Core(stk, e, m, s), NEW c \in Nat
  PROVE  Kept(stk, e, e, s, Append(s, c))
<1>1. stk[Len(stk)] \in Frames /\ StatesOf(stk[Len(stk)]) = Len(s)
  BY DEF Core, High
<1>2. stk[Len(stk)].sdepth <= Len(s)
  BY <1>1, Heights
<1>3. \A k \in 1..Len(s) : Append(s, c)[k] = s[k]
  OBVIOUS
<1>4. \A i \in 1..Len(stk)-1 : stk[i].at \in Rewinding =>
         Append(s, c)[stk[i].sdepth + 1] = s[stk[i].sdepth + 1]
  BY <1>2, <1>3, Under DEF Rewinding, SaveHeld
<1>5. Kept(stk, e, e, s, s)
  BY KeptSame
<1> QED BY <1>4, <1>5 DEF Kept

-----------------------------------------------------------------------------
(***************************************************************************)
(* The invariant, and the forms a step takes.                              *)
(***************************************************************************)
Tokens == Names \cup Punctuation \cup {"eof"}
Lexed == /\ text \in Seq(Tokens) /\ cur \in 1..Len(text) /\ tok = cur
         /\ saved \in Seq(Nat) /\ \A k \in 1..Len(saved) : saved[k] \in 1..Len(text)
Scoped == envs \in Seq(Envs) /\ envs # <<>>
Noted == records \in Seq(Nat) /\ external \in Seq(Externals) /\ status \in Statuses
Framed == Core(stack, envs, modes, saved) /\ ret \in Values

IInv == Lexed /\ Scoped /\ ModesOK(modes) /\ Noted /\ Framed

LEMMA InvImplies ==
  ASSUME IInv
  PROVE  TypeOK /\ StackDiscipline /\ SpeculationLeavesNoTrace /\ TokenFollowsLexer
<1>1. TypeOK
  BY DEF IInv, Lexed, Scoped, ModesOK, Noted, Framed, Core, TypeOK, Tokens, Modes
<1>2. StackDiscipline
  BY DEF IInv, Framed, Core, StackDiscipline, Follows, High, Top
<1>3. SpeculationLeavesNoTrace
  BY DEF IInv, Framed, Core, SpeculationLeavesNoTrace, Remembers
<1>4. TokenFollowsLexer
  BY DEF IInv, Lexed, TokenFollowsLexer
<1> QED BY <1>1, <1>2, <1>3, <1>4

Entries == {"isfun", "fun", "decl", "spec", "struct", "dtor", "suffix", "stmt", "block",
            "for", "expr"}

\* Labels at which a procedure holds the same.
Alike(l, k) ==
  /\ l \in ScopeHeld <=> k \in ScopeHeld
  /\ l \in SkipHeld <=> k \in SkipHeld
  /\ l \in SaveHeld <=> k \in SaveHeld
  /\ l \in Outermost <=> k \in Outermost
  /\ l \in Rewinding => k \in Rewinding
Calm(l) == l \notin ScopeHeld \cup SkipHeld \cup Outermost

\* The frame f is g, gone on to a label that holds the same.
Twin(f, g) ==
  /\ f.depth = g.depth /\ f.mdepth = g.mdepth /\ f.sdepth = g.sdepth
  /\ Alike(f.at, g.at)
  /\ f.at \in SaveHeld => f.mark = g.mark /\ f.begin = g.begin

LEMMA TopFrame ==
  ASSUME IInv
  PROVE  /\ Top \in Frames /\ Len(stack) \in Nat \ {0} /\ stack \in Seq(Frames)
         /\ High(Top, envs, modes, saved) /\ Remembers(Top, envs, saved)
BY DEF IInv, Framed, Core, Top

LEMMA Relabel ==
  ASSUME NEW f \in Frames, NEW l \in Labels, Alike(l, f.at)
  PROVE  [f EXCEPT !.at = l] \in Frames /\ Twin([f EXCEPT !.at = l], f)
BY DEF Frames, Twin

LEMMA Goes ==
  ASSUME IInv, NEW f \in Frames, Twin(f, Top), Continue(f), UNCHANGED <<envs, modes, saved>>
  PROVE  Framed'
<1>1. High(f, envs, modes, saved)
  BY TopFrame DEF Twin, Alike, High, ScopesOf, ModesOf, StatesOf, Held
<1>2. Remembers(f, envs, saved)
  BY TopFrame DEF Twin, Alike, Remembers, Rewinding, SaveHeld
<1>3. SameProcedure(f, stack[Len(stack)])
  BY DEF Twin, Alike, SameProcedure, Top
<1>4. Core([stack EXCEPT ![Len(stack)] = f], envs, modes, saved)
  BY <1>1, <1>2, <1>3, CoreContinue, KeptSame DEF IInv, Framed
<1>5. NoValue \in Values
  BY DEF NoValue, Values, Shapes, Obj, NoRecord
<1> QED BY <1>4, <1>5 DEF Framed, Continue

LEMMA EntryFrame ==
  ASSUME NEW l \in Entries, NEW b \in Shapes,
         Len(envs') \in Nat \ {0}, Len(modes') \in Nat \ {0}, Len(saved') \in Nat
  PROVE  /\ NewFrame(l, b) \in Frames /\ NewFrame(l, b).at = l /\ Calm(l)
         /\ NewFrame(l, b).depth = Len(envs') /\ NewFrame(l, b).mdepth = Len(modes')
         /\ NewFrame(l, b).sdepth = Len(saved')
<1>1. l \in Labels
  BY DEF Entries, Labels
<1>2. Calm(l)
  BY DEF Entries, Calm, ScopeHeld, SkipHeld, SaveHeld, Outermost
<1> QED BY <1>1, <1>2 DEF NewFrame, Frames, NoRecord

\* A call, made with the frame f whose labels say what the stacks are from now on.
LEMMA Pushes ==
  ASSUME Scoped', ModesOK(modes)', saved' \in Seq(Nat),
         NEW stk, Core(stk, envs', modes', saved'),
         NEW l \in Entries, NEW b \in Shapes,
         stack' = Append(stk, NewFrame(l, b)), ret' = NoValue
  PROVE  Framed'
<1>1. Len(envs') \in Nat \ {0} /\ Len(modes') \in Nat \ {0} /\ Len(saved') \in Nat
  BY DEF Scoped, ModesOK
<1>2. High(stk[Len(stk)], envs', modes', saved')
  BY DEF Core
<1>3. Follows(stk[Len(stk)], NewFrame(l, b))
  BY <1>1, <1>2, EntryFrame DEF High, Follows
<1>4. Core(Append(stk, NewFrame(l, b)), envs', modes', saved')
  BY <1>1, <1>3, EntryFrame, CorePush DEF Calm
<1>5. NoValue \in Values
  BY DEF NoValue, Values, Shapes, Obj, NoRecord
<1> QED BY <1>4, <1>5 DEF Framed

LEMMA Calls ==
  ASSUME IInv, NEW f \in Frames, Twin(f, Top), NEW l \in Entries, NEW b \in Shapes,
         CallFrom(f, l, b), UNCHANGED <<envs, modes, saved>>
  PROVE  Framed'
<1>1. High(f, envs, modes, saved)
  BY TopFrame DEF Twin, Alike, High, ScopesOf, ModesOf, StatesOf, Held
<1>2. Remembers(f, envs, saved)
  BY TopFrame DEF Twin, Alike, Remembers, Rewinding, SaveHeld
<1>3. SameProcedure(f, stack[Len(stack)])
  BY DEF Twin, Alike, SameProcedure, Top
<1>4. Core([stack EXCEPT ![Len(stack)] = f], envs, modes, saved)
  BY <1>1, <1>2, <1>3, CoreContinue, KeptSame DEF IInv, Framed
<1>5. Scoped' /\ ModesOK(modes)' /\ saved' \in Seq(Nat)
  BY DEF IInv, Scoped, Lexed
<1> QED BY <1>4, <1>5, Pushes DEF CallFrom

LEMMA Returns ==
  ASSUME IInv, Calm(Top.at), NEW v \in Values, Return(v), UNCHANGED <<envs, modes, saved>>
  PROVE  Framed'
<1>1. Top \in Frames /\ High(Top, envs, modes, saved)
  BY TopFrame
<1>2. Len(envs) = Top.depth /\ Len(modes) = Top.mdepth /\ Len(saved) = Top.sdepth
  BY <1>1, Heights DEF High, Calm, SkipHeld, ScopesOf, ModesOf, StatesOf, Held
<1>3. Core(Front(stack), envs, modes, saved)
  BY <1>2, CorePop, KeptSame DEF IInv, Framed, Calm, Top
<1> QED BY <1>3 DEF Framed, Return

LEMMA NextToken ==
  ASSUME Lexed, NEW c \in 1..Len(text), NextTokenFrom(c)
  PROVE  /\ text' \in Seq(Tokens) /\ cur' \in 1..Len(text') /\ tok' = cur'
         /\ Len(text) <= Len(text') /\ Len(text) \in Nat /\ Len(text') \in Nat
<1>1. Upcoming \subseteq Tokens
  BY AlphabetAssumption DEF Upcoming, Tokens
<1>2. CASE c < Len(text)
  BY <1>2 DEF NextTokenFrom, Lexed
<1>3. CASE ~(c < Len(text))
  <2>1. PICK t \in Tokens : text' = Append(text, t)
    BY <1>1, <1>3 DEF NextTokenFrom
  <2>2. text' \in Seq(Tokens) /\ Len(text') = Len(text) + 1 /\ c = Len(text)
    BY <2>1, <1>3 DEF Lexed
  <2> QED BY <2>2 DEF NextTokenFrom, Lexed
<1> QED BY <1>2, <1>3

LEMMA Reads ==
  ASSUME Lexed, Advance \/ UNCHANGED lexVars
  PROVE  Lexed' /\ saved' = saved
<1>1. CASE Advance
  <2>1. /\ text' \in Seq(Tokens) /\ cur' \in 1..Len(text') /\ tok' = cur'
        /\ Len(text) <= Len(text') /\ Len(text) \in Nat /\ Len(text') \in Nat
    BY <1>1, NextToken DEF Advance, Lexed
  <2> QED BY <1>1, <2>1 DEF Advance, Lexed
<1>2. CASE UNCHANGED lexVars
  BY <1>2 DEF Lexed, lexVars
<1> QED BY <1>1, <1>2

\* A step that touches no stack but its own frame, and perhaps reads a token.
Plain == (Advance \/ UNCHANGED lexVars) /\ UNCHANGED <<modes, envs>> /\ Noted'

LEMMA PlainGoes ==
  ASSUME IInv, Plain, NEW f \in Frames, Twin(f, Top), Continue(f)
  PROVE  IInv'
BY Goes, Reads DEF IInv, Plain, Scoped

LEMMA PlainCalls ==
  ASSUME IInv, Plain, NEW f \in Frames, Twin(f, Top), NEW l \in Entries, NEW b \in Shapes,
         CallFrom(f, l, b)
  PROVE  IInv'
BY Calls, Reads DEF IInv, Plain, Scoped

LEMMA PlainReturns ==
  ASSUME IInv, Plain, Calm(Top.at), NEW v \in Values, Return(v)
  PROVE  IInv'
BY Returns, Reads DEF IInv, Plain, Scoped

LEMMA Stops ==
  ASSUME IInv, NEW s \in Statuses, Stop(s)
  PROVE  IInv'
BY DEF IInv, Stop, lexVars, semaVars, Lexed, Scoped, Framed, Noted

CalmLabels == Labels \ (ScopeHeld \cup SkipHeld \cup Outermost)

LEMMA Likeness ==
  /\ \A l, k \in CalmLabels : Alike(l, k) /\ Calm(l) /\ l \in Labels
  /\ \A l, k \in ScopeHeld : Alike(l, k) /\ l \in Labels
  /\ \A l, k \in Outermost : Alike(l, k) /\ l \in Labels
  /\ \A l, k \in Rewinding : Alike(l, k) /\ l \in Labels
  /\ Alike("dtor.typed", "dtor.skipped") /\ "dtor.typed" \in Labels
<1>1. \A l, k \in CalmLabels : Alike(l, k) /\ Calm(l) /\ l \in Labels
  BY DEF CalmLabels, Alike, Calm, SkipHeld, SaveHeld, Rewinding
<1>2. \A l, k \in ScopeHeld : Alike(l, k) /\ l \in Labels
  BY DEF Alike, ScopeHeld, SkipHeld, SaveHeld, Outermost, Rewinding, Labels
<1>3. \A l, k \in Outermost : Alike(l, k) /\ l \in Labels
  BY DEF Alike, ScopeHeld, SkipHeld, SaveHeld, Outermost, Rewinding, Labels
<1>4. \A l, k \in Rewinding : Alike(l, k) /\ l \in Labels
  BY DEF Alike, ScopeHeld, SkipHeld, SaveHeld, Outermost, Rewinding, Labels
<1>5. Alike("dtor.typed", "dtor.skipped") /\ "dtor.typed" \in Labels
  BY DEF Alike, ScopeHeld, SkipHeld, SaveHeld, Outermost, Rewinding, Labels
<1> QED BY <1>1, <1>2, <1>3, <1>4, <1>5

\* The common step: nothing changes but the procedure's own frame and the token.
Quiet == (Advance \/ UNCHANGED lexVars) /\ UNCHANGED <<semaVars, external, status>>

LEMMA QuietPlain ==
  ASSUME IInv, Quiet
  PROVE  Plain
BY DEF IInv, Quiet, Plain, Noted, semaVars

LEMMA StepGoto ==
  ASSUME IInv, Quiet, NEW l \in Labels, Alike(l, Top.at), Goto(l)
  PROVE  IInv'
BY QuietPlain, TopFrame, Relabel, PlainGoes DEF Goto

LEMMA StepCall ==
  ASSUME IInv, Quiet, NEW n \in Labels, Alike(n, Top.at),
         NEW l \in Entries, NEW b \in Shapes, Call(n, l, b)
  PROVE  IInv'
BY QuietPlain, TopFrame, Relabel, PlainCalls DEF Call

LEMMA StepReturn ==
  ASSUME IInv, Quiet, Calm(Top.at), NEW v \in Values, Return(v)
  PROVE  IInv'
BY QuietPlain, PlainReturns

-----------------------------------------------------------------------------
(***************************************************************************)
(* The steps that do change a stack.                                       *)
(***************************************************************************)
Changes ==
  /\ Lexed' /\ Scoped' /\ ModesOK(modes)' /\ Noted'
  /\ Kept(stack, envs, envs', saved, saved')

LEMMA Moves ==
  ASSUME IInv, Changes, NEW f \in Frames, SameProcedure(f, Top),
         High(f, envs', modes', saved'), Remembers(f, envs', saved')
  PROVE  /\ Core([stack EXCEPT ![Len(stack)] = f], envs', modes', saved')
         /\ Continue(f) => IInv'
         /\ \A l \in Entries, b \in Shapes : CallFrom(f, l, b) => IInv'
<1>1. Core([stack EXCEPT ![Len(stack)] = f], envs', modes', saved')
  BY CoreContinue DEF IInv, Framed, Changes, Top
<1>2. NoValue \in Values
  BY DEF NoValue, Values, Shapes, Obj, NoRecord
<1>3. Continue(f) => IInv'
  BY <1>1, <1>2 DEF IInv, Framed, Changes, Continue
<1>4. ASSUME NEW l \in Entries, NEW b \in Shapes, CallFrom(f, l, b)
      PROVE  IInv'
  <2>1. saved' \in Seq(Nat)
    BY DEF Changes, Lexed
  <2>2. Framed'
    BY <2>1, <1>1, <1>4, Pushes DEF Changes, CallFrom
  <2> QED BY <2>2 DEF IInv, Changes
<1> QED BY <1>1, <1>3, <1>4

LEMMA Leaves ==
  ASSUME IInv, Changes, Top.at \notin Outermost, NEW v \in Values, Return(v),
         Len(envs') = Top.depth, Len(modes') = Top.mdepth, Len(saved') = Top.sdepth
  PROVE  IInv'
<1>1. Core(Front(stack), envs', modes', saved')
  BY CorePop DEF IInv, Framed, Changes, Top
<1> QED BY <1>1 DEF IInv, Framed, Changes, Return

LEMMA CalmHeights ==
  ASSUME IInv, Calm(Top.at)
  PROVE  Len(envs) = Top.depth /\ Len(modes) = Top.mdepth /\ Len(saved) = Top.sdepth
BY TopFrame, Heights DEF High, Calm, SkipHeld, ScopesOf, ModesOf, StatesOf, Held

LEMMA ModesPush ==
  ASSUME NEW m, ModesOK(m)
  PROVE  ModesOK(Append(m, "Skip")) /\ Len(Append(m, "Skip")) = Len(m) + 1
BY DEF ModesOK, Modes

LEMMA ModesPop ==
  ASSUME NEW m, ModesOK(m), Len(m) \in Nat \ {0, 1}
  PROVE  ModesOK(Front(m)) /\ Len(Front(m)) = Len(m) - 1
<1>1. /\ Front(m) \in Seq(Modes) /\ Len(Front(m)) = Len(m) - 1
      /\ \A i \in 1..Len(m)-1 : Front(m)[i] = m[i]
  BY FrontFacts DEF ModesOK
<1> QED BY <1>1 DEF ModesOK

\* A procedure holding the Skip mode is in it, and was not called in an empty one.
LEMMA SkipHeights ==
  ASSUME IInv, Top.at \in SkipHeld
  PROVE  Len(modes) = Top.mdepth + 1 /\ Len(modes) \in Nat \ {0, 1}
<1>1. Top \in Frames /\ ModesOf(Top) = Len(modes)
  BY TopFrame DEF High
<1>2. ModesOf(Top) = Top.mdepth + 1
  BY DEF ModesOf, Held
<1>3. Top.mdepth \in Nat \ {0}
  BY <1>1, Heights
<1> QED BY <1>1, <1>2, <1>3

LEMMA StepBeginSkip ==
  ASSUME IInv, Calm(Top.at), BeginSkip, UNCHANGED <<text, cur, tok>> \/ NextTokenFrom(cur),
         UNCHANGED <<envs, records, external, status>>,
         NEW n \in {"isfun.spec", "dtor.skipped"}, NEW l \in Entries, NEW b \in Shapes,
         CallFrom([Top EXCEPT !.at = n, !.begin = tok, !.mark = envs], l, b)
  PROVE  IInv'
<1> DEFINE f == [Top EXCEPT !.at = n, !.begin = tok, !.mark = envs]
<1>1. Top \in Frames /\ tok \in Nat /\ envs \in Seq(Envs) /\ cur \in Nat /\ tok = cur
  BY TopFrame DEF IInv, Lexed, Scoped
<1>2. /\ n \in Labels /\ n \in SaveHeld /\ n \notin ScopeHeld /\ n \in SkipHeld
      /\ n \notin Outermost
  BY DEF Labels, SaveHeld, SkipHeld, ScopeHeld, Outermost
<1>3. f \in Frames /\ f.at = n /\ f.begin = tok /\ f.mark = envs
      /\ f.depth = Top.depth /\ f.mdepth = Top.mdepth /\ f.sdepth = Top.sdepth
  BY <1>1, <1>2 DEF Frames
<1> HIDE DEF f
<1>4. Lexed'
  <2>1. /\ text' \in Seq(Tokens) /\ cur' \in 1..Len(text') /\ tok' = cur'
        /\ Len(text) <= Len(text') /\ Len(text) \in Nat /\ Len(text') \in Nat
    <3>1. CASE UNCHANGED <<text, cur, tok>>
      BY <3>1 DEF IInv, Lexed
    <3>2. CASE NextTokenFrom(cur)
      BY <3>2, NextToken DEF IInv, Lexed
    <3> QED BY <3>1, <3>2
  <2>2. saved \in Seq(Nat) /\ \A k \in 1..Len(saved) : saved[k] \in 1..Len(text)
    BY DEF IInv, Lexed
  <2>3. saved' = Append(saved, cur) /\ cur \in 1..Len(text)
    BY DEF BeginSkip, IInv, Lexed
  <2>4. saved' \in Seq(Nat) /\ \A k \in 1..Len(saved') : saved'[k] \in 1..Len(text)
    BY <2>2, <2>3
  <2> QED BY <2>1, <2>4 DEF Lexed
<1>5. ModesOK(modes)' /\ Len(modes') = Len(modes) + 1
  BY ModesPush DEF BeginSkip, IInv
<1>6. /\ saved' = Append(saved, cur) /\ Len(saved') = Len(saved) + 1
      /\ saved'[Len(saved) + 1] = cur /\ saved \in Seq(Nat)
  BY <1>1 DEF BeginSkip, IInv, Lexed
<1>7. Changes
  BY <1>1, <1>4, <1>5, <1>6, KeptPush DEF Changes, IInv, Scoped, Noted, Framed
<1>8. Len(envs) = Top.depth /\ Len(modes) = Top.mdepth /\ Len(saved) = Top.sdepth
  BY CalmHeights
<1>9. High(f, envs', modes', saved')
  BY <1>1, <1>2, <1>3, <1>5, <1>6, <1>8, Heights DEF High, ScopesOf, ModesOf, StatesOf, Held
<1>10. Remembers(f, envs', saved')
  BY <1>1, <1>3, <1>6, <1>8 DEF Remembers
<1>11. SameProcedure(f, Top)
  BY <1>2, <1>3 DEF SameProcedure, Calm
<1>12. CallFrom(f, l, b)
  BY DEF f
<1> QED BY <1>3, <1>7, <1>9, <1>10, <1>11, <1>12, Moves

\* The state to which the lexer is set back.
LEMMA EndSkipFacts ==
  ASSUME IInv, Top.at \in SaveHeld, EndSkip
  PROVE  /\ saved' \in Seq(Nat) /\ \A k \in 1..Len(saved') : saved'[k] \in 1..Len(text)
         /\ Last(saved) \in 1..Len(text)
         /\ Top.at \in Rewinding => Last(saved) = Top.begin
         /\ ModesOK(modes)' /\ Len(modes') = Top.mdepth /\ Len(saved') = Top.sdepth
         /\ Kept(stack, envs, envs, saved, saved')
<1>1. /\ saved \in Seq(Nat) /\ \A k \in 1..Len(saved) : saved[k] \in 1..Len(text)
      /\ Core(stack, envs, modes, saved) /\ ModesOK(modes)
  BY DEF IInv, Lexed, Framed
<1>2. /\ Kept(stack, envs, envs, saved, Front(saved))
      /\ Len(Front(saved)) = Top.sdepth /\ Len(saved) \in Nat \ {0}
      /\ Top.at \in Rewinding => saved[Len(saved)] = Top.begin
  BY <1>1, KeptPop DEF Top
<1>3. /\ Front(saved) \in Seq(Nat) /\ Len(Front(saved)) = Len(saved) - 1
      /\ \A i \in 1..Len(saved)-1 : Front(saved)[i] = saved[i]
  BY <1>1, <1>2, FrontFacts
<1>4. Len(modes) = Top.mdepth + 1 /\ Len(modes) \in Nat \ {0, 1}
  BY SkipHeights DEF SkipHeld
<1>5. Top.mdepth \in Nat
  BY TopFrame, Heights
<1>a. ModesOK(Front(modes)) /\ Len(Front(modes)) = Len(modes) - 1
  BY <1>1, <1>4, ModesPop
<1>6. ModesOK(Front(modes)) /\ Len(Front(modes)) = Top.mdepth
  BY <1>a, <1>4, <1>5
<1> QED BY <1>1, <1>2, <1>3, <1>6 DEF EndSkip, Last

\* Symbol-table operations keep the type and the height of the stack, and change
\* nothing in Skip mode.
LEMMA AddObjKeeps ==
  ASSUME NEW e \in Seq(Envs), e # <<>>, NEW n, NEW sym \in Symbols
  PROVE  AddObjSymbol(e, n, sym) \in Seq(Envs) /\ Len(AddObjSymbol(e, n, sym)) = Len(e)
<1>1. Len(e) \in 1..Len(e) /\ e[Len(e)] \in Envs
  OBVIOUS
<1>2. [e[Len(e)] EXCEPT !.obj[n] = sym] \in Envs
  BY <1>1 DEF Envs
<1>3. [e EXCEPT ![Len(e)].obj[n] = sym] = [e EXCEPT ![Len(e)] = [e[Len(e)] EXCEPT !.obj[n] = sym]]
  BY <1>1
<1>4. ASSUME NEW x \in Envs
      PROVE  [e EXCEPT ![Len(e)] = x] \in Seq(Envs) /\ Len([e EXCEPT ![Len(e)] = x]) = Len(e)
  OBVIOUS
<1> QED BY <1>2, <1>3, <1>4 DEF AddObjSymbol

LEMMA AddTagKeeps ==
  ASSUME NEW e \in Seq(Envs), e # <<>>, NEW t, NEW r \in Nat
  PROVE  AddTagSymbol(e, t, r) \in Seq(Envs) /\ Len(AddTagSymbol(e, t, r)) = Len(e)
<1>1. Len(e) \in 1..Len(e) /\ e[Len(e)] \in Envs
  OBVIOUS
<1>2. [e[Len(e)] EXCEPT !.tag[t] = r] \in Envs
  BY <1>1 DEF Envs
<1>3. [e EXCEPT ![Len(e)].tag[t] = r] = [e EXCEPT ![Len(e)] = [e[Len(e)] EXCEPT !.tag[t] = r]]
  BY <1>1
<1>4. ASSUME NEW x \in Envs
      PROVE  [e EXCEPT ![Len(e)] = x] \in Seq(Envs) /\ Len([e EXCEPT ![Len(e)] = x]) = Len(e)
  OBVIOUS
<1> QED BY <1>2, <1>3, <1>4 DEF AddTagSymbol

\* The scopes t are the scopes e with perhaps an entry more, which the mode m allows.
Declares(e, t, m) ==
  t \in Seq(Envs) /\ Len(t) = Len(e) /\ (t = e \/ m = "Normal")

LEMMA SemaDeclares ==
  ASSUME NEW e \in Seq(Envs), e # <<>>, NEW i \in Nat, NEW s \in Shapes, NEW m,
         NEW b \in BOOLEAN, NEW r \in Nat
  PROVE  /\ Declares(e, semaTypedefDecl(e, m, i, s), m)
         /\ Declares(e, semaFunctionDecl(e, i, s, b), Mode)
         /\ Declares(e, semaTagDeclare(e, i, r), Mode)
<1>1. Symbol("typedef", s, i) \in Symbols
  BY DEF Symbol, Symbols
<1>2. Symbol("obj", s, i) \in Symbols
  BY DEF Symbol, Symbols, Shapes, Obj
<1>3. Declares(e, semaTypedefDecl(e, m, i, s), m)
  BY <1>1, AddObjKeeps DEF Declares, semaTypedefDecl
<1>4. Declares(e, semaFunctionDecl(e, i, s, b), Mode)
  BY <1>2, AddObjKeeps DEF Declares, semaFunctionDecl
<1>5. Declares(e, semaTagDeclare(e, i, r), Mode)
  BY AddTagKeeps DEF Declares, semaTagDeclare
<1> QED BY <1>3, <1>4, <1>5

LEMMA EmptyEnvTyped == EmptyEnv \in Envs
BY DEF EmptyEnv, Envs, NoSymbol, NoRecord, Symbols, Shapes, Obj

LEMMA StepEnter ==
  ASSUME IInv, Advance \/ UNCHANGED lexVars, envs' = EnterScope(envs),
         UNCHANGED <<modes, records, external, status>>, Calm(Top.at),
         NEW f \in Frames, f.at \in ScopeHeld,
         f.depth = Top.depth, f.mdepth = Top.mdepth, f.sdepth = Top.sdepth
  PROVE  /\ Continue(f) => IInv'
         /\ \A l \in Entries, b \in Shapes : CallFrom(f, l, b) => IInv'
<1>1. /\ f.at \notin SkipHeld /\ f.at \notin SaveHeld /\ f.at \notin Outermost
      /\ f.at \notin Rewinding
  BY DEF ScopeHeld, SkipHeld, SaveHeld, Outermost, Rewinding
<1>2. envs' \in Seq(Envs) /\ envs' # <<>> /\ Len(envs') = Len(envs) + 1 /\ envs \in Seq(Envs)
  BY EmptyEnvTyped DEF EnterScope, IInv, Scoped
<1>3. Lexed' /\ saved' = saved
  BY Reads DEF IInv
<1>4. Kept(stack, envs, envs', saved, saved')
  BY <1>2, <1>3, KeptEnter, EmptyEnvTyped DEF EnterScope, IInv, Framed
<1>5. Changes
  BY <1>2, <1>3, <1>4 DEF Changes, IInv, Scoped, Noted
<1>6. Len(envs) = Top.depth /\ Len(modes) = Top.mdepth /\ Len(saved) = Top.sdepth
  BY CalmHeights
<1>7. High(f, envs', modes', saved')
  BY <1>1, <1>2, <1>3, <1>6, TopFrame, Heights DEF High, ScopesOf, ModesOf, StatesOf, Held
<1>8. Remembers(f, envs', saved') /\ SameProcedure(f, Top)
  BY <1>1 DEF Remembers, SameProcedure, Calm
<1> QED BY <1>5, <1>7, <1>8, Moves

\* What the end of a procedure's scope leaves of the invariant, the name it declares
\* outside included.
LEMMA StepExit ==
  ASSUME IInv, Advance \/ UNCHANGED lexVars, Declares(ExitScope(envs), envs', Mode),
         UNCHANGED modes, Noted', Top.at \in ScopeHeld, NEW v \in Values, Return(v)
  PROVE  IInv'
<1>1. /\ Top.at \notin SkipHeld /\ Top.at \notin SaveHeld /\ Top.at \notin Outermost
  BY DEF ScopeHeld, SkipHeld, SaveHeld, Outermost
<1>2. /\ Kept(stack, envs, Front(envs), saved, saved)
      /\ Len(Front(envs)) = Top.depth /\ Len(envs) \in Nat \ {0, 1}
  BY KeptExit DEF IInv, Framed, Scoped, Top
<1>3. Lexed' /\ saved' = saved
  BY Reads DEF IInv
<1>4. Top \in Frames /\ High(Top, envs, modes, saved) /\ Top.depth \in Nat \ {0}
  BY TopFrame, Heights
<1>5. Kept(stack, envs, envs', saved, saved')
  <2>1. CASE envs' = Front(envs)
    BY <2>1, <1>2, <1>3
  <2>2. CASE Mode = "Normal"
    BY <2>2, KeptNormal DEF IInv, Framed, Mode
  <2> QED BY <2>1, <2>2 DEF Declares, ExitScope
<1>6. envs' \in Seq(Envs) /\ envs' # <<>> /\ Len(envs') = Top.depth
  BY <1>2, <1>4 DEF Declares, ExitScope
<1>7. Changes
  BY <1>3, <1>5, <1>6 DEF Changes, IInv, Scoped
<1>8. Len(modes') = Top.mdepth /\ Len(saved') = Top.sdepth
  BY <1>1, <1>3, <1>4, Heights DEF High, ModesOf, StatesOf, Held
<1> QED BY <1>1, <1>6, <1>7, <1>8, Leaves

\* A name is entered in the scope that is open, in Normal mode.
LEMMA StepDeclare ==
  ASSUME IInv, Declares(envs, envs', Mode), UNCHANGED <<lexVars, modes>>, Noted',
         Calm(Top.at), NEW f \in Frames, Twin(f, Top), Continue(f)
  PROVE  IInv'
<1>1. Lexed' /\ saved' = saved
  BY Reads DEF IInv
<1>2. Kept(stack, envs, envs', saved, saved')
  <2>1. CASE envs' = envs
    BY <2>1, <1>1, KeptSame DEF IInv, Framed
  <2>2. CASE Mode = "Normal"
    BY <2>2, KeptNormal DEF IInv, Framed, Mode
  <2> QED BY <2>1, <2>2 DEF Declares
<1>3. envs' \in Seq(Envs) /\ Len(envs') = Len(envs) /\ envs' # <<>>
  BY DEF Declares, IInv, Scoped
<1>4. Changes
  BY <1>1, <1>2, <1>3 DEF Changes, IInv, Scoped
<1>5. High(f, envs', modes', saved')
  BY <1>1, <1>3, TopFrame DEF Twin, Alike, High, ScopesOf, ModesOf, StatesOf, Held
<1>6. Remembers(f, envs', saved') /\ SameProcedure(f, Top)
  BY DEF Remembers, SameProcedure, Calm, Twin, Alike, SkipHeld, SaveHeld, Rewinding
<1> QED BY <1>4, <1>5, <1>6, Moves

-----------------------------------------------------------------------------
(***************************************************************************)
(* Lookups through the scopes: the innermost of the levels that declare a  *)
(* name exists, as any non-empty set of naturals has a least element.      *)
(***************************************************************************)
LEMMA Least ==
  ASSUME NEW T \in SUBSET Nat, T # {}
  PROVE  \E x \in T : \A y \in T : x <= y
<1> DEFINE R == OpToRel(<, Nat)
<1>1. IsWellFoundedOn(R, Nat)
  BY NatLessThanWellFounded
<1>2. \A x, y \in Nat : y < x => <<y, x>> \in R
  BY DEF OpToRel
<1> HIDE DEF R
<1>3. PICK x \in T : \A y \in T : ~ (<<y, x>> \in R)
  BY <1>1, WFMin
<1>4. \A y \in T : ~ (y < x)
  BY <1>2, <1>3
<1>5. \A y \in T : x <= y
  BY <1>4
<1> QED BY <1>5

LEMMA InnermostIn ==
  ASSUME NEW n \in Nat, NEW S \in SUBSET (1..n), S # {}
  PROVE  Innermost(S) \in S
<1> DEFINE T == {n - i : i \in S}
<1>1. T \in SUBSET Nat
  <2>1. \A i \in S : n - i \in Nat
    OBVIOUS
  <2> QED BY <2>1
<1>2. T # {}
  OBVIOUS
<1>3. PICK x \in T : \A y \in T : x <= y
  <2> HIDE DEF T
  <2> QED BY <1>1, <1>2, Least
<1>4. PICK i \in S : x = n - i
  OBVIOUS
<1>5. \A j \in S : j <= i
  <2> TAKE j \in S
  <2>1. n - j \in T
    OBVIOUS
  <2>2. n - i <= n - j
    BY <1>3, <1>4, <2>1
  <2> QED BY <2>2
<1> QED BY <1>5 DEF Innermost

LEMMA ObjectsFound ==
  ASSUME NEW e \in Seq(Envs), NEW n \in Names
  PROVE  FindObjSymbol(e, n).shape \in Shapes
<1> DEFINE found == {i \in DOMAIN e : HasObj(e, i, n)}
<1>1. NoSymbol.shape \in Shapes
  BY DEF NoSymbol, Shapes, Obj
<1>2. \A i \in DOMAIN e : e[i].obj[n].shape \in Shapes
  <2>1. \A i \in DOMAIN e : e[i] \in Envs
    OBVIOUS
  <2> QED BY <2>1 DEF Envs, Symbols
<1>3. found # {} => Innermost(found) \in found
  <2>1. found \in SUBSET (1..Len(e)) /\ Len(e) \in Nat
    OBVIOUS
  <2> HIDE DEF found
  <2> QED BY <2>1, InnermostIn
<1> QED BY <1>1, <1>2, <1>3 DEF FindObjSymbol

LEMMA TagsFound ==
  ASSUME NEW e \in Seq(Envs), NEW t \in Tags
  PROVE  FindTagSymbol(e, t) \in Nat
<1> DEFINE found == {i \in DOMAIN e : HasTag(e, i, t)}
<1>1. NoRecord \in Nat
  BY DEF NoRecord
<1>2. \A i \in DOMAIN e : e[i].tag[t] \in Nat
  <2>1. \A i \in DOMAIN e : e[i] \in Envs
    OBVIOUS
  <2> QED BY <2>1 DEF Envs
<1>3. found # {} => Innermost(found) \in found
  <2>1. found \in SUBSET (1..Len(e)) /\ Len(e) \in Nat
    OBVIOUS
  <2> HIDE DEF found
  <2> QED BY <2>1, InnermostIn
<1> QED BY <1>1, <1>2, <1>3 DEF FindTagSymbol

\* The scope under the one a procedure has entered.
LEMMA OuterScopes ==
  ASSUME IInv, Top.at \in ScopeHeld
  PROVE  ExitScope(envs) \in Seq(Envs) /\ ExitScope(envs) # <<>>
<1>1. /\ Len(Front(envs)) = Top.depth /\ Len(envs) \in Nat \ {0, 1} /\ envs \in Seq(Envs)
  BY KeptExit DEF IInv, Framed, Scoped, Top
<1>2. Front(envs) \in Seq(Envs) /\ Len(Front(envs)) = Len(envs) - 1
  BY <1>1, FrontFacts
<1> QED BY <1>1, <1>2 DEF ExitScope


SameHeights(f, g) == f.depth = g.depth /\ f.mdepth = g.mdepth /\ f.sdepth = g.sdepth

\* Between calm labels the locals of a procedure change freely.
LEMMA CalmGoes ==
  ASSUME IInv, Quiet, NEW f \in Frames, f.at \in CalmLabels, Top.at \in CalmLabels,
         SameHeights(f, Top), Continue(f)
  PROVE  IInv'
<1>1. Twin(f, Top)
  BY Likeness DEF Twin, SameHeights, CalmLabels, SkipHeld
<1> QED BY <1>1, QuietPlain, PlainGoes

LEMMA CalmCalls ==
  ASSUME IInv, Quiet, NEW f \in Frames, f.at \in CalmLabels, Top.at \in CalmLabels,
         SameHeights(f, Top), NEW l \in Entries, NEW b \in Shapes, CallFrom(f, l, b)
  PROVE  IInv'
<1>1. Twin(f, Top)
  BY Likeness DEF Twin, SameHeights, CalmLabels, SkipHeld
<1> QED BY <1>1, QuietPlain, PlainCalls


LEMMA StepLeaveScope ==
  ASSUME IInv, Advance \/ UNCHANGED lexVars, envs' = ExitScope(envs),
         UNCHANGED <<modes, records, external, status>>, Top.at \in ScopeHeld, Return(NoValue)
  PROVE  IInv'
<1>1. Declares(ExitScope(envs), envs', Mode)
  BY OuterScopes DEF Declares
<1>2. Noted' /\ NoValue \in Values
  BY DEF IInv, Noted, NoValue, Values, Shapes, Obj, NoRecord
<1> QED BY <1>1, <1>2, StepExit

\* The new frame takes the place of the caller's.
LEMMA TailFrame ==
  ASSUME IInv, UNCHANGED <<envs, modes, saved>>, Top.at \in CalmLabels,
         NEW l \in Entries, NEW b \in Shapes, TailCall(l, b)
  PROVE  /\ NewFrame(l, b) \in Frames /\ NewFrame(l, b).at = l /\ l \in CalmLabels
         /\ SameHeights(NewFrame(l, b), Top) /\ Continue(NewFrame(l, b))
<1> DEFINE g == NewFrame(l, b)
<1>1. Len(envs') = Top.depth /\ Len(modes') = Top.mdepth /\ Len(saved') = Top.sdepth
  BY Likeness, CalmHeights
<1>2. Top.depth \in Nat \ {0} /\ Top.mdepth \in Nat \ {0} /\ Top.sdepth \in Nat
  BY TopFrame, Heights
<1>3. g \in Frames /\ g.at = l /\ SameHeights(g, Top)
  BY <1>1, <1>2, EntryFrame DEF SameHeights
<1>a. l \in CalmLabels
  BY DEF Entries, CalmLabels, Labels, ScopeHeld, SkipHeld, SaveHeld, Outermost
<1> HIDE DEF g
<1>4. Append(Front(stack), g) = [stack EXCEPT ![Len(stack)] = g]
  <2>1. stack \in Seq(Frames) /\ Len(stack) \in Nat \ {0}
    BY TopFrame
  <2>2. /\ Front(stack) \in Seq(Frames) /\ Len(Front(stack)) = Len(stack) - 1
        /\ \A i \in 1..Len(stack)-1 : Front(stack)[i] = stack[i]
    BY <2>1, FrontFacts
  <2>3. /\ Append(Front(stack), g) \in Seq(Frames)
        /\ Len(Append(Front(stack), g)) = Len(stack)
        /\ Append(Front(stack), g)[Len(stack)] = g
        /\ \A i \in 1..Len(stack)-1 : Append(Front(stack), g)[i] = stack[i]
    BY <1>3, <2>1, <2>2
  <2>4. /\ [stack EXCEPT ![Len(stack)] = g] \in Seq(Frames)
        /\ Len([stack EXCEPT ![Len(stack)] = g]) = Len(stack)
        /\ \A i \in 1..Len(stack) :
             [stack EXCEPT ![Len(stack)] = g][i] = IF i = Len(stack) THEN g ELSE stack[i]
    BY <1>3, <2>1
  <2>5. \A i \in 1..Len(stack) : i \in 1..Len(stack)-1 \/ i = Len(stack)
    BY <2>1
  <2>6. \A i \in 1..Len(stack) :
          Append(Front(stack), g)[i] = [stack EXCEPT ![Len(stack)] = g][i]
    BY <2>1, <2>3, <2>4, <2>5
  <2> QED BY <2>3, <2>4, <2>6, SeqEqual
<1>5. Continue(g)
  BY <1>4 DEF TailCall, Continue, g
<1> QED BY <1>3, <1>a, <1>5 DEF g

LEMMA StepTailCall ==
  ASSUME IInv, Quiet, Top.at \in CalmLabels, NEW l \in Entries, NEW b \in Shapes, TailCall(l, b)
  PROVE  IInv'
<1>1. UNCHANGED <<envs, modes, saved>>
  BY Reads DEF Quiet, semaVars, IInv
<1> QED BY <1>1, TailFrame, CalmGoes

LEMMA PrimaryKeeps ==
  ASSUME IInv, NEW l \in Labels, Alike(l, Top.at), Primary(l)
  PROVE  IInv'
<1>1. CASE \E s \in {"undefined", "nullSymbol", "beyond", "syntax"} : Stop(s)
  BY <1>1, Stops DEF Statuses, Diagnostics, Crashes
<1>2. CASE Advance /\ Goto(l) /\ UNCHANGED <<semaVars, external, status>>
  BY <1>2, StepGoto DEF Quiet
<1> QED BY <1>1, <1>2 DEF Primary

LEMMA WrongTokenKeeps ==
  ASSUME IInv, NEW t, WrongToken(t)
  PROVE  IInv'
BY Stops DEF WrongToken, Statuses, Diagnostics


-----------------------------------------------------------------------------
(***************************************************************************)
(* Every action preserves the invariant.                                   *)
(***************************************************************************)
LEMMA ParseProgramKeeps ==
  ASSUME IInv, ParseProgram
  PROVE  IInv'
<1>1. CASE At("program") /\ Stop("done")
  BY <1>1, Stops DEF Statuses
<1>2. CASE /\ At("program")
           /\ UNCHANGED <<lexVars, semaVars, external, status>>
           /\ Call("verdict", "isfun", Obj)
  BY <1>2, StepCall, Likeness DEF At, Quiet, Outermost, Entries, Shapes, Obj
<1>3. CASE /\ At("verdict")
           /\ UNCHANGED <<lexVars, semaVars, external, status>>
           /\ Call("program", IF ret.flag THEN "fun" ELSE "decl", Obj)
  BY <1>3, StepCall, Likeness DEF At, Quiet, Outermost, Entries, Shapes, Obj
<1> QED BY <1>1, <1>2, <1>3 DEF ParseProgram

LEMMA IsFunctionDeclKeeps ==
  ASSUME IInv, IsFunctionDecl
  PROVE  IInv'
<1>1. CASE /\ At("isfun")
           /\ BeginSkip
           /\ UNCHANGED <<text, cur, tok, envs, records, external, status>>
           /\ CallFrom([Top EXCEPT !.at = "isfun.spec", !.begin = tok, !.mark = envs],
                       "spec", Obj)
  <2>1. Calm(Top.at)
    BY <1>1 DEF At, Calm, ScopeHeld, SkipHeld, SaveHeld, Outermost
  <2> QED BY <1>1, <2>1, StepBeginSkip DEF Entries, Shapes, Obj
<1>2. ASSUME NEW v \in BOOLEAN, Top.at \in Rewinding, EndIsFunctionDecl(v)
      PROVE  IInv'
  <2>1. Top.at \in SaveHeld /\ Top.at \notin Outermost /\ Top.at \notin ScopeHeld
    BY <1>2 DEF Rewinding, SaveHeld, Outermost, ScopeHeld
  <2>2. /\ saved' \in Seq(Nat) /\ \A k \in 1..Len(saved') : saved'[k] \in 1..Len(text)
        /\ Last(saved) \in 1..Len(text) /\ Last(saved) = Top.begin
        /\ ModesOK(modes)' /\ Len(modes') = Top.mdepth /\ Len(saved') = Top.sdepth
        /\ Kept(stack, envs, envs, saved, saved')
    BY <1>2, <2>1, EndSkipFacts DEF EndIsFunctionDecl
  <2>3. Changes
    BY <1>2, <2>2 DEF Changes, EndIsFunctionDecl, IInv, Lexed, Scoped, Noted
  <2>4. Len(envs') = Top.depth
    BY <1>2, <2>1, TopFrame, Heights DEF EndIsFunctionDecl, High, ScopesOf, Held
  <2>5. [NoValue EXCEPT !.flag = v] \in Values
    BY <1>2 DEF NoValue, Values, Shapes, Obj, NoRecord
  <2> QED BY <1>2, <2>1, <2>2, <2>3, <2>4, <2>5, Leaves DEF EndIsFunctionDecl
<1>3. CASE At("isfun.spec") /\ EndIsFunctionDecl(FALSE)
  BY <1>2, <1>3 DEF At, Rewinding
<1>4. CASE /\ At("isfun.spec")
           /\ UNCHANGED <<lexVars, semaVars, external, status>>
           /\ Call("isfun.decl", "dtor", ret.shape)
  <2>1. ret.shape \in Shapes
    BY DEF IInv, Framed, Values
  <2> QED BY <1>4, <2>1, StepCall, Likeness DEF At, Quiet, Rewinding, Entries
<1>5. CASE At("isfun.decl") /\ EndIsFunctionDecl(IsFunctionTypeNode(ret.shape))
  <2>1. IsFunctionTypeNode(ret.shape) \in BOOLEAN
    BY DEF IsFunctionTypeNode
  <2>2. Top.at \in Rewinding
    BY <1>5 DEF At, Rewinding
  <2> QED BY <1>2, <1>5, <2>1, <2>2
<1> QED BY <1>1, <1>3, <1>4, <1>5 DEF IsFunctionDecl

LEMMA EndFunctionDeclKeeps ==
  ASSUME IInv, NEW b \in BOOLEAN, Top.at \in {"fun.rest", "fun.body"}, EndFunctionDecl(b)
  PROVE  IInv'
<1> DEFINE outer == ExitScope(envs)
<1>1. Top.at \in ScopeHeld
  BY DEF ScopeHeld
<1>2. CASE Stop("nullFuncType") \/ Stop("redefined")
  BY <1>2, Stops DEF Statuses, Diagnostics, Crashes
<1>3. CASE /\ envs' = semaFunctionDecl(outer, Top.name, Top.base, b)
           /\ external' = Append(external, [at |-> Top.name, type |-> Top.base, body |-> b])
           /\ IF b THEN UNCHANGED lexVars ELSE Advance
           /\ Return(NoValue)
           /\ UNCHANGED <<modes, records, status>>
  <2>1. Top.name \in Nat /\ Top.base \in Shapes
    BY TopFrame DEF Frames
  <2>2. outer \in Seq(Envs) /\ outer # <<>>
    BY <1>1, OuterScopes
  <2>3. Declares(outer, envs', Mode)
    <3> HIDE DEF outer
    <3> QED BY <1>3, <2>1, <2>2, SemaDeclares
  <2>4. Noted'
    BY <1>3, <2>1 DEF IInv, Noted, Externals
  <2>5. NoValue \in Values
    BY DEF NoValue, Values, Shapes, Obj, NoRecord
  <2> QED BY <1>1, <1>3, <2>3, <2>4, <2>5, StepExit
<1> QED BY <1>2, <1>3 DEF EndFunctionDecl

LEMMA ParseFunctionDeclKeeps ==
  ASSUME IInv, ParseFunctionDecl
  PROVE  IInv'
<1>0. /\ Top \in Frames /\ ret.shape \in Shapes /\ ret.tdef \in BOOLEAN /\ ret.name \in Nat
      /\ Top.name \in Nat /\ Top.base \in Shapes
  BY TopFrame DEF IInv, Framed, Values, Frames
<1>1. CASE /\ At("fun")
           /\ UNCHANGED <<lexVars, semaVars, external, status>>
           /\ Call("fun.spec", "spec", Obj)
  BY <1>1, StepCall, Likeness DEF At, Quiet, CalmLabels, Labels, ScopeHeld, SkipHeld, SaveHeld, Outermost, Entries, Shapes, Obj
<1>2. CASE /\ At("fun.spec")
           /\ envs' = EnterScope(envs)
           /\ UNCHANGED <<lexVars, modes, records, external, status>>
           /\ CallFrom([Top EXCEPT !.at = "fun.decl", !.tdef = ret.tdef], "dtor", ret.shape)
  <2> DEFINE f == [Top EXCEPT !.at = "fun.decl", !.tdef = ret.tdef]
  <2>1. f \in Frames /\ f.depth = Top.depth /\ f.mdepth = Top.mdepth /\ f.sdepth = Top.sdepth
        /\ f.at = "fun.decl"
    BY <1>0 DEF Frames, Labels, ScopeHeld
  <2>2. Calm(Top.at) /\ "fun.decl" \in ScopeHeld
    BY <1>2 DEF At, Calm, ScopeHeld, SkipHeld, SaveHeld, Outermost
  <2>3. CallFrom(f, "dtor", ret.shape) /\ "dtor" \in Entries
    BY <1>2 DEF Entries
  <2> HIDE DEF f
  <2> QED BY <1>0, <1>2, <2>1, <2>2, <2>3, StepEnter
<1>3. CASE /\ At("fun.decl")
           /\ UNCHANGED <<lexVars, semaVars, external, status>>
           /\ Continue([Top EXCEPT !.at = "fun.rest", !.base = ret.shape, !.name = ret.name])
  <2> DEFINE f == [Top EXCEPT !.at = "fun.rest", !.base = ret.shape, !.name = ret.name]
  <2>1. Alike("fun.rest", "fun.decl") /\ "fun.rest" \in Labels
    BY Likeness DEF ScopeHeld
  <2>2. f \in Frames /\ Twin(f, Top)
    BY <1>0, <1>3, <2>1 DEF Frames, Twin, At
  <2>3. Continue(f) /\ Quiet
    BY <1>3 DEF Quiet
  <2> HIDE DEF f
  <2> QED BY <2>2, <2>3, QuietPlain, PlainGoes
<1>4. CASE /\ At("fun.rest")
           /\ Stop("syntax") \/ Stop("redefined")
  BY <1>4, Stops DEF Statuses, Diagnostics
<1>5. CASE /\ At("fun.rest")
           /\ Advance
           /\ envs' = semaTypedefDecl(ExitScope(envs), Mode, Top.name, Top.base)
           /\ Return(NoValue)
           /\ UNCHANGED <<modes, records, external, status>>
  <2>1. Top.at \in ScopeHeld
    BY <1>5 DEF At, ScopeHeld
  <2>2. ExitScope(envs) \in Seq(Envs) /\ ExitScope(envs) # <<>>
    BY <2>1, OuterScopes
  <2>3. Declares(ExitScope(envs), envs', Mode)
    BY <1>0, <1>5, <2>2, SemaDeclares
  <2>4. Noted' /\ NoValue \in Values
    BY <1>5 DEF IInv, Noted, NoValue, Values, Shapes, Obj, NoRecord
  <2> QED BY <1>5, <2>1, <2>3, <2>4, StepExit
<1>6. CASE At("fun.rest") /\ EndFunctionDecl(FALSE)
  BY <1>6, EndFunctionDeclKeeps DEF At
<1>7. CASE /\ At("fun.rest")
           /\ UNCHANGED <<lexVars, semaVars, external, status>>
           /\ Call("fun.body", "block", Obj)
  BY <1>7, StepCall, Likeness DEF At, Quiet, ScopeHeld, Entries, Shapes, Obj
<1>8. CASE At("fun.body") /\ EndFunctionDecl(TRUE)
  BY <1>8, EndFunctionDeclKeeps DEF At
<1> QED BY <1>1, <1>2, <1>3, <1>4, <1>5, <1>6, <1>7, <1>8 DEF ParseFunctionDecl

LEMMA ParseDeclareStmtKeeps ==
  ASSUME IInv, ParseDeclareStmt
  PROVE  IInv'
<1>0. /\ Top \in Frames /\ ret.shape \in Shapes /\ ret.tdef \in BOOLEAN /\ ret.name \in Nat
      /\ Top.base \in Shapes
  BY TopFrame DEF IInv, Framed, Values, Frames
<1>a. /\ {"decl", "decl.spec", "decl.next", "decl.node", "decl.more"} \subseteq CalmLabels
      /\ NoValue \in Values
      /\ [NoValue EXCEPT !.flag = ~Top.tdef] \in Values
  BY DEF CalmLabels, Labels, ScopeHeld, SkipHeld, SaveHeld, Outermost, NoValue, Values, Shapes, Obj, NoRecord
<1>1. CASE At("decl") /\ UNCHANGED <<lexVars, semaVars, external, status>>
           /\ Call("decl.spec", "spec", Obj)
  BY <1>1, <1>a, StepCall, Likeness DEF At, Quiet, Entries, Shapes, Obj
<1>2. CASE At("decl.spec") /\ Advance /\ Return(NoValue)
           /\ UNCHANGED <<semaVars, external, status>>
  BY <1>2, <1>a, StepReturn, Likeness DEF At, Quiet
<1>3. CASE At("decl.spec") /\ UNCHANGED <<lexVars, semaVars, external, status>>
           /\ Continue([Top EXCEPT !.at = "decl.next", !.base = ret.shape, !.tdef = ret.tdef])
  <2> DEFINE f == [Top EXCEPT !.at = "decl.next", !.base = ret.shape, !.tdef = ret.tdef]
  <2>1. Alike("decl.next", "decl.spec") /\ "decl.next" \in Labels
    BY <1>a, Likeness
  <2>2. f \in Frames /\ Twin(f, Top)
    BY <1>0, <1>3, <2>1 DEF Frames, Twin, At
  <2>3. Continue(f) /\ Quiet
    BY <1>3 DEF Quiet
  <2> HIDE DEF f
  <2> QED BY <2>2, <2>3, QuietPlain, PlainGoes
<1>4. CASE /\ At("decl.next") /\ Top.tdef
           /\ modes' = Append(modes, "Skip")
           /\ UNCHANGED <<lexVars, envs, records, external, status>>
           /\ Call("decl.typedef", "dtor", Top.base)
  <2> DEFINE f == [Top EXCEPT !.at = "decl.typedef"]
  <2>1. /\ "decl.typedef" \in Labels /\ "decl.typedef" \in SkipHeld
        /\ "decl.typedef" \notin ScopeHeld /\ "decl.typedef" \notin SaveHeld
        /\ "decl.typedef" \notin Outermost /\ "decl.typedef" \notin Rewinding
    BY DEF Labels, SkipHeld, ScopeHeld, SaveHeld, Outermost, Rewinding
  <2>2. /\ f \in Frames /\ f.at = "decl.typedef"
        /\ f.depth = Top.depth /\ f.mdepth = Top.mdepth /\ f.sdepth = Top.sdepth
    BY <1>0, <2>1 DEF Frames
  <2>3. CallFrom(f, "dtor", Top.base) /\ "dtor" \in Entries
    BY <1>4 DEF Call, Entries
  <2> HIDE DEF f
  <2>4. Calm(Top.at)
    BY <1>4, <1>a, Likeness DEF At
  <2>5. ModesOK(modes)' /\ Len(modes') = Len(modes) + 1
    BY <1>4, ModesPush DEF IInv
  <2>6. Lexed' /\ saved' = saved
    BY <1>4, Reads DEF IInv
  <2>7. Changes
    BY <1>4, <2>5, <2>6, KeptSame DEF Changes, IInv, Scoped, Noted, Framed
  <2>8. High(f, envs', modes', saved')
    <3>1. Len(envs) = Top.depth /\ Len(modes) = Top.mdepth /\ Len(saved) = Top.sdepth
      BY <2>4, CalmHeights
    <3>2. Top.depth \in Nat /\ Top.mdepth \in Nat /\ Top.sdepth \in Nat
      BY <1>0, Heights
    <3>3. ScopesOf(f) = Top.depth /\ ModesOf(f) = Top.mdepth + 1 /\ StatesOf(f) = Top.sdepth
      BY <2>1, <2>2, <3>2 DEF ScopesOf, ModesOf, StatesOf, Held
    <3> QED BY <1>4, <2>5, <2>6, <3>1, <3>3 DEF High
  <2>9. Remembers(f, envs', saved') /\ SameProcedure(f, Top)
    BY <2>1, <2>2, <2>4 DEF Remembers, SameProcedure, Calm
  <2> QED BY <1>0, <2>2, <2>3, <2>7, <2>8, <2>9, Moves
<1>5. CASE /\ At("decl.next") /\ UNCHANGED modes
           /\ UNCHANGED <<lexVars, envs, records, external, status>>
           /\ Call("decl.node", "dtor", Top.base)
  BY <1>0, <1>5, <1>a, StepCall, Likeness DEF At, Quiet, Entries, semaVars
<1>6. CASE Stop("redefined") \/ Stop("syntax")
  BY <1>6, Stops DEF Statuses, Diagnostics
<1>7. CASE /\ At("decl.typedef")
           /\ modes' = Front(modes)
           /\ envs' = semaTypedefDecl(envs, Last(modes'), ret.name, ret.shape)
           /\ Goto("decl.more")
           /\ UNCHANGED <<lexVars, records, external, status>>
  <2> DEFINE f == [Top EXCEPT !.at = "decl.more"]
  <2>1. /\ Top.at = "decl.typedef" /\ Top.at \in SkipHeld
        /\ Top.at \notin ScopeHeld /\ Top.at \notin SaveHeld /\ Top.at \notin Outermost
    BY <1>7 DEF At, SkipHeld, ScopeHeld, SaveHeld, Outermost
  <2>2. /\ f \in Frames /\ f.at = "decl.more" /\ Calm(f.at)
        /\ f.depth = Top.depth /\ f.mdepth = Top.mdepth /\ f.sdepth = Top.sdepth
    BY <1>0, <1>a, Likeness DEF Frames
  <2>3. Continue(f)
    BY <1>7 DEF Goto
  <2> HIDE DEF f
  <2>4. Len(modes) = Top.mdepth + 1 /\ Len(modes) \in Nat \ {0, 1}
    BY <2>1, SkipHeights
  <2>5. ModesOK(modes)' /\ Len(modes') = Len(modes) - 1
    BY <1>7, <2>4, ModesPop DEF IInv
  <2>6. Lexed' /\ saved' = saved
    BY <1>7, Reads DEF IInv
  <2>7. Declares(envs, envs', Last(modes'))
    BY <1>0, <1>7, SemaDeclares DEF IInv, Scoped
  <2>8. Kept(stack, envs, envs', saved, saved')
    <3>1. CASE envs' = envs
      BY <3>1, <2>6, KeptSame DEF IInv, Framed
    <3>2. CASE Last(modes') = "Normal"
      <4>1. Len(modes) = 2
        <5>1. Len(modes') \in Nat \ {0} /\ Len(modes') \notin 2..Len(modes')
          BY <2>4, <2>5, <3>2 DEF ModesOK, Last
        <5> QED BY <5>1, <2>4, <2>5
      <4>2. ASSUME NEW i \in 1..Len(stack)-1, stack[i].at \in SaveHeld
            PROVE  FALSE
        <5>1. /\ stack[i] \in Frames /\ ModesOf(stack[i]) <= Top.mdepth /\ Top.mdepth \in Nat
          BY Under2, <1>0, Heights DEF IInv, Framed, Top
        <5>2. stack[i].mdepth \in Nat \ {0} /\ ModesOf(stack[i]) = stack[i].mdepth + 1
          BY <4>2, <5>1, Heights DEF ModesOf, Held, SkipHeld
        <5> QED BY <2>4, <4>1, <5>1, <5>2
      <4> QED BY <4>2 DEF Kept, Rewinding, SaveHeld
    <3> QED BY <2>7, <3>1, <3>2 DEF Declares
  <2>9. Changes
    BY <1>7, <2>5, <2>6, <2>7, <2>8 DEF Changes, IInv, Scoped, Noted, Declares
  <2>10. High(f, envs', modes', saved')
    <3>1. High(Top, envs, modes, saved)
      BY TopFrame
    <3>2. Top.depth \in Nat /\ Top.mdepth \in Nat /\ Top.sdepth \in Nat
      BY <1>0, Heights
    <3>3. ScopesOf(f) = Top.depth /\ ModesOf(f) = Top.mdepth /\ StatesOf(f) = Top.sdepth
      BY <2>2, <3>2 DEF ScopesOf, ModesOf, StatesOf, Held, Calm, SkipHeld
    <3>4. Len(envs) = Top.depth /\ Len(saved) = Top.sdepth
      BY <2>1, <3>1, <3>2 DEF High, ScopesOf, StatesOf, Held
    <3> QED BY <2>4, <2>5, <2>6, <2>7, <3>2, <3>3, <3>4 DEF High, Declares
  <2>11. Remembers(f, envs', saved') /\ SameProcedure(f, Top)
    BY <2>1, <2>2 DEF Remembers, SameProcedure, Calm, SkipHeld, SaveHeld, Rewinding
  <2> QED BY <2>2, <2>3, <2>9, <2>10, <2>11, Moves
<1>8. CASE /\ At("decl.node")
           /\ external' = IF Len(stack) = 2
                          THEN Append(external, [at |-> ret.name, type |-> Obj, body |-> FALSE])
                          ELSE external
           /\ Goto("decl.more")
           /\ UNCHANGED <<lexVars, semaVars, status>>
  <2>1. Plain
    <3>1. external \in Seq(Externals) /\ [at |-> ret.name, type |-> Obj, body |-> FALSE] \in Externals
      BY <1>0 DEF IInv, Noted, Externals, Shapes, Obj
    <3>2. external' \in Seq(Externals)
      BY <1>8, <3>1
    <3> QED BY <1>8, <3>2 DEF Plain, IInv, Noted, semaVars
  <2>2. Alike("decl.more", Top.at) /\ "decl.more" \in Labels
    BY <1>8, <1>a, Likeness DEF At
  <2> QED BY <1>0, <1>8, <2>1, <2>2, Relabel, PlainGoes DEF Goto
<1>9. CASE /\ At("decl.more") /\ Advance
           /\ Return([NoValue EXCEPT !.flag = ~Top.tdef])
           /\ UNCHANGED <<semaVars, external, status>>
  BY <1>9, <1>a, StepReturn, Likeness DEF At, Quiet
<1>10. CASE /\ At("decl.more") /\ Advance
            /\ Continue([Top EXCEPT !.at = "decl.next", !.more = TRUE])
            /\ UNCHANGED <<semaVars, external, status>>
  <2> DEFINE f == [Top EXCEPT !.at = "decl.next", !.more = TRUE]
  <2>1. Alike("decl.next", "decl.more") /\ "decl.next" \in Labels
    BY <1>a, Likeness
  <2>2. f \in Frames /\ Twin(f, Top)
    BY <1>0, <1>10, <2>1 DEF Frames, Twin, At
  <2>3. Continue(f) /\ Quiet
    BY <1>10 DEF Quiet
  <2> HIDE DEF f
  <2> QED BY <2>2, <2>3, QuietPlain, PlainGoes
<1> QED BY <1>1, <1>2, <1>3, <1>4, <1>5, <1>6, <1>7, <1>8, <1>9, <1>10 DEF ParseDeclareStmt

LEMMA ParseDeclSpecKeeps ==
  ASSUME IInv, ParseDeclSpec
  PROVE  IInv'
<1>0. /\ Top \in Frames /\ ret.rec \in Nat /\ Top.base \in Shapes /\ Top.rec \in Nat
      /\ Top.tdef \in BOOLEAN /\ Top.size \in 0..2
  BY TopFrame DEF IInv, Framed, Values, Frames
<1>a. /\ {"spec", "spec.loop", "spec.struct"} \subseteq CalmLabels
      /\ Obj \in Shapes
      /\ [NoValue EXCEPT !.tdef = Top.tdef] \in Values
      /\ [NoValue EXCEPT !.shape = Top.base, !.rec = Top.rec, !.tdef = Top.tdef] \in Values
  BY <1>0 DEF CalmLabels, Labels, ScopeHeld, SkipHeld, SaveHeld, Outermost,
              NoValue, Values, Shapes, Obj, NoRecord
<1>b. Tok \in Names => FindObjSymbol(envs, Tok).shape \in Shapes
  BY ObjectsFound DEF IInv, Scoped
<1>1. CASE \E s \in {"undefined", "type", "endOfInput"} : Stop(s)
  BY <1>1, Stops DEF Statuses, Diagnostics, Crashes
<1>2. CASE At("spec") /\ UNCHANGED <<lexVars, semaVars, external, status>> /\ Goto("spec.loop")
  BY <1>2, <1>a, StepGoto, Likeness DEF At, Quiet
<1>3. CASE At("spec.loop") /\ UNCHANGED <<lexVars, semaVars, external, status>>
           /\ Return([NoValue EXCEPT !.tdef = Top.tdef])
  BY <1>3, <1>a, StepReturn, Likeness DEF At, Quiet
<1>4. CASE At("spec.loop") /\ Tok \in Names
           /\ SpecToken([Top EXCEPT !.user = TRUE, !.base = FindObjSymbol(envs, Tok).shape])
  <2> DEFINE f == [Top EXCEPT !.user = TRUE, !.base = FindObjSymbol(envs, Tok).shape]
  <2>1. f \in Frames /\ f.at \in CalmLabels /\ SameHeights(f, Top) /\ Top.at \in CalmLabels
    BY <1>0, <1>a, <1>b, <1>4 DEF Frames, SameHeights, CalmLabels, At
  <2>2. Continue(f) /\ Quiet
    BY <1>4 DEF Quiet, SpecToken
  <2> HIDE DEF f
  <2> QED BY <1>0, <1>a, <1>b, <2>1, <2>2, CalmGoes
<1>5. CASE At("spec.loop")
           /\ SpecToken([Top EXCEPT !.tdef = TRUE])
  <2> DEFINE f == [Top EXCEPT !.tdef = TRUE]
  <2>1. f \in Frames /\ f.at \in CalmLabels /\ SameHeights(f, Top) /\ Top.at \in CalmLabels
    BY <1>0, <1>a, <1>5 DEF Frames, SameHeights, CalmLabels, At
  <2>2. Continue(f) /\ Quiet
    BY <1>5 DEF Quiet, SpecToken
  <2> HIDE DEF f
  <2> QED BY <1>0, <1>a, <2>1, <2>2, CalmGoes
<1>6. CASE At("spec.loop") /\ Tok \in BasicTypes
           /\ SpecToken([Top EXCEPT !.kind = Tok])
  <2> DEFINE f == [Top EXCEPT !.kind = Tok]
  <2>1. f \in Frames /\ f.at \in CalmLabels /\ SameHeights(f, Top) /\ Top.at \in CalmLabels
    BY <1>0, <1>a, <1>6 DEF Frames, SameHeights, CalmLabels, At, BasicTypes
  <2>2. Continue(f) /\ Quiet
    BY <1>6 DEF Quiet, SpecToken
  <2> HIDE DEF f
  <2> QED BY <1>0, <1>a, <2>1, <2>2, CalmGoes
<1>7. CASE At("spec.loop") /\ Top.size # 2
           /\ SpecToken([Top EXCEPT !.size = @ + 1])
  <2> DEFINE f == [Top EXCEPT !.size = @ + 1]
  <2>0. Top.size + 1 \in 0..2
    BY <1>0, <1>7
  <2>1. f \in Frames /\ f.at \in CalmLabels /\ SameHeights(f, Top) /\ Top.at \in CalmLabels
    BY <1>0, <1>a, <1>7, <2>0 DEF Frames, SameHeights, CalmLabels, At
  <2>2. Continue(f) /\ Quiet
    BY <1>7 DEF Quiet, SpecToken
  <2> HIDE DEF f
  <2> QED BY <1>0, <1>a, <2>1, <2>2, CalmGoes
<1>8. CASE At("spec.loop") /\ UNCHANGED <<lexVars, semaVars, external, status>> /\ Call("spec.struct", "struct", Obj)
  BY <1>8, <1>a, StepCall, Likeness DEF At, Quiet, Entries
<1>9. CASE At("spec.struct") /\ UNCHANGED <<lexVars, semaVars, external, status>>
           /\ Continue([Top EXCEPT !.at = "spec.loop", !.user = TRUE, !.base = Obj, !.rec = ret.rec])
  <2> DEFINE f == [Top EXCEPT !.at = "spec.loop", !.user = TRUE, !.base = Obj, !.rec = ret.rec]
  <2>1. f \in Frames /\ f.at \in CalmLabels /\ SameHeights(f, Top) /\ Top.at \in CalmLabels
    BY <1>0, <1>a, <1>9 DEF Frames, SameHeights, CalmLabels, At
  <2>2. Continue(f) /\ Quiet
    BY <1>9 DEF Quiet
  <2> HIDE DEF f
  <2> QED BY <1>0, <1>a, <2>1, <2>2, CalmGoes
<1>10. CASE At("spec.loop") /\ UNCHANGED <<lexVars, semaVars, external, status>>
           /\ Return([NoValue EXCEPT !.shape = Top.base, !.rec = Top.rec, !.tdef = Top.tdef])
  BY <1>10, <1>a, StepReturn, Likeness DEF At, Quiet
<1> QED
  BY <1>1, <1>2, <1>3, <1>4, <1>5, <1>6, <1>7, <1>8, <1>9, <1>10 DEF ParseDeclSpec

LEMMA LocalTypes ==
  ASSUME IInv
  PROVE  /\ Top \in Frames /\ ret \in Values /\ Top.base \in Shapes /\ Top.rec \in Nat
         /\ Top.name \in Nat /\ tok \in Nat /\ ret.shape \in Shapes /\ ret.rec \in Nat
         /\ ret.name \in Nat
<1>1. Top \in Frames
  BY TopFrame
<1>2. Top.base \in Shapes /\ Top.rec \in Nat /\ Top.name \in Nat
  BY <1>1 DEF Frames
<1>3. ret \in Values
  BY DEF IInv, Framed
<1>4. ret.shape \in Shapes /\ ret.rec \in Nat /\ ret.name \in Nat
  BY <1>3 DEF Values
<1>5. tok \in Nat
  BY DEF IInv, Lexed
<1> QED BY <1>1, <1>2, <1>3, <1>4, <1>5


LEMMA ParseStructOrUnionSpecKeeps ==
  ASSUME IInv, ParseStructOrUnionSpec
  PROVE  IInv'
<1>0. /\ Top \in Frames /\ ret \in Values /\ Top.base \in Shapes /\ Top.rec \in Nat
      /\ Top.name \in Nat /\ tok \in Nat /\ ret.shape \in Shapes /\ ret.rec \in Nat
      /\ ret.name \in Nat
  BY LocalTypes
<1>a. /\ {"struct", "struct.tag", "struct.body"} \subseteq CalmLabels
      /\ Obj \in Shapes
      /\ [NoValue EXCEPT !.rec = Top.rec] \in Values
  BY <1>0 DEF CalmLabels, Labels, ScopeHeld, SkipHeld, SaveHeld, Outermost,
              NoValue, Values, Shapes, Obj, NoRecord
<1>b. [records EXCEPT ![Top.rec] = Top.begin] \in Seq(Nat)
  <2>1. records \in Seq(Nat)
    BY DEF IInv, Noted
  <2>2. Top.begin \in Nat
    BY <1>0 DEF Frames
  <2>3. \A q \in Seq(Nat), i, x \in Nat : [q EXCEPT ![i] = x] \in Seq(Nat)
    <3> TAKE q \in Seq(Nat), i, x \in Nat
    <3>1. q \in [1..Len(q) -> Nat] /\ Len(q) \in Nat
      OBVIOUS
    <3>2. [q EXCEPT ![i] = x] \in [1..Len(q) -> Nat]
      BY <3>1
    <3> QED BY <3>1, <3>2
  <2> QED BY <1>0, <2>1, <2>2, <2>3
<1>c. Tok \in Names => FindTagSymbol(envs, Tok) \in Nat
  BY TagsFound DEF IInv, Scoped, Tags
<1>d. Len(records) + 1 \in Nat
  BY DEF IInv, Noted
<1>1. CASE At("struct") /\ Advance /\ UNCHANGED <<semaVars, external, status>> /\ Goto("struct.tag")
  BY <1>1, <1>a, StepGoto, Likeness DEF At, Quiet
<1>2. ASSUME At("struct.tag"), NEW r \in Nat, Advance \/ UNCHANGED lexVars,
             records' \in {records, Append(records, 0)},
             Continue([Top EXCEPT !.at = "struct.body", !.rec = r, !.name = tok]),
             UNCHANGED <<modes, envs, external, status>>
      PROVE  IInv'
  <2> DEFINE f == [Top EXCEPT !.at = "struct.body", !.rec = r, !.name = tok]
  <2>1. Alike("struct.body", "struct.tag") /\ "struct.body" \in Labels
    BY <1>a, Likeness
  <2>2. f \in Frames /\ Twin(f, Top)
    <3>1. Calm("struct.body")
      BY <1>a, Likeness
    <3> QED BY <1>0, <1>2, <2>1, <3>1 DEF Frames, Twin, At, Calm, SkipHeld
  <2>3. Continue(f)
    BY <1>2
  <2> HIDE DEF f
  <2>4. Plain
    BY <1>2 DEF Plain, IInv, Noted
  <2> QED BY <2>2, <2>3, <2>4, PlainGoes
<1>3. CASE At("struct.body") /\ UNCHANGED <<lexVars, semaVars, external, status>>
           /\ Return([NoValue EXCEPT !.rec = Top.rec])
  BY <1>3, <1>a, StepReturn, Likeness DEF At, Quiet
<1>4. CASE /\ At("struct.body") /\ Advance /\ envs' = EnterScope(envs)
           /\ Continue([Top EXCEPT !.at = "struct.members", !.begin = tok])
           /\ UNCHANGED <<modes, records, external, status>>
  <2> DEFINE f == [Top EXCEPT !.at = "struct.members", !.begin = tok]
  <2>1. f \in Frames /\ f.at \in ScopeHeld /\ SameHeights(f, Top)
    BY <1>0 DEF Frames, Labels, ScopeHeld, SameHeights
  <2>2. Continue(f) /\ Calm(Top.at)
    BY <1>4, <1>a, Likeness DEF At
  <2> HIDE DEF f
  <2> QED BY <1>4, <2>1, <2>2, StepEnter DEF SameHeights
<1>5. CASE At("struct.members") /\ UNCHANGED <<lexVars, semaVars, external, status>> /\ Call("struct.member", "decl", Obj)
  BY <1>5, <1>a, StepCall, Likeness DEF ScopeHeld, At, Quiet, Entries
<1>6. CASE \E s \in {"nullMember"} : Stop(s)
  BY <1>6, Stops DEF Statuses, Diagnostics, Crashes
<1>7. CASE At("struct.member") /\ UNCHANGED <<lexVars, semaVars, external, status>> /\ Goto("struct.members")
  BY <1>7, <1>a, StepGoto, Likeness DEF ScopeHeld, At, Quiet
<1>8. ASSUME records' \in Seq(Nat), status' \in Statuses,
             UNCHANGED <<lexVars, modes, envs, external, stack, ret>>
      PROVE  IInv'
  BY <1>8 DEF IInv, lexVars, Lexed, Scoped, Framed, Noted
<1>9. CASE /\ At("struct.members") /\ Advance
           /\ records' = [records EXCEPT ![Top.rec] = Top.begin]
           /\ envs' = semaTagDeclare(ExitScope(envs), Top.name, Top.rec)
           /\ Return([NoValue EXCEPT !.rec = Top.rec])
           /\ UNCHANGED <<modes, external, status>>
  <2>1. Top.at \in ScopeHeld
    BY <1>9 DEF At, ScopeHeld
  <2>2. Declares(ExitScope(envs), envs', Mode)
    BY <1>0, <1>9, <1>a, <2>1, OuterScopes, SemaDeclares
  <2>3. Noted'
    BY <1>b, <1>9 DEF IInv, Noted
  <2> QED BY <1>9, <1>a, <2>1, <2>2, <2>3, StepExit
<1>10. ASSUME At("struct.tag"), ParseStructOrUnionSpec
       PROVE  IInv'
  <2> DEFINE found == IF Tok \in Names THEN FindTagSymbol(envs, Tok) ELSE NoRecord
             rec == IF found # NoRecord THEN found ELSE Len(records) + 1
  <2>1. rec \in Nat
    BY <1>c, <1>d DEF NoRecord
  <2>2. /\ records' \in {records, Append(records, 0)}
        /\ Advance \/ UNCHANGED lexVars
        /\ Continue([Top EXCEPT !.at = "struct.body", !.rec = rec, !.name = tok])
        /\ UNCHANGED <<modes, envs, external, status>>
    BY <1>10 DEF ParseStructOrUnionSpec, At
  <2> QED BY <1>2, <1>10, <2>1, <2>2
<1>11. {"redefined"} \subseteq Statuses
  BY DEF Statuses, Diagnostics
<1>12. ASSUME ~At("struct.tag")
       PROVE  IInv'
  BY <1>b, <1>1, <1>3, <1>4, <1>5, <1>6, <1>7, <1>8, <1>9, <1>11, <1>12 DEF ParseStructOrUnionSpec, Running
<1> QED BY <1>10, <1>12

LEMMA DeclaratorKeeps ==
  ASSUME IInv, Declarator
  PROVE  IInv'
<1>0. /\ Top \in Frames /\ ret \in Values /\ Top.base \in Shapes /\ Top.rec \in Nat
      /\ Top.name \in Nat /\ tok \in Nat /\ ret.shape \in Shapes /\ ret.rec \in Nat
      /\ ret.name \in Nat
  BY LocalTypes
<1>a. /\ {"dtor", "dtor.real", "dtor.tail", "dtor.ident", "dtor.init", "dtor.value"} \subseteq CalmLabels
      /\ Obj \in Shapes
      /\ [NoValue EXCEPT !.shape = Top.base, !.name = Top.name] \in Values
  BY <1>0 DEF CalmLabels, Labels, ScopeHeld, SkipHeld, SaveHeld, Outermost,
              NoValue, Values, Shapes, Obj, NoRecord
<1>b. PointerTo(Top.base) \in Shapes
  BY <1>0 DEF PointerTo, Shapes, Obj, PtrFunc
<1>1. CASE At("dtor") /\ Advance /\ UNCHANGED <<semaVars, external, status>>
           /\ Continue([Top EXCEPT !.base = PointerTo(@)])
  <2> DEFINE f == [Top EXCEPT !.base = PointerTo(@)]
  <2>1. f \in Frames /\ f.at \in CalmLabels /\ SameHeights(f, Top) /\ Top.at \in CalmLabels
    BY <1>0, <1>a, <1>b, <1>1 DEF Frames, SameHeights, CalmLabels, At
  <2>2. Continue(f) /\ Quiet
    BY <1>1 DEF Quiet
  <2> HIDE DEF f
  <2> QED BY <1>0, <1>a, <1>b, <2>1, <2>2, CalmGoes
<1>2. CASE /\ At("dtor") /\ BeginSkip /\ NextTokenFrom(cur)
           /\ UNCHANGED <<envs, records, external, status>>
           /\ CallFrom([Top EXCEPT !.at = "dtor.skipped", !.begin = tok, !.mark = envs],
                       "dtor", Obj)
  <2>1. Calm(Top.at)
    BY <1>2, <1>a, Likeness DEF At
  <2> QED BY <1>2, <1>a, <2>1, StepBeginSkip DEF Entries
<1>3. CASE \E s \in {"syntax", "redefined"} : Stop(s)
  BY <1>3, Stops DEF Statuses, Diagnostics, Crashes
<1>4. CASE At("dtor.skipped") /\ Advance /\ UNCHANGED <<semaVars, external, status>> /\ Call("dtor.typed", "suffix", Top.base)
  BY <1>4, <1>0, StepCall, Likeness DEF At, Quiet, Entries
<1>5. CASE /\ At("dtor.typed") /\ EndSkip /\ NextTokenFrom(Last(saved))
           /\ UNCHANGED <<envs, records, external, status>>
           /\ CallFrom([Top EXCEPT !.at = "dtor.real", !.stop = tok], "dtor", ret.shape)
  <2> DEFINE f == [Top EXCEPT !.at = "dtor.real", !.stop = tok]
  <2>1. /\ Top.at = "dtor.typed" /\ Top.at \in SaveHeld /\ Top.at \in SkipHeld
        /\ Top.at \notin ScopeHeld /\ Top.at \notin Outermost
    BY <1>5 DEF At, SaveHeld, SkipHeld, ScopeHeld, Outermost
  <2>2. f \in Frames /\ f.at = "dtor.real" /\ Calm(f.at) /\ SameHeights(f, Top)
    BY <1>0, <1>a, Likeness DEF Frames, SameHeights
  <2>3. CallFrom(f, "dtor", ret.shape) /\ "dtor" \in Entries
    BY <1>5 DEF Entries
  <2> HIDE DEF f
  <2>4. /\ saved' \in Seq(Nat) /\ \A k \in 1..Len(saved') : saved'[k] \in 1..Len(text)
        /\ Last(saved) \in 1..Len(text)
        /\ ModesOK(modes)' /\ Len(modes') = Top.mdepth /\ Len(saved') = Top.sdepth
        /\ Kept(stack, envs, envs, saved, saved')
    BY <1>5, <2>1, EndSkipFacts
  <2>5. /\ text' \in Seq(Tokens) /\ cur' \in 1..Len(text') /\ tok' = cur'
        /\ Len(text) <= Len(text') /\ Len(text) \in Nat /\ Len(text') \in Nat
    BY <1>5, <2>4, NextToken DEF IInv
  <2>6. Lexed'
    BY <2>4, <2>5 DEF Lexed
  <2>7. Changes
    BY <1>5, <2>4, <2>6 DEF Changes, IInv, Scoped, Noted
  <2>8. High(f, envs', modes', saved')
    <3>1. Top.depth \in Nat /\ Top.mdepth \in Nat /\ Top.sdepth \in Nat
      BY <1>0, Heights
    <3>2. Len(envs) = Top.depth
      BY <2>1, <3>1, TopFrame DEF High, ScopesOf, Held
    <3>3. ScopesOf(f) = Top.depth /\ ModesOf(f) = Top.mdepth /\ StatesOf(f) = Top.sdepth
      BY <2>2, <3>1 DEF ScopesOf, ModesOf, StatesOf, Held, Calm, SkipHeld, SameHeights
    <3> QED BY <1>5, <2>4, <3>2, <3>3 DEF High
  <2>9. Remembers(f, envs', saved') /\ SameProcedure(f, Top)
    BY <2>1, <2>2 DEF Remembers, SameProcedure, SameHeights, Calm, SkipHeld, SaveHeld, Rewinding
  <2> QED BY <1>0, <2>2, <2>3, <2>7, <2>8, <2>9, Moves
<1>6. CASE At("dtor.real") /\ Advance /\ UNCHANGED <<semaVars, external, status>>
           /\ CallFrom([Top EXCEPT !.at = "dtor.tail", !.base = ret.shape, !.name = ret.name], "suffix", Obj)
  <2> DEFINE f == [Top EXCEPT !.at = "dtor.tail", !.base = ret.shape, !.name = ret.name]
  <2>1. f \in Frames /\ f.at \in CalmLabels /\ SameHeights(f, Top) /\ Top.at \in CalmLabels
    BY <1>0, <1>a, <1>6 DEF Frames, SameHeights, CalmLabels, At
  <2>2. CallFrom(f, "suffix", Obj) /\ "suffix" \in Entries /\ Quiet
    BY <1>6 DEF Quiet, Entries
  <2> HIDE DEF f
  <2> QED BY <1>0, <1>a, <2>1, <2>2, CalmCalls
<1>7. CASE At("dtor.tail") /\ UNCHANGED <<lexVars, semaVars, external, status>> /\ Goto("dtor.init")
  BY <1>7, <1>a, StepGoto, Likeness DEF At, Quiet
<1>8. CASE At("dtor") /\ Advance /\ UNCHANGED <<semaVars, external, status>>
           /\ CallFrom([Top EXCEPT !.at = "dtor.ident", !.name = tok], "suffix", Top.base)
  <2> DEFINE f == [Top EXCEPT !.at = "dtor.ident", !.name = tok]
  <2>1. f \in Frames /\ f.at \in CalmLabels /\ SameHeights(f, Top) /\ Top.at \in CalmLabels
    BY <1>0, <1>a, <1>8 DEF Frames, SameHeights, CalmLabels, At
  <2>2. CallFrom(f, "suffix", Top.base) /\ "suffix" \in Entries /\ Quiet
    BY <1>8 DEF Quiet, Entries
  <2> HIDE DEF f
  <2> QED BY <1>0, <1>a, <2>1, <2>2, CalmCalls
<1>9. CASE /\ At("dtor.ident") /\ semaVariableDeclNode(Top.name, ret.shape)
           /\ UNCHANGED <<lexVars, modes, records, external, status>>
           /\ Continue([Top EXCEPT !.at = "dtor.init", !.base = ret.shape])
  <2> DEFINE f == [Top EXCEPT !.at = "dtor.init", !.base = ret.shape]
  <2>1. Alike("dtor.init", "dtor.ident") /\ Calm("dtor.init") /\ Calm(Top.at)
        /\ "dtor.init" \in Labels
    BY <1>9, <1>a, Likeness DEF At
  <2>2. f \in Frames /\ Twin(f, Top)
    BY <1>0, <1>9, <2>1 DEF Frames, Twin, At, Calm, SkipHeld
  <2>3. Continue(f)
    BY <1>9
  <2> HIDE DEF f
  <2>4. Symbol("obj", ret.shape, Top.name) \in Symbols
    BY <1>0 DEF Symbol, Symbols
  <2>5. Declares(envs, envs', Mode)
    <3>1. AddObjSymbol(envs, text[Top.name], Symbol("obj", ret.shape, Top.name)) \in Seq(Envs)
          /\ Len(AddObjSymbol(envs, text[Top.name], Symbol("obj", ret.shape, Top.name))) = Len(envs)
      BY <2>4, AddObjKeeps DEF IInv, Scoped
    <3> QED BY <1>9, <3>1 DEF semaVariableDeclNode, Declares, IInv, Scoped
  <2>6. Noted'
    BY <1>9 DEF IInv, Noted
  <2> QED BY <1>9, <2>1, <2>2, <2>3, <2>5, <2>6, StepDeclare
<1>10. CASE At("dtor.init") /\ Advance /\ UNCHANGED <<semaVars, external, status>> /\ Goto("dtor.value")
  BY <1>10, <1>a, StepGoto, Likeness DEF At, Quiet
<1>11. CASE At("dtor.init") /\ UNCHANGED <<lexVars, semaVars, external, status>>
           /\ Return([NoValue EXCEPT !.shape = Top.base, !.name = Top.name])
  BY <1>11, <1>a, StepReturn, Likeness DEF At, Quiet
<1> QED BY <1>1, <1>2, <1>3, <1>4, <1>5, <1>6, <1>7, <1>8, <1>9, <1>10, <1>11 DEF Declarator

LEMMA ParseInitializerKeeps ==
  ASSUME IInv, ParseInitializer
  PROVE  IInv'
<1>0. /\ Top \in Frames /\ ret \in Values /\ Top.base \in Shapes /\ Top.rec \in Nat
      /\ Top.name \in Nat /\ tok \in Nat /\ ret.shape \in Shapes /\ ret.rec \in Nat
      /\ ret.name \in Nat
  BY LocalTypes
<1>a. /\ {"dtor.value", "dtor.more"} \subseteq CalmLabels
      /\ Obj \in Shapes
      /\ [NoValue EXCEPT !.shape = Top.base, !.name = Top.name] \in Values
  BY <1>0 DEF CalmLabels, Labels, ScopeHeld, SkipHeld, SaveHeld, Outermost,
              NoValue, Values, Shapes, Obj, NoRecord
<1>1. CASE \E s \in {"beyond"} : Stop(s)
  BY <1>1, Stops DEF Statuses, Diagnostics, Crashes
<1>2. CASE At("dtor.more") /\ UNCHANGED <<lexVars, semaVars, external, status>>
           /\ Return([NoValue EXCEPT !.shape = Top.base, !.name = Top.name])
  BY <1>2, <1>a, StepReturn, Likeness DEF At, Quiet
<1>3. CASE At("dtor.value") /\ Primary("dtor.more")
  <2>1. "dtor.more" \in Labels /\ Alike("dtor.more", Top.at)
    BY <1>3, <1>a, Likeness DEF At
  <2> QED BY <1>3, <2>1, PrimaryKeeps
<1> QED BY <1>1, <1>2, <1>3 DEF ParseInitializer

LEMMA DirectDeclaratorSuffixKeeps ==
  ASSUME IInv, DirectDeclaratorSuffix
  PROVE  IInv'
<1>0. /\ Top \in Frames /\ ret \in Values /\ Top.base \in Shapes /\ Top.rec \in Nat
      /\ Top.name \in Nat /\ tok \in Nat /\ ret.shape \in Shapes /\ ret.rec \in Nat
      /\ ret.name \in Nat
  BY LocalTypes
<1>a. /\ {"suffix", "suffix.array", "params"} \subseteq CalmLabels
      /\ Obj \in Shapes
      /\ [NoValue EXCEPT !.shape = Top.base] \in Values
  BY <1>0 DEF CalmLabels, Labels, ScopeHeld, SkipHeld, SaveHeld, Outermost,
              NoValue, Values, Shapes, Obj, NoRecord
<1>1. CASE At("suffix") /\ Advance /\ UNCHANGED <<semaVars, external, status>> /\ Goto("params")
  BY <1>1, <1>a, StepGoto, Likeness DEF At, Quiet
<1>2. CASE At("suffix") /\ Advance /\ UNCHANGED <<semaVars, external, status>>
           /\ Continue([Top EXCEPT !.at = "suffix.array", !.base = Obj])
  <2> DEFINE f == [Top EXCEPT !.at = "suffix.array", !.base = Obj]
  <2>1. f \in Frames /\ f.at \in CalmLabels /\ SameHeights(f, Top) /\ Top.at \in CalmLabels
    BY <1>0, <1>a, <1>2 DEF Frames, SameHeights, CalmLabels, At
  <2>2. Continue(f) /\ Quiet
    BY <1>2 DEF Quiet
  <2> HIDE DEF f
  <2> QED BY <1>0, <1>a, <2>1, <2>2, CalmGoes
<1>3. CASE At("suffix.array") /\ Advance /\ UNCHANGED <<semaVars, external, status>> /\ Goto("suffix.array")
  BY <1>3, <1>a, StepGoto, Likeness DEF At, Quiet
<1>4. CASE At("suffix") /\ UNCHANGED <<lexVars, semaVars, external, status>>
           /\ Return([NoValue EXCEPT !.shape = Top.base])
  BY <1>4, <1>a, StepReturn, Likeness DEF At, Quiet
<1>5. CASE At("suffix.array") /\ UNCHANGED <<lexVars, semaVars, external, status>>
           /\ Return([NoValue EXCEPT !.shape = Top.base])
  BY <1>5, <1>a, StepReturn, Likeness DEF At, Quiet
<1> QED BY <1>1, <1>2, <1>3, <1>4, <1>5 DEF DirectDeclaratorSuffix

LEMMA DirectDeclaratorFuncSuffixKeeps ==
  ASSUME IInv, DirectDeclaratorFuncSuffix
  PROVE  IInv'
<1>0. /\ Top \in Frames /\ ret \in Values /\ Top.base \in Shapes /\ Top.rec \in Nat
      /\ Top.name \in Nat /\ tok \in Nat /\ ret.shape \in Shapes /\ ret.rec \in Nat
      /\ ret.name \in Nat
  BY LocalTypes
<1>a. /\ {"params", "param", "params.end", "param.spec", "param.decl"} \subseteq CalmLabels
      /\ Obj \in Shapes
      /\ [NoValue EXCEPT !.shape = tok] \in Values
  BY <1>0 DEF CalmLabels, Labels, ScopeHeld, SkipHeld, SaveHeld, Outermost,
              NoValue, Values, Shapes, Obj, NoRecord
<1>1. CASE At("params") /\ Advance /\ UNCHANGED <<semaVars, external, status>> /\ Goto("param")
  BY <1>1, <1>a, StepGoto, Likeness DEF At, Quiet
<1>2. CASE At("params") /\ UNCHANGED <<lexVars, semaVars, external, status>> /\ Goto("param")
  BY <1>2, <1>a, StepGoto, Likeness DEF At, Quiet
<1>3. CASE At("param") /\ Advance /\ UNCHANGED <<semaVars, external, status>> /\ Goto("params.end")
  BY <1>3, <1>a, StepGoto, Likeness DEF At, Quiet
<1>4. CASE At("param") /\ UNCHANGED <<lexVars, semaVars, external, status>> /\ Call("param.spec", "spec", Obj)
  BY <1>4, <1>a, StepCall, Likeness DEF At, Quiet, Entries
<1>5. CASE At("param.spec") /\ UNCHANGED <<lexVars, semaVars, external, status>> /\ Call("param.decl", "dtor", ret.shape)
  BY <1>5, <1>0, <1>a, StepCall, Likeness DEF At, Quiet, Entries
<1>6. CASE At("param.decl") /\ UNCHANGED <<lexVars, semaVars, external, status>>
           /\ Continue([Top EXCEPT !.at = "params", !.more = TRUE])
  <2> DEFINE f == [Top EXCEPT !.at = "params", !.more = TRUE]
  <2>1. f \in Frames /\ f.at \in CalmLabels /\ SameHeights(f, Top) /\ Top.at \in CalmLabels
    BY <1>0, <1>a, <1>6 DEF Frames, SameHeights, CalmLabels, At
  <2>2. Continue(f) /\ Quiet
    BY <1>6 DEF Quiet
  <2> HIDE DEF f
  <2> QED BY <1>0, <1>a, <2>1, <2>2, CalmGoes
<1>7. CASE \E s \in {"syntax"} : Stop(s)
  BY <1>7, Stops DEF Statuses, Diagnostics, Crashes
<1>8. CASE At("params") /\ Advance /\ UNCHANGED <<semaVars, external, status>>
           /\ Return([NoValue EXCEPT !.shape = tok])
  BY <1>8, <1>a, StepReturn, Likeness DEF At, Quiet
<1>9. CASE At("params.end") /\ Advance /\ UNCHANGED <<semaVars, external, status>>
           /\ Return([NoValue EXCEPT !.shape = tok])
  BY <1>9, <1>a, StepReturn, Likeness DEF At, Quiet
<1> QED BY <1>1, <1>2, <1>3, <1>4, <1>5, <1>6, <1>7, <1>8, <1>9 DEF DirectDeclaratorFuncSuffix

LEMMA ParseStmtKeeps ==
  ASSUME IInv, ParseStmt
  PROVE  IInv'
<1>0. /\ Top \in Frames /\ ret \in Values /\ Top.base \in Shapes /\ Top.rec \in Nat
      /\ Top.name \in Nat /\ tok \in Nat /\ ret.shape \in Shapes /\ ret.rec \in Nat
      /\ ret.name \in Nat
  BY LocalTypes
<1>a. /\ {"stmt"} \subseteq CalmLabels
      /\ Obj \in Shapes
      /\ NoValue \in Values
  BY <1>0 DEF CalmLabels, Labels, ScopeHeld, SkipHeld, SaveHeld, Outermost,
              NoValue, Values, Shapes, Obj, NoRecord
<1>1. CASE At("stmt") /\ Advance /\ UNCHANGED <<semaVars, external, status>>
           /\ Return(NoValue)
  BY <1>1, <1>a, StepReturn, Likeness DEF At, Quiet
<1>2. CASE \E s \in {"undefined"} : Stop(s)
  BY <1>2, Stops DEF Statuses, Diagnostics, Crashes
<1>3. ASSUME At("stmt"), UNCHANGED <<lexVars, semaVars, external, status>>,
             NEW l \in {"decl", "block", "for", "expr"}, TailCall(l, Obj)
      PROVE  IInv'
  BY <1>3, <1>a, StepTailCall DEF At, Quiet, Entries
<1> QED BY <1>1, <1>2, <1>3 DEF ParseStmt

LEMMA ParseExprStmtKeeps ==
  ASSUME IInv, ParseExprStmt
  PROVE  IInv'
<1>0. /\ Top \in Frames /\ ret \in Values /\ Top.base \in Shapes /\ Top.rec \in Nat
      /\ Top.name \in Nat /\ tok \in Nat /\ ret.shape \in Shapes /\ ret.rec \in Nat
      /\ ret.name \in Nat
  BY LocalTypes
<1>a. /\ {"expr", "expr.end"} \subseteq CalmLabels
      /\ Obj \in Shapes
      /\ NoValue \in Values
  BY <1>0 DEF CalmLabels, Labels, ScopeHeld, SkipHeld, SaveHeld, Outermost,
              NoValue, Values, Shapes, Obj, NoRecord
<1>1. CASE At("expr") /\ Primary("expr.end")
  <2>1. "expr.end" \in Labels /\ Alike("expr.end", Top.at)
    BY <1>1, <1>a, Likeness DEF At
  <2> QED BY <1>1, <2>1, PrimaryKeeps
<1>2. CASE WrongToken(";")
  BY <1>2, WrongTokenKeeps
<1>3. CASE At("expr.end") /\ Advance /\ UNCHANGED <<semaVars, external, status>>
           /\ Return(NoValue)
  BY <1>3, <1>a, StepReturn, Likeness DEF At, Quiet
<1> QED BY <1>1, <1>2, <1>3 DEF ParseExprStmt

LEMMA ParseBlockStmtKeeps ==
  ASSUME IInv, ParseBlockStmt
  PROVE  IInv'
<1>0. /\ Top \in Frames /\ ret \in Values /\ Top.base \in Shapes /\ Top.rec \in Nat
      /\ Top.name \in Nat /\ tok \in Nat /\ ret.shape \in Shapes /\ ret.rec \in Nat
      /\ ret.name \in Nat
  BY LocalTypes
<1>a. /\ {"block"} \subseteq CalmLabels
      /\ Obj \in Shapes
      /\ NoValue \in Values
  BY <1>0 DEF CalmLabels, Labels, ScopeHeld, SkipHeld, SaveHeld, Outermost,
              NoValue, Values, Shapes, Obj, NoRecord
<1>1. CASE /\ At("block") /\ Advance /\ envs' = EnterScope(envs) /\ Goto("block.loop")
           /\ UNCHANGED <<modes, records, external, status>>
  <2> DEFINE f == [Top EXCEPT !.at = "block.loop"]
  <2>1. f \in Frames /\ f.at \in ScopeHeld /\ SameHeights(f, Top)
    BY <1>0 DEF Frames, Labels, ScopeHeld, SameHeights
  <2>2. Continue(f) /\ Calm(Top.at)
    BY <1>1, <1>a, Likeness DEF At, Goto
  <2> HIDE DEF f
  <2> QED BY <1>1, <2>1, <2>2, StepEnter DEF SameHeights
<1>2. CASE \E s \in {"syntax"} : Stop(s)
  BY <1>2, Stops DEF Statuses, Diagnostics, Crashes
<1>3. CASE At("block.loop") /\ UNCHANGED <<lexVars, semaVars, external, status>> /\ Call("block.loop", "stmt", Obj)
  BY <1>3, <1>a, StepCall, Likeness DEF ScopeHeld, At, Quiet, Entries
<1>4. CASE /\ At("block.loop") /\ Advance /\ envs' = ExitScope(envs)
           /\ Return(NoValue) /\ UNCHANGED <<modes, records, external, status>>
  BY <1>4, StepLeaveScope DEF At, ScopeHeld
<1> QED BY <1>1, <1>2, <1>3, <1>4 DEF ParseBlockStmt

LEMMA ForTokenKeeps ==
  ASSUME IInv, Top.at \in ScopeHeld, NEW l \in ScopeHeld, NEW t, ForToken(t, l)
  PROVE  IInv'
<1>1. l \in Labels /\ Alike(l, Top.at)
  BY Likeness
<1>2. CASE WrongToken(t)
  BY <1>2, WrongTokenKeeps
<1>3. CASE Advance /\ Goto(l) /\ UNCHANGED <<semaVars, external, status>>
  BY <1>1, <1>3, StepGoto DEF Quiet
<1> QED BY <1>2, <1>3 DEF ForToken

LEMMA ParseForStmtKeeps ==
  ASSUME IInv, ParseForStmt
  PROVE  IInv'
<1>0. /\ Top \in Frames /\ ret \in Values /\ Top.base \in Shapes /\ Top.rec \in Nat
      /\ Top.name \in Nat /\ tok \in Nat /\ ret.shape \in Shapes /\ ret.rec \in Nat
      /\ ret.name \in Nat
  BY LocalTypes
<1>a. /\ {"for", "for.paren"} \subseteq CalmLabels
      /\ Obj \in Shapes
      /\ NoValue \in Values
  BY <1>0 DEF CalmLabels, Labels, ScopeHeld, SkipHeld, SaveHeld, Outermost,
              NoValue, Values, Shapes, Obj, NoRecord
<1>b. {"for.init", "for.cond", "for.semi", "for.inc", "for.close", "for.body", "for.exit"}
        \subseteq ScopeHeld
  BY DEF ScopeHeld
<1>1. CASE At("for") /\ Advance /\ UNCHANGED <<semaVars, external, status>> /\ Goto("for.paren")
  BY <1>1, <1>a, StepGoto, Likeness DEF At, Quiet
<1>2. CASE /\ At("for.paren") /\ Advance /\ envs' = EnterScope(envs) /\ Goto("for.init")
           /\ UNCHANGED <<modes, records, external, status>>
  <2> DEFINE f == [Top EXCEPT !.at = "for.init"]
  <2>1. f \in Frames /\ f.at \in ScopeHeld /\ SameHeights(f, Top)
    BY <1>0 DEF Frames, Labels, ScopeHeld, SameHeights
  <2>2. Continue(f) /\ Calm(Top.at)
    BY <1>2, <1>a, Likeness DEF At, Goto
  <2> HIDE DEF f
  <2> QED BY <1>2, <2>1, <2>2, StepEnter DEF SameHeights
<1>3. CASE \E s \in {"syntax", "undefined"} : Stop(s)
  BY <1>3, Stops DEF Statuses, Diagnostics, Crashes
<1>4. ASSUME NEW l \in ScopeHeld, NEW k \in ScopeHeld, NEW t, At(k), ForToken(t, l)
      PROVE  IInv'
  BY <1>4, ForTokenKeeps DEF At
<1>5. ASSUME NEW l \in ScopeHeld, NEW k \in ScopeHeld, At(k), Primary(l)
      PROVE  IInv'
  BY <1>5, PrimaryKeeps, Likeness DEF At
<1>6. ASSUME At("for.init"), UNCHANGED <<lexVars, semaVars, external, status>>,
             NEW l \in {"decl", "expr"}, Call("for.cond", l, Obj)
      PROVE  IInv'
  BY <1>6, <1>a, <1>b, StepCall, Likeness DEF At, Quiet, Entries
<1>7. CASE At("for.body") /\ UNCHANGED <<lexVars, semaVars, external, status>>
           /\ Call("for.exit", "stmt", Obj)
  BY <1>7, <1>a, <1>b, StepCall, Likeness DEF At, Quiet, Entries
<1>8. CASE /\ At("for.exit") /\ UNCHANGED lexVars /\ envs' = ExitScope(envs)
           /\ Return(NoValue) /\ UNCHANGED <<modes, records, external, status>>
  BY <1>8, StepLeaveScope DEF At, ScopeHeld
<1>9. CASE At("for.init")
  BY <1>3, <1>4, <1>6, <1>9, <1>b DEF ParseForStmt, At
<1>10. CASE At("for.cond") \/ At("for.inc") \/ At("for.semi") \/ At("for.close")
  BY <1>4, <1>5, <1>10, <1>b DEF ParseForStmt, At
<1>11. CASE At("for") \/ At("for.paren") \/ At("for.body") \/ At("for.exit")
  BY <1>1, <1>2, <1>3, <1>7, <1>8, <1>11 DEF ParseForStmt, At
<1> QED BY <1>9, <1>10, <1>11 DEF ParseForStmt


-----------------------------------------------------------------------------
(***************************************************************************)
(* The theorems.                                                           *)
(***************************************************************************)
LEMMA InitEstablishes ==
  ASSUME Init
  PROVE  IInv
<1> DEFINE f == stack[1]
<1>1. Len(stack) = 1 /\ Top = f /\ stack[Len(stack)] = f
  BY DEF Init, Top
<1>2. /\ f \in Frames /\ f.at = "program" /\ f.depth = 1 /\ f.mdepth = 1 /\ f.sdepth = 0
      /\ stack \in Seq(Frames)
  <2>1. stack = <<f>>
    BY DEF Init
  <2>2. f \in Frames /\ f.at = "program" /\ f.depth = 1 /\ f.mdepth = 1 /\ f.sdepth = 0
    BY DEF Init, Frames, Labels, Shapes, Obj, NoRecord
  <2> HIDE DEF f
  <2>3. <<f>> \in Seq(Frames)
    BY <2>2
  <2> QED BY <2>1, <2>2, <2>3
<1>3. "program" \notin ScopeHeld /\ "program" \notin SkipHeld /\ "program" \notin SaveHeld
  BY DEF ScopeHeld, SkipHeld, SaveHeld
<1> HIDE DEF f
<1>4. envs \in Seq(Envs) /\ Len(envs) = 1
  BY EmptyEnvTyped DEF Init, RootScope
<1>5. modes = <<"Normal">> /\ Len(modes) = 1 /\ saved = <<>> /\ Len(saved) = 0
  BY DEF Init
<1>6. Core(stack, envs, modes, saved)
  <2>1. \A i \in 1..Len(stack) : stack[i].at \in Outermost <=> i = 1
    BY <1>1, <1>2 DEF f, Outermost
  <2>2. High(f, envs, modes, saved)
    BY <1>2, <1>3, <1>4, <1>5 DEF High, ScopesOf, ModesOf, StatesOf, Held
  <2>3. \A i \in 1..Len(stack) : Remembers(stack[i], envs, saved)
    BY <1>1, <1>2, <1>3 DEF f, Remembers, Rewinding
  <2>4. Nested(stack) /\ \A i \in 1..Len(stack)-1 : Follows(stack[i], stack[i+1])
    BY <1>1 DEF Nested
  <2>5. stack # <<>>
    BY <1>1
  <2> QED BY <1>1, <1>2, <2>1, <2>2, <2>3, <2>4, <2>5 DEF Core
<1>7. Lexed
  <2>1. \E t \in Tokens : text = <<t>>
    BY AlphabetAssumption DEF Init, Tokens
  <2> QED BY <2>1 DEF Init, Lexed
<1>8. Scoped /\ ModesOK(modes)
  BY <1>4, <1>5 DEF Scoped, ModesOK, Modes
<1>9. Noted /\ ret \in Values
  BY DEF Init, Noted, Statuses, NoValue, Values, Shapes, Obj, NoRecord
<1> QED BY <1>6, <1>7, <1>8, <1>9 DEF IInv, Framed

LEMMA NextPreserves ==
  ASSUME IInv, [Next]_vars
  PROVE  IInv'
<1>1. CASE Step
  BY <1>1, ParseProgramKeeps, IsFunctionDeclKeeps, ParseFunctionDeclKeeps, ParseDeclareStmtKeeps,
     ParseDeclSpecKeeps, ParseStructOrUnionSpecKeeps, DeclaratorKeeps, ParseInitializerKeeps,
     DirectDeclaratorSuffixKeeps, DirectDeclaratorFuncSuffixKeeps, ParseStmtKeeps,
     ParseExprStmtKeeps, ParseBlockStmtKeeps, ParseForStmtKeeps DEF Step
<1>2. CASE UNCHANGED vars
  BY <1>2 DEF vars, IInv, Lexed, Scoped, Noted, Framed
<1> QED BY <1>1, <1>2 DEF Next, Exited

THEOREM Invariance == Spec => []IInv
<1>1. Init => IInv
  BY InitEstablishes
<1>2. IInv /\ [Next]_vars => IInv'
  BY NextPreserves
<1> QED BY <1>1, <1>2, PTL DEF Spec

\* Every variable keeps its type; in particular the parser never pops the last scope
\* or the last mode, never reads outside the text, and restores no state that was
\* not saved.
THEOREM TypeCorrectness == Spec => []TypeOK
<1>1. IInv => TypeOK
  BY InvImplies
<1> QED BY <1>1, Invariance, PTL

\* Every procedure of parser.cc enters, sets and saves exactly as often as it exits,
\* unsets and restores, on every path through it, for every text.
THEOREM StacksAreBalanced == Spec => []StackDiscipline
<1>1. IInv => StackDiscipline
  BY InvImplies
<1> QED BY <1>1, Invariance, PTL

\* A reading in Skip mode (IsFunctionDecl, the first pass over a parenthesised
\* declarator) leaves every scope that was open when it began as it was.
THEOREM SpeculationIsUndone == Spec => []SpeculationLeavesNoTrace
<1>1. IInv => SpeculationLeavesNoTrace
  BY InvImplies
<1> QED BY <1>1, Invariance, PTL

\* Parser and lexer stand at the same token after every rewind.
THEOREM TokenIsTheLexers == Spec => []TokenFollowsLexer
<1>1. IInv => TokenFollowsLexer
  BY InvImplies
<1> QED BY <1>1, Invariance, PTL

-----------------------------------------------------------------------------
(***************************************************************************)
(* The descent ends.  First the two recursive functions of the measure:    *)
(* what is built by iteration exists, by induction on the smallest number  *)
(* up to which it would not.                                               *)
(***************************************************************************)
UpTo(f, m, c, h) ==
  /\ f \in [0..m -> Nat] /\ f[0] = c
  /\ \A n \in 0..m : n # m => f[n + 1] = h[n + 1][f[n]]
Agree(f, g, m) == \A n \in 0..m : f[n] = g[n]

LEMMA IteratedOnce ==
  ASSUME NEW c \in Nat, NEW h \in [Nat -> [Nat -> Nat]], NEW m \in Nat, NEW k \in Nat,
         NEW f, NEW g, UpTo(f, m, c, h), UpTo(g, k, c, h), m <= k
  PROVE  Agree(f, g, m)
<1> DEFINE T == {n \in 0..m : f[n] # g[n]}
<1> SUFFICES ASSUME T # {} PROVE FALSE
  BY DEF Agree
<1>1. T \in SUBSET Nat
  OBVIOUS
<1>2. PICK x \in T : \A y \in T : x <= y
  <2> HIDE DEF T
  <2> QED BY <1>1, Least
<1>3. x \in 0..m /\ f[x] # g[x]
  OBVIOUS
<1>4. x # 0
  BY <1>3 DEF UpTo
<1>5. x - 1 \in 0..m /\ x - 1 # m /\ x - 1 \in 0..k /\ x - 1 # k /\ (x - 1) + 1 = x /\ ~(x <= x - 1)
  <2>1. x \in Nat /\ 1 <= x /\ x <= m /\ x <= k
    BY <1>3, <1>4
  <2> QED BY <2>1
<1>6. f[x - 1] = g[x - 1]
  BY <1>2, <1>5
<1>7. f[x] = h[x][f[x - 1]]
  BY <1>5 DEF UpTo
<1>8. g[x] = h[x][g[x - 1]]
  BY <1>5 DEF UpTo
<1> QED BY <1>3, <1>6, <1>7, <1>8

LEMMA IteratedFar ==
  ASSUME NEW c \in Nat, NEW h \in [Nat -> [Nat -> Nat]]
  PROVE  \A m \in Nat : \E f : UpTo(f, m, c, h)
<1> DEFINE T == {m \in Nat : ~ \E f : UpTo(f, m, c, h)}
<1> SUFFICES ASSUME T # {} PROVE FALSE
  OBVIOUS
<1>1. T \in SUBSET Nat
  OBVIOUS
<1>2. PICK x \in T : \A y \in T : x <= y
  <2> HIDE DEF T
  <2> QED BY <1>1, Least
<1>3. x \in Nat /\ ~ \E f : UpTo(f, x, c, h)
  OBVIOUS
<1>4. x # 0
  <2>1. UpTo([n \in 0..0 |-> c], 0, c, h)
    BY DEF UpTo
  <2> QED BY <1>3, <2>1
<1>5. x - 1 \in Nat /\ ~(x <= x - 1)
  BY <1>3, <1>4
<1>6. PICK g : UpTo(g, x - 1, c, h)
  BY <1>2, <1>5
<1> DEFINE f == [n \in 0..x |-> IF n = x THEN h[x][g[x - 1]] ELSE g[n]]
<1>7. g \in [0..(x - 1) -> Nat] /\ x - 1 \in 0..(x - 1)
  <2>1. g \in [0..(x - 1) -> Nat]
    BY <1>6 DEF UpTo
  <2>2. x - 1 \in 0..(x - 1)
    BY <1>5
  <2> QED BY <2>1, <2>2
<1>8. h[x][g[x - 1]] \in Nat
  BY <1>3, <1>7
<1>9. \A n \in 0..x : n # x => n \in 0..(x - 1)
  BY <1>3
<1>10. f \in [0..x -> Nat]
  BY <1>7, <1>8, <1>9
<1>11. f[0] = c
  BY <1>3, <1>4, <1>6 DEF UpTo
<1>12. ASSUME NEW n \in 0..x, n # x
       PROVE  f[n + 1] = h[n + 1][f[n]]
  <2>1. f[n] = g[n] /\ n + 1 \in 0..x /\ n \in 0..(x - 1)
    BY <1>3, <1>12
  <2>2. CASE n = x - 1
    <3>1. n + 1 = x
      BY <1>3, <2>2
    <3>2. f[x] = h[x][g[x - 1]]
      BY <1>3
    <3> QED BY <2>1, <2>2, <3>1, <3>2
  <2>3. CASE n # x - 1
    <3>1. n + 1 # x
      BY <1>3, <2>3
    <3>2. f[n + 1] = g[n + 1]
      BY <2>1, <3>1
    <3>3. g[n + 1] = h[n + 1][g[n]]
      BY <1>6, <2>1, <2>3 DEF UpTo
    <3> QED BY <2>1, <3>2, <3>3
  <2> QED BY <2>2, <2>3
<1>13. UpTo(f, x, c, h)
  <2> HIDE DEF f
  <2> QED BY <1>10, <1>11, <1>12 DEF UpTo
<1> QED BY <1>3, <1>13

LEMMA Iterated ==
  ASSUME NEW c \in Nat, NEW h \in [Nat -> [Nat -> Nat]]
  PROVE  \E f \in [Nat -> Nat] : f[0] = c /\ \A n \in Nat : f[n + 1] = h[n + 1][f[n]]
<1> DEFINE far == [m \in Nat |-> CHOOSE f : UpTo(f, m, c, h)]
           g == [n \in Nat |-> far[n][n]]
<1>1. ASSUME NEW m \in Nat
      PROVE  UpTo(far[m], m, c, h)
  BY IteratedFar
<1> HIDE DEF far
<1>a. ASSUME NEW m \in Nat, NEW k \in Nat, m <= k
      PROVE  \A i \in 0..m : far[m][i] = far[k][i]
  <2>1. UpTo(far[m], m, c, h) /\ UpTo(far[k], k, c, h)
    BY <1>1
  <2>2. Agree(far[m], far[k], m)
    BY <1>a, <2>1, IteratedOnce
  <2> QED BY <2>2 DEF Agree
<1>2. \A m \in Nat : far[m][m] \in Nat
  <2> TAKE m \in Nat
  <2>1. UpTo(far[m], m, c, h)
    BY <1>1
  <2>2. m \in 0..m
    OBVIOUS
  <2> QED BY <2>1, <2>2 DEF UpTo
<1>3. g \in [Nat -> Nat] /\ g[0] = c
  BY <1>1, <1>2 DEF UpTo
<1>4. ASSUME NEW n \in Nat
      PROVE  g[n + 1] = h[n + 1][g[n]]
  <2>1. n + 1 \in Nat /\ n <= n + 1 /\ n \in 0..n /\ n \in 0..(n + 1) /\ n # n + 1
    OBVIOUS
  <2>2. far[n][n] = far[n + 1][n]
    BY <1>a, <2>1
  <2>3. far[n + 1][n + 1] = h[n + 1][far[n + 1][n]]
    BY <1>1, <2>1 DEF UpTo
  <2>4. g[n + 1] = far[n + 1][n + 1] /\ g[n] = far[n][n]
    BY <2>1
  <2> QED BY <2>2, <2>3, <2>4
<1> HIDE DEF g
<1> QED BY <1>3, <1>4

LEMMA WorkRecurs ==
  /\ Work \in [Nat -> Nat] /\ Work[0] = 32
  /\ \A n \in Nat : Work[n + 1] = 4 * Work[n]
<1> DEFINE h == [n \in Nat |-> [x \in Nat |-> 4 * x]]
           body(f) == [n \in Nat |-> IF n = 0 THEN 32 ELSE 4 * f[n - 1]]
<1>1. h \in [Nat -> [Nat -> Nat]] /\ \A n, x \in Nat : h[n][x] = 4 * x
  OBVIOUS
<1> HIDE DEF h
<1>2. PICK f \in [Nat -> Nat] : f[0] = 32 /\ \A n \in Nat : f[n + 1] = h[n + 1][f[n]]
  <2>1. 32 \in Nat /\ h \in [Nat -> [Nat -> Nat]]
    BY <1>1
  <2> QED BY <2>1, Iterated
<1>3. \A n \in Nat : n # 0 => f[n] = 4 * f[n - 1]
  <2> TAKE n \in Nat
  <2> HAVE n # 0
  <2>1. n - 1 \in Nat /\ (n - 1) + 1 = n
    OBVIOUS
  <2>2. f[(n - 1) + 1] = h[(n - 1) + 1][f[n - 1]] /\ f[n - 1] \in Nat
    BY <1>2, <2>1
  <2> QED BY <1>1, <2>1, <2>2
<1>4. f = body(f)
  BY <1>2, <1>3
<1>5. Work = CHOOSE w : w = body(w)
  BY DEF Work
<1>6. Work = body(Work)
  <2> HIDE DEF body
  <2> QED BY <1>4, <1>5
<1>7. \A n \in Nat : Work[n] = IF n = 0 THEN 32 ELSE 4 * Work[n - 1]
  BY <1>6
<1>8. Work = f
  <2> DEFINE T == {n \in Nat : Work[n] # f[n]}
  <2>1. T = {}
    <3> SUFFICES ASSUME T # {} PROVE FALSE
      OBVIOUS
    <3>1. PICK x \in T : \A y \in T : x <= y
      <4>1. T \in SUBSET Nat
        OBVIOUS
      <4> HIDE DEF T
      <4> QED BY <4>1, Least
    <3>2. x \in Nat /\ Work[x] # f[x]
      OBVIOUS
    <3>3. x # 0
      BY <1>2, <1>7, <3>2
    <3>4. x - 1 \in Nat /\ ~(x <= x - 1)
      BY <3>2, <3>3
    <3>5. Work[x - 1] = f[x - 1]
      BY <3>1, <3>4
    <3> QED BY <1>3, <1>7, <3>2, <3>3, <3>5
  <2>2. \A n \in Nat : Work[n] = f[n]
    BY <2>1
  <2>3. DOMAIN Work = Nat /\ Work = [n \in Nat |-> Work[n]]
    <3>1. body(Work) = [n \in DOMAIN body(Work) |-> body(Work)[n]] /\ DOMAIN body(Work) = Nat
      OBVIOUS
    <3> HIDE DEF body
    <3> QED BY <1>6, <3>1
  <2>4. f = [n \in Nat |-> f[n]]
    BY <1>2
  <2> QED BY <2>2, <2>3, <2>4
<1>9. \A n \in Nat : f[n + 1] = 4 * f[n]
  <2> TAKE n \in Nat
  <2>1. n + 1 \in Nat /\ n + 1 # 0 /\ (n + 1) - 1 = n
    OBVIOUS
  <2> QED BY <1>3, <2>1
<1> HIDE DEF body
<1> QED BY <1>2, <1>8, <1>9

LEMMA WorkIsThere == \A n \in Nat : Work[n] \in Nat /\ Work[n] >= 32
<1> DEFINE T == {n \in Nat : ~(Work[n] >= 32)}
<1>1. T = {}
  <2> SUFFICES ASSUME T # {} PROVE FALSE
    OBVIOUS
  <2>1. PICK x \in T : \A y \in T : x <= y
    <3>1. T \in SUBSET Nat
      OBVIOUS
    <3> HIDE DEF T
    <3> QED BY <3>1, Least
  <2>2. x \in Nat /\ ~(Work[x] >= 32)
    OBVIOUS
  <2>3. x # 0
    BY <2>2, WorkRecurs
  <2>4. x - 1 \in Nat /\ ~(x <= x - 1) /\ (x - 1) + 1 = x
    BY <2>2, <2>3
  <2>5. Work[x - 1] >= 32
    BY <2>1, <2>4
  <2>6. Work[x - 1] \in Nat /\ Work[x] = 4 * Work[x - 1]
    BY <2>4, WorkRecurs
  <2> QED BY <2>2, <2>5, <2>6
<1> QED BY <1>1, WorkRecurs

\* Where a lexer state can be saved: the reading from there is one of a text.
Marks == 1..(MaxTokens + 2)
Debt(x) == Work[End - x - 1]

LEMMA DebtIsNat == \A x \in Marks : Debt(x) \in Nat
<1> TAKE x \in Marks
<1>1. End - x - 1 \in Nat
  BY MaxTokensAssumption DEF End, Marks
<1> QED BY <1>1, WorkIsThere DEF Debt

SumOf(f, s) ==
  /\ f \in [0..Len(s) -> Nat] /\ f[0] = 0
  /\ \A k \in 1..Len(s) : f[k] = f[k - 1] + Debt(s[k])

LEMMA OwedSums ==
  ASSUME NEW s \in Seq(Marks)
  PROVE  \E f : SumOf(f, s) /\ Owed(s) = f[Len(s)]
<1> DEFINE h == [n \in Nat |-> [x \in Nat |-> IF n \in 1..Len(s) THEN x + Debt(s[n]) ELSE x]]
           body(f) == [k \in 0..Len(s) |-> IF k = 0 THEN 0 ELSE f[k - 1] + Work[End - s[k] - 1]]
           total == CHOOSE f : f = body(f)
<1>0. Len(s) \in Nat /\ \A n \in 1..Len(s) : s[n] \in Marks /\ Debt(s[n]) \in Nat
  BY DebtIsNat
<1>1. /\ h \in [Nat -> [Nat -> Nat]]
      /\ \A n \in 1..Len(s) : \A x \in Nat : h[n][x] = x + Debt(s[n])
  BY <1>0
<1> HIDE DEF h
<1>2. PICK f \in [Nat -> Nat] : f[0] = 0 /\ \A n \in Nat : f[n + 1] = h[n + 1][f[n]]
  <2>1. 0 \in Nat
    OBVIOUS
  <2> QED BY <1>1, <2>1, Iterated
<1> DEFINE g == [k \in 0..Len(s) |-> f[k]]
<1>3. \A k \in 1..Len(s) : f[k] = f[k - 1] + Debt(s[k])
  <2> TAKE k \in 1..Len(s)
  <2>1. k - 1 \in Nat /\ (k - 1) + 1 = k
    BY <1>0
  <2>2. f[(k - 1) + 1] = h[(k - 1) + 1][f[k - 1]] /\ f[k - 1] \in Nat
    BY <1>2, <2>1
  <2> QED BY <1>1, <2>1, <2>2
<1>4. SumOf(g, s)
  <2>1. g \in [0..Len(s) -> Nat] /\ g[0] = 0
    BY <1>0, <1>2
  <2>2. \A k \in 1..Len(s) : g[k] = f[k] /\ g[k - 1] = f[k - 1]
    BY <1>0
  <2> HIDE DEF g
  <2> QED BY <1>3, <2>1, <2>2 DEF SumOf
<1>5. \A q : SumOf(q, s) => q = body(q)
  <2> TAKE q
  <2> HAVE SumOf(q, s)
  <2>1. q \in [0..Len(s) -> Nat]
    BY DEF SumOf
  <2>2. \A k \in 0..Len(s) : q[k] = body(q)[k]
    BY <1>0 DEF SumOf, Debt
  <2>3. body(q) = [k \in 0..Len(s) |-> body(q)[k]]
    OBVIOUS
  <2> HIDE DEF body
  <2> QED BY <2>1, <2>2, <2>3
<1>6. total = body(total)
  <2> HIDE DEF body, g
  <2> QED BY <1>4, <1>5
<1>7. SumOf(total, s)
  <2>1. /\ DOMAIN total = 0..Len(s) /\ total[0] = 0
        /\ \A k \in 1..Len(s) : total[k] = total[k - 1] + Debt(s[k])
    <3> HIDE DEF total
    <3>1. /\ DOMAIN body(total) = 0..Len(s) /\ body(total)[0] = 0
          /\ \A k \in 1..Len(s) : body(total)[k] = total[k - 1] + Debt(s[k])
      BY <1>0 DEF Debt
    <3> HIDE DEF body
    <3> QED BY <1>6, <3>1
  <2>2. \A k \in 0..Len(s) : total[k] = g[k]
    <3> DEFINE T == {k \in 0..Len(s) : total[k] # g[k]}
    <3> HIDE DEF total, g
    <3> SUFFICES ASSUME T # {} PROVE FALSE
      OBVIOUS
    <3>1. T \in SUBSET Nat
      BY <1>0
    <3>2. PICK x \in T : \A y \in T : x <= y
      <4> HIDE DEF T
      <4> QED BY <3>1, Least
    <3>3. x \in 0..Len(s) /\ total[x] # g[x]
      OBVIOUS
    <3>4. x # 0
      BY <1>4, <2>1, <3>3 DEF SumOf
    <3>5. x - 1 \in 0..Len(s) /\ ~(x <= x - 1) /\ x \in 1..Len(s)
      BY <1>0, <3>3, <3>4
    <3>6. total[x - 1] = g[x - 1]
      BY <3>2, <3>5
    <3> QED BY <1>4, <2>1, <3>3, <3>5, <3>6 DEF SumOf
  <2>3. total = [k \in 0..Len(s) |-> total[k]]
    <3>1. body(total) = [k \in DOMAIN body(total) |-> body(total)[k]] /\ DOMAIN body(total) = 0..Len(s)
      OBVIOUS
    <3> HIDE DEF body, total
    <3> QED BY <1>6, <3>1
  <2>4. g = [k \in 0..Len(s) |-> g[k]]
    OBVIOUS
  <2>5. total = g
    <3> HIDE DEF total, g
    <3> QED BY <2>2, <2>3, <2>4
  <2> QED BY <1>4, <2>5
<1>8. Owed(s) = total[Len(s)]
  BY DEF Owed
<1> HIDE DEF total
<1> QED BY <1>7, <1>8

LEMMA SumsAgree ==
  ASSUME NEW s \in Seq(Marks), NEW t \in Seq(Marks), Len(s) <= Len(t),
         \A k \in 1..Len(s) : t[k] = s[k],
         NEW f, NEW g, SumOf(f, s), SumOf(g, t)
  PROVE  Agree(f, g, Len(s))
<1> DEFINE T == {k \in 0..Len(s) : f[k] # g[k]}
<1> SUFFICES ASSUME T # {} PROVE FALSE
  BY DEF Agree
<1>0. Len(s) \in Nat /\ Len(t) \in Nat
  OBVIOUS
<1>1. T \in SUBSET Nat
  BY <1>0
<1>2. PICK x \in T : \A y \in T : x <= y
  <2> HIDE DEF T
  <2> QED BY <1>1, Least
<1>3. x \in 0..Len(s) /\ f[x] # g[x]
  OBVIOUS
<1>4. x # 0
  BY <1>3 DEF SumOf
<1>5. x - 1 \in 0..Len(s) /\ ~(x <= x - 1) /\ x \in 1..Len(s) /\ x \in 1..Len(t)
  BY <1>0, <1>3, <1>4
<1>6. f[x - 1] = g[x - 1]
  BY <1>2, <1>5
<1>7. f[x] = f[x - 1] + Debt(s[x])
  BY <1>5 DEF SumOf
<1>8. g[x] = g[x - 1] + Debt(t[x])
  BY <1>5 DEF SumOf
<1>9. s[x] = t[x]
  BY <1>5
<1> QED BY <1>3, <1>6, <1>7, <1>8, <1>9

LEMMA OwedIsNat ==
  ASSUME NEW s \in Seq(Marks)
  PROVE  Owed(s) \in Nat
<1>1. PICK f : SumOf(f, s) /\ Owed(s) = f[Len(s)]
  BY OwedSums
<1>2. Len(s) \in 0..Len(s)
  OBVIOUS
<1> QED BY <1>1, <1>2 DEF SumOf

\* A state saved owes what the reading from it on takes.
LEMMA OwedMore ==
  ASSUME NEW s \in Seq(Marks), NEW x \in Marks
  PROVE  Owed(Append(s, x)) = Owed(s) + Debt(x)
<1> DEFINE t == Append(s, x)
<1>1. /\ t \in Seq(Marks) /\ Len(t) = Len(s) + 1 /\ t[Len(s) + 1] = x /\ Len(s) \in Nat
      /\ \A k \in 1..Len(s) : t[k] = s[k]
  OBVIOUS
<1> HIDE DEF t
<1>2. PICK f : SumOf(f, s) /\ Owed(s) = f[Len(s)]
  BY OwedSums
<1>3. PICK g : SumOf(g, t) /\ Owed(t) = g[Len(t)]
  BY <1>1, OwedSums
<1>4. Agree(f, g, Len(s))
  <2>1. Len(s) <= Len(t)
    BY <1>1
  <2> QED BY <1>1, <1>2, <1>3, <2>1, SumsAgree
<1>5. f[Len(s)] = g[Len(s)]
  <2>1. Len(s) \in 0..Len(s)
    BY <1>1
  <2> QED BY <1>4, <2>1 DEF Agree
<1>6. g[Len(t)] = g[Len(s)] + Debt(x)
  <2>1. Len(t) \in 1..Len(t) /\ Len(t) - 1 = Len(s)
    BY <1>1
  <2> QED BY <1>1, <1>3, <2>1 DEF SumOf
<1> QED BY <1>2, <1>3, <1>5, <1>6 DEF t

\* A state restored is owed for no more.
LEMMA OwedLess ==
  ASSUME NEW s \in Seq(Marks), s # <<>>
  PROVE  /\ Owed(s) = Owed(Front(s)) + Debt(Last(s))
         /\ Front(s) \in Seq(Marks) /\ Last(s) \in Marks
<1>1. Len(s) \in Nat \ {0}
  OBVIOUS
<1>2. /\ Front(s) \in Seq(Marks) /\ Len(Front(s)) = Len(s) - 1
      /\ \A i \in 1..Len(s)-1 : Front(s)[i] = s[i]
  BY <1>1, FrontFacts
<1>3. Last(s) = s[Len(s)] /\ Last(s) \in Marks
  BY <1>1 DEF Last
<1>4. s = Append(Front(s), Last(s))
  <2> DEFINE t == Append(Front(s), Last(s))
  <2>1. /\ t \in Seq(Marks) /\ Len(t) = Len(s)
        /\ \A i \in 1..Len(s) : t[i] = s[i]
    <3>1. t \in Seq(Marks) /\ Len(t) = Len(s)
      BY <1>1, <1>2, <1>3
    <3>2. ASSUME NEW i \in 1..Len(s)
          PROVE  t[i] = s[i]
      <4>1. i \in 1..Len(s)-1 \/ i = Len(s)
        BY <1>1
      <4> QED BY <1>1, <1>2, <1>3, <4>1
    <3> QED BY <3>1, <3>2
  <2> HIDE DEF t
  <2>2. s = t
    BY <2>1, SeqEqual
  <2> QED BY <2>2 DEF t
<1> QED BY <1>2, <1>3, <1>4, OwedMore

-----------------------------------------------------------------------------
(***************************************************************************)
(* What the measure needs beside the invariant: who can have called whom,  *)
(* and that the text never grows behind its end.                           *)
(***************************************************************************)
\* The calls from which a procedure is reached, by the label it has come to.
Callers(l) ==
  CASE l \in {"isfun", "isfun.spec", "isfun.decl"} -> {"verdict"}
    [] l \in {"fun", "fun.spec", "fun.decl", "fun.rest", "fun.body"} -> {"program"}
    [] l \in {"decl", "decl.spec", "decl.next", "decl.typedef", "decl.node", "decl.more"} ->
         {"program", "struct.member", "block.loop", "for.cond", "for.exit"}
    [] l \in {"spec", "spec.loop", "spec.struct"} ->
         {"isfun.spec", "fun.spec", "decl.spec", "param.spec"}
    [] l \in {"struct", "struct.tag", "struct.body", "struct.members", "struct.member"} ->
         {"spec.struct"}
    [] l \in {"dtor", "dtor.skipped", "dtor.typed", "dtor.real", "dtor.tail", "dtor.ident",
              "dtor.init", "dtor.value", "dtor.more"} ->
         {"isfun.decl", "fun.decl", "decl.typedef", "decl.node", "param.decl",
          "dtor.skipped", "dtor.real"}
    [] l \in {"suffix", "suffix.array", "params", "param", "param.spec", "param.decl",
              "params.end"} ->
         {"dtor.typed", "dtor.tail", "dtor.ident"}
    [] l \in {"stmt", "for", "for.paren", "for.init", "for.cond", "for.semi", "for.inc",
              "for.close", "for.body", "for.exit"} -> {"block.loop", "for.exit"}
    [] l \in {"block", "block.loop"} -> {"fun.body", "block.loop", "for.exit"}
    [] l \in {"expr", "expr.end"} -> {"block.loop", "for.cond", "for.exit"}
    [] OTHER -> {}

\* Entered only in front of a token, which they read unseen.
Unseen == {"isfun", "struct", "for"}

\* The text ends with its first eof, which is never passed.
EndsOnce(t) ==
  /\ Len(t) <= MaxTokens + 2
  /\ \A i \in 1..Len(t) : i > MaxTokens /\ i > 1 => t[i] = "eof"

Reachable(stk) == \A i \in 1..Len(stk)-1 : stk[i].at \in Callers(stk[i + 1].at)

DInv ==
  /\ EndsOnce(text)
  /\ \A k \in 1..Len(saved) : text[saved[k]] # "eof"
  /\ Top.at \in Unseen => Tok # "eof"
  /\ Reachable(stack)

LEMMA RankBounds == \A l : Rank(l) \in 0..10
BY DEF Rank

\* A frame that IsFunctionDecl has in its reading remembers a mark.
LEMMA MarksSaved ==
  ASSUME IInv, DInv
  PROVE  /\ saved \in Seq(Marks) /\ cur \in Marks
         /\ \A i \in 1..Len(stack) : stack[i].at \in Rewinding => stack[i].begin \in Marks
<1>1. Len(text) \in Nat /\ Len(text) <= MaxTokens + 2 /\ cur \in 1..Len(text)
  BY DEF IInv, Lexed, DInv, EndsOnce
<1>2. 1..Len(text) \subseteq Marks
  BY <1>1, MaxTokensAssumption DEF Marks
<1>3. saved \in Seq(Nat) /\ \A k \in 1..Len(saved) : saved[k] \in Marks
  BY <1>2 DEF IInv, Lexed
<1>4. saved \in Seq(Marks)
  BY <1>3
<1>5. ASSUME NEW i \in 1..Len(stack), stack[i].at \in Rewinding
      PROVE  stack[i].begin \in Marks
  <2>1. /\ Core(stack, envs, modes, saved) /\ Len(stack) \in Nat \ {0}
        /\ Top \in Frames /\ stack[i] \in Frames /\ High(Top, envs, modes, saved)
    BY TopFrame DEF IInv, Framed, Core
  <2>2. stack[i].sdepth \in Nat /\ stack[i].at \in SaveHeld
    BY <1>5, <2>1, Heights DEF Rewinding, SaveHeld
  <2>3. stack[i].sdepth + 1 <= Len(saved)
    <3>1. CASE i = Len(stack)
      BY <2>1, <2>2, <3>1 DEF Top, High, StatesOf, Held
    <3>2. CASE i # Len(stack)
      <4>1. i \in 1..Len(stack)-1
        BY <2>1, <3>2
      <4>2. stack[i].sdepth + 1 <= Top.sdepth
        BY <2>1, <2>2, <4>1, Under DEF Top
      <4>3. Top.sdepth <= Len(saved) /\ Top.sdepth \in Nat
        BY <2>1, Heights DEF High
      <4> QED BY <1>3, <2>2, <4>2, <4>3
    <3> QED BY <3>1, <3>2
  <2>4. saved[stack[i].sdepth + 1] = stack[i].begin
    BY <1>5, <2>1 DEF Core, Remembers
  <2>5. stack[i].sdepth + 1 \in 1..Len(saved)
    BY <1>3, <2>2, <2>3
  <2> QED BY <1>3, <2>4, <2>5
<1> QED BY <1>1, <1>2, <1>4, <1>5

\* The parts of the measure are numbers.
Counted ==
  /\ cur \in Marks /\ Len(stack) \in Nat \ {0} /\ saved \in Seq(Marks)
  /\ Ahead \in Nat /\ Ahead >= 32 /\ Owed(saved) \in Nat /\ Verdict \in Nat

LEMMA CountedAlways == IInv /\ DInv => Counted
<1> SUFFICES ASSUME IInv, DInv PROVE Counted
  OBVIOUS
<1>1. \A x \in Marks : End - x \in Nat /\ Work[End - x] \in Nat /\ Work[End - x] >= 32
  <2> TAKE x \in Marks
  <2>1. End - x \in Nat
    BY MaxTokensAssumption DEF End, Marks
  <2> QED BY <2>1, WorkIsThere
<1>2. cur \in Marks /\ saved \in Seq(Marks) /\ Len(stack) \in Nat \ {0}
  BY MarksSaved, TopFrame
<1>3. Ahead \in Nat /\ Ahead >= 32
  BY <1>1, <1>2 DEF Ahead
<1>4. Verdict \in Nat
  <2>1. CASE Len(stack) >= 2 /\ stack[2].at \in Rewinding
    <3>1. stack[2].begin \in Marks
      BY <1>2, <2>1, MarksSaved
    <3> QED BY <1>1, <2>1, <3>1 DEF Verdict, Rewinding
  <2>2. CASE ~(Len(stack) >= 2 /\ stack[2].at \in Rewinding)
    BY <2>2 DEF Verdict, Rewinding
  <2> QED BY <2>1, <2>2
<1> QED BY <1>2, <1>3, <1>4, OwedIsNat DEF Counted

LEMMA CountedNext ==
  ASSUME IInv', DInv'
  PROVE  Counted'
BY CountedAlways, PTL

Less == Remaining' \in Nat /\ Remaining' < Remaining
Descends == DInv' /\ Less

\* The process exits.
LEMMA SomeLeft ==
  ASSUME NEW a \in Nat, NEW o \in Nat, NEW v \in Nat, NEW r \in 0..10, NEW k \in Nat \ {0}
  PROVE  a + o + v + 2 * r + k \in Nat /\ a + o + v + 2 * r + k > 0
OBVIOUS

LEMMA StopDescends ==
  ASSUME IInv, DInv, status = "run", status' # "run", UNCHANGED <<lexVars, stack>>
  PROVE  Descends
<1>1. DInv'
  BY DEF DInv, lexVars, Top, Tok, EndsOnce, Reachable
<1>2. Counted /\ Rank(Top.at) \in 0..10
  BY CountedAlways, RankBounds
<1>3. Remaining \in Nat /\ Remaining > 0 /\ Remaining' = 0
  <2>1. Remaining = Ahead + Owed(saved) + Verdict + 2 * Rank(Top.at) + Len(stack)
    BY DEF Remaining
  <2>2. /\ Ahead \in Nat /\ Owed(saved) \in Nat /\ Verdict \in Nat /\ Len(stack) \in Nat \ {0}
    BY <1>2 DEF Counted
  <2> QED BY <1>2, <2>1, <2>2, SomeLeft DEF Remaining
<1> QED BY <1>1, <1>3 DEF Descends, Less

LEMMA FewerTokens ==
  ASSUME NEW w \in Nat, NEW o \in Nat, NEW v \in Nat, NEW r \in 0..10, NEW k \in Nat,
         NEW a \in Nat, NEW b \in Nat, NEW q \in 0..10, NEW j \in Nat,
         w >= 32, a >= 4 * w, b <= 3 * w, j <= k + 1
  PROVE  /\ b + o + v + 2 * q + j \in Nat
         /\ b + o + v + 2 * q + j < a + o + v + 2 * r + k
OBVIOUS

\* A token is consumed.
LEMMA TokenDescends ==
  ASSUME IInv, IInv', DInv, DInv', status = "run", status' = "run",
         cur' = cur + 1, saved' = saved, Verdict' = Verdict, Len(stack') <= Len(stack) + 1
  PROVE  Less
<1>1. Counted /\ Counted'
  BY CountedAlways, CountedNext
<1> DEFINE w == Work[End - cur - 1]
<1>2. /\ End - cur - 1 \in Nat /\ End - cur = (End - cur - 1) + 1 /\ End - cur' = End - cur - 1
  <2>1. cur \in Marks
    BY <1>1 DEF Counted
  <2> QED BY <2>1, MaxTokensAssumption DEF End, Marks
<1>3. w \in Nat /\ w >= 32 /\ Work[End - cur] = 4 * w /\ Work[End - cur'] = w
  BY <1>2, WorkIsThere, WorkRecurs
<1> HIDE DEF w
<1>4. Ahead >= 4 * w
  BY <1>3 DEF Ahead
<1>5. Ahead' <= 3 * w
  BY <1>3 DEF Ahead
<1>6. Remaining = Ahead + Owed(saved) + Verdict + 2 * Rank(Top.at) + Len(stack)
  BY DEF Remaining
<1>7. Remaining' = Ahead' + Owed(saved) + Verdict + 2 * Rank(Top.at)' + Len(stack')
  BY DEF Remaining
<1>8. Rank(Top.at) \in 0..10 /\ Rank(Top.at)' \in 0..10
  BY RankBounds
<1>9. /\ Ahead \in Nat /\ Ahead' \in Nat /\ Owed(saved) \in Nat /\ Verdict \in Nat
      /\ Len(stack) \in Nat /\ Len(stack') \in Nat
  BY <1>1 DEF Counted
<1> QED BY <1>3, <1>4, <1>5, <1>6, <1>7, <1>8, <1>9, FewerTokens DEF Less

LEMMA LowerRank ==
  ASSUME NEW o \in Nat, NEW v \in Nat, NEW r \in 0..10, NEW k \in Nat,
         NEW a \in Nat, NEW b \in Nat, NEW q \in 0..10, NEW j \in Nat,
         b <= a, 2 * q + j < 2 * r + k
  PROVE  /\ b + o + v + 2 * q + j \in Nat
         /\ b + o + v + 2 * q + j < a + o + v + 2 * r + k
OBVIOUS

\* None is: the procedure goes on at a lower rank.
LEMMA RankDescends ==
  ASSUME IInv, IInv', DInv, DInv', status = "run", status' = "run",
         UNCHANGED lexVars, Verdict' = Verdict,
         Top'.at \in ReadTwice => Top.at \in ReadTwice,
         2 * Rank(Top'.at) + Len(stack') < 2 * Rank(Top.at) + Len(stack)
  PROVE  Less
<1>1. Counted /\ Counted'
  BY CountedAlways, CountedNext
<1>2. cur' = cur /\ saved' = saved
  BY DEF lexVars
<1>3. Ahead' <= Ahead
  <2>1. Work[End - cur] \in Nat
    <3>1. End - cur \in Nat
      BY <1>1, MaxTokensAssumption DEF End, Marks, Counted
    <3> QED BY <3>1, WorkIsThere
  <2> QED BY <1>2, <2>1 DEF Ahead
<1>6. Remaining = Ahead + Owed(saved) + Verdict + 2 * Rank(Top.at) + Len(stack)
  BY DEF Remaining
<1>7. Remaining' = Ahead' + Owed(saved) + Verdict + 2 * Rank(Top'.at) + Len(stack')
  BY <1>2 DEF Remaining
<1>8. Rank(Top.at) \in 0..10 /\ Rank(Top'.at) \in 0..10
  BY RankBounds
<1>9. /\ Ahead \in Nat /\ Ahead' \in Nat /\ Owed(saved) \in Nat /\ Verdict \in Nat
      /\ Len(stack) \in Nat /\ Len(stack') \in Nat
  BY <1>1 DEF Counted
<1> QED BY <1>3, <1>6, <1>7, <1>8, <1>9, LowerRank DEF Less

\* The text grows only where a token is that is not its end.
LEMMA TextStaysEnded ==
  ASSUME IInv, DInv, NEW c \in 1..Len(text), text[c] # "eof", NextTokenFrom(c)
  PROVE  /\ EndsOnce(text') /\ cur' = c + 1
         /\ \A i \in 1..Len(text) : text'[i] = text[i]
<1>0. /\ text \in Seq(Tokens) /\ Len(text) \in Nat /\ MaxTokens \in Nat /\ Len(text) <= MaxTokens + 2
      /\ \A i \in 1..Len(text) : i > MaxTokens /\ i > 1 => text[i] = "eof"
  BY MaxTokensAssumption DEF IInv, Lexed, DInv, EndsOnce
<1>1. CASE c < Len(text)
  BY <1>1 DEF NextTokenFrom, DInv, EndsOnce
<1>2. CASE ~(c < Len(text))
  <2>1. PICK t \in Upcoming : text' = Append(text, t)
    BY <1>2 DEF NextTokenFrom
  <2>2. c = Len(text) /\ (c <= MaxTokens \/ c = 1)
    BY <1>0, <1>2
  <2>3. t \in Tokens /\ (Len(text) < MaxTokens \/ t = "eof")
    BY <2>1, AlphabetAssumption DEF Upcoming, Tokens
  <2>4. /\ Len(text') = Len(text) + 1 /\ text'[Len(text) + 1] = t
        /\ \A i \in 1..Len(text) : text'[i] = text[i]
    BY <1>0, <2>1, <2>3
  <2>5. Len(text') <= MaxTokens + 2
    BY <1>0, <2>2, <2>4
  <2>6. ASSUME NEW i \in 1..Len(text'), i > MaxTokens, i > 1
        PROVE  text'[i] = "eof"
    <3>1. CASE i \in 1..Len(text)
      BY <1>0, <2>4, <2>6, <3>1
    <3>2. CASE i = Len(text) + 1
      BY <1>0, <2>3, <2>4, <2>6, <3>2
    <3>3. i \in 1..Len(text) \/ i = Len(text) + 1
      BY <1>0, <2>4
    <3> QED BY <3>1, <3>2, <3>3
  <2> QED BY <2>4, <2>5, <2>6 DEF EndsOnce, NextTokenFrom
<1> QED BY <1>1, <1>2

Eats == Advance /\ Tok # "eof"

\* What a step leaves true of the text that reads a token or none.
LEMMA LexerKeeps ==
  ASSUME IInv, DInv, Eats \/ UNCHANGED lexVars
  PROVE  /\ EndsOnce(text') /\ \A k \in 1..Len(saved') : text'[saved'[k]] # "eof"
         /\ saved' = saved
         /\ Eats => cur' = cur + 1
         /\ UNCHANGED lexVars => Tok' = Tok
<1>1. CASE Eats
  <2>1. tok = cur /\ cur \in 1..Len(text) /\ \A k \in 1..Len(saved) : saved[k] \in 1..Len(text)
    BY DEF IInv, Lexed
  <2>2. /\ EndsOnce(text') /\ cur' = cur + 1
        /\ \A i \in 1..Len(text) : text'[i] = text[i]
    BY <1>1, <2>1, TextStaysEnded DEF Eats, Advance, Tok
  <2>3. saved' = saved /\ cur' # cur
    BY <1>1, <2>1, <2>2 DEF Eats, Advance
  <2>4. ~UNCHANGED lexVars
    BY <2>3 DEF lexVars
  <2> QED BY <2>1, <2>2, <2>3, <2>4 DEF DInv
<1>2. CASE UNCHANGED lexVars
  <2>1. ~Eats
    <3>1. cur \in Nat
      BY DEF IInv, Lexed
    <3> QED BY <1>2, <3>1 DEF Eats, Advance, NextTokenFrom, lexVars
  <2> QED BY <1>2, <2>1 DEF lexVars, DInv, EndsOnce, Tok
<1> QED BY <1>1, <1>2

-----------------------------------------------------------------------------
(***************************************************************************)
(* The forms of a step.  To come to the label l it consumes a token, or    *)
(* goes down in rank.                                                      *)
(***************************************************************************)
Onward(l) ==
  \/ Eats /\ l \notin Unseen
  \/ /\ UNCHANGED lexVars /\ Rank(l) < Rank(Top.at)
     /\ l \in ReadTwice => Top.at \in ReadTwice
     /\ l \in Unseen => Tok # "eof"

\* The frame f is reached from where the top one is, and waits as it does.
Stays(f) ==
  /\ Callers(Top.at) \subseteq Callers(f.at)
  /\ f.at \in Rewinding <=> Top.at \in Rewinding
  /\ f.at \in Rewinding => f.begin = Top.begin

LEMMA LengthIs ==
  ASSUME NEW s, NEW n \in Nat, DOMAIN s = 1..n
  PROVE  Len(s) = n
OBVIOUS

LEMMA RankAndHeight ==
  ASSUME NEW r \in 0..10, NEW q \in 0..10, NEW k \in Nat, NEW j \in Nat,
         (q < r /\ j <= k + 1) \/ (q <= r /\ j = k - 1)
  PROVE  2 * q + j < 2 * r + k
OBVIOUS

LEMMA Excepted ==
  ASSUME NEW S, NEW s \in Seq(S), NEW n \in 1..Len(s), NEW f
  PROVE  /\ DOMAIN [s EXCEPT ![n] = f] = 1..Len(s)
         /\ [s EXCEPT ![n] = f][n] = f
         /\ \A i \in 1..Len(s) : i # n => [s EXCEPT ![n] = f][i] = s[i]
<1>1. DOMAIN s = 1..Len(s)
  OBVIOUS
<1>2. [s EXCEPT ![n] = f] = [i \in 1..Len(s) |-> IF i = n THEN f ELSE s[i]]
  BY <1>1
<1> QED BY <1>2

LEMMA ContinueShape ==
  ASSUME IInv, IInv', NEW f, Continue(f)
  PROVE  /\ Len(stack') = Len(stack) /\ Top' = f
         /\ stack'[Len(stack)] = f /\ \A i \in 1..Len(stack)-1 : stack'[i] = stack[i]
<1>1. /\ stack \in Seq(Frames) /\ stack' \in Seq(Frames) /\ Len(stack) \in Nat \ {0}
      /\ stack' = [stack EXCEPT ![Len(stack)] = f]
  BY DEF IInv, Framed, Core, Continue
<1>2. Len(stack) \in 1..Len(stack) /\ \A i \in 1..Len(stack)-1 : i \in 1..Len(stack) /\ i # Len(stack)
  BY <1>1
<1>3. /\ DOMAIN stack' = 1..Len(stack) /\ stack'[Len(stack)] = f
      /\ \A i \in 1..Len(stack) : i # Len(stack) => stack'[i] = stack[i]
  BY <1>1, <1>2, Excepted
<1>4. Len(stack') = Len(stack)
  <2>1. Len(stack) \in Nat
    BY <1>1
  <2> QED BY <1>3, <2>1, LengthIs
<1> QED BY <1>2, <1>3, <1>4 DEF Top

LEMMA CallShape ==
  ASSUME IInv, IInv', NEW f, NEW l, NEW b, CallFrom(f, l, b)
  PROVE  /\ Len(stack') = Len(stack) + 1 /\ Top'.at = l
         /\ stack'[Len(stack)] = f /\ stack'[Len(stack) + 1].at = l
         /\ \A i \in 1..Len(stack)-1 : stack'[i] = stack[i]
<1> DEFINE s == [stack EXCEPT ![Len(stack)] = f]
           g == NewFrame(l, b)
<1>1. /\ stack \in Seq(Frames) /\ stack' \in Seq(Frames) /\ Len(stack) \in Nat \ {0}
      /\ stack' = Append(s, g)
  BY DEF IInv, Framed, Core, CallFrom
<1>2. g.at = l
  BY DEF NewFrame
<1>3. Len(stack) \in 1..Len(stack) /\ \A i \in 1..Len(stack)-1 : i \in 1..Len(stack) /\ i # Len(stack)
  BY <1>1
<1>4. DOMAIN s = 1..Len(stack)
  BY <1>1, <1>3, Excepted
<1>5. s[Len(stack)] = f /\ \A i \in 1..Len(stack)-1 : s[i] = stack[i]
  BY <1>1, <1>3, Excepted
<1> HIDE DEF s, g
<1>6. /\ Len(stack') = Len(stack) + 1 /\ stack'[Len(stack) + 1] = g
      /\ \A i \in 1..Len(stack) : stack'[i] = s[i]
  <2> DEFINE U == {s[i] : i \in 1..Len(stack)} \cup {g}
  <2>1. Len(s) = Len(stack) /\ s \in Seq(U)
    <3>1. s = [i \in 1..Len(stack) |-> s[i]]
      BY <1>1, <1>4 DEF s
    <3> QED BY <1>1, <3>1
  <2>2. g \in U
    OBVIOUS
  <2> HIDE DEF U
  <2> QED BY <1>1, <2>1, <2>2
<1> QED BY <1>1, <1>2, <1>5, <1>6 DEF Top

LEMMA ReturnShape ==
  ASSUME IInv, IInv', Top.at \notin Outermost, NEW v, Return(v)
  PROVE  /\ Len(stack) \in Nat \ {0, 1} /\ Len(stack') = Len(stack) - 1
         /\ \A i \in 1..Len(stack)-1 : stack'[i] = stack[i]
         /\ Top' = stack[Len(stack) - 1]
<1>1. /\ stack \in Seq(Frames) /\ Len(stack) \in Nat \ {0} /\ stack' = Front(stack)
      /\ \A i \in 1..Len(stack) : stack[i].at \in Outermost <=> i = 1
  BY DEF IInv, Framed, Core, Return
<1>2. Len(stack) # 1
  BY <1>1 DEF Top
<1>3. /\ Len(stack') = Len(stack) - 1
      /\ \A i \in 1..Len(stack)-1 : stack'[i] = stack[i]
  BY <1>1, FrontFacts
<1> QED BY <1>1, <1>2, <1>3 DEF Top

LEMMA ContinueDescends ==
  ASSUME IInv, IInv', DInv, status = "run", status' = status,
         NEW f, Continue(f), Stays(f), Onward(f.at)
  PROVE  Descends
<1>1. /\ Len(stack') = Len(stack) /\ Top' = f /\ Len(stack) \in Nat \ {0}
      /\ stack'[Len(stack)] = f /\ \A i \in 1..Len(stack)-1 : stack'[i] = stack[i]
  BY ContinueShape, TopFrame
<1>2. Eats \/ UNCHANGED lexVars
  BY DEF Onward
<1>3. /\ EndsOnce(text') /\ \A k \in 1..Len(saved') : text'[saved'[k]] # "eof"
      /\ saved' = saved
      /\ Eats => cur' = cur + 1
      /\ UNCHANGED lexVars => Tok' = Tok
  BY <1>2, LexerKeeps
<1>4. Top'.at \in Unseen => Tok' # "eof"
  BY <1>1, <1>3 DEF Onward
<1>5. Reachable(stack')
  BY <1>1 DEF DInv, Reachable, Stays, Top
<1>6. DInv'
  BY <1>3, <1>4, <1>5 DEF DInv
<1>7. Verdict' = Verdict
  <2>1. CASE Len(stack) = 2
    BY <1>1, <2>1 DEF Verdict, Stays, Top, Rewinding
  <2>2. CASE Len(stack) # 2
    BY <1>1, <2>2 DEF Verdict
  <2> QED BY <2>1, <2>2
<1>8. CASE Eats
  <2>1. Less
    BY <1>1, <1>3, <1>6, <1>7, <1>8, TokenDescends
  <2> QED BY <1>6, <2>1 DEF Descends
<1>9. CASE ~Eats
  <2>1. UNCHANGED lexVars /\ Rank(f.at) < Rank(Top.at) /\ (f.at \in ReadTwice => Top.at \in ReadTwice)
    BY <1>9 DEF Onward
  <2>2. 2 * Rank(Top'.at) + Len(stack') < 2 * Rank(Top.at) + Len(stack)
    BY <1>1, <2>1, RankBounds
  <2>3. Less
    BY <1>1, <1>6, <1>7, <2>1, <2>2, RankDescends
  <2> QED BY <1>6, <2>3 DEF Descends
<1> QED BY <1>8, <1>9

\* A call leaves who has called whom, and what IsFunctionDecl will read again.
LEMMA CallKeeps ==
  ASSUME IInv, IInv', DInv, NEW f, NEW l, NEW b, CallFrom(f, l, b), Stays(f),
         l \notin Rewinding, f.at \in Callers(l)
  PROVE  Reachable(stack') /\ Verdict' = Verdict
<1>1. /\ Len(stack') = Len(stack) + 1 /\ Top'.at = l /\ Len(stack) \in Nat \ {0}
      /\ stack'[Len(stack)] = f /\ stack'[Len(stack) + 1].at = l
      /\ \A i \in 1..Len(stack)-1 : stack'[i] = stack[i]
  BY CallShape, TopFrame
<1>5. Reachable(stack')
  <2> SUFFICES ASSUME NEW i \in 1..Len(stack') - 1
               PROVE  stack'[i].at \in Callers(stack'[i + 1].at)
    BY DEF Reachable
  <2>1. CASE i = Len(stack)
    BY <1>1, <2>1
  <2>2. CASE i = Len(stack) - 1
    <3>1. i \in 1..Len(stack)-1 /\ i + 1 = Len(stack)
      BY <1>1, <2>2
    <3>2. stack'[i] = stack[i] /\ stack'[i + 1] = f
      BY <1>1, <3>1
    <3>3. stack[i].at \in Callers(Top.at)
      BY <3>1 DEF DInv, Reachable, Top
    <3> QED BY <3>2, <3>3 DEF Stays
  <2>3. CASE i < Len(stack) - 1
    BY <1>1, <2>3 DEF DInv, Reachable
  <2>4. i = Len(stack) \/ i = Len(stack) - 1 \/ i < Len(stack) - 1
    <3>1. Len(stack') - 1 = Len(stack) /\ Len(stack) \in Nat
      BY <1>1
    <3>2. i \in 1..Len(stack)
      BY <3>1
    <3> QED BY <3>1, <3>2
  <2> QED BY <2>1, <2>2, <2>3, <2>4
<1>7. Verdict' = Verdict
  <2>1. CASE Len(stack) = 1
    BY <1>1, <2>1 DEF Verdict, Rewinding
  <2>2. CASE Len(stack) = 2
    BY <1>1, <2>2 DEF Verdict, Stays, Top, Rewinding
  <2>3. CASE Len(stack) > 2
    BY <1>1, <2>3 DEF Verdict
  <2>4. Len(stack) = 1 \/ Len(stack) = 2 \/ Len(stack) > 2
    <3>1. Len(stack) \in Nat \ {0}
      BY <1>1
    <3>2. \A n \in Nat \ {0} : n = 1 \/ n = 2 \/ n > 2
      OBVIOUS
    <3> QED BY <3>1, <3>2
  <2> QED BY <2>1, <2>2, <2>3, <2>4
<1> QED BY <1>5, <1>7

LEMMA CallDescends ==
  ASSUME IInv, IInv', DInv, status = "run", status' = status,
         NEW f, NEW l, NEW b, CallFrom(f, l, b), Stays(f), Onward(l),
         l \notin Rewinding, f.at \in Callers(l)
  PROVE  Descends
<1>1. /\ Len(stack') = Len(stack) + 1 /\ Top'.at = l /\ Len(stack) \in Nat \ {0}
      /\ stack'[Len(stack)] = f /\ stack'[Len(stack) + 1].at = l
      /\ \A i \in 1..Len(stack)-1 : stack'[i] = stack[i]
  BY CallShape, TopFrame
<1>2. Eats \/ UNCHANGED lexVars
  BY DEF Onward
<1>3. /\ EndsOnce(text') /\ \A k \in 1..Len(saved') : text'[saved'[k]] # "eof"
      /\ saved' = saved
      /\ Eats => cur' = cur + 1
      /\ UNCHANGED lexVars => Tok' = Tok
  BY <1>2, LexerKeeps
<1>4. Top'.at \in Unseen => Tok' # "eof"
  BY <1>1, <1>3 DEF Onward
<1>5. Reachable(stack') /\ Verdict' = Verdict
  BY CallKeeps
<1>6. DInv'
  BY <1>3, <1>4, <1>5 DEF DInv
<1>8. CASE Eats
  <2>1. Less
    BY <1>1, <1>3, <1>6, <1>5, <1>8, TokenDescends
  <2> QED BY <1>6, <2>1 DEF Descends
<1>9. CASE ~Eats
  <2>1. UNCHANGED lexVars /\ Rank(l) < Rank(Top.at) /\ (l \in ReadTwice => Top.at \in ReadTwice)
    BY <1>9 DEF Onward
  <2>2. 2 * Rank(Top'.at) + Len(stack') < 2 * Rank(Top.at) + Len(stack)
    <3>1. Rank(Top.at) \in 0..10 /\ Rank(Top'.at) \in 0..10
      BY RankBounds
    <3>2. Rank(Top'.at) < Rank(Top.at)
      BY <1>1, <2>1
    <3>3. Len(stack) \in Nat /\ Len(stack') \in Nat /\ Len(stack') <= Len(stack) + 1
      BY <1>1
    <3> QED BY <3>1, <3>2, <3>3, RankAndHeight
  <2>3. Less
    BY <1>1, <1>6, <1>5, <2>1, <2>2, RankDescends
  <2> QED BY <1>6, <2>3 DEF Descends
<1> QED BY <1>8, <1>9

LEMMA CallersSeen == \A l : Callers(l) \cap Unseen = {}
BY DEF Callers, Unseen

\* A return to one of the procedures that can have called this one.
Homeward ==
  \/ Eats
  \/ /\ UNCHANGED lexVars
     /\ \A l \in Callers(Top.at) :
          Rank(l) <= Rank(Top.at) /\ (l \in ReadTwice => Top.at \in ReadTwice)

LEMMA ReturnDescends ==
  ASSUME IInv, IInv', DInv, status = "run", status' = status,
         NEW v, Return(v), Top.at \notin Outermost, Top.at \notin Rewinding, Homeward
  PROVE  Descends
<1>1. /\ Len(stack) \in Nat \ {0, 1} /\ Len(stack') = Len(stack) - 1
      /\ \A i \in 1..Len(stack)-1 : stack'[i] = stack[i]
      /\ Top' = stack[Len(stack) - 1]
  BY ReturnShape
<1>2. Eats \/ UNCHANGED lexVars
  BY DEF Homeward
<1>3. /\ EndsOnce(text') /\ \A k \in 1..Len(saved') : text'[saved'[k]] # "eof"
      /\ saved' = saved
      /\ Eats => cur' = cur + 1
  BY <1>2, LexerKeeps
<1>4. Top'.at \in Callers(Top.at) /\ Top'.at \notin Unseen
  <2>1. stack[Len(stack) - 1].at \in Callers(stack[(Len(stack) - 1) + 1].at)
    <3>1. Len(stack) - 1 \in 1..Len(stack)-1
      BY <1>1
    <3> QED BY <3>1 DEF DInv, Reachable
  <2>2. (Len(stack) - 1) + 1 = Len(stack)
    BY <1>1
  <2> QED BY <1>1, <2>1, <2>2, CallersSeen DEF Top
<1>5. Reachable(stack')
  BY <1>1 DEF DInv, Reachable
<1>6. DInv'
  BY <1>3, <1>4, <1>5 DEF DInv
<1>7. Verdict' = Verdict
  <2>1. CASE Len(stack) = 2
    BY <1>1, <2>1 DEF Verdict, Top, Rewinding
  <2>2. CASE Len(stack) > 2
    BY <1>1, <2>2 DEF Verdict
  <2> QED BY <1>1, <2>1, <2>2
<1>8. CASE Eats
  <2>1. Len(stack') <= Len(stack) + 1
    BY <1>1
  <2>2. Less
    BY <1>3, <1>6, <1>7, <1>8, <2>1, TokenDescends
  <2> QED BY <1>6, <2>2 DEF Descends
<1>9. CASE ~Eats
  <2>1. UNCHANGED lexVars /\ Rank(Top'.at) <= Rank(Top.at) /\ (Top'.at \in ReadTwice => Top.at \in ReadTwice)
    BY <1>4, <1>9 DEF Homeward
  <2>2. 2 * Rank(Top'.at) + Len(stack') < 2 * Rank(Top.at) + Len(stack)
    <3>1. Rank(Top.at) \in 0..10 /\ Rank(Top'.at) \in 0..10
      BY RankBounds
    <3>2. Rank(Top'.at) <= Rank(Top.at)
      BY <2>1
    <3>3. Len(stack) \in Nat /\ Len(stack') \in Nat /\ Len(stack') = Len(stack) - 1
      BY <1>1
    <3> QED BY <3>1, <3>2, <3>3, RankAndHeight
  <2>3. Less
    BY <1>6, <1>7, <2>1, <2>2, RankDescends
  <2> QED BY <1>6, <2>3 DEF Descends
<1> QED BY <1>8, <1>9

LEMMA StopEnds ==
  ASSUME IInv, DInv, status = "run", NEW s, s # "run", Stop(s)
  PROVE  Descends
BY StopDescends DEF Stop

\* What the labels say of going from l on to k in the same procedure.
Within(l, k) ==
  Callers(l) \subseteq Callers(k) /\ l \notin Rewinding /\ k \notin Rewinding
\* And of coming to k without a token, unless k reads it unseen.
Below(l, k) == Rank(k) < Rank(l) /\ (k \in ReadTwice => l \in ReadTwice)

LEMMA TokenOnward ==
  ASSUME Advance, Tok # "eof", NEW k, k \notin Unseen
  PROVE  Onward(k)
BY DEF Onward, Eats

LEMMA RankOnward ==
  ASSUME UNCHANGED lexVars, NEW k, Below(Top.at, k), k \notin Unseen \/ Tok # "eof"
  PROVE  Onward(k)
BY DEF Onward, Below

LEMMA LocalDescends ==
  ASSUME IInv, IInv', DInv, status = "run", status' = status,
         NEW f, Continue(f), Within(Top.at, f.at), Onward(f.at)
  PROVE  Descends
BY ContinueDescends DEF Within, Stays

LEMMA GotoDescends ==
  ASSUME IInv, IInv', DInv, status = "run", status' = status,
         NEW l \in Labels, Goto(l), Within(Top.at, l), Onward(l)
  PROVE  Descends
<1>1. Top \in Frames
  BY TopFrame
<1>2. [Top EXCEPT !.at = l] \in Frames /\ [Top EXCEPT !.at = l].at = l
  BY <1>1 DEF Frames
<1> QED BY <1>2, LocalDescends DEF Goto

LEMMA CallGoes ==
  ASSUME IInv, IInv', DInv, status = "run", status' = status,
         NEW n \in Labels, NEW l, NEW b, Call(n, l, b),
         Within(Top.at, n), n \in Callers(l), l \notin Rewinding, Onward(l)
  PROVE  Descends
<1>1. Top \in Frames
  BY TopFrame
<1>2. [Top EXCEPT !.at = n].at = n
  BY <1>1 DEF Frames
<1>3. Stays([Top EXCEPT !.at = n])
  BY <1>2 DEF Within, Stays
<1> HIDE DEF Rewinding
<1> QED BY <1>2, <1>3, CallDescends DEF Call

-----------------------------------------------------------------------------
(***************************************************************************)
(* Every action leaves less.                                               *)
(***************************************************************************)
LEMMA ParseProgramDescends ==
  ASSUME IInv, IInv', DInv, ParseProgram
  PROVE  Descends
<1>1. CASE At("program") /\ Stop("done")
  BY <1>1, StopEnds DEF At
<1>2. CASE /\ At("program") /\ Tok # "eof"
           /\ UNCHANGED <<lexVars, semaVars, external, status>>
           /\ Call("verdict", "isfun", Obj)
  <2>1. /\ Within("program", "verdict") /\ Below("program", "isfun")
        /\ "verdict" \in Callers("isfun") /\ "isfun" \notin Rewinding
    BY DEF Within, Below, Callers, Rank, Rewinding, ReadTwice
  <2>2. Onward("isfun")
    BY <1>2, <2>1, RankOnward DEF At
  <2> QED BY <1>2, <2>1, <2>2, CallGoes DEF At, Labels
<1>3. CASE /\ At("verdict")
           /\ UNCHANGED <<lexVars, semaVars, external, status>>
           /\ Call("program", IF ret.flag THEN "fun" ELSE "decl", Obj)
  <2>1. /\ Within("verdict", "program")
        /\ \A l \in {"fun", "decl"} : /\ Below("verdict", l) /\ "program" \in Callers(l)
                                      /\ l \notin Rewinding /\ l \notin Unseen
    BY DEF Within, Below, Callers, Rank, Rewinding, ReadTwice, Unseen
  <2> DEFINE l == IF ret.flag THEN "fun" ELSE "decl"
  <2>2. l \in {"fun", "decl"} /\ Call("program", l, Obj)
    BY <1>3
  <2> HIDE DEF l
  <2>3. Onward(l)
    BY <1>3, <2>1, <2>2, RankOnward DEF At
  <2> QED BY <1>3, <2>1, <2>2, <2>3, CallGoes DEF At, Labels
<1> QED BY <1>1, <1>2, <1>3 DEF ParseProgram

-----------------------------------------------------------------------------
(***************************************************************************)
(* The steps that save a state of the lexer, or go back to one.            *)
(***************************************************************************)
LEMMA SavingKeeps ==
  ASSUME IInv, DInv, Tok # "eof", saved' = Append(saved, cur), EndsOnce(text'),
         \A i \in 1..Len(text) : text'[i] = text[i]
  PROVE  \A k \in 1..Len(saved') : text'[saved'[k]] # "eof"
<1>1. /\ saved \in Seq(Nat) /\ tok = cur /\ cur \in 1..Len(text)
      /\ \A k \in 1..Len(saved) : saved[k] \in 1..Len(text) /\ text[saved[k]] # "eof"
  BY DEF IInv, Lexed, DInv
<1>2. /\ Len(saved') = Len(saved) + 1 /\ saved'[Len(saved) + 1] = cur
      /\ \A k \in 1..Len(saved) : saved'[k] = saved[k]
  BY <1>1
<1>3. ASSUME NEW k \in 1..Len(saved')
      PROVE  text'[saved'[k]] # "eof"
  <2>1. CASE k \in 1..Len(saved)
    BY <1>1, <1>2, <2>1
  <2>2. CASE k = Len(saved) + 1
    BY <1>1, <1>2, <2>2 DEF Tok
  <2>3. k \in 1..Len(saved) \/ k = Len(saved) + 1
    BY <1>1, <1>2
  <2> QED BY <2>1, <2>2, <2>3
<1> QED BY <1>3

\* IsFunctionDecl is always called by ParseProgram itself.
LEMMA VerdictFrame ==
  ASSUME IInv, DInv, Callers(Top.at) = {"verdict"}
  PROVE  Len(stack) = 2 /\ Top = stack[2] /\ stack[1].at = "verdict"
<1>1. /\ stack \in Seq(Frames) /\ Len(stack) \in Nat \ {0}
      /\ \A i \in 1..Len(stack) : stack[i].at \in Outermost <=> i = 1
  BY DEF IInv, Framed, Core
<1>2. Len(stack) # 1
  <2>1. Callers("program") = {} /\ Callers("verdict") = {}
    BY DEF Callers
  <2>2. Top.at \notin Outermost
    BY <2>1 DEF Outermost
  <2> QED BY <1>1, <2>2 DEF Top
<1>3. Len(stack) - 1 \in 1..Len(stack)-1 /\ (Len(stack) - 1) + 1 = Len(stack)
      /\ Len(stack) - 1 \in 1..Len(stack)
  <2>1. \A n \in Nat \ {0} : n # 1 =>
          n - 1 \in 1..n-1 /\ (n - 1) + 1 = n /\ n - 1 \in 1..n
    OBVIOUS
  <2> QED BY <1>1, <1>2, <2>1
<1>4. stack[Len(stack) - 1].at = "verdict"
  BY <1>3 DEF DInv, Reachable, Top
<1>5. Len(stack) - 1 = 1
  BY <1>1, <1>3, <1>4 DEF Outermost
<1>6. Len(stack) = 2
  BY <1>1, <1>5
<1> QED BY <1>4, <1>5, <1>6 DEF Top

LEMMA TwoReadings ==
  ASSUME NEW w \in Nat, NEW o \in Nat, NEW k \in Nat, w >= 32
  PROVE  /\ 4 * w + (o + w) + 4 * w + 2 * 4 + (k + 1) \in Nat
         /\ 4 * w + (o + w) + 4 * w + 2 * 4 + (k + 1) < 3 * (4 * w) + o + 0 + 2 * 0 + k
OBVIOUS

\* One token from there on: what the next readings are worth.
LEMMA NextWork ==
  ASSUME IInv, DInv
  PROVE  /\ Debt(cur) \in Nat /\ Debt(cur) >= 32 /\ Work[End - cur] = 4 * Debt(cur)
         /\ cur \in Marks /\ tok = cur
<1>1. cur \in Marks /\ tok = cur
  BY MarksSaved DEF IInv, Lexed
<1>2. End - cur - 1 \in Nat /\ End - cur = (End - cur - 1) + 1
  BY <1>1, MaxTokensAssumption DEF End, Marks
<1> QED BY <1>1, <1>2, WorkIsThere, WorkRecurs DEF Debt

LEMMA VerdictBegins ==
  ASSUME IInv, IInv', DInv, At("isfun"), BeginSkip,
         UNCHANGED <<text, cur, tok, envs, records, external, status>>,
         CallFrom([Top EXCEPT !.at = "isfun.spec", !.begin = tok, !.mark = envs], "spec", Obj)
  PROVE  Descends
<1> DEFINE f == [Top EXCEPT !.at = "isfun.spec", !.begin = tok, !.mark = envs]
<1>0. Top \in Frames /\ f.at = "isfun.spec" /\ f.begin = tok
  <2>1. Top \in Frames
    BY TopFrame
  <2> QED BY <2>1 DEF Frames
<1> HIDE DEF f
<1>1. Len(stack) = 2 /\ Top = stack[2] /\ stack[1].at = "verdict"
  <2>1. Callers("isfun") = {"verdict"}
    BY DEF Callers
  <2> QED BY <2>1, VerdictFrame DEF At
<1>2. /\ Len(stack') = 3 /\ Top'.at = "spec" /\ stack'[2] = f /\ stack'[3].at = "spec"
      /\ stack'[1] = stack[1]
  <2>1. CallFrom(f, "spec", Obj)
    BY DEF f
  <2>2. /\ Len(stack') = Len(stack) + 1 /\ Top'.at = "spec"
        /\ stack'[Len(stack)] = f /\ stack'[Len(stack) + 1].at = "spec"
        /\ \A i \in 1..Len(stack)-1 : stack'[i] = stack[i]
    BY <2>1, CallShape
  <2> QED BY <1>1, <2>2
<1>3. DInv'
  <2>1. Tok # "eof" /\ EndsOnce(text') /\ \A i \in 1..Len(text) : text'[i] = text[i]
    BY DEF DInv, At, Unseen
  <2>2. \A k \in 1..Len(saved') : text'[saved'[k]] # "eof"
    BY <2>1, SavingKeeps DEF BeginSkip
  <2>3. Reachable(stack')
    <3>1. /\ stack[1].at \in Callers("isfun.spec") /\ "isfun.spec" \in Callers("spec")
      BY <1>1 DEF Callers
    <3> QED BY <1>0, <1>2, <3>1 DEF Reachable
  <2>4. "spec" \notin Unseen
    BY DEF Unseen
  <2> QED BY <1>2, <2>1, <2>2, <2>3, <2>4 DEF DInv
<1> DEFINE w == Debt(cur)
<1>4. w \in Nat /\ w >= 32 /\ Work[End - cur] = 4 * w /\ cur \in Marks /\ tok = cur
  BY NextWork
<1>5. Owed(saved') = Owed(saved) + w /\ Owed(saved) \in Nat
  BY <1>4, MarksSaved, OwedMore, OwedIsNat DEF BeginSkip
<1> HIDE DEF w
<1>6. Remaining = 3 * (4 * w) + Owed(saved) + 0 + 2 * 0 + 2
  <2>1. Ahead = 3 * (4 * w)
    BY <1>4 DEF Ahead, At, ReadTwice
  <2>2. Verdict = 0
    BY <1>1 DEF Verdict, At
  <2>3. Rank(Top.at) = 0
    BY DEF Rank, At
  <2> QED BY <1>1, <2>1, <2>2, <2>3 DEF Remaining, At
<1>7. Remaining' = 4 * w + (Owed(saved) + w) + 4 * w + 2 * 4 + (2 + 1)
  <2>1. Ahead' = 4 * w
    BY <1>2, <1>4 DEF Ahead, ReadTwice
  <2>2. Verdict' = 4 * w
    BY <1>0, <1>2, <1>4 DEF Verdict
  <2>3. Rank(Top'.at) = 4
    BY <1>2 DEF Rank
  <2>4. Remaining' = Ahead' + Owed(saved') + Verdict' + 2 * Rank(Top'.at) + Len(stack')
    BY DEF Remaining, At
  <2> QED BY <1>2, <1>5, <2>1, <2>2, <2>3, <2>4
<1>8. Less
  BY <1>4, <1>5, <1>6, <1>7, TwoReadings DEF Less
<1> QED BY <1>3, <1>8 DEF Descends

LEMMA RewindPays ==
  ASSUME NEW a \in Nat, NEW o \in Nat, NEW d \in Nat, NEW v \in Nat, NEW r \in 0..10, a >= 32
  PROVE  /\ v + o + 0 + 2 * 6 + 1 \in Nat
         /\ v + o + 0 + 2 * 6 + 1 < a + (o + d) + v + 2 * r + 2
OBVIOUS

LEMMA VerdictReturns ==
  ASSUME IInv, IInv', DInv, status = "run", Top.at \in Rewinding, NEW b, EndIsFunctionDecl(b)
  PROVE  Descends
<1>1. Len(stack) = 2 /\ Top = stack[2] /\ stack[1].at = "verdict"
  <2>1. Callers(Top.at) = {"verdict"}
    BY DEF Callers, Rewinding
  <2> QED BY <2>1, VerdictFrame
<1>2. Len(stack') = 1 /\ Top' = stack[1] /\ stack'[1] = stack[1]
  <2>1. Top.at \notin Outermost
    BY DEF Outermost, Rewinding
  <2>2. /\ Len(stack) \in Nat \ {0, 1} /\ Len(stack') = Len(stack) - 1
        /\ \A i \in 1..Len(stack)-1 : stack'[i] = stack[i]
        /\ Top' = stack[Len(stack) - 1]
    BY <2>1, ReturnShape DEF EndIsFunctionDecl
  <2> QED BY <1>1, <2>2
<1>3. /\ saved' = Front(saved) /\ cur' = Last(saved) /\ Last(saved) = Top.begin /\ saved # <<>>
      /\ text' = text /\ status' = "run" /\ saved \in Seq(Marks)
  <2>1. saved # <<>> /\ EndSkip /\ Top.at \in SaveHeld
    <3>1. StatesOf(Top) = Len(saved) /\ Top \in Frames
      BY TopFrame DEF High
    <3>2. StatesOf(Top) = Top.sdepth + 1 /\ Top.sdepth \in Nat
      BY <3>1, Heights DEF StatesOf, Held, SaveHeld, Rewinding
    <3>3. Len(saved) # 0
      BY <3>1, <3>2
    <3>4. saved # <<>>
      BY <3>3
    <3> QED BY <3>4 DEF EndIsFunctionDecl, SaveHeld, Rewinding
  <2> QED BY <2>1, EndSkipFacts, MarksSaved DEF EndIsFunctionDecl, EndSkip
<1>4. /\ Owed(saved) = Owed(saved') + Debt(Last(saved)) /\ Owed(saved') \in Nat
      /\ Debt(Last(saved)) \in Nat /\ Last(saved) \in Marks
  BY <1>3, OwedLess, OwedIsNat, DebtIsNat
<1>5. DInv'
  <2>1. \A k \in 1..Len(saved') : saved'[k] = saved[k] /\ k \in 1..Len(saved)
    <3>1. Len(saved) \in Nat \ {0}
      BY <1>3
    <3> QED BY <1>3, <3>1, FrontFacts
  <2>2. Reachable(stack')
    BY <1>2 DEF Reachable
  <2>3. Top'.at \notin Unseen
    BY <1>1, <1>2 DEF Unseen
  <2> QED BY <1>3, <2>1, <2>2, <2>3 DEF DInv
<1>6. Counted /\ Rank(Top.at) \in 0..10
  BY CountedAlways, RankBounds
<1> DEFINE v == Work[End - Top.begin]
<1>7. v \in Nat
  <2>1. End - Top.begin \in Nat
    BY <1>3, <1>4, MaxTokensAssumption DEF End, Marks
  <2> QED BY <2>1, WorkIsThere
<1>8. Remaining = Ahead + (Owed(saved') + Debt(Last(saved))) + v + 2 * Rank(Top.at) + 2
  BY <1>1, <1>4 DEF Remaining, Verdict, Rewinding
<1>9. Remaining' = v + Owed(saved') + 0 + 2 * 6 + 1
  <2>1. Ahead' = v
    BY <1>1, <1>2, <1>3, <1>7 DEF Ahead, ReadTwice
  <2>2. Verdict' = 0
    BY <1>2 DEF Verdict
  <2>3. Rank(Top'.at) = 6
    BY <1>1, <1>2 DEF Rank
  <2>4. Remaining' = Ahead' + Owed(saved') + Verdict' + 2 * Rank(Top'.at) + Len(stack')
    BY <1>3 DEF Remaining
  <2> HIDE DEF v
  <2> QED BY <1>2, <2>1, <2>2, <2>3, <2>4
<1> HIDE DEF v
<1>10. Less
  <2>1. Ahead \in Nat /\ Ahead >= 32
    BY <1>6 DEF Counted
  <2> QED BY <1>4, <1>6, <1>7, <1>8, <1>9, <2>1, RewindPays DEF Less
<1> QED BY <1>5, <1>10 DEF Descends

LEMMA TwoDeclarators ==
  ASSUME NEW w \in Nat, NEW a \in Nat, NEW o \in Nat, NEW v \in Nat, NEW k \in Nat,
         NEW r \in 0..10, a >= 4 * w, w >= 32
  PROVE  /\ w + (o + w) + v + 2 * 0 + (k + 1) \in Nat
         /\ w + (o + w) + v + 2 * 0 + (k + 1) < a + o + v + 2 * r + k
OBVIOUS

LEMMA ParenthesisBegins ==
  ASSUME IInv, IInv', DInv, At("dtor"), Tok = "(", BeginSkip, NextTokenFrom(cur),
         UNCHANGED <<envs, records, external, status>>,
         CallFrom([Top EXCEPT !.at = "dtor.skipped", !.begin = tok, !.mark = envs], "dtor", Obj)
  PROVE  Descends
<1> DEFINE f == [Top EXCEPT !.at = "dtor.skipped", !.begin = tok, !.mark = envs]
<1>0. f.at = "dtor.skipped" /\ CallFrom(f, "dtor", Obj)
  <2>1. Top \in Frames
    BY TopFrame
  <2> QED BY <2>1 DEF Frames
<1> HIDE DEF f
<1>1. /\ Len(stack') = Len(stack) + 1 /\ Top'.at = "dtor" /\ Len(stack) \in Nat
  BY <1>0, CallShape, TopFrame
<1>2. Reachable(stack') /\ Verdict' = Verdict
  <2>1. Stays(f)
    BY <1>0 DEF Stays, Callers, Rewinding, At
  <2>2. "dtor" \notin Rewinding /\ "dtor.skipped" \in Callers("dtor")
    BY DEF Rewinding, Callers
  <2> QED BY <1>0, <2>1, <2>2, CallKeeps
<1>3. /\ EndsOnce(text') /\ cur' = cur + 1
      /\ \A i \in 1..Len(text) : text'[i] = text[i]
  <2>1. cur \in 1..Len(text) /\ text[cur] # "eof"
    BY DEF IInv, Lexed, Tok
  <2> QED BY <2>1, TextStaysEnded
<1>4. DInv'
  <2>1. \A k \in 1..Len(saved') : text'[saved'[k]] # "eof"
    BY <1>3, SavingKeeps DEF BeginSkip
  <2>2. "dtor" \notin Unseen
    BY DEF Unseen
  <2> QED BY <1>1, <1>2, <1>3, <2>1, <2>2 DEF DInv
<1> DEFINE w == Debt(cur)
<1>5. w \in Nat /\ w >= 32 /\ Work[End - cur] = 4 * w /\ cur \in Marks
  BY NextWork
<1>6. Owed(saved') = Owed(saved) + w /\ Owed(saved) \in Nat
  BY <1>5, MarksSaved, OwedMore, OwedIsNat DEF BeginSkip
<1>7. Work[End - cur'] = w
  <2>1. End - cur' = End - cur - 1
    BY <1>3, <1>5, MaxTokensAssumption DEF End, Marks
  <2> QED BY <2>1 DEF Debt
<1> HIDE DEF w
<1>8. Counted /\ Rank(Top.at) \in 0..10
  BY CountedAlways, RankBounds
<1>9. Ahead >= 4 * w /\ Ahead \in Nat /\ Verdict \in Nat
  BY <1>5, <1>8 DEF Ahead, Counted, At, ReadTwice
<1>10. Remaining = Ahead + Owed(saved) + Verdict + 2 * Rank(Top.at) + Len(stack)
  BY DEF Remaining, At
<1>11. Remaining' = w + (Owed(saved) + w) + Verdict + 2 * 0 + (Len(stack) + 1)
  <2>1. Ahead' = w
    BY <1>1, <1>5, <1>7 DEF Ahead, ReadTwice
  <2>2. Rank(Top'.at) = 0
    BY <1>1 DEF Rank
  <2>3. Remaining' = Ahead' + Owed(saved') + Verdict' + 2 * Rank(Top'.at) + Len(stack')
    BY DEF Remaining, At
  <2> QED BY <1>1, <1>2, <1>6, <2>1, <2>2, <2>3
<1>12. Less
  BY <1>1, <1>5, <1>6, <1>8, <1>9, <1>10, <1>11, TwoDeclarators DEF Less
<1> QED BY <1>4, <1>12 DEF Descends

LEMMA SecondReading ==
  ASSUME NEW a \in Nat, NEW o \in Nat, NEW d \in Nat, NEW v \in Nat, NEW r \in 0..10,
         NEW k \in Nat, a >= 32
  PROVE  /\ d + o + v + 2 * 0 + (k + 1) \in Nat
         /\ d + o + v + 2 * 0 + (k + 1) < a + (o + d) + v + 2 * r + k
OBVIOUS

LEMMA ParenthesisRead ==
  ASSUME IInv, IInv', DInv, At("dtor.typed"), EndSkip, NextTokenFrom(Last(saved)),
         UNCHANGED <<envs, records, external, status>>, NEW b,
         CallFrom([Top EXCEPT !.at = "dtor.real", !.stop = tok], "dtor", b)
  PROVE  Descends
<1> DEFINE f == [Top EXCEPT !.at = "dtor.real", !.stop = tok]
<1>0. f.at = "dtor.real" /\ CallFrom(f, "dtor", b)
  <2>1. Top \in Frames
    BY TopFrame
  <2> QED BY <2>1 DEF Frames
<1> HIDE DEF f
<1>1. /\ Len(stack') = Len(stack) + 1 /\ Top'.at = "dtor" /\ Len(stack) \in Nat
  BY <1>0, CallShape, TopFrame
<1>2. Reachable(stack') /\ Verdict' = Verdict
  <2>1. Stays(f)
    BY <1>0 DEF Stays, Callers, Rewinding, At
  <2>2. "dtor" \notin Rewinding /\ "dtor.real" \in Callers("dtor")
    BY DEF Rewinding, Callers
  <2> QED BY <1>0, <2>1, <2>2, CallKeeps
<1>3. /\ saved' = Front(saved) /\ Last(saved) \in 1..Len(text) /\ saved # <<>>
      /\ saved \in Seq(Marks) /\ Len(saved) \in Nat \ {0}
  <2>1. saved # <<>> /\ Top.at \in SaveHeld
    <3>1. StatesOf(Top) = Len(saved) /\ Top \in Frames /\ Top.at \in SaveHeld
      BY TopFrame DEF High, At, SaveHeld
    <3>2. StatesOf(Top) = Top.sdepth + 1 /\ Top.sdepth \in Nat
      BY <3>1, Heights DEF StatesOf, Held
    <3>3. Len(saved) # 0
      BY <3>1, <3>2
    <3>4. saved # <<>>
      BY <3>3
    <3> QED BY <3>1, <3>4
  <2> QED BY <2>1, EndSkipFacts, MarksSaved DEF EndSkip
<1>4. /\ Owed(saved) = Owed(saved') + Debt(Last(saved)) /\ Owed(saved') \in Nat
      /\ Debt(Last(saved)) \in Nat /\ Debt(Last(saved)) >= 32 /\ Last(saved) \in Marks
  <2>1. Last(saved) \in Marks
    BY <1>3, OwedLess
  <2>2. End - Last(saved) - 1 \in Nat
    BY <2>1, MaxTokensAssumption DEF End, Marks
  <2> QED BY <1>3, <2>1, <2>2, OwedLess, OwedIsNat, DebtIsNat, WorkIsThere DEF Debt
<1>5. /\ EndsOnce(text') /\ cur' = Last(saved) + 1
      /\ \A i \in 1..Len(text) : text'[i] = text[i]
  <2>1. Last(saved) = saved[Len(saved)] /\ Len(saved) \in 1..Len(saved)
    BY <1>3 DEF Last
  <2>2. text[Last(saved)] # "eof"
    BY <2>1 DEF DInv
  <2> QED BY <1>3, <2>2, TextStaysEnded
<1>6. DInv'
  <2>1. \A k \in 1..Len(saved') : saved'[k] = saved[k] /\ k \in 1..Len(saved)
    BY <1>3, FrontFacts
  <2>2. \A k \in 1..Len(saved') : text'[saved'[k]] # "eof"
    BY <1>5, <2>1 DEF DInv, IInv, Lexed
  <2>3. "dtor" \notin Unseen
    BY DEF Unseen
  <2> QED BY <1>1, <1>2, <1>5, <2>2, <2>3 DEF DInv
<1> DEFINE d == Debt(Last(saved))
<1>7. Work[End - cur'] = d
  <2>1. End - cur' = End - Last(saved) - 1
    BY <1>4, <1>5, MaxTokensAssumption DEF End, Marks
  <2> QED BY <2>1 DEF Debt
<1>a. d \in Nat
  BY <1>4
<1> HIDE DEF d
<1>8. Counted /\ Rank(Top.at) \in 0..10
  BY CountedAlways, RankBounds
<1>9. Remaining = Ahead + (Owed(saved') + d) + Verdict + 2 * Rank(Top.at) + Len(stack)
  BY <1>4 DEF Remaining, At, d
<1>10. Remaining' = d + Owed(saved') + Verdict + 2 * 0 + (Len(stack) + 1)
  <2>1. Ahead' = d
    BY <1>1, <1>a, <1>7 DEF Ahead, ReadTwice
  <2>2. Rank(Top'.at) = 0
    BY <1>1 DEF Rank
  <2>3. Remaining' = Ahead' + Owed(saved') + Verdict' + 2 * Rank(Top'.at) + Len(stack')
    BY DEF Remaining, At
  <2> QED BY <1>1, <1>2, <2>1, <2>2, <2>3
<1>11. Less
  <2>1. Ahead \in Nat /\ Ahead >= 32 /\ Verdict \in Nat
    BY <1>8 DEF Counted
  <2> QED BY <1>1, <1>a, <1>4, <1>8, <1>9, <1>10, <2>1, SecondReading DEF Less
<1> QED BY <1>6, <1>11 DEF Descends

\* A step that consumes a token and stays in its procedure.
LEMMA TokenLocal ==
  ASSUME IInv, IInv', DInv, status = "run", Advance, Tok # "eof", status' = status,
         NEW f, Continue(f), Within(Top.at, f.at), f.at \notin Unseen
  PROVE  Descends
BY TokenOnward, LocalDescends

LEMMA TokenGoto ==
  ASSUME IInv, IInv', DInv, status = "run", Advance, Tok # "eof", status' = status,
         NEW l \in Labels, Goto(l), Within(Top.at, l), l \notin Unseen
  PROVE  Descends
BY TokenOnward, GotoDescends

\* One that consumes a token and is the last of its procedure.
LEMMA TokenReturn ==
  ASSUME IInv, IInv', DInv, status = "run", Advance, Tok # "eof", status' = status,
         NEW v, Return(v), Top.at \notin Outermost, Top.at \notin Rewinding
  PROVE  Descends
BY ReturnDescends DEF Homeward, Eats

\* One that consumes none.
LEMMA RankLocal ==
  ASSUME IInv, IInv', DInv, status = "run", UNCHANGED lexVars, status' = status,
         NEW f, Continue(f), Within(Top.at, f.at), Below(Top.at, f.at), f.at \notin Unseen
  PROVE  Descends
BY RankOnward, LocalDescends

LEMMA RankGoto ==
  ASSUME IInv, IInv', DInv, status = "run", UNCHANGED lexVars, status' = status,
         NEW l \in Labels, Goto(l), Within(Top.at, l), Below(Top.at, l), l \notin Unseen
  PROVE  Descends
BY RankOnward, GotoDescends

LEMMA RankCall ==
  ASSUME IInv, IInv', DInv, status = "run", UNCHANGED lexVars, status' = status,
         NEW n \in Labels, NEW l, NEW b, Call(n, l, b),
         Within(Top.at, n), n \in Callers(l), l \notin Rewinding,
         Below(Top.at, l), l \notin Unseen \/ Tok # "eof"
  PROVE  Descends
BY RankOnward, CallGoes

\* From every call that reaches l it is up.
AllBelow(l) == \A k \in Callers(l) : Rank(k) <= Rank(l) /\ (k \in ReadTwice => l \in ReadTwice)

LEMMA RankReturn ==
  ASSUME IInv, IInv', DInv, status = "run", UNCHANGED lexVars, status' = status,
         NEW v, Return(v), Top.at \notin Outermost, Top.at \notin Rewinding, AllBelow(Top.at)
  PROVE  Descends
BY ReturnDescends DEF Homeward, AllBelow

LEMMA PrimaryDescends ==
  ASSUME IInv, IInv', DInv, status = "run", NEW l \in Labels, Primary(l),
         Within(Top.at, l), l \notin Unseen
  PROVE  Descends
<1>1. CASE \E s \in {"undefined", "nullSymbol", "beyond", "syntax"} : Stop(s)
  BY <1>1, StopEnds
<1>2. CASE Tok \in Names \cup {"num"} /\ Advance /\ Goto(l) /\ UNCHANGED <<semaVars, external, status>>
  <2>1. Tok # "eof"
    BY <1>2, NamesAssumption
  <2> QED BY <1>2, <2>1, TokenGoto
<1> QED BY <1>1, <1>2 DEF Primary

LEMMA WrongTokenDescends ==
  ASSUME IInv, DInv, status = "run", NEW t, WrongToken(t)
  PROVE  Descends
BY StopEnds DEF WrongToken

LEMMA IsFunctionDeclDescends ==
  ASSUME IInv, IInv', DInv, IsFunctionDecl
  PROVE  Descends
<1>1. CASE /\ At("isfun")
           /\ BeginSkip
           /\ UNCHANGED <<text, cur, tok, envs, records, external, status>>
           /\ CallFrom([Top EXCEPT !.at = "isfun.spec", !.begin = tok, !.mark = envs],
                       "spec", Obj)
  BY <1>1, VerdictBegins
<1>2. CASE At("isfun.spec") /\ EndIsFunctionDecl(FALSE)
  BY <1>2, VerdictReturns DEF At, Rewinding
<1>3. CASE /\ At("isfun.spec")
           /\ UNCHANGED <<lexVars, semaVars, external, status>>
           /\ Call("isfun.decl", "dtor", ret.shape)
  <2> DEFINE f == [Top EXCEPT !.at = "isfun.decl"]
  <2>1. f.at = "isfun.decl" /\ f.begin = Top.begin
    <3>1. Top \in Frames
      BY TopFrame
    <3> QED BY <3>1 DEF Frames
  <2>2. CallFrom(f, "dtor", ret.shape)
    BY <1>3 DEF Call
  <2> HIDE DEF f
  <2>3. Stays(f) /\ "dtor" \notin Rewinding /\ f.at \in Callers("dtor")
    BY <1>3, <2>1 DEF Stays, Callers, Rewinding, At
  <2>4. Onward("dtor")
    <3>1. Below("isfun.spec", "dtor") /\ "dtor" \notin Unseen
      BY DEF Below, Rank, ReadTwice, Unseen
    <3> QED BY <1>3, <3>1, RankOnward DEF At
  <2> QED BY <1>3, <2>2, <2>3, <2>4, CallDescends DEF At
<1>4. CASE At("isfun.decl") /\ EndIsFunctionDecl(IsFunctionTypeNode(ret.shape))
  BY <1>4, VerdictReturns DEF At, Rewinding
<1> QED BY <1>1, <1>2, <1>3, <1>4 DEF IsFunctionDecl

LEMMA BelowBody == AllBelow("fun.body")
<1>1. Callers("fun.body") = {"program"}
  BY DEF Callers
<1>2. Rank("program") <= Rank("fun.body")
  BY DEF Rank
<1>3. "fun.body" \in ReadTwice
  BY DEF ReadTwice
<1> QED BY <1>1, <1>2, <1>3 DEF AllBelow

LEMMA EndFunctionDeclDescends ==
  ASSUME IInv, IInv', DInv, NEW b \in BOOLEAN, Top.at \in {"fun.rest", "fun.body"},
         b <=> Top.at = "fun.body", ~b => Tok = ";", EndFunctionDecl(b)
  PROVE  Descends
<1>1. CASE Stop("nullFuncType") \/ Stop("redefined")
  BY <1>1, StopEnds DEF EndFunctionDecl
<1>2. CASE /\ IF b THEN UNCHANGED lexVars ELSE Advance
           /\ Return(NoValue)
           /\ UNCHANGED <<modes, records, status>>
  <2>1. Top.at \notin Outermost /\ Top.at \notin Rewinding
    BY DEF Outermost, Rewinding
  <2>2. CASE b
    <3>1. AllBelow("fun.body")
      BY BelowBody
    <3> QED BY <1>2, <2>1, <2>2, <3>1, RankReturn DEF EndFunctionDecl
  <2>3. CASE ~b
    BY <1>2, <2>1, <2>3, TokenReturn DEF EndFunctionDecl
  <2> QED BY <2>2, <2>3
<1> QED BY <1>1, <1>2 DEF EndFunctionDecl

LEMMA ParseFunctionDeclDescends ==
  ASSUME IInv, IInv', DInv, ParseFunctionDecl
  PROVE  Descends
<1>0. Top \in Frames
  BY TopFrame
<1>1. CASE /\ At("fun")
           /\ UNCHANGED <<lexVars, semaVars, external, status>>
           /\ Call("fun.spec", "spec", Obj)
  <2>1. /\ Within("fun", "fun.spec") /\ "fun.spec" \in Callers("spec") /\ "spec" \notin Rewinding
        /\ Below("fun", "spec") /\ "spec" \notin Unseen /\ "fun.spec" \in Labels
    BY DEF Within, Below, Callers, Rank, Rewinding, ReadTwice, Unseen, Labels
  <2> QED BY <1>1, <2>1, RankCall DEF At
<1>2. CASE /\ At("fun.spec")
           /\ UNCHANGED <<lexVars, modes, records, external, status>>
           /\ CallFrom([Top EXCEPT !.at = "fun.decl", !.tdef = ret.tdef], "dtor", ret.shape)
  <2> DEFINE f == [Top EXCEPT !.at = "fun.decl", !.tdef = ret.tdef]
  <2>1. f.at = "fun.decl"
    BY <1>0 DEF Frames
  <2>2. CallFrom(f, "dtor", ret.shape)
    BY <1>2
  <2> HIDE DEF f
  <2>3. Stays(f) /\ "dtor" \notin Rewinding /\ f.at \in Callers("dtor")
    BY <1>2, <2>1 DEF Stays, Callers, Rewinding, At
  <2>4. Onward("dtor")
    <3>1. Below("fun.spec", "dtor") /\ "dtor" \notin Unseen
      BY DEF Below, Rank, ReadTwice, Unseen
    <3> QED BY <1>2, <3>1, RankOnward DEF At
  <2> QED BY <1>2, <2>2, <2>3, <2>4, CallDescends DEF At
<1>3. CASE /\ At("fun.decl")
           /\ UNCHANGED <<lexVars, semaVars, external, status>>
           /\ Continue([Top EXCEPT !.at = "fun.rest", !.base = ret.shape, !.name = ret.name])
  <2>1. [Top EXCEPT !.at = "fun.rest", !.base = ret.shape, !.name = ret.name].at = "fun.rest"
    BY <1>0 DEF Frames
  <2>2. Within("fun.decl", "fun.rest") /\ Below("fun.decl", "fun.rest") /\ "fun.rest" \notin Unseen
    BY DEF Within, Below, Callers, Rank, Rewinding, ReadTwice, Unseen
  <2> QED BY <1>3, <2>1, <2>2, RankLocal DEF At
<1>4. CASE /\ At("fun.rest")
           /\ Stop("syntax") \/ Stop("redefined")
  BY <1>4, StopEnds DEF At
<1>5. CASE /\ At("fun.rest") /\ Tok = ";"
           /\ Advance
           /\ Return(NoValue)
           /\ UNCHANGED <<modes, records, external, status>>
  BY <1>5, TokenReturn DEF At, Outermost, Rewinding
<1>6. CASE At("fun.rest") /\ Tok = ";" /\ EndFunctionDecl(FALSE)
  BY <1>6, EndFunctionDeclDescends DEF At
<1>7. CASE /\ At("fun.rest")
           /\ UNCHANGED <<lexVars, semaVars, external, status>>
           /\ Call("fun.body", "block", Obj)
  <2>1. /\ Within("fun.rest", "fun.body") /\ "fun.body" \in Callers("block") /\ "block" \notin Rewinding
        /\ Below("fun.rest", "block") /\ "block" \notin Unseen /\ "fun.body" \in Labels
    BY DEF Within, Below, Callers, Rank, Rewinding, ReadTwice, Unseen, Labels, ScopeHeld
  <2> QED BY <1>7, <2>1, RankCall DEF At
<1>8. CASE At("fun.body") /\ EndFunctionDecl(TRUE)
  BY <1>8, EndFunctionDeclDescends DEF At
<1> QED BY <1>1, <1>2, <1>3, <1>4, <1>5, <1>6, <1>7, <1>8 DEF ParseFunctionDecl

LEMMA ParseDeclareStmtDescends ==
  ASSUME IInv, IInv', DInv, ParseDeclareStmt
  PROVE  Descends
<1>0. Top \in Frames
  BY TopFrame
<1>1. CASE /\ At("decl")
           /\ UNCHANGED <<lexVars, semaVars, external, status>>
           /\ Call("decl.spec", "spec", Obj)
  <2>1. /\ Within("decl", "decl.spec") /\ "decl.spec" \in Callers("spec") /\ "spec" \notin Rewinding
        /\ Below("decl", "spec") /\ "spec" \notin Unseen /\ "decl.spec" \in Labels
    BY DEF Within, Below, Callers, Rank, Rewinding, ReadTwice, Unseen, Labels
  <2> QED BY <1>1, <2>1, RankCall DEF At
<1>2. CASE /\ At("decl.spec") /\ Tok = ";" /\ Advance /\ Return(NoValue)
           /\ UNCHANGED <<semaVars, external, status>>
  BY <1>2, TokenReturn DEF At, Outermost, Rewinding
<1>3. CASE /\ At("decl.spec")
           /\ UNCHANGED <<lexVars, semaVars, external, status>>
           /\ Continue([Top EXCEPT !.at = "decl.next", !.base = ret.shape, !.tdef = ret.tdef])
  <2>1. [Top EXCEPT !.at = "decl.next", !.base = ret.shape, !.tdef = ret.tdef].at = "decl.next"
    BY <1>0 DEF Frames
  <2>2. Within("decl.spec", "decl.next") /\ Below("decl.spec", "decl.next") /\ "decl.next" \notin Unseen
    BY DEF Within, Below, Callers, Rank, Rewinding, ReadTwice, Unseen
  <2> QED BY <1>3, <2>1, <2>2, RankLocal DEF At
<1>4. CASE /\ At("decl.next")
           /\ UNCHANGED <<lexVars, envs, records, external, status>>
           /\ Call(IF Top.tdef THEN "decl.typedef" ELSE "decl.node", "dtor", Top.base)
  <2> DEFINE n == IF Top.tdef THEN "decl.typedef" ELSE "decl.node"
  <2>1. n \in {"decl.typedef", "decl.node"} /\ Call(n, "dtor", Top.base)
    BY <1>4
  <2> HIDE DEF n
  <2>2. /\ Within("decl.next", n) /\ n \in Callers("dtor") /\ n \in Labels
        /\ "dtor" \notin Rewinding /\ Below("decl.next", "dtor") /\ "dtor" \notin Unseen
    BY <2>1 DEF Within, Below, Callers, Rank, Rewinding, ReadTwice, Unseen, Labels, SkipHeld
  <2> QED BY <1>4, <2>1, <2>2, RankCall DEF At
<1>5. CASE At("decl.typedef") /\ Stop("redefined")
  BY <1>5, StopEnds DEF At
<1>6. CASE /\ At("decl.typedef") \/ At("decl.node")
           /\ Goto("decl.more") /\ UNCHANGED <<lexVars, status>>
  <2>1. \A l \in {"decl.typedef", "decl.node"} : Within(l, "decl.more") /\ Below(l, "decl.more")
    BY DEF Within, Below, Callers, Rank, Rewinding, ReadTwice
  <2>2. "decl.more" \notin Unseen /\ "decl.more" \in Labels
    BY DEF Unseen, Labels
  <2> QED BY <1>6, <2>1, <2>2, RankGoto DEF At
<1>7. CASE /\ At("decl.more") /\ Tok = ";" /\ Advance
           /\ Return([NoValue EXCEPT !.flag = ~Top.tdef])
           /\ UNCHANGED <<semaVars, external, status>>
  BY <1>7, TokenReturn DEF At, Outermost, Rewinding
<1>8. CASE /\ At("decl.more") /\ Tok = "," /\ Advance
           /\ Continue([Top EXCEPT !.at = "decl.next", !.more = TRUE])
           /\ UNCHANGED <<semaVars, external, status>>
  <2>1. [Top EXCEPT !.at = "decl.next", !.more = TRUE].at = "decl.next"
    BY <1>0 DEF Frames
  <2>2. Within("decl.more", "decl.next") /\ "decl.next" \notin Unseen
    BY DEF Within, Callers, Rewinding, Unseen
  <2> QED BY <1>8, <2>1, <2>2, TokenLocal DEF At
<1>9. CASE At("decl.more") /\ Stop("syntax")
  BY <1>9, StopEnds DEF At
<1> QED BY <1>1, <1>2, <1>3, <1>4, <1>5, <1>6, <1>7, <1>8, <1>9 DEF ParseDeclareStmt

LEMMA ParseDeclSpecDescends ==
  ASSUME IInv, IInv', DInv, ParseDeclSpec
  PROVE  Descends
<1>0. Top \in Frames
  BY TopFrame
<1>a. ASSUME At("spec.loop"), Tok # "eof", NEW f, f.at = "spec.loop", SpecToken(f)
      PROVE  Descends
  <2>1. Within("spec.loop", "spec.loop") /\ "spec.loop" \notin Unseen
    BY DEF Within, Rewinding, Unseen
  <2> QED BY <1>a, <2>1, TokenLocal DEF At, SpecToken
<1>b. ASSUME At("spec.loop"), UNCHANGED <<lexVars, status>>, NEW v, Return(v)
      PROVE  Descends
  <2>1. AllBelow("spec.loop") /\ "spec.loop" \notin Outermost /\ "spec.loop" \notin Rewinding
    BY DEF AllBelow, Callers, Rank, ReadTwice, Outermost, Rewinding
  <2> QED BY <1>b, <2>1, RankReturn DEF At
<1>1. CASE At("spec") /\ (Stop("undefined") \/ Stop("type"))
  BY <1>1, StopEnds DEF At
<1>2. CASE At("spec") /\ Goto("spec.loop") /\ UNCHANGED <<lexVars, semaVars, external, status>>
  <2>1. /\ Within("spec", "spec.loop") /\ Below("spec", "spec.loop") /\ "spec.loop" \notin Unseen
        /\ "spec.loop" \in Labels
    BY DEF Within, Below, Callers, Rank, Rewinding, ReadTwice, Unseen, Labels
  <2> QED BY <1>2, <2>1, RankGoto DEF At
<1>3. CASE /\ At("spec.loop")
           /\ Stop("endOfInput") \/ Stop("undefined") \/ Stop("type")
  BY <1>3, StopEnds DEF At
<1>4. CASE /\ At("spec.loop") /\ Tok \in Names
           /\ \/ /\ UNCHANGED <<lexVars, semaVars, external, status>>
                 /\ Return([NoValue EXCEPT !.tdef = Top.tdef])
              \/ SpecToken([Top EXCEPT !.user = TRUE, !.base = FindObjSymbol(envs, Tok).shape])
  <2>1. [Top EXCEPT !.user = TRUE, !.base = FindObjSymbol(envs, Tok).shape].at = "spec.loop"
    BY <1>0, <1>4 DEF Frames, At
  <2>2. Tok # "eof"
    BY <1>4, NamesAssumption
  <2> QED BY <1>4, <1>a, <1>b, <2>1, <2>2
<1>5. CASE /\ At("spec.loop") /\ Tok = "typedef" /\ SpecToken([Top EXCEPT !.tdef = TRUE])
  <2>1. [Top EXCEPT !.tdef = TRUE].at = "spec.loop"
    BY <1>0, <1>5 DEF Frames, At
  <2> QED BY <1>5, <1>a, <2>1
<1>6. CASE /\ At("spec.loop") /\ Tok \in BasicTypes /\ SpecToken([Top EXCEPT !.kind = Tok])
  <2>1. [Top EXCEPT !.kind = Tok].at = "spec.loop"
    BY <1>0, <1>6 DEF Frames, At
  <2>2. Tok # "eof"
    BY <1>6 DEF BasicTypes
  <2> QED BY <1>6, <1>a, <2>1, <2>2
<1>7. CASE /\ At("spec.loop") /\ Tok = "long" /\ SpecToken([Top EXCEPT !.size = @ + 1])
  <2>1. [Top EXCEPT !.size = @ + 1].at = "spec.loop"
    BY <1>0, <1>7 DEF Frames, At
  <2> QED BY <1>7, <1>a, <2>1
<1>8. CASE /\ At("spec.loop") /\ Tok = "struct"
           /\ UNCHANGED <<lexVars, semaVars, external, status>>
           /\ Call("spec.struct", "struct", Obj)
  <2>1. /\ Within("spec.loop", "spec.struct") /\ "spec.struct" \in Callers("struct")
        /\ "struct" \notin Rewinding /\ Below("spec.loop", "struct") /\ "spec.struct" \in Labels
    BY DEF Within, Below, Callers, Rank, Rewinding, ReadTwice, Labels
  <2> QED BY <1>8, <2>1, RankCall DEF At
<1>9. CASE At("spec.struct") /\ Stop("type")
  BY <1>9, StopEnds DEF At
<1>10. CASE /\ At("spec.struct")
            /\ UNCHANGED <<lexVars, semaVars, external, status>>
            /\ Continue([Top EXCEPT !.at = "spec.loop", !.user = TRUE,
                                    !.base = Obj, !.rec = ret.rec])
  <2>1. [Top EXCEPT !.at = "spec.loop", !.user = TRUE, !.base = Obj, !.rec = ret.rec].at
          = "spec.loop"
    BY <1>0 DEF Frames
  <2>2. Within("spec.struct", "spec.loop") /\ Below("spec.struct", "spec.loop") /\ "spec.loop" \notin Unseen
    BY DEF Within, Below, Callers, Rank, Rewinding, ReadTwice, Unseen
  <2> QED BY <1>10, <2>1, <2>2, RankLocal DEF At
<1>11. CASE /\ At("spec.loop")
            /\ UNCHANGED <<lexVars, semaVars, external, status>>
            /\ Return([NoValue EXCEPT !.shape = Top.base, !.rec = Top.rec, !.tdef = Top.tdef])
  BY <1>11, <1>b
<1> QED BY <1>1, <1>2, <1>3, <1>4, <1>5, <1>6, <1>7, <1>8, <1>9, <1>10, <1>11 DEF ParseDeclSpec

LEMMA ParseStructOrUnionSpecDescends ==
  ASSUME IInv, IInv', DInv, ParseStructOrUnionSpec
  PROVE  Descends
<1>0. Top \in Frames
  BY TopFrame
<1>1. CASE /\ At("struct") /\ Advance /\ Goto("struct.tag")
           /\ UNCHANGED <<semaVars, external, status>>
  <2>1. Tok # "eof"
    BY <1>1 DEF DInv, At, Unseen
  <2>2. Within("struct", "struct.tag") /\ "struct.tag" \notin Unseen /\ "struct.tag" \in Labels
    BY DEF Within, Callers, Rewinding, Unseen, Labels
  <2> QED BY <1>1, <2>1, <2>2, TokenGoto DEF At
<1>2. CASE /\ At("struct.tag")
           /\ LET found == IF Tok \in Names THEN FindTagSymbol(envs, Tok) ELSE NoRecord
                  rec == IF found # NoRecord THEN found ELSE Len(records) + 1
              IN  /\ IF Tok \in Names THEN Advance ELSE UNCHANGED lexVars
                  /\ Continue([Top EXCEPT !.at = "struct.body", !.rec = rec, !.name = tok])
                  /\ UNCHANGED <<modes, envs, external, status>>
  <2> DEFINE found == IF Tok \in Names THEN FindTagSymbol(envs, Tok) ELSE NoRecord
             rec == IF found # NoRecord THEN found ELSE Len(records) + 1
             f == [Top EXCEPT !.at = "struct.body", !.rec = rec, !.name = tok]
  <2>1. f.at = "struct.body"
    BY <1>0 DEF Frames
  <2>2. Continue(f) /\ status' = status /\ (IF Tok \in Names THEN Advance ELSE UNCHANGED lexVars)
    BY <1>2
  <2> HIDE DEF f
  <2>3. Within("struct.tag", "struct.body") /\ Below("struct.tag", "struct.body")
        /\ "struct.body" \notin Unseen
    BY DEF Within, Below, Callers, Rank, Rewinding, ReadTwice, Unseen
  <2>4. CASE Tok \in Names
    <3>1. Tok # "eof"
      BY <2>4, NamesAssumption
    <3> QED BY <1>2, <2>1, <2>2, <2>3, <2>4, <3>1, TokenLocal DEF At
  <2>5. CASE Tok \notin Names
    BY <1>2, <2>1, <2>2, <2>3, <2>5, RankLocal DEF At
  <2> QED BY <2>4, <2>5
<1>3. CASE /\ At("struct.body")
           /\ UNCHANGED <<lexVars, semaVars, external, status>>
           /\ Return([NoValue EXCEPT !.rec = Top.rec])
  <2>1. "struct.body" \notin Outermost /\ "struct.body" \notin Rewinding
    BY DEF Outermost, Rewinding
  <2>2. AllBelow("struct.body")
    <3>1. Callers("struct.body") = {"spec.struct"} /\ "spec.struct" \notin ReadTwice
      BY DEF Callers, ReadTwice
    <3>2. Rank("spec.struct") <= Rank("struct.body")
      BY DEF Rank
    <3> QED BY <3>1, <3>2 DEF AllBelow
  <2> QED BY <1>3, <2>1, <2>2, RankReturn DEF At
<1>4. CASE /\ At("struct.body") /\ Tok = "{" /\ Advance
           /\ Continue([Top EXCEPT !.at = "struct.members", !.begin = tok])
           /\ UNCHANGED <<modes, records, external, status>>
  <2>1. [Top EXCEPT !.at = "struct.members", !.begin = tok].at = "struct.members"
    BY <1>0 DEF Frames
  <2>2. Within("struct.body", "struct.members") /\ "struct.members" \notin Unseen
    BY DEF Within, Callers, Rewinding, Unseen
  <2> QED BY <1>4, <2>1, <2>2, TokenLocal DEF At
<1>5. CASE /\ At("struct.members")
           /\ UNCHANGED <<lexVars, semaVars, external, status>>
           /\ Call("struct.member", "decl", Obj)
  <2>1. /\ Within("struct.members", "struct.member") /\ "struct.member" \in Callers("decl")
        /\ "decl" \notin Rewinding /\ Below("struct.members", "decl") /\ "decl" \notin Unseen
        /\ "struct.member" \in Labels
    BY DEF Within, Below, Callers, Rank, Rewinding, ReadTwice, Unseen, Labels, ScopeHeld
  <2> QED BY <1>5, <2>1, RankCall DEF At
<1>6. CASE At("struct.member") /\ Stop("nullMember")
  BY <1>6, StopEnds DEF At
<1>7. CASE /\ At("struct.member") /\ Goto("struct.members")
           /\ UNCHANGED <<lexVars, semaVars, external, status>>
  <2>1. /\ Within("struct.member", "struct.members") /\ Below("struct.member", "struct.members")
        /\ "struct.members" \notin Unseen /\ "struct.members" \in Labels
    BY DEF Within, Below, Callers, Rank, Rewinding, ReadTwice, Unseen, Labels, ScopeHeld
  <2> QED BY <1>7, <2>1, RankGoto DEF At
<1>8. CASE At("struct.members") /\ status' = "redefined" /\ UNCHANGED <<lexVars, envs, stack, ret>>
  BY <1>8, StopDescends DEF At
<1>9. CASE /\ At("struct.members") /\ Tok = "}" /\ Advance
           /\ Return([NoValue EXCEPT !.rec = Top.rec])
           /\ Running
  BY <1>9, TokenReturn DEF At, Outermost, Rewinding, Running
<1> QED BY <1>1, <1>2, <1>3, <1>4, <1>5, <1>6, <1>7, <1>8, <1>9 DEF ParseStructOrUnionSpec

\* A token, and a call with it.
LEMMA TokenCall ==
  ASSUME IInv, IInv', DInv, status = "run", Advance, Tok # "eof", status' = status,
         NEW f, NEW l, NEW b, CallFrom(f, l, b), Within(Top.at, f.at),
         f.at \in Callers(l), l \notin Rewinding, l \notin Unseen
  PROVE  Descends
<1>1. Stays(f)
  BY DEF Within, Stays
<1> QED BY <1>1, TokenOnward, CallDescends

\* A declarator returns to a declaration, a parameter, or the parenthesis around it.
LEMMA DeclaratorLeaves ==
  ASSUME IInv, IInv', DInv, status = "run", Top.at \in {"dtor.init", "dtor.more"},
         UNCHANGED lexVars, status' = status, NEW v, Return(v)
  PROVE  Descends
<1>1. Top.at \notin Outermost /\ Top.at \notin Rewinding /\ Rank(Top.at) = 8
  BY DEF Outermost, Rewinding, Rank
<1> DEFINE C == {"isfun.decl", "fun.decl", "decl.typedef", "decl.node", "param.decl",
                 "dtor.skipped", "dtor.real"}
<1>2. Callers(Top.at) = C
  BY DEF Callers
<1>3. \A k \in C : Rank(k) <= 8 /\ k \notin ReadTwice
  BY DEF Rank, ReadTwice
<1> HIDE DEF C
<1>4. AllBelow(Top.at)
  BY <1>1, <1>2, <1>3 DEF AllBelow
<1> QED BY <1>1, <1>4, RankReturn

LEMMA DeclaratorDescends ==
  ASSUME IInv, IInv', DInv, Declarator
  PROVE  Descends
<1>0. Top \in Frames
  BY TopFrame
<1>a. "suffix" \notin Rewinding /\ "suffix" \notin Unseen
  BY DEF Rewinding, Unseen
<1>1. CASE /\ At("dtor") /\ Tok = "*" /\ Advance
           /\ Continue([Top EXCEPT !.base = PointerTo(@)])
           /\ UNCHANGED <<semaVars, external, status>>
  <2>1. [Top EXCEPT !.base = PointerTo(@)].at = "dtor"
    BY <1>0, <1>1 DEF Frames, At
  <2>2. Within("dtor", "dtor") /\ "dtor" \notin Unseen
    BY DEF Within, Rewinding, Unseen
  <2> QED BY <1>1, <2>1, <2>2, TokenLocal DEF At
<1>2. CASE /\ At("dtor") /\ Tok = "("
           /\ BeginSkip
           /\ NextTokenFrom(cur)
           /\ UNCHANGED <<envs, records, external, status>>
           /\ CallFrom([Top EXCEPT !.at = "dtor.skipped", !.begin = tok, !.mark = envs],
                       "dtor", Obj)
  BY <1>2, ParenthesisBegins
<1>3. CASE At("dtor.skipped") /\ Stop("syntax")
  BY <1>3, StopEnds DEF At
<1>4. CASE /\ At("dtor.skipped") /\ Tok = ")" /\ Advance
           /\ UNCHANGED <<semaVars, external, status>>
           /\ Call("dtor.typed", "suffix", Top.base)
  <2>1. [Top EXCEPT !.at = "dtor.typed"].at = "dtor.typed"
    BY <1>0 DEF Frames
  <2>2. Within("dtor.skipped", "dtor.typed") /\ "dtor.typed" \in Callers("suffix")
    BY DEF Within, Callers, Rewinding
  <2> QED BY <1>4, <1>a, <2>1, <2>2, TokenCall DEF At, Call
<1>5. CASE /\ At("dtor.typed")
           /\ EndSkip
           /\ NextTokenFrom(Last(saved))
           /\ UNCHANGED <<envs, records, external, status>>
           /\ CallFrom([Top EXCEPT !.at = "dtor.real", !.stop = tok], "dtor", ret.shape)
  BY <1>5, ParenthesisRead
<1>6. CASE At("dtor.real") /\ Stop("syntax")
  BY <1>6, StopEnds DEF At
<1>7. CASE /\ At("dtor.real") /\ Tok = ")" /\ Advance
           /\ UNCHANGED <<semaVars, external, status>>
           /\ CallFrom([Top EXCEPT !.at = "dtor.tail", !.base = ret.shape, !.name = ret.name],
                       "suffix", Obj)
  <2>1. [Top EXCEPT !.at = "dtor.tail", !.base = ret.shape, !.name = ret.name].at = "dtor.tail"
    BY <1>0 DEF Frames
  <2>2. Within("dtor.real", "dtor.tail") /\ "dtor.tail" \in Callers("suffix")
    BY DEF Within, Callers, Rewinding
  <2> QED BY <1>7, <1>a, <2>1, <2>2, TokenCall DEF At
<1>8. CASE At("dtor.tail") /\ Goto("dtor.init") /\ UNCHANGED <<lexVars, semaVars, external, status>>
  <2>1. /\ Within("dtor.tail", "dtor.init") /\ Below("dtor.tail", "dtor.init")
        /\ "dtor.init" \notin Unseen /\ "dtor.init" \in Labels
    BY DEF Within, Below, Callers, Rank, Rewinding, ReadTwice, Unseen, Labels
  <2> QED BY <1>8, <2>1, RankGoto DEF At
<1>9. CASE /\ At("dtor") /\ Tok \in Names /\ Advance
           /\ UNCHANGED <<semaVars, external, status>>
           /\ CallFrom([Top EXCEPT !.at = "dtor.ident", !.name = tok], "suffix", Top.base)
  <2>1. [Top EXCEPT !.at = "dtor.ident", !.name = tok].at = "dtor.ident"
    BY <1>0 DEF Frames
  <2>2. Within("dtor", "dtor.ident") /\ "dtor.ident" \in Callers("suffix")
    BY DEF Within, Callers, Rewinding
  <2>3. Tok # "eof"
    BY <1>9, NamesAssumption
  <2> QED BY <1>9, <1>a, <2>1, <2>2, <2>3, TokenCall DEF At
<1>10. CASE At("dtor") /\ Stop("syntax")
  BY <1>10, StopEnds DEF At
<1>11. CASE At("dtor.ident") /\ Stop("redefined")
  BY <1>11, StopEnds DEF At
<1>12. CASE /\ At("dtor.ident")
            /\ UNCHANGED <<lexVars, modes, records, external, status>>
            /\ Continue([Top EXCEPT !.at = "dtor.init", !.base = ret.shape])
  <2>1. [Top EXCEPT !.at = "dtor.init", !.base = ret.shape].at = "dtor.init"
    BY <1>0 DEF Frames
  <2>2. /\ Within("dtor.ident", "dtor.init") /\ Below("dtor.ident", "dtor.init")
        /\ "dtor.init" \notin Unseen
    BY DEF Within, Below, Callers, Rank, Rewinding, ReadTwice, Unseen
  <2> QED BY <1>12, <2>1, <2>2, RankLocal DEF At
<1>13. CASE /\ At("dtor.init") /\ Tok = "=" /\ Advance /\ Goto("dtor.value")
            /\ UNCHANGED <<semaVars, external, status>>
  <2>1. Within("dtor.init", "dtor.value") /\ "dtor.value" \notin Unseen /\ "dtor.value" \in Labels
    BY DEF Within, Callers, Rewinding, Unseen, Labels
  <2> QED BY <1>13, <2>1, TokenGoto DEF At
<1>14. CASE /\ At("dtor.init")
            /\ UNCHANGED <<lexVars, semaVars, external, status>>
            /\ Return([NoValue EXCEPT !.shape = Top.base, !.name = Top.name])
  BY <1>14, DeclaratorLeaves DEF At
<1> QED BY <1>1, <1>2, <1>3, <1>4, <1>5, <1>6, <1>7, <1>8, <1>9, <1>10, <1>11, <1>12, <1>13, <1>14
        DEF Declarator

LEMMA ParseInitializerDescends ==
  ASSUME IInv, IInv', DInv, ParseInitializer
  PROVE  Descends
<1>1. CASE At("dtor.value") /\ Primary("dtor.more")
  <2>1. Within("dtor.value", "dtor.more") /\ "dtor.more" \notin Unseen /\ "dtor.more" \in Labels
    BY DEF Within, Callers, Rewinding, Unseen, Labels
  <2> QED BY <1>1, <2>1, PrimaryDescends DEF At
<1>2. CASE At("dtor.more") /\ Stop("beyond")
  BY <1>2, StopEnds DEF At
<1>3. CASE /\ At("dtor.more")
           /\ UNCHANGED <<lexVars, semaVars, external, status>>
           /\ Return([NoValue EXCEPT !.shape = Top.base, !.name = Top.name])
  BY <1>3, DeclaratorLeaves DEF At
<1> QED BY <1>1, <1>2, <1>3 DEF ParseInitializer

\* What DirectDeclaratorSuffix goes on with has a token of its own, or returns.
LEMMA DirectDeclaratorSuffixDescends ==
  ASSUME IInv, IInv', DInv, DirectDeclaratorSuffix
  PROVE  Descends
<1>0. Top \in Frames
  BY TopFrame
<1>a. /\ Within("suffix", "params") /\ Within("suffix", "suffix.array")
      /\ Within("suffix.array", "suffix.array")
      /\ {"params", "suffix.array"} \subseteq Labels \ Unseen
  BY DEF Within, Callers, Rewinding, Unseen, Labels
<1>1. CASE At("suffix") /\ Tok = "(" /\ Advance /\ Goto("params") /\ UNCHANGED <<semaVars, external, status>>
  BY <1>1, <1>a, TokenGoto DEF At
<1>2. CASE /\ At("suffix") /\ Tok = "[]" /\ Advance
           /\ Continue([Top EXCEPT !.at = "suffix.array", !.base = Obj])
           /\ UNCHANGED <<semaVars, external, status>>
  <2>1. [Top EXCEPT !.at = "suffix.array", !.base = Obj].at = "suffix.array"
    BY <1>0 DEF Frames
  <2> QED BY <1>2, <1>a, <2>1, TokenLocal DEF At
<1>3. CASE At("suffix.array") /\ Tok = "[]" /\ Advance /\ Goto("suffix.array")
           /\ UNCHANGED <<semaVars, external, status>>
  BY <1>3, <1>a, TokenGoto DEF At
<1>4. CASE /\ At("suffix") \/ At("suffix.array")
           /\ UNCHANGED <<lexVars, semaVars, external, status>>
           /\ Return([NoValue EXCEPT !.shape = Top.base])
  <2>1. Top.at \notin Outermost /\ Top.at \notin Rewinding /\ status = "run"
    BY <1>4 DEF At, Outermost, Rewinding
  <2>2. AllBelow(Top.at)
    <3>1. Callers(Top.at) = {"dtor.typed", "dtor.tail", "dtor.ident"} /\ Rank(Top.at) = 10
      BY <1>4 DEF At, Callers, Rank
    <3>2. {"dtor.typed", "dtor.tail", "dtor.ident"} \cap ReadTwice = {}
      BY DEF ReadTwice
    <3> QED BY <3>1, <3>2, RankBounds DEF AllBelow
  <2> QED BY <1>4, <2>1, <2>2, RankReturn
<1> QED BY <1>1, <1>2, <1>3, <1>4 DEF DirectDeclaratorSuffix

LEMMA DirectDeclaratorFuncSuffixDescends ==
  ASSUME IInv, IInv', DInv, DirectDeclaratorFuncSuffix
  PROVE  Descends
<1>0. Top \in Frames
  BY TopFrame
<1>a. /\ Within("params", "param") /\ Below("params", "param")
      /\ Within("param", "params.end") /\ Within("param", "param.spec")
      /\ Within("param.spec", "param.decl")
      /\ Within("param.decl", "params") /\ Below("param.decl", "params")
      /\ {"params", "param", "params.end"} \subseteq Labels \ Unseen
      /\ {"param.spec", "param.decl"} \subseteq Labels
  BY DEF Within, Below, Callers, Rank, Rewinding, ReadTwice, Unseen, Labels
<1>b. /\ "param.spec" \in Callers("spec") /\ "spec" \notin Rewinding /\ Below("param", "spec")
      /\ "param.decl" \in Callers("dtor") /\ "dtor" \notin Rewinding /\ Below("param.spec", "dtor")
      /\ "spec" \notin Unseen /\ "dtor" \notin Unseen
  BY DEF Callers, Rewinding, Below, Rank, ReadTwice, Unseen
<1>1. CASE At("params") /\ Tok = "," /\ Advance /\ Goto("param") /\ UNCHANGED <<semaVars, external, status>>
  BY <1>1, <1>a, TokenGoto DEF At
<1>2. CASE At("params") /\ Goto("param") /\ UNCHANGED <<lexVars, semaVars, external, status>>
  BY <1>2, <1>a, RankGoto DEF At
<1>3. CASE /\ At("param") /\ Tok \in {"void", "..."} /\ Advance /\ Goto("params.end")
           /\ UNCHANGED <<semaVars, external, status>>
  BY <1>3, <1>a, TokenGoto DEF At
<1>4. CASE /\ At("param")
           /\ UNCHANGED <<lexVars, semaVars, external, status>>
           /\ Call("param.spec", "spec", Obj)
  BY <1>4, <1>a, <1>b, RankCall DEF At
<1>5. CASE /\ At("param.spec")
           /\ UNCHANGED <<lexVars, semaVars, external, status>>
           /\ Call("param.decl", "dtor", ret.shape)
  BY <1>5, <1>a, <1>b, RankCall DEF At
<1>6. CASE /\ At("param.decl")
           /\ UNCHANGED <<lexVars, semaVars, external, status>>
           /\ Continue([Top EXCEPT !.at = "params", !.more = TRUE])
  <2>1. [Top EXCEPT !.at = "params", !.more = TRUE].at = "params"
    BY <1>0 DEF Frames
  <2> QED BY <1>6, <1>a, <2>1, RankLocal DEF At
<1>7. CASE (At("params") \/ At("params.end")) /\ Stop("syntax")
  BY <1>7, StopEnds DEF At
<1>8. CASE /\ At("params") \/ At("params.end")
           /\ Tok = ")" /\ Advance
           /\ Return([NoValue EXCEPT !.shape = tok])
           /\ UNCHANGED <<semaVars, external, status>>
  BY <1>8, TokenReturn DEF At, Outermost, Rewinding
<1> QED BY <1>1, <1>2, <1>3, <1>4, <1>5, <1>6, <1>7, <1>8 DEF DirectDeclaratorFuncSuffix

LEMMA StatementsBelow ==
  \A l \in {"decl", "block", "expr", "for"} : Within("stmt", l) /\ Below("stmt", l)
<1>1. Within("stmt", "decl") /\ Within("stmt", "block") /\ Within("stmt", "expr") /\ Within("stmt", "for")
  BY DEF Within, Callers, Rewinding
<1>2. Below("stmt", "decl") /\ Below("stmt", "block") /\ Below("stmt", "expr") /\ Below("stmt", "for")
  BY DEF Below, Rank, ReadTwice
<1> QED BY <1>1, <1>2

LEMMA ParseStmtDescends ==
  ASSUME IInv, IInv', DInv, ParseStmt
  PROVE  Descends
<1>1. CASE At("stmt") /\ Tok = ";" /\ Advance /\ Return(NoValue) /\ UNCHANGED <<semaVars, external, status>>
  BY <1>1, TokenReturn DEF At, Outermost, Rewinding
<1>2. CASE At("stmt") /\ Stop("undefined")
  BY <1>2, StopEnds DEF At
<1>3. CASE /\ At("stmt")
           /\ UNCHANGED <<lexVars, semaVars, external, status>>
           /\ TailCall(IF IsTypeName(Tok) THEN "decl"
                       ELSE IF Tok = "{" THEN "block"
                       ELSE IF Tok = "for" THEN "for" ELSE "expr", Obj)
  <2> DEFINE l == IF IsTypeName(Tok) THEN "decl"
                  ELSE IF Tok = "{" THEN "block"
                  ELSE IF Tok = "for" THEN "for" ELSE "expr"
  <2>1. l \in {"decl", "block", "expr", "for"} /\ (l = "for" => Tok = "for") /\ TailCall(l, Obj)
    BY <1>3
  <2> HIDE DEF l
  <2>2. Top.at \in CalmLabels /\ l \in Entries /\ Obj \in Shapes
    BY <1>3, <2>1 DEF At, CalmLabels, Labels, ScopeHeld, SkipHeld, SaveHeld, Outermost, Entries, Shapes, Obj
  <2>3. UNCHANGED <<envs, modes, saved>>
    BY <1>3 DEF lexVars, semaVars
  <2>4. NewFrame(l, Obj).at = l /\ Continue(NewFrame(l, Obj))
    BY <2>1, <2>2, <2>3, TailFrame
  <2>5. Within("stmt", l) /\ Below("stmt", l) /\ (l \notin Unseen \/ l = "for")
    BY <2>1, StatementsBelow DEF Unseen
  <2>6. Onward(l)
    BY <1>3, <2>1, <2>5, RankOnward DEF At
  <2> QED BY <1>3, <2>4, <2>5, <2>6, LocalDescends DEF At
<1> QED BY <1>1, <1>2, <1>3 DEF ParseStmt

LEMMA ParseExprStmtDescends ==
  ASSUME IInv, IInv', DInv, ParseExprStmt
  PROVE  Descends
<1>1. CASE At("expr") /\ Primary("expr.end")
  <2>1. Within("expr", "expr.end") /\ "expr.end" \notin Unseen /\ "expr.end" \in Labels
    BY DEF Within, Callers, Rewinding, Unseen, Labels
  <2> QED BY <1>1, <2>1, PrimaryDescends DEF At
<1>2. CASE At("expr.end") /\ WrongToken(";")
  BY <1>2, WrongTokenDescends DEF At
<1>3. CASE /\ At("expr.end") /\ Tok = ";" /\ Advance /\ Return(NoValue)
           /\ UNCHANGED <<semaVars, external, status>>
  BY <1>3, TokenReturn DEF At, Outermost, Rewinding
<1> QED BY <1>1, <1>2, <1>3 DEF ParseExprStmt

LEMMA ParseBlockStmtDescends ==
  ASSUME IInv, IInv', DInv, ParseBlockStmt
  PROVE  Descends
<1>1. CASE At("block") /\ Stop("syntax")
  BY <1>1, StopEnds DEF At
<1>2. CASE /\ At("block") /\ Tok = "{" /\ Advance /\ Goto("block.loop")
           /\ UNCHANGED <<modes, records, external, status>>
  <2>1. Within("block", "block.loop") /\ "block.loop" \notin Unseen /\ "block.loop" \in Labels
    BY DEF Within, Callers, Rewinding, Unseen, Labels, ScopeHeld
  <2> QED BY <1>2, <2>1, TokenGoto DEF At
<1>3. CASE /\ At("block.loop")
           /\ UNCHANGED <<lexVars, semaVars, external, status>>
           /\ Call("block.loop", "stmt", Obj)
  <2>1. /\ Within("block.loop", "block.loop") /\ "block.loop" \in Callers("stmt")
        /\ "stmt" \notin Rewinding /\ Below("block.loop", "stmt") /\ "stmt" \notin Unseen
        /\ "block.loop" \in Labels
    BY DEF Within, Below, Callers, Rank, Rewinding, ReadTwice, Unseen, Labels, ScopeHeld
  <2> QED BY <1>3, <2>1, RankCall DEF At
<1>4. CASE /\ At("block.loop") /\ Tok = "}" /\ Advance /\ Return(NoValue)
           /\ UNCHANGED <<modes, records, external, status>>
  BY <1>4, TokenReturn DEF At, Outermost, Rewinding
<1> QED BY <1>1, <1>2, <1>3, <1>4 DEF ParseBlockStmt

LEMMA ForTokenDescends ==
  ASSUME IInv, IInv', DInv, status = "run", NEW t, t # "eof", NEW l \in Labels, ForToken(t, l),
         Within(Top.at, l), l \notin Unseen
  PROVE  Descends
BY WrongTokenDescends, TokenGoto DEF ForToken

LEMMA ParseForStmtDescends ==
  ASSUME IInv, IInv', DInv, ParseForStmt
  PROVE  Descends
<1>a. /\ Within("for", "for.paren") /\ Within("for.paren", "for.init")
      /\ Within("for.init", "for.cond") /\ Within("for.cond", "for.inc")
      /\ Within("for.cond", "for.semi") /\ Within("for.semi", "for.inc")
      /\ Within("for.inc", "for.body") /\ Within("for.inc", "for.close")
      /\ Within("for.close", "for.body") /\ Within("for.body", "for.exit")
  BY DEF Within, Callers, Rewinding
<1>b. {"for.paren", "for.init", "for.cond", "for.semi", "for.inc", "for.close", "for.body",
       "for.exit"} \subseteq Labels \ Unseen
  BY DEF Unseen, Labels, ScopeHeld
<1>1. CASE At("for") /\ Advance /\ Goto("for.paren") /\ UNCHANGED <<semaVars, external, status>>
  <2>1. Tok # "eof"
    BY <1>1 DEF DInv, At, Unseen
  <2> QED BY <1>1, <1>a, <1>b, <2>1, TokenGoto DEF At
<1>2. CASE At("for.paren") /\ Stop("syntax")
  BY <1>2, StopEnds DEF At
<1>3. CASE /\ At("for.paren") /\ Tok = "(" /\ Advance /\ Goto("for.init")
           /\ UNCHANGED <<modes, records, external, status>>
  BY <1>3, <1>a, <1>b, TokenGoto DEF At
<1>4. CASE At("for.init") /\ Stop("undefined")
  BY <1>4, StopEnds DEF At
<1>5. CASE At("for.init") /\ ForToken(";", "for.cond")
  BY <1>5, <1>a, <1>b, ForTokenDescends DEF At
<1>6. CASE /\ At("for.init")
           /\ UNCHANGED <<lexVars, semaVars, external, status>>
           /\ Call("for.cond", IF IsTypeName(Tok) THEN "decl" ELSE "expr", Obj)
  <2> DEFINE l == IF IsTypeName(Tok) THEN "decl" ELSE "expr"
  <2>1. l \in {"decl", "expr"} /\ Call("for.cond", l, Obj)
    BY <1>6
  <2> HIDE DEF l
  <2>2. "for.cond" \in Callers(l) /\ l \notin Rewinding /\ Below("for.init", l) /\ l \notin Unseen
    BY <2>1 DEF Callers, Rewinding, Below, Rank, ReadTwice, Unseen
  <2> QED BY <1>6, <1>a, <1>b, <2>1, <2>2, RankCall DEF At
<1>7. CASE At("for.cond") /\ ForToken(";", "for.inc")
  BY <1>7, <1>a, <1>b, ForTokenDescends DEF At
<1>8. CASE At("for.cond") /\ Primary("for.semi")
  BY <1>8, <1>a, <1>b, PrimaryDescends DEF At
<1>9. CASE At("for.semi") /\ ForToken(";", "for.inc")
  BY <1>9, <1>a, <1>b, ForTokenDescends DEF At
<1>10. CASE At("for.inc") /\ ForToken(")", "for.body")
  BY <1>10, <1>a, <1>b, ForTokenDescends DEF At
<1>11. CASE At("for.inc") /\ Primary("for.close")
  BY <1>11, <1>a, <1>b, PrimaryDescends DEF At
<1>12. CASE At("for.close") /\ ForToken(")", "for.body")
  BY <1>12, <1>a, <1>b, ForTokenDescends DEF At
<1>13. CASE /\ At("for.body")
            /\ UNCHANGED <<lexVars, semaVars, external, status>>
            /\ Call("for.exit", "stmt", Obj)
  <2>1. "for.exit" \in Callers("stmt") /\ "stmt" \notin Rewinding /\ Below("for.body", "stmt")
        /\ "stmt" \notin Unseen
    BY DEF Callers, Rewinding, Below, Rank, ReadTwice, Unseen
  <2> QED BY <1>13, <1>a, <1>b, <2>1, RankCall DEF At
<1>14. CASE /\ At("for.exit") /\ Return(NoValue)
            /\ UNCHANGED <<lexVars, modes, records, external, status>>
  <2>1. "for.exit" \notin Outermost /\ "for.exit" \notin Rewinding
    BY DEF Outermost, Rewinding
  <2>2. AllBelow("for.exit")
    <3>1. Callers("for.exit") = {"block.loop", "for.exit"} /\ "block.loop" \notin ReadTwice
          /\ "for.exit" \notin ReadTwice
      BY DEF Callers, ReadTwice
    <3>2. Rank("block.loop") = 7 /\ Rank("for.exit") = 8
      BY DEF Rank
    <3> QED BY <3>1, <3>2 DEF AllBelow
  <2> QED BY <1>14, <2>1, <2>2, RankReturn DEF At
<1> QED BY <1>1, <1>2, <1>3, <1>4, <1>5, <1>6, <1>7, <1>8, <1>9, <1>10, <1>11, <1>12, <1>13, <1>14
        DEF ParseForStmt

LEMMA StepDescends ==
  ASSUME IInv, IInv', DInv, Step
  PROVE  Descends
BY ParseProgramDescends, IsFunctionDeclDescends, ParseFunctionDeclDescends, ParseDeclareStmtDescends,
   ParseDeclSpecDescends, ParseStructOrUnionSpecDescends, DeclaratorDescends, ParseInitializerDescends,
   DirectDeclaratorSuffixDescends, DirectDeclaratorFuncSuffixDescends, ParseStmtDescends,
   ParseExprStmtDescends, ParseBlockStmtDescends, ParseForStmtDescends
   DEF Step

LEMMA DInvInitially ==
  ASSUME Init
  PROVE  DInv
<1>1. Len(stack) = 1 /\ Top.at = "program"
  BY DEF Init, Top
<1>2. saved = <<>> /\ Len(text) = 1
  BY DEF Init
<1>3. EndsOnce(text)
  BY <1>2, MaxTokensAssumption DEF EndsOnce
<1>4. Reachable(stack)
  BY <1>1 DEF Reachable
<1>5. "program" \notin Unseen
  BY DEF Unseen
<1> QED BY <1>1, <1>2, <1>3, <1>4, <1>5 DEF DInv

LEMMA NextDescends ==
  ASSUME IInv, DInv, [Next]_vars
  PROVE  IInv' /\ DInv' /\ [Less]_vars
<1>1. IInv'
  BY NextPreserves
<1>2. CASE Step
  BY <1>1, <1>2, StepDescends DEF Descends
<1>3. CASE UNCHANGED vars
  BY <1>1, <1>3 DEF vars, DInv, EndsOnce, Reachable, Top, Tok
<1> QED BY <1>1, <1>2, <1>3 DEF Next, Exited

-----------------------------------------------------------------------------
\* Every step of the parser leaves less to read, the rewinds of IsFunctionDecl and of
\* Declarator (parser.cc) included: of any text of at most MaxTokens tokens, no loop of
\* the descent goes on without consuming one, and no state of the lexer is gone back to
\* more often than it was saved.
THEOREM ReadingEnds == Spec => StepsDescend
<1>1. Init => IInv /\ DInv
  BY InitEstablishes, DInvInitially
<1>2. IInv /\ DInv /\ [Next]_vars => IInv' /\ DInv' /\ [Less]_vars
  BY NextDescends
<1>3. [Less]_vars => [Remaining' \in Nat /\ Remaining' < Remaining]_vars
  BY DEF Less
<1> QED BY <1>1, <1>2, <1>3, PTL DEF Spec, StepsDescend
=============================================================================
