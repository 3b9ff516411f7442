--------------------------- MODULE ScopingProofs ---------------------------
(***************************************************************************)
(* Names and scopes in DeclParser, for every alphabet, set of names and    *)
(* bound on the text: the parser implements LexicalScoping, and what it    *)
(* hands to the code generator is declared.                                *)
(*                                                                         *)
(* First NInv, beside IInv of DeclParserProofs; then one lemma per         *)
(* procedure, "...Moves": its steps keep NInv and move the scopes as       *)
(* ScopesMove says; then the two theorems.                                 *)
(***************************************************************************)
EXTENDS DeclParserProofs

(***************************************************************************)
(* The invariant, beside IInv: which procedure waits for which, what the   *)
(* names in their frames are, and that file-scope names are in the root    *)
(* scope.                                                                  *)
(***************************************************************************)
DtorLabels == {"dtor", "dtor.skipped", "dtor.typed", "dtor.real", "dtor.ident", "dtor.tail",
               "dtor.init", "dtor.value", "dtor.more"}
FunLabels == {"fun", "fun.spec", "fun.decl", "fun.rest", "fun.body"}
\* Procedures that wait for a declarator.
Askers == {"isfun.decl", "fun.decl", "decl.node", "decl.typedef", "dtor.skipped", "dtor.real",
           "param.decl"}
\* Procedures that know the token of the name they declare; those that have entered
\* it; those that have a record.
NameHeld == {"fun.rest", "fun.body", "dtor.ident", "dtor.tail", "dtor.init", "dtor.value",
             "dtor.more"}
EntryHeld == {"dtor.tail", "dtor.init", "dtor.value", "dtor.more"}
RecordHeld == {"struct.body", "struct.members", "struct.member"}

Named(i, t) == i \in 1..Len(t) /\ t[i] \in Names

\* What the frame f of a file-scope declarator, read for real, knows of the token i:
\* its name is declared, and by no declaration that the program has already.
Fresh(i, f, e, t, x) ==
  f.depth = 1 /\ f.mdepth = 1 =>
    /\ e[1].obj[t[i]].kind = "obj"
    /\ \A k \in 1..Len(x) : t[x[k].at] # t[i]

Sound(f, e, t, x) ==
  /\ f.at \in NameHeld => Named(f.name, t)
  /\ f.at \in EntryHeld => Fresh(f.name, f, e, t, x)
  /\ f.at \in RecordHeld => f.rec # NoRecord

\* What the procedure with the frame f is told when a declarator returns r.
Answers(f, r, e, t, x) ==
  /\ f.at \in Askers => Named(r.name, t)
  /\ f.at \in {"decl.node", "dtor.real"} => Fresh(r.name, f, e, t, x)

Linked(a, b) ==
  /\ a \in Askers => b \in DtorLabels
  /\ b \in FunLabels => a \in Outermost

\* A name that is not declared is declared nowhere.
Blanks(e) ==
  \A i \in 1..Len(e), n \in Names : e[i].obj[n].kind = "none" => e[i].obj[n].at = 0

Filed(e, t, x) ==
  /\ \A i \in 1..Len(x) : Named(x[i].at, t)
  /\ \A i \in 1..Len(x) :
       LET sym == e[1].obj[t[x[i].at]]
       IN  sym.kind = "obj" \/ (sym.kind = "typedef" /\ IsFunc(sym.shape))
  /\ \A i \in 1..Len(x), j \in 1..Len(x) :
       i # j /\ t[x[i].at] = t[x[j].at] => IsFunc(e[1].obj[t[x[i].at]].shape)

Chained(stk) ==
  /\ stk[1].depth = 1 /\ stk[1].mdepth = 1
  /\ \A i \in 1..Len(stk)-1 : Linked(stk[i].at, stk[i+1].at)
AllSound(stk, e, t, x) == \A i \in 1..Len(stk) : Sound(stk[i], e, t, x)

NInv ==
  /\ Chained(stack)
  /\ AllSound(stack, envs, text, external)
  /\ Answers(Top, ret, envs, text, external)
  /\ Blanks(envs)
  /\ Filed(envs, text, external)
-----------------------------------------------------------------------------
(***************************************************************************)
(* What a step does to the scopes and to the text.                         *)
(***************************************************************************)
WithName(e, n, sym) == [e EXCEPT ![Len(e)].obj[n] = sym]
WithTag(e, t, r) == [e EXCEPT ![Len(e)].tag[t] = r]

AddsName(e, u) ==
  \E n \in Names, sym \in Symbols :
    /\ sym.kind # "none" /\ sym.at # 0 /\ ~HasObj(e, Len(e), n)
    /\ u = WithName(e, n, sym)
AddsTag(e, u) ==
  \E t \in Tags, r \in Nat \ {0} :
    ~HasTag(e, Len(e), t) /\ u = WithTag(e, t, r)
Adds(e, u) == u = e \/ AddsName(e, u) \/ AddsTag(e, u)

ScopesMove ==
  \/ Adds(envs, envs')
  \/ envs' = EnterScope(envs)
  \/ Top.at \in ScopeHeld /\ Adds(ExitScope(envs), envs')

Extends(t, u) == Len(t) <= Len(u) /\ \A i \in 1..Len(t) : u[i] = t[i]

\* What is declared in the root scope stays declared as it is.
Lasts(e, u) == \A n \in Names : e[1].obj[n].kind # "none" => u[1].obj[n] = e[1].obj[n]

LEMMA TopReplaced ==
  ASSUME NEW e \in Seq(Envs), e # <<>>, NEW x \in Envs
  PROVE  /\ [e EXCEPT ![Len(e)] = x] \in Seq(Envs)
         /\ Len([e EXCEPT ![Len(e)] = x]) = Len(e)
         /\ \A i \in 1..Len(e) : [e EXCEPT ![Len(e)] = x][i] = IF i = Len(e) THEN x ELSE e[i]
OBVIOUS

LEMMA NameAdded ==
  ASSUME NEW e \in Seq(Envs), e # <<>>, NEW n \in Names, NEW sym \in Symbols,
         NEW u, u = WithName(e, n, sym)
  PROVE  /\ u \in Seq(Envs) /\ Len(u) = Len(e)
         /\ \A i \in 1..Len(e), k \in Names :
              u[i].obj[k] = IF i = Len(e) /\ k = n THEN sym ELSE e[i].obj[k]
         /\ \A i \in 1..Len(e) : u[i].tag = e[i].tag
<1>1. Len(e) \in 1..Len(e) /\ \A i \in 1..Len(e) : e[i] \in Envs
  OBVIOUS
<1> DEFINE x == [e[Len(e)] EXCEPT !.obj[n] = sym]
<1>2. /\ x \in Envs /\ x.tag = e[Len(e)].tag
      /\ \A k \in Names : x.obj[k] = IF k = n THEN sym ELSE e[Len(e)].obj[k]
  BY <1>1 DEF Envs
<1>3. u = [e EXCEPT ![Len(e)] = x]
  BY <1>1 DEF WithName
<1> HIDE DEF x
<1>4. u \in Seq(Envs) /\ Len(u) = Len(e) /\ \A i \in 1..Len(e) : u[i] = IF i = Len(e) THEN x ELSE e[i]
  BY <1>2, <1>3, TopReplaced
<1>5. \A i \in 1..Len(e) : u[i].tag = e[i].tag
  BY <1>2, <1>4
<1>6. ASSUME NEW i \in 1..Len(e), NEW k \in Names
      PROVE  u[i].obj[k] = IF i = Len(e) /\ k = n THEN sym ELSE e[i].obj[k]
  <2>1. CASE i = Len(e)
    BY <1>2, <1>4, <2>1
  <2>2. CASE i # Len(e)
    BY <1>4, <2>2
  <2> QED BY <2>1, <2>2
<1> QED BY <1>4, <1>5, <1>6

LEMMA TagAdded ==
  ASSUME NEW e \in Seq(Envs), e # <<>>, NEW t \in Tags, NEW r \in Nat,
         NEW u, u = WithTag(e, t, r)
  PROVE  /\ u \in Seq(Envs) /\ Len(u) = Len(e)
         /\ \A i \in 1..Len(e), k \in Tags :
              u[i].tag[k] = IF i = Len(e) /\ k = t THEN r ELSE e[i].tag[k]
         /\ \A i \in 1..Len(e) : u[i].obj = e[i].obj
<1>1. Len(e) \in 1..Len(e) /\ \A i \in 1..Len(e) : e[i] \in Envs
  OBVIOUS
<1> DEFINE x == [e[Len(e)] EXCEPT !.tag[t] = r]
<1>2. /\ x \in Envs /\ x.obj = e[Len(e)].obj
      /\ \A k \in Tags : x.tag[k] = IF k = t THEN r ELSE e[Len(e)].tag[k]
  BY <1>1 DEF Envs
<1>3. u = [e EXCEPT ![Len(e)] = x]
  BY <1>1 DEF WithTag
<1> HIDE DEF x
<1>4. u \in Seq(Envs) /\ Len(u) = Len(e) /\ \A i \in 1..Len(e) : u[i] = IF i = Len(e) THEN x ELSE e[i]
  BY <1>2, <1>3, TopReplaced
<1>5. \A i \in 1..Len(e) : u[i].obj = e[i].obj
  BY <1>2, <1>4
<1>6. ASSUME NEW i \in 1..Len(e), NEW k \in Tags
      PROVE  u[i].tag[k] = IF i = Len(e) /\ k = t THEN r ELSE e[i].tag[k]
  <2>1. CASE i = Len(e)
    BY <1>2, <1>4, <2>1
  <2>2. CASE i # Len(e)
    BY <1>4, <2>2
  <2> QED BY <2>1, <2>2
<1> QED BY <1>4, <1>5, <1>6

LEMMA AddsLasts ==
  ASSUME NEW e \in Seq(Envs), e # <<>>, NEW u, Adds(e, u), Blanks(e)
  PROVE  u \in Seq(Envs) /\ Len(u) = Len(e) /\ Lasts(e, u) /\ Blanks(u)
<1>0. Len(e) \in Nat \ {0}
  OBVIOUS
<1>1. CASE u = e
  BY <1>1 DEF Lasts
<1>2. CASE AddsName(e, u)
  <2>1. PICK n \in Names, sym \in Symbols :
          /\ sym.kind # "none" /\ sym.at # 0 /\ ~HasObj(e, Len(e), n)
          /\ u = WithName(e, n, sym)
    BY <1>2 DEF AddsName
  <2>2. /\ u \in Seq(Envs) /\ Len(u) = Len(e)
        /\ \A i \in 1..Len(e), k \in Names :
             u[i].obj[k] = IF i = Len(e) /\ k = n THEN sym ELSE e[i].obj[k]
    BY <2>1, NameAdded
  <2>3. Lasts(e, u)
    BY <1>0, <2>1, <2>2 DEF Lasts, HasObj
  <2>4. Blanks(u)
    BY <2>1, <2>2 DEF Blanks
  <2> QED BY <2>2, <2>3, <2>4
<1>3. CASE AddsTag(e, u)
  <2>1. PICK t \in Tags, r \in Nat \ {0} : u = WithTag(e, t, r)
    BY <1>3 DEF AddsTag
  <2>2. u \in Seq(Envs) /\ Len(u) = Len(e) /\ \A i \in 1..Len(e) : u[i].obj = e[i].obj
    BY <2>1, TagAdded
  <2> QED BY <1>0, <2>2 DEF Lasts, Blanks
<1> QED BY <1>1, <1>2, <1>3 DEF Adds

LEMMA ScopesLast ==
  ASSUME IInv, Blanks(envs), ScopesMove
  PROVE  Lasts(envs, envs') /\ Blanks(envs')
<1>0. envs \in Seq(Envs) /\ envs # <<>> /\ Len(envs) \in Nat \ {0}
  BY DEF IInv, Scoped
<1>1. CASE Adds(envs, envs')
  BY <1>0, <1>1, AddsLasts
<1>2. CASE envs' = EnterScope(envs)
  <2>1. /\ Len(envs') = Len(envs) + 1 /\ envs'[Len(envs) + 1] = EmptyEnv
        /\ \A i \in 1..Len(envs) : envs'[i] = envs[i]
    BY <1>0, <1>2, EmptyEnvTyped DEF EnterScope
  <2>2. \A n \in Names : EmptyEnv.obj[n].at = 0
    BY DEF EmptyEnv, NoSymbol
  <2> QED BY <1>0, <2>1, <2>2 DEF Lasts, Blanks
<1>3. CASE Top.at \in ScopeHeld /\ Adds(ExitScope(envs), envs')
  <2>1. /\ Len(Front(envs)) = Top.depth /\ Len(envs) \in Nat \ {0, 1}
    BY <1>0, <1>3, KeptExit DEF IInv, Framed, Top
  <2>2. /\ Front(envs) \in Seq(Envs) /\ Len(Front(envs)) = Len(envs) - 1
        /\ \A i \in 1..Len(envs)-1 : Front(envs)[i] = envs[i]
    BY <1>0, FrontFacts
  <2>3. Front(envs) # <<>> /\ Blanks(Front(envs)) /\ Lasts(envs, Front(envs))
    BY <2>1, <2>2 DEF Blanks, Lasts
  <2>4. Lasts(Front(envs), envs') /\ Blanks(envs')
    BY <1>3, <2>2, <2>3, AddsLasts DEF ExitScope
  <2> QED BY <2>3, <2>4 DEF Lasts
<1> QED BY <1>1, <1>2, <1>3 DEF ScopesMove

-----------------------------------------------------------------------------
(***************************************************************************)
(* What is known of the frames stays known while scopes and text grow.     *)
(***************************************************************************)
LEMMA NamedStays ==
  ASSUME NEW t \in Seq(Tokens), NEW v \in Seq(Tokens), Extends(t, v), NEW i, Named(i, t)
  PROVE  Named(i, v) /\ v[i] = t[i]
BY DEF Named, Extends

LEMMA FiledStays ==
  ASSUME NEW t \in Seq(Tokens), NEW v \in Seq(Tokens), Extends(t, v),
         NEW e, NEW u, Lasts(e, u), NEW x \in Seq(Externals), Filed(e, t, x)
  PROVE  /\ Filed(u, v, x)
         /\ \A i \in 1..Len(x) : v[x[i].at] = t[x[i].at]
<1>1. \A i \in 1..Len(x) : Named(x[i].at, t)
  BY DEF Filed
<1>2. \A i \in 1..Len(x) : Named(x[i].at, v) /\ v[x[i].at] = t[x[i].at] /\ t[x[i].at] \in Names
  BY <1>1, NamedStays DEF Named
<1>3. \A i \in 1..Len(x) :
        LET sym == e[1].obj[t[x[i].at]]
        IN  sym.kind = "obj" \/ (sym.kind = "typedef" /\ IsFunc(sym.shape))
  BY DEF Filed
<1>4. \A i \in 1..Len(x) : u[1].obj[v[x[i].at]] = e[1].obj[t[x[i].at]]
  BY <1>2, <1>3 DEF Lasts
<1>5. \A i \in 1..Len(x), j \in 1..Len(x) :
        i # j /\ t[x[i].at] = t[x[j].at] => IsFunc(e[1].obj[t[x[i].at]].shape)
  BY DEF Filed
<1> QED BY <1>2, <1>3, <1>4, <1>5 DEF Filed

LEMMA FreshStays ==
  ASSUME NEW t \in Seq(Tokens), NEW v \in Seq(Tokens), Extends(t, v),
         NEW e, NEW u, Lasts(e, u), NEW x \in Seq(Externals), Filed(e, t, x),
         NEW f, NEW i, Named(i, t), Fresh(i, f, e, t, x)
  PROVE  Fresh(i, f, u, v, x)
<1>1. v[i] = t[i] /\ t[i] \in Names
  BY NamedStays DEF Named
<1>2. \A k \in 1..Len(x) : v[x[k].at] = t[x[k].at]
  BY FiledStays
<1>3. e[1].obj[t[i]].kind = "obj" => u[1].obj[v[i]].kind = "obj"
  BY <1>1 DEF Lasts
<1> QED BY <1>1, <1>2, <1>3 DEF Fresh

LEMMA SoundStays ==
  ASSUME NEW t \in Seq(Tokens), NEW v \in Seq(Tokens), Extends(t, v),
         NEW e, NEW u, Lasts(e, u), NEW x \in Seq(Externals), Filed(e, t, x),
         NEW f, Sound(f, e, t, x)
  PROVE  Sound(f, u, v, x)
<1>1. f.at \in EntryHeld => f.at \in NameHeld
  BY DEF EntryHeld, NameHeld
<1>2. f.at \in NameHeld => Named(f.name, t) /\ Named(f.name, v)
  BY NamedStays DEF Sound
<1>3. f.at \in EntryHeld => Fresh(f.name, f, u, v, x)
  BY <1>1, <1>2, FreshStays DEF Sound
<1> QED BY <1>2, <1>3 DEF Sound

\* The parts of the state that the frame on top does not own are as they must be.
Ambient ==
  /\ ScopesMove /\ Extends(text, text')
  /\ Blanks(envs') /\ Lasts(envs, envs')
  /\ Filed(envs', text', external')
  /\ \A i \in 1..Len(stack)-1 : Sound(stack[i], envs', text', external')

LEMMA TextOf ==
  ASSUME IInv
  PROVE  /\ text \in Seq(Tokens) /\ cur \in 1..Len(text) /\ tok = cur
         /\ external \in Seq(Externals) /\ envs \in Seq(Envs) /\ Len(envs) \in Nat \ {0}
         /\ Top = stack[Len(stack)]
BY DEF IInv, Lexed, Noted, Scoped, Top

LEMMA Surroundings ==
  ASSUME IInv, NInv, IInv', ScopesMove, Extends(text, text'), external' = external
  PROVE  /\ Ambient
         /\ \A f : Sound(f, envs, text, external) => Sound(f, envs', text', external')
<1>1. text \in Seq(Tokens) /\ external \in Seq(Externals)
  BY TextOf
<1>2. text' \in Seq(Tokens)
  BY DEF IInv, Lexed
<1>3. Lasts(envs, envs') /\ Blanks(envs')
  BY ScopesLast DEF NInv
<1>4. Filed(envs, text, external)
  BY DEF NInv
<1>5. Filed(envs', text', external')
  BY <1>1, <1>2, <1>3, <1>4, FiledStays
<1>6. ASSUME NEW f, Sound(f, envs, text, external)
      PROVE  Sound(f, envs', text', external')
  BY <1>1, <1>2, <1>3, <1>4, <1>6, SoundStays
<1>7. \A i \in 1..Len(stack) : Sound(stack[i], envs, text, external)
  BY DEF NInv, AllSound
<1>8. Len(stack) \in Nat
  BY TopFrame
<1>9. \A i \in 1..Len(stack)-1 : Sound(stack[i], envs', text', external')
  BY <1>6, <1>7, <1>8
<1> QED BY <1>3, <1>5, <1>6, <1>9 DEF Ambient

\* The frames below the top one are not touched, and a call makes one frame.
Steady ==
  /\ \A i \in 1..Len(stack)-1 : i \in 1..Len(stack') /\ stack'[i] = stack[i]
  /\ Len(stack') <= Len(stack) + 1
  /\ Len(stack') = Len(stack) + 1 => stack'[Len(stack')].at \in Entries

Kin(l, k) == (k \in DtorLabels => l \in DtorLabels) /\ (l \in FunLabels => k \in FunLabels)

WithTop(stk, f) == [stk EXCEPT ![Len(stk)] = f]

LEMMA ChainGoes ==
  ASSUME NEW stk \in Seq(Frames), stk # <<>>, Chained(stk),
         NEW f \in Frames, SameHeights(f, stk[Len(stk)]), Kin(f.at, stk[Len(stk)].at),
         NEW t, t = WithTop(stk, f)
  PROVE  /\ t \in Seq(Frames) /\ Len(t) = Len(stk) /\ t[Len(t)] = f /\ Len(t) \in Nat \ {0}
         /\ \A i \in 1..Len(stk)-1 : t[i] = stk[i]
         /\ Chained(t)
<1>1. /\ t \in Seq(Frames) /\ Len(t) = Len(stk) /\ t[Len(t)] = f /\ Len(t) \in Nat \ {0}
      /\ \A i \in 1..Len(stk)-1 : t[i] = stk[i]
  BY DEF WithTop
<1>2. t[1].depth = 1 /\ t[1].mdepth = 1
  <2>1. stk[1].depth = 1 /\ stk[1].mdepth = 1
    BY DEF Chained
  <2>2. CASE Len(stk) = 1
    BY <1>1, <2>1, <2>2 DEF SameHeights
  <2>3. CASE 1 \in 1..Len(stk)-1
    BY <1>1, <2>1, <2>3
  <2> QED BY <1>1, <2>2, <2>3
<1>3. ASSUME NEW i \in 1..Len(t)-1
      PROVE  Linked(t[i].at, t[i+1].at)
  <2>0. i \in 1..Len(stk)-1 /\ i + 1 \in 1..Len(stk)
    BY <1>1
  <2>1. Linked(stk[i].at, stk[i+1].at) /\ t[i] = stk[i]
    BY <1>1, <2>0 DEF Chained
  <2>2. CASE i + 1 = Len(stk)
    BY <1>1, <2>1, <2>2 DEF Linked, Kin
  <2>3. CASE i + 1 \in 1..Len(stk)-1
    BY <1>1, <2>1, <2>3
  <2> QED BY <1>1, <2>0, <2>2, <2>3
<1> QED BY <1>1, <1>2, <1>3 DEF Chained

LEMMA NoAnswer ==
  ASSUME NEW f, f.at \notin Askers, NEW r, NEW e, NEW t, NEW x
  PROVE  Answers(f, r, e, t, x)
BY DEF Answers, Askers

LEMMA NGoes ==
  ASSUME IInv, NInv, IInv', Ambient, NEW f, SameHeights(f, Top), Kin(f.at, Top.at),
         f.at \notin Askers, Sound(f, envs', text', external'), Continue(f)
  PROVE  NInv' /\ Steady
<1>1. stack \in Seq(Frames) /\ stack # <<>> /\ Chained(stack) /\ Top = stack[Len(stack)]
  BY TopFrame DEF NInv, Top
<1>2. stack' = WithTop(stack, f)
  BY DEF Continue, WithTop
<1>a. f \in Frames
  <2>1. stack' \in Seq(Frames) /\ Len(stack') = Len(stack) /\ stack'[Len(stack)] = f
    BY <1>1, <1>2 DEF WithTop, IInv, Framed, Core
  <2> QED BY <1>1, <2>1
<1>3. /\ stack' \in Seq(Frames) /\ Len(stack') = Len(stack) /\ stack'[Len(stack')] = f
      /\ Len(stack') \in Nat \ {0}
      /\ \A i \in 1..Len(stack)-1 : stack'[i] = stack[i]
      /\ Chained(stack')
  BY <1>1, <1>2, <1>a, ChainGoes
<1>4. AllSound(stack', envs', text', external')
  <2> SUFFICES ASSUME NEW i \in 1..Len(stack') PROVE Sound(stack'[i], envs', text', external')
    BY DEF AllSound
  <2>1. CASE i = Len(stack')
    BY <1>3, <2>1
  <2>2. CASE i \in 1..Len(stack)-1
    BY <1>3, <2>2 DEF Ambient
  <2> QED BY <1>3, <2>1, <2>2
<1>5. Answers(Top, ret, envs, text, external)'
  BY <1>3, NoAnswer DEF Top
<1> QED BY <1>3, <1>4, <1>5 DEF NInv, Ambient, Steady

LEMMA NewSound ==
  ASSUME NEW g, g.at \in Entries, NEW e, NEW t, NEW x, NEW r
  PROVE  Sound(g, e, t, x) /\ Answers(g, r, e, t, x)
BY DEF Sound, Answers, Entries, NameHeld, EntryHeld, RecordHeld, Askers

LEMMA NCalls ==
  ASSUME IInv, NInv, IInv', Ambient, NEW f, SameHeights(f, Top), Kin(f.at, Top.at),
         Sound(f, envs', text', external'),
         NEW l \in Entries, NEW b \in Shapes, CallFrom(f, l, b),
         f.at \in Askers => l = "dtor", l = "fun" => f.at \in Outermost
  PROVE  NInv' /\ Steady
<1> DEFINE g == NewFrame(l, b)
           s == [stack EXCEPT ![Len(stack)] = f]
<1>1. stack \in Seq(Frames) /\ stack # <<>> /\ Chained(stack) /\ Top = stack[Len(stack)]
  BY TopFrame DEF NInv, Top
<1>2. g.at = l /\ g \in Frames
  <2>1. Len(envs') \in Nat \ {0} /\ Len(modes') \in Nat \ {0} /\ Len(saved') \in Nat
    BY DEF IInv, Scoped, ModesOK, Lexed
  <2> QED BY <2>1, EntryFrame
<1>3. stack' = Append(s, g)
  BY DEF CallFrom
<1> HIDE DEF g
<1>a. f \in Frames
  <2>1. /\ Len(s) = Len(stack) /\ s[Len(stack)] = f /\ Len(stack) \in Nat \ {0}
        /\ stack' \in Seq(Frames)
    BY <1>1 DEF IInv, Framed, Core
  <2> HIDE DEF s
  <2>3. stack'[Len(stack)] = f /\ Len(stack) \in 1..Len(stack')
    BY <1>3, <2>1
  <2> QED BY <2>1, <2>3
<1>4. s = WithTop(stack, f)
  BY DEF WithTop
<1> HIDE DEF s
<1>5. /\ s \in Seq(Frames) /\ Len(s) = Len(stack) /\ s[Len(s)] = f
      /\ Len(s) \in Nat \ {0}
      /\ \A i \in 1..Len(stack)-1 : s[i] = stack[i]
      /\ Chained(s)
  BY <1>1, <1>4, <1>a, ChainGoes
<1>6. /\ Len(stack') = Len(s) + 1 /\ stack'[Len(s) + 1] = g
      /\ \A i \in 1..Len(s) : stack'[i] = s[i]
  BY <1>2, <1>3, <1>5
<1>7. Linked(f.at, g.at)
  BY <1>2 DEF Linked, Entries, FunLabels, DtorLabels
<1>8. Chained(stack')
  <2>1. stack'[1] = s[1]
    BY <1>5, <1>6
  <2>2. ASSUME NEW i \in 1..Len(stack')-1
        PROVE  Linked(stack'[i].at, stack'[i+1].at)
    <3>1. CASE i = Len(s)
      BY <1>5, <1>6, <1>7, <3>1
    <3>2. CASE i \in 1..Len(s)-1
      <4>1. Linked(s[i].at, s[i+1].at)
        BY <1>5, <3>2 DEF Chained
      <4>2. i \in 1..Len(s) /\ i + 1 \in 1..Len(s)
        BY <1>5, <3>2
      <4> QED BY <1>6, <4>1, <4>2
    <3> QED BY <1>5, <1>6, <3>1, <3>2
  <2> QED BY <1>5, <2>1, <2>2 DEF Chained
<1>9. AllSound(stack', envs', text', external')
  <2> SUFFICES ASSUME NEW i \in 1..Len(stack') PROVE Sound(stack'[i], envs', text', external')
    BY DEF AllSound
  <2>1. CASE i = Len(s) + 1
    BY <1>2, <1>6, <2>1, NewSound
  <2>2. CASE i = Len(s)
    BY <1>5, <1>6, <2>2
  <2>3. CASE i \in 1..Len(s)-1
    <3>1. stack'[i] = stack[i] /\ i \in 1..Len(stack)-1
      BY <1>5, <1>6, <2>3
    <3> QED BY <3>1 DEF Ambient
  <2> QED BY <1>5, <1>6, <2>1, <2>2, <2>3
<1>10. Answers(Top, ret, envs, text, external)'
  <2>1. Top' = g
    BY <1>5, <1>6 DEF Top
  <2> QED BY <1>2, <2>1, NewSound
<1>11. Steady
  <2>1. \A i \in 1..Len(stack)-1 : i \in 1..Len(s) /\ i \in 1..Len(stack')
    BY <1>5, <1>6
  <2>2. stack'[Len(stack')].at \in Entries
    BY <1>2, <1>5, <1>6
  <2> QED BY <1>5, <1>6, <2>1, <2>2 DEF Steady
<1> QED BY <1>8, <1>9, <1>10, <1>11 DEF NInv, Ambient

LEMMA NReturns ==
  ASSUME IInv, NInv, Ambient, Top.at \notin Outermost, NEW v, Return(v),
         Answers(stack[Len(stack)-1], v, envs', text', external')
  PROVE  NInv' /\ Steady
<1>0. stack \in Seq(Frames) /\ Len(stack) \in Nat \ {0, 1} /\ Chained(stack)
  <2>1. \A i \in 1..Len(stack) : stack[i].at \in Outermost <=> i = 1
    BY DEF IInv, Framed, Core
  <2> QED BY <2>1, TopFrame DEF NInv, Top
<1>1. /\ Front(stack) \in Seq(Frames) /\ Len(Front(stack)) = Len(stack) - 1
      /\ \A i \in 1..Len(stack)-1 : Front(stack)[i] = stack[i]
  BY <1>0, FrontFacts
<1>2. stack' = Front(stack) /\ ret' = v
  BY DEF Return
<1>3. Chained(stack')
  <2>1. stack'[1] = stack[1]
    BY <1>0, <1>1, <1>2
  <2>2. ASSUME NEW i \in 1..Len(stack')-1
        PROVE  Linked(stack'[i].at, stack'[i+1].at)
    <3>1. i \in 1..Len(stack)-1 /\ i + 1 \in 1..Len(stack)-1
      BY <1>0, <1>1, <1>2
    <3> QED BY <1>0, <1>1, <1>2, <3>1 DEF Chained
  <2> QED BY <1>0, <2>1, <2>2 DEF Chained
<1>4. AllSound(stack', envs', text', external')
  BY <1>1, <1>2 DEF AllSound, Ambient
<1>5. Answers(Top, ret, envs, text, external)'
  <2>1. Top' = stack[Len(stack)-1]
    BY <1>0, <1>1, <1>2 DEF Top
  <2> QED BY <1>2, <2>1
<1>6. Steady
  BY <1>0, <1>1, <1>2 DEF Steady
<1> QED BY <1>3, <1>4, <1>5, <1>6 DEF NInv, Ambient

\* A procedure that is not a declarator returns to none that waits for one.
LEMMA NReturnsPlain ==
  ASSUME IInv, NInv, Ambient, Top.at \notin Outermost, NEW v, Return(v),
         Top.at \notin DtorLabels
  PROVE  NInv' /\ Steady
<1>1. Len(stack) \in Nat \ {0, 1} /\ Chained(stack) /\ Top = stack[Len(stack)]
  <2>1. \A i \in 1..Len(stack) : stack[i].at \in Outermost <=> i = 1
    BY DEF IInv, Framed, Core
  <2> QED BY <2>1, TopFrame DEF NInv, Top
<1>2. Linked(stack[Len(stack)-1].at, stack[Len(stack)-1+1].at) /\ Len(stack)-1+1 = Len(stack)
  <2>1. Len(stack)-1 \in 1..Len(stack)-1 /\ Len(stack)-1+1 = Len(stack)
    BY <1>1
  <2> QED BY <1>1, <2>1 DEF Chained
<1>3. stack[Len(stack)-1].at \notin Askers
  BY <1>1, <1>2 DEF Linked
<1> QED BY <1>3, NoAnswer, NReturns

LEMMA NTail ==
  ASSUME IInv, NInv, IInv', Ambient, UNCHANGED <<envs, modes, saved>>, Top.at = "stmt",
         NEW l \in Entries \ {"fun"}, NEW b \in Shapes, TailCall(l, b)
  PROVE  NInv' /\ Steady
<1>1. "stmt" \in CalmLabels
  BY DEF CalmLabels, Labels, ScopeHeld, SkipHeld, SaveHeld, Outermost
<1>2. /\ NewFrame(l, b) \in Frames /\ NewFrame(l, b).at = l
      /\ SameHeights(NewFrame(l, b), Top) /\ Continue(NewFrame(l, b))
  BY <1>1, TailFrame
<1>3. Kin(l, "stmt") /\ l \notin Askers
  BY DEF Kin, Entries, DtorLabels, FunLabels, Askers
<1>4. Sound(NewFrame(l, b), envs', text', external')
  BY <1>2, NewSound
<1> QED BY <1>2, <1>3, <1>4, NGoes

Stuck == UNCHANGED <<lexVars, envs, external, stack, ret>>

LEMMA NStops ==
  ASSUME NInv, Stuck
  PROVE  NInv'
BY DEF NInv, Stuck, lexVars, Top

\* The effect of a step on the scopes, on the stack and on the invariant.
Moved == Stuck \/ (ScopesMove /\ Steady /\ NInv')

-----------------------------------------------------------------------------
(***************************************************************************)
(* The forms a step takes when it changes nothing but its own frame and    *)
(* perhaps reads a token, and those that change the scopes.                *)
(***************************************************************************)
LEMMA TextGrows ==
  ASSUME Lexed, NEW c \in 1..Len(text), NextTokenFrom(c)
  PROVE  Extends(text, text')
<1>1. text \in Seq(Tokens) /\ Upcoming \subseteq Tokens
  BY AlphabetAssumption DEF Upcoming, Tokens, Lexed
<1> QED BY <1>1 DEF NextTokenFrom, Extends

LEMMA ReadsOn ==
  ASSUME IInv, Advance \/ UNCHANGED lexVars
  PROVE  Extends(text, text')
<1>1. Lexed /\ cur \in 1..Len(text) /\ Len(text) \in Nat
  BY DEF IInv, Lexed
<1>2. CASE Advance
  BY <1>1, <1>2, TextGrows DEF Advance
<1>3. CASE UNCHANGED lexVars
  BY <1>1, <1>3 DEF lexVars, Extends
<1> QED BY <1>2, <1>3

LEMMA QuietAmbient ==
  ASSUME IInv, NInv, IInv', Quiet
  PROVE  /\ Ambient
         /\ \A f : Sound(f, envs, text, external) => Sound(f, envs', text', external')
<1>1. Extends(text, text') /\ ScopesMove /\ external' = external
  BY ReadsOn DEF Quiet, semaVars, ScopesMove, Adds
<1> QED BY <1>1, Surroundings

\* What the label l asks of a frame is asked of it at k already.
Knows(l, k) ==
  /\ l \in NameHeld => k \in NameHeld
  /\ l \in EntryHeld => k \in EntryHeld
  /\ l \in RecordHeld => k \in RecordHeld

LEMMA SoundAt ==
  ASSUME IInv, NInv, NEW l, Knows(l, Top.at),
         NEW e, NEW t, NEW x, Sound(Top, e, t, x)
  PROVE  /\ Sound([Top EXCEPT !.at = l], e, t, x)
         /\ SameHeights([Top EXCEPT !.at = l], Top) /\ [Top EXCEPT !.at = l].at = l
<1>1. Top \in Frames
  BY TopFrame
<1> QED BY <1>1 DEF Sound, Knows, Fresh, SameHeights, Frames

\* A scope is opened, or closed with perhaps a name for the one outside, or a name is
\* entered in it.
LEMMA ScopesAmbient ==
  ASSUME IInv, NInv, IInv', Advance \/ UNCHANGED lexVars, ScopesMove, external' = external
  PROVE  /\ Ambient
         /\ \A f : Sound(f, envs, text, external) => Sound(f, envs', text', external')
BY ReadsOn, Surroundings

LEMMA TopSound ==
  ASSUME IInv, NInv
  PROVE  Sound(Top, envs, text, external)
BY TopFrame DEF NInv, AllSound, Top

LEMMA QuietGoes ==
  ASSUME IInv, NInv, IInv', Quiet, NEW f, SameHeights(f, Top), Kin(f.at, Top.at),
         f.at \notin Askers, Sound(f, envs, text, external), Continue(f)
  PROVE  Moved
BY QuietAmbient, NGoes DEF Moved, Ambient

LEMMA QuietGoto ==
  ASSUME IInv, NInv, IInv', Quiet, NEW l, Kin(l, Top.at), Knows(l, Top.at),
         l \notin Askers, Goto(l)
  PROVE  Moved
<1>1. /\ Sound([Top EXCEPT !.at = l], envs, text, external)
      /\ SameHeights([Top EXCEPT !.at = l], Top) /\ [Top EXCEPT !.at = l].at = l
  BY TopSound, SoundAt
<1> QED BY <1>1, QuietGoes DEF Goto

LEMMA QuietCallsFrom ==
  ASSUME IInv, NInv, IInv', Quiet, NEW f, SameHeights(f, Top), Kin(f.at, Top.at),
         Sound(f, envs, text, external),
         NEW l \in Entries, NEW b \in Shapes, CallFrom(f, l, b),
         f.at \in Askers => l = "dtor", l = "fun" => f.at \in Outermost
  PROVE  Moved
BY QuietAmbient, NCalls DEF Moved, Ambient

LEMMA QuietCall ==
  ASSUME IInv, NInv, IInv', Quiet, NEW n, Kin(n, Top.at), Knows(n, Top.at),
         NEW l \in Entries, NEW b \in Shapes, Call(n, l, b),
         n \in Askers => l = "dtor", l = "fun" => n \in Outermost
  PROVE  Moved
<1>1. /\ Sound([Top EXCEPT !.at = n], envs, text, external)
      /\ SameHeights([Top EXCEPT !.at = n], Top) /\ [Top EXCEPT !.at = n].at = n
  BY TopSound, SoundAt
<1> QED BY <1>1, QuietCallsFrom DEF Call

LEMMA QuietReturn ==
  ASSUME IInv, NInv, IInv', Quiet, Top.at \notin Outermost, Top.at \notin DtorLabels,
         NEW v, Return(v)
  PROVE  Moved
BY QuietAmbient, NReturnsPlain DEF Moved, Ambient

\* The labels that carry nothing: no name, no record, no declarator, no function.
Free == Labels \ (DtorLabels \cup FunLabels \cup NameHeld \cup RecordHeld)

LEMMA FreeLabels ==
  /\ \A l, k \in Free : Kin(l, k) /\ Knows(l, k) /\ l \notin DtorLabels
  /\ {"program", "verdict", "decl", "decl.spec", "decl.more", "decl.next", "decl.node",
      "decl.typedef", "spec", "spec.loop", "spec.struct", "struct", "struct.tag", "suffix",
      "suffix.array", "params", "param", "param.spec", "param.decl", "params.end", "stmt",
      "block", "for", "for.paren", "expr", "expr.end", "isfun", "isfun.spec", "isfun.decl",
      "block.loop", "for.init", "for.cond", "for.semi", "for.inc", "for.close", "for.body",
      "for.exit"} \subseteq Free
<1>1. EntryHeld \subseteq NameHeld
  BY DEF EntryHeld, NameHeld
<1>2. \A l, k \in Free : Kin(l, k) /\ Knows(l, k) /\ l \notin DtorLabels
  BY <1>1 DEF Free, Kin, Knows
<1> QED BY <1>2 DEF Free, Labels, ScopeHeld, SkipHeld, SaveHeld, DtorLabels, FunLabels, NameHeld,
                    RecordHeld

\* A declarator returns the name it has declared.
LEMMA QuietAnswers ==
  ASSUME IInv, NInv, IInv', Quiet, Top.at \in {"dtor.init", "dtor.more"},
         NEW b, Return([NoValue EXCEPT !.shape = b, !.name = Top.name])
  PROVE  Moved
<1> DEFINE v == [NoValue EXCEPT !.shape = b, !.name = Top.name]
           g == stack[Len(stack)-1]
<1>1. Len(stack) \in Nat \ {0, 1} /\ Core(stack, envs, modes, saved) /\ Top = stack[Len(stack)]
  <2>1. \A i \in 1..Len(stack) : stack[i].at \in Outermost <=> i = 1
    BY DEF IInv, Framed, Core
  <2>2. Top.at \notin Outermost
    BY DEF Outermost
  <2> QED BY <2>1, <2>2, TopFrame DEF Top, IInv, Framed
<1>2. g \in Frames /\ Follows(g, Top)
  <2>1. Len(stack)-1 \in 1..Len(stack)-1 /\ Len(stack)-1+1 = Len(stack)
    BY <1>1
  <2>a. \A i \in 1..Len(stack)-1 : Follows(stack[i], stack[i+1])
    BY <1>1 DEF Core
  <2>2. Follows(g, stack[Len(stack)-1+1])
    BY <2>1, <2>a
  <2>3. stack \in Seq(Frames)
    BY <1>1 DEF Core
  <2>4. Len(stack)-1 \in 1..Len(stack)
    BY <1>1
  <2> QED BY <1>1, <2>1, <2>2, <2>3, <2>4
<1>3. v.name = Top.name
  BY DEF NoValue
<1>4. Sound(Top, envs', text', external') /\ Ambient
  BY QuietAmbient, TopSound
<1>5. Named(v.name, text') /\ Fresh(v.name, Top, envs', text', external')
  BY <1>3, <1>4 DEF Sound, NameHeld, EntryHeld
<1>6. g.at \in {"decl.node", "dtor.real"} => ScopesOf(g) = g.depth /\ ModesOf(g) = g.mdepth
  BY <1>2, Heights DEF ScopesOf, ModesOf, Held, ScopeHeld, SkipHeld, SaveHeld
<1>7. g.at \in {"decl.node", "dtor.real"} => Fresh(v.name, g, envs', text', external')
  BY <1>2, <1>5, <1>6 DEF Fresh, Follows
<1>8. Answers(g, v, envs', text', external')
  BY <1>5, <1>7 DEF Answers
<1>9. Top.at \notin Outermost
  BY DEF Outermost
<1> HIDE DEF v, g
<1>10. NInv' /\ Steady
  BY <1>4, <1>8, <1>9, NReturns DEF v, g
<1> QED BY <1>4, <1>10 DEF Moved, Ambient

LEMMA OpensAt ==
  ASSUME IInv, NInv, IInv', Advance \/ UNCHANGED lexVars, envs' = EnterScope(envs),
         external' = external, NEW l, Kin(l, Top.at), Knows(l, Top.at), l \notin Askers, Goto(l)
  PROVE  Moved
<1> DEFINE f == [Top EXCEPT !.at = l]
<1>1. /\ Ambient
      /\ \A g : Sound(g, envs, text, external) => Sound(g, envs', text', external')
  BY ScopesAmbient DEF ScopesMove
<1>2. Sound(f, envs, text, external) /\ SameHeights(f, Top) /\ f.at = l
  BY TopSound, SoundAt
<1>3. Continue(f)
  BY DEF Goto
<1> HIDE DEF f
<1> QED BY <1>1, <1>2, <1>3, NGoes DEF Moved, Ambient

LEMMA ClosesAt ==
  ASSUME IInv, NInv, IInv', Advance \/ UNCHANGED lexVars, Top.at \in ScopeHeld,
         Adds(ExitScope(envs), envs'), external' = external,
         Top.at \notin Outermost, Top.at \notin DtorLabels, NEW v, Return(v)
  PROVE  Moved
<1>1. Ambient
  BY ScopesAmbient DEF ScopesMove
<1> QED BY <1>1, NReturnsPlain DEF Moved, Ambient

LEMMA StopsMove ==
  ASSUME NEW s, Stop(s)
  PROVE  Moved
BY DEF Stop, Moved, Stuck, lexVars, semaVars

-----------------------------------------------------------------------------
(***************************************************************************)
(* Every action moves so.                                                  *)
(***************************************************************************)
LEMMA ParseProgramMoves ==
  ASSUME IInv, NInv, IInv', ParseProgram
  PROVE  Moved
<1>1. CASE At("program") /\ Stop("done")
  BY <1>1, StopsMove
<1>2. CASE /\ At("program")
           /\ UNCHANGED <<lexVars, semaVars, external, status>>
           /\ Call("verdict", "isfun", Obj)
  BY <1>2, QuietCall, FreeLabels DEF At, Quiet, Entries, Shapes, Obj, Askers
<1>3. CASE /\ At("verdict")
           /\ UNCHANGED <<lexVars, semaVars, external, status>>
           /\ Call("program", IF ret.flag THEN "fun" ELSE "decl", Obj)
  BY <1>3, QuietCall, FreeLabels DEF At, Quiet, Entries, Shapes, Obj, Askers, Outermost
<1> QED BY <1>1, <1>2, <1>3 DEF ParseProgram

LEMMA PrimaryMoves ==
  ASSUME IInv, NInv, IInv', NEW l, Kin(l, Top.at), Knows(l, Top.at), l \notin Askers, Primary(l)
  PROVE  Moved
<1>1. CASE \E s : Stop(s)
  BY <1>1, StopsMove
<1>2. CASE Advance /\ Goto(l) /\ UNCHANGED <<semaVars, external, status>>
  BY <1>2, QuietGoto DEF Quiet
<1> QED BY <1>1, <1>2 DEF Primary

LEMMA ParseInitializerMoves ==
  ASSUME IInv, NInv, IInv', ParseInitializer
  PROVE  Moved
<1>1. CASE At("dtor.value") /\ Primary("dtor.more")
  BY <1>1, PrimaryMoves DEF At, Kin, Knows, Askers, DtorLabels, NameHeld, EntryHeld, RecordHeld,
                            FunLabels
<1>2. CASE At("dtor.more") /\ Stop("beyond")
  BY <1>2, StopsMove
<1>3. CASE /\ At("dtor.more")
           /\ UNCHANGED <<lexVars, semaVars, external, status>>
           /\ Return([NoValue EXCEPT !.shape = Top.base, !.name = Top.name])
  BY <1>3, QuietAnswers DEF At, Quiet
<1> QED BY <1>1, <1>2, <1>3 DEF ParseInitializer

LEMMA DirectDeclaratorSuffixMoves ==
  ASSUME IInv, NInv, IInv', DirectDeclaratorSuffix
  PROVE  Moved
<1>0. Top \in Frames
  BY TopFrame
<1>1. ASSUME Top.at \in {"suffix", "suffix.array"}, Quiet,
             NEW l \in {"params", "suffix.array"}, Goto(l)
      PROVE  Moved
  BY <1>1, QuietGoto, FreeLabels DEF Askers
<1>2. CASE /\ At("suffix")
           /\ Advance
           /\ Continue([Top EXCEPT !.at = "suffix.array", !.base = Obj])
           /\ UNCHANGED <<semaVars, external, status>>
  <2> DEFINE f == [Top EXCEPT !.at = "suffix.array", !.base = Obj]
  <2>1. f.at = "suffix.array" /\ SameHeights(f, Top)
    BY <1>0 DEF SameHeights, Frames
  <2>2. Sound(f, envs, text, external)
    BY <2>1 DEF Sound, NameHeld, EntryHeld, RecordHeld
  <2>3. Top.at = "suffix" /\ Quiet /\ Continue(f)
    BY <1>2 DEF At, Quiet
  <2> HIDE DEF f
  <2> QED BY <2>1, <2>2, <2>3, QuietGoes, FreeLabels DEF Askers
<1>3. CASE /\ At("suffix") \/ At("suffix.array")
           /\ UNCHANGED <<lexVars, semaVars, external, status>>
           /\ Return([NoValue EXCEPT !.shape = Top.base])
  BY <1>3, QuietReturn DEF At, Quiet, Outermost, DtorLabels
<1> QED BY <1>1, <1>2, <1>3 DEF DirectDeclaratorSuffix, At, Quiet

LEMMA DirectDeclaratorFuncSuffixMoves ==
  ASSUME IInv, NInv, IInv', DirectDeclaratorFuncSuffix
  PROVE  Moved
<1>1. ASSUME Top.at \in {"params", "param"}, Quiet,
             NEW l \in {"params", "param", "params.end"}, Goto(l)
      PROVE  Moved
  BY <1>1, QuietGoto, FreeLabels DEF Askers
<1>2. ASSUME Top.at = "param", Quiet, Call("param.spec", "spec", Obj)
      PROVE  Moved
  BY <1>2, QuietCall, FreeLabels DEF Askers, Entries, Shapes, Obj, Outermost
<1>3. ASSUME Top.at = "param.spec", Quiet, Call("param.decl", "dtor", ret.shape)
      PROVE  Moved
  <2>1. ret.shape \in Shapes
    BY DEF IInv, Framed, Values
  <2> QED BY <1>3, <2>1, QuietCall, FreeLabels DEF Entries
<1>4. ASSUME Top.at = "param.decl", Quiet,
             Continue([Top EXCEPT !.at = "params", !.more = TRUE])
      PROVE  Moved
  <2> DEFINE f == [Top EXCEPT !.at = "params", !.more = TRUE]
  <2>1. f.at = "params" /\ SameHeights(f, Top)
    BY TopFrame DEF SameHeights, Frames
  <2>2. Sound(f, envs, text, external)
    BY <2>1 DEF Sound, NameHeld, EntryHeld, RecordHeld
  <2>3. Continue(f)
    BY <1>4
  <2> HIDE DEF f
  <2> QED BY <1>4, <2>1, <2>2, <2>3, QuietGoes, FreeLabels DEF Askers
<1>5. ASSUME Top.at \in {"params", "params.end"}, Quiet, NEW v, Return(v)
      PROVE  Moved
  BY <1>5, QuietReturn DEF Outermost, DtorLabels
<1>6. ASSUME NEW s, Stop(s)
      PROVE  Moved
  BY <1>6, StopsMove
<1> QED BY <1>1, <1>2, <1>3, <1>4, <1>5, <1>6 DEF DirectDeclaratorFuncSuffix, At, Quiet

LEMMA ParseStmtMoves ==
  ASSUME IInv, NInv, IInv', ParseStmt
  PROVE  Moved
<1>1. ASSUME Top.at = "stmt", Quiet, NEW v, Return(v)
      PROVE  Moved
  BY <1>1, QuietReturn DEF Outermost, DtorLabels
<1>2. ASSUME NEW s, Stop(s)
      PROVE  Moved
  BY <1>2, StopsMove
<1>3. ASSUME Top.at = "stmt", Quiet, NEW l \in {"decl", "block", "for", "expr"}, TailCall(l, Obj)
      PROVE  Moved
  <2>1. l \in Entries \ {"fun"} /\ Obj \in Shapes
    BY DEF Entries, Shapes, Obj
  <2>2. UNCHANGED <<envs, modes, saved>>
    BY <1>3, Reads DEF Quiet, semaVars, IInv
  <2>3. Ambient
    BY <1>3, QuietAmbient
  <2> QED BY <1>3, <2>1, <2>2, <2>3, NTail DEF Moved, Ambient
<1> QED BY <1>1, <1>2, <1>3 DEF ParseStmt, At, Quiet

LEMMA ParseExprStmtMoves ==
  ASSUME IInv, NInv, IInv', ParseExprStmt
  PROVE  Moved
<1>1. CASE At("expr") /\ Primary("expr.end")
  BY <1>1, PrimaryMoves, FreeLabels DEF At, Askers
<1>2. CASE WrongToken(";")
  BY <1>2, StopsMove DEF WrongToken
<1>3. CASE /\ At("expr.end")
           /\ Advance
           /\ Return(NoValue)
           /\ UNCHANGED <<semaVars, external, status>>
  BY <1>3, QuietReturn DEF At, Quiet, Outermost, DtorLabels
<1> QED BY <1>1, <1>2, <1>3 DEF ParseExprStmt

LEMMA ParseBlockStmtMoves ==
  ASSUME IInv, NInv, IInv', ParseBlockStmt
  PROVE  Moved
<1>1. ASSUME NEW s, Stop(s)
      PROVE  Moved
  BY <1>1, StopsMove
<1>2. CASE /\ At("block")
           /\ Advance
           /\ envs' = EnterScope(envs)
           /\ Goto("block.loop")
           /\ UNCHANGED <<modes, records, external, status>>
  BY <1>2, OpensAt, FreeLabels DEF At, Askers
<1>3. CASE /\ At("block.loop")
           /\ UNCHANGED <<lexVars, semaVars, external, status>>
           /\ Call("block.loop", "stmt", Obj)
  BY <1>3, QuietCall, FreeLabels DEF At, Quiet, Askers, Entries, Shapes, Obj
<1>4. CASE /\ At("block.loop")
           /\ Advance
           /\ envs' = ExitScope(envs)
           /\ Return(NoValue)
           /\ UNCHANGED <<modes, records, external, status>>
  BY <1>4, ClosesAt DEF At, ScopeHeld, Outermost, DtorLabels, Adds
<1> QED BY <1>1, <1>2, <1>3, <1>4 DEF ParseBlockStmt

LEMMA ForTokenMoves ==
  ASSUME IInv, NInv, IInv', NEW t, NEW l \in Free \ Askers, Top.at \in Free, ForToken(t, l)
  PROVE  Moved
<1>1. CASE WrongToken(t)
  BY <1>1, StopsMove DEF WrongToken
<1>2. CASE Tok = t /\ Advance /\ Goto(l) /\ UNCHANGED <<semaVars, external, status>>
  BY <1>2, QuietGoto, FreeLabels DEF Quiet
<1> QED BY <1>1, <1>2 DEF ForToken

LEMMA ParseForStmtMoves ==
  ASSUME IInv, NInv, IInv', ParseForStmt
  PROVE  Moved
<1>0. /\ {"for.paren", "for.init", "for.cond", "for.semi", "for.inc", "for.close", "for.body",
          "for.exit"} \subseteq Free \ Askers
  BY FreeLabels DEF Askers
<1>1. ASSUME NEW s, Stop(s)
      PROVE  Moved
  BY <1>1, StopsMove
<1>2. CASE /\ At("for")
           /\ Advance
           /\ Goto("for.paren")
           /\ UNCHANGED <<semaVars, external, status>>
  BY <1>2, <1>0, QuietGoto, FreeLabels DEF At, Quiet
<1>3. CASE /\ At("for.paren")
           /\ Advance
           /\ envs' = EnterScope(envs)
           /\ Goto("for.init")
           /\ UNCHANGED <<modes, records, external, status>>
  BY <1>3, <1>0, OpensAt, FreeLabels DEF At
<1>4. ASSUME At("for.init"), Quiet, NEW l \in {"decl", "expr"}, Call("for.cond", l, Obj)
      PROVE  Moved
  BY <1>4, <1>0, QuietCall, FreeLabels DEF At, Entries, Shapes, Obj
<1>5. ASSUME Top.at \in {"for.init", "for.cond", "for.semi", "for.inc", "for.close"},
             NEW t, NEW l \in {"for.cond", "for.inc", "for.body"}, ForToken(t, l)
      PROVE  Moved
  BY <1>5, <1>0, ForTokenMoves
<1>6. ASSUME Top.at \in {"for.cond", "for.inc"}, NEW l \in {"for.semi", "for.close"}, Primary(l)
      PROVE  Moved
  BY <1>6, <1>0, PrimaryMoves, FreeLabels
<1>7. CASE /\ At("for.body")
           /\ UNCHANGED <<lexVars, semaVars, external, status>>
           /\ Call("for.exit", "stmt", Obj)
  BY <1>7, <1>0, QuietCall, FreeLabels DEF At, Quiet, Entries, Shapes, Obj
<1>8. CASE /\ At("for.exit")
           /\ envs' = ExitScope(envs)
           /\ Return(NoValue)
           /\ UNCHANGED <<lexVars, modes, records, external, status>>
  BY <1>8, ClosesAt DEF At, ScopeHeld, Outermost, DtorLabels, Adds
<1> QED BY <1>1, <1>2, <1>3, <1>4, <1>5, <1>6, <1>7, <1>8 DEF ParseForStmt, At, Quiet

-----------------------------------------------------------------------------
(***************************************************************************)
(* Declarations: what Sema enters.                                         *)
(***************************************************************************)
LEMMA ObjectAdds ==
  ASSUME NEW e \in Seq(Envs), e # <<>>, NEW n \in Names, NEW sym \in Symbols,
         sym.kind # "none", sym.at # 0
  PROVE  Adds(e, AddObjSymbol(e, n, sym))
BY DEF Adds, AddsName, AddObjSymbol, WithName

LEMMA TagAdds ==
  ASSUME NEW e \in Seq(Envs), e # <<>>, NEW i, NEW r \in Nat \ {0}
  PROVE  Adds(e, semaTagDeclare(e, i, r))
<1>1. \A t \in Tags : Adds(e, AddTagSymbol(e, t, r))
  BY DEF Adds, AddsTag, AddTagSymbol, WithTag
<1>2. (IF text[i] \in Names THEN text[i] ELSE Anonymous) \in Tags
  BY DEF Tags
<1> QED BY <1>1, <1>2 DEF semaTagDeclare, Adds

LEMMA SemaAdds ==
  ASSUME text \in Seq(Tokens), NEW e \in Seq(Envs), e # <<>>, NEW i, Named(i, text),
         NEW s \in Shapes, NEW m, NEW b \in BOOLEAN
  PROVE  /\ Adds(e, semaTypedefDecl(e, m, i, s))
         /\ Adds(e, semaFunctionDecl(e, i, s, b))
         /\ Adds(e, AddObjSymbol(e, text[i], Symbol("obj", s, i)))
<1>1. i \in Nat \ {0} /\ text[i] \in Names
  BY DEF Named
<1>2. /\ Symbol("typedef", s, i) \in Symbols /\ Symbol("obj", s, i) \in Symbols
      /\ Symbol("typedef", s, i).kind = "typedef" /\ Symbol("typedef", s, i).at = i
      /\ Symbol("obj", s, i).kind = "obj" /\ Symbol("obj", s, i).at = i
  BY <1>1 DEF Symbol, Symbols, Shapes, Obj
<1>3. Adds(e, semaTypedefDecl(e, m, i, s))
  BY <1>1, <1>2, ObjectAdds DEF semaTypedefDecl, Adds
<1>4. Adds(e, semaFunctionDecl(e, i, s, b))
  BY <1>1, <1>2, ObjectAdds DEF semaFunctionDecl, Adds
<1>5. Adds(e, AddObjSymbol(e, text[i], Symbol("obj", s, i)))
  BY <1>1, <1>2, ObjectAdds
<1> QED BY <1>3, <1>4, <1>5

LEMMA SameAmbient ==
  ASSUME IInv, NInv, IInv', Extends(text, text'), UNCHANGED <<envs, external>>
  PROVE  /\ Ambient
         /\ \A f : Sound(f, envs, text, external) => Sound(f, envs', text', external')
BY Surroundings DEF ScopesMove, Adds

LEMMA FreeSound ==
  ASSUME NEW f, f.at \in Free, NEW e, NEW t, NEW x
  PROVE  Sound(f, e, t, x)
<1>1. EntryHeld \subseteq NameHeld
  BY DEF EntryHeld, NameHeld
<1> QED BY <1>1 DEF Free, Sound

LEMMA IsFunctionDeclMoves ==
  ASSUME IInv, NInv, IInv', IsFunctionDecl
  PROVE  Moved
<1>0. {"isfun", "isfun.spec", "isfun.decl"} \subseteq Free
  BY FreeLabels
<1>1. CASE /\ At("isfun")
           /\ BeginSkip
           /\ UNCHANGED <<text, cur, tok, envs, records, external, status>>
           /\ CallFrom([Top EXCEPT !.at = "isfun.spec", !.begin = tok, !.mark = envs],
                       "spec", Obj)
  <2> DEFINE f == [Top EXCEPT !.at = "isfun.spec", !.begin = tok, !.mark = envs]
  <2>1. f.at = "isfun.spec" /\ SameHeights(f, Top)
    BY TopFrame DEF SameHeights, Frames
  <2>2. Top.at = "isfun" /\ CallFrom(f, "spec", Obj)
    BY <1>1 DEF At
  <2> HIDE DEF f
  <2>3. Extends(text, text')
    BY <1>1, TextOf DEF Extends
  <2>4. Ambient
    BY <1>1, <2>3, SameAmbient
  <2>5. Kin(f.at, Top.at) /\ Sound(f, envs', text', external')
    BY <1>0, <2>1, <2>2, FreeSound, FreeLabels
  <2>6. "spec" \in Entries /\ Obj \in Shapes /\ f.at \notin Askers
    BY <2>1 DEF Entries, Shapes, Obj, Askers
  <2> QED BY <2>1, <2>2, <2>4, <2>5, <2>6, NCalls DEF Moved, Ambient
<1>2. ASSUME NEW v, Top.at \in {"isfun.spec", "isfun.decl"}, EndIsFunctionDecl(v)
      PROVE  Moved
  <2>1. Extends(text, text') /\ UNCHANGED <<envs, external>>
    BY <1>2, TextOf DEF Extends, EndIsFunctionDecl
  <2>2. Ambient
    BY <2>1, SameAmbient
  <2>3. Top.at \notin Outermost /\ Top.at \notin DtorLabels
    BY <1>2 DEF Outermost, DtorLabels
  <2>4. Return([NoValue EXCEPT !.flag = v])
    BY <1>2 DEF EndIsFunctionDecl
  <2> QED BY <2>2, <2>3, <2>4, NReturnsPlain DEF Moved, Ambient
<1>3. ASSUME At("isfun.spec"), Quiet, Call("isfun.decl", "dtor", ret.shape)
      PROVE  Moved
  <2>1. ret.shape \in Shapes
    BY DEF IInv, Framed, Values
  <2> QED BY <1>0, <1>3, <2>1, QuietCall, FreeLabels DEF At, Entries
<1>4. \A v : At("isfun.spec") /\ EndIsFunctionDecl(v) => Moved
  BY <1>2 DEF At
<1>5. \A v : At("isfun.decl") /\ EndIsFunctionDecl(v) => Moved
  BY <1>2 DEF At
<1>6. CASE /\ At("isfun.spec")
           /\ UNCHANGED <<lexVars, semaVars, external, status>>
           /\ Call("isfun.decl", "dtor", ret.shape)
  BY <1>3, <1>6 DEF Quiet
<1> QED BY <1>1, <1>4, <1>5, <1>6 DEF IsFunctionDecl

LEMMA ParseDeclSpecMoves ==
  ASSUME IInv, NInv, IInv', ParseDeclSpec
  PROVE  Moved
<1>0. {"spec", "spec.loop", "spec.struct"} \subseteq Free \ Askers
  BY FreeLabels DEF Askers
<1>1. ASSUME NEW s, Stop(s)
      PROVE  Moved
  BY <1>1, StopsMove
<1>2. ASSUME At("spec"), Quiet, Goto("spec.loop")
      PROVE  Moved
  BY <1>0, <1>2, QuietGoto, FreeLabels DEF At
<1>3. ASSUME Top.at \in {"spec.loop", "spec.struct"}, Quiet, NEW f, f.at = "spec.loop",
             SameHeights(f, Top), Continue(f)
      PROVE  Moved
  BY <1>0, <1>3, QuietGoes, FreeLabels, FreeSound
<1>4. ASSUME At("spec.loop"), Quiet, NEW v, Return(v)
      PROVE  Moved
  BY <1>4, QuietReturn DEF At, Outermost, DtorLabels
<1>5. ASSUME At("spec.loop"), Quiet, Call("spec.struct", "struct", Obj)
      PROVE  Moved
  BY <1>0, <1>5, QuietCall, FreeLabels DEF At, Entries, Shapes, Obj
<1>6. ASSUME At("spec.loop")
      PROVE  /\ \A b : [Top EXCEPT !.user = TRUE, !.base = b].at = "spec.loop"
                       /\ SameHeights([Top EXCEPT !.user = TRUE, !.base = b], Top)
             /\ [Top EXCEPT !.tdef = TRUE].at = "spec.loop"
             /\ SameHeights([Top EXCEPT !.tdef = TRUE], Top)
             /\ \A k : [Top EXCEPT !.kind = k].at = "spec.loop"
                       /\ SameHeights([Top EXCEPT !.kind = k], Top)
             /\ [Top EXCEPT !.size = @ + 1].at = "spec.loop"
             /\ SameHeights([Top EXCEPT !.size = @ + 1], Top)
  BY <1>6, TopFrame DEF At, SameHeights, Frames
<1>7. ASSUME At("spec.loop"), NEW f, f.at = "spec.loop", SameHeights(f, Top), SpecToken(f)
      PROVE  Moved
  BY <1>3, <1>7 DEF SpecToken, Quiet, At
<1>8. ASSUME At("spec.struct"), Quiet,
             Continue([Top EXCEPT !.at = "spec.loop", !.user = TRUE, !.base = Obj,
                                  !.rec = ret.rec])
      PROVE  Moved
  <2> DEFINE f == [Top EXCEPT !.at = "spec.loop", !.user = TRUE, !.base = Obj,
                              !.rec = ret.rec]
  <2>1. f.at = "spec.loop" /\ SameHeights(f, Top)
    BY TopFrame DEF SameHeights, Frames
  <2> HIDE DEF f
  <2>2. Continue(f)
    BY <1>8 DEF f
  <2> QED BY <1>3, <1>8, <2>1, <2>2 DEF At
<1> QED BY <1>1, <1>2, <1>4, <1>5, <1>6, <1>7, <1>8 DEF ParseDeclSpec, Quiet

LEMMA ParseStructOrUnionSpecMoves ==
  ASSUME IInv, NInv, IInv', ParseStructOrUnionSpec
  PROVE  Moved
<1>0. Top \in Frames /\ Top = stack[Len(stack)] /\ Sound(Top, envs, text, external)
  BY TopFrame, TopSound DEF Top
<1>a. Kin("struct.body", "struct.tag") /\ Kin("struct.members", "struct.body")
      /\ Kin("struct.member", "struct.members") /\ Kin("struct.members", "struct.member")
      /\ Knows("struct.member", "struct.members") /\ Knows("struct.members", "struct.member")
      /\ RecordHeld \cap Askers = {} /\ RecordHeld \cap NameHeld = {}
      /\ RecordHeld \cap EntryHeld = {}
  BY DEF Kin, Knows, RecordHeld, Askers, NameHeld, EntryHeld, DtorLabels, FunLabels
<1>b. \A f, e, t, x : f.at \in RecordHeld /\ f.rec # NoRecord => Sound(f, e, t, x)
  BY <1>a DEF Sound
<1>c. Top.at \in RecordHeld => Top.rec \in Nat \ {0}
  BY <1>0 DEF Sound, NoRecord, Frames
<1>1. CASE /\ At("struct")
           /\ Advance
           /\ Goto("struct.tag")
           /\ UNCHANGED <<semaVars, external, status>>
  BY <1>1, QuietGoto, FreeLabels DEF At, Quiet, Askers
<1>2. ASSUME At("struct.tag"), NEW rec, rec # NoRecord, Advance \/ UNCHANGED lexVars,
             Continue([Top EXCEPT !.at = "struct.body", !.rec = rec, !.name = tok]),
             UNCHANGED <<envs, external>>
      PROVE  Moved
  <2> DEFINE f == [Top EXCEPT !.at = "struct.body", !.rec = rec, !.name = tok]
  <2>1. f.at = "struct.body" /\ f.rec = rec /\ SameHeights(f, Top)
    BY <1>0 DEF SameHeights, Frames
  <2>2. Continue(f)
    BY <1>2
  <2> HIDE DEF f
  <2>3. f.at \in RecordHeld
    BY <2>1 DEF RecordHeld
  <2>4. Ambient
    BY <1>2, ReadsOn, SameAmbient
  <2>5. Sound(f, envs', text', external')
    BY <1>2, <1>b, <2>1, <2>3
  <2>6. Kin(f.at, Top.at) /\ f.at \notin Askers
    BY <1>2, <1>a, <2>1, <2>3 DEF At
  <2> QED BY <2>1, <2>2, <2>4, <2>5, <2>6, NGoes DEF Moved, Ambient
<1>3. CASE /\ At("struct.body")
           /\ UNCHANGED <<lexVars, semaVars, external, status>>
           /\ Return([NoValue EXCEPT !.rec = Top.rec])
  BY <1>3, QuietReturn DEF At, Quiet, Outermost, DtorLabels
<1>4. CASE /\ At("struct.body")
           /\ Advance
           /\ envs' = EnterScope(envs)
           /\ Continue([Top EXCEPT !.at = "struct.members", !.begin = tok])
           /\ UNCHANGED <<modes, records, external, status>>
  <2> DEFINE f == [Top EXCEPT !.at = "struct.members", !.begin = tok]
  <2>1. f.at = "struct.members" /\ f.rec = Top.rec /\ SameHeights(f, Top)
    BY <1>0 DEF SameHeights, Frames
  <2>2. Continue(f) /\ Top.at = "struct.body"
    BY <1>4 DEF At
  <2> HIDE DEF f
  <2>3. f.at \in RecordHeld /\ Top.at \in RecordHeld
    BY <2>1, <2>2 DEF RecordHeld
  <2>4. Ambient
    BY <1>4, ScopesAmbient DEF ScopesMove
  <2>5. Sound(f, envs', text', external')
    BY <1>b, <1>c, <2>1, <2>3 DEF NoRecord
  <2>6. Kin(f.at, Top.at) /\ f.at \notin Askers
    BY <1>a, <2>1, <2>2, <2>3
  <2> QED BY <2>1, <2>2, <2>4, <2>5, <2>6, NGoes DEF Moved, Ambient
<1>5. CASE /\ At("struct.members")
           /\ UNCHANGED <<lexVars, semaVars, external, status>>
           /\ Call("struct.member", "decl", Obj)
  <2>1. "struct.member" \notin Askers /\ "decl" \in Entries /\ Obj \in Shapes
    BY DEF Askers, Entries, Shapes, Obj
  <2> QED BY <1>5, <1>a, <2>1, QuietCall DEF At, Quiet
<1>6. CASE Stop("nullMember")
  BY <1>6, StopsMove
<1>7. CASE /\ At("struct.member")
           /\ Goto("struct.members") /\ UNCHANGED <<lexVars, semaVars, external, status>>
  <2>1. "struct.members" \notin Askers
    BY DEF Askers
  <2> QED BY <1>7, <1>a, <2>1, QuietGoto DEF At, Quiet
<1>8. CASE UNCHANGED <<lexVars, envs, external, stack, ret>>
  BY <1>8 DEF Moved, Stuck
<1>9. CASE /\ At("struct.members")
           /\ Advance
           /\ envs' = semaTagDeclare(ExitScope(envs), Top.name, Top.rec)
           /\ Return([NoValue EXCEPT !.rec = Top.rec])
           /\ external' = external
  <2>1. /\ Top.at \in ScopeHeld /\ Top.at \in RecordHeld /\ Top.at \notin Outermost
        /\ Top.at \notin DtorLabels
    BY <1>9 DEF At, ScopeHeld, RecordHeld, Outermost, DtorLabels
  <2>2. ExitScope(envs) \in Seq(Envs) /\ ExitScope(envs) # <<>>
    BY <2>1, OuterScopes
  <2>3. Adds(ExitScope(envs), envs')
    BY <1>9, <1>c, <2>1, <2>2, TagAdds
  <2> QED BY <1>9, <2>1, <2>3, ClosesAt
<1>10. CASE At("struct.tag") /\ ParseStructOrUnionSpec
  <2> DEFINE found == IF Tok \in Names THEN FindTagSymbol(envs, Tok) ELSE NoRecord
             rec == IF found # NoRecord THEN found ELSE Len(records) + 1
  <2>1. rec # NoRecord
    BY DEF IInv, Noted, NoRecord
  <2>2. /\ IF Tok \in Names THEN Advance ELSE UNCHANGED lexVars
        /\ Continue([Top EXCEPT !.at = "struct.body", !.rec = rec, !.name = tok])
        /\ UNCHANGED <<modes, envs, external, status>>
    BY <1>10 DEF ParseStructOrUnionSpec, At
  <2> HIDE DEF rec
  <2> QED BY <1>2, <1>10, <2>1, <2>2
<1>11. CASE ParseStructOrUnionSpec /\ ~At("struct.tag")
  BY <1>1, <1>3, <1>4, <1>5, <1>6, <1>7, <1>8, <1>9, <1>11 DEF ParseStructOrUnionSpec
<1> QED BY <1>10, <1>11

LEMMA DtorFacts ==
  /\ \A l, k \in DtorLabels : Kin(l, k)
  /\ \A l \in DtorLabels \ NameHeld : l \notin EntryHeld /\ l \notin RecordHeld
  /\ \A l \in DtorLabels : l \notin RecordHeld /\ l \notin Outermost
  /\ {"dtor", "dtor.skipped", "dtor.typed", "dtor.real"} \subseteq DtorLabels \ NameHeld
  /\ {"dtor.ident", "dtor.tail", "dtor.init", "dtor.value", "dtor.more"}
       \subseteq DtorLabels \ Askers
  /\ {"dtor.tail", "dtor.init", "dtor.value", "dtor.more"} \subseteq EntryHeld \cap NameHeld
  /\ "dtor.ident" \in NameHeld \ EntryHeld
BY DEF DtorLabels, Kin, FunLabels, NameHeld, EntryHeld, RecordHeld, Outermost, Askers

LEMMA NoNameSound ==
  ASSUME NEW f, f.at \in DtorLabels \ NameHeld, NEW e, NEW t, NEW x
  PROVE  Sound(f, e, t, x)
BY DtorFacts DEF Sound

\* The name that "dtor.ident" enters is new to the scope and to the program.
LEMMA DeclaresFresh ==
  ASSUME IInv, NInv, Top.at = "dtor.ident", ~Redefines(text[Top.name]), NEW s \in Shapes,
         semaVariableDeclNode(Top.name, s)
  PROVE  Adds(envs, envs') /\ Named(Top.name, text) /\ Fresh(Top.name, Top, envs', text, external)
<1> DEFINE n == text[Top.name]
           sym == Symbol("obj", s, Top.name)
<1>0. text \in Seq(Tokens) /\ envs \in Seq(Envs) /\ envs # <<>> /\ Len(envs) \in Nat \ {0}
  BY DEF IInv, Lexed, Scoped
<1>1. Named(Top.name, text)
  BY TopSound DEF Sound, NameHeld
<1>2. Adds(envs, envs')
  BY <1>0, <1>1, SemaAdds DEF semaVariableDeclNode, Adds
<1>3. ASSUME Top.depth = 1, Top.mdepth = 1
      PROVE  /\ envs'[1].obj[n].kind = "obj"
             /\ \A k \in 1..Len(external) : text[external[k].at] # n
  <2>1. Len(envs) = 1 /\ Len(modes) = 1
    <3>1. Calm("dtor.ident")
      BY DEF Calm, ScopeHeld, SkipHeld, SaveHeld, Outermost
    <3> QED BY <1>3, <3>1, CalmHeights
  <2>2. Mode = "Normal"
    BY <2>1 DEF Mode, IInv, ModesOK
  <2>3. envs[1].obj[n].kind = "none"
    BY <2>1, <2>2 DEF Redefines, FindObjSymbolInCurScope
  <2>4. envs' = WithName(envs, n, sym)
    BY <2>1, <2>2, <2>3 DEF semaVariableDeclNode, AddObjSymbol, HasObj, WithName
  <2>5. sym \in Symbols /\ sym.kind = "obj" /\ n \in Names
    BY <1>1 DEF Named, Symbol, Symbols
  <2>6. envs'[1].obj[n] = sym
    <3> HIDE DEF n, sym
    <3>1. \A i \in 1..Len(envs), k \in Names :
            envs'[i].obj[k] = IF i = Len(envs) /\ k = n THEN sym ELSE envs[i].obj[k]
      BY <1>0, <2>4, <2>5, NameAdded
    <3> QED BY <2>1, <2>5, <3>1
  <2>7. \A k \in 1..Len(external) : text[external[k].at] # n
    BY <2>3 DEF NInv, Filed
  <2> QED BY <2>5, <2>6, <2>7
<1> QED BY <1>1, <1>2, <1>3 DEF Fresh

LEMMA DeclaratorMoves ==
  ASSUME IInv, NInv, IInv', Declarator
  PROVE  Moved
<1>0. Top \in Frames /\ Sound(Top, envs, text, external) /\ ret.shape \in Shapes
  BY TopFrame, TopSound DEF IInv, Framed, Values
<1>1. ASSUME NEW s, Stop(s)
      PROVE  Moved
  BY <1>1, StopsMove
<1>2. CASE /\ At("dtor")
           /\ Advance
           /\ Continue([Top EXCEPT !.base = PointerTo(@)])
           /\ UNCHANGED <<semaVars, external, status>>
  <2> DEFINE f == [Top EXCEPT !.base = PointerTo(@)]
  <2>1. f.at = "dtor" /\ SameHeights(f, Top)
    BY <1>0, <1>2 DEF SameHeights, Frames, At
  <2>2. Continue(f) /\ Quiet /\ Top.at = "dtor"
    BY <1>2 DEF Quiet, At
  <2> HIDE DEF f
  <2> QED BY <2>1, <2>2, QuietGoes, NoNameSound, DtorFacts DEF Askers
<1>3. CASE /\ At("dtor")
           /\ BeginSkip
           /\ NextTokenFrom(cur)
           /\ UNCHANGED <<envs, records, external, status>>
           /\ CallFrom([Top EXCEPT !.at = "dtor.skipped", !.begin = tok, !.mark = envs],
                       "dtor", Obj)
  <2> DEFINE f == [Top EXCEPT !.at = "dtor.skipped", !.begin = tok, !.mark = envs]
  <2>1. f.at = "dtor.skipped" /\ SameHeights(f, Top)
    BY <1>0 DEF SameHeights, Frames
  <2>2. CallFrom(f, "dtor", Obj) /\ Top.at = "dtor"
    BY <1>3 DEF At
  <2> HIDE DEF f
  <2>3. Extends(text, text')
    BY <1>3, TextGrows DEF IInv, Lexed
  <2>4. Ambient
    BY <1>3, <2>3, SameAmbient
  <2>5. Kin(f.at, Top.at) /\ Sound(f, envs', text', external')
    BY <2>1, <2>2, NoNameSound, DtorFacts
  <2>6. "dtor" \in Entries /\ Obj \in Shapes
    BY DEF Entries, Shapes, Obj
  <2> QED BY <2>1, <2>2, <2>4, <2>5, <2>6, NCalls DEF Moved, Ambient
<1>4. CASE /\ At("dtor.skipped")
           /\ Advance
           /\ UNCHANGED <<semaVars, external, status>>
           /\ Call("dtor.typed", "suffix", Top.base)
  <2>1. "suffix" \in Entries /\ Top.base \in Shapes /\ "dtor.typed" \notin Askers
    BY <1>0 DEF Entries, Frames, Askers
  <2>2. Kin("dtor.typed", "dtor.skipped") /\ Knows("dtor.typed", "dtor.skipped")
    BY DtorFacts DEF Knows
  <2> QED BY <1>4, <2>1, <2>2, QuietCall DEF At, Quiet
<1>5. CASE /\ At("dtor.typed")
           /\ EndSkip
           /\ NextTokenFrom(Last(saved))
           /\ UNCHANGED <<envs, records, external, status>>
           /\ CallFrom([Top EXCEPT !.at = "dtor.real", !.stop = tok], "dtor", ret.shape)
  <2> DEFINE f == [Top EXCEPT !.at = "dtor.real", !.stop = tok]
  <2>1. f.at = "dtor.real" /\ SameHeights(f, Top)
    BY <1>0 DEF SameHeights, Frames
  <2>2. CallFrom(f, "dtor", ret.shape) /\ Top.at = "dtor.typed"
    BY <1>5 DEF At
  <2> HIDE DEF f
  <2>3. Extends(text, text')
    <3>1. Last(saved) \in 1..Len(text)
      BY <1>5, <2>2, EndSkipFacts DEF SaveHeld
    <3> QED BY <1>5, <3>1, TextGrows DEF IInv
  <2>4. Ambient
    BY <1>5, <2>3, SameAmbient
  <2>5. Kin(f.at, Top.at) /\ Sound(f, envs', text', external')
    BY <2>1, <2>2, NoNameSound, DtorFacts
  <2>6. "dtor" \in Entries
    BY DEF Entries
  <2> QED BY <1>0, <2>1, <2>2, <2>4, <2>5, <2>6, NCalls DEF Moved, Ambient
<1>6. CASE /\ At("dtor.real")
           /\ Advance
           /\ UNCHANGED <<semaVars, external, status>>
           /\ CallFrom([Top EXCEPT !.at = "dtor.tail", !.base = ret.shape, !.name = ret.name],
                       "suffix", Obj)
  <2> DEFINE f == [Top EXCEPT !.at = "dtor.tail", !.base = ret.shape, !.name = ret.name]
  <2>1. f.at = "dtor.tail" /\ f.name = ret.name /\ SameHeights(f, Top)
    BY <1>0 DEF SameHeights, Frames
  <2>2. CallFrom(f, "suffix", Obj) /\ Top.at = "dtor.real" /\ Quiet
    BY <1>6 DEF At, Quiet
  <2> HIDE DEF f
  <2>3. Named(ret.name, text) /\ Fresh(ret.name, Top, envs, text, external)
    BY <2>2 DEF NInv, Answers, Askers
  <2>4. Kin(f.at, Top.at) /\ f.at \notin Askers
    BY <2>1, <2>2, DtorFacts
  <2>5. Sound(f, envs, text, external)
    BY <2>1, <2>3 DEF Sound, Fresh, SameHeights, RecordHeld
  <2>6. "suffix" \in Entries /\ Obj \in Shapes
    BY DEF Entries, Shapes, Obj
  <2> QED BY <2>1, <2>2, <2>4, <2>5, <2>6, QuietCallsFrom
<1>7. ASSUME Quiet, \/ Top.at = "dtor.tail" /\ Goto("dtor.init")
                    \/ Top.at = "dtor.init" /\ Goto("dtor.value")
      PROVE  Moved
  <2>1. /\ Knows("dtor.init", "dtor.tail") /\ Knows("dtor.value", "dtor.init")
        /\ Kin("dtor.init", "dtor.tail") /\ Kin("dtor.value", "dtor.init")
        /\ "dtor.init" \notin Askers /\ "dtor.value" \notin Askers
    BY DtorFacts DEF Knows
  <2> QED BY <1>7, <2>1, QuietGoto
<1>8. CASE /\ At("dtor")
           /\ Tok \in Names
           /\ Advance
           /\ UNCHANGED <<semaVars, external, status>>
           /\ CallFrom([Top EXCEPT !.at = "dtor.ident", !.name = tok], "suffix", Top.base)
  <2> DEFINE f == [Top EXCEPT !.at = "dtor.ident", !.name = tok]
  <2>1. f.at = "dtor.ident" /\ f.name = tok /\ SameHeights(f, Top)
    BY <1>0 DEF SameHeights, Frames
  <2>2. CallFrom(f, "suffix", Top.base) /\ Top.at = "dtor" /\ Quiet /\ Tok \in Names
    BY <1>8 DEF At, Quiet
  <2> HIDE DEF f
  <2>3. Named(tok, text)
    BY <2>2, TextOf DEF Named, Tok
  <2>4. Kin(f.at, Top.at) /\ f.at \notin Askers
    BY <2>1, <2>2, DtorFacts
  <2>5. Sound(f, envs, text, external)
    BY <2>1, <2>3, DtorFacts DEF Sound
  <2>6. "suffix" \in Entries /\ Top.base \in Shapes
    BY <1>0 DEF Entries, Frames
  <2> QED BY <2>1, <2>2, <2>4, <2>5, <2>6, QuietCallsFrom
<1>9. CASE /\ At("dtor.ident")
           /\ ~Redefines(text[Top.name])
           /\ semaVariableDeclNode(Top.name, ret.shape)
           /\ UNCHANGED <<lexVars, modes, records, external, status>>
           /\ Continue([Top EXCEPT !.at = "dtor.init", !.base = ret.shape])
  <2> DEFINE f == [Top EXCEPT !.at = "dtor.init", !.base = ret.shape]
  <2>1. f.at = "dtor.init" /\ f.name = Top.name /\ SameHeights(f, Top)
    BY <1>0 DEF SameHeights, Frames
  <2>2. Continue(f) /\ Top.at = "dtor.ident"
    BY <1>9 DEF At
  <2> HIDE DEF f
  <2>3. /\ Adds(envs, envs') /\ Named(Top.name, text)
        /\ Fresh(Top.name, Top, envs', text, external)
    BY <1>0, <1>9, <2>2, DeclaresFresh
  <2>4. Ambient /\ text' = text /\ external' = external
    BY <1>9, <2>3, ScopesAmbient DEF ScopesMove, lexVars
  <2>5. Sound(f, envs', text', external')
    BY <2>1, <2>3, <2>4 DEF Sound, Fresh, SameHeights, RecordHeld
  <2>6. Kin(f.at, Top.at) /\ f.at \notin Askers
    BY <2>1, <2>2, DtorFacts
  <2> QED BY <2>1, <2>2, <2>4, <2>5, <2>6, NGoes DEF Moved, Ambient
<1>10. CASE /\ At("dtor.init")
            /\ UNCHANGED <<lexVars, semaVars, external, status>>
            /\ Return([NoValue EXCEPT !.shape = Top.base, !.name = Top.name])
  BY <1>10, QuietAnswers DEF At, Quiet
<1>11. CASE /\ At("dtor.tail")
            /\ Goto("dtor.init")
            /\ UNCHANGED <<lexVars, semaVars, external, status>>
  BY <1>7, <1>11 DEF At, Quiet
<1>12. CASE /\ At("dtor.init")
            /\ Advance
            /\ Goto("dtor.value")
            /\ UNCHANGED <<semaVars, external, status>>
  BY <1>7, <1>12 DEF At, Quiet
<1> QED BY <1>1, <1>2, <1>3, <1>4, <1>5, <1>6, <1>8, <1>9, <1>10, <1>11, <1>12 DEF Declarator

-----------------------------------------------------------------------------
(***************************************************************************)
(* The two steps that hand a declaration to the code generator.            *)
(***************************************************************************)
LEMMA FiledGrows ==
  ASSUME NEW e, NEW t, NEW x \in Seq(Externals), NEW y \in Externals, Filed(e, t, x),
         Named(y.at, t),
         \/ /\ e[1].obj[t[y.at]].kind = "obj"
            /\ \A k \in 1..Len(x) : t[x[k].at] # t[y.at]
         \/ e[1].obj[t[y.at]].kind \in {"obj", "typedef"} /\ IsFunc(e[1].obj[t[y.at]].shape)
  PROVE  Filed(e, t, Append(x, y))
<1> DEFINE z == Append(x, y)
<1>1. /\ z \in Seq(Externals) /\ Len(z) = Len(x) + 1 /\ z[Len(x) + 1] = y /\ Len(x) \in Nat
      /\ \A i \in 1..Len(x) : z[i] = x[i]
  OBVIOUS
<1> HIDE DEF z
<1>2. \A i \in 1..Len(z) : i \in 1..Len(x) \/ i = Len(x) + 1
  BY <1>1
<1>3. \A i \in 1..Len(z) : Named(z[i].at, t)
  BY <1>1, <1>2 DEF Filed
<1>4. \A i \in 1..Len(z) :
        LET sym == e[1].obj[t[z[i].at]]
        IN  sym.kind = "obj" \/ (sym.kind = "typedef" /\ IsFunc(sym.shape))
  BY <1>1, <1>2 DEF Filed
<1>5. ASSUME NEW i \in 1..Len(z), NEW j \in 1..Len(z), i # j, t[z[i].at] = t[z[j].at]
      PROVE  IsFunc(e[1].obj[t[z[i].at]].shape)
  <2>1. CASE i \in 1..Len(x) /\ j \in 1..Len(x)
    BY <1>1, <1>5, <2>1 DEF Filed
  <2>2. CASE i = Len(x) + 1 \/ j = Len(x) + 1
    BY <1>1, <1>2, <1>5, <2>2
  <2> QED BY <1>2, <2>1, <2>2
<1> QED BY <1>3, <1>4, <1>5 DEF Filed, z

\* A procedure called by ParseProgram runs in Normal mode, in the root scope.
LEMMA SecondFrame ==
  ASSUME IInv, NInv, Len(stack) = 2
  PROVE  /\ Top.depth = 1 /\ Top.mdepth = 1 /\ stack[1].at \in Outermost
         /\ \A e, t, x : Sound(stack[1], e, t, x)
<1>1. /\ stack[1] \in Frames /\ stack[1].at \in Outermost /\ Follows(stack[1], stack[1+1])
      /\ stack[1].depth = 1 /\ stack[1].mdepth = 1
  BY DEF IInv, Framed, Core, NInv, Chained
<1>2. ScopesOf(stack[1]) = 1 /\ ModesOf(stack[1]) = 1
  BY <1>1 DEF ScopesOf, ModesOf, Held, Outermost, ScopeHeld, SkipHeld, SaveHeld
<1>3. Top = stack[1+1]
  BY DEF Top
<1>4. \A e, t, x : Sound(stack[1], e, t, x)
  BY <1>1 DEF Sound, Outermost, NameHeld, EntryHeld, RecordHeld
<1> QED BY <1>1, <1>2, <1>3, <1>4 DEF Follows

LEMMA FunctionsAreSecond ==
  ASSUME IInv, NInv, Top.at \in FunLabels
  PROVE  Len(stack) = 2
<1>1. Len(stack) \in Nat \ {0, 1} /\ Top = stack[Len(stack)]
  <2>1. \A i \in 1..Len(stack) : stack[i].at \in Outermost <=> i = 1
    BY DEF IInv, Framed, Core
  <2>2. Top.at \notin Outermost
    BY DEF FunLabels, Outermost
  <2> QED BY <2>1, <2>2, TopFrame DEF Top
<1>2. Linked(stack[Len(stack)-1].at, stack[Len(stack)-1+1].at)
  <2>1. \A k \in Nat \ {0, 1} : k-1 \in 1..k-1
    OBVIOUS
  <2>2. Len(stack)-1 \in 1..Len(stack)-1
    BY <1>1, <2>1
  <2> QED BY <2>2 DEF NInv, Chained
<1>3. stack[Len(stack)-1].at \in Outermost
  <2>1. Len(stack)-1+1 = Len(stack)
    BY <1>1
  <2> QED BY <1>1, <1>2, <2>1 DEF Linked
<1>4. Len(stack)-1 = 1
  <2>1. \A k \in Nat \ {0, 1} : k-1 \in 1..k
    OBVIOUS
  <2>2. Len(stack)-1 \in 1..Len(stack)
    BY <1>1, <2>1
  <2> QED BY <1>3, <2>2 DEF IInv, Framed, Core
<1> QED BY <1>1, <1>4

LEMMA EndFunctionDeclMoves ==
  ASSUME IInv, NInv, IInv', Top.at \in {"fun.rest", "fun.body"}, NEW b \in BOOLEAN,
         EndFunctionDecl(b)
  PROVE  Moved
<1> DEFINE outer == ExitScope(envs)
           n == text[Top.name]
           y == [at |-> Top.name, type |-> Top.base, body |-> b]
<1>0. /\ Top.at \in FunLabels /\ Top.at \in ScopeHeld /\ Top.at \notin Outermost
      /\ Top.at \notin DtorLabels /\ Top.at \in NameHeld
  BY DEF FunLabels, ScopeHeld, Outermost, DtorLabels, NameHeld
<1>1. Len(stack) = 2 /\ Top.depth = 1 /\ Top.mdepth = 1 /\ \A e, t, x : Sound(stack[1], e, t, x)
  BY <1>0, FunctionsAreSecond, SecondFrame
<1>2. Len(envs) = 2 /\ Mode = "Normal"
  <2>1. Top \in Frames /\ High(Top, envs, modes, saved) /\ Top.at \notin SkipHeld
    BY TopFrame DEF SkipHeld, SaveHeld
  <2>2. Len(envs) = 2 /\ Len(modes) = 1
    BY <1>0, <1>1, <2>1 DEF High, ScopesOf, ModesOf, Held
  <2> QED BY <2>2 DEF Mode, IInv, ModesOK
<1>3. /\ outer \in Seq(Envs) /\ Len(outer) = 1 /\ outer[1] = envs[1] /\ outer # <<>>
  <2>1. envs \in Seq(Envs)
    BY DEF IInv, Scoped
  <2>2. /\ Front(envs) \in Seq(Envs) /\ Len(Front(envs)) = Len(envs) - 1
        /\ \A i \in 1..Len(envs)-1 : Front(envs)[i] = envs[i]
    <3>1. Len(envs) \in Nat \ {0}
      BY <1>2
    <3> QED BY <2>1, <3>1, FrontFacts
  <2>3. Len(Front(envs)) = 1 /\ Front(envs)[1] = envs[1]
    BY <1>2, <2>2
  <2>4. Front(envs) # <<>>
    BY <2>3
  <2> QED BY <2>2, <2>3, <2>4 DEF ExitScope
<1>4. Named(Top.name, text) /\ text \in Seq(Tokens) /\ external \in Seq(Externals)
  BY <1>0, TopSound, TextOf DEF Sound
<1>5. CASE \E s : Stop(s)
  BY <1>5, StopsMove
<1>b. Top.base \in Shapes
  BY TopFrame DEF Frames
<1>6. CASE /\ IsFunc(Top.base)
           /\ ~RedefinesFunction(outer, Top.name, Top.base, b)
           /\ envs' = semaFunctionDecl(outer, Top.name, Top.base, b)
           /\ external' = Append(external, y)
           /\ Advance \/ UNCHANGED lexVars
           /\ Return(NoValue)
  <2>1. Adds(outer, envs')
    <3> HIDE DEF outer
    <3> QED BY <1>3, <1>4, <1>b, <1>6, SemaAdds
  <2>2. ScopesMove
    BY <1>0, <2>1 DEF ScopesMove
  <2>3. Extends(text, text')
    BY <1>6, ReadsOn
  <2>4. Lasts(envs, envs') /\ Blanks(envs')
    BY <2>2, ScopesLast DEF NInv
  <2>5. text' \in Seq(Tokens)
    BY DEF IInv, Lexed
  <2>6. Filed(envs', text', external)
    BY <1>4, <2>3, <2>4, <2>5, FiledStays DEF NInv
  <2>7. Named(Top.name, text') /\ text'[Top.name] = n /\ n \in Names
    BY <1>4, <2>3, <2>5, NamedStays DEF Named
  <2>8. envs'[1].obj[n].kind \in {"obj", "typedef"} /\ IsFunc(envs'[1].obj[n].shape)
    <3>1. FindObjSymbolInCurScope(outer, n) = envs[1].obj[n]
      BY <1>3 DEF FindObjSymbolInCurScope
    <3>2. CASE envs[1].obj[n].kind = "none"
      <4> DEFINE sym == Symbol("obj", Top.base, Top.name)
      <4>1. sym.kind = "obj" /\ IsFunc(sym.shape) /\ sym \in Symbols
        BY <1>4, <1>b, <1>6 DEF Symbol, Symbols, Named
      <4>2. envs' = WithName(outer, n, sym)
        BY <1>2, <1>3, <1>6, <3>1, <3>2
           DEF semaFunctionDecl, AddObjSymbol, HasObj, WithName
      <4> HIDE DEF sym, outer, n
      <4>3. envs'[1].obj[n] = sym
        <5>1. \A i \in 1..Len(outer), k \in Names :
                envs'[i].obj[k] = IF i = Len(outer) /\ k = n THEN sym ELSE outer[i].obj[k]
          BY <1>3, <2>7, <4>1, <4>2, NameAdded
        <5> QED BY <1>3, <2>7, <5>1
      <4> QED BY <4>1, <4>3
    <3>3. CASE envs[1].obj[n].kind # "none"
      <4>1. IsFunc(envs[1].obj[n].shape)
        BY <1>2, <1>6, <3>1, <3>3 DEF RedefinesFunction
      <4>2. envs'[1].obj[n] = envs[1].obj[n]
        BY <2>4, <2>7, <3>3 DEF Lasts
      <4>3. envs[1].obj[n].kind \in {"none", "obj", "typedef"}
        <5>1. envs[1] \in Envs
          <6>1. envs \in Seq(Envs) /\ 1 \in 1..Len(envs)
            BY <1>2, TextOf
          <6> QED BY <6>1
        <5> QED BY <2>7, <5>1 DEF Envs, Symbols
      <4> QED BY <3>3, <4>1, <4>2, <4>3
    <3> QED BY <3>2, <3>3
  <2>9. Filed(envs', text', external')
    <3>1. y \in Externals /\ y.at = Top.name
      BY <1>4, <1>b DEF Externals, Named
    <3> HIDE DEF n, y
    <3> QED BY <1>4, <1>6, <2>6, <2>7, <2>8, <3>1, FiledGrows
  <2>10. Ambient
    BY <1>1, <2>2, <2>3, <2>4, <2>9 DEF Ambient
  <2> QED BY <1>0, <1>6, <2>10, NReturnsPlain DEF Moved, Ambient
<1> QED BY <1>5, <1>6 DEF EndFunctionDecl

LEMMA ParseFunctionDeclMoves ==
  ASSUME IInv, NInv, IInv', ParseFunctionDecl
  PROVE  Moved
<1>0. Top \in Frames /\ Sound(Top, envs, text, external) /\ ret.shape \in Shapes
  BY TopFrame, TopSound DEF IInv, Framed, Values
<1>a. /\ \A l, k \in FunLabels : Kin(l, k)
      /\ {"fun.spec", "fun.decl"} \subseteq FunLabels \ (NameHeld \cup EntryHeld \cup RecordHeld)
      /\ {"fun", "fun.spec", "fun.decl", "fun.rest", "fun.body"} = FunLabels
      /\ {"fun.rest", "fun.body"} \cap (EntryHeld \cup RecordHeld \cup Askers) = {}
      /\ FunLabels \cap (Outermost \cup DtorLabels) = {}
  BY DEF FunLabels, Kin, DtorLabels, NameHeld, EntryHeld, RecordHeld, Outermost, Askers
<1>1. ASSUME NEW s, Stop(s)
      PROVE  Moved
  BY <1>1, StopsMove
<1>2. CASE /\ At("fun")
           /\ UNCHANGED <<lexVars, semaVars, external, status>>
           /\ Call("fun.spec", "spec", Obj)
  <2>1. Kin("fun.spec", "fun") /\ Knows("fun.spec", "fun") /\ "fun.spec" \notin Askers
    BY <1>a DEF Knows, Askers
  <2> QED BY <1>2, <2>1, QuietCall DEF At, Quiet, Entries, Shapes, Obj
<1>3. CASE /\ At("fun.spec")
           /\ envs' = EnterScope(envs)
           /\ UNCHANGED <<lexVars, modes, records, external, status>>
           /\ CallFrom([Top EXCEPT !.at = "fun.decl", !.tdef = ret.tdef], "dtor", ret.shape)
  <2> DEFINE f == [Top EXCEPT !.at = "fun.decl", !.tdef = ret.tdef]
  <2>1. f.at = "fun.decl" /\ SameHeights(f, Top)
    BY <1>0 DEF SameHeights, Frames
  <2>2. CallFrom(f, "dtor", ret.shape) /\ Top.at = "fun.spec"
    BY <1>3 DEF At
  <2> HIDE DEF f
  <2>3. Ambient
    BY <1>3, ScopesAmbient DEF ScopesMove
  <2>4. Kin(f.at, Top.at) /\ Sound(f, envs', text', external')
    BY <1>a, <2>1, <2>2 DEF Sound
  <2>5. "dtor" \in Entries
    BY DEF Entries
  <2> QED BY <1>0, <2>1, <2>2, <2>3, <2>4, <2>5, NCalls DEF Moved, Ambient
<1>4. CASE /\ At("fun.decl")
           /\ UNCHANGED <<lexVars, semaVars, external, status>>
           /\ Continue([Top EXCEPT !.at = "fun.rest", !.base = ret.shape, !.name = ret.name])
  <2> DEFINE f == [Top EXCEPT !.at = "fun.rest", !.base = ret.shape, !.name = ret.name]
  <2>1. f.at = "fun.rest" /\ f.name = ret.name /\ SameHeights(f, Top)
    BY <1>0 DEF SameHeights, Frames
  <2>2. Continue(f) /\ Top.at = "fun.decl" /\ Quiet
    BY <1>4 DEF At, Quiet
  <2> HIDE DEF f
  <2>3. Named(ret.name, text)
    BY <2>2 DEF NInv, Answers, Askers
  <2>4. Kin(f.at, Top.at) /\ f.at \notin Askers /\ Sound(f, envs, text, external)
    BY <1>a, <2>1, <2>2, <2>3 DEF Sound
  <2> QED BY <2>1, <2>2, <2>4, QuietGoes
<1>5. CASE /\ At("fun.rest")
           /\ Advance
           /\ envs' = semaTypedefDecl(ExitScope(envs), Mode, Top.name, Top.base)
           /\ Return(NoValue)
           /\ UNCHANGED <<modes, records, external, status>>
  <2>1. Top.at \in FunLabels /\ Top.at \in ScopeHeld /\ Top.at \in NameHeld
    BY <1>5 DEF At, FunLabels, ScopeHeld, NameHeld
  <2>2. Named(Top.name, text) /\ text \in Seq(Tokens) /\ Top.base \in Shapes
    BY <1>0, <2>1, TextOf DEF Sound, Frames
  <2>3. ExitScope(envs) \in Seq(Envs) /\ ExitScope(envs) # <<>>
    BY <2>1, OuterScopes
  <2>4. Adds(ExitScope(envs), envs')
    <3>1. TRUE \in BOOLEAN
      OBVIOUS
    <3> QED BY <1>5, <2>2, <2>3, <3>1, SemaAdds
  <2>5. Top.at \notin Outermost /\ Top.at \notin DtorLabels
    BY <1>a, <2>1
  <2> QED BY <1>5, <2>1, <2>4, <2>5, ClosesAt
<1>6. CASE At("fun.rest") /\ EndFunctionDecl(FALSE)
  BY <1>6, EndFunctionDeclMoves DEF At
<1>7. CASE /\ At("fun.rest")
           /\ UNCHANGED <<lexVars, semaVars, external, status>>
           /\ Call("fun.body", "block", Obj)
  <2>1. Kin("fun.body", "fun.rest") /\ Knows("fun.body", "fun.rest") /\ "fun.body" \notin Askers
    BY <1>a DEF Knows, NameHeld
  <2> QED BY <1>7, <2>1, QuietCall DEF At, Quiet, Entries, Shapes, Obj
<1>8. CASE At("fun.body") /\ EndFunctionDecl(TRUE)
  BY <1>8, EndFunctionDeclMoves DEF At
<1> QED BY <1>1, <1>2, <1>3, <1>4, <1>5, <1>6, <1>7, <1>8 DEF ParseFunctionDecl

LEMMA ParseDeclareStmtMoves ==
  ASSUME IInv, NInv, IInv', ParseDeclareStmt
  PROVE  Moved
<1>0. Top \in Frames /\ Top.base \in Shapes /\ ret.shape \in Shapes
  BY TopFrame DEF Frames, IInv, Framed, Values
<1>a. {"decl", "decl.spec", "decl.next", "decl.more", "decl.node", "decl.typedef"} \subseteq Free
      /\ {"decl.spec", "decl.next", "decl.more"} \cap Askers = {}
  BY FreeLabels DEF Askers
<1>1. ASSUME NEW s, Stop(s)
      PROVE  Moved
  BY <1>1, StopsMove
<1>2. CASE /\ At("decl")
           /\ UNCHANGED <<lexVars, semaVars, external, status>>
           /\ Call("decl.spec", "spec", Obj)
  BY <1>2, <1>a, QuietCall, FreeLabels DEF At, Quiet, Entries, Shapes, Obj
<1>3. ASSUME Top.at \in {"decl.spec", "decl.more"}, Quiet, NEW v, Return(v)
      PROVE  Moved
  BY <1>3, QuietReturn DEF Outermost, DtorLabels
<1>4. ASSUME Top.at \in {"decl.spec", "decl.more"}, Quiet, NEW f, f.at = "decl.next",
             SameHeights(f, Top), Continue(f)
      PROVE  Moved
  BY <1>4, <1>a, QuietGoes, FreeLabels, FreeSound
<1>5. CASE /\ At("decl.spec")
           /\ UNCHANGED <<lexVars, semaVars, external, status>>
           /\ Continue([Top EXCEPT !.at = "decl.next", !.base = ret.shape, !.tdef = ret.tdef])
  <2> DEFINE f == [Top EXCEPT !.at = "decl.next", !.base = ret.shape, !.tdef = ret.tdef]
  <2>1. f.at = "decl.next" /\ SameHeights(f, Top)
    BY <1>0 DEF SameHeights, Frames
  <2>2. Continue(f) /\ Quiet /\ Top.at = "decl.spec"
    BY <1>5 DEF Quiet, At
  <2> HIDE DEF f
  <2> QED BY <1>4, <2>1, <2>2
<1>6. CASE /\ At("decl.next")
           /\ UNCHANGED <<lexVars, envs, records, external, status>>
           /\ Call(IF Top.tdef THEN "decl.typedef" ELSE "decl.node", "dtor", Top.base)
  <2> DEFINE l == IF Top.tdef THEN "decl.typedef" ELSE "decl.node"
             f == [Top EXCEPT !.at = l]
  <2>1. f.at = l /\ SameHeights(f, Top)
    BY <1>0 DEF SameHeights, Frames
  <2>2. CallFrom(f, "dtor", Top.base) /\ Top.at = "decl.next" /\ l \in Free
    BY <1>6, <1>a DEF At, Call
  <2>3. Ambient
    BY <1>6, ReadsOn, SameAmbient
  <2> HIDE DEF l, f
  <2>4. Kin(f.at, Top.at) /\ Sound(f, envs', text', external')
    BY <1>a, <2>1, <2>2, FreeLabels, FreeSound
  <2>5. "dtor" \in Entries
    BY DEF Entries
  <2> QED BY <1>0, <2>1, <2>2, <2>3, <2>4, <2>5, NCalls DEF Moved, Ambient
<1>7. ASSUME Top.at \in {"decl.typedef", "decl.node"}, Ambient, Goto("decl.more")
      PROVE  Moved
  <2> DEFINE f == [Top EXCEPT !.at = "decl.more"]
  <2>1. f.at = "decl.more" /\ SameHeights(f, Top)
    BY <1>0 DEF SameHeights, Frames
  <2>2. Continue(f)
    BY <1>7 DEF Goto
  <2> HIDE DEF f
  <2>3. Kin(f.at, Top.at) /\ Sound(f, envs', text', external') /\ f.at \notin Askers
    BY <1>7, <1>a, <2>1, FreeLabels, FreeSound
  <2> QED BY <1>7, <2>1, <2>2, <2>3, NGoes DEF Moved, Ambient
<1>8. CASE /\ At("decl.typedef")
           /\ envs' = semaTypedefDecl(envs, Last(modes'), ret.name, ret.shape)
           /\ Goto("decl.more")
           /\ UNCHANGED <<lexVars, records, external, status>>
  <2>1. Named(ret.name, text) /\ text \in Seq(Tokens) /\ Top.at = "decl.typedef"
    BY <1>8, TextOf DEF NInv, Answers, Askers, At
  <2>2. Adds(envs, envs')
    <3>1. envs \in Seq(Envs) /\ envs # <<>> /\ TRUE \in BOOLEAN
      BY DEF IInv, Scoped
    <3> QED BY <1>0, <1>8, <2>1, <3>1, SemaAdds
  <2>3. Ambient
    BY <1>8, <2>2, ScopesAmbient DEF ScopesMove
  <2> QED BY <1>7, <1>8, <2>1, <2>3
<1>9. CASE /\ At("decl.node")
           /\ external' = IF Len(stack) = 2
                          THEN Append(external, [at |-> ret.name, type |-> Obj, body |-> FALSE])
                          ELSE external
           /\ Goto("decl.more")
           /\ UNCHANGED <<lexVars, semaVars, status>>
  <2>1. /\ Named(ret.name, text) /\ text \in Seq(Tokens) /\ Top.at = "decl.node"
        /\ Fresh(ret.name, Top, envs, text, external) /\ external \in Seq(Externals)
    BY <1>9, TextOf DEF NInv, Answers, Askers, At
  <2>2. UNCHANGED <<text, envs>>
    BY <1>9 DEF lexVars, semaVars
  <2>3. Extends(text, text') /\ ScopesMove
    BY <2>1, <2>2 DEF Extends, ScopesMove, Adds
  <2>4. CASE Len(stack) # 2
    <3>1. Ambient
      BY <1>9, <2>3, <2>4, Surroundings
    <3> QED BY <1>7, <1>9, <2>1, <3>1
  <2>5. CASE Len(stack) = 2
    <3> DEFINE y == [at |-> ret.name, type |-> Obj, body |-> FALSE]
    <3>1. Top.depth = 1 /\ Top.mdepth = 1 /\ \A e, t, x : Sound(stack[1], e, t, x)
      BY <2>5, SecondFrame
    <3>2. /\ envs[1].obj[text[ret.name]].kind = "obj"
          /\ \A k \in 1..Len(external) : text[external[k].at] # text[ret.name]
      BY <2>1, <3>1 DEF Fresh
    <3>3. y \in Externals /\ y.at = ret.name /\ external' = Append(external, y)
      BY <1>9, <2>1, <2>5 DEF Externals, Named, Shapes, Obj
    <3> HIDE DEF y
    <3>4. Filed(envs, text, Append(external, y))
      BY <2>1, <3>2, <3>3, FiledGrows DEF NInv
    <3>5. Filed(envs', text', external')
      BY <2>2, <3>3, <3>4
    <3>6. Blanks(envs') /\ Lasts(envs, envs')
      BY <2>2 DEF NInv, Lasts
    <3>7. Ambient
      BY <2>3, <2>5, <3>1, <3>5, <3>6 DEF Ambient
    <3> QED BY <1>7, <1>9, <2>1, <3>7
  <2> QED BY <2>4, <2>5
<1>10. CASE /\ At("decl.more")
            /\ Advance
            /\ Continue([Top EXCEPT !.at = "decl.next", !.more = TRUE])
            /\ UNCHANGED <<semaVars, external, status>>
  <2> DEFINE f == [Top EXCEPT !.at = "decl.next", !.more = TRUE]
  <2>1. f.at = "decl.next" /\ SameHeights(f, Top)
    BY <1>0 DEF SameHeights, Frames
  <2>2. Continue(f) /\ Quiet /\ Top.at = "decl.more"
    BY <1>10 DEF Quiet, At
  <2> HIDE DEF f
  <2> QED BY <1>4, <2>1, <2>2
<1>11. ASSUME NEW v, At("decl.spec") \/ At("decl.more"), Advance, Return(v),
              UNCHANGED <<semaVars, external, status>>
       PROVE  Moved
  <2>1. Quiet
    BY <1>11 DEF Quiet
  <2>2. Top.at \in {"decl.spec", "decl.more"}
    BY <1>11 DEF At
  <2> QED BY <1>3, <1>11, <2>1, <2>2
<1> QED BY <1>1, <1>2, <1>5, <1>6, <1>8, <1>9, <1>10, <1>11 DEF ParseDeclareStmt

-----------------------------------------------------------------------------
LEMMA StepMoves ==
  ASSUME IInv, NInv, IInv', [Next]_vars
  PROVE  Moved
<1>1. CASE UNCHANGED vars
  BY <1>1 DEF vars, Moved, Stuck, lexVars
<1>2. CASE Next
  BY <1>1, <1>2, ParseProgramMoves, IsFunctionDeclMoves, ParseFunctionDeclMoves,
     ParseDeclareStmtMoves, ParseDeclSpecMoves, ParseStructOrUnionSpecMoves, DeclaratorMoves,
     ParseInitializerMoves, DirectDeclaratorSuffixMoves, DirectDeclaratorFuncSuffixMoves,
     ParseStmtMoves, ParseExprStmtMoves, ParseBlockStmtMoves, ParseForStmtMoves
     DEF Next, Step, Exited
<1> QED BY <1>1, <1>2

LEMMA InitNames ==
  ASSUME Init
  PROVE  NInv
<1>1. /\ Len(stack) = 1 /\ stack[1].depth = 1 /\ stack[1].mdepth = 1 /\ stack[1].at = "program"
      /\ Top = stack[1] /\ external = <<>> /\ Len(external) = 0
  BY DEF Init, Top
<1>2. Chained(stack)
  BY <1>1 DEF Chained
<1>3. AllSound(stack, envs, text, external) /\ Answers(Top, ret, envs, text, external)
  BY <1>1 DEF AllSound, Sound, Answers, NameHeld, EntryHeld, RecordHeld, Askers
<1>4. Blanks(envs)
  BY DEF Init, RootScope, EmptyEnv, NoSymbol, Blanks
<1>5. Filed(envs, text, external)
  BY <1>1 DEF Filed
<1> QED BY <1>2, <1>3, <1>4, <1>5 DEF NInv

LEMMA NamesInvariance == Spec => [](IInv /\ NInv)
<1>1. Init => IInv /\ NInv
  BY InitEstablishes, InitNames
<1>2. IInv /\ NInv /\ [Next]_vars => IInv' /\ NInv'
  <2> SUFFICES ASSUME IInv, NInv, [Next]_vars PROVE IInv' /\ NInv'
    OBVIOUS
  <2>1. IInv'
    BY NextPreserves
  <2>2. Moved
    BY <2>1, StepMoves
  <2> QED BY <2>1, <2>2, NStops DEF Moved
<1> QED BY <1>1, <1>2, PTL DEF Spec

\* Every declaration handed to the code generator is in the root scope under its name,
\* and only the name of a function is handed over twice.
THEOREM ExternalsAreInScope == Spec => []ExternalsAreDeclared
<1>1. NInv => ExternalsAreDeclared
  BY DEF NInv, Filed, ExternalsAreDeclared
<1> QED BY <1>1, NamesInvariance, PTL

-----------------------------------------------------------------------------
(***************************************************************************)
(* The refinement.  As long as a procedure below the top one waits to      *)
(* rewind the lexer, the scopes that count are those it remembers; when    *)
(* there is none they are all of them.                                     *)
(***************************************************************************)
SpeculatorsIn(stk) == {i \in DOMAIN stk : stk[i].at \in SaveHeld}
SettledIn(stk, e) ==
  IF SpeculatorsIn(stk) = {} THEN Len(e)
  ELSE stk[CHOOSE i \in SpeculatorsIn(stk) : \A j \in SpeculatorsIn(stk) : i <= j].depth
ViewIn(stk, e) == [i \in 1..SettledIn(stk, e) |-> VisibleScope(e[i])]
Seen(e) == [i \in 1..Len(e) |-> VisibleScope(e[i])]

LEMMA LowestSpeculator ==
  ASSUME NEW stk \in Seq(Frames), NEW l \in 1..Len(stk), stk[l].at \in SaveHeld,
         \A j \in 1..Len(stk) : stk[j].at \in SaveHeld => l <= j, NEW e
  PROVE  SettledIn(stk, e) = stk[l].depth
<1>1. SpeculatorsIn(stk) = {i \in 1..Len(stk) : stk[i].at \in SaveHeld}
  BY DEF SpeculatorsIn
<1>2. l \in SpeculatorsIn(stk) /\ \A j \in SpeculatorsIn(stk) : l <= j
  BY <1>1
<1>3. (CHOOSE i \in SpeculatorsIn(stk) : \A j \in SpeculatorsIn(stk) : i <= j) = l
  <2>1. \A i \in SpeculatorsIn(stk) : i <= l /\ l <= i => i = l
    BY <1>1
  <2> QED BY <1>2, <2>1
<1> QED BY <1>2, <1>3 DEF SettledIn

\* With no procedure waiting to rewind, the top one apart, every open scope counts.
LEMMA AllSettled ==
  ASSUME NEW stk, NEW e, NEW m, NEW s, Core(stk, e, m, s),
         \A i \in 1..Len(stk)-1 : stk[i].at \notin SaveHeld
  PROVE  SettledIn(stk, e) = Len(e)
<1>0. stk \in Seq(Frames) /\ Len(stk) \in Nat \ {0} /\ High(stk[Len(stk)], e, m, s)
  BY DEF Core
<1>a. stk[Len(stk)] \in Frames
  BY <1>0
<1>1. CASE stk[Len(stk)].at \notin SaveHeld
  <2>1. SpeculatorsIn(stk) = {}
    <3>1. \A i \in 1..Len(stk) : i \in 1..Len(stk)-1 \/ i = Len(stk)
      BY <1>0
    <3> QED BY <1>0, <1>1, <3>1 DEF SpeculatorsIn
  <2> QED BY <2>1 DEF SettledIn
<1>2. CASE stk[Len(stk)].at \in SaveHeld
  <2>1. Len(stk) \in 1..Len(stk) /\ \A j \in 1..Len(stk) : j \in 1..Len(stk)-1 \/ j = Len(stk)
    BY <1>0
  <2>2. \A j \in 1..Len(stk) : stk[j].at \in SaveHeld => Len(stk) <= j
    BY <1>0, <2>1
  <2>3. SettledIn(stk, e) = stk[Len(stk)].depth
    BY <1>0, <1>2, <2>1, <2>2, LowestSpeculator
  <2>4. stk[Len(stk)].at \notin ScopeHeld
    BY <1>2 DEF SaveHeld, ScopeHeld
  <2>5. ScopesOf(stk[Len(stk)]) = stk[Len(stk)].depth
    BY <1>a, <2>4, Heights DEF ScopesOf, Held
  <2> QED BY <1>0, <2>3, <2>5 DEF High
<1> QED BY <1>1, <1>2

\* While one waits below the top frame, the scopes that count do not change.
LEMMA NothingSettles ==
  ASSUME IInv, IInv', Steady, NEW i \in 1..Len(stack)-1, stack[i].at \in SaveHeld
  PROVE  ViewIn(stack', envs') = ViewIn(stack, envs)
<1>0. /\ stack \in Seq(Frames) /\ Len(stack) \in Nat \ {0} /\ stack' \in Seq(Frames)
      /\ Core(stack, envs, modes, saved) /\ Core(stack', envs', modes', saved')
      /\ Len(stack') \in Nat
  BY DEF IInv, Framed, Core
<1> DEFINE S == {j \in 1..Len(stack) : stack[j].at \in SaveHeld}
<1>1. PICK l \in S : \A j \in S : l <= j
  <2>1. S \in SUBSET Nat /\ i \in S
    BY <1>0
  <2> HIDE DEF S
  <2> QED BY <2>1, Least
<1>2. l \in 1..Len(stack)-1 /\ stack[l].at \in SaveHeld
  BY <1>0, <1>1
<1>3. l \in 1..Len(stack') /\ stack'[l] = stack[l]
  BY <1>2 DEF Steady
<1>4. \A j \in 1..Len(stack') : stack'[j].at \in SaveHeld => l <= j
  <2>1. \A j \in 1..l-1 : j \in 1..Len(stack)-1
    BY <1>0, <1>2
  <2>2. \A j \in 1..l-1 : stack'[j] = stack[j] /\ j \in 1..Len(stack)
    BY <1>0, <2>1 DEF Steady
  <2>3. \A j \in 1..l-1 : stack[j].at \notin SaveHeld
    BY <1>0, <1>1, <2>2
  <2>4. \A j \in 1..Len(stack') : j \in 1..l-1 \/ l <= j
    BY <1>0, <1>3
  <2> QED BY <2>2, <2>3, <2>4
<1>5. SettledIn(stack, envs) = stack[l].depth
  BY <1>0, <1>1, <1>2, LowestSpeculator
<1>6. SettledIn(stack', envs') = stack[l].depth
  BY <1>0, <1>2, <1>3, <1>4, LowestSpeculator
<1>7. \A k \in 1..stack[l].depth : envs'[k] = envs[k]
  <2>1. \A k \in 1..stack[l].depth : envs[k] = stack[l].mark[k]
    BY <1>0, <1>1, <1>2 DEF Core, Remembers
  <2>2. \A k \in 1..stack[l].depth : envs'[k] = stack[l].mark[k]
    BY <1>0, <1>2, <1>3 DEF Core, Remembers
  <2> QED BY <2>1, <2>2
<1> QED BY <1>5, <1>6, <1>7 DEF ViewIn

\* When none waits below the top frame, neither does one after the step, unless the
\* step is a call and the scopes are those at the call.
LEMMA StaysSettled ==
  ASSUME IInv, IInv', Steady, \A i \in 1..Len(stack)-1 : stack[i].at \notin SaveHeld
  PROVE  SettledIn(stack, envs) = Len(envs) /\ SettledIn(stack', envs') = Len(envs')
<1>0. /\ stack \in Seq(Frames) /\ Len(stack) \in Nat \ {0} /\ stack' \in Seq(Frames)
      /\ Core(stack, envs, modes, saved) /\ Core(stack', envs', modes', saved')
      /\ Len(stack') \in Nat \ {0}
  BY DEF IInv, Framed, Core
<1>1. SettledIn(stack, envs) = Len(envs)
  BY <1>0, AllSettled
<1>2. CASE \A i \in 1..Len(stack')-1 : stack'[i].at \notin SaveHeld
  BY <1>0, <1>1, <1>2, AllSettled
<1>3. ASSUME NEW i \in 1..Len(stack')-1, stack'[i].at \in SaveHeld
      PROVE  SettledIn(stack', envs') = Len(envs')
  <2>1. \A j \in 1..Len(stack)-1 : stack'[j].at \notin SaveHeld
    BY DEF Steady
  <2>2. i = Len(stack) /\ Len(stack') = Len(stack) + 1
    BY <1>0, <1>3, <2>1 DEF Steady
  <2>3. stack'[Len(stack')] \in Frames /\ stack'[i] \in Frames
    BY <1>0, <1>3
  <2>4. /\ stack'[Len(stack')].at \notin ScopeHeld /\ stack'[Len(stack')].at \notin SaveHeld
    BY <2>2 DEF Steady, Entries, ScopeHeld, SaveHeld
  <2>5. Follows(stack'[i], stack'[i+1]) /\ i + 1 = Len(stack')
    <3>1. \A j \in 1..Len(stack')-1 : Follows(stack'[j], stack'[j+1])
      BY <1>0 DEF Core
    <3> QED BY <1>3, <2>2, <3>1
  <2>6. stack'[i].at \notin ScopeHeld
    BY <1>3 DEF SaveHeld, ScopeHeld
  <2>7. ScopesOf(stack'[i]) = stack'[i].depth
    BY <2>3, <2>6, Heights DEF ScopesOf, Held
  <2>8. ScopesOf(stack'[Len(stack')]) = stack'[Len(stack')].depth
    BY <2>3, <2>4, Heights DEF ScopesOf, Held
  <2>9. stack'[i].depth = Len(envs')
    BY <1>0, <2>5, <2>7, <2>8 DEF Core, High, Follows
  <2>10. i \in 1..Len(stack') /\ \A j \in 1..Len(stack') : stack'[j].at \in SaveHeld => i <= j
    <3>1. \A j \in 1..Len(stack') : j \in 1..Len(stack)-1 \/ i <= j
      BY <1>0, <2>2
    <3> QED BY <1>0, <1>3, <2>1, <3>1
  <2> QED BY <1>0, <1>3, <2>9, <2>10, LowestSpeculator
<1> QED BY <1>1, <1>2, <1>3

-----------------------------------------------------------------------------
(***************************************************************************)
(* What a move of the scopes is to the abstract specification.             *)
(***************************************************************************)
LEMMA SeenFacts ==
  ASSUME NEW e \in Seq(Envs)
  PROVE  /\ Seen(e) \in Seq([NameKeys -> Nat]) /\ Len(Seen(e)) = Len(e)
         /\ \A i \in 1..Len(e) : Seen(e)[i] = VisibleScope(e[i])
         /\ \A i \in 1..Len(e), n \in Names :
              <<"obj", n>> \in NameKeys /\ VisibleScope(e[i])[<<"obj", n>>] = e[i].obj[n].at
         /\ \A i \in 1..Len(e), t \in Tags :
              <<"tag", t>> \in NameKeys /\ VisibleScope(e[i])[<<"tag", t>>] = e[i].tag[t]
<1>1. \A i \in 1..Len(e) : e[i] \in Envs
  OBVIOUS
<1>2. \A i \in 1..Len(e) : VisibleScope(e[i]) \in [NameKeys -> Nat]
  <2> TAKE i \in 1..Len(e)
  <2>1. \A n \in Names : e[i].obj[n].at \in Nat
    BY <1>1 DEF Envs, Symbols
  <2>2. \A t \in Tags : e[i].tag[t] \in Nat
    BY <1>1 DEF Envs
  <2>3. \A q \in NameKeys : \/ q[1] = "obj" /\ q[2] \in Names
                            \/ q[1] = "tag" /\ q[2] \in Tags
    BY DEF NameKeys
  <2> QED BY <2>1, <2>2, <2>3 DEF VisibleScope
<1>3. Seen(e) \in Seq([NameKeys -> Nat]) /\ Len(Seen(e)) = Len(e)
  <2>1. Seen(e) \in [1..Len(e) -> [NameKeys -> Nat]]
    BY <1>2 DEF Seen
  <2> QED BY <2>1
<1>4. \A n \in Names : <<"obj", n>> \in NameKeys
  BY DEF NameKeys
<1>5. \A t \in Tags : <<"tag", t>> \in NameKeys
  BY DEF NameKeys
<1>6. \A i \in 1..Len(e) : Seen(e)[i] = VisibleScope(e[i])
  BY DEF Seen
<1>7. \A i \in 1..Len(e), n \in Names : VisibleScope(e[i])[<<"obj", n>>] = e[i].obj[n].at
  BY <1>4 DEF VisibleScope
<1>8. \A i \in 1..Len(e), t \in Tags : VisibleScope(e[i])[<<"tag", t>>] = e[i].tag[t]
  BY <1>5 DEF VisibleScope
<1> QED BY <1>3, <1>4, <1>5, <1>6, <1>7, <1>8

LEMMA SeenEnters ==
  ASSUME NEW e \in Seq(Envs), NEW u \in Seq(Envs), e # <<>>, Len(u) = Len(e),
         NEW k \in NameKeys, NEW v, v = VisibleScope(u[Len(e)])[k], v # 0,
         VisibleScope(e[Len(e)])[k] = 0,
         \A i \in 1..Len(e)-1 : VisibleScope(u[i]) = VisibleScope(e[i]),
         VisibleScope(u[Len(e)]) = [VisibleScope(e[Len(e)]) EXCEPT ![k] = v]
  PROVE  Scoping!Enters(Seen(e), Seen(u), k)
<1>1. /\ Len(Seen(e)) = Len(e) /\ Len(Seen(u)) = Len(e) /\ Len(e) \in 1..Len(e)
      /\ \A i \in 1..Len(e) : Seen(e)[i] = VisibleScope(e[i]) /\ Seen(u)[i] = VisibleScope(u[i])
      /\ Seen(e) = [i \in 1..Len(e) |-> Seen(e)[i]] /\ Seen(u) = [i \in 1..Len(e) |-> Seen(u)[i]]
  BY SeenFacts DEF Seen
<1>2. Seen(u)[Len(e)] = [Seen(e)[Len(e)] EXCEPT ![k] = v]
  BY <1>1
<1>3. \A i \in 1..Len(e) : i # Len(e) => Seen(u)[i] = Seen(e)[i]
  <2>1. \A i \in 1..Len(e) : i # Len(e) => i \in 1..Len(e)-1
    OBVIOUS
  <2> QED BY <1>1, <2>1
<1>4. Seen(u) = [Seen(e) EXCEPT ![Len(e)] = [Seen(e)[Len(e)] EXCEPT ![k] = v]]
  BY <1>1, <1>2, <1>3
<1>5. Seen(u)[Len(e)][k] = v /\ Seen(e)[Len(e)][k] = 0
  BY <1>1
<1> QED BY <1>1, <1>4, <1>5 DEF Scoping!Enters

LEMMA SeenAdds ==
  ASSUME NEW e \in Seq(Envs), e # <<>>, Blanks(e), NEW u, Adds(e, u)
  PROVE  Seen(u) = Seen(e) \/ \E k \in NameKeys : Scoping!Enters(Seen(e), Seen(u), k)
<1>0. Len(e) \in Nat \ {0} /\ Len(e) \in 1..Len(e) /\ \A i \in 1..Len(e)-1 : i \in 1..Len(e) /\ i # Len(e)
  OBVIOUS
<1>1. CASE AddsName(e, u)
  <2>1. PICK n \in Names, sym \in Symbols :
          /\ sym.kind # "none" /\ sym.at # 0 /\ ~HasObj(e, Len(e), n)
          /\ u = WithName(e, n, sym)
    BY <1>1 DEF AddsName
  <2> DEFINE k == <<"obj", n>>
  <2>2. /\ u \in Seq(Envs) /\ Len(u) = Len(e)
        /\ \A i \in 1..Len(e), m \in Names :
             u[i].obj[m] = IF i = Len(e) /\ m = n THEN sym ELSE e[i].obj[m]
        /\ \A i \in 1..Len(e) : u[i].tag = e[i].tag
    BY <2>1, NameAdded
  <2>3. k \in NameKeys /\ VisibleScope(e[Len(e)])[k] = 0 /\ VisibleScope(u[Len(e)])[k] = sym.at
    <3>1. e[Len(e)].obj[n].at = 0
      BY <1>0, <2>1 DEF HasObj, Blanks
    <3>2. u[Len(e)].obj[n].at = sym.at
      BY <1>0, <2>2
    <3> QED BY <1>0, <2>2, <3>1, <3>2, SeenFacts
  <2>4. \A i \in 1..Len(e)-1 : VisibleScope(u[i]) = VisibleScope(e[i])
    <3> TAKE i \in 1..Len(e)-1
    <3>1. u[i].tag = e[i].tag /\ \A m \in Names : u[i].obj[m] = e[i].obj[m]
      BY <1>0, <2>2
    <3>2. \A q \in NameKeys : q[1] = "obj" => q[2] \in Names
      BY DEF NameKeys
    <3> QED BY <3>1, <3>2 DEF VisibleScope
  <2>5. VisibleScope(u[Len(e)]) = [VisibleScope(e[Len(e)]) EXCEPT ![k] = sym.at]
    <3>1. /\ u[Len(e)].tag = e[Len(e)].tag
          /\ \A m \in Names : m # n => u[Len(e)].obj[m] = e[Len(e)].obj[m]
      BY <1>0, <2>2
    <3>2. \A q \in NameKeys : q[1] = "obj" /\ q # k => q[2] \in Names /\ q[2] # n
      BY DEF NameKeys
    <3>3. ASSUME NEW q \in NameKeys, q # k
          PROVE  VisibleScope(u[Len(e)])[q] = VisibleScope(e[Len(e)])[q]
      BY <3>1, <3>2, <3>3 DEF VisibleScope
    <3> HIDE DEF k
    <3> DEFINE A == VisibleScope(u[Len(e)])
               B == VisibleScope(e[Len(e)])
    <3>4. A = [q \in NameKeys |-> A[q]] /\ B = [q \in NameKeys |-> B[q]]
      BY DEF VisibleScope
    <3>5. A[k] = sym.at /\ \A q \in NameKeys : q # k => A[q] = B[q]
      BY <2>3, <3>3
    <3> HIDE DEF A, B
    <3>6. A = [B EXCEPT ![k] = sym.at]
      BY <3>4, <3>5
    <3> QED BY <3>6 DEF A, B
  <2> HIDE DEF k
  <2> QED BY <2>1, <2>2, <2>3, <2>4, <2>5, SeenEnters
<1>2. CASE AddsTag(e, u)
  <2>1. PICK t \in Tags, r \in Nat \ {0} : ~HasTag(e, Len(e), t) /\ u = WithTag(e, t, r)
    BY <1>2 DEF AddsTag
  <2> DEFINE k == <<"tag", t>>
  <2>2. /\ u \in Seq(Envs) /\ Len(u) = Len(e)
        /\ \A i \in 1..Len(e), m \in Tags :
             u[i].tag[m] = IF i = Len(e) /\ m = t THEN r ELSE e[i].tag[m]
        /\ \A i \in 1..Len(e) : u[i].obj = e[i].obj
    BY <2>1, TagAdded
  <2>3. k \in NameKeys /\ VisibleScope(e[Len(e)])[k] = 0 /\ VisibleScope(u[Len(e)])[k] = r
    <3>1. e[Len(e)].tag[t] = 0
      BY <1>0, <2>1 DEF HasTag, NoRecord
    <3>2. u[Len(e)].tag[t] = r
      BY <1>0, <2>2
    <3> QED BY <1>0, <2>2, <3>1, <3>2, SeenFacts
  <2>4. \A i \in 1..Len(e)-1 : VisibleScope(u[i]) = VisibleScope(e[i])
    <3> TAKE i \in 1..Len(e)-1
    <3>1. u[i].obj = e[i].obj /\ \A m \in Tags : u[i].tag[m] = e[i].tag[m]
      BY <1>0, <2>2
    <3>2. \A q \in NameKeys : q[1] # "obj" => q[2] \in Tags
      BY DEF NameKeys
    <3> QED BY <3>1, <3>2 DEF VisibleScope
  <2>5. VisibleScope(u[Len(e)]) = [VisibleScope(e[Len(e)]) EXCEPT ![k] = r]
    <3>1. /\ u[Len(e)].obj = e[Len(e)].obj
          /\ \A m \in Tags : m # t => u[Len(e)].tag[m] = e[Len(e)].tag[m]
      BY <1>0, <2>2
    <3>2. \A q \in NameKeys : q[1] # "obj" /\ q # k => q[2] \in Tags /\ q[2] # t
      BY DEF NameKeys
    <3>3. ASSUME NEW q \in NameKeys, q # k
          PROVE  VisibleScope(u[Len(e)])[q] = VisibleScope(e[Len(e)])[q]
      BY <3>1, <3>2, <3>3 DEF VisibleScope
    <3> HIDE DEF k
    <3> DEFINE A == VisibleScope(u[Len(e)])
               B == VisibleScope(e[Len(e)])
    <3>4. A = [q \in NameKeys |-> A[q]] /\ B = [q \in NameKeys |-> B[q]]
      BY DEF VisibleScope
    <3>5. A[k] = r /\ \A q \in NameKeys : q # k => A[q] = B[q]
      BY <2>3, <3>3
    <3> HIDE DEF A, B
    <3>6. A = [B EXCEPT ![k] = r]
      BY <3>4, <3>5
    <3> QED BY <3>6 DEF A, B
  <2> HIDE DEF k
  <2>6. r # 0
    BY <2>1
  <2> QED BY <2>1, <2>2, <2>3, <2>4, <2>5, <2>6, SeenEnters
<1> QED BY <1>1, <1>2 DEF Adds

LEMMA SeenOpens ==
  ASSUME NEW e \in Seq(Envs)
  PROVE  Seen(EnterScope(e)) = Append(Seen(e), Scoping!Blank)
<1> DEFINE u == Append(e, EmptyEnv)
<1>0. VisibleScope(EmptyEnv) = Scoping!Blank
  <2>1. \A q \in NameKeys : (q[1] = "obj" => q[2] \in Names) /\ (q[1] # "obj" => q[2] \in Tags)
    BY DEF NameKeys
  <2> QED BY <2>1 DEF VisibleScope, EmptyEnv, NoSymbol, NoRecord, Scoping!Blank
<1>1. /\ u \in Seq(Envs) /\ Len(u) = Len(e) + 1 /\ Len(e) \in Nat
      /\ \A i \in 1..Len(e)+1 : u[i] = IF i = Len(e) + 1 THEN EmptyEnv ELSE e[i]
  BY EmptyEnvTyped
<1> HIDE DEF u
<1>2. /\ Seen(u) = [i \in 1..Len(e)+1 |-> Seen(u)[i]]
      /\ \A i \in 1..Len(e)+1 : Seen(u)[i] = VisibleScope(u[i])
  BY <1>1 DEF Seen
<1>3. /\ Seen(e) \in Seq([NameKeys -> Nat]) /\ Len(Seen(e)) = Len(e)
      /\ \A i \in 1..Len(e) : Seen(e)[i] = VisibleScope(e[i])
  BY SeenFacts
<1> DEFINE v == Append(Seen(e), Scoping!Blank)
<1>4. v = [i \in 1..Len(e)+1 |-> IF i = Len(e) + 1 THEN Scoping!Blank ELSE Seen(e)[i]]
  <2>1. Scoping!Blank \in [NameKeys -> Nat]
    BY DEF Scoping!Blank
  <2>2. ASSUME NEW S, NEW q \in Seq(S), NEW x \in S
        PROVE  Append(q, x) = [i \in 1..Len(q)+1 |-> IF i = Len(q) + 1 THEN x ELSE q[i]]
    <3>1. /\ Append(q, x) \in Seq(S) /\ Len(Append(q, x)) = Len(q) + 1
          /\ \A i \in 1..Len(q)+1 : Append(q, x)[i] = IF i = Len(q) + 1 THEN x ELSE q[i]
      OBVIOUS
    <3>2. \A a \in Seq(S) : a = [i \in 1..Len(a) |-> a[i]]
      OBVIOUS
    <3>3. Append(q, x) = [i \in 1..Len(q)+1 |-> Append(q, x)[i]]
      BY <3>1, <3>2
    <3> QED BY <3>1, <3>3
  <2>3. v = [i \in 1..Len(Seen(e))+1 |-> IF i = Len(Seen(e)) + 1 THEN Scoping!Blank ELSE Seen(e)[i]]
    BY <1>3, <2>1, <2>2
  <2> QED BY <1>3, <2>3
<1>5. \A i \in 1..Len(e)+1 : Seen(u)[i] = IF i = Len(e) + 1 THEN Scoping!Blank ELSE Seen(e)[i]
  <2> TAKE i \in 1..Len(e)+1
  <2>1. CASE i = Len(e) + 1
    BY <1>0, <1>1, <1>2, <2>1
  <2>2. CASE i # Len(e) + 1
    <3>1. i \in 1..Len(e)
      BY <1>1, <2>2
    <3> QED BY <1>1, <1>2, <1>3, <2>2, <3>1
  <2> QED BY <2>1, <2>2
<1> HIDE DEF v
<1>6. Seen(u) = v
  BY <1>2, <1>4, <1>5
<1> QED BY <1>6 DEF u, v, EnterScope

LEMMA SeenCloses ==
  ASSUME NEW e \in Seq(Envs), Len(e) \in Nat \ {0}
  PROVE  Seen(Front(e)) = SubSeq(Seen(e), 1, Len(e) - 1)
<1>1. /\ Front(e) \in Seq(Envs) /\ Len(Front(e)) = Len(e) - 1
      /\ \A i \in 1..Len(e)-1 : Front(e)[i] = e[i]
  BY FrontFacts
<1>2. /\ Seen(e) \in Seq([NameKeys -> Nat]) /\ Len(Seen(e)) = Len(e)
      /\ \A i \in 1..Len(e) : Seen(e)[i] = VisibleScope(e[i])
  BY SeenFacts
<1>3. Seen(Front(e)) = [i \in 1..Len(e)-1 |-> VisibleScope(e[i])]
  BY <1>1 DEF Seen
<1>4. SubSeq(Seen(e), 1, Len(e)-1) = [i \in 1..Len(e)-1 |-> Seen(e)[i]]
  BY <1>2
<1>5. \A i \in 1..Len(e)-1 : i \in 1..Len(e)
  OBVIOUS
<1> QED BY <1>2, <1>3, <1>4, <1>5

\* The scopes as LexicalScoping sees them, before and after a step.
LEMMA Mapped ==
  /\ [i \in 1..Settled |-> VisibleScope(envs[i])] = ViewIn(stack, envs)
  /\ [i \in 1..Settled |-> VisibleScope(envs[i])]' = ViewIn(stack', envs')
BY DEF Settled, Speculators, ViewIn, SettledIn, SpeculatorsIn

LEMMA SettledMoves ==
  ASSUME IInv, NInv, ScopesMove,
         [i \in 1..Settled |-> VisibleScope(envs[i])] = Seen(envs),
         [i \in 1..Settled |-> VisibleScope(envs[i])]' = Seen(envs')
  PROVE  [Scoping!Next]_([i \in 1..Settled |-> VisibleScope(envs[i])])
<1> DEFINE view == [i \in 1..Settled |-> VisibleScope(envs[i])]
<1>0. /\ envs \in Seq(Envs) /\ envs # <<>> /\ Len(envs) \in Nat \ {0} /\ Blanks(envs)
      /\ Len(Seen(envs)) = Len(envs)
  BY SeenFacts DEF IInv, Scoped, NInv
<1>1. CASE Adds(envs, envs')
  <2>1. Seen(envs') = Seen(envs) \/ \E k \in NameKeys : Scoping!Enters(Seen(envs), Seen(envs'), k)
    BY <1>0, <1>1, SeenAdds
  <2>2. CASE Seen(envs') = Seen(envs)
    BY <2>2
  <2>3. CASE \E k \in NameKeys : Scoping!Enters(Seen(envs), Seen(envs'), k)
    <3>1. \E k \in NameKeys : Scoping!Enters(view, view', k)
      BY <2>3
    <3>2. Scoping!Declare
      BY <3>1 DEF Scoping!Declare
    <3> QED BY <3>2 DEF Scoping!Next
  <2> QED BY <2>1, <2>2, <2>3
<1>2. CASE envs' = EnterScope(envs)
  <2>1. Seen(envs') = Append(Seen(envs), Scoping!Blank)
    BY <1>0, <1>2, SeenOpens
  <2>2. view' = Append(view, Scoping!Blank)
    BY <2>1
  <2>3. Scoping!Open
    BY <2>2 DEF Scoping!Open
  <2> QED BY <2>3 DEF Scoping!Next
<1>3. CASE Top.at \in ScopeHeld /\ Adds(ExitScope(envs), envs')
  <2>1. /\ Len(Front(envs)) = Top.depth /\ Len(envs) \in Nat \ {0, 1}
    BY <1>0, <1>3, KeptExit DEF IInv, Framed, Top
  <2>2. /\ Front(envs) \in Seq(Envs) /\ Len(Front(envs)) = Len(envs) - 1
        /\ \A i \in 1..Len(envs)-1 : Front(envs)[i] = envs[i]
    BY <1>0, FrontFacts
  <2>3. Front(envs) # <<>> /\ Blanks(Front(envs))
    BY <1>0, <2>1, <2>2 DEF Blanks
  <2>4. Seen(Front(envs)) = Scoping!Outer /\ Scoping!Inner > 1
    <3>1. Seen(Front(envs)) = SubSeq(view, 1, Len(envs)-1) /\ Len(view) = Len(envs)
      BY <1>0, SeenCloses
    <3>2. Len(envs) > 1
      <4>1. \A k \in Nat \ {0, 1} : k > 1
        OBVIOUS
      <4> QED BY <2>1, <4>1
    <3>3. Len(view) > 1
      BY <3>1, <3>2
    <3> QED BY <3>1, <3>3 DEF Scoping!Outer, Scoping!Inner
  <2>5. \/ Seen(envs') = Seen(Front(envs))
        \/ \E k \in NameKeys : Scoping!Enters(Seen(Front(envs)), Seen(envs'), k)
    BY <1>3, <2>2, <2>3, SeenAdds DEF ExitScope
  <2>6. CASE Seen(envs') = Seen(Front(envs))
    <3>1. view' = Scoping!Outer
      BY <2>4, <2>6
    <3>2. Scoping!Close
      BY <2>4, <3>1 DEF Scoping!Close
    <3> QED BY <3>2 DEF Scoping!Next
  <2>7. CASE \E k \in NameKeys : Scoping!Enters(Seen(Front(envs)), Seen(envs'), k)
    <3>1. \E k \in NameKeys : Scoping!Enters(Scoping!Outer, view', k)
      BY <2>4, <2>7
    <3>2. Scoping!CloseAndDeclare
      BY <2>4, <3>1 DEF Scoping!CloseAndDeclare
    <3> QED BY <3>2 DEF Scoping!Next
  <2> QED BY <2>5, <2>6, <2>7
<1> QED BY <1>1, <1>2, <1>3 DEF ScopesMove

LEMMA StepScopes ==
  ASSUME IInv, NInv, IInv', [Next]_vars
  PROVE  [Scoping!Next]_([i \in 1..Settled |-> VisibleScope(envs[i])])
<1> DEFINE view == [i \in 1..Settled |-> VisibleScope(envs[i])]
<1>1. view = ViewIn(stack, envs) /\ view' = ViewIn(stack', envs')
  BY Mapped
<1>2. CASE Stuck
  <2>1. view' = view
    BY <1>1, <1>2 DEF Stuck
  <2> QED BY <2>1
<1>3. ASSUME ScopesMove, Steady, NEW i \in 1..Len(stack)-1, stack[i].at \in SaveHeld
      PROVE  [Scoping!Next]_view
  <2>1. view' = view
    BY <1>1, <1>3, NothingSettles
  <2> QED BY <2>1
<1>4. ASSUME ScopesMove, Steady, \A i \in 1..Len(stack)-1 : stack[i].at \notin SaveHeld
      PROVE  [Scoping!Next]_view
  <2>1. SettledIn(stack, envs) = Len(envs) /\ SettledIn(stack', envs') = Len(envs')
    BY <1>4, StaysSettled
  <2>2. view = Seen(envs) /\ view' = Seen(envs')
    BY <1>1, <2>1 DEF ViewIn, Seen
  <2> QED BY <1>4, <2>2, SettledMoves
<1> QED BY <1>2, <1>3, <1>4, StepMoves DEF Moved

LEMMA InitScopes ==
  ASSUME Init
  PROVE  Scoping!Init
<1>1. Speculators = {}
  BY DEF Init, Speculators, SaveHeld
<1>2. Settled = 1
  BY <1>1 DEF Init, Settled, RootScope
<1>3. VisibleScope(EmptyEnv) = Scoping!Blank
  <2>1. \A q \in NameKeys : (q[1] = "obj" => q[2] \in Names) /\ (q[1] # "obj" => q[2] \in Tags)
    BY DEF NameKeys
  <2> QED BY <2>1 DEF VisibleScope, EmptyEnv, NoSymbol, NoRecord, Scoping!Blank
<1>4. [i \in 1..Settled |-> VisibleScope(envs[i])] = <<Scoping!Blank>>
  BY <1>2, <1>3 DEF Init, RootScope
<1> QED BY <1>4 DEF Scoping!Init

\* With speculative readings hidden, all the parser does to the symbol tables is to open
\* a scope, to close the innermost one and to enter a new name in the innermost one: it
\* implements LexicalScoping.
THEOREM ScopesAreLexical == Spec => BlockStructured
<1>1. Init => Scoping!Init
  BY InitScopes
<1>2. IInv /\ NInv /\ (IInv /\ NInv)' /\ [Next]_vars =>
        [Scoping!Next]_([i \in 1..Settled |-> VisibleScope(envs[i])])
  BY StepScopes
<1> QED BY <1>1, <1>2, NamesInvariance, PTL DEF Spec, BlockStructured, Scoping!Spec

=============================================================================
