------------------------ MODULE NameResolutionProofs ------------------------
(***************************************************************************)
(* Proof, for function bodies of any size, that the scopes StmtParser      *)
(* opens and closes on its way make it resolve every use of a name to the  *)
(* declaration that the finished text says is meant.                       *)
(*                                                                         *)
(* The invariant relates the two: the table of every open scope holds just *)
(* the declaration made in it so far, and everything made after an open    *)
(* statement lies in it.                                                   *)
(***************************************************************************)
EXTENDS StmtParserProofs

(***************************************************************************)
(* Declarations and their scopes in any list ns of statements.             *)
(***************************************************************************)
DeclaresIn(ns, d) == ns[d].kind = "int" \/ ns[d].header.init
ScopesAround(ns, d) == {m \in AroundIn(ns, d) : ns[m].kind \in Scoped}
ScopeIn(ns, d) == IF ns[d].kind = "for" THEN d ELSE Innermost(ScopesAround(ns, d))
VisibleIn(ns, n) ==
  {d \in DOMAIN ns :
     /\ DeclaresIn(ns, d)
     /\ d <= n \/ (ns[n].kind = "do" /\ n \in AroundIn(ns, d))
     /\ ScopeIn(ns, d) \in AroundIn(ns, n) \cup {n}}
NameOK(ns, n) ==
  ns[n].decl # 0 =>
    LET d == ns[n].decl
    IN  IF VisibleIn(ns, n) = {} THEN d = Global
        ELSE /\ d \in VisibleIn(ns, n)
             /\ \A other \in VisibleIn(ns, n) \ {d} : ScopeIn(ns, other) < ScopeIn(ns, d)

\* The entry sym of x stands for what is declared in the scope s.
Entered(ns, s, sym) ==
  /\ sym.kind # "none" =>
       sym.at \in DOMAIN ns /\ DeclaresIn(ns, sym.at) /\ ScopeIn(ns, sym.at) = s
  /\ \A d \in DOMAIN ns :
       DeclaresIn(ns, d) /\ ScopeIn(ns, d) = s => sym.kind # "none" /\ sym.at = d

\* The tables e are that of the file and those of the scopes ss.
Tabled(ns, ss, e) ==
  /\ Len(e) = Len(ss) + 1
  /\ e[1].obj[x].kind # "none" /\ e[1].obj[x].at = Global
  /\ \A k \in 1..Len(ss) : Entered(ns, ss[k], e[k + 1].obj[x])
Tables(ns, op, e) == \E ss \in Seq(Nat) : Holds(ns, op, ss, Scoped) /\ Tabled(ns, ss, e)

Nested(ns, op) == \A d \in DOMAIN ns, i \in DOMAIN op : op[i] < d => op[i] \in AroundIn(ns, d)
\* The condition of a do is read last.
Waits(ns, op) == \A i \in DOMAIN op : ns[op[i]].kind = "do" => ns[op[i]].decl = 0
Grounded(ns) == \A n \in DOMAIN ns : ns[n].up # Null => \E m \in AroundIn(ns, n) : ns[m].kind = "block"
Headed(ns) == \A n \in DOMAIN ns : ns[n].header.init => ns[n].kind = "for"

NInv ==
  /\ Nested(nodes, open) /\ Waits(nodes, open)
  /\ Grounded(nodes) /\ Headed(nodes)
  /\ \A n \in DOMAIN nodes : NameOK(nodes, n)
  /\ Tables(nodes, open, envs)
-----------------------------------------------------------------------------
LEMMA NamesIn ==
  /\ NamesAreLexical <=> \A n \in DOMAIN nodes : NameOK(nodes, n)
  /\ NamesAreLexical' <=> \A n \in DOMAIN nodes' : NameOK(nodes', n)
<1>1. \A n : Around(n) = AroundIn(nodes, n)
  BY DEF Around, AroundIn, Encloses, Closed
<1>2. \A n : Around(n)' = AroundIn(nodes', n)
  BY DEF Around, AroundIn, Encloses, Closed
<1>3. \A d : Declares(d) <=> DeclaresIn(nodes, d)
  BY DEF Declares, DeclaresIn
<1>4. \A d : Declares(d)' <=> DeclaresIn(nodes', d)
  BY DEF Declares, DeclaresIn
<1>5. \A d : ScopeOf(d) = ScopeIn(nodes, d)
  BY <1>1 DEF ScopeOf, ScopeIn, ScopesAround, Scoped
<1>6. \A d : ScopeOf(d)' = ScopeIn(nodes', d)
  BY <1>2 DEF ScopeOf, ScopeIn, ScopesAround, Scoped
<1>7. \A n : Visible(n) = VisibleIn(nodes, n)
  BY <1>1, <1>3, <1>5 DEF Visible, VisibleIn
<1>8. \A n : Visible(n)' = VisibleIn(nodes', n)
  BY <1>2, <1>4, <1>6 DEF Visible, VisibleIn
<1> QED BY <1>5, <1>6, <1>7, <1>8 DEF NamesAreLexical, NameOK

LEMMA InnermostIs ==
  ASSUME NEW n \in Nat, NEW S \in SUBSET (1..n), S # {}
  PROVE  Innermost(S) \in S /\ \A m \in S : m <= Innermost(S)
<1>1. \E i \in S : \A j \in S : j <= i
  BY Greatest
<1> QED BY <1>1 DEF Innermost

LEMMA InnermostIn ==
  ASSUME NEW S \in SUBSET Nat, NEW i \in S, \A m \in S : m <= i
  PROVE  Innermost(S) = i
<1>1. Innermost(S) \in S /\ \A m \in S : m <= Innermost(S)
  BY DEF Innermost
<1>2. Innermost(S) <= i /\ i <= Innermost(S) /\ i \in Nat /\ Innermost(S) \in Nat
  BY <1>1
<1> QED BY <1>2

\* Of a declaration: its scope is around it, or is the for that makes it.
LEMMA ScopeFacts ==
  ASSUME NEW ns \in Seq(Nodes), Higher(ns), Grounded(ns), Headed(ns),
         \A n \in DOMAIN ns : ns[n].up = Null => ns[n].kind = "block",
         NEW d \in DOMAIN ns, DeclaresIn(ns, d)
  PROVE  /\ ScopeIn(ns, d) \in DOMAIN ns /\ ns[ScopeIn(ns, d)].kind \in Scoped
         /\ ScopeIn(ns, d) <= d
         /\ ScopeIn(ns, d) \in AroundIn(ns, d) \/ (ScopeIn(ns, d) = d /\ ns[d].kind = "for")
<1>0. d \in Nat /\ DOMAIN ns = 1..Len(ns)
  OBVIOUS
<1>1. CASE ns[d].kind = "for"
  BY <1>0, <1>1 DEF ScopeIn, Scoped
<1>2. CASE ns[d].kind # "for"
  <2>1. ns[d].kind = "int"
    BY <1>2 DEF DeclaresIn, Headed
  <2>2. PICK m \in AroundIn(ns, d) : ns[m].kind = "block"
    BY <2>1 DEF Grounded
  <2>3. AroundIn(ns, d) \subseteq 1..(d - 1) /\ AroundIn(ns, d) \subseteq DOMAIN ns
    BY AroundBelow DEF AroundIn
  <2>4. ScopesAround(ns, d) \in SUBSET (1..(d - 1)) /\ ScopesAround(ns, d) # {} /\ d - 1 \in Nat
    BY <1>0, <2>2, <2>3 DEF ScopesAround, Scoped
  <2>5. ScopeIn(ns, d) \in ScopesAround(ns, d)
    BY <1>2, <2>4, InnermostIs DEF ScopeIn
  <2>6. ScopeIn(ns, d) \in 1..(d - 1)
    BY <2>4, <2>5
  <2> QED BY <1>0, <2>3, <2>5, <2>6 DEF ScopesAround
<1> QED BY <1>1, <1>2

-----------------------------------------------------------------------------
(***************************************************************************)
(* What is made stays as it is.                                            *)
(***************************************************************************)
Headers(ns, ns2) == \A m \in DOMAIN ns : ns2[m].header = ns[m].header

LEMMA ScopeKept ==
  ASSUME NEW ns \in Seq(Nodes), NEW ns2 \in Seq(Nodes), Higher(ns2), Kept(ns, ns2),
         Headers(ns, ns2), NEW d \in DOMAIN ns
  PROVE  /\ AroundIn(ns2, d) = AroundIn(ns, d)
         /\ ScopeIn(ns2, d) = ScopeIn(ns, d) /\ (DeclaresIn(ns2, d) <=> DeclaresIn(ns, d))
<1>1. AroundIn(ns2, d) = AroundIn(ns, d)
  BY AroundKept
<1>2. \A m \in AroundIn(ns, d) : m \in DOMAIN ns
  BY DEF AroundIn
<1>3. ScopesAround(ns2, d) = ScopesAround(ns, d)
  BY <1>1, <1>2 DEF ScopesAround, Kept
<1> QED BY <1>1, <1>3 DEF ScopeIn, DeclaresIn, Kept, Headers

\* A use stays resolved, if no more is declared in the body of a do that is read.
LEMMA NameKept ==
  ASSUME NEW ns \in Seq(Nodes), NEW ns2 \in Seq(Nodes), Higher(ns2), Kept(ns, ns2),
         Headers(ns, ns2), NEW n \in DOMAIN ns, ns2[n].decl = ns[n].decl, NameOK(ns, n),
         \A d \in DOMAIN ns2 : d \notin DOMAIN ns =>
           n < d /\ (ns[n].kind = "do" /\ ns[n].decl # 0 => n \notin AroundIn(ns2, d))
  PROVE  NameOK(ns2, n)
<1>1. CASE ns[n].decl = 0
  BY <1>1 DEF NameOK
<1>2. CASE ns[n].decl # 0
  <2>1. \A d \in DOMAIN ns : /\ d \in DOMAIN ns2
                             /\ AroundIn(ns2, d) = AroundIn(ns, d)
                             /\ ScopeIn(ns2, d) = ScopeIn(ns, d)
                             /\ DeclaresIn(ns2, d) <=> DeclaresIn(ns, d)
    BY ScopeKept DEF Kept
  <2>2. ns2[n].kind = ns[n].kind
    BY DEF Kept
  <2>3. \A d \in DOMAIN ns : d \in VisibleIn(ns2, n) <=> d \in VisibleIn(ns, n)
    BY <2>1, <2>2 DEF VisibleIn
  <2>4. \A d \in DOMAIN ns2 : d \notin DOMAIN ns => d \notin VisibleIn(ns2, n)
    <3> TAKE d \in DOMAIN ns2
    <3>1. n \in Nat /\ d \in Nat
      OBVIOUS
    <3> QED BY <1>2, <2>2, <3>1 DEF VisibleIn
  <2>5. VisibleIn(ns2, n) = VisibleIn(ns, n)
    BY <2>3, <2>4 DEF VisibleIn
  <2>6. \A d \in VisibleIn(ns, n) : ScopeIn(ns2, d) = ScopeIn(ns, d)
    BY <2>1 DEF VisibleIn
  <2> QED BY <2>5, <2>6 DEF NameOK
<1> QED BY <1>1, <1>2

\* An entry stays right, if what is made now is not declared in its scope.
LEMMA EnteredKept ==
  ASSUME NEW ns \in Seq(Nodes), NEW ns2 \in Seq(Nodes), Higher(ns2), Kept(ns, ns2),
         Headers(ns, ns2), NEW s, NEW sym, Entered(ns, s, sym),
         \A d \in DOMAIN ns2 : d \notin DOMAIN ns => ~(DeclaresIn(ns2, d) /\ ScopeIn(ns2, d) = s)
  PROVE  Entered(ns2, s, sym)
<1>1. \A d \in DOMAIN ns : /\ d \in DOMAIN ns2
                           /\ ScopeIn(ns2, d) = ScopeIn(ns, d)
                           /\ DeclaresIn(ns2, d) <=> DeclaresIn(ns, d)
  BY ScopeKept DEF Kept
<1> QED BY <1>1 DEF Entered
-----------------------------------------------------------------------------
(***************************************************************************)
(* Looking a name up, and entering it.                                     *)
(***************************************************************************)
LEMMA LooksUp ==
  ASSUME NEW e \in Seq(Envs), e # <<>>, e[1].obj[x].kind # "none"
  PROVE  \E i \in 1..Len(e) : /\ e[i].obj[x].kind # "none"
                              /\ Resolved(e) = e[i].obj[x].at
                              /\ \A j \in 1..Len(e) : e[j].obj[x].kind # "none" => j <= i
<1> DEFINE found == {i \in DOMAIN e : HasObj(e, i, x)}
<1>1. found \in SUBSET (1..Len(e)) /\ Len(e) \in Nat /\ 1 \in DOMAIN e
  OBVIOUS
<1>2. 1 \in found
  BY <1>1 DEF HasObj
<1>3. Resolved(e) = e[Innermost(found)].obj[x].at
  BY <1>2 DEF Resolved, FindObjSymbol
<1>4. \A j \in 1..Len(e) : e[j].obj[x].kind # "none" => j \in found
  BY DEF HasObj
<1>5. \A i \in found : e[i].obj[x].kind # "none"
  BY DEF HasObj
<1> HIDE DEF found
<1>6. Innermost(found) \in found /\ \A j \in found : j <= Innermost(found)
  BY <1>1, <1>2, InnermostIs
<1> QED BY <1>1, <1>3, <1>4, <1>5, <1>6

\* The entry of x in the innermost table, when it is made in an empty place.
LEMMA EntersName ==
  ASSUME NEW e \in Seq(Envs), e # <<>>, NEW n \in Nat, e[Len(e)].obj[x].kind = "none",
         NEW u, u = AddObjSymbol(e, x, Symbol(n))
  PROVE  /\ u \in Seq(Envs) /\ Len(u) = Len(e)
         /\ u[Len(e)].obj[x].kind # "none" /\ u[Len(e)].obj[x].at = n
         /\ \A i \in 1..Len(e) : i # Len(e) => u[i] = e[i]
<1>1. Len(e) \in DOMAIN e /\ e[Len(e)] \in Envs
  OBVIOUS
<1> DEFINE a == [e[Len(e)] EXCEPT !.obj[x] = Symbol(n)]
<1>2. a.obj[x] = Symbol(n)
  BY <1>1, XIsName DEF Envs
<1>3. u = [e EXCEPT ![Len(e)] = a]
  BY <1>1 DEF AddObjSymbol, HasObj
<1>4. u \in Seq(Envs) /\ Len(u) = Len(e)
  BY SymbolMade, AddsObject
<1> HIDE DEF a
<1>5. u[Len(e)] = a /\ \A i \in 1..Len(e) : i # Len(e) => u[i] = e[i]
  BY <1>1, <1>3
<1>6. u[Len(e)].obj[x] = Symbol(n) /\ Symbol(n).kind # "none" /\ Symbol(n).at = n
  BY <1>2, <1>5 DEF Symbol
<1> QED BY <1>4, <1>5, <1>6

\* A use finds the declaration that the text says, if the tables are right.
LEMMA Resolution ==
  ASSUME NEW ns \in Seq(Nodes), NEW n \in DOMAIN ns, NEW ss \in Seq(Nat), Increasing(ss),
         Range(ss) = {m \in AroundIn(ns, n) \cup {n} : ns[m].kind \in Scoped},
         NEW e \in Seq(Envs), Tabled(ns, ss, e), ns[n].decl = Resolved(e),
         \A d \in DOMAIN ns : DeclaresIn(ns, d) => ns[ScopeIn(ns, d)].kind \in Scoped,
         \A d \in DOMAIN ns : DeclaresIn(ns, d) /\ ScopeIn(ns, d) \in AroundIn(ns, n) \cup {n} =>
           d <= n \/ (ns[n].kind = "do" /\ n \in AroundIn(ns, d))
  PROVE  NameOK(ns, n)
<1>0. Len(e) = Len(ss) + 1 /\ Len(ss) \in Nat /\ e # <<>> /\ e[1].obj[x].kind # "none"
  BY DEF Tabled
<1>1. PICK i \in 1..Len(e) : /\ e[i].obj[x].kind # "none"
                             /\ ns[n].decl = e[i].obj[x].at
                             /\ \A j \in 1..Len(e) : e[j].obj[x].kind # "none" => j <= i
  BY <1>0, LooksUp
<1>2. \A d : d \in VisibleIn(ns, n) <=>
               d \in DOMAIN ns /\ DeclaresIn(ns, d) /\ ScopeIn(ns, d) \in Range(ss)
  BY DEF VisibleIn
<1>3. ASSUME NEW d \in VisibleIn(ns, n)
      PROVE  \E k \in 1..Len(ss) : /\ ScopeIn(ns, d) = ss[k] /\ k + 1 <= i
                                   /\ e[k + 1].obj[x].at = d
  <2>1. PICK k \in 1..Len(ss) : ScopeIn(ns, d) = ss[k]
    <3>1. ScopeIn(ns, d) \in Range(ss) /\ DOMAIN ss = 1..Len(ss)
      BY <1>2
    <3> QED BY <3>1 DEF Range
  <2>2. e[k + 1].obj[x].kind # "none" /\ e[k + 1].obj[x].at = d
    BY <1>2, <2>1 DEF Tabled, Entered
  <2>3. k + 1 \in 1..Len(e)
    BY <1>0
  <2> QED BY <1>1, <2>1, <2>2, <2>3
<1>4. CASE i = 1
  <2>1. VisibleIn(ns, n) = {}
    BY <1>3, <1>4
  <2> QED BY <1>1, <1>4, <2>1 DEF NameOK, Tabled
<1>5. CASE i # 1
  <2> DEFINE l == i - 1
             d == ns[n].decl
  <2>1. l \in 1..Len(ss) /\ l + 1 = i
    BY <1>0, <1>5
  <2> HIDE DEF l
  <2>2. Entered(ns, ss[l], e[i].obj[x])
    BY <2>1 DEF Tabled
  <2>3. d \in DOMAIN ns /\ DeclaresIn(ns, d) /\ ScopeIn(ns, d) = ss[l]
    BY <1>1, <2>2 DEF Entered
  <2>4. d \in VisibleIn(ns, n)
    <3>1. ss[l] \in Range(ss)
      BY <2>1 DEF Range
    <3> QED BY <1>2, <2>3, <3>1
  <2>5. \A other \in VisibleIn(ns, n) \ {d} : ScopeIn(ns, other) < ScopeIn(ns, d)
    <3> TAKE other \in VisibleIn(ns, n) \ {d}
    <3>1. PICK k \in 1..Len(ss) : /\ ScopeIn(ns, other) = ss[k] /\ k + 1 <= i
                                  /\ e[k + 1].obj[x].at = other
      BY <1>3
    <3>2. k # l
      BY <1>1, <2>1, <3>1
    <3>3. k < l
      BY <2>1, <3>1, <3>2
    <3> QED BY <2>1, <2>3, <3>1, <3>3 DEF Increasing
  <2> HIDE DEF d
  <2>6. NameOK(ns, n) <=> (d # 0 => IF VisibleIn(ns, n) = {} THEN d = Global
        ELSE /\ d \in VisibleIn(ns, n)
             /\ \A other \in VisibleIn(ns, n) \ {d} : ScopeIn(ns, other) < ScopeIn(ns, d))
    BY DEF NameOK, d
  <2> QED BY <2>4, <2>5, <2>6
<1> QED BY <1>4, <1>5
-----------------------------------------------------------------------------
(***************************************************************************)
(* A statement is made.                                                    *)
(***************************************************************************)
LEMMA AddsHeaders ==
  ASSUME IInv, status = "run", NEW f \in Nodes, Add(f)
  PROVE  Headers(nodes, nodes') /\ \A m \in DOMAIN nodes : nodes'[m].decl = nodes[m].decl
<1> DEFINE a == [nodes[Cur] EXCEPT !.kids = Append(@, New)]
           b == [nodes EXCEPT ![Cur].kids = Append(@, New)]
<1>1. Cur \in DOMAIN nodes /\ nodes \in Seq(Nodes) /\ nodes[Cur] \in Nodes
  BY CurFacts DEF IInv, TypeOK
<1>2. a.header = nodes[Cur].header /\ a.decl = nodes[Cur].decl
  BY <1>1 DEF Nodes
<1>3. b = [nodes EXCEPT ![Cur] = a]
  BY <1>1
<1>4. nodes' = Append(b, f)
  BY DEF Add
<1> HIDE DEF a
<1>5. Len(b) = Len(nodes) /\ \A m \in DOMAIN nodes : b[m] = IF m = Cur THEN a ELSE nodes[m]
  BY <1>1, <1>3
<1> HIDE DEF b
<1>6. \A m \in DOMAIN nodes : nodes'[m] = b[m]
  <2>1. DOMAIN nodes = 1..Len(nodes)
    BY <1>1
  <2>2. \A q, y : \A m \in 1..Len(q) : Append(q, y)[m] = q[m]
    OBVIOUS
  <2> QED BY <1>4, <1>5, <2>1, <2>2
<1> QED BY <1>2, <1>5, <1>6 DEF Headers

\* The new statement, the open ones around it, and what stays.
Made(f) ==
  /\ nodes \in Seq(Nodes) /\ open \in Seq(Nat) /\ Chain(nodes, open) /\ open # <<>>
  /\ nodes' \in Seq(Nodes) /\ Higher(nodes') /\ Kept(nodes, nodes') /\ Headers(nodes, nodes')
  /\ New \in Nat /\ New = Len(nodes) + 1 /\ Len(nodes') = New /\ nodes'[New] = f
  /\ nodes'[New].up = Last(open)
  /\ \A d \in DOMAIN nodes : d \in Nat /\ d < New
  /\ \A d \in DOMAIN nodes' : d \in DOMAIN nodes \/ d = New
  /\ AroundIn(nodes', New) = Range(open)

LEMMA MakesOne ==
  ASSUME IInv, status = "run", NEW f \in Nodes, f.up = Cur, Add(f)
  PROVE  Made(f)
<1>1. /\ nodes' \in Seq(Nodes) /\ Kept(nodes, nodes') /\ Len(nodes') = New /\ nodes'[New] = f
      /\ Higher(nodes')
  BY Adds
<1>2. /\ open # <<>> /\ Cur = Last(open) /\ New \in Nat /\ New = Len(nodes) + 1
      /\ nodes \in Seq(Nodes) /\ open \in Seq(Nat) /\ Chain(nodes, open)
  BY CurFacts DEF IInv, TypeOK
<1>3. Headers(nodes, nodes')
  BY AddsHeaders
<1>4. AroundIn(nodes', New) = Range(open)
  BY <1>1, <1>2, AroundNew
<1>5. /\ \A d \in DOMAIN nodes : d \in Nat /\ d < New
      /\ \A d \in DOMAIN nodes' : d \in DOMAIN nodes \/ d = New
  BY <1>1, <1>2
<1> QED BY <1>1, <1>2, <1>3, <1>4, <1>5 DEF Made

LEMMA MadeKeepsNames ==
  ASSUME IInv, NInv, status = "run", NEW f \in Nodes, f.up = Cur, Add(f),
         f.header.init => f.kind = "for"
  PROVE  /\ Grounded(nodes') /\ Headed(nodes')
         /\ Nested(nodes', open) /\ Waits(nodes', open)
         /\ \A n \in DOMAIN nodes : NameOK(nodes', n)
<1>1. Made(f)
  BY MakesOne
<1>2. \A d \in DOMAIN nodes : /\ d \in DOMAIN nodes' /\ nodes'[d].kind = nodes[d].kind
                              /\ nodes'[d].up = nodes[d].up
                              /\ nodes'[d].header = nodes[d].header
                              /\ nodes'[d].decl = nodes[d].decl
                              /\ AroundIn(nodes', d) = AroundIn(nodes, d)
  BY <1>1, AddsHeaders, AroundKept DEF Made, Kept, Headers
<1>3. \A i \in DOMAIN open : open[i] \in DOMAIN nodes /\ open[i] \in Range(open)
  BY <1>1 DEF Made, Chain, Range
<1>4. Grounded(nodes')
  <2>1. \E m \in Range(open) : nodes'[m].kind = "block"
    <3>1. 1 \in DOMAIN open
      BY <1>1 DEF Made
    <3>2. nodes[open[1]].up = Null
      BY <1>1, <3>1 DEF Made, Chain
    <3>3. nodes[open[1]].kind = "block"
      BY <1>3, <3>1, <3>2 DEF IInv, Rooted
    <3> QED BY <1>2, <1>3, <3>1, <3>3
  <2>2. \A d \in DOMAIN nodes : \A m \in AroundIn(nodes, d) : m \in DOMAIN nodes
    BY DEF AroundIn
  <2>3. \A d \in DOMAIN nodes :
          nodes'[d].up # Null => \E m \in AroundIn(nodes', d) : nodes'[m].kind = "block"
    BY <1>2, <2>2 DEF NInv, Grounded
  <2> QED BY <1>1, <2>1, <2>3 DEF Made, Grounded
<1>5. Headed(nodes')
  BY <1>1, <1>2 DEF Made, NInv, Headed
<1>6. Nested(nodes', open)
  BY <1>1, <1>2, <1>3 DEF Made, NInv, Nested
<1>7. Waits(nodes', open)
  BY <1>2, <1>3 DEF NInv, Waits
<1>8. ASSUME NEW n \in DOMAIN nodes
      PROVE  NameOK(nodes', n)
  <2>1. NameOK(nodes, n) /\ nodes'[n].decl = nodes[n].decl
    BY <1>2 DEF NInv
  <2>2. nodes[n].kind = "do" /\ nodes[n].decl # 0 => n \notin Range(open)
    <3>1. \A i \in DOMAIN open : n = open[i] /\ nodes[n].kind = "do" => nodes[n].decl = 0
      BY DEF NInv, Waits
    <3> QED BY <3>1 DEF Range
  <2>3. \A d \in DOMAIN nodes' : d \notin DOMAIN nodes =>
          n < d /\ (nodes[n].kind = "do" /\ nodes[n].decl # 0 => n \notin AroundIn(nodes', d))
    BY <1>1, <2>2 DEF Made
  <2> QED BY <1>1, <2>1, <2>3, NameKept DEF Made
<1> QED BY <1>4, <1>5, <1>6, <1>7, <1>8

\* A statement whose name, if it has one, is looked up in the tables that result.
LEMMA MadeKeeps ==
  ASSUME IInv, NInv, status = "run", NEW f \in Nodes, f.up = Cur, Add(f),
         f.header.init => f.kind = "for", f.kind = "do" => f.decl = 0,
         envs' \in Seq(Envs), f.decl = 0 \/ f.decl = Resolved(envs'),
         Tables(nodes', Append(open, New), envs'),
         open' = Append(open, New) \/ (open' = open /\ f.kind \notin Scoped)
  PROVE  NInv'
<1>1. Made(f)
  BY MakesOne
<1>2. /\ Grounded(nodes') /\ Headed(nodes')
      /\ Nested(nodes', open) /\ Waits(nodes', open)
      /\ \A n \in DOMAIN nodes : NameOK(nodes', n)
  BY MadeKeepsNames
<1>3. Range(Append(open, New)) = Range(open) \cup {New}
  <2>1. \A m \in Range(open) : m < New
    BY <1>1 DEF Made, Chain, Range
  <2> QED BY <1>1, <2>1, AppendIncreasing DEF Made, Chain
<1>4. PICK ss \in Seq(Nat) : Holds(nodes', Append(open, New), ss, Scoped) /\ Tabled(nodes', ss, envs')
  BY DEF Tables
<1>5. NameOK(nodes', New)
  <2>1. CASE f.decl = 0
    BY <1>1, <2>1 DEF Made, NameOK
  <2>2. CASE f.decl = Resolved(envs')
    <3>1. New \in DOMAIN nodes' /\ \A d \in DOMAIN nodes' : d <= New
      BY <1>1 DEF Made
    <3>2. \A d \in DOMAIN nodes' : DeclaresIn(nodes', d) => nodes'[ScopeIn(nodes', d)].kind \in Scoped
      <4>1. \A n \in DOMAIN nodes' : nodes'[n].up = Null => nodes'[n].kind = "block"
        BY Adds DEF Rooted
      <4> QED BY <1>1, <1>2, <4>1, ScopeFacts DEF Made
    <3>3. Range(ss) = {m \in AroundIn(nodes', New) \cup {New} : nodes'[m].kind \in Scoped}
      BY <1>1, <1>3, <1>4 DEF Made, Holds
    <3>4. Increasing(ss) /\ nodes'[New].decl = Resolved(envs') /\ nodes' \in Seq(Nodes)
      BY <1>1, <1>4, <2>2 DEF Made, Holds
    <3> QED BY <1>4, <3>1, <3>2, <3>3, <3>4, Resolution
  <2> QED BY <2>1, <2>2
<1>6. \A n \in DOMAIN nodes' : NameOK(nodes', n)
  BY <1>1, <1>2, <1>5 DEF Made
<1>7. CASE open' = Append(open, New)
  <2>1. \A i \in DOMAIN open' : (i \in DOMAIN open /\ open'[i] = open[i]) \/ open'[i] = New
    BY <1>1, <1>7 DEF Made
  <2>2. Nested(nodes', open')
    <3>1. \A d \in DOMAIN nodes' : ~(New < d)
      BY <1>1 DEF Made
    <3> QED BY <1>2, <2>1, <3>1 DEF Nested
  <2>3. Waits(nodes', open')
    BY <1>1, <1>2, <2>1 DEF Waits, Made
  <2> QED BY <1>2, <1>6, <1>7, <2>2, <2>3 DEF NInv
<1>8. CASE open' = open /\ f.kind \notin Scoped
  <2>1. Holds(nodes', open, ss, Scoped)
    BY <1>1, <1>3, <1>4, <1>8 DEF Holds, Made
  <2>2. Tables(nodes', open', envs')
    BY <1>4, <1>8, <2>1 DEF Tables
  <2> QED BY <1>2, <1>6, <1>8, <2>2 DEF NInv
<1> QED BY <1>7, <1>8
-----------------------------------------------------------------------------
(***************************************************************************)
(* The tables when a statement is made and when a scope is left.           *)
(***************************************************************************)
\* The scopes open before the statement made now.
LEMMA MadeBelow ==
  ASSUME NInv, NEW f, Made(f)
  PROVE  \E ss \in Seq(Nat) :
           /\ Holds(nodes, open, ss, Scoped) /\ Tabled(nodes, ss, envs)
           /\ \A k \in 1..Len(ss) : ss[k] \in Range(ss) /\ ss[k] # New
           /\ Holds(nodes', Append(open, New), Pushed(ss, New, f.kind, Scoped), Scoped)
<1>1. PICK ss \in Seq(Nat) : Holds(nodes, open, ss, Scoped) /\ Tabled(nodes, ss, envs)
  BY DEF NInv, Tables
<1>2. \A m \in Range(open) : m < New
  BY DEF Made, Chain, Range
<1>3. \A k \in 1..Len(ss) : ss[k] \in Range(ss)
  BY DEF Range
<1>4. \A k \in 1..Len(ss) : ss[k] # New
  BY <1>1, <1>2, <1>3 DEF Holds, Made
<1>5. Holds(nodes', Append(open, New), Pushed(ss, New, f.kind, Scoped), Scoped)
  BY <1>1, HoldsOpened DEF Made, Pushed
<1> QED BY <1>1, <1>3, <1>4, <1>5

LEMMA TablesPlain ==
  ASSUME NInv, NEW f, Made(f), f.kind \notin Scoped, f.kind # "int", ~f.header.init, envs' = envs
  PROVE  Tables(nodes', Append(open, New), envs')
<1>1. PICK ss \in Seq(Nat) :
           /\ Tabled(nodes, ss, envs)
           /\ Holds(nodes', Append(open, New), Pushed(ss, New, f.kind, Scoped), Scoped)
  BY MadeBelow
<1>2. Holds(nodes', Append(open, New), ss, Scoped)
  BY <1>1 DEF Pushed
<1>3. \A k \in 1..Len(ss) : Entered(nodes', ss[k], envs[k + 1].obj[x])
  <2> TAKE k \in 1..Len(ss)
  <2>1. Entered(nodes, ss[k], envs[k + 1].obj[x])
    BY <1>1 DEF Tabled
  <2>2. \A d \in DOMAIN nodes' : d \notin DOMAIN nodes => ~DeclaresIn(nodes', d)
    BY DEF Made, DeclaresIn
  <2> QED BY <2>1, <2>2, EnteredKept DEF Made
<1>4. Tabled(nodes', ss, envs')
  BY <1>1, <1>3 DEF Tabled
<1> QED BY <1>2, <1>4 DEF Tables

LEMMA TablesInt ==
  ASSUME IInv, NInv, status = "run", NEW f, Made(f), f.kind = "int",
         envs[Len(envs)].obj[x].kind = "none", envs' = AddObjSymbol(envs, x, Symbol(New))
  PROVE  Tables(nodes', Append(open, New), envs') /\ Resolved(envs') = New
<1>1. PICK ss \in Seq(Nat) :
           /\ Holds(nodes, open, ss, Scoped) /\ Tabled(nodes, ss, envs)
           /\ \A k \in 1..Len(ss) : ss[k] \in Range(ss) /\ ss[k] # New
           /\ Holds(nodes', Append(open, New), Pushed(ss, New, f.kind, Scoped), Scoped)
  BY MadeBelow
<1>2. Holds(nodes', Append(open, New), ss, Scoped)
  BY <1>1 DEF Pushed, Scoped
<1>3. envs \in Seq(Envs) /\ envs # <<>> /\ New \in Nat
  BY CurFacts DEF IInv, TypeOK, Made
<1>4. /\ envs' \in Seq(Envs) /\ Len(envs') = Len(envs)
      /\ envs'[Len(envs)].obj[x].kind # "none" /\ envs'[Len(envs)].obj[x].at = New
      /\ \A i \in 1..Len(envs) : i # Len(envs) => envs'[i] = envs[i]
  <2>1. \A n \in Nat : \A u : u = AddObjSymbol(envs, x, Symbol(n)) =>
          /\ u \in Seq(Envs) /\ Len(u) = Len(envs)
          /\ u[Len(envs)].obj[x].kind # "none" /\ u[Len(envs)].obj[x].at = n
          /\ \A i \in 1..Len(envs) : i # Len(envs) => u[i] = envs[i]
    BY <1>3, EntersName
  <2> QED BY <1>3, <2>1
<1>5. Len(envs) = Len(ss) + 1 /\ Len(ss) \in Nat \ {0} /\ envs[1].obj[x].kind # "none"
  <2>1. Len(envs) = Len(ss) + 1 /\ Len(ss) \in Nat /\ envs[1].obj[x].kind # "none"
    BY <1>1 DEF Tabled
  <2>2. Len(ss) # 0
    BY <2>1
  <2> QED BY <2>1, <2>2
<1>6. ScopeIn(nodes', New) = ss[Len(ss)]
  <2>1. ScopesAround(nodes', New) = Range(ss)
    <3>1. \A m \in Range(open) : nodes'[m].kind = nodes[m].kind
      BY DEF Made, Chain, Kept, Range
    <3> QED BY <1>1, <3>1 DEF ScopesAround, Made, Holds
  <2>2. ss[Len(ss)] \in Range(ss) /\ \A m \in Range(ss) : m <= ss[Len(ss)]
    <3>1. ss # <<>> /\ Increasing(ss)
      BY <1>1, <1>5 DEF Holds
    <3> QED BY <3>1, LastIncreasing DEF Last
  <2>3. Range(ss) \in SUBSET Nat
    BY DEF Range
  <2>4. Innermost(Range(ss)) = ss[Len(ss)]
    BY <2>2, <2>3, InnermostIn
  <2> QED BY <2>1, <2>4 DEF ScopeIn, Made
<1>7. \A k \in 1..Len(ss) : Entered(nodes', ss[k], envs'[k + 1].obj[x])
  <2> TAKE k \in 1..Len(ss)
  <2>1. Entered(nodes, ss[k], envs[k + 1].obj[x])
    BY <1>1 DEF Tabled
  <2>2. CASE k # Len(ss)
    <3>1. k + 1 \in 1..Len(envs) /\ k + 1 # Len(envs) /\ ss[k] < ss[Len(ss)] /\ ss[k] \in Nat
      BY <1>1, <1>5, <2>2 DEF Holds, Increasing
    <3>2. envs'[k + 1] = envs[k + 1]
      BY <1>4, <3>1
    <3>3. ss[k] # ss[Len(ss)]
      BY <1>5, <3>1
    <3>4. \A d \in DOMAIN nodes' : d \notin DOMAIN nodes => ScopeIn(nodes', d) # ss[k]
      BY <1>6, <3>3 DEF Made
    <3> QED BY <2>1, <3>2, <3>4, EnteredKept DEF Made
  <2>3. CASE k = Len(ss)
    <3>1. \A d \in DOMAIN nodes : ~(DeclaresIn(nodes, d) /\ ScopeIn(nodes, d) = ss[k])
      BY <1>5, <2>1, <2>3 DEF Entered
    <3>2. \A d \in DOMAIN nodes : ~(DeclaresIn(nodes', d) /\ ScopeIn(nodes', d) = ss[k])
      BY <3>1, ScopeKept DEF Made
    <3>3. New \in DOMAIN nodes' /\ DeclaresIn(nodes', New)
      BY DEF Made, DeclaresIn
    <3>4. k + 1 = Len(envs) /\ envs'[k + 1].obj[x].at = New /\ envs'[k + 1].obj[x].kind # "none"
      BY <1>4, <1>5, <2>3
    <3>5. \A d \in DOMAIN nodes' : d \in DOMAIN nodes \/ d = New
      BY DEF Made
    <3> QED BY <1>6, <2>3, <3>2, <3>3, <3>4, <3>5 DEF Entered
  <2> QED BY <2>2, <2>3
<1>8. Tabled(nodes', ss, envs')
  <2>1. 1 \in 1..Len(envs) /\ 1 # Len(envs)
    BY <1>5
  <2>2. envs'[1] = envs[1]
    BY <1>4, <2>1
  <2> QED BY <1>1, <1>4, <1>7, <2>2 DEF Tabled
<1>9. Resolved(envs') = New
  <2>1. envs' # <<>> /\ envs'[1].obj[x].kind # "none"
    BY <1>4, <1>5, <1>8 DEF Tabled
  <2>2. PICK i \in 1..Len(envs') :
          /\ Resolved(envs') = envs'[i].obj[x].at
          /\ \A j \in 1..Len(envs') : envs'[j].obj[x].kind # "none" => j <= i
    BY <1>4, <2>1, LooksUp
  <2>3. i = Len(envs)
    BY <1>4, <1>5, <2>2
  <2> QED BY <1>4, <2>2, <2>3
<1> QED BY <1>2, <1>8, <1>9 DEF Tables

LEMMA TablesScope ==
  ASSUME IInv, NInv, status = "run", NEW f, Made(f), f.kind \in Scoped,
         f.header.init => f.kind = "for",
         envs' \in Seq(Envs), Len(envs') = Len(envs) + 1,
         \A i \in 1..Len(envs) : envs'[i] = envs[i],
         IF f.header.init THEN /\ envs'[Len(envs')].obj[x].kind # "none"
                               /\ envs'[Len(envs')].obj[x].at = New
         ELSE envs'[Len(envs')].obj[x].kind = "none"
  PROVE  Tables(nodes', Append(open, New), envs')
<1>1. PICK ss \in Seq(Nat) :
           /\ Holds(nodes, open, ss, Scoped) /\ Tabled(nodes, ss, envs)
           /\ \A k \in 1..Len(ss) : ss[k] \in Range(ss) /\ ss[k] # New
           /\ Holds(nodes', Append(open, New), Pushed(ss, New, f.kind, Scoped), Scoped)
  BY MadeBelow
<1> DEFINE s2 == Append(ss, New)
<1>2. s2 \in Seq(Nat) /\ Holds(nodes', Append(open, New), s2, Scoped)
  BY <1>1 DEF Pushed, Made
<1>3. /\ Len(ss) \in Nat /\ Len(s2) = Len(ss) + 1 /\ s2[Len(ss) + 1] = New
      /\ \A k \in 1..Len(ss) : s2[k] = ss[k]
  BY DEF Made
<1>4. Len(envs) = Len(ss) + 1
  BY <1>1 DEF Tabled
<1> HIDE DEF s2
<1>5. DeclaresIn(nodes', New) <=> f.header.init
  BY DEF DeclaresIn, Made, Scoped
<1>6. f.kind = "for" => ScopeIn(nodes', New) = New
  BY DEF ScopeIn, Made
<1>7. ASSUME NEW k \in 1..Len(ss)
      PROVE  Entered(nodes', s2[k], envs'[k + 1].obj[x])
  <2>1. Entered(nodes, ss[k], envs[k + 1].obj[x]) /\ ss[k] # New
    BY <1>1 DEF Tabled
  <2>2. k + 1 \in 1..Len(envs)
    BY <1>4
  <2>3. \A d \in DOMAIN nodes' : d \notin DOMAIN nodes =>
          ~(DeclaresIn(nodes', d) /\ ScopeIn(nodes', d) = ss[k])
    BY <1>5, <1>6, <2>1 DEF Made
  <2>4. Entered(nodes', ss[k], envs[k + 1].obj[x])
    BY <2>1, <2>3, EnteredKept DEF Made
  <2> QED BY <1>3, <2>2, <2>4
<1>8. Entered(nodes', New, envs'[Len(envs')].obj[x])
  <2>1. \A d \in DOMAIN nodes : DeclaresIn(nodes', d) => ScopeIn(nodes', d) # New
    <3> TAKE d \in DOMAIN nodes
    <3>1. SUFFICES ASSUME DeclaresIn(nodes', d) PROVE ScopeIn(nodes', d) < New
      BY DEF Made
    <3>2. DeclaresIn(nodes, d) /\ ScopeIn(nodes', d) = ScopeIn(nodes, d)
      BY <3>1, ScopeKept DEF Made
    <3>3. ScopeIn(nodes, d) \in DOMAIN nodes
      <4>1. Higher(nodes) /\ \A n \in DOMAIN nodes : nodes[n].up = Null => nodes[n].kind = "block"
        BY DEF IInv, Upwards, Higher, Rooted
      <4> QED BY <3>2, <4>1, ScopeFacts DEF NInv, Made
    <3> QED BY <3>2, <3>3 DEF Made
  <2>2. \A d \in DOMAIN nodes' : d \in DOMAIN nodes \/ d = New
    BY DEF Made
  <2>3. New \in DOMAIN nodes'
    BY DEF Made
  <2> QED BY <1>5, <1>6, <2>1, <2>2, <2>3 DEF Entered
<1>9. Tabled(nodes', s2, envs')
  <2>1. \A k \in 1..Len(s2) : Entered(nodes', s2[k], envs'[k + 1].obj[x])
    <3> TAKE k \in 1..Len(s2)
    <3>1. CASE k \in 1..Len(ss)
      BY <1>7, <3>1
    <3>2. CASE k = Len(ss) + 1
      <4>1. k + 1 = Len(envs')
        BY <1>3, <1>4, <3>2
      <4> QED BY <1>3, <1>8, <3>2, <4>1
    <3> QED BY <1>3, <3>1, <3>2
  <2>2. envs'[1] = envs[1] /\ Len(envs') = Len(s2) + 1
    BY <1>3, <1>4
  <2> QED BY <1>1, <2>1, <2>2 DEF Tabled
<1> QED BY <1>2, <1>9 DEF Tables
-----------------------------------------------------------------------------
(***************************************************************************)
(* The statements stay as they are, or change in what is not followed      *)
(* here; one may be closed.                                                *)
(***************************************************************************)
LEMMA StaysPut ==
  ASSUME IInv, NInv, nodes' \in Seq(Nodes), Len(nodes') = Len(nodes), Kept(nodes, nodes'),
         Headers(nodes, nodes')
  PROVE  /\ nodes \in Seq(Nodes) /\ DOMAIN nodes' = DOMAIN nodes /\ Higher(nodes')
         /\ Nested(nodes', open) /\ Grounded(nodes') /\ Headed(nodes')
         /\ Tables(nodes', open, envs)
         /\ \A n \in DOMAIN nodes : nodes'[n].decl = nodes[n].decl => NameOK(nodes', n)
<1>1. nodes \in Seq(Nodes) /\ DOMAIN nodes' = DOMAIN nodes /\ open \in Seq(Nat) /\ Chain(nodes, open)
  BY DEF IInv, TypeOK
<1>2. Higher(nodes')
  BY <1>1 DEF IInv, Upwards, Higher, Kept
<1>3. \A d \in DOMAIN nodes : /\ AroundIn(nodes', d) = AroundIn(nodes, d)
                              /\ \A m \in AroundIn(nodes, d) : m \in DOMAIN nodes
  BY <1>1, <1>2, AroundKept DEF AroundIn
<1>4. Nested(nodes', open)
  BY <1>1, <1>3 DEF NInv, Nested
<1>5. Grounded(nodes')
  <2>1. \A n \in DOMAIN nodes : nodes[n].up # Null => \E m \in AroundIn(nodes, n) : nodes[m].kind = "block"
    BY DEF NInv, Grounded
  <2>2. \A n \in DOMAIN nodes : nodes'[n].up = nodes[n].up /\ nodes'[n].kind = nodes[n].kind
    BY DEF Kept
  <2> QED BY <1>1, <1>3, <2>1, <2>2 DEF Grounded
<1>6. Headed(nodes')
  BY <1>1 DEF NInv, Headed, Kept, Headers
<1>7. \A n \in DOMAIN nodes : nodes'[n].decl = nodes[n].decl => NameOK(nodes', n)
  <2> TAKE n \in DOMAIN nodes
  <2>1. NameOK(nodes, n) /\ \A d \in DOMAIN nodes' : ~(d \notin DOMAIN nodes)
    BY <1>1 DEF NInv
  <2> QED BY <1>1, <1>2, <2>1, NameKept
<1>8. Tables(nodes', open, envs)
  <2>1. PICK ss \in Seq(Nat) : Holds(nodes, open, ss, Scoped) /\ Tabled(nodes, ss, envs)
    BY DEF NInv, Tables
  <2>2. Holds(nodes', open, ss, Scoped)
    BY <1>1, <2>1, OpenKept
  <2>3. \A d \in DOMAIN nodes' : ~(d \notin DOMAIN nodes)
    BY <1>1
  <2>4. \A s, sym : Entered(nodes, s, sym) => Entered(nodes', s, sym)
    BY <1>1, <1>2, <2>3, EnteredKept
  <2>5. Tabled(nodes', ss, envs)
    BY <2>1, <2>4 DEF Tabled
  <2> QED BY <2>2, <2>5 DEF Tables
<1> QED BY <1>1, <1>2, <1>4, <1>5, <1>6, <1>7, <1>8

LEMMA SameNames ==
  ASSUME IInv, NInv, nodes' \in Seq(Nodes), Len(nodes') = Len(nodes), Kept(nodes, nodes'),
         Headers(nodes, nodes'), \A m \in DOMAIN nodes : nodes'[m].decl = nodes[m].decl,
         open' = open, envs' = envs
  PROVE  NInv'
<1>1. \A i \in DOMAIN open : open[i] \in DOMAIN nodes
  BY DEF IInv, Chain
<1>2. Waits(nodes', open)
  BY <1>1 DEF NInv, Waits, Kept
<1> QED BY <1>2, StaysPut DEF NInv

LEMMA ExitNames ==
  ASSUME IInv, NInv, nodes' = nodes, open' = open, envs' = envs
  PROVE  NInv'
BY Untouched, SameNames DEF Headers

\* The open statements without the innermost.
LEMMA OuterOpen ==
  ASSUME IInv, status = "run"
  PROVE  /\ Front(open) \in Seq(Nat) /\ Range(Front(open)) = Range(open) \ {Cur}
         /\ \A i \in DOMAIN Front(open) :
              /\ i \in DOMAIN open /\ Front(open)[i] = open[i]
              /\ open[i] \in DOMAIN nodes /\ open[i] # Cur
<1>1. open \in Seq(Nat) /\ open # <<>> /\ Cur = Last(open) /\ Chain(nodes, open)
  BY CurFacts DEF IInv, TypeOK
<1>2. Range(Front(open)) = Range(open) \ {Cur}
  BY <1>1, FrontIncreasing DEF Chain
<1>3. /\ Len(open) \in Nat \ {0}
      /\ Front(open) \in Seq(Nat) /\ Len(Front(open)) = Len(open) - 1
      /\ \A i \in 1..Len(open)-1 : Front(open)[i] = open[i]
  BY <1>1, FrontFacts
<1>4. \A i \in DOMAIN Front(open) : i \in DOMAIN open /\ Front(open)[i] = open[i]
  BY <1>3
<1>5. \A i \in DOMAIN Front(open) : Front(open)[i] \in Range(Front(open))
  BY DEF Range
<1>6. \A i \in DOMAIN Front(open) : open[i] \in DOMAIN nodes /\ open[i] # Cur
  BY <1>1, <1>2, <1>4, <1>5 DEF Chain
<1> QED BY <1>2, <1>3, <1>4, <1>6

LEMMA OpenAround ==
  ASSUME IInv, status = "run", nodes[Cur].kind # "block"
  PROVE  AroundIn(nodes, Cur) = Range(Front(open))
<1>1. /\ nodes \in Seq(Nodes) /\ open \in Seq(Nat) /\ open # <<>> /\ Cur = Last(open)
      /\ Cur \in DOMAIN nodes /\ Chain(nodes, open) /\ Kept(nodes, nodes)
  BY CurFacts DEF IInv, TypeOK, Kept
<1>2. /\ Len(open) \in Nat \ {0} /\ Len(Front(open)) = Len(open) - 1
      /\ \A i \in 1..Len(open)-1 : Front(open)[i] = open[i]
  BY <1>1, FrontFacts
<1>3. Len(open) # 1
  <2>1. SUFFICES ASSUME Len(open) = 1 PROVE FALSE
    OBVIOUS
  <2>2. nodes[open[1]].up = Null /\ open[1] = Cur
    BY <1>1, <2>1 DEF Chain, Last
  <2> QED BY <1>1, <2>2 DEF IInv, Rooted
<1>4. Front(open) # <<>> /\ nodes[Cur].up = Last(Front(open))
  <2>1. Len(open) - 1 \in 1..Len(open)-1 /\ Len(open) \in DOMAIN open
    BY <1>2, <1>3
  <2>2. nodes[open[Len(open)]].up = open[Len(open) - 1]
    BY <1>1, <1>3, <2>1 DEF Chain
  <2> QED BY <1>1, <1>2, <2>1, <2>2 DEF Last
<1>5. \A m \in Range(Front(open)) : m < Cur
  <2>1. \A m \in Range(Front(open)) : m \in Range(open) /\ m # Cur
    BY OuterOpen
  <2>2. \A m \in Range(open) : m <= Cur /\ m \in Nat /\ Cur \in Nat
    BY <1>1, LastIncreasing DEF Chain, Range
  <2> QED BY <2>1, <2>2
<1>6. Front(open) \in Seq(Nat) /\ Chain(nodes, Front(open))
  BY <1>1, ChainClosed
<1> QED BY <1>1, <1>4, <1>5, <1>6, AroundLast

LEMMA ClosesNames ==
  ASSUME IInv, NInv, status = "run", NEW k, k = nodes[Cur].kind, Close,
         nodes' \in Seq(Nodes), Len(nodes') = Len(nodes), Kept(nodes, nodes'),
         Headers(nodes, nodes'),
         \A m \in DOMAIN nodes : nodes'[m].decl = nodes[m].decl \/ (m = Cur /\ NameOK(nodes', m)),
         envs' = Popped(envs, k, Scoped)
  PROVE  NInv'
<1>1. /\ nodes \in Seq(Nodes) /\ DOMAIN nodes' = DOMAIN nodes
      /\ Nested(nodes', open) /\ Grounded(nodes') /\ Headed(nodes')
      /\ \A n \in DOMAIN nodes : NameOK(nodes', n)
  BY StaysPut
<1>2. /\ open \in Seq(Nat) /\ open # <<>> /\ Cur = Last(open) /\ Cur \in DOMAIN nodes
      /\ open' = Front(open) /\ Chain(nodes, open)
      /\ envs \in Seq(Envs) /\ envs # <<>>
  BY CurFacts DEF IInv, TypeOK, Close
<1>3. \A i \in DOMAIN open' : /\ i \in DOMAIN open /\ open'[i] = open[i]
                              /\ open[i] \in DOMAIN nodes /\ open[i] # Cur
  BY <1>2, OuterOpen
<1>4. Nested(nodes', open')
  BY <1>1, <1>3 DEF Nested
<1>5. Waits(nodes', open')
  BY <1>3 DEF NInv, Waits, Kept
<1>6. Tables(nodes', open', envs')
  <2>1. PICK ss \in Seq(Nat) : Holds(nodes', open, ss, Scoped) /\ Tabled(nodes', ss, envs)
    BY StaysPut DEF Tables
  <2>2. nodes'[Last(open)].kind = k /\ Chain(nodes', open)
    BY <1>2, OpenKept DEF Kept
  <2>3. Holds(nodes', open', Popped(ss, k, Scoped), Scoped) /\ (k \in Scoped => ss # <<>>)
    BY <1>1, <1>2, <2>1, <2>2, HoldsClosed DEF Popped
  <2>4. CASE k \notin Scoped
    BY <2>1, <2>3, <2>4 DEF Popped, Tables
  <2>5. CASE k \in Scoped
    <3>1. /\ Len(ss) \in Nat \ {0} /\ Front(ss) \in Seq(Nat) /\ Len(Front(ss)) = Len(ss) - 1
          /\ \A i \in 1..Len(ss)-1 : Front(ss)[i] = ss[i]
      BY <2>3, <2>5, FrontFacts
    <3>2. /\ envs' = Front(envs) /\ Len(Front(envs)) = Len(envs) - 1
          /\ \A i \in 1..Len(envs)-1 : Front(envs)[i] = envs[i]
      BY <1>2, <2>5, FrontFacts DEF Popped
    <3>3. Len(envs) = Len(ss) + 1
      BY <2>1 DEF Tabled
    <3>4. Len(envs') = Len(Front(ss)) + 1 /\ envs'[1] = envs[1]
      BY <3>1, <3>2, <3>3
    <3>5. \A i \in 1..Len(Front(ss)) : /\ i \in 1..Len(ss) /\ Front(ss)[i] = ss[i]
                                       /\ envs'[i + 1] = envs[i + 1]
      BY <3>1, <3>2, <3>3
    <3>6. Tabled(nodes', Front(ss), envs')
      BY <2>1, <3>4, <3>5 DEF Tabled
    <3> QED BY <2>3, <2>5, <3>1, <3>6 DEF Popped, Tables
  <2> QED BY <2>4, <2>5
<1> QED BY <1>1, <1>4, <1>5, <1>6 DEF NInv

LEMMA PlainClosesNames ==
  ASSUME IInv, NInv, status = "run", NEW k, k = nodes[Cur].kind, Close, nodes' = nodes,
         envs' = Popped(envs, k, Scoped)
  PROVE  NInv'
BY Untouched, ClosesNames DEF Headers

\* The name in the condition of a do, at its end.
LEMMA DoResolves ==
  ASSUME IInv, NInv, status = "run", nodes[Cur].kind = "do",
         nodes' = [nodes EXCEPT ![Cur].decl = Resolved(envs)]
  PROVE  /\ nodes' \in Seq(Nodes) /\ Len(nodes') = Len(nodes) /\ Kept(nodes, nodes')
         /\ Headers(nodes, nodes')
         /\ \A m \in DOMAIN nodes : m # Cur => nodes'[m].decl = nodes[m].decl
         /\ NameOK(nodes', Cur)
<1> DEFINE a == [nodes[Cur] EXCEPT !.decl = Resolved(envs)]
<1>1. /\ nodes \in Seq(Nodes) /\ nodes[Cur] \in Nodes /\ envs \in Seq(Envs) /\ Resolved(envs) \in Nat
      /\ open \in Seq(Nat) /\ open # <<>> /\ Cur = Last(open) /\ Cur \in DOMAIN nodes
      /\ Chain(nodes, open)
  BY CurFacts, ResolvedIsNat DEF IInv, TypeOK
<1>2. /\ a \in Nodes /\ a.kind = nodes[Cur].kind /\ a.up = nodes[Cur].up
      /\ a.target = nodes[Cur].target /\ a.header = nodes[Cur].header /\ a.decl = Resolved(envs)
  BY <1>1 DEF Nodes
<1>3. nodes' = [nodes EXCEPT ![Cur] = a]
  BY <1>1
<1> HIDE DEF a
<1>4. nodes' \in Seq(Nodes) /\ Len(nodes') = Len(nodes) /\ Kept(nodes, nodes')
  BY <1>1, <1>2, <1>3, Touches
<1>5. \A m \in DOMAIN nodes : nodes'[m] = IF m = Cur THEN a ELSE nodes[m]
  BY <1>1, <1>3
<1>6. Headers(nodes, nodes') /\ \A m \in DOMAIN nodes : m # Cur => nodes'[m].decl = nodes[m].decl
  BY <1>2, <1>5 DEF Headers
<1>7. /\ DOMAIN nodes' = DOMAIN nodes /\ Higher(nodes')
      /\ Nested(nodes', open) /\ Grounded(nodes') /\ Headed(nodes')
  BY <1>4, <1>6, StaysPut
<1>8. PICK ss \in Seq(Nat) : Holds(nodes', open, ss, Scoped) /\ Tabled(nodes', ss, envs)
  BY <1>4, <1>6, StaysPut DEF Tables
<1>9. AroundIn(nodes', Cur) \cup {Cur} = Range(open)
  <2>1. Len(open) \in DOMAIN open /\ open[Len(open)] = Cur /\ Cur \in Range(open)
    BY <1>1 DEF Last, Range
  <2>2. AroundIn(nodes', Cur) = AroundIn(nodes, Cur)
    BY <1>1, <1>4, <1>7, AroundKept
  <2>3. AroundIn(nodes, Cur) = Range(Front(open))
    BY <1>1, OpenAround
  <2> QED BY <2>1, <2>2, <2>3, OuterOpen
<1>10. NameOK(nodes', Cur)
  <2>1. nodes'[Cur].kind = "do" /\ nodes'[Cur].decl = Resolved(envs)
    BY <1>1, <1>2, <1>5
  <2>2. \A d \in DOMAIN nodes' : DeclaresIn(nodes', d) => nodes'[ScopeIn(nodes', d)].kind \in Scoped
    <3>1. \A n \in DOMAIN nodes' : nodes'[n].up = Null => nodes'[n].kind = "block"
      BY <1>4, <1>7 DEF IInv, Rooted, Kept
    <3> QED BY <1>4, <1>7, <3>1, ScopeFacts
  <2>3. \A d \in DOMAIN nodes' : d <= Cur \/ Cur \in AroundIn(nodes', d)
    <3>1. Len(open) \in DOMAIN open /\ open[Len(open)] = Cur
      BY <1>1 DEF Last
    <3>2. \A d \in DOMAIN nodes' : Cur < d => Cur \in AroundIn(nodes', d)
      BY <1>7, <3>1 DEF Nested
    <3>3. Cur \in Nat /\ \A d \in DOMAIN nodes' : d \in Nat
      BY <1>1, <1>4
    <3>4. \A d, c \in Nat : d <= c \/ c < d
      OBVIOUS
    <3> QED BY <3>2, <3>3, <3>4
  <2>4. Increasing(ss) /\ Range(ss) = {m \in AroundIn(nodes', Cur) \cup {Cur} : nodes'[m].kind \in Scoped}
    BY <1>8, <1>9 DEF Holds
  <2> QED BY <1>1, <1>4, <1>7, <1>8, <2>1, <2>2, <2>3, <2>4, Resolution
<1> QED BY <1>4, <1>6, <1>10

-----------------------------------------------------------------------------
(***************************************************************************)
(* Every procedure of the parser keeps the names resolved.                 *)
(***************************************************************************)
LEMMA NodeIs ==
  ASSUME NEW k \in StatementKinds, NEW p \in Nat
  PROVE  /\ Node(k, p) \in Nodes /\ Node(k, p).kind = k /\ Node(k, p).up = p
         /\ ~Node(k, p).header.init /\ Node(k, p).decl = 0
         /\ \A d \in Nat : LET g == [Node(k, p) EXCEPT !.decl = d]
                           IN  g \in Nodes /\ g.kind = k /\ g.up = p /\ ~g.header.init /\ g.decl = d
         /\ \A t \in Nat : LET g == [Node(k, p) EXCEPT !.target = t]
                           IN  g \in Nodes /\ g.kind = k /\ g.up = p /\ ~g.header.init /\ g.decl = 0
         /\ \A v \in CaseValues : LET g == [Node(k, p) EXCEPT !.val = v]
                           IN  g \in Nodes /\ g.kind = k /\ g.up = p /\ ~g.header.init /\ g.decl = 0
<1>1. /\ Node(k, p) \in Nodes /\ Node(k, p).kind = k /\ Node(k, p).up = p
      /\ ~Node(k, p).header.init /\ Node(k, p).decl = 0
  BY NodeMade DEF Node, NoHeader
<1> DEFINE n == Node(k, p)
<1> HIDE DEF n
<1>2. ASSUME NEW d \in Nat, NEW g, g = [n EXCEPT !.decl = d]
      PROVE  g \in Nodes /\ g.kind = n.kind /\ g.up = n.up /\ g.header = n.header /\ g.decl = d
  BY <1>1, <1>2 DEF Nodes, n
<1>3. ASSUME NEW t \in Nat, NEW g, g = [n EXCEPT !.target = t]
      PROVE  g \in Nodes /\ g.kind = n.kind /\ g.up = n.up /\ g.header = n.header /\ g.decl = n.decl
  BY <1>1, <1>3 DEF Nodes, n
<1>4. ASSUME NEW v \in CaseValues, NEW g, g = [n EXCEPT !.val = v]
      PROVE  g \in Nodes /\ g.kind = n.kind /\ g.up = n.up /\ g.header = n.header /\ g.decl = n.decl
  BY <1>1, <1>4 DEF Nodes, n
<1> QED BY <1>1, <1>2, <1>3, <1>4 DEF n

\* A statement that neither declares x nor opens a scope.
Plain(f) ==
  /\ f \in Nodes /\ f.up = Cur /\ ~f.header.init
  /\ f.kind \notin Scoped /\ f.kind # "int"
  /\ f.decl = 0 \/ (f.decl = Resolved(envs) /\ f.kind # "do")

LEMMA PlainMakes ==
  ASSUME IInv, NInv, status = "run", NEW f, Plain(f), Leaf(f) \/ Compound(f), envs' = envs
  PROVE  NInv'
<1>1. Add(f) /\ (open' = open \/ open' = Append(open, New))
  BY DEF Leaf, Compound
<1>2. Made(f) /\ envs \in Seq(Envs)
  BY <1>1, MakesOne DEF Plain, IInv, TypeOK
<1>3. Tables(nodes', Append(open, New), envs')
  BY <1>2, TablesPlain DEF Plain
<1> QED BY <1>1, <1>2, <1>3, MadeKeeps DEF Plain

\* The statements made from Node.
LEMMA PlainNodes ==
  ASSUME IInv, status = "run", NEW k \in StatementKinds, k \notin Scoped, k # "int"
  PROVE  /\ Plain(Node(k, Cur))
         /\ k # "do" => Plain([Node(k, Cur) EXCEPT !.decl = Resolved(envs)])
         /\ \A t \in Nat : Plain([Node(k, Cur) EXCEPT !.target = t])
         /\ \A v \in CaseValues : Plain([Node(k, Cur) EXCEPT !.val = v])
<1>1. Cur \in Nat /\ Resolved(envs) \in Nat
  BY CurFacts, ResolvedIsNat DEF IInv, TypeOK
<1> QED BY <1>1, NodeIs DEF Plain

LEMMA SetNames ==
  ASSUME IInv, NInv, NEW n \in DOMAIN nodes, NEW a \in Nodes,
         a.kind = nodes[n].kind, a.up = nodes[n].up, a.target = nodes[n].target,
         a.header = nodes[n].header, a.decl = nodes[n].decl, nodes' = [nodes EXCEPT ![n] = a]
  PROVE  /\ nodes' \in Seq(Nodes) /\ Len(nodes') = Len(nodes) /\ Kept(nodes, nodes')
         /\ Headers(nodes, nodes') /\ \A m \in DOMAIN nodes : nodes'[m].decl = nodes[m].decl
<1>1. nodes' \in Seq(Nodes) /\ Len(nodes') = Len(nodes) /\ Kept(nodes, nodes')
  BY Touches
<1>2. \A m \in DOMAIN nodes : nodes'[m] = IF m = n THEN a ELSE nodes[m]
  BY DEF IInv, TypeOK
<1> QED BY <1>1, <1>2 DEF Headers

LEMMA KindsOf ==
  /\ {"x", "int", "if", "for", "while", "do", "switch", "case", "default", "break", "continue",
      "return", "block"} \subseteq StatementKinds
  /\ {"x", "int", "if", "while", "do", "switch", "case", "default", "break", "continue",
      "return"} \cap Scoped = {}
BY DEF StatementKinds, StatementTokens, Scoped

LEMMA NullNames == ASSUME IInv, NInv, NullStmt PROVE NInv'
<1>1. status = "run" /\ Cur \in DOMAIN nodes /\ nodes \in Seq(Nodes)
  BY CurFacts DEF NullStmt, Starts, IInv, TypeOK
<1>2. open' = open /\ envs' = envs
  BY DEF NullStmt
<1>3. CASE nodes' = nodes
  BY <1>2, <1>3, ExitNames
<1>4. CASE nodes' = [nodes EXCEPT ![Cur].kids = Append(@, Null)]
  <2> DEFINE a == [nodes[Cur] EXCEPT !.kids = Append(nodes[Cur].kids, Null)]
  <2>1. nodes[Cur] \in Nodes /\ Append(nodes[Cur].kids, Null) \in Seq(Nat)
    BY <1>1, NodeFields, AppendProperties DEF Null
  <2>2. /\ a \in Nodes /\ a.kind = nodes[Cur].kind /\ a.up = nodes[Cur].up
        /\ a.target = nodes[Cur].target /\ a.header = nodes[Cur].header /\ a.decl = nodes[Cur].decl
    BY <2>1 DEF Nodes
  <2>3. nodes' = [nodes EXCEPT ![Cur] = a]
    BY <1>1, <1>4
  <2> HIDE DEF a
  <2> QED BY <1>1, <1>2, <2>2, <2>3, SetNames, SameNames
<1> QED BY <1>3, <1>4 DEF NullStmt

LEMMA ExitsNames == ASSUME IInv, NInv, NEW s, Exit(s) PROVE NInv'
BY ExitNames DEF Exit, parserVars

LEMMA DeclareNames == ASSUME IInv, NInv, ParseDeclareStmt PROVE NInv'
<1>1. status = "run" /\ envs \in Seq(Envs) /\ envs # <<>> /\ Cur \in Nat /\ New \in Nat
  BY CurFacts DEF ParseDeclareStmt, Starts, IInv, TypeOK
<1>2. CASE FindObjSymbolInCurScope(envs, x) # NoSymbol
  BY <1>2, ExitsNames DEF ParseDeclareStmt
<1>3. CASE FindObjSymbolInCurScope(envs, x) = NoSymbol
  <2> DEFINE f == [Node("int", Cur) EXCEPT !.decl = New]
  <2>1. Leaf(f) /\ envs' = AddObjSymbol(envs, x, Symbol(New))
    BY <1>3 DEF ParseDeclareStmt
  <2>2. f \in Nodes /\ f.kind = "int" /\ f.up = Cur /\ ~f.header.init /\ f.decl = New
    BY <1>1, NodeIs, KindsOf
  <2>3. envs[Len(envs)].obj[x].kind = "none"
    BY <1>3 DEF FindObjSymbolInCurScope, NoSymbol
  <2> HIDE DEF f
  <2>4. Add(f) /\ open' = open
    BY <2>1 DEF Leaf
  <2>5. Made(f)
    BY <1>1, <2>2, <2>4, MakesOne
  <2>6. Tables(nodes', Append(open, New), envs') /\ Resolved(envs') = New
    BY <1>1, <2>1, <2>2, <2>3, <2>5, TablesInt
  <2>7. envs' \in Seq(Envs)
    BY <1>1, <2>1, SymbolMade, AddsObject
  <2> QED BY <1>1, <2>2, <2>4, <2>6, <2>7, KindsOf, MadeKeeps
<1> QED BY <1>2, <1>3

LEMMA ExprNames == ASSUME IInv, NInv, ParseExprStmt PROVE NInv'
<1>1. status = "run"
  BY DEF ParseExprStmt, Starts
<1>2. Plain([Node("x", Cur) EXCEPT !.decl = Resolved(envs)])
  BY <1>1, KindsOf, PlainNodes
<1>3. CASE Leaf([Node("x", Cur) EXCEPT !.decl = Resolved(envs)]) /\ envs' = envs
  BY <1>1, <1>2, <1>3, PlainMakes
<1>4. CASE Exit("syntax")
  BY <1>4, ExitsNames
<1> QED BY <1>3, <1>4 DEF ParseExprStmt

LEMMA IfNames == ASSUME IInv, NInv, ParseIfStmt PROVE NInv'
<1>1. status = "run" /\ Cur \in DOMAIN nodes /\ nodes \in Seq(Nodes)
  BY CurFacts DEF ParseIfStmt, Starts, Finishes, IInv, TypeOK
<1>2. Plain([Node("if", Cur) EXCEPT !.decl = Resolved(envs)])
  BY <1>1, KindsOf, PlainNodes
<1>3. CASE Compound([Node("if", Cur) EXCEPT !.decl = Resolved(envs)]) /\ envs' = envs
  BY <1>1, <1>2, <1>3, PlainMakes
<1>4. CASE nodes' = [nodes EXCEPT ![Cur].els = TRUE] /\ open' = open /\ envs' = envs
  <2> DEFINE a == [nodes[Cur] EXCEPT !.els = TRUE]
  <2>1. nodes[Cur] \in Nodes
    BY <1>1, NodeFields
  <2>2. /\ a \in Nodes /\ a.kind = nodes[Cur].kind /\ a.up = nodes[Cur].up
        /\ a.target = nodes[Cur].target /\ a.header = nodes[Cur].header /\ a.decl = nodes[Cur].decl
    BY <2>1 DEF Nodes
  <2>3. nodes' = [nodes EXCEPT ![Cur] = a]
    BY <1>1, <1>4
  <2> HIDE DEF a
  <2> QED BY <1>1, <1>4, <2>2, <2>3, SetNames, SameNames
<1>5. CASE Finishes({"if"}) /\ Close /\ nodes' = nodes /\ envs' = envs
  BY <1>1, <1>5, KindsOf, PlainClosesNames DEF Finishes, Popped
<1> QED BY <1>3, <1>4, <1>5 DEF ParseIfStmt

\* The tables u are e with an empty one on top.
EmptyOn(e, u) ==
  /\ u \in Seq(Envs) /\ Len(u) = Len(e) + 1
  /\ \A i \in 1..Len(e) : u[i] = e[i]
  /\ u[Len(u)].obj[x].kind = "none"

LEMMA EntersEmpty ==
  ASSUME NEW e \in Seq(Envs)
  PROVE  EmptyOn(e, EnterScope(e))
<1>1. EmptyEnv \in Envs /\ EmptyEnv.obj[x].kind = "none"
  BY XIsName DEF EmptyEnv, Envs, NoSymbol, Symbols, Shapes, Obj, NoRecord
<1>2. \A y \in Envs : /\ Append(e, y) \in Seq(Envs) /\ Len(Append(e, y)) = Len(e) + 1
                      /\ Append(e, y)[Len(e) + 1] = y
                      /\ \A i \in 1..Len(e) : Append(e, y)[i] = e[i]
  BY AppendProperties
<1> QED BY <1>1, <1>2 DEF EmptyOn, EnterScope

LEMMA BlockNames == ASSUME IInv, NInv, ParseBlockStmt PROVE NInv'
<1>1. status = "run" /\ envs \in Seq(Envs) /\ envs # <<>> /\ Cur \in Nat
  BY CurFacts DEF ParseBlockStmt, Starts, Finishes, IInv, TypeOK
<1>2. CASE Compound(Node("block", Cur)) /\ envs' = EnterScope(envs)
  <2> DEFINE f == Node("block", Cur)
  <2>1. f \in Nodes /\ f.kind = "block" /\ f.up = Cur /\ ~f.header.init /\ f.decl = 0
    BY <1>1, NodeIs, KindsOf
  <2> HIDE DEF f
  <2>2. Add(f) /\ open' = Append(open, New) /\ envs' = EnterScope(envs)
    BY <1>2 DEF Compound, f
  <2>3. Made(f)
    BY <1>1, <2>1, <2>2, MakesOne
  <2>4. EmptyOn(envs, envs')
    BY <1>1, <2>2, EntersEmpty
  <2>5. Tables(nodes', Append(open, New), envs')
    BY <1>1, <2>1, <2>3, <2>4, TablesScope DEF EmptyOn, Scoped
  <2> QED BY <1>1, <2>1, <2>2, <2>4, <2>5, MadeKeeps DEF EmptyOn
<1>3. CASE /\ Finishes({"block"}) /\ Close /\ nodes' = nodes
           /\ envs' = ExitScope(envs)
  BY <1>1, <1>3, PlainClosesNames DEF Finishes, Popped, Scoped, ExitScope
<1> QED BY <1>2, <1>3 DEF ParseBlockStmt

LEMMA ForNames == ASSUME IInv, NInv, ParseForStmt PROVE NInv'
<1>1. status = "run" /\ envs \in Seq(Envs) /\ envs # <<>> /\ Cur \in Nat /\ New \in Nat
  BY CurFacts DEF ParseForStmt, Starts, Finishes, IInv, TypeOK
<1>2. ASSUME NEW s \in ForShapes,
             envs' = IF s.init THEN AddObjSymbol(EnterScope(envs), x, Symbol(New))
                     ELSE EnterScope(envs),
             Compound([Node("for", Cur) EXCEPT !.header = s, !.decl = Resolved(envs')])
      PROVE  NInv'
  <2> DEFINE f == [Node("for", Cur) EXCEPT !.header = s, !.decl = Resolved(envs')]
             e == EnterScope(envs)
  <2>1. EmptyOn(envs, e)
    BY <1>1, EntersEmpty
  <2>2. envs' = IF s.init THEN AddObjSymbol(e, x, Symbol(New)) ELSE e
    BY <1>2
  <2> HIDE DEF e
  <2>3. /\ envs' \in Seq(Envs) /\ Len(envs') = Len(envs) + 1
        /\ \A i \in 1..Len(envs) : envs'[i] = envs[i]
        /\ IF s.init THEN envs'[Len(envs')].obj[x].kind # "none" /\ envs'[Len(envs')].obj[x].at = New
           ELSE envs'[Len(envs')].obj[x].kind = "none"
    <3>1. CASE ~s.init
      BY <2>1, <2>2, <3>1 DEF EmptyOn
    <3>2. CASE s.init
      <4>1. e \in Seq(Envs) /\ Len(e) = Len(envs) + 1 /\ e # <<>> /\ Len(envs) \in Nat
        BY <1>1, <2>1 DEF EmptyOn
      <4>2. e[Len(e)].obj[x].kind = "none"
        BY <2>1 DEF EmptyOn
      <4>3. \A n \in Nat : \A u : u = AddObjSymbol(e, x, Symbol(n)) =>
              /\ u \in Seq(Envs) /\ Len(u) = Len(e)
              /\ u[Len(e)].obj[x].kind # "none" /\ u[Len(e)].obj[x].at = n
              /\ \A i \in 1..Len(e) : i # Len(e) => u[i] = e[i]
        BY <4>1, <4>2, EntersName
      <4>4. /\ envs' \in Seq(Envs) /\ Len(envs') = Len(e)
            /\ envs'[Len(e)].obj[x].kind # "none" /\ envs'[Len(e)].obj[x].at = New
            /\ \A i \in 1..Len(e) : i # Len(e) => envs'[i] = e[i]
        BY <1>1, <2>2, <3>2, <4>3
      <4>5. \A i \in 1..Len(envs) : i \in 1..Len(e) /\ i # Len(e)
        BY <4>1
      <4>6. \A i \in 1..Len(envs) : envs'[i] = envs[i]
        BY <2>1, <4>4, <4>5 DEF EmptyOn
      <4> QED BY <3>2, <4>1, <4>4, <4>6
    <3> QED BY <3>1, <3>2
  <2>4. /\ f \in Nodes /\ f.kind = "for" /\ f.up = Cur /\ f.header = s
        /\ f.decl = Resolved(envs')
    <3>1. s \in [init : BOOLEAN, cond : BOOLEAN, inc : BOOLEAN]
      BY ForShapesAssumption
    <3>2. Resolved(envs') \in Nat
      BY <2>3, ResolvedIsNat
    <3>3. Node("for", Cur) \in Nodes /\ Node("for", Cur).kind = "for" /\ Node("for", Cur).up = Cur
      BY <1>1, NodeIs, KindsOf
    <3> QED BY <3>1, <3>2, <3>3 DEF Nodes
  <2>5. Add(f) /\ open' = Append(open, New)
    BY <1>2 DEF Compound
  <2> HIDE DEF f
  <2>6. Made(f)
    BY <1>1, <2>4, <2>5, MakesOne
  <2>7. Tables(nodes', Append(open, New), envs')
    BY <1>1, <2>3, <2>4, <2>6, TablesScope DEF Scoped
  <2> QED BY <1>1, <2>3, <2>4, <2>5, <2>7, MadeKeeps
<1>3. CASE Finishes({"for"}) /\ Close /\ nodes' = nodes /\ envs' = ExitScope(envs)
  BY <1>1, <1>3, PlainClosesNames DEF Finishes, Popped, Scoped, ExitScope
<1> QED BY <1>2, <1>3 DEF ParseForStmt

LEMMA WhileNames == ASSUME IInv, NInv, ParseWhileStmt PROVE NInv'
<1>1. status = "run"
  BY DEF ParseWhileStmt, Starts, Finishes
<1>2. Plain([Node("while", Cur) EXCEPT !.decl = Resolved(envs)])
  BY <1>1, KindsOf, PlainNodes
<1>3. CASE Compound([Node("while", Cur) EXCEPT !.decl = Resolved(envs)]) /\ envs' = envs
  BY <1>1, <1>2, <1>3, PlainMakes
<1>4. CASE Finishes({"while"}) /\ Close /\ nodes' = nodes /\ envs' = envs
  BY <1>1, <1>4, KindsOf, PlainClosesNames DEF Finishes, Popped
<1> QED BY <1>3, <1>4 DEF ParseWhileStmt

LEMMA DoWhileNames == ASSUME IInv, NInv, ParseDoWhileStmt PROVE NInv'
<1>1. status = "run"
  BY DEF ParseDoWhileStmt, Starts, Finishes
<1>2. Plain(Node("do", Cur))
  BY <1>1, KindsOf, PlainNodes
<1>3. CASE Compound(Node("do", Cur)) /\ envs' = envs
  BY <1>1, <1>2, <1>3, PlainMakes
<1>4. CASE /\ Finishes({"do"}) /\ Close /\ envs' = envs
           /\ nodes' = [nodes EXCEPT ![Cur].decl = Resolved(envs)]
  <2>1. nodes[Cur].kind = "do"
    BY <1>4 DEF Finishes
  <2>2. envs' = Popped(envs, "do", Scoped)
    BY <1>4, KindsOf DEF Popped
  <2> QED BY <1>1, <1>4, <2>1, <2>2, DoResolves, ClosesNames
<1>5. CASE Exit("syntax")
  BY <1>5, ExitsNames
<1> QED BY <1>3, <1>4, <1>5 DEF ParseDoWhileStmt

LEMMA SwitchNames == ASSUME IInv, NInv, ParseSwitchStmt PROVE NInv'
<1>1. status = "run"
  BY DEF ParseSwitchStmt, Starts, Finishes
<1>2. Plain([Node("switch", Cur) EXCEPT !.decl = Resolved(envs)])
  BY <1>1, KindsOf, PlainNodes
<1>3. CASE Compound([Node("switch", Cur) EXCEPT !.decl = Resolved(envs)]) /\ envs' = envs
  BY <1>1, <1>2, <1>3, PlainMakes
<1>4. CASE Finishes({"switch"}) /\ Close /\ nodes' = nodes /\ envs' = envs
  BY <1>1, <1>4, KindsOf, PlainClosesNames DEF Finishes, Popped
<1> QED BY <1>3, <1>4 DEF ParseSwitchStmt

LEMMA CaseNames == ASSUME IInv, NInv, ParseCaseStmt PROVE NInv'
<1>1. status = "run"
  BY DEF ParseCaseStmt, Starts, Finishes
<1>2. ASSUME NEW v \in CaseValues, Compound([Node("case", Cur) EXCEPT !.val = v]), envs' = envs
      PROVE  NInv'
  <2>1. Plain([Node("case", Cur) EXCEPT !.val = v])
    BY <1>1, KindsOf, PlainNodes
  <2> QED BY <1>1, <1>2, <2>1, PlainMakes
<1>3. CASE Finishes({"case"}) /\ Close /\ nodes' = nodes /\ envs' = envs
  BY <1>1, <1>3, KindsOf, PlainClosesNames DEF Finishes, Popped
<1>4. CASE Exit("case")
  BY <1>4, ExitsNames
<1> QED BY <1>2, <1>3, <1>4 DEF ParseCaseStmt

LEMMA DefaultNames == ASSUME IInv, NInv, ParseDefaultStmt PROVE NInv'
<1>1. status = "run" /\ Cur \in Nat /\ Cur \in DOMAIN nodes /\ nodes \in Seq(Nodes)
  BY CurFacts DEF ParseDefaultStmt, Starts, Finishes, IInv, TypeOK
<1>2. CASE /\ switchNodes # <<>> /\ envs' = envs
           /\ Compound([Node("default", Cur) EXCEPT !.target = Last(switchNodes)])
  <2>1. Last(switchNodes) \in Nat
    BY <1>2, LastIncreasing DEF IInv, TypeOK, StacksMatch, Holds
  <2>2. Plain([Node("default", Cur) EXCEPT !.target = Last(switchNodes)])
    BY <1>1, <2>1, KindsOf, PlainNodes
  <2> QED BY <1>1, <1>2, <2>2, PlainMakes
<1>3. CASE /\ Finishes({"default"}) /\ Close /\ envs' = envs
           /\ nodes' = [nodes EXCEPT ![nodes[Cur].target].dflt = Cur]
  <2> DEFINE n == nodes[Cur].target
             a == [nodes[n] EXCEPT !.dflt = Cur]
  <2>1. nodes[Cur].kind = "default"
    BY <1>3 DEF Finishes
  <2>2. n \in DOMAIN nodes
    <3>1. LeavesInnermost(nodes, Cur, {"switch"})
      BY <1>1, <2>1, TargetsIn DEF IInv, JumpOK
    <3> QED BY <3>1 DEF LeavesInnermost, IsInnermost, AroundIn
  <2>3. nodes' = [nodes EXCEPT ![n] = a] /\ nodes[n] \in Nodes
    BY <1>1, <1>3, <2>2
  <2> HIDE DEF n
  <2>4. /\ a \in Nodes /\ a.kind = nodes[n].kind /\ a.up = nodes[n].up
        /\ a.target = nodes[n].target /\ a.header = nodes[n].header /\ a.decl = nodes[n].decl
    BY <1>1, <2>3 DEF Nodes
  <2> HIDE DEF a
  <2>5. /\ nodes' \in Seq(Nodes) /\ Len(nodes') = Len(nodes) /\ Kept(nodes, nodes')
        /\ Headers(nodes, nodes') /\ \A m \in DOMAIN nodes : nodes'[m].decl = nodes[m].decl
    BY <2>2, <2>3, <2>4, SetNames
  <2>6. envs' = Popped(envs, "default", Scoped)
    BY <1>3, KindsOf DEF Popped
  <2> QED BY <1>1, <1>3, <2>1, <2>5, <2>6, ClosesNames
<1>4. CASE Exit("default") \/ Exit("defaults")
  BY <1>4, ExitsNames
<1> QED BY <1>2, <1>3, <1>4 DEF ParseDefaultStmt

\* A jump is made with the target s on top of its stack.
LEMMA JumpNames ==
  ASSUME IInv, NInv, status = "run", NEW k \in {"break", "continue"}, NEW s \in Seq(Nat), s # <<>>,
         NEW K, Holds(nodes, open, s, K), Leaf([Node(k, Cur) EXCEPT !.target = Last(s)]), envs' = envs
  PROVE  NInv'
<1>1. Last(s) \in Nat
  BY LastIncreasing DEF Holds
<1>2. k \in StatementKinds /\ k \notin Scoped /\ k # "int"
  BY KindsOf
<1>3. Plain([Node(k, Cur) EXCEPT !.target = Last(s)])
  BY <1>1, <1>2, PlainNodes
<1> QED BY <1>3, PlainMakes

LEMMA BreakNames == ASSUME IInv, NInv, ParseBreakStmt PROVE NInv'
<1>1. status = "run" /\ breakNodes \in Seq(Nat) /\ Holds(nodes, open, breakNodes, Breakable)
  BY DEF ParseBreakStmt, Starts, IInv, TypeOK, StacksMatch
<1> QED BY <1>1, JumpNames, ExitsNames DEF ParseBreakStmt

LEMMA ContinueNames == ASSUME IInv, NInv, ParseContinueStmt PROVE NInv'
<1>1. status = "run" /\ continueNodes \in Seq(Nat) /\ Holds(nodes, open, continueNodes, Loops)
  BY DEF ParseContinueStmt, Starts, IInv, TypeOK, StacksMatch
<1> QED BY <1>1, JumpNames, ExitsNames DEF ParseContinueStmt

LEMMA ReturnNames == ASSUME IInv, NInv, ParseReturnStmt PROVE NInv'
<1>1. status = "run"
  BY DEF ParseReturnStmt, Starts
<1>2. Plain(Node("return", Cur))
  BY <1>1, KindsOf, PlainNodes
<1> QED BY <1>1, <1>2, PlainMakes DEF ParseReturnStmt

-----------------------------------------------------------------------------
LEMMA InitNames == ParseInit => NInv
<1> SUFFICES ASSUME ParseInit PROVE NInv
  OBVIOUS
<1> DEFINE body == Node("block", Null)
<1>1. body \in Nodes /\ body.kind = "block" /\ ~body.header.init /\ body.decl = 0 /\ body.up = Null
  BY NodeIs, KindsOf DEF Null
<1>2. nodes = <<body>> /\ open = <<1>>
  BY DEF ParseInit
<1> HIDE DEF body
<1>3. DOMAIN nodes = {1} /\ nodes[1] = body /\ DOMAIN open = {1} /\ open[1] = 1
  BY <1>2
<1>4. Nested(nodes, open) /\ Waits(nodes, open) /\ Grounded(nodes) /\ Headed(nodes)
  BY <1>1, <1>3 DEF Nested, Waits, Grounded, Headed
<1>5. \A n \in DOMAIN nodes : NameOK(nodes, n)
  BY <1>1, <1>3 DEF NameOK
<1>6. Tables(nodes, open, envs)
  <2> DEFINE e == AddObjSymbol(RootScope, x, Symbol(Global))
  <2>1. /\ RootScope \in Seq(Envs) /\ RootScope # <<>> /\ Len(RootScope) = 1
        /\ RootScope[Len(RootScope)].obj[x].kind = "none"
    <3>1. EmptyEnv \in Envs /\ EmptyEnv.obj[x].kind = "none"
      BY XIsName DEF EmptyEnv, Envs, NoSymbol, Symbols, Shapes, Obj, NoRecord
    <3> QED BY <3>1 DEF RootScope
  <2>2. e \in Seq(Envs) /\ Len(e) = 1 /\ e[1].obj[x].kind # "none" /\ e[1].obj[x].at = Global
    <3>1. Global \in Nat
      BY MaxNodesAssumption DEF Global
    <3> QED BY <2>1, <3>1, EntersName
  <2>3. envs = EnterScope(e)
    BY DEF ParseInit
  <2> HIDE DEF e
  <2>4. EmptyOn(e, envs)
    BY <2>2, <2>3, EntersEmpty
  <2>5. Holds(nodes, open, <<1>>, Scoped)
    <3>1. Range(open) = {1} /\ Range(<<1>>) = {1}
      BY <1>2, <1>3 DEF Range
    <3> QED BY <1>1, <1>3, <3>1 DEF Holds, Increasing, Scoped
  <2>6. Entered(nodes, 1, envs[2].obj[x])
    <3>1. \A d \in DOMAIN nodes : ~DeclaresIn(nodes, d)
      BY <1>1, <1>3 DEF DeclaresIn
    <3>2. envs[2].obj[x].kind = "none"
      BY <2>2, <2>4 DEF EmptyOn
    <3> QED BY <3>1, <3>2 DEF Entered
  <2>7. Tabled(nodes, <<1>>, envs)
    BY <2>2, <2>4, <2>6 DEF Tabled, EmptyOn
  <2> QED BY <2>5, <2>7 DEF Tables
<1> QED BY <1>4, <1>5, <1>6 DEF NInv

LEMMA StepNames == IInv /\ NInv /\ [ParseStmt]_<<parserVars, status>> => NInv'
<1> SUFFICES ASSUME IInv, NInv, [ParseStmt]_<<parserVars, status>> PROVE NInv'
  OBVIOUS
<1>1. CASE ParseStmt
  BY <1>1, NullNames, DeclareNames, IfNames, BlockNames, ForNames, BreakNames, ContinueNames,
     ReturnNames, WhileNames, DoWhileNames, SwitchNames, CaseNames, DefaultNames, ExprNames,
     ExitsNames DEF ParseStmt, Beyond
<1>2. CASE UNCHANGED <<parserVars, status>>
  BY <1>2, ExitNames DEF parserVars
<1> QED BY <1>1, <1>2

\* In a body of any size every use of a name is resolved to the declaration whose scope the
\* text says it is in: scopes opened and closed on the way give block structure
\* (scope.cc:15, sema.cc:31).
THEOREM UsesAreLexical == ParserSpec => []NamesAreLexical
<1>1. ParseInit => IInv /\ NInv
  BY InitHolds, InitNames
<1>2. IInv /\ NInv /\ [ParseStmt]_<<parserVars, status>> => IInv' /\ NInv'
  BY StepKeeps, StepNames
<1>3. NInv => NamesAreLexical
  BY NamesIn DEF NInv
<1> QED BY <1>1, <1>2, <1>3, PTL DEF ParserSpec
=============================================================================
