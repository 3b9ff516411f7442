----------------------------- MODULE StmtParser -----------------------------
(***************************************************************************)
(* The statement half of the parser (parser.cc, ParseStmt and below) with  *)
(* the scopes Sema keeps for it.  It builds the syntax tree of one         *)
(* function body.                                                          *)
(*                                                                         *)
(* The recursive descent is the stack open of the statements being parsed. *)
(* A token here is the keyword that begins a statement together with its   *)
(* header, "if (x)" or "case 1:", so that reading it resolves the names of *)
(* the header; every expression is the one variable x.                     *)
(***************************************************************************)
EXTENDS Scope, FiniteSets

CONSTANTS CaseValues,      \* the constants of case labels
          ForShapes,       \* bound: the headers of for (never without cond and inc: see README)
          MayBegin(_, _),  \* bound: after these statements this token may begin another
          MaxNodes         \* bound: statements of a body, the body's own block included

x == CHOOSE n \in Names : TRUE

StatementTokens == {";", "x", "int", "{", "}", "if", "else", "for", "while", "do",
                    "switch", "case", "default", "break", "continue", "return"}

ASSUME NamesAssumption == Names # {}
ASSUME MaxNodesAssumption == MaxNodes \in Nat
ASSUME ForShapesAssumption ==
  /\ ForShapes \subseteq [init : BOOLEAN, cond : BOOLEAN, inc : BOOLEAN]
  /\ \A s \in ForShapes : s.cond \/ s.inc

VARIABLES
  token,          \* Parser::token
  nodes,          \* statements made so far, in text order; 1 is the body
  open,           \* statements whose procedure is active, outermost first
  breakNodes, continueNodes, switchNodes,
  envs,           \* Sema::scope
  status

parserVars == <<token, nodes, open, breakNodes, continueNodes, switchNodes, envs>>

Diagnostics == {"syntax", "redefined", "break", "continue", "case", "default",
                "defaults"}

\* A statement that is only ";" is a null pointer.
Null == 0
\* Where x is declared when no statement declares it.
Global == MaxNodes + 1

NoHeader == [init |-> FALSE, cond |-> FALSE, inc |-> FALSE]

(***************************************************************************)
(* A statement: its parent, its parts in text order, whether "else" was    *)
(* read, the header of a for, the value of a case, the target of a jump,   *)
(* the default of a switch (or 0), and the declaration that Sema found for *)
(* x in its expression (0 before that).                                    *)
(***************************************************************************)
Node(k, p) == [kind |-> k, up |-> p, kids |-> <<>>, els |-> FALSE, header |-> NoHeader,
               val |-> "other", target |-> Null, dflt |-> Null, decl |-> 0]

Cur == open[Len(open)]
New == Len(nodes) + 1
Symbol(n) == [kind |-> "obj", shape |-> Obj, at |-> n]
Resolved(e) == FindObjSymbol(e, x).at

Sequences(n) == nodes[n].kind \in {"block", "case", "default"}

\* The procedure of the innermost open statement is about to call ParseStmt.
Awaits ==
  CASE nodes[Cur].kind = "block" -> token # "}"
    [] nodes[Cur].kind \in {"case", "default"} -> token \notin {"case", "default", "}"}
    [] nodes[Cur].kind = "if" -> Len(nodes[Cur].kids) = (IF nodes[Cur].els THEN 1 ELSE 0)
    [] OTHER -> nodes[Cur].kids = <<>>

\* The next token begins a statement or goes on with an open one.
Kinds(ns) == {ns[n].kind : n \in DOMAIN ns}
Begins(ns, t) == (t # ";" => Len(ns) < MaxNodes) /\ MayBegin(ns, t)
GoesOn(ns, t) == t = "}" \/ (t = "else" /\ "if" \in Kinds(ns)) \/ (t = "while" /\ "do" \in Kinds(ns))
NextToken == token' \in {t \in StatementTokens : Begins(nodes', t) \/ GoesOn(nodes', t)}

Starts(t) == status = "run" /\ Awaits /\ token = t /\ Begins(nodes, t)
Finishes(K) == status = "run" /\ nodes[Cur].kind \in K /\ ~Awaits

Exit(s) == status' = s /\ UNCHANGED parserVars

\* Statement m, made from the record f, becomes the next part of the one that awaits it.
Add(f) == nodes' = Append([nodes EXCEPT ![Cur].kids = Append(@, New)], f)
Leaf(f) == Add(f) /\ NextToken /\ UNCHANGED open
Compound(f) == Add(f) /\ NextToken /\ open' = Append(open, New)
Close == open' = Front(open)

JumpVars == <<breakNodes, continueNodes, switchNodes>>
-----------------------------------------------------------------------------
\* A sequence drops a null statement, any other statement keeps it as its part.
NullStmt ==
  /\ Starts(";")
  /\ nodes' = IF Sequences(Cur) THEN nodes ELSE [nodes EXCEPT ![Cur].kids = Append(@, Null)]
  /\ NextToken
  /\ UNCHANGED <<open, JumpVars, envs, status>>

ParseDeclareStmt ==          \* int x = 0;
  /\ Starts("int")
  /\ IF FindObjSymbolInCurScope(envs, x) # NoSymbol THEN Exit("redefined")
     ELSE /\ envs' = AddObjSymbol(envs, x, Symbol(New))
          /\ Leaf([Node("int", Cur) EXCEPT !.decl = New])
          /\ UNCHANGED <<JumpVars, status>>

ParseExprStmt ==             \* x;
  \/ /\ Starts("x")
     /\ Leaf([Node("x", Cur) EXCEPT !.decl = Resolved(envs)])
     /\ UNCHANGED <<JumpVars, envs, status>>
  \/ /\ status = "run" /\ Awaits /\ token \in {"}", "else"}
     /\ Exit("syntax")

ParseIfStmt ==
  \/ /\ Starts("if")
     /\ Compound([Node("if", Cur) EXCEPT !.decl = Resolved(envs)])
     /\ UNCHANGED <<JumpVars, envs, status>>
  \/ /\ Finishes({"if"})
     /\ token = "else" /\ ~nodes[Cur].els
     /\ nodes' = [nodes EXCEPT ![Cur].els = TRUE]
     /\ NextToken
     /\ UNCHANGED <<open, JumpVars, envs, status>>
  \/ /\ Finishes({"if"})
     /\ token # "else" \/ nodes[Cur].els
     /\ Close
     /\ UNCHANGED <<token, nodes, JumpVars, envs, status>>

ParseBlockStmt ==
  \/ /\ Starts("{")
     /\ Compound(Node("block", Cur))
     /\ envs' = EnterScope(envs)
     /\ UNCHANGED <<JumpVars, status>>
  \/ /\ Finishes({"block"})
     /\ Close
     /\ envs' = ExitScope(envs)
     /\ IF Len(open) = 1 THEN status' = "parsed" /\ UNCHANGED <<token, nodes>>
        ELSE UNCHANGED <<nodes, status>> /\ NextToken
     /\ UNCHANGED JumpVars

\* Fault: the target is left on the stack of break.
F_SwitchStays == switchNodes' = Front(switchNodes) /\ UNCHANGED breakNodes

EnterLoop(n) == /\ breakNodes' = Append(breakNodes, n)
                /\ continueNodes' = Append(continueNodes, n)
LeaveLoop == /\ breakNodes' = Front(breakNodes)
             /\ continueNodes' = Front(continueNodes)

EnterSwitch(n) == /\ breakNodes' = Append(breakNodes, n)
                  /\ switchNodes' = Append(switchNodes, n)
LeaveSwitch == /\ breakNodes' = Front(breakNodes)
               /\ switchNodes' = Front(switchNodes)

ParseForStmt ==
  \/ /\ Starts("for")
     /\ EnterLoop(New)
     /\ \E s \in ForShapes :
          LET inner == IF s.init THEN AddObjSymbol(EnterScope(envs), x, Symbol(New))
                       ELSE EnterScope(envs)
          IN  /\ envs' = inner
              /\ Compound([Node("for", Cur) EXCEPT !.header = s, !.decl = Resolved(inner)])
     /\ UNCHANGED <<switchNodes, status>>
  \/ /\ Finishes({"for"})
     /\ Close
     /\ LeaveLoop
     /\ envs' = ExitScope(envs)
     /\ UNCHANGED <<token, nodes, switchNodes, status>>

ParseWhileStmt ==
  \/ /\ Starts("while")
     /\ EnterLoop(New)
     /\ Compound([Node("while", Cur) EXCEPT !.decl = Resolved(envs)])
     /\ UNCHANGED <<switchNodes, envs, status>>
  \/ /\ Finishes({"while"})
     /\ Close
     /\ LeaveLoop
     /\ UNCHANGED <<token, nodes, switchNodes, envs, status>>

ParseDoWhileStmt ==
  \/ /\ Starts("do")
     /\ EnterLoop(New)
     /\ Compound(Node("do", Cur))
     /\ UNCHANGED <<switchNodes, envs, status>>
  \/ /\ Finishes({"do"})
     /\ IF token # "while" THEN Exit("syntax")
        ELSE /\ nodes' = [nodes EXCEPT ![Cur].decl = Resolved(envs)]
             /\ NextToken
             /\ Close
             /\ LeaveLoop
             /\ UNCHANGED <<switchNodes, envs, status>>

ParseSwitchStmt ==
  \/ /\ Starts("switch")
     /\ EnterSwitch(New)
     /\ Compound([Node("switch", Cur) EXCEPT !.decl = Resolved(envs)])
     /\ UNCHANGED <<continueNodes, envs, status>>
  \/ /\ Finishes({"switch"})
     /\ Close
     /\ LeaveSwitch
     /\ UNCHANGED <<token, nodes, continueNodes, envs, status>>

\* What follows the label, up to the next label or "}", is the label's own part.
ParseCaseStmt ==
  \/ /\ Starts("case")
     /\ IF switchNodes = <<>> THEN Exit("case")
        ELSE /\ \E v \in CaseValues : Compound([Node("case", Cur) EXCEPT !.val = v])
             /\ UNCHANGED <<JumpVars, envs, status>>
  \/ /\ Finishes({"case"})
     /\ Close
     /\ UNCHANGED <<token, nodes, JumpVars, envs, status>>

\* The switch learns of its default only at the end of the default's part.
ParseDefaultStmt ==
  \/ /\ Starts("default")
     /\ IF switchNodes = <<>> THEN Exit("default")
        ELSE IF nodes[Last(switchNodes)].dflt # Null THEN Exit("defaults")
        ELSE /\ Compound([Node("default", Cur) EXCEPT !.target = Last(switchNodes)])
             /\ UNCHANGED <<JumpVars, envs, status>>
  \/ /\ Finishes({"default"})
     /\ nodes' = [nodes EXCEPT ![nodes[Cur].target].dflt = Cur]
     /\ Close
     /\ UNCHANGED <<token, JumpVars, envs, status>>

ParseBreakStmt ==
  /\ Starts("break")
  /\ IF breakNodes = <<>> THEN Exit("break")
     ELSE /\ Leaf([Node("break", Cur) EXCEPT !.target = Last(breakNodes)])
          /\ UNCHANGED <<JumpVars, envs, status>>

ParseContinueStmt ==
  /\ Starts("continue")
  /\ IF continueNodes = <<>> THEN Exit("continue")
     ELSE /\ Leaf([Node("continue", Cur) EXCEPT !.target = Last(continueNodes)])
          /\ UNCHANGED <<JumpVars, envs, status>>

ParseReturnStmt ==           \* return;
  /\ Starts("return")
  /\ Leaf(Node("return", Cur))
  /\ UNCHANGED <<JumpVars, envs, status>>

\* The text is longer than the bound.
Beyond ==
  /\ status = "run" /\ Awaits /\ token = "while" /\ ~Begins(nodes, "while")
  /\ Exit("beyond")

ParseInit ==
  /\ nodes = <<Node("block", Null)>>
  /\ open = <<1>>
  /\ breakNodes = <<>> /\ continueNodes = <<>> /\ switchNodes = <<>>
  /\ envs = EnterScope(AddObjSymbol(RootScope, x, Symbol(Global)))
  /\ token \in {t \in StatementTokens : Begins(nodes, t) \/ GoesOn(nodes, t)}
  /\ status = "run"

ParseStmt ==
  \/ NullStmt \/ ParseDeclareStmt \/ ParseIfStmt \/ ParseBlockStmt \/ ParseForStmt
  \/ ParseBreakStmt \/ ParseContinueStmt \/ ParseReturnStmt \/ ParseWhileStmt
  \/ ParseDoWhileStmt \/ ParseSwitchStmt \/ ParseCaseStmt \/ ParseDefaultStmt
  \/ ParseExprStmt \/ Beyond

\* The parser by itself.
ParserSpec == ParseInit /\ [][ParseStmt]_<<parserVars, status>>

-----------------------------------------------------------------------------
\* The statements around n: n's parent and the parents of those.
Closed(S) == \A m \in S : nodes[m].up \in S \cup {Null}
Around(n) ==
  {m \in DOMAIN nodes :
     \A S \in SUBSET (1..(n - 1)) : nodes[n].up \in S \cup {Null} /\ Closed(S) => m \in S}

Loops == {"for", "while", "do"}
Breakable == Loops \cup {"switch"}
IsInnermost(n, S) == n \in S /\ \A m \in S : m <= n
IsInnermostAround(n, K) == IsInnermost(nodes[n].target, {m \in Around(n) : nodes[m].kind \in K})

\* The jumps found with the three stacks of the parser (parser.cc:790-1075) are those of the
\* text: a break leaves the innermost loop or switch around it, a continue goes round the
\* innermost loop, and a default belongs to the innermost switch.
TargetsAreInnermost ==
  \A n \in DOMAIN nodes :
    /\ nodes[n].kind = "break" => IsInnermostAround(n, Breakable)
    /\ nodes[n].kind = "continue" => IsInnermostAround(n, Loops)
    /\ nodes[n].kind = "default" => IsInnermostAround(n, {"switch"})

\* Beside the scope of the file there is one scope for each open block and each open for, on
\* every path through them (parser.cc:82-110, 850-905), so that none is left over at the end.
OpenScopes == {i \in DOMAIN open : nodes[open[i]].kind \in {"block", "for"}}
ScopesMatch == Len(envs) = Cardinality(OpenScopes) + 1

\* The declarations of x.  The scope of one is the for that makes it, or else the innermost
\* block or for around it; it can be meant by n if n lies in that scope and comes after it,
\* as the condition of a do comes after its body.
Declares(n) == nodes[n].kind = "int" \/ nodes[n].header.init
ScopeOf(d) == IF nodes[d].kind = "for" THEN d
              ELSE Innermost({m \in Around(d) : nodes[m].kind \in {"block", "for"}})
Visible(n) ==
  {d \in DOMAIN nodes :
     /\ Declares(d)
     /\ d <= n \/ (nodes[n].kind = "do" /\ n \in Around(d))
     /\ ScopeOf(d) \in Around(n) \cup {n}}

\* The name resolution of Sema, by scopes opened and closed on the way (scope.cc:15,
\* sema.cc:31), finds what the text says: of the declarations a use can mean the one in the
\* innermost scope, which is the only one there, and the global one when there is none.
NamesAreLexical ==
  \A n \in DOMAIN nodes : nodes[n].decl # 0 =>
    LET d == nodes[n].decl
    IN  IF Visible(n) = {} THEN d = Global
        ELSE /\ d \in Visible(n)
             /\ \A other \in Visible(n) \ {d} : ScopeOf(other) < ScopeOf(d)
=============================================================================
