--------------------------- MODULE DeclParserProps ---------------------------
(***************************************************************************)
(* What the declaration parser of DeclParser promises.                     *)
(***************************************************************************)
EXTENDS DeclParser

Frames ==
  [at : Labels, base : Shapes, rec : Nat, name : Nat, begin : Nat,
   tdef : BOOLEAN, more : BOOLEAN, kind : {"none"} \cup BasicTypes, user : BOOLEAN, size : 0..2,
   depth : Nat \ {0}, mdepth : Nat \ {0}, sdepth : Nat, mark : Seq(Envs), stop : Nat]

Externals == [at : Nat, type : Shapes, body : BOOLEAN]

\* Every variable has its type: the stacks hold what parser.h, sema.h, scope.h and
\* lexer.h declare, none but the lexer's is ever empty, and a token is an index into
\* the text.
TypeOK ==
  /\ text \in Seq(Names \cup Punctuation \cup {"eof"})
  /\ cur \in 1..Len(text) /\ tok \in 1..Len(text)
  /\ saved \in Seq(Nat) /\ \A k \in 1..Len(saved) : saved[k] \in 1..Len(text)
  /\ modes \in Seq({"Normal", "Skip"}) /\ modes # <<>>
  /\ envs \in Seq(Envs) /\ envs # <<>>
  /\ records \in Seq(Nat)
  /\ external \in Seq(Externals)
  /\ stack \in Seq(Frames) /\ stack # <<>>
  /\ ret \in Values
  /\ status \in Statuses

Held(S, l) == IF l \in S THEN 1 ELSE 0

\* How high the three stacks are while the procedure with the frame f runs.
ScopesOf(f) == f.depth + Held(ScopeHeld, f.at)
ModesOf(f) == f.mdepth + Held(SkipHeld, f.at)
StatesOf(f) == f.sdepth + Held(SaveHeld, f.at)

\* On every path, early returns included, a procedure leaves the scope stack, the
\* mode stack and the lexer's state stack as high as it found them, and while it
\* runs each is higher by exactly what it has entered, set and saved itself.
StackDiscipline ==
  /\ \A i \in 1..Len(stack)-1 :
       /\ ScopesOf(stack[i]) = stack[i+1].depth
       /\ ModesOf(stack[i]) = stack[i+1].mdepth
       /\ StatesOf(stack[i]) = stack[i+1].sdepth
  /\ ScopesOf(Top) = Len(envs)
  /\ ModesOf(Top) = Len(modes)
  /\ StatesOf(Top) = Len(saved)

\* IsFunctionDecl and the first reading of "(" declarator ")" are undone: whatever
\* they met on the way, the scopes that were there when they began are unchanged.
SpeculationLeavesNoTrace ==
  \A i \in 1..Len(stack) :
    stack[i].at \in SaveHeld =>
      /\ Len(stack[i].mark) = stack[i].depth
      /\ Len(envs) >= stack[i].depth
      /\ \A k \in 1..stack[i].depth : envs[k] = stack[i].mark[k]

\* The parser's token is always the token the lexer delivered last: RestoreState
\* rewinds the lexer only, and the parser puts its own token back by hand.
TokenFollowsLexer == tok = cur

\* A parenthesised declarator is read twice; when the second reading is over the
\* parser stands at the token where the first one ended (after the suffix), although
\* the second one ran in another mode and declared names on the way.
ReadingsAgree ==
  At("dtor.tail") => tok = Top.stop

\* ParseProgram acts on IsFunctionDecl's reading in Skip mode: a declaration it
\* sends to ParseFunctionDecl turns out to have a function type when it is parsed
\* for real, and the first declarator of one it sends to ParseDeclareStmt does not.
VerdictAgrees ==
  /\ At("fun.decl") => IsFunctionTypeNode(ret.shape)
  /\ At("decl.node") /\ Len(stack) = 2 /\ ~Top.more => ~IsFunctionTypeNode(ret.shape)
  /\ At("decl.typedef") /\ Len(stack) = 2 /\ ~Top.more => ~IsFunctionTypeNode(ret.shape)

\* The syntax tree and the symbol table agree: the name of a declaration handed to
\* the code generator is in the root scope, and only functions come twice.
ExternalsAreDeclared ==
  /\ \A i \in 1..Len(external) :
       LET sym == envs[1].obj[text[external[i].at]]
       IN  sym.kind = "obj" \/ (sym.kind = "typedef" /\ IsFunc(sym.shape))
  /\ \A i \in 1..Len(external), j \in 1..Len(external) :
       i # j /\ text[external[i].at] = text[external[j].at] =>
         IsFunc(envs[1].obj[text[external[i].at]].shape)

\* The scopes that are not there because of a speculative reading: everything below
\* the lowest procedure that will rewind the lexer.
Speculators == {i \in DOMAIN stack : stack[i].at \in SaveHeld}
Settled == IF Speculators = {} THEN Len(envs)
           ELSE stack[CHOOSE i \in Speculators : \A j \in Speculators : i <= j].depth

NameKeys == ({"obj"} \X Names) \cup ({"tag"} \X Tags)
VisibleScope(e) ==
  [k \in NameKeys |-> IF k[1] = "obj" THEN e.obj[k[2]].at ELSE e.tag[k[2]]]

Scoping == INSTANCE LexicalScoping
             WITH Keys <- NameKeys,
                  scopes <- [i \in 1..Settled |-> VisibleScope(envs[i])]

\* The parser implements block-structured scoping: with speculative readings hidden,
\* all it ever does to the symbol tables is to open a scope, close the innermost one
\* and enter a new name in the innermost one.
BlockStructured == Scoping!Spec

\* Every text is parsed to its end, rejected or crashes: the descent never goes
\* round a loop (members, parameters, declarators, statements) without reading on.
Terminates == <>(status # "run")
-----------------------------------------------------------------------------
(***************************************************************************)
(* How much is left to read.  A declaration at file scope is read twice,   *)
(* and so is a parenthesised declarator, in each of those readings again:  *)
(* the work grows by a factor with each token, and each state the lexer    *)
(* has saved owes the reading from there on once more.                     *)
(***************************************************************************)
End == MaxTokens + 3
Work[n \in Nat] == IF n = 0 THEN 32 ELSE 4 * Work[n - 1]

\* The declaration at hand is still to be read, and then to be read again.
ReadTwice == {"program", "isfun", "fun.body"}
Ahead == (IF Top.at \in ReadTwice THEN 3 ELSE 1) * Work[End - cur]

Owed(s) ==
  LET sum[k \in 0..Len(s)] == IF k = 0 THEN 0 ELSE sum[k - 1] + Work[End - s[k] - 1]
  IN  sum[Len(s)]

\* IsFunctionDecl, called by ParseProgram only, reads its first token again as well.
Verdict ==
  IF Len(stack) >= 2 /\ stack[2].at \in {"isfun.spec", "isfun.decl"}
  THEN Work[End - stack[2].begin] ELSE 0

\* Without a token a procedure only goes from a pending call to one of a lower rank,
\* in itself, in one it calls or in the one it returns to.
Rank(l) ==
  CASE l = "suffix" \/ l = "suffix.array" -> 10
    [] l = "dtor.tail" \/ l = "dtor.ident" -> 9
    [] l = "dtor.init" \/ l = "dtor.more" \/ l = "for.exit" -> 8
    [] l \in {"block.loop", "for.body", "struct.member", "param.decl"} -> 7
    [] l \in {"stmt", "struct.members", "verdict", "params", "struct.tag", "for.init"} -> 6
    [] l \in {"decl", "fun", "param", "struct.body"} -> 5
    [] l = "spec" \/ l = "spec.struct" -> 4
    [] l = "spec.loop" -> 3
    [] l \in {"decl.spec", "fun.decl", "fun.body"} -> 2
    [] l \in {"param.spec", "fun.spec", "decl.next", "isfun.spec", "decl.node",
              "decl.typedef", "fun.rest", "program"} -> 1
    [] OTHER -> 0

Remaining ==
  IF status = "run"
  THEN Ahead + Owed(saved) + Verdict + 2 * Rank(Top.at) + Len(stack)
  ELSE 0

\* The descent, speculative readings within speculative readings included, comes to an
\* end: each step leaves less to read, so that no loop of the parser (members,
\* parameters, declarators, statements) goes on without a token and no rewind of the
\* lexer is made for a reading that was not still owed.
StepsDescend == [][Remaining' \in Nat /\ Remaining' < Remaining]_vars
=============================================================================
