----------------------------- MODULE DeclParser -----------------------------
(***************************************************************************)
(* The declaration half of the parser (parser.cc) together with the parts  *)
(* of Sema (sema.cc) and Lexer (lexer.cc) it drives: the symbol-table      *)
(* stack, the mode stack Normal/Skip, and the save/restore stack with      *)
(* which the parser runs ahead over the text and comes back.               *)
(*                                                                         *)
(* The parser is a recursive descent; here its C++ call stack is the       *)
(* variable stack, one frame per active procedure, whose field "at" says   *)
(* which call of the procedure is pending.  A step of the model is the     *)
(* code between two calls (or two tokens) of that descent.                 *)
(*                                                                         *)
(* The text is not fixed in advance: a token is chosen the first time the  *)
(* lexer reaches it and is kept, so that a second pass over it reads the   *)
(* same tokens.  With MayFollow true any sequence over Alphabet turns up.  *)
(***************************************************************************)
EXTENDS Scope, SequencesExt

CONSTANTS Alphabet,        \* the tokens a text is made of
          MaxTokens,       \* bound: a text longer than this ends (eof)
          MayFollow(_, _)  \* which token may follow a text: any, or those of given sentences

BasicTypes == {"int", "void"}
Punctuation == {"long", "typedef", "struct", "for", "*", "(", ")", "[]", "{", "}",
                ";", ",", "=", "num", "..."} \cup BasicTypes

ASSUME AlphabetAssumption == Alphabet \subseteq Names \cup Punctuation
ASSUME NamesAssumption == /\ Names \cap (Punctuation \cup {"eof"}) = {}
                          /\ Anonymous \notin Names
ASSUME MaxTokensAssumption == MaxTokens \in Nat

VARIABLES
  text,      \* tokens lexed so far by any pass
  cur,       \* Lexer::CurBufPtr: index of the last token lexed
  saved,     \* Lexer::stateStack
  tok,       \* Parser::token, as an index into text
  modes,     \* Sema::modeStack
  envs,      \* Sema::scope
  records,   \* CRecordType objects: the "{" whose members each one holds, or 0
  external,  \* file-scope declarations accepted so far (Program::externalDecls)
  stack,     \* active procedures
  ret,       \* value the last procedure returned
  status     \* "run", "done", a diagnostic (the process exits) or a crash

vars == <<text, cur, saved, tok, modes, envs, records, external, stack, ret, status>>

lexVars == <<text, cur, saved, tok>>
semaVars == <<modes, envs, records>>

Diagnostics == {"syntax", "type", "redefined", "undefined"}
Crashes == {"nullSymbol", "nullFuncType", "nullMember", "endOfInput"}
Statuses == {"run", "done", "beyond"} \cup Diagnostics \cup Crashes

-----------------------------------------------------------------------------
(***************************************************************************)
(* Frames and control.                                                     *)
(***************************************************************************)

\* Procedures that entered a scope and have not left it, by pending call.
ScopeHeld == {"fun.decl", "fun.rest", "fun.body", "block.loop", "struct.members", "struct.member",
              "for.init", "for.cond", "for.semi", "for.inc", "for.close",
              "for.body", "for.exit"}
\* Procedures that saved the lexer state and have not restored it.
SaveHeld == {"isfun.spec", "isfun.decl", "dtor.skipped", "dtor.typed"}
\* Procedures that set the Skip mode and have not unset it.
SkipHeld == SaveHeld \cup {"decl.typedef"}

Labels == ScopeHeld \cup SkipHeld \cup
          {"program", "verdict", "isfun", "fun", "fun.spec", "decl", "decl.spec", "decl.node", "decl.more",
           "decl.next",
           "spec", "spec.loop", "spec.struct", "struct", "struct.tag", "struct.body",
           "dtor", "dtor.ident", "dtor.real", "dtor.tail", "dtor.init", "dtor.value",
           "dtor.more",
           "suffix", "suffix.array", "params", "param", "param.spec", "param.decl",
           "params.end", "stmt", "block", "for", "for.paren", "expr", "expr.end"}

(***************************************************************************)
(* The locals of all procedures, in one record.  The fields from depth on  *)
(* are history: the heights of the three stacks when the procedure was     *)
(* called, and for a pass that will be undone the environments at its      *)
(* start and the token at which its first reading ended.                   *)
(***************************************************************************)
NewFrame(l, b) ==
  [at |-> l, base |-> b, rec |-> NoRecord, name |-> 0, begin |-> 0,
   tdef |-> FALSE, more |-> FALSE, kind |-> "none", user |-> FALSE, size |-> 0,
   depth |-> Len(envs'), mdepth |-> Len(modes'), sdepth |-> Len(saved'),
   mark |-> <<>>, stop |-> 0]

\* A returned value: a type or declarator node (its type, record, name and typedef
\* marker), with flag IsFunctionDecl's verdict or "the statement node is not null".
Values == [shape : Shapes, rec : Nat, name : Nat, tdef : BOOLEAN, flag : BOOLEAN]
NoValue == [shape |-> Obj, rec |-> NoRecord, name |-> 0, tdef |-> FALSE, flag |-> FALSE]

Top == stack[Len(stack)]
Tok == text[tok]
Mode == modes[Len(modes)]

At(l) == status = "run" /\ Top.at = l

\* The procedure goes on, with its frame now f; or at the pending call l.
Continue(f) == stack' = [stack EXCEPT ![Len(stack)] = f] /\ ret' = NoValue
Goto(l) == Continue([Top EXCEPT !.at = l])
\* It calls the procedure entered at l with the base type b; f is its own frame.
CallFrom(f, l, b) ==
  /\ stack' = Append([stack EXCEPT ![Len(stack)] = f], NewFrame(l, b))
  /\ ret' = NoValue
Call(next, l, b) == CallFrom([Top EXCEPT !.at = next], l, b)
\* It returns what another procedure will return, or the value v.
TailCall(l, b) == stack' = Append(Front(stack), NewFrame(l, b)) /\ ret' = NoValue
Return(v) == stack' = Front(stack) /\ ret' = v

\* DiagEngine::Report prints and exits; a crash ends the process as well.
Stop(s) ==
  /\ status' = s
  /\ UNCHANGED <<lexVars, semaVars, external, stack, ret>>
Running == status' = status
-----------------------------------------------------------------------------
(***************************************************************************)
(* Lexer: the token after index c, met for the first time or read again.   *)
(***************************************************************************)
Upcoming == IF Len(text) < MaxTokens
            THEN {t \in Alphabet \cup {"eof"} : MayFollow(text, t)}
            ELSE {"eof"}

NextTokenFrom(c) ==
  /\ cur' = c + 1
  /\ tok' = c + 1
  /\ IF c < Len(text) THEN UNCHANGED text
     ELSE \E t \in Upcoming : text' = Append(text, t)

Advance == NextTokenFrom(cur) /\ UNCHANGED saved

\* Faults: the mode, or the saved state, is not taken off; the mode is, twice.
F_ModeStays == saved' = Front(saved) /\ UNCHANGED modes
F_TwoModesLess == saved' = Front(saved) /\ modes' = Front(Front(modes))
F_StateStays == modes' = Front(modes) /\ UNCHANGED saved

\* Lexer::SaveState and Sema::SetMode(Skip), used together.
BeginSkip == saved' = Append(saved, cur) /\ modes' = Append(modes, "Skip")
\* Lexer::RestoreState (the cursor is set by the caller) and Sema::UnSetMode.
EndSkip == saved' = Front(saved) /\ modes' = Front(modes)
-----------------------------------------------------------------------------
(***************************************************************************)
(* Sema: symbols.                                                          *)
(***************************************************************************)
TypeKeywords == BasicTypes \cup {"long", "typedef", "struct"}

\* semaTypedefAccess and semaVariableAccessNode report a name that no scope has.
Unknown(n) == FindObjSymbol(envs, n).kind = "none"
IsTypedefName(t) == t \in Names /\ FindObjSymbol(envs, t).kind = "typedef"
IsTypeName(t) == t \in TypeKeywords \/ IsTypedefName(t)
ReportsUndefined(t) == t \in Names /\ Mode = "Normal" /\ Unknown(t)

Redefines(n) == FindObjSymbolInCurScope(envs, n).kind # "none" /\ Mode = "Normal"
Symbol(k, s, i) == [kind |-> k, shape |-> s, at |-> i]

\* Fault: the mode is not asked.
F_DeclaresInSkip(i, s) == envs' = AddObjSymbol(envs, text[i], Symbol("obj", s, i))

semaVariableDeclNode(i, s) ==
  envs' = IF Mode = "Normal" THEN AddObjSymbol(envs, text[i], Symbol("obj", s, i))
          ELSE envs

\* Both run in the scope e and mode m that their caller has just come back to.
RedefinesTypedef(e, m, i) ==
  FindObjSymbolInCurScope(e, text[i]).kind # "none" /\ m = "Normal"
semaTypedefDecl(e, m, i, s) ==
  IF m = "Normal" THEN AddObjSymbol(e, text[i], Symbol("typedef", s, i)) ELSE e

\* CFuncType::hasBody of the function type s, which the last declaration of a function
\* of that type has set, whatever the function's name.
HasBody(s) ==
  \E k \in DOMAIN external :
    /\ external[k].type = s /\ external[k].body
    /\ \A j \in k+1..Len(external) : external[j].type # s

\* The type s of the function at hand has its hasBody set before the two are compared.
RedefinesFunction(e, i, s, hasBody) ==
  LET sym == FindObjSymbolInCurScope(e, text[i])
  IN  /\ sym.kind # "none"
      /\ Mode = "Normal"
      /\ \/ ~IsFunc(sym.shape)
         \/ hasBody /\ (sym.shape = s \/ HasBody(sym.shape))
\* Fault: only a definition is entered.
F_PrototypeLost(e, i, s, hasBody) ==
  IF hasBody THEN AddObjSymbol(e, text[i], Symbol("obj", s, i)) ELSE e

semaFunctionDecl(e, i, s, hasBody) ==
  LET sym == FindObjSymbolInCurScope(e, text[i])
  IN  IF (sym.kind = "none" \/ hasBody) /\ Mode = "Normal"
      THEN AddObjSymbol(e, text[i], Symbol("obj", s, i))
      ELSE e

\* Fault: the mode is not asked.
F_TagInSkip(e, i, r) ==
  AddTagSymbol(e, IF text[i] \in Names THEN text[i] ELSE Anonymous, r)

semaTagDeclare(e, i, r) ==
  IF Mode = "Normal"
  THEN AddTagSymbol(e, IF text[i] \in Names THEN text[i] ELSE Anonymous, r)
  ELSE e
-----------------------------------------------------------------------------
(***************************************************************************)
(* ParseProgram, IsFunctionDecl.                                           *)
(***************************************************************************)
ParseProgram ==
  \/ /\ At("program")
     /\ Tok = "eof"
     /\ Stop("done")
  \/ /\ At("program")
     /\ Tok # "eof"
     /\ UNCHANGED <<lexVars, semaVars, external, status>>
     /\ Call("verdict", "isfun", Obj)
  \/ /\ At("verdict")
     /\ UNCHANGED <<lexVars, semaVars, external, status>>
     /\ Call("program", IF ret.flag THEN "fun" ELSE "decl", Obj)

IsFunctionTypeNode(s) == IsFunc(s) \/ s = PtrFunc

\* Faults: the parser's own token is not put back; a prototype is taken for a variable.
F_TokenStays(isFunc) ==
  /\ EndSkip
  /\ cur' = Last(saved)
  /\ Return([NoValue EXCEPT !.flag = isFunc])
  /\ UNCHANGED <<text, tok, envs, records, external, status>>
F_OnlyDefinitions(isFunc) ==
  /\ EndSkip
  /\ cur' = Last(saved)
  /\ tok' = Top.begin
  /\ Return([NoValue EXCEPT !.flag = isFunc /\ Tok # ";"])
  /\ UNCHANGED <<text, envs, records, external, status>>

EndIsFunctionDecl(isFunc) ==
  /\ EndSkip
  /\ cur' = Last(saved)
  /\ tok' = Top.begin
  /\ Return([NoValue EXCEPT !.flag = isFunc])
  /\ UNCHANGED <<text, envs, records, external, status>>

IsFunctionDecl ==
  \/ /\ At("isfun")
     /\ BeginSkip
     /\ UNCHANGED <<text, cur, tok, envs, records, external, status>>
     /\ CallFrom([Top EXCEPT !.at = "isfun.spec", !.begin = tok, !.mark = envs],
                 "spec", Obj)
  \/ /\ At("isfun.spec")
     /\ Tok = ";"
     /\ EndIsFunctionDecl(FALSE)
  \/ /\ At("isfun.spec")
     /\ Tok # ";"
     /\ UNCHANGED <<lexVars, semaVars, external, status>>
     /\ Call("isfun.decl", "dtor", ret.shape)
  \/ /\ At("isfun.decl")
     /\ EndIsFunctionDecl(IsFunctionTypeNode(ret.shape))
-----------------------------------------------------------------------------
(***************************************************************************)
(* ParseFunctionDecl: the scope is entered before the declarator and left  *)
(* before the name is entered in the symbol table of the outer scope.      *)
(***************************************************************************)
EndFunctionDecl(hasBody) ==
  LET outer == ExitScope(envs)
  IN  /\ status = "run"
      /\ IF ~IsFunc(Top.base) THEN Stop("nullFuncType")
         ELSE IF RedefinesFunction(outer, Top.name, Top.base, hasBody) THEN Stop("redefined")
         ELSE /\ envs' = semaFunctionDecl(outer, Top.name, Top.base, hasBody)
              /\ external' = Append(external, [at |-> Top.name, type |-> Top.base, body |-> hasBody])
              /\ IF hasBody THEN UNCHANGED lexVars ELSE Advance
              /\ Return(NoValue)
              /\ UNCHANGED <<modes, records, status>>

ParseFunctionDecl ==
  \/ /\ At("fun")
     /\ UNCHANGED <<lexVars, semaVars, external, status>>
     /\ Call("fun.spec", "spec", Obj)
  \/ /\ At("fun.spec")
     /\ envs' = EnterScope(envs)
     /\ UNCHANGED <<lexVars, modes, records, external, status>>
     /\ CallFrom([Top EXCEPT !.at = "fun.decl", !.tdef = ret.tdef], "dtor", ret.shape)
  \/ /\ At("fun.decl")                          \* the declarator is parsed
     /\ UNCHANGED <<lexVars, semaVars, external, status>>
     /\ Continue([Top EXCEPT !.at = "fun.rest", !.base = ret.shape, !.name = ret.name])
  \/ /\ At("fun.rest")                          \* typedef of a function type
     /\ Top.tdef
     /\ IF Tok # ";" THEN Stop("syntax")
        ELSE IF RedefinesTypedef(ExitScope(envs), Mode, Top.name) THEN Stop("redefined")
        ELSE /\ Advance
             /\ envs' = semaTypedefDecl(ExitScope(envs), Mode, Top.name, Top.base)
             /\ Return(NoValue)
             /\ UNCHANGED <<modes, records, external, status>>
  \/ /\ At("fun.rest")                          \* declaration without a body
     /\ ~Top.tdef
     /\ Tok = ";"
     /\ EndFunctionDecl(FALSE)
  \/ /\ At("fun.rest")
     /\ ~Top.tdef
     /\ Tok # ";"
     /\ UNCHANGED <<lexVars, semaVars, external, status>>
     /\ Call("fun.body", "block", Obj)
  \/ /\ At("fun.body")
     /\ EndFunctionDecl(TRUE)
-----------------------------------------------------------------------------
(***************************************************************************)
(* ParseDeclareStmt.                                                       *)
(***************************************************************************)

ParseDeclareStmt ==
  \/ /\ At("decl")
     /\ UNCHANGED <<lexVars, semaVars, external, status>>
     /\ Call("decl.spec", "spec", Obj)
  \/ /\ At("decl.spec")                         \* "int ;" declares nothing
     /\ Tok = ";"
     /\ Advance
     /\ Return(NoValue)
     /\ UNCHANGED <<semaVars, external, status>>
  \/ /\ At("decl.spec")
     /\ Tok # ";"
     /\ UNCHANGED <<lexVars, semaVars, external, status>>
     /\ Continue([Top EXCEPT !.at = "decl.next", !.base = ret.shape, !.tdef = ret.tdef])
  \/ /\ At("decl.next")                         \* the declarator after "," or the first
     /\ IF Top.tdef THEN modes' = Append(modes, "Skip") ELSE UNCHANGED modes
     /\ UNCHANGED <<lexVars, envs, records, external, status>>
     /\ Call(IF Top.tdef THEN "decl.typedef" ELSE "decl.node", "dtor", Top.base)
  \/ /\ At("decl.typedef")
     /\ IF RedefinesTypedef(envs, modes[Len(modes) - 1], ret.name)
        THEN Stop("redefined")
        ELSE /\ modes' = Front(modes)
             /\ envs' = semaTypedefDecl(envs, Last(modes'), ret.name, ret.shape)
             /\ Goto("decl.more")
             /\ UNCHANGED <<lexVars, records, external, status>>
  \/ /\ At("decl.node")
     /\ external' = IF Len(stack) = 2
                    THEN Append(external, [at |-> ret.name, type |-> Obj, body |-> FALSE])
                    ELSE external
     /\ Goto("decl.more")
     /\ UNCHANGED <<lexVars, semaVars, status>>
  \/ /\ At("decl.more")
     /\ Tok \in {";", ","}
     /\ Advance
     /\ IF Tok = ";" THEN Return([NoValue EXCEPT !.flag = ~Top.tdef])
        ELSE Continue([Top EXCEPT !.at = "decl.next", !.more = TRUE])
     /\ UNCHANGED <<semaVars, external, status>>
  \/ /\ At("decl.more")
     /\ Tok \notin {";", ","}
     /\ Stop("syntax")
-----------------------------------------------------------------------------
(***************************************************************************)
(* ParseDeclSpec: one iteration of its loop per token.  Frame fields: kind *)
(* (the basic type seen), size (number of "long"), user (base holds a      *)
(* typedef or struct type), tdef.                                          *)
(***************************************************************************)
\* The combination that the checks after each token reject: long void.
Misfit(kind, size) == kind = "void" /\ size = 1

SpecToken(f) ==
  /\ Advance
  /\ Continue(f)
  /\ UNCHANGED <<semaVars, external, status>>

ParseDeclSpec ==
  \/ /\ At("spec")                              \* IsTypeName, or err_type
     /\ IF IsTypeName(Tok)
        THEN Goto("spec.loop") /\ UNCHANGED <<lexVars, semaVars, external, status>>
        ELSE Stop(IF ReportsUndefined(Tok) THEN "undefined" ELSE "type")
  \/ /\ At("spec.loop")
     /\ Tok = "eof"
     /\ Stop("endOfInput")
  \/ /\ At("spec.loop")                         \* a typedef name: looked up first
     /\ Tok \in Names
     /\ Top.kind = "none" /\ ~Top.user
     /\ IF ReportsUndefined(Tok) THEN Stop("undefined")
        ELSE IF ~IsTypedefName(Tok) THEN
          /\ UNCHANGED <<lexVars, semaVars, external, status>>
          /\ Return([NoValue EXCEPT !.tdef = Top.tdef])
        ELSE IF Top.size # 0 THEN Stop("type")
        ELSE SpecToken([Top EXCEPT !.user = TRUE,
                                   !.base = FindObjSymbol(envs, Tok).shape])
  \/ /\ At("spec.loop")
     /\ Tok = "typedef"
     /\ IF Top.tdef THEN Stop("type") ELSE SpecToken([Top EXCEPT !.tdef = TRUE])
  \/ /\ At("spec.loop")
     /\ Tok \in BasicTypes
     /\ IF Top.kind # "none" \/ Top.user \/ Misfit(Tok, Top.size) THEN Stop("type")
        ELSE SpecToken([Top EXCEPT !.kind = Tok])
  \/ /\ At("spec.loop")
     /\ Tok = "long"
     /\ IF Top.size = 2 \/ Top.user \/ Misfit(Top.kind, Top.size + 1) THEN Stop("type")
        ELSE SpecToken([Top EXCEPT !.size = @ + 1])
  \/ /\ At("spec.loop")
     /\ Tok = "struct"
     /\ IF Top.user THEN Stop("type")
        ELSE /\ UNCHANGED <<lexVars, semaVars, external, status>>
             /\ Call("spec.struct", "struct", Obj)
  \/ /\ At("spec.struct")
     /\ IF Top.kind # "none" \/ Top.size # 0 THEN Stop("type")
        ELSE /\ UNCHANGED <<lexVars, semaVars, external, status>>
             /\ Continue([Top EXCEPT !.at = "spec.loop", !.user = TRUE,
                                     !.base = Obj, !.rec = ret.rec])
  \/ /\ At("spec.loop")                         \* any other token ends the specifiers
     /\ Tok \notin TypeKeywords \cup {"eof"}
     /\ Tok \in Names => Top.kind # "none" \/ Top.user
     /\ UNCHANGED <<lexVars, semaVars, external, status>>
     /\ Return([NoValue EXCEPT !.shape = Top.base, !.rec = Top.rec, !.tdef = Top.tdef])
-----------------------------------------------------------------------------
(***************************************************************************)
(* ParseStructOrUnionSpec.  A record is an object: the tag that an outer   *)
(* scope declares yields that scope's object, and SetMembers fills it.     *)
(***************************************************************************)
ParseStructOrUnionSpec ==
  \/ /\ At("struct")
     /\ Advance
     /\ Goto("struct.tag")
     /\ UNCHANGED <<semaVars, external, status>>
  \/ /\ At("struct.tag")                        \* the tag, if the next token is a name
     /\ LET found == IF Tok \in Names THEN FindTagSymbol(envs, Tok) ELSE NoRecord
            rec == IF found # NoRecord THEN found ELSE Len(records) + 1
        IN  /\ records' = IF found # NoRecord THEN records ELSE Append(records, 0)
            /\ IF Tok \in Names THEN Advance ELSE UNCHANGED lexVars
            /\ Continue([Top EXCEPT !.at = "struct.body", !.rec = rec, !.name = tok])
            /\ UNCHANGED <<modes, envs, external, status>>
  \/ /\ At("struct.body")                       \* no members: the type is only named
     /\ Tok # "{"
     /\ UNCHANGED <<lexVars, semaVars, external, status>>
     /\ Return([NoValue EXCEPT !.rec = Top.rec])
  \/ /\ At("struct.body")
     /\ Tok = "{"
     /\ Advance
     /\ envs' = EnterScope(envs)
     /\ Continue([Top EXCEPT !.at = "struct.members", !.begin = tok])
     /\ UNCHANGED <<modes, records, external, status>>
  \/ /\ At("struct.members")
     /\ Tok # "}"
     /\ UNCHANGED <<lexVars, semaVars, external, status>>
     /\ Call("struct.member", "decl", Obj)
  \/ /\ At("struct.member")                     \* a null node is dereferenced
     /\ IF ~ret.flag THEN Stop("nullMember")
        ELSE Goto("struct.members") /\ UNCHANGED <<lexVars, semaVars, external, status>>
  \/ /\ At("struct.members")
     /\ Tok = "}"
     /\ LET outer == ExitScope(envs)
            tag == IF text[Top.name] \in Names THEN text[Top.name] ELSE Anonymous
        IN  /\ records' = [records EXCEPT ![Top.rec] = Top.begin]      \* SetMembers
            /\ IF FindTagSymbolInCurScope(outer, tag) # NoRecord
               THEN status' = "redefined" /\ UNCHANGED <<lexVars, envs, stack, ret>>
               ELSE /\ Advance
                    /\ envs' = semaTagDeclare(outer, Top.name, Top.rec)
                    /\ Return([NoValue EXCEPT !.rec = Top.rec])
                    /\ Running
            /\ UNCHANGED <<modes, external>>
-----------------------------------------------------------------------------
(***************************************************************************)
(* Declarator and DirectDeclarator.  A parenthesised declarator is read    *)
(* twice: in Skip mode to reach the suffix that completes the base type,   *)
(* then again from the "(" for real, after which the suffix is read again  *)
(* in the mode of the caller.                                              *)
(***************************************************************************)
PointerTo(s) == IF s = Obj THEN Obj ELSE PtrFunc

Declarator ==
  \/ /\ At("dtor")
     /\ Tok = "*"
     /\ Advance
     /\ Continue([Top EXCEPT !.base = PointerTo(@)])
     /\ UNCHANGED <<semaVars, external, status>>
  \/ /\ At("dtor")
     /\ Tok = "("
     /\ BeginSkip
     /\ NextTokenFrom(cur)
     /\ UNCHANGED <<envs, records, external, status>>
     /\ CallFrom([Top EXCEPT !.at = "dtor.skipped", !.begin = tok, !.mark = envs],
                 "dtor", Obj)
  \/ /\ At("dtor.skipped")
     /\ IF Tok # ")" THEN Stop("syntax")
        ELSE /\ Advance
             /\ UNCHANGED <<semaVars, external, status>>
             /\ Call("dtor.typed", "suffix", Top.base)
  \/ /\ At("dtor.typed")                        \* restore, then read "(" again
     /\ EndSkip
     /\ NextTokenFrom(Last(saved))
     /\ UNCHANGED <<envs, records, external, status>>
     /\ CallFrom([Top EXCEPT !.at = "dtor.real", !.stop = tok], "dtor", ret.shape)
  \/ /\ At("dtor.real")
     /\ IF Tok # ")" THEN Stop("syntax")
        ELSE /\ Advance
             /\ UNCHANGED <<semaVars, external, status>>
             /\ CallFrom([Top EXCEPT !.at = "dtor.tail", !.base = ret.shape,
                                     !.name = ret.name], "suffix", Obj)
  \/ /\ At("dtor.tail")
     /\ Goto("dtor.init")
     /\ UNCHANGED <<lexVars, semaVars, external, status>>
  \/ /\ At("dtor")
     /\ Tok \in Names
     /\ Advance
     /\ UNCHANGED <<semaVars, external, status>>
     /\ CallFrom([Top EXCEPT !.at = "dtor.ident", !.name = tok], "suffix", Top.base)
  \/ /\ At("dtor")
     /\ Tok \notin Names \cup {"*", "("}
     /\ Stop("syntax")
  \/ /\ At("dtor.ident")
     /\ IF Redefines(text[Top.name]) THEN Stop("redefined")
        ELSE /\ semaVariableDeclNode(Top.name, ret.shape)
             /\ UNCHANGED <<lexVars, modes, records, external, status>>
             /\ Continue([Top EXCEPT !.at = "dtor.init", !.base = ret.shape])
  \/ /\ At("dtor.init")
     /\ Tok = "="
     /\ Advance
     /\ Goto("dtor.value")
     /\ UNCHANGED <<semaVars, external, status>>
  \/ /\ At("dtor.init")
     /\ Tok # "="
     /\ UNCHANGED <<lexVars, semaVars, external, status>>
     /\ Return([NoValue EXCEPT !.shape = Top.base, !.name = Top.name])

\* An expression is one name or number here; a text that goes on with an operator
\* leaves the model ("beyond").  semaVariableAccessNode reads the type of a symbol
\* that the Skip mode does not insist on finding.
ExprOperators == {"*", "(", "[]", "=", "{"}

Primary(next) ==
  IF Tok \in Names /\ Unknown(Tok)
  THEN Stop(IF Mode = "Normal" THEN "undefined" ELSE "nullSymbol")
  ELSE IF Tok \in ExprOperators THEN Stop("beyond")
  ELSE IF Tok \notin Names \cup {"num"} THEN Stop("syntax")
  ELSE /\ Advance
       /\ Goto(next)
       /\ UNCHANGED <<semaVars, external, status>>

ParseInitializer ==
  \/ /\ At("dtor.value")
     /\ Primary("dtor.more")
  \/ /\ At("dtor.more")
     /\ IF Tok \in ExprOperators THEN Stop("beyond")
        ELSE /\ UNCHANGED <<lexVars, semaVars, external, status>>
             /\ Return([NoValue EXCEPT !.shape = Top.base, !.name = Top.name])
-----------------------------------------------------------------------------
(***************************************************************************)
(* DirectDeclaratorSuffix: "[...]" (one token here) repeated, or one       *)
(* parameter list.  A parameter is a full declaration.                     *)
(***************************************************************************)
DirectDeclaratorSuffix ==
  \/ /\ At("suffix")
     /\ Tok \in {"[]", "("}
     /\ Advance
     /\ IF Tok = "(" THEN Goto("params")
        ELSE Continue([Top EXCEPT !.at = "suffix.array", !.base = Obj])
     /\ UNCHANGED <<semaVars, external, status>>
  \/ /\ At("suffix.array")
     /\ Tok = "[]"
     /\ Advance
     /\ Goto("suffix.array")
     /\ UNCHANGED <<semaVars, external, status>>
  \/ /\ \/ At("suffix") /\ Tok \notin {"[]", "("}
        \/ At("suffix.array") /\ Tok # "[]"
     /\ UNCHANGED <<lexVars, semaVars, external, status>>
     /\ Return([NoValue EXCEPT !.shape = Top.base])

DirectDeclaratorFuncSuffix ==
  \/ /\ At("params")
     /\ Tok = "," /\ Top.more
     /\ Advance
     /\ Goto("param")
     /\ UNCHANGED <<semaVars, external, status>>
  \/ /\ At("params")
     /\ Tok # ")"
     /\ ~(Tok = "," /\ Top.more)
     /\ Goto("param")
     /\ UNCHANGED <<lexVars, semaVars, external, status>>
  \/ /\ At("param")                             \* "void" and "..." end the list
     /\ Tok = "void" \/ (Tok = "..." /\ Top.more)
     /\ Advance
     /\ Goto("params.end")
     /\ UNCHANGED <<semaVars, external, status>>
  \/ /\ At("param")
     /\ ~(Tok = "void" \/ (Tok = "..." /\ Top.more))
     /\ UNCHANGED <<lexVars, semaVars, external, status>>
     /\ Call("param.spec", "spec", Obj)
  \/ /\ At("param.spec")
     /\ UNCHANGED <<lexVars, semaVars, external, status>>
     /\ Call("param.decl", "dtor", ret.shape)
  \/ /\ At("param.decl")
     /\ UNCHANGED <<lexVars, semaVars, external, status>>
     /\ Continue([Top EXCEPT !.at = "params", !.more = TRUE])
  \/ /\ At("params") \/ At("params.end")
     /\ At("params") => Tok = ")"
     /\ IF Tok # ")" THEN Stop("syntax")
        ELSE /\ Advance
             /\ Return([NoValue EXCEPT !.shape = tok])
             /\ UNCHANGED <<semaVars, external, status>>
-----------------------------------------------------------------------------
(***************************************************************************)
(* Statements that declare or use names: ParseStmt, ParseBlockStmt,        *)
(* ParseForStmt, ParseExprStmt.                                            *)
(***************************************************************************)
ParseStmt ==
  \/ /\ At("stmt")
     /\ Tok = ";"
     /\ Advance
     /\ Return(NoValue)
     /\ UNCHANGED <<semaVars, external, status>>
  \/ /\ At("stmt")
     /\ ReportsUndefined(Tok)
     /\ Stop("undefined")
  \/ /\ At("stmt")
     /\ Tok # ";"
     /\ ~ReportsUndefined(Tok)
     /\ UNCHANGED <<lexVars, semaVars, external, status>>
     /\ TailCall(IF IsTypeName(Tok) THEN "decl"
                 ELSE IF Tok = "{" THEN "block"
                 ELSE IF Tok = "for" THEN "for" ELSE "expr", Obj)

\* Consume(t) after an expression that an operator would continue.
WrongToken(t) ==
  /\ Tok # t
  /\ Stop(IF Tok \in ExprOperators \cup {","} THEN "beyond" ELSE "syntax")

\* Fault: a token that starts no expression ends the statement and is not read.
F_NoProgress ==
  \/ At("expr") /\ Tok \in Names /\ Primary("expr.end")
  \/ /\ At("expr")
     /\ Tok \notin Names
     /\ UNCHANGED <<lexVars, semaVars, external, status>>
     /\ Return(NoValue)
  \/ /\ At("expr.end")
     /\ Tok = ";"
     /\ Advance
     /\ Return(NoValue)
     /\ UNCHANGED <<semaVars, external, status>>

ParseExprStmt ==
  \/ At("expr") /\ Primary("expr.end")
  \/ At("expr.end") /\ WrongToken(";")
  \/ /\ At("expr.end")
     /\ Tok = ";"
     /\ Advance
     /\ Return(NoValue)
     /\ UNCHANGED <<semaVars, external, status>>

ParseBlockStmt ==
  \/ /\ At("block")
     /\ IF Tok # "{" THEN Stop("syntax")
        ELSE /\ Advance
             /\ envs' = EnterScope(envs)
             /\ Goto("block.loop")
             /\ UNCHANGED <<modes, records, external, status>>
  \/ /\ At("block.loop")
     /\ Tok # "}"
     /\ UNCHANGED <<lexVars, semaVars, external, status>>
     /\ Call("block.loop", "stmt", Obj)
  \/ /\ At("block.loop")
     /\ Tok = "}"
     /\ Advance
     /\ envs' = ExitScope(envs)
     /\ Return(NoValue)
     /\ UNCHANGED <<modes, records, external, status>>

ForToken(t, next) ==
  \/ WrongToken(t)
  \/ Tok = t /\ Advance /\ Goto(next) /\ UNCHANGED <<semaVars, external, status>>

ParseForStmt ==
  \/ /\ At("for")
     /\ Advance
     /\ Goto("for.paren")
     /\ UNCHANGED <<semaVars, external, status>>
  \/ /\ At("for.paren")
     /\ IF Tok # "(" THEN Stop("syntax")
        ELSE /\ Advance
             /\ envs' = EnterScope(envs)
             /\ Goto("for.init")
             /\ UNCHANGED <<modes, records, external, status>>
  \/ /\ At("for.init")                          \* a declaration eats its own ";"
     /\ IF ReportsUndefined(Tok) THEN Stop("undefined")
        ELSE IF Tok = ";" THEN ForToken(";", "for.cond")
        ELSE /\ UNCHANGED <<lexVars, semaVars, external, status>>
             /\ Call("for.cond", IF IsTypeName(Tok) THEN "decl" ELSE "expr", Obj)
  \/ /\ At("for.cond")
     /\ IF Tok = ";" THEN ForToken(";", "for.inc")
        ELSE Primary("for.semi")
  \/ /\ At("for.semi")
     /\ ForToken(";", "for.inc")
  \/ /\ At("for.inc")
     /\ IF Tok = ")" THEN ForToken(")", "for.body")
        ELSE Primary("for.close")
  \/ /\ At("for.close")
     /\ ForToken(")", "for.body")
  \/ /\ At("for.body")
     /\ UNCHANGED <<lexVars, semaVars, external, status>>
     /\ Call("for.exit", "stmt", Obj)
  \/ /\ At("for.exit")
     /\ envs' = ExitScope(envs)
     /\ Return(NoValue)
     /\ UNCHANGED <<lexVars, modes, records, external, status>>
-----------------------------------------------------------------------------
Init ==
  /\ \E t \in Alphabet \cup {"eof"} : MayFollow(<<>>, t) /\ text = <<t>>
  /\ cur = 1 /\ tok = 1
  /\ saved = <<>>
  /\ modes = <<"Normal">>
  /\ envs = RootScope
  /\ records = <<>>
  /\ external = <<>>
  /\ stack = <<[at |-> "program", base |-> Obj, rec |-> NoRecord, name |-> 0,
                begin |-> 0, tdef |-> FALSE, more |-> FALSE, kind |-> "none",
                user |-> FALSE, size |-> 0, depth |-> 1, mdepth |-> 1, sdepth |-> 0,
                mark |-> <<>>, stop |-> 0]>>
  /\ ret = NoValue
  /\ status = "run"

Step ==
  \/ ParseProgram \/ IsFunctionDecl \/ ParseFunctionDecl \/ ParseDeclareStmt
  \/ ParseDeclSpec \/ ParseStructOrUnionSpec
  \/ Declarator \/ ParseInitializer
  \/ DirectDeclaratorSuffix \/ DirectDeclaratorFuncSuffix
  \/ ParseStmt \/ ParseExprStmt \/ ParseBlockStmt \/ ParseForStmt

\* The process has exited: a diagnostic, a crash, or the end of the text.
Exited == status # "run" /\ UNCHANGED vars

Next == Step \/ Exited

Spec == Init /\ [][Next]_vars
FairSpec == Spec /\ WF_vars(Step)
=============================================================================
