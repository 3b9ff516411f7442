------------------------------- MODULE Scope -------------------------------
(***************************************************************************)
(* The symbol-table stack of scope.h and scope.cc, as operators on a stack *)
(* value envs.  An environment keeps the object names (variables,          *)
(* functions and typedef names share one name space) apart from the        *)
(* struct/union tags, as Env does.  The top of the stack is the innermost  *)
(* scope.                                                                  *)
(*                                                                         *)
(* An absent entry is NoSymbol (objects) or NoRecord (tags); a symbol      *)
(* remembers the token index "at" of its declarator, which the code does   *)
(* not store and which tells two declarations of one name apart.           *)
(***************************************************************************)
EXTENDS Integers, Sequences, SequencesExt

CONSTANTS Names,      \* identifiers of the program text
          Anonymous   \* the text of the token after "struct" when it is no name

\* What the parser's control depends on in a type: it is an object's, a function's or a
\* pointer's to a function.  A function type is the token that ends its parameter list:
\* a typedef shares it, as the code shares the CFuncType object, hasBody included.
Obj == 0
PtrFunc == -1
Shapes == Nat \cup {PtrFunc}
IsFunc(s) == s > 0

NoSymbol == [kind |-> "none", shape |-> Obj, at |-> 0]
NoRecord == 0

Symbols == [kind : {"none", "obj", "typedef"}, shape : Shapes, at : Nat]
Tags == Names \cup {Anonymous}
Envs == [obj : [Names -> Symbols], tag : [Tags -> Nat]]

EmptyEnv == [obj |-> [n \in Names |-> NoSymbol], tag |-> [t \in Tags |-> NoRecord]]
RootScope == <<EmptyEnv>>

\* Faults: the new scope starts as a copy; the old one stays.
F_CopiedScope(envs) == Append(envs, envs[Len(envs)])
F_ScopeNotLeft(envs) == envs

EnterScope(envs) == Append(envs, EmptyEnv)
ExitScope(envs) == Front(envs)

\* Declared object names and tags, per level of the stack.
HasObj(envs, i, n) == envs[i].obj[n].kind # "none"
HasTag(envs, i, t) == envs[i].tag[t] # NoRecord

Innermost(S) == CHOOSE i \in S : \A j \in S : j <= i

FindObjSymbol(envs, n) ==
  LET found == {i \in DOMAIN envs : HasObj(envs, i, n)}
  IN  IF found = {} THEN NoSymbol ELSE envs[Innermost(found)].obj[n]

FindObjSymbolInCurScope(envs, n) == envs[Len(envs)].obj[n]

FindTagSymbol(envs, t) ==
  LET found == {i \in DOMAIN envs : HasTag(envs, i, t)}
  IN  IF found = {} THEN NoRecord ELSE envs[Innermost(found)].tag[t]

FindTagSymbolInCurScope(envs, t) == envs[Len(envs)].tag[t]

\* Fault: an entry is replaced.
F_Replace(envs, n, sym) == [envs EXCEPT ![Len(envs)].obj[n] = sym]

\* llvm::StringMap::insert keeps an entry that is already there.
AddObjSymbol(envs, n, sym) ==
  IF HasObj(envs, Len(envs), n) THEN envs
  ELSE [envs EXCEPT ![Len(envs)].obj[n] = sym]

AddTagSymbol(envs, t, rec) ==
  IF HasTag(envs, Len(envs), t) THEN envs
  ELSE [envs EXCEPT ![Len(envs)].tag[t] = rec]
=============================================================================
