------------------------------ MODULE InitExec ------------------------------
(***************************************************************************)
(* What the compiler makes of an initializer, and what it means in C.      *)
(***************************************************************************)
EXTENDS InitCodeGen, FiniteSetsExt

CONSTANTS Considered(_, _),        \* bound: the types and texts about whose code something is claimed
          ConsideredGlobal(_, _)   \* bound: and those about whose constants

C == INSTANCE CInitializers

-----------------------------------------------------------------------------
\* The initializers that the parser has no form for: those that leave braces out, put them
\* around a scalar, or have a comma behind the last element there is.
Opened == Cardinality({k \in DOMAIN text : text[k] = "{"}) - Cardinality({k \in DOMAIN text : text[k] = "}"})
Closing(n) == [k \in 1..n |-> "}"]
HasForm(tokens) ==
  LET m == C!Meaning(written, tokens) IN tokens # <<>> /\ m.ok /\ m.uses = {}
\* A comma or the end of a list stands behind each element.
CommasSet ==
  \A k \in 1..(Len(text) - 1) : text[k] \in {"number", "string", "}"} => text[k + 1] \in {",", "}"}

\* Types are not compared (sema.cc:363): 1 may be the value of a whole array, and a string that
\* of an int.  The types fit when each value is an arithmetic one for an element of such a type,
\* or a string for a char pointer.
TypesFit ==
  \A k \in DOMAIN initValues :
    IF initValues[k].value.op = "number" THEN IsArithType(initValues[k].type)
    ELSE initValues[k].type = CPointType(CharType)
\* int a[] = {} is accepted too, and a has no elements then (parser.cc:686-689).
HasElements == declared.kind = "array" => declared.count # 0

Meant == C!Meaning(written, text)
Legal == Meant.ok /\ \A e \in Meant.elements : e.fits

\* parser.cc:626-735: what is accepted is an initializer for the type, once its commas are set,
\* its types fit and it does not leave an array without elements; what is rejected is none with
\* braces for every aggregate, however it would go on.
VerdictAgrees ==
  /\ status = "accepted" /\ CommasSet /\ TypesFit /\ HasElements => Legal
  /\ status = "rejected" =>
       LET read == IF token = ";" THEN text ELSE Append(text, token)
           depth == Opened + (CASE token = "{" -> 1 [] token = "}" -> -1 [] OTHER -> 0)
       IN  IF token = ";" THEN ~HasForm(text)
           ELSE depth >= 0 => \A more \in {<<>>, <<"number">>, <<"string">>} : ~HasForm(read \o more \o Closing(depth))

-----------------------------------------------------------------------------
RECURSIVE Leaves(_, _)
Leaves(T, addr) ==
  IF T.kind \in {"array", "record"}
  THEN UNION {Leaves(ElementType(T, i), addr + (IF T.kind = "array" THEN i * T.elem.size ELSE T.members[i + 1].offset)) :
                i \in 0..(Elements(T) - 1)}
  ELSE {[type |-> T, addr |-> addr]}

ReadAt(mem, leaf) == NumberOf(Load(mem, leaf.addr, leaf.type.size), leaf.type.kind = "double")
Value0(mem, leaf) == ReadAt(mem, leaf) = 0
IsUntouched(mem, leaf) == \A a \in leaf.addr..(leaf.addr + leaf.type.size - 1) : mem[a] = <<FALSE, 0, 0>>

\* The elements have the values that are meant, and the others satisfy Rest.
InitializedAs(g, Rest(_, _)) ==
  /\ ~g.crash
  /\ \A leaf \in Leaves(declared, 0) :
       LET given == {e \in Meant.elements : e.addr = leaf.addr /\ e.type = leaf.type}
       IN  IF given = {} THEN Rest(g.mem, leaf) ELSE \A e \in given : ReadAt(g.mem, leaf) = e.v

Accepted == status = "accepted" /\ Legal

\* codegen.cc:1399-1462: each element of a local variable that C gives a value has it after
\* the declaration, and nothing is stored to the others.  (C has them zero.)
LocalAsC == Accepted /\ Considered(written, text) => InitializedAs(LocalVariable, IsUntouched)

\* codegen.cc:1284-1380: the constant of a global variable has the values of C, and zeros.
GlobalAsC == Accepted /\ ConsideredGlobal(written, text) => InitializedAs(GlobalVariable, Value0)
=============================================================================
