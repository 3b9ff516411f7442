---------------------------- MODULE Initializers ----------------------------
(***************************************************************************)
(* The initializer of a declared variable: ParseInitializer and            *)
(* ParseStringInitializer (parser.cc), which flatten nested braces to a    *)
(* list of values with their places.                                       *)
(*                                                                         *)
(* A call of ParseInitializer is a frame of the stack while the elements   *)
(* of its list are read; offsetList is the one list they all push to.      *)
(* The tokens are braces, commas, semicolons, an int literal, whose value  *)
(* is its place in the text, and a string.  The members of a record are    *)
(* numbered from 1.                                                        *)
(***************************************************************************)
EXTENDS CTypes

CONSTANTS Declared,       \* bound: the types of the variable
          ElementTypes,   \* the types that their elements have
          MaxTokens,      \* bound: the tokens of the initializer
          Chars           \* the characters of the string literal

VARIABLES declared,       \* the type of the variable
          token,          \* the parser's token
          text,           \* the tokens before it
          stack,          \* the lists that are being read: the type, and the element's index i
          at,             \* where ParseInitializer is
          offsetList,     \* the indices on the way to the element, as they are pushed and popped
          initValues,     \* VariableDecl::initValues
          status,
          written         \* history: the type as it is declared, before it is given its bound

vars == <<declared, token, text, stack, at, offsetList, initValues, status, written>>
lists == <<stack, offsetList>>
parsed == <<declared, lists, initValues>>

\* Only the variable itself can be an array of unknown bound.
ASSUME TypesAssumption ==
  /\ \A T \in Declared \cup ElementTypes :
       /\ T.kind = "array" => T.count \in Int /\ T.elem \in ElementTypes
       /\ T.kind = "record" => T.members \in Seq([type : ElementTypes, offset : Nat])
  /\ \A T \in ElementTypes : T.kind = "array" => T.count >= 0
ASSUME CharsAssumption == Chars \in Seq(Int)

Tokens == {"{", "}", ",", ";", "number", "string"}

-----------------------------------------------------------------------------
IsFlex(T) == T.count < 0
IsStringArrayType(T) == T.kind = "array" /\ T.elem = CharType

\* How many elements a list for a T has, if that is known; of a union it is the first member.
Elements(T) ==
  CASE T.kind = "array" -> T.count
    [] T.kind = "record" /\ T.tag = "struct" -> Len(T.members)
    [] T.kind = "record" /\ T.tag = "union" -> IF T.members = <<>> THEN 0 ELSE 1
    [] OTHER -> 0
ElementType(T, i) == IF T.kind = "array" THEN T.elem ELSE T.members[i + 1].type

\* Fault: there is one element less.
F_HasElement(T, i) == i + 1 < Elements(T) \/ (T.kind = "array" /\ IsFlex(T))

HasElement(T, i) == i < Elements(T) \/ (T.kind = "array" /\ IsFlex(T))

Frame == Last(stack)
\* The type that ParseInitializer is called for.
declType == IF stack = <<>> THEN declared ELSE ElementType(Frame.type, Frame.i)

-----------------------------------------------------------------------------
Advance ==
  /\ text' = Append(text, token)
  /\ token' \in IF Len(text') < MaxTokens THEN Tokens ELSE {";"}
Stay == UNCHANGED <<token, text>>
Reject == status' = "rejected" /\ UNCHANGED <<parsed, token, text, at>>
At(where) == status = "parsing" /\ at = where

semaDeclInitValue(T, value, offsets) == [type |-> T, value |-> value, offsets |-> offsets]
Number(n) == [op |-> "number", value |-> n]
String == [op |-> "string", value |-> Chars]

\* A string gives each element of the array a value, the rest zeros, and an array of unknown
\* bound its bound.  (The length comes from the token behind the string, which the lexer leaves
\* with the string's text.)
ParseStringInitializer(next) ==
  LET n == IF IsFlex(declType) THEN Len(Chars) + 1 ELSE declType.count
  IN  IF n < Len(Chars) THEN Reject
      ELSE /\ declared' = IF IsFlex(declType) THEN CArrayType(CharType, n) ELSE declared
           /\ initValues' = initValues \o
                [i \in 1..n |-> semaDeclInitValue(CharType,
                                  Number(IF i <= Len(Chars) THEN Chars[i] ELSE 0),
                                  Append(offsetList, i - 1))]
           /\ Advance /\ at' = next
           /\ UNCHANGED <<lists, status>>

\* Fault: the index of the last element stays in the list.
F_LeaveLoop(i) ==
  /\ declared' = IF Frame.type.kind = "array" /\ IsFlex(Frame.type)
                 THEN CArrayType(Frame.type.elem, i) ELSE declared
  /\ stack' = Front(stack) /\ offsetList' = offsetList
  /\ at' = "close"

\* The loop over the elements ends, before element i.
LeaveLoop(i) ==
  /\ declared' = IF Frame.type.kind = "array" /\ IsFlex(Frame.type)
                 THEN CArrayType(Frame.type.elem, i) ELSE declared
  /\ stack' = Front(stack) /\ offsetList' = Front(offsetList)
  /\ at' = "close"

-----------------------------------------------------------------------------
\* Where an initializer should begin.
EndOfList ==
  /\ At("call") /\ token = "}"
  /\ IF stack = <<>> THEN Reject
     ELSE LeaveLoop(Frame.i) /\ Stay /\ UNCHANGED <<initValues, status>>

StringArray ==
  At("call") /\ token = "string" /\ IsStringArrayType(declType) /\ ParseStringInitializer("next")

OpenBrace ==
  At("call") /\ token = "{" /\ Advance /\ at' = "list" /\ UNCHANGED <<parsed, status>>

\* ParseAssignExpr; there is none that begins with a comma or a semicolon.
AssignExpr ==
  /\ At("call") /\ token \notin {"{", "}"}
  /\ ~(token = "string" /\ IsStringArrayType(declType))
  /\ IF token \in {",", ";"} THEN Reject
     ELSE /\ initValues' = Append(initValues,
               semaDeclInitValue(declType, IF token = "number" THEN Number(Len(text) + 1) ELSE String,
                                 offsetList))
          /\ Advance /\ at' = "next"
          /\ UNCHANGED <<declared, lists, status>>

\* Behind the brace: a string, the first element, or nothing.
StringInBraces ==
  At("list") /\ token = "string" /\ IsStringArrayType(declType) /\ ParseStringInitializer("close")

FirstElement ==
  /\ At("list") /\ ~(token = "string" /\ IsStringArrayType(declType))
  /\ IF HasElement(declType, 0)
     THEN /\ stack' = Append(stack, [type |-> declType, i |-> 0])
          /\ offsetList' = Append(offsetList, 0)
          /\ at' = "call"
     ELSE UNCHANGED lists /\ at' = "close"
  /\ Stay /\ UNCHANGED <<declared, initValues, status>>

\* Behind an element: a comma is skipped, if there is one.
NextElement ==
  /\ At("next") /\ stack # <<>>
  /\ IF HasElement(Frame.type, Frame.i + 1)
     THEN /\ stack' = [stack EXCEPT ![Len(stack)].i = @ + 1]
          /\ offsetList' = Append(Front(offsetList), Frame.i + 1)
          /\ at' = "call"
          /\ IF token = "," THEN Advance ELSE Stay
          /\ UNCHANGED <<declared, initValues, status>>
     ELSE LeaveLoop(Frame.i + 1) /\ Stay /\ UNCHANGED <<initValues, status>>

CloseBrace ==
  /\ At("close")
  /\ IF token = "}" THEN Advance /\ at' = "next" /\ UNCHANGED <<parsed, status>> ELSE Reject

\* The declaration is over.
EndOfDeclaration ==
  /\ At("next") /\ stack = <<>>
  /\ IF token = ";" THEN status' = "accepted" /\ UNCHANGED <<parsed, token, text, at>> ELSE Reject

Init ==
  /\ declared \in Declared /\ written = declared
  /\ token \in Tokens
  /\ text = <<>> /\ stack = <<>> /\ offsetList = <<0>> /\ initValues = <<>>
  /\ status = "parsing"
  /\ \/ at = "call"
     \/ at = "next" /\ token = ";" /\ ~(declared.kind = "array" /\ IsFlex(declared))   \* there is none

Next ==
  /\ \/ EndOfList \/ StringArray \/ OpenBrace \/ AssignExpr \/ StringInBraces
     \/ FirstElement \/ NextElement \/ CloseBrace \/ EndOfDeclaration
  /\ UNCHANGED written

Spec == Init /\ [][Next]_vars

-----------------------------------------------------------------------------
\* u comes before v in the order of the places.
Before(u, v) ==
  \E k \in DOMAIN u \cap DOMAIN v : u[k] < v[k] /\ \A j \in 1..(k - 1) : u[j] = v[j]

\* parser.cc:569-740: the values are listed in the order of their places, each place once,
\* whatever lists are left in between: the indices that are pushed are popped on every path.
PlacesInOrder ==
  \A k, l \in DOMAIN initValues : k < l => Before(initValues[k].offsets, initValues[l].offsets)

\* T has an element j: of an array of unknown bound any, of a union the first member only.
HasPart(T, j) ==
  \/ T.kind = "array" /\ (IsFlex(T) \/ j < T.count)
  \/ T.kind = "record" /\ j + 1 \in DOMAIN T.members /\ (T.tag = "union" => j = 0)
Untyped == [kind |-> "none"]

\* The types on the way from the variable to a place.
TypesTo(place) ==
  LET type[k \in DOMAIN place] ==
        IF k = 1 THEN declared
        ELSE IF HasPart(type[k - 1], place[k]) THEN ElementType(type[k - 1], place[k]) ELSE Untyped
  IN  type

\* parser.cc:653-718: a value is listed with a place that the variable has, whatever bound it
\* is given in the end, and with the type of the element there.
PlacesMatch ==
  \A n \in DOMAIN initValues :
    LET v == initValues[n]
        types == TypesTo(v.offsets)
    IN  /\ \A k \in 1..(Len(v.offsets) - 1) : HasPart(types[k], v.offsets[k + 1])
        /\ types[Len(v.offsets)] = v.type
=============================================================================
