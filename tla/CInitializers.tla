--------------------------- MODULE CInitializers ---------------------------
(***************************************************************************)
(* Initializers in C (C11 6.7.9, with the empty braces of C23 6.7.10,      *)
(* which no array of unknown bound may have), without designators: which   *)
(* texts are initializers for an object of a type, and which of its        *)
(* elements they give a value.                                             *)
(***************************************************************************)
EXTENDS CTypes, FiniteSetsExt

CONSTANTS Chars, StringAt

-----------------------------------------------------------------------------
(***************************************************************************)
(* The syntax: initializer ::= "number" | "string" | "{" (initializer      *)
(* ("," initializer)* ","?)? "}".  A number is its place in the text.      *)
(* trailing: there is a comma behind the last initializer of a list.       *)
(***************************************************************************)
Item(is, n, items, trailing) == [is |-> is, n |-> n, items |-> items, trailing |-> trailing]
Failed == [ok |-> FALSE, item |-> Item("none", 0, <<>>, FALSE), next |-> 0]
Parsed(item, next) == [ok |-> TRUE, item |-> item, next |-> next]
TokenAt(text, k) == IF k \in DOMAIN text THEN text[k] ELSE "end"

RECURSIVE Initializer(_, _), InitializerList(_, _, _)
Initializer(text, k) ==
  CASE TokenAt(text, k) \in {"number", "string"} -> Parsed(Item(text[k], k, <<>>, FALSE), k + 1)
    [] TokenAt(text, k) = "{" -> InitializerList(text, k + 1, <<>>)
    [] OTHER -> Failed
\* The rest of a list that begins with these items.
InitializerList(text, k, items) ==
  LET list(trailing) == Parsed(Item("list", 0, items, trailing), k + 1)
      more(from) == LET r == Initializer(text, from)
                    IN  IF r.ok THEN InitializerList(text, r.next, Append(items, r.item)) ELSE Failed
      second == TokenAt(text, k + 1)
  IN  CASE TokenAt(text, k) = "}" -> list(FALSE)
        [] TokenAt(text, k) = "," /\ items # <<>> ->
             IF second = "}" THEN [list(TRUE) EXCEPT !.next = k + 2] ELSE more(k + 1)
        [] TokenAt(text, k) \notin {"}", ","} /\ items = <<>> -> more(k)
        [] OTHER -> Failed

-----------------------------------------------------------------------------
(***************************************************************************)
(* The meaning: the elements that get a value, each with its address, its  *)
(* type and whether the value is of a kind that it may have; and what the  *)
(* text makes use of: braces left out, braces around a scalar, a comma     *)
(* behind the last element that there is.                                  *)
(***************************************************************************)
Element(T, addr, v, fits) == [type |-> T, addr |-> addr, v |-> v, fits |-> fits]
Nothing == [ok |-> TRUE, next |-> 1, elements |-> {}, uses |-> {}]
Misfit == [Nothing EXCEPT !.ok = FALSE]
Join(a, b) == [ok |-> a.ok /\ b.ok, next |-> b.next,
               elements |-> a.elements \cup b.elements, uses |-> a.uses \cup b.uses]

IsAggregate(T) == T.kind \in {"array", "record"}
IsText(T, item) == T.kind = "array" /\ T.elem = CharType /\ item.is = "string"
Parts(T) ==
  CASE T.kind = "array" /\ T.count >= 0 -> T.count
    [] T.kind = "array" /\ T.count < 0 -> 1000
    [] T.kind = "record" /\ T.tag = "struct" -> Len(T.members)
    [] OTHER -> Min({1, Len(T.members)})
Part(T, j) ==
  IF T.kind = "array" THEN [type |-> T.elem, offset |-> (j - 1) * T.elem.size] ELSE T.members[j]

Characters(T, addr) ==
  LET n == IF T.count < 0 THEN Len(Chars) + 1 ELSE T.count
  IN  IF n < Len(Chars) THEN Misfit
      ELSE [Nothing EXCEPT !.elements =
              {Element(CharType, addr + i - 1, IF i <= Len(Chars) THEN Chars[i] ELSE 0, TRUE) : i \in 1..n}]
Scalar(T, addr, item) ==
  [Nothing EXCEPT !.elements =
     {IF item.is = "number" THEN Element(T, addr, IF T.kind = "double" THEN 4 * item.n ELSE item.n, IsArithType(T))
      ELSE Element(T, addr, StringAt, T = CPointType(CharType))}]
Using(r, use) == [r EXCEPT !.uses = @ \cup {use}]

\* Whole: the item for the T at addr.  Fill: its parts from the j-th on, from the items from
\* the k-th on; next is the item that is left.
RECURSIVE Whole(_, _, _), Fill(_, _, _, _, _)
Whole(T, addr, item) ==
  CASE IsText(T, item) -> Characters(T, addr)
    [] item.is # "list" /\ ~IsText(T, item) -> IF IsAggregate(T) THEN Misfit ELSE Scalar(T, addr, item)
    [] item.is = "list" /\ item.items = <<>> ->
         IF T.kind = "array" /\ T.count < 0 THEN Misfit ELSE Nothing
    [] item.is = "list" /\ item.items # <<>> /\ (~IsAggregate(T) \/ IsText(T, item.items[1])) ->
         IF Len(item.items) # 1 \/ (~IsAggregate(T) /\ item.items[1].is = "list") THEN Misfit
         ELSE LET r == Whole(T, addr, item.items[1])
                  s == IF IsAggregate(T) THEN r ELSE Using(r, "braced scalar")
              IN  IF item.trailing THEN Using(s, "last comma") ELSE s
    [] OTHER ->
         LET r == Fill(T, addr, item.items, 1, 1)
         IN  CASE r.next <= Len(item.items) -> Misfit
               [] r.next > Len(item.items) /\ item.trailing /\ r.full -> Using(r, "last comma")
               [] OTHER -> r
Fill(T, addr, items, k, j) ==
  IF k > Len(items) \/ j > Parts(T)
  THEN [ok |-> TRUE, next |-> k, elements |-> {}, uses |-> {}, full |-> j > Parts(T)]
  ELSE LET p == Part(T, j)
           here == IF items[k].is = "list" \/ ~IsAggregate(p.type) \/ IsText(p.type, items[k])
                   THEN [Whole(p.type, addr + p.offset, items[k]) EXCEPT !.next = k + 1]
                   ELSE LET f == Fill(p.type, addr + p.offset, items, k, 1)
                        IN  [ok |-> f.ok, next |-> f.next, elements |-> f.elements,
                             uses |-> f.uses \cup {"no braces"}]
           rest == Fill(T, addr, items, here.next, j + 1)
       IN  Join(here, rest) @@ [full |-> rest.full]

\* What the text means for an object of type T at 0; there may be no initializer.
Meaning(T, text) ==
  LET r == Initializer(text, 1)
  IN  CASE text = <<>> -> Nothing
        [] text # <<>> /\ r.ok /\ r.next = Len(text) + 1 -> Whole(T, 0, r.item)
        [] OTHER -> Misfit
=============================================================================
