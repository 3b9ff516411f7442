------------------------------ MODULE CTokens ------------------------------
(***************************************************************************)
(* The tokens of a text as the C standard has them (5.1.1.2, 6.4): the     *)
(* text is divided into the longest pieces that are tokens, between blanks *)
(* and comments.  What a piece is, is said of the piece as a whole.        *)
(* Octal and hexadecimal escapes, and character constants of several       *)
(* characters, are left out: they are no tokens here.                      *)
(***************************************************************************)
EXTENDS CLexicon, SequencesExt

CONSTANTS source, Code(_), IntBits, LongBits

\* The piece from i to j, as far as there is text.
Piece(i, j) ==
  LET upTo[k \in (i - 1)..j] ==
        IF k < i THEN "" ELSE IF k > Len(source) THEN upTo[k - 1] ELSE upTo[k - 1] \o source[k]
  IN  upTo[j]
Among(i, j, S) == \A k \in i..j : source[k] \in S

-----------------------------------------------------------------------------
\* A comment from i to j, which takes in everything up to its end.
IsComment(i, j) ==
  \/ /\ Piece(i, i + 1) = "//" /\ j > i /\ ~\E k \in i..j : source[k] = "\n"
     /\ j + 1 \in DOMAIN source => source[j + 1] = "\n"
  \/ /\ Piece(i, i + 1) = "/*" /\ j > i + 2 /\ Piece(j - 1, j) = "*/"
     /\ ~\E k \in (i + 3)..(j - 1) : Piece(k - 1, k) = "*/"

IsIdentifier(i, j) == source[i] \in Nondigits /\ Among(i + 1, j, WordCharacters)

\* A preprocessing number, which may or may not be a number.
IsNumberLike(i, j) ==
  /\ source[i] \in Digits \/ (source[i] = "." /\ j > i /\ source[i + 1] \in Digits)
  /\ \A k \in i..j : \/ source[k] \in NumberCharacters
                     \/ source[k] \in {"+", "-"} /\ source[k - 1] \in {"e", "E", "p", "P"}

\* The ways to read a piece as an integer: a prefix and a suffix, with digits between.
First(i, r) == i + Len(r.prefix[1])
Final(j, r) == j - Len(r.suffix)
Readings(i, j) ==
  {r \in [prefix : {p \in BasePrefixes : Piece(i, i + Len(p[1]) - 1) = p[1]},
          suffix : {s \in IntSuffixes : Len(s) <= j - i /\ Piece(j - Len(s) + 1, j) = s}] :
     /\ First(i, r) <= Final(j, r) + (IF r.prefix[2] = 8 THEN 1 ELSE 0)
     /\ Among(First(i, r), Final(j, r), DigitsOf[r.prefix[2]])
     /\ r.prefix[2] = 10 => source[i] # "0"}
IsInteger(i, j) == Readings(i, j) # {}
Reading(i, j) == CHOOSE r \in Readings(i, j) : TRUE
IntegerValue(i, j) ==
  LET r == Reading(i, j)
  IN  FoldLeft(LAMBDA v, c : r.prefix[2] * v + ValueOf[c], 0, SubSeq(source, First(i, r), Final(j, r)))

\* The first type of the list in 6.4.4.1 that holds the value; "none" if there is none.
Largest == [int |-> 2^(IntBits-1) - 1, uint |-> 2^IntBits - 1,
            long |-> 2^(LongBits-1) - 1, ulong |-> 2^LongBits - 1]
IntegerType(i, j) ==
  LET r == Reading(i, j)
      has(S) == \E s \in S : \E n \in 1..Len(r.suffix) : SubSeq(r.suffix, n, n) = s
      list == SelectSeq(<<"int", "uint", "long", "ulong">>, LAMBDA t :
                /\ has({"l", "L"}) => t \in {"long", "ulong"}
                /\ has(Unsigned) => t \in {"uint", "ulong"}
                /\ ~has(Unsigned) /\ r.prefix[2] = 10 => t \in {"int", "long"})
      fits == SelectSeq(list, LAMBDA t : IntegerValue(i, j) <= Largest[t])
  IN  IF fits = <<>> THEN "none" ELSE fits[1]

\* A decimal floating constant: digits with a point or an exponent, and a suffix.
IsSignificand(i, j) ==
  /\ Among(i, j, Digits \cup {"."})
  /\ Cardinality({k \in i..j : source[k] = "."}) <= 1
  /\ \E k \in i..j : source[k] # "."
IsExponent(i, j) ==
  /\ i < j /\ source[i] \in {"e", "E"}
  /\ LET k == IF source[i + 1] \in {"+", "-"} THEN i + 2 ELSE i + 1
     IN  k <= j /\ Among(k, j, Digits)
IsFloating(i, j) ==
  \E e, q \in i..(j + 1) :
    /\ e <= q /\ IsSignificand(i, e - 1) /\ Piece(q, j) \in {"", "f", "F", "l", "L"}
    /\ IF e = q THEN \E k \in i..(e - 1) : source[k] = "." ELSE IsExponent(e, q - 1)

-----------------------------------------------------------------------------
(***************************************************************************)
(* Literals.  A character is escaped if it stands after an odd number of   *)
(* backslashes, counted from the quote at i.                               *)
(***************************************************************************)
IsEscaped(i, k) ==
  LET slashes == {m \in (i + 1)..(k - 1) : Among(m, k - 1, {"\\"})}
  IN  Cardinality(slashes) % 2 = 1
IsQuoted(quote, i, j) ==
  /\ j > i /\ source[i] = quote /\ source[j] = quote /\ ~IsEscaped(i, j)
  /\ \A k \in (i + 1)..(j - 1) :
       /\ source[k] # "\n"
       /\ source[k] = quote => IsEscaped(i, k)
       /\ IsEscaped(i, k) => source[k] \in DOMAIN Escapes
\* The places of its characters, and what they are.
Places(i, j) == {k \in (i + 1)..(j - 1) : IsEscaped(i, k) \/ source[k] # "\\"}
Chars(i, j) ==
  LET ks == SetToSortSeq(Places(i, j), <)
  IN  [n \in DOMAIN ks |-> IF IsEscaped(i, ks[n]) THEN Escapes[source[ks[n]]] ELSE source[ks[n]]]

-----------------------------------------------------------------------------
\* What the piece from i to j is, if it is a token.
Kind(i, j) ==
  CASE IsIdentifier(i, j) -> "word"
    [] IsNumberLike(i, j) -> "number"
    [] IsQuoted("'", i, j) -> "char"
    [] IsQuoted("\"", i, j) -> "str"
    [] j < i + 3 /\ Piece(i, j) \in Punctuators -> "punctuator"
    [] OTHER -> "none"
IsToken(i, j) == Kind(i, j) # "none"

RowOf(i) == 1 + Cardinality({k \in 1..(i - 1) : source[k] = "\n"})
ColOf(i) == CHOOSE c \in 1..i : (c = i \/ source[i - c] = "\n") /\ \A d \in 1..(c - 1) : source[i - d] # "\n"

\* The token from i to j; one that looks like a number or a character and is none is an error.
Token(i, j) ==
  LET t == [kind |-> "error", from |-> i, to |-> j, row |-> RowOf(i), col |-> ColOf(i),
            value |-> 0, type |-> "", chars |-> <<>>]
  IN  CASE Kind(i, j) = "word" -> [t EXCEPT !.kind = IF Piece(i, j) \in Keywords THEN Piece(i, j) ELSE "identifier"]
        [] Kind(i, j) = "punctuator" -> [t EXCEPT !.kind = Piece(i, j)]
        [] Kind(i, j) = "str" -> [t EXCEPT !.kind = "str", !.type = "array", !.chars = Chars(i, j)]
        [] Kind(i, j) = "char" /\ Len(Chars(i, j)) = 1 ->
             [t EXCEPT !.kind = "number", !.type = "int", !.value = Code(Chars(i, j)[1])]
        [] Kind(i, j) = "number" /\ IsInteger(i, j) /\ IntegerType(i, j) # "none" ->
             [t EXCEPT !.kind = "number", !.type = IntegerType(i, j), !.value = IntegerValue(i, j)]
        [] Kind(i, j) = "number" /\ IsFloating(i, j) -> [t EXCEPT !.kind = "number", !.type = "floating"]
        [] OTHER -> t

\* The tokens from i on, up to and including the end or the first error.
TokensFrom[i \in Nat] ==
  LET none == [kind |-> "eof", from |-> i, to |-> i, row |-> 0, col |-> 0, value |-> 0, type |-> "", chars |-> <<>>]
      comments == {j \in i..Len(source) : IsComment(i, j)}
      ends == {j \in i..Len(source) : IsToken(i, j)}
  IN  CASE i > Len(source) -> <<none>>
        [] source[i] \in Blanks -> TokensFrom[i + 1]
        [] comments # {} -> TokensFrom[1 + CHOOSE j \in comments : TRUE]
        [] ends = {} \/ (i < Len(source) /\ Piece(i, i + 1) = "/*") -> <<[none EXCEPT !.kind = "error"]>>
        [] OTHER -> LET j == CHOOSE j \in ends : \A k \in ends : k <= j
                        t == Token(i, j)
                    IN  IF t.kind = "error" THEN <<t>> ELSE <<t>> \o TokensFrom[j + 1]
Tokens == TokensFrom[1]
=============================================================================
