------------------------------ MODULE MCLexer ------------------------------
(***************************************************************************)
(* Small texts for Lexer.                                                  *)
(***************************************************************************)
EXTENDS LexerProps

\* Values that an int and a char constant can have.
MCCode(c) == CASE c = "NUL" -> 0 [] c = "n" -> 1 [] c = "\n" -> 2 [] c = "\\" -> 3 [] c = "'" -> 4
               [] c = "\"" -> 5 [] c = "/" -> 6 [] OTHER -> 7

TextsOf(S, n) == UNION {[1..k -> S] : k \in 0..n}
Joined(S, T) == {s \o t : s \in S, t \in T}

Words == TextsOf({"i", "f", "1", " ", "\n"}, 4)
Operators == TextsOf({"+", "-", "*", "/", "%", ";", "=", "|", "&", "^", "~", "<", ">", "!", "[", ".", "1"}, 2)
             \cup TextsOf({"-", "=", "&", "<", ">", ".", "1"}, 3)
Literals == TextsOf({"'", "\"", "\\", "n", "/", "*", "\n"}, 4)
Bases == {<<>>, <<"0">>, <<"0", "x">>, <<"0", "X">>, <<"0", "b">>}
Numbers ==
  Joined(Joined(Bases, TextsOf({"0", "1", "3", "8", "f"}, 2)), TextsOf({"u", "l", "L"}, 2))
  \cup Joined(Joined(Bases, {<<"1">>}), TextsOf({"u", "U", "l", "L"}, 3))
LongNumbers == Joined({<<"1", "8", "\n">>, <<"0", "x", "3", "f", " ">>}, TextsOf({"'", "n", "\"", "\n"}, 3))

AllTexts == Words \cup Operators \cup Literals \cup Numbers \cup LongNumbers
FloatTexts == TextsOf({"1", ".", "e", "-", ";"}, 3)

-----------------------------------------------------------------------------
Has(text, s) == \E i \in 1..(Len(text) - Len(s) + 1) : SubSeq(text, i, i + Len(s) - 1) = s

\* No floating constant; a comment is followed by a blank or the end, and does not begin
\* with /*/; .
NoFloats(tokens) == ~\E n \in DOMAIN tokens : tokens[n].type = "floating"
CommentsSpaced(text) ==
  /\ ~Has(text, <<"/", "*", "/">>)
  /\ \A i \in 1..(Len(text) - 2) :
       SubSeq(text, i, i + 1) = <<"*", "/">> => IsWhiteSpace(text[i + 2])
Plain(text, tokens) == NoFloats(tokens) /\ CommentsSpaced(text)
WithFloats(text, tokens) == CommentsSpaced(text)
=============================================================================
