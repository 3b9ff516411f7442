----------------------------- MODULE LexerProps -----------------------------
(***************************************************************************)
(* What the lexer promises: the tokens of C, with their places, values and *)
(* types, also after the parser has read ahead and gone back.              *)
(***************************************************************************)
EXTENDS Lexer

CONSTANT Considered(_, _)   \* bound: the texts, with their tokens in C, about which something is claimed

C == INSTANCE CTokens

\* The positions, the token and the saved states are what the code can have; no saved state
\* lies ahead of the lexer, in the text, in rows or in the tokens read.
TypeOK ==
  /\ CurBufPtr \in 1..(BufEnd + 2) /\ LineHeadPtr \in 1..CurBufPtr
  /\ row \in 1..(BufEnd + 1)
  /\ token.value \in 0..(2^LongBits - 1)
  /\ status \in {"lexing", "reported", "overrun"}
  /\ Len(stateStack) <= MaxSaved
  /\ \A k \in DOMAIN stateStack :
       /\ stateStack[k].CurBufPtr <= CurBufPtr /\ stateStack[k].row <= row
       /\ stateStack[k].LineHeadPtr <= stateStack[k].CurBufPtr
       /\ IsPrefix(stateStack[k].read, read)

\* What is read, beside the tokens of C up to its first error: the pairs that a property
\* is about.  They are compared when the text has been read, whatever was read twice on the way.
HasEnded == status # "lexing" \/ token.tokenType = "eof"
Pairs ==
  IF ~HasEnded \/ status = "overrun" THEN {}
  ELSE LET tokens == C!Tokens
       IN  IF ~Considered(source, tokens) THEN {}
           ELSE {<<read[n], tokens[n]>> : n \in {k \in DOMAIN read \cap DOMAIN tokens : tokens[k].kind # "error"}}

\* A string's place is that of its characters, without the quotes.
PlaceOf(t) == IF t.tokenType = "str" THEN <<t.ptr - 1, t.ptr + t.len>> ELSE <<t.ptr, t.ptr + t.len - 1>>

\* The text is divided into the tokens of C: the longest ones, with nothing but blanks and
\* comments between them, words told from keywords; none is missed, doubled or made up.
TokensAgree ==
  \A p \in Pairs :
    /\ p[1].tokenType = p[2].kind
    /\ p[2].kind # "eof" => PlaceOf(p[1]) = <<p[2].from, p[2].to>>

\* Row and column, by which errors are reported, count the newlines wherever they are
\* passed: between tokens, at the end of and in comments, and again after going back.
PositionsAgree ==
  \A p \in Pairs : p[2].kind # "eof" => p[1].row = p[2].row /\ p[1].col = p[2].col

\* Literals have the value and the type that C gives them: the base, the suffix and the
\* first type that holds the value; and none of them is left over from another token.  Of
\* the value of a literal of type int the bits of an int are compared.
LiteralsAgree ==
  \A p \in Pairs :
    /\ p[1].tokenType = "number" =>
         /\ p[1].type = p[2].type
         /\ IF p[1].type = "int" THEN p[1].value % 2^IntBits = p[2].value ELSE p[1].value = p[2].value
    /\ p[1].tokenType = "str" => p[1].strValue = p[2].chars

(***************************************************************************)
(* Errors of C that the lexer takes no notice of: a number that is none,   *)
(* which leaves the token as it was; in a literal a newline, an escape     *)
(* that C does not have or, of a character, the quote itself; and a        *)
(* comment without end.                                                    *)
(***************************************************************************)
StartsLiteral(i) == source[i] \in {"'", "\""}
HasNewline(i) == \E j \in (i + 1)..Len(source) :
                   source[j] = source[i] /\ \E k \in (i + 1)..(j - 1) : source[k] = "\n"
HasOddEscape(i) == \E k \in (i + 1)..(Len(source) - 1) :
                     source[k] = "\\" /\ source[k + 1] \notin DOMAIN C!Escapes
GoesUnnoticed(i) ==
  \/ StartsNumber(i)
  \/ StartsLiteral(i) /\ (HasNewline(i) \/ HasOddEscape(i) \/ StartWith(i, "'''"))
  \/ StartWith(i, "/*")

\* The lexer stops with a report where the first error of the text is, with all tokens
\* before it read, also while it reads ahead; and without an error it reports nothing.
\* Claimed of texts whose first error is none of those that go unnoticed.
ReportsAreErrors ==
  HasEnded /\ status # "overrun" =>
    LET tokens == C!Tokens
        error == Last(tokens).kind = "error"
    IN  Considered(source, tokens) /\ ~(error /\ GoesUnnoticed(Last(tokens).from)) =>
          /\ status = "reported" <=> error
          /\ status = "reported" => Len(tokens) = Len(read) + 1
=============================================================================
