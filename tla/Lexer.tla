------------------------------- MODULE Lexer -------------------------------
(***************************************************************************)
(* The lexer (lexer.cc, lexer.h): NextToken over a buffer of characters,   *)
(* with the row and the head of the line, and the saved states that the    *)
(* parser rewinds to.                                                      *)
(*                                                                         *)
(* A character is a string of one character, or the name of one that has   *)
(* no spelling in TLA+ ("NUL", "BEL", "BS", "VT").  The one token that     *)
(* NextToken overwrites is the parser's; what an operation does not write  *)
(* of it stays from the token before.  A report ends the program.          *)
(***************************************************************************)
EXTENDS SequencesExt, Integers

CONSTANTS Sources,             \* bound: the texts that are read
          Code(_),             \* the value of a character
          IntBits, LongBits,   \* the widths of int and of long, int64_t and strtoul
          MaxSaved             \* bound: how many states are saved at once

ASSUME WidthsAssumption == IntBits \in Nat /\ LongBits \in Nat /\ 1 < IntBits /\ IntBits < LongBits

VARIABLES source,
          CurBufPtr, LineHeadPtr, row,   \* positions in source, and the current line
          token,
          stateStack,                    \* what SaveState has pushed, with the caller's token
          status,                        \* "lexing", "reported", "overrun"
          read                           \* history: the tokens read and not taken back, of which a
                                         \* text has no more than characters and the end

vars == <<source, CurBufPtr, LineHeadPtr, row, token, stateStack, status, read>>

-----------------------------------------------------------------------------
\* The buffer ends in a NUL at BufEnd.
BufEnd == Len(source) + 1
CharAt(i) == IF i \in DOMAIN source THEN source[i] ELSE "NUL"
Spelling(i, j) == LET upTo[k \in i..j] == IF k = i THEN "" ELSE upTo[k - 1] \o source[k - 1] IN upTo[j]
StartWith(i, s) == i + Len(s) <= BufEnd /\ Spelling(i, i + Len(s)) = s

Decimal == <<"0", "1", "2", "3", "4", "5", "6", "7", "8", "9">>
Lower == <<"a", "b", "c", "d", "e", "f", "g", "h", "i", "j", "k", "l", "m",
           "n", "o", "p", "q", "r", "s", "t", "u", "v", "w", "x", "y", "z">>
Upper == <<"A", "B", "C", "D", "E", "F", "G", "H", "I", "J", "K", "L", "M",
           "N", "O", "P", "Q", "R", "S", "T", "U", "V", "W", "X", "Y", "Z">>
IsWhiteSpace(c) == c \in {" ", "\r", "\n", "\t"}
Alphabet == Lower \o Upper
Digits == Range(Decimal)
Letters == Range(Alphabet) \cup {"_"}
IsDigit(c) == c \in Digits
IsLetter(c) == c \in Letters

Place(c, s) == CHOOSE k \in DOMAIN s : s[k] = c
Least(S) == CHOOSE i \in S : \A j \in S : i <= j

Indeterminate == {[tokenType |-> "indeterminate", row |-> 0, col |-> 0, ptr |-> 0, len |-> 0,
                   value |-> v, type |-> "null", strValue |-> <<>>] : v \in {0, 2^IntBits}}

Init ==
  /\ source \in Sources
  /\ CurBufPtr = 1 /\ LineHeadPtr = 1 /\ row = 1
  /\ token \in Indeterminate
  /\ stateStack = <<>>
  /\ status = "lexing"
  /\ read = <<>>

-----------------------------------------------------------------------------
(***************************************************************************)
(* Blanks and comments.  The scan for the end of a comment begins at its   *)
(* first character, and one character is passed after a comment as after   *)
(* a blank.                                                                *)
(***************************************************************************)
EndOfComment(i) ==
  CASE StartWith(i, "//") -> Least({j \in i..BufEnd : j = BufEnd \/ CharAt(j) = "\n"})
    [] StartWith(i, "/*") -> Least({j \in i..BufEnd : j = BufEnd \/ StartWith(j, "*/")}) + 2
    [] OTHER -> i

PastBlanks[i \in Nat] ==
  IF IsWhiteSpace(CharAt(i)) \/ StartWith(i, "//") \/ StartWith(i, "/*")
  THEN LET j == EndOfComment(i) IN IF j >= BufEnd THEN j ELSE PastBlanks[j + 1]
  ELSE i

\* The row and the head of the line at i, when they are known at CurBufPtr.
NewlinesBefore(i) == {k \in CurBufPtr..(i - 1) : CharAt(k) = "\n"}
RowAt(i) == row + Cardinality(NewlinesBefore(i))
LineHeadAt(i) == IF NewlinesBefore(i) = {} THEN LineHeadPtr ELSE Max(NewlinesBefore(i)) + 1

-----------------------------------------------------------------------------
(***************************************************************************)
(* The kinds of token.  Each takes the token t, in which only row and col  *)
(* are set, and the position i, and returns the token, the position after  *)
(* it and the status.                                                      *)
(***************************************************************************)
Outcome(t, i, s) == [token |-> t, next |-> i, status |-> s]
Lexed(t, i, j) == Outcome([t EXCEPT !.ptr = i, !.len = j - i], j, "lexing")

\* The escapes that are listed; any other one is the character itself.
Escaped == [c \in {"a", "b", "f", "n", "r", "t", "v"} |->
              CASE c = "a" -> "BEL" [] c = "b" -> "BS" [] c = "f" -> "\f" [] c = "n" -> "\n"
                [] c = "r" -> "\r" [] c = "t" -> "\t" [] c = "v" -> "VT"]

\* Fault: an escape is one character of the text.
F_c_char(i) == [res |-> CharAt(i), next |-> i + 1]

\* A character of a literal.
c_char(i) ==
  IF CharAt(i) # "\\" THEN [res |-> CharAt(i), next |-> i + 1]
  ELSE LET c == CharAt(i + 1)
       IN  [res |-> IF c \in DOMAIN Escaped THEN Escaped[c] ELSE c, next |-> i + 2]

\* Fault: the lower half is added to.
F_LowWord(old, v) == old + v

\* The value is written as an int, over the lower half of the 64 bits.
LowWord(old, v) == old - (old % 2^IntBits) + v
CharLiteral(t, i) ==
  LET c == c_char(i + 1)
      t1 == [t EXCEPT !.tokenType = "number", !.type = "int",
                      !.value = LowWord(@, Code(c.res))]
  IN  CASE c.next > BufEnd -> Outcome(t1, c.next, "overrun")
        [] CharAt(c.next) # "'" -> Outcome(t1, c.next, "reported")
        [] OTHER -> Lexed(t1, i, c.next + 1)

\* The characters of a string from i to the quote that ends it.
StringFrom[i \in Nat] ==
  CASE i > BufEnd -> [value |-> <<>>, next |-> i, status |-> "overrun"]
    [] CharAt(i) = "\"" -> [value |-> <<>>, next |-> i, status |-> "lexing"]
    [] CharAt(i) = "NUL" -> [value |-> <<>>, next |-> i, status |-> "reported"]
    [] OTHER -> LET c == c_char(i)
                    s == StringFrom[c.next]
                IN  [s EXCEPT !.value = <<c.res>> \o @]
StringLiteral(t, i) ==
  LET s == StringFrom[i + 1]
      t1 == [t EXCEPT !.tokenType = "str", !.type = "array", !.strValue = s.value,
                      !.ptr = i + 1, !.len = s.next - (i + 1)]
  IN  Outcome(t1, s.next + 1, s.status)

-----------------------------------------------------------------------------
\* Numbers: as many characters as may belong to one.
IsAlnum(c) == IsDigit(c) \/ (IsLetter(c) /\ c # "_")
NumberEnd[i \in Nat] ==
  CASE CharAt(i) \in {"e", "E", "p", "P"} /\ CharAt(i + 1) \in {"+", "-"} -> NumberEnd[i + 2]
    [] IsAlnum(CharAt(i)) \/ CharAt(i) = "." -> NumberEnd[i + 1]
    [] OTHER -> i

DigitValue(c) ==
  CASE IsDigit(c) -> Place(c, Decimal) - 1
    [] ~IsLetter(c) \/ c = "_" -> 36
    [] OTHER -> 10 + ((Place(c, Alphabet) - 1) % 26)
StartsHex(i) == CharAt(i) = "0" /\ CharAt(i + 1) \in {"x", "X"} /\ DigitValue(CharAt(i + 2)) < 16
StartsBinary(i) == CharAt(i) = "0" /\ CharAt(i + 1) \in {"b", "B"} /\ DigitValue(CharAt(i + 2)) < 2
Base(i) ==
  CASE StartsHex(i) -> 16 [] StartsBinary(i) -> 2 [] CharAt(i) = "0" -> 8 [] OTHER -> 10

\* C's strtoul: the longest number, after another 0x if the base is 16; the largest
\* value stands for all that are too large.  Without a digit nothing is read.  The 64
\* bits of the value are counted without sign here, in the code with.
strtoul(i, base) ==
  LET first == IF base = 16 /\ StartsHex(i) THEN i + 2 ELSE i
      end == Least({j \in first..BufEnd : DigitValue(CharAt(j)) >= base})
      v == FoldLeft(LAMBDA n, c : n * base + DigitValue(c), 0, SubSeq(source, first, end - 1))
  IN  [val |-> IF v < 2^LongBits THEN v ELSE 2^LongBits - 1, next |-> end]

\* The suffixes that are tried, and how they read.
Suffix(i) ==
  CASE \E s \in {"LLU", "LLu", "llU", "llu", "ULL", "Ull", "uLL", "ull"} : StartWith(i, s) ->
         [n |-> 3, l |-> TRUE, u |-> TRUE]
    [] \E s \in {"lu", "lU", "Lu", "LU", "ul", "uL", "Ul", "UL"} : StartWith(i, s) ->
         [n |-> 2, l |-> TRUE, u |-> TRUE]
    [] StartWith(i, "LL") \/ StartWith(i, "ll") -> [n |-> 2, l |-> TRUE, u |-> FALSE]
    [] CharAt(i) \in {"L", "l"} -> [n |-> 1, l |-> TRUE, u |-> FALSE]
    [] CharAt(i) \in {"U", "u"} -> [n |-> 1, l |-> FALSE, u |-> TRUE]
    [] OTHER -> [n |-> 0, l |-> FALSE, u |-> FALSE]

\* Fault: a number without suffix is an int up to the bits of an unsigned int.
F_InferType(base, s, val) ==
  IF s.l THEN "long" ELSE IF val >= 2^IntBits THEN "long" ELSE "int"

\* The type, from the bits of the value that are not zero.
InferType(base, s, val) ==
  LET Above(n) == val >= 2^n
  IN  CASE s.l /\ s.u -> "ulong"
        [] s.l -> IF base # 10 /\ Above(LongBits - 1) THEN "ulong" ELSE "long"
        [] s.u -> IF Above(IntBits) THEN "ulong" ELSE "uint"
        [] base = 10 -> IF Above(IntBits - 1) THEN "long" ELSE "int"
        [] OTHER -> CASE Above(LongBits - 1) -> "ulong" [] Above(IntBits) -> "long"
                      [] Above(IntBits - 1) -> "uint" [] OTHER -> "int"

\* ConvertNumber tries ConvertIntNumber, and ConvertIntNumber again.  What does not fit
\* leaves the token, and the position is where the attempt came to.
ConvertIntNumber(t, i, end) ==
  LET base == Base(i)
      digits == strtoul(IF base \in {16, 2} THEN i + 2 ELSE i, base)
      suffix == Suffix(digits.next)
      p == digits.next + suffix.n
  IN  IF p # end THEN Outcome(t, p, "lexing")
      ELSE Lexed([t EXCEPT !.tokenType = "number", !.value = digits.val,
                           !.type = InferType(base, suffix, digits.val)], i, end)
ConvertNumber(t, i) == ConvertIntNumber(t, i, NumberEnd[i])

-----------------------------------------------------------------------------
Keywords == {"int", "if", "else", "for", "break", "continue", "sizeof", "struct", "union",
             "return", "void", "char", "short", "long", "float", "double", "signed", "unsigned",
             "typedef", "auto", "register", "inline", "const", "static", "volatile", "extern",
             "switch", "while", "do", "case", "default"}

Word(t, i) ==
  LET j == Least({k \in i..BufEnd : ~IsLetter(CharAt(k)) /\ ~IsDigit(CharAt(k))})
      content == Spelling(i, j)
  IN  Lexed([t EXCEPT !.tokenType = IF content \in Keywords THEN content ELSE "identifier"], i, j)

\* For each first character, the longer tokens in the order they are tried.
ArithmeticTokens == [c \in {"+", "-", "*", "/", "%"} |->
  CASE c = "+" -> <<"++", "+=">>
    [] c = "-" -> <<"--", "-=", "->">>
    [] OTHER -> <<c \o "=">>]
BitTokens == [c \in {";", "(", ")", "=", "|", "&", "^", "~", ",", "{", "}"} |->
  CASE c = "=" -> <<"==">>
    [] c = "|" -> <<"||", "|=">>
    [] c = "&" -> <<"&&", "&=">>
    [] c = "^" -> <<"^=">>
    [] OTHER -> <<>>]
\* Fault: a shift is tried before the assignment that begins with it.
F_RelationTokens == [c \in {"<", ">", "!"} |->
  CASE c = "<" -> <<"<=", "<<", "<<=">> [] c = ">" -> <<">=", ">>", ">>=">> [] c = "!" -> <<"!=">>]

RelationTokens == [c \in {"<", ">", "!"} |->
  CASE c = "<" -> <<"<=", "<<=", "<<">>
    [] c = ">" -> <<">=", ">>=", ">>">>
    [] c = "!" -> <<"!=">>]
OtherTokens == [c \in {"?", ":", "[", "]", "."} |-> IF c = "." THEN <<"...">> ELSE <<>>]
Longer == ArithmeticTokens @@ BitTokens @@ RelationTokens @@ OtherTokens

Punctuator(t, i) ==
  LET c == CharAt(i)
      tried == SelectSeq(Longer[c], LAMBDA s : StartWith(i, s))
      s == IF tried = <<>> THEN c ELSE tried[1]
  IN  Lexed([t EXCEPT !.tokenType = s], i, i + Len(s))

-----------------------------------------------------------------------------
StartsNumber(i) ==
  \/ IsDigit(CharAt(i))
  \/ CharAt(i) = "." /\ IsDigit(CharAt(i + 1))

TokenAt(t, i) ==
  CASE CharAt(i) = "'" -> CharLiteral(t, i)
    [] CharAt(i) = "\"" -> StringLiteral(t, i)
    [] StartsNumber(i) -> ConvertNumber(t, i)
    [] IsLetter(CharAt(i)) -> Word(t, i)
    [] CharAt(i) \in DOMAIN Longer -> Punctuator(t, i)
    [] OTHER -> Outcome(t, i, "reported")

\* At the end only the kind of the token is set.
NextToken ==
  /\ status = "lexing"
  /\ LET i == PastBlanks[CurBufPtr]
         out == IF i >= BufEnd THEN Outcome([token EXCEPT !.tokenType = "eof"], i, "lexing")
                ELSE TokenAt([token EXCEPT !.row = RowAt(i), !.col = i - LineHeadAt(i) + 1], i)
     IN  /\ token.tokenType # "eof"
         /\ token' = out.token /\ CurBufPtr' = out.next /\ status' = out.status
         /\ row' = RowAt(i) /\ LineHeadPtr' = LineHeadAt(i)
         /\ read' = IF out.status = "lexing" /\ Len(read) < BufEnd THEN Append(read, out.token) ELSE read
  /\ UNCHANGED <<source, stateStack>>

\* The caller keeps its token itself, or reads ahead into another one.
SaveState ==
  /\ status = "lexing" /\ Len(stateStack) < MaxSaved
  /\ stateStack' = Append(stateStack, [CurBufPtr |-> CurBufPtr, LineHeadPtr |-> LineHeadPtr,
                                       row |-> row, token |-> token, read |-> read])
  /\ UNCHANGED <<source, CurBufPtr, LineHeadPtr, row, token, status, read>>

\* Fault: the row is not restored.
F_RestoreTo(state) ==
  /\ CurBufPtr' = state.CurBufPtr /\ LineHeadPtr' = state.LineHeadPtr /\ row' = row
  /\ token' = state.token /\ read' = state.read

RestoreTo(state) ==
  /\ CurBufPtr' = state.CurBufPtr /\ LineHeadPtr' = state.LineHeadPtr /\ row' = state.row
  /\ token' = state.token /\ read' = state.read

RestoreState ==
  /\ status = "lexing" /\ stateStack # <<>>
  /\ RestoreTo(Last(stateStack))
  /\ stateStack' = Front(stateStack)
  /\ UNCHANGED <<source, status>>

Ended == (status # "lexing" \/ token.tokenType = "eof") /\ UNCHANGED vars

Next == NextToken \/ SaveState \/ RestoreState \/ Ended

Spec == Init /\ [][Next]_vars
=============================================================================
