------------------------------ MODULE CLexicon ------------------------------
(***************************************************************************)
(* The characters and words of C (6.4.1, 6.4.2.1, 6.4.4, 6.4.6).           *)
(***************************************************************************)
EXTENDS Integers, Sequences, TLC

Nondigits == {"a", "b", "c", "d", "e", "f", "g", "h", "i", "j", "k", "l", "m", "n", "o", "p", "q",
              "r", "s", "t", "u", "v", "w", "x", "y", "z", "A", "B", "C", "D", "E", "F", "G", "H",
              "I", "J", "K", "L", "M", "N", "O", "P", "Q", "R", "S", "T", "U", "V", "W", "X", "Y",
              "Z", "_"}
ValueOf == "0" :> 0 @@ "1" :> 1 @@ "2" :> 2 @@ "3" :> 3 @@ "4" :> 4 @@ "5" :> 5 @@ "6" :> 6 @@ "7" :> 7
        @@ "8" :> 8 @@ "9" :> 9 @@ "a" :> 10 @@ "b" :> 11 @@ "c" :> 12 @@ "d" :> 13 @@ "e" :> 14
        @@ "f" :> 15 @@ "A" :> 10 @@ "B" :> 11 @@ "C" :> 12 @@ "D" :> 13 @@ "E" :> 14 @@ "F" :> 15
DigitsOf == [base \in {2, 8, 10, 16} |-> {c \in DOMAIN ValueOf : ValueOf[c] < base}]
Digits == DigitsOf[10]
WordCharacters == Nondigits \cup Digits
NumberCharacters == WordCharacters \cup {"."}
Blanks == {" ", "\t", "\r", "\n"}

\* The prefixes of an integer constant with their bases, and its suffixes.
BasePrefixes == {<<"0x", 16>>, <<"0X", 16>>, <<"0b", 2>>, <<"0B", 2>>, <<"0", 8>>, <<"", 10>>}
Long == {"l", "L", "ll", "LL"}
Unsigned == {"u", "U"}
IntSuffixes == {""} \cup Long \cup Unsigned \cup {u \o l : u \in Unsigned, l \in Long}
                                          \cup {l \o u : u \in Unsigned, l \in Long}

Escapes == "a" :> "BEL" @@ "b" :> "BS" @@ "f" :> "\f" @@ "n" :> "\n" @@ "r" :> "\r" @@ "t" :> "\t"
        @@ "v" :> "VT" @@ "'" :> "'" @@ "\"" :> "\"" @@ "?" :> "?" @@ "\\" :> "\\"

Punctuators == {"-", "+", "*", "/", "(", ")", "{", "}", ";", "=", ",", "==", "!=", "<", "<=", ">",
                ">=", "||", "|", "&&", "&", "^", "%", "<<", ">>", "++", "--", "~", "!", "+=", "-=",
                "*=", "/=", "%=", "<<=", ">>=", "&=", "^=", "|=", "?", ":", "[", "]", ".", "->", "..."}
Keywords == {"auto", "break", "case", "char", "const", "continue", "default", "do", "double", "else",
             "extern", "float", "for", "if", "inline", "int", "long", "register", "return", "short",
             "signed", "sizeof", "static", "struct", "switch", "typedef", "union", "unsigned", "void",
             "volatile", "while"}
=============================================================================
