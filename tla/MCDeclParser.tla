---------------------------- MODULE MCDeclParser ----------------------------
(***************************************************************************)
(* Small texts for DeclParser: each run takes the tokens of one question,  *)
(* in any order, or, for texts too long to be listed that way, sentences   *)
(* made of given phrases.                                                  *)
(***************************************************************************)
EXTENDS DeclParserProps

CONSTANTS a, b

MCNames == {a, b}
Symmetry == Permutations({a, b})

DeclarationTexts == {a, b, "int", "typedef", "*", "(", ")", ",", ";", "{", "}"}
RecordTexts == {a, b, "int", "struct", ";", "{", "}"}
AllTexts == {a} \cup Punctuation
AllNamesTexts == MCNames \cup Punctuation

(***************************************************************************)
(* Three of these phrases, one after the other: names declared again,      *)
(* shadowed, used before and after; declarators in parentheses; functions  *)
(* with parameters, blocks and for; records in records.                    *)
(***************************************************************************)
Phrases ==
  { <<"int", a, ";">>,
    <<"int", a, "(", ")", ";">>,
    <<"int", a, "(", ")", "{", "}">>,
    <<"int", a, "(", "int", b, ")", "{", "int", a, ";", "{", "int", b, ";", "}", b, ";", "}">>,
    <<"int", b, "(", "long", "int", a, ",", "...", ")", "{", "for", "(", "int", b, "=", "num", ";", b, ";", a, ")",
      "{", "int", a, ";", a, ";", "}", a, ";", "}">>,
    <<"int", "*", "(", a, ")", "(", "int", b, ")", "{", "for", "(", b, ";", ";", ")", ";", "}">>,
    <<"int", "(", "*", "(", b, ")", ")", "[]", "=", a, ",", a, ";">>,
    <<"typedef", "int", "(", "*", b, ")", "(", "int", a, ")", ";">>,
    <<"typedef", "int", b, "(", "int", a, ")", ";">>,
    <<b, a, "(", "int", b, ")", "{", "for", "(", "int", a, ";", "num", ";", ")", "{", "}", "}">>,
    <<"typedef", "struct", a, "{", "int", a, ";", "}", b, ",", "*", a, ";">>,
    <<b, "(", a, ")", ";">>,
    <<b, a, "{", "}">>,
    <<"struct", a, "{", "int", a, ";", "struct", b, "{", "int", a, ";", "}", b, ";", "}", "*", "(", a, ")", ";">>,
    <<"struct", b, "{", "struct", a, "{", "int", b, ";", "}", a, ";", "}", ";">> }
Sentences == {p \o q \o r \o <<"eof">> : p \in Phrases, q \in Phrases, r \in Phrases}
Openings == UNION {{SubSeq(s, 1, k) : k \in 1..Len(s)} : s \in Sentences}

AnyToken(s, t) == TRUE
InSentence(s, t) == IF s \in Sentences THEN t = "eof" ELSE Append(s, t) \in Openings

\* Every text of up to 11 tokens with struct, and every one of up to 5 tokens of any kind.
Texts(s, t, alphabet, n) ==
  \/ Len(s) < n /\ Range(Append(s, t)) \subseteq alphabet
  \/ t = "eof" /\ Range(s) \subseteq alphabet

InSentenceOrShort(s, t) ==
  InSentence(s, t) \/ Texts(s, t, RecordTexts, 11) \/ Texts(s, t, AllTexts, 5)
=============================================================================
