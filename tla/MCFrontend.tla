----------------------------- MODULE MCFrontend -----------------------------
(***************************************************************************)
(* Every program of the family, with nothing between its tokens, a blank,  *)
(* lines, or comments, and with either quote.  And every text of up to     *)
(* four characters of an alphabet that spells a keyword, identifiers,      *)
(* numbers, strings, comments, operators of one and of two characters, and *)
(* a character no token begins with.                                       *)
(***************************************************************************)
EXTENDS Frontend, WrittenFamily

MCLetters == {"a", "b", "c", "d", "e", "f", "g", "h", "i", "j", "k", "l", "m", "n", "o", "p", "q",
              "r", "s", "t", "u", "v", "w", "x", "y", "z"}
MCDigits  == {"0", "1", "2", "3", "7"}
MCSpaces  == {" ", "\n"}

MCStyles  == [gap : {"", " ", "\n\n", "# end 'x\n", " #\n "}, quote : {"'", "\""}]

Alphabet == {"t", "o", "7", " ", "\n", "'", "\"", "_", "#", "=", "!", "@"}

Short == Alphabet \cup {""}
MCOtherTexts == {c \o d \o e \o h : c \in Short, d \in Short, e \in Short, h \in Short}
MCTexts == AllTexts

MCParserOf(toks) == LET given == toks IN parse(given)
=============================================================================
