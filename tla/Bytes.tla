------------------------------- MODULE Bytes -------------------------------
(***************************************************************************)
(* Texts and binary data are sequences of small integers.  0..255 are      *)
(* bytes, with the values that they have in ASCII where the code looks at  *)
(* them; the integers from 256 on are whole words (the name of a header or *)
(* of a method), which the code only compares.  A word w + WordCase is the *)
(* same word in another case.                                              *)
(***************************************************************************)
EXTENDS Integers, Sequences, SequencesExt

NUL == 0
TAB == 9
LF == 10
CR == 13
SP == 32
Quote == 34
Hash == 35
Percent == 37
Amp == 38
Apostrophe == 39
Plus == 43
Comma == 44
Minus == 45
Dot == 46
Slash == 47
Zero == 48
Nine == 57
Colon == 58
Semicolon == 59
Equals == 61
QuestionMark == 63
At == 64
UpperA == 65
LowerA == 97
LowerN == 110
LowerT == 116

WordCase == 1000

(* tolower() on a text *)
ToLower(text) ==
  [i \in 1..Len(text) |->
     CASE text[i] \in UpperA..(UpperA + 25) -> text[i] + 32
       [] text[i] >= WordCase -> text[i] - WordCase
       [] OTHER -> text[i]]

IsDigit(c) == c \in Zero..Nine

(* The position of the first of the characters cs in the text, from `from` *)
(* on; one past the end if there is none.                                  *)
FirstOf(text, from, cs) ==
  LET at == {i \in from..Len(text) : text[i] \in cs}
  IN IF at = {} THEN Len(text) + 1 ELSE CHOOSE i \in at : \A j \in at : i <= j

(* text[a..b) of C++ iterators, one-based *)
Slice(text, a, b) == SubSeq(text, a, b - 1)

(* std::to_string() *)
RECURSIVE Decimal(_)
Decimal(n) ==
  IF n < 0 THEN <<Minus>> \o Decimal(-n)
  ELSE (IF n < 10 THEN <<>> ELSE Decimal(n \div 10)) \o <<Zero + (n % 10)>>

(* The digits at the start of a text, and what they say: std::stoi() and   *)
(* std::stoul() read them and leave the rest.                              *)
LeadingDigits(text) ==
  SubSeq(text, 1, (CHOOSE n \in 0..Len(text) :
           /\ \A i \in 1..n : IsDigit(text[i])
           /\ n < Len(text) => ~IsDigit(text[n + 1])))
Number(digits) == FoldLeft(LAMBDA n, d : 10 * n + d - Zero, 0, digits)

(* One hexadecimal digit, in capitals, and its value in either case *)
HexDigit(n) == IF n < 10 THEN Zero + n ELSE UpperA + n - 10
IsHexDigit(c) == IsDigit(c) \/ c \in UpperA..(UpperA + 5) \/ c \in LowerA..(LowerA + 5)
HexValue(c) ==
  CASE IsDigit(c) -> c - Zero
    [] c >= LowerA -> c - LowerA + 10
    [] OTHER -> c - UpperA + 10
=============================================================================
