------------------------------ MODULE HexToBin ------------------------------
(***************************************************************************)
(* compat_hex_to_bin of compat-2.6.35.c over every value of its argument,  *)
(* a plain char, which is signed on the architectures the backport builds *)
(* for; the kernel's tolower (lib/ctype.c) folds ASCII and Latin-1 capitals *)
(* of the unsigned char.  A state is one call: the character and the      *)
(* result.                                                                 *)
(***************************************************************************)
EXTENDS Integers

Chars == -128..127

VARIABLES ch, res
vars == <<ch, res>>

\* conversions between char and unsigned char
Unsigned(c) == (c + 256) % 256
Signed(u) == IF u > 127 THEN u - 256 ELSE u

\* _ctype: the capitals are 'A'..'Z' and Latin-1 0xC0..0xDE but 0xD7
IsUpper(u) == u \in 65..90 \/ (u \in 192..222 /\ u # 215)

\* tolower(c): __tolower((unsigned char)c), back in a (signed) char
ToLower(c) == LET u == Unsigned(c) IN Signed(IF IsUpper(u) THEN u + 32 ELSE u)

\* fault: the letter's value taken from the capital's base
LetterValueUpper(c) == c - 65 + 10

\* return ch - 'a' + 10;
LetterValue(c) == c - 97 + 10

\* if ((ch >= '0') && (ch <= '9')) return ch - '0'; ch = tolower(ch);
\* if ((ch >= 'a') && (ch <= 'f')) return ch - 'a' + 10; return -1;
CompatHexToBin(c) ==
    IF c >= 48 /\ c <= 57 THEN c - 48
    ELSE LET l == ToLower(c) IN
         IF l >= 97 /\ l <= 102 THEN LetterValue(l) ELSE -1

TypeOK == ch \in Chars /\ res \in -1..15

Init == ch = 0 /\ res = CompatHexToBin(0)

\* a call with any char
Convert == \E c \in Chars : ch' = c /\ res' = CompatHexToBin(c)

Next == Convert

Spec == Init /\ [][Next]_vars
-----------------------------------------------------------------------------
\* the digit each character of "0123456789abcdefABCDEF" stands for
Digits == [c \in 48..57 \cup 65..70 \cup 97..102 |->
              IF c <= 57 THEN c - 48 ELSE IF c <= 70 THEN c - 55 ELSE c - 87]

\* The comment of hex_to_bin: the value of a hex digit, either case, and
\* -1 for every other char, the negative (non-ASCII) chars and the Latin-1
\* letters tolower folds included.
ConvertsAsDocumented ==
    res = IF ch \in DOMAIN Digits THEN Digits[ch] ELSE -1

=============================================================================
