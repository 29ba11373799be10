----------------------------- MODULE LunixFormat -----------------------------
(***************************************************************************)
(* The text formatting done by lunix_chrdev_state_update                   *)
(* (src/lunix/lunix-chrdev.c, lines 95-112): a fixed-point value v in      *)
(* thousandths, read from a lookup table, is printed with                  *)
(*   "%ld.%d%d%d", v/1000, hundreds, tens, units                           *)
(* once into a 20-byte scratch buffer to learn its length L, and then      *)
(* again into the session buffer with snprintf size L.  A text is a        *)
(* sequence of one-character strings; NUL stands for the '\0' byte.        *)
(***************************************************************************)
EXTENDS Integers, Sequences

NUL == "NUL"
Newline == "LF"

\* C integer division and remainder truncate toward zero (C99 6.5.5).
CDiv(a, b) == IF a >= 0 THEN a \div b ELSE -((-a) \div b)
CMod(a, b) == a - b * CDiv(a, b)

DigitChar(d) == <<"0", "1", "2", "3", "4", "5", "6", "7", "8", "9">>[d + 1]

\* The characters printf produces for a signed integer under %d / %ld.
RECURSIVE Unsigned(_)
Unsigned(n) == IF n < 10 THEN <<DigitChar(n)>>
                         ELSE Unsigned(n \div 10) \o <<DigitChar(n % 10)>>
DecimalText(n) == IF n < 0 THEN <<"-">> \o Unsigned(-n) ELSE Unsigned(n)

\* Lines 104-107: the three fractional digits, computed from v % 1000.
Subdecimal(v) == CMod(v, 1000)
Hundreds(v) == CDiv(Subdecimal(v), 100)
\* Mutant: tens computed without removing the hundreds.
Tens_NoHundreds(v) == CDiv(Subdecimal(v), 10)
Tens(v) == CDiv(Subdecimal(v) - Hundreds(v) * 100, 10)
Units(v) == Subdecimal(v) - Hundreds(v) * 100 - Tens(v) * 10

\* Line 109: the full text "%ld.%d%d%d" would have; its length is just_written.
RecordText(v) ==
    DecimalText(CDiv(v, 1000)) \o <<".">>
        \o DecimalText(Hundreds(v)) \o DecimalText(Tens(v)) \o DecimalText(Units(v))

\* snprintf(buf, size, ...) stores at most size-1 characters and a NUL,
\* and returns the length of the whole text.
SNPrintf(text, size) ==
    IF size = 0 THEN <<>>
    ELSE SubSeq(text, 1, IF Len(text) < size THEN Len(text) ELSE size - 1) \o <<NUL>>

\* Lines 110-112: the second snprintf, with size just_written, fills
\* buf_data; buf_lim becomes 0 + just_written.
FormatBuf(v) == SNPrintf(RecordText(v), Len(RecordText(v)))
FormatLim(v) == Len(RecordText(v))

(***************************************************************************)
(* Reference: the text spec.md section 4.2 prescribes, the signed integer  *)
(* part, a point and exactly three zero-padded fractional digits.          *)
(***************************************************************************)
AbsVal(v) == IF v < 0 THEN -v ELSE v
SpecText(v) ==
    LET a == AbsVal(v) IN
    (IF v < 0 THEN <<"-">> ELSE <<>>)
        \o Unsigned(a \div 1000) \o <<".">>
        \o <<DigitChar((a % 1000) \div 100), DigitChar((a % 100) \div 10), DigitChar(a % 10)>>
=============================================================================
