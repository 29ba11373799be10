---------------------------- MODULE MCLunixChrdev ----------------------------
(***************************************************************************)
(* Model values and definitions for checking LunixChrdev with TLC.         *)
(***************************************************************************)
EXTENDS LunixChrdev, SequencesExt, TLC

CONSTANTS s0, BATT, TEMP, f1, f2, t1, t2

\* One reader with its own open file, as every logger child of
\* lunix-user.c has (it opens /dev/lunix<S>-<kind> itself after fork).
\* Readers of different files share only the producer's slots, which they
\* never write, so one reader and one file cover their interleavings.
OwnFile == [t \in {t1} |-> f1]

\* Two threads sharing one open file (threads of one process, or a
\* descriptor inherited across fork).
SharedFile == [t \in {t1, t2} |-> f1]
ThreadSymmetry == Permutations({t1, t2})

\* lunix-lookup.h is not in src/: two table entries per kind, chosen so
\* that the formatted records have different lengths ("3.123" against
\* "10.000" is 5 against 6 characters).
Tables == [k \in {BATT, TEMP} |->
             IF k = BATT THEN [c \in {0, 1} |-> IF c = 0 THEN 3123 ELSE 3999]
                         ELSE [c \in {0, 1} |-> IF c = 0 THEN 10000 ELSE 9999]]

\* Values of the three lookup tables (lunix-lookup.h is not in src/):
\* every value from 0.000 to 12.000, so integer parts of 1 and 2 digits
\* and every fractional part.
FormatValues == 0..12000

(***************************************************************************)
(* The record formatting the driver runs in lunix_chrdev_state_update,    *)
(* checked over every table value: the buffer holds the text spec.md 4.2  *)
(* prescribes with its last character replaced by NUL, and buf_lim is the *)
(* full length of that text.  FormatsMatchSpec is constant, so TLC         *)
(* evaluates it once; the invariant adds that every record a session holds *)
(* at a state (buf_lim > 0) is of that shape for some table value.  The    *)
(* digit arithmetic of lines 104-107 and the length taken from the first  *)
(* snprintf (line 109) are right; the only damage is the one byte the     *)
(* second snprintf (line 110) gives to its terminator.                    *)
(***************************************************************************)
SpecRecord(v) == Front(SpecText(v)) \o <<NUL>>

FormatsMatchSpec ==
    \A v \in FormatValues :
        /\ FormatLim(v) = Len(SpecText(v))
        /\ FormatBuf(v) = SpecRecord(v)

FormatDropsOnlyLastChar ==
    /\ FormatsMatchSpec
    /\ \A f \in Files :
          buf_lim[f] > 0 =>
            \E v \in {Lookup[k][c] : k \in Kinds, c \in RawCodes} :
                /\ buf_lim[f] = Len(SpecText(v))
                /\ buf_data[f] = SpecRecord(v)
========================================================================
