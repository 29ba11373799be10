---------------------------- MODULE MCLunixLogger ----------------------------
EXTENDS LunixLogger

\* Two or three children (-s 1 2 -m batt, -s 0 1 2 -m temp) logging for
\* one second, with at most one fault.
TwoChildren == 2
OneSecond == 1
OneFault == 1
ThreeChildren == 3
=============================================================================
