\* A side left alone in accept() or dead is a real end of the programs.
CONSTANTS
    MaxLines <- TwoLines
    CryptEnable = TRUE
SPECIFICATION Spec
CHECK_DEADLOCK FALSE
INVARIANT NoLineLost
