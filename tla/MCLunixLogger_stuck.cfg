\* A stopped child left behind by a failed parent (see AllEnd) is a real
\* end state of the program, so deadlock is not an error here.
CONSTANTS
    N <- TwoChildren
    TimeOfLog <- OneSecond
    MaxFaults <- OneFault
SPECIFICATION Spec
CHECK_DEADLOCK FALSE
PROPERTY AllEnd
