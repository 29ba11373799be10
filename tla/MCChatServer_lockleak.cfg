CONSTANTS
    c1 = c1
    c2 = c2
    c3 = c3
    alice = alice
    None = None
    Encrypting = FALSE
    Conns <- ThreeConns
    Fds <- ThreeFds
    Names = {alice}
SPECIFICATION Spec
SYMMETRY ConnSymmetry
CHECK_DEADLOCK FALSE
INVARIANT LockHeldInSend
