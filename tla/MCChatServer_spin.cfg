CONSTANTS
    c1 = c1
    c2 = c2
    c3 = c3
    alice = alice
    None = None
    Encrypting = FALSE
    Conns <- TwoConns
    Fds <- TwoFds
    Names = {alice}
SPECIFICATION Spec
CHECK_DEADLOCK FALSE
PROPERTY SendCompletes
