CONSTANTS
    t1 = t1
    t2 = t2
    t3 = t3
    None = None
    Threads = {t1, t2}
    HostFds <- HostDescriptors
SPECIFICATION Spec
INVARIANT HostFdsHeld
