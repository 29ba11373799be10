--------------------------- MODULE MCCryptoChrdev ---------------------------
EXTENDS CryptoChrdev, TLC

CONSTANTS t1, t2, t3

\* The host's descriptors for /dev/crypto (0-2 are its standard streams).
HostDescriptors == {3, 4, 5}
=============================================================================
