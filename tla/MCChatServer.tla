---------------------------- MODULE MCChatServer ----------------------------
EXTENDS ChatServer, TLC

CONSTANTS c1, c2, c3, alice

TwoConns == {c1, c2}
ThreeConns == {c1, c2, c3}
\* accept() returns descriptors above the listening socket (3).
TwoFds == {4, 5}
ThreeFds == {4, 5, 6}
\* Connections are interchangeable: accept() takes any that arrives.
ConnSymmetry == Permutations(ThreeConns)
=============================================================================
