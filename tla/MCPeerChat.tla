----------------------------- MODULE MCPeerChat -----------------------------
(***************************************************************************)
(* Bounds for checking PeerChat with TLC.                                  *)
(***************************************************************************)
EXTENDS PeerChat

\* Two lines per user: one can be left unread when its reader leaves (the
\* close then sends RST), and one more can be written into the dead
\* connection.
TwoLines == 2
=============================================================================
