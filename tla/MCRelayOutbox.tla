--------------------------- MODULE MCRelayOutbox ---------------------------
(***************************************************************************)
(* Values of RelayOutbox's constants for model checking.                   *)
(***************************************************************************)
EXTENDS RelayOutbox, TLC

CONSTANTS p1, p2, m1, m2

OnePeer == {p1}
TwoPeers == {p1, p2}
OneMessage == {m1}
TwoMessages == {m1, m2}

\* Messages and peers are interchangeable; used by the safety runs only.
PeerAndMessageSymmetry == Permutations(Peers) \cup Permutations(Msgs)
=============================================================================
