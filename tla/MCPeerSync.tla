----------------------------- MODULE MCPeerSync -----------------------------
(* PeerSync for TLC.                                                        *)
EXTENDS PeerSync, TLC

\* Handlers are interchangeable, and so are connections.
HandlerAndConnSymmetry == Permutations(Handler) \cup Permutations(Conn)
=============================================================================
