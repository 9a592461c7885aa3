------------------------ MODULE MCOnChainHeartbeat ------------------------
(* Small instances of OnChainHeartbeat. *)
EXTENDS OnChainHeartbeat
=============================================================================
