-------------------------- MODULE MCRoomAdmissions --------------------------
(* A member with funds for one call, and the operator, whose                 *)
(* own transactions make a batch provable when nobody else signs one.        *)
EXTENDS RoomAdmissions

CONSTANTS alice, operator

Tx(s, n, v, e) == [sender |-> s, nonce |-> n, value |-> v, entry |-> e, runs |-> TRUE]
Refused(s, n) == [Tx(s, n, 0, "member") EXCEPT !.runs = FALSE]

MCSenders == {alice, operator}

\* Two calls of alice of which Funds pays one, a call of alice outside the
\* policy that fits once both have run, and bytes that do not decode.
MCAlice ==
    {Tx(alice, 0, 1, "member"), Tx(alice, 1, 1, "member"),
     Tx(alice, 2, 0, "outside"), Tx(alice, 0, 0, "undecodable")}

\* A call of the operator that the EVM refuses, or that breaks a rule while it
\* runs, may be forced as well.
MCRequested == MCAlice \cup {Refused(operator, 1)}

MCTxs ==
    MCRequested \cup {Tx(operator, n, 0, "member") : n \in 0..((MaxBatches - 1) * MaxTxs + 1)}

=============================================================================
