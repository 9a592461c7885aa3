----------------------------- MODULE JobLedger -----------------------------
(***************************************************************************)
(* What the prove queue, the agents and the provers promise together: a    *)
(* job is settled once, as done only after some prover answered it with a  *)
(* proof, as failed only after some prover refused it.  Everything else -  *)
(* leases, retries, crashes, lost and late reports - is invisible here.    *)
(***************************************************************************)
CONSTANT Jobs

VARIABLES
    proved,  \* jobs some prover answered with a proof
    refused, \* jobs some prover answered with a refusal of the request
    settled  \* [Jobs -> {"open", "done", "failed"}]

ledgerVars == <<proved, refused, settled>>

Init ==
    /\ proved = {} /\ refused = {}
    /\ settled = [j \in Jobs |-> "open"]

Prove(j) == proved' = proved \cup {j} /\ UNCHANGED <<refused, settled>>
Refuse(j) == refused' = refused \cup {j} /\ UNCHANGED <<proved, settled>>

Settle(j, as) ==
    /\ settled[j] = "open"
    /\ settled' = [settled EXCEPT ![j] = as]
    /\ UNCHANGED <<proved, refused>>

Next ==
    \E j \in Jobs :
        \/ Prove(j)
        \/ Refuse(j)
        \/ j \in proved /\ Settle(j, "done")
        \/ j \in refused /\ Settle(j, "failed")

Spec == Init /\ [][Next]_ledgerVars
=============================================================================
