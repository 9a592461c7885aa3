--------------------------- MODULE RoomAdmissions ---------------------------
(***************************************************************************)
(* Transactions of a validity-only v5 room and the answers its batches     *)
(* give to the transactions that L1 forced into it and to the ones the     *)
(* operator signed a receipt for (room_v5/admission.rs, room_v5/mod.rs,    *)
(* txenv.rs, block.rs).                                                    *)
(*                                                                         *)
(* A batch carries a body, the transactions of its blocks in order.  Its   *)
(* policy's active members are the signers of that body, so which callers  *)
(* the policy knows is decided by the body itself.  A block and an index   *)
(* in it name a place in the body.  The deposits a batch credits before    *)
(* its first block are RoomEscrow's; here Funds stands for them.           *)
(***************************************************************************)
EXTENDS Integers, Sequences

CONSTANTS
    Senders,      \* accounts that sign transactions
    Txs,          \* raw transactions: [sender, nonce, value, entry, runs]
    Requested,    \* the ones that users force or ask a receipt for
    Funds,        \* what every sender owns at the start
    MaxBatches,   \* bound: batches of the room
    MaxTxs,       \* bound: transactions of a body (max_transactions_per_block)
    MaxForced,    \* bound: transactions forced on L1
    MaxReceipts   \* bound: receipts of the operator

(***************************************************************************)
(* entry tells apart what the guest tells apart in a raw transaction:      *)
(* bytes that do not decode, a call no rule of the policy allows, and a    *)
(* call that a rule allows to active members.  Every rule that an account  *)
(* without code can use names the active-member sentinel, because from_v5  *)
(* wants any other caller to be code-pinned.  runs says whether the EVM    *)
(* takes the transaction and no callback of the inspector and no access    *)
(* to undeclared state latches a violation while it executes.              *)
(***************************************************************************)
ASSUME TxAssumption ==
    Txs \subseteq [sender : Senders, nonce : Nat, value : Nat,
                   entry : {"undecodable", "outside", "member"}, runs : BOOLEAN]

ASSUME RequestedAssumption == Requested \subseteq Txs

ASSUME BoundAssumption ==
    /\ MaxTxs \in Nat \ {0}
    /\ {Funds, MaxBatches, MaxForced, MaxReceipts} \subseteq Nat

(***************************************************************************)
(* Txs is wide enough for an operator: some sender can sign a call without *)
(* value at every nonce that the bounds let it reach.  A body holds two    *)
(* transactions, because a batch that does not close its room has several  *)
(* blocks.                                                                 *)
(***************************************************************************)
ASSUME OperatorAssumption ==
    /\ MaxTxs >= 2
    /\ \E s \in Senders : \A n \in 0..((MaxBatches - 1) * MaxTxs + 1) :
         [sender |-> s, nonce |-> n, value |-> 0, entry |-> "member", runs |-> TRUE] \in Txs

VARIABLES
    room,      \* room[b+1]: nonces and balances after batch b (room[1]: genesis)
    bodies,    \* bodies[b]: what batch b executed, with statuses
    forced,    \* L1's queue of forced transactions
    answered,  \* answered[i]: outcome of forced transaction i
    receipts,  \* receipts signed by the operator
    accounted  \* accounted[i]: outcome of receipt i

vars == <<room, bodies, forced, answered, receipts, accounted>>

Statuses == {"success", "reverted", "rejected"}

Executions == [tx : Txs, status : {"success", "reverted"}]

Init ==
    /\ room = <<[nonce |-> [s \in Senders |-> 0],
                 balance |-> [s \in Senders |-> Funds]]>>
    /\ bodies = <<>>
    /\ forced = <<>> /\ answered = <<>>
    /\ receipts = <<>> /\ accounted = <<>>

(***************************************************************************)
(* The room's state and one body's effect on it.                           *)
(***************************************************************************)

Opening == room[Len(room)]

\* authenticated_callers: the signers of the body.
Callers(body) == {body[i].tx.sender : i \in DOMAIN body}

\* tx_env_from_raw: the bytes are one envelope of an admitted kind, for this
\* chain, without fees, and name their signer.
Decodes(tx) == tx.entry # "undecodable"

\* validate_transaction_entry under the policy whose active members are callers.
AllowsEntry(tx, callers) == tx.entry = "member" /\ tx.sender \in callers

\* What a nonce check and a balance check of the EVM see.
Payable(tx, state) ==
    /\ state.nonce[tx.sender] = tx.nonce
    /\ state.balance[tx.sender] >= tx.value

\* Mutant: a failed call does not consume the nonce.
Executed_revertKeepsNonce(e, state) ==
    IF e.status = "success"
    THEN [state EXCEPT !.nonce[e.tx.sender] = @ + 1,
                       !.balance[e.tx.sender] = @ - e.tx.value]
    ELSE state

\* A failed call keeps the sender's value but consumes the nonce.
Executed(e, state) ==
    [nonce |-> [state.nonce EXCEPT ![e.tx.sender] = @ + 1],
     balance |-> [state.balance EXCEPT
                    ![e.tx.sender] = IF e.status = "success" THEN @ - e.tx.value ELSE @]]

\* The states between the executions of a body: StateAfter(body, opening)[i] is
\* the state after the first i of them.
StateAfter(body, opening) ==
    LET after[i \in 0..Len(body)] ==
          IF i = 0 THEN opening ELSE Executed(body[i], after[i - 1])
    IN after

Terminal(body, opening) == StateAfter(body, opening)[Len(body)]

\* One transaction that does not decode, that the policy does not allow, that
\* the EVM refuses or that breaks a rule on its way makes the whole batch
\* unprovable.
Executable(body, opening) ==
    /\ body # <<>>
    /\ \A i \in DOMAIN body :
         /\ Decodes(body[i].tx)
         /\ AllowsEntry(body[i].tx, Callers(body))
         /\ Payable(body[i].tx, StateAfter(body, opening)[i - 1])
         /\ body[i].tx.runs

(***************************************************************************)
(* What a batch may answer.                                                *)
(***************************************************************************)

\* Mutant: a call outside the policy is no reason to reject a transaction.
ForcedRejection_ignoresPolicy(tx, callers, terminal) ==
    \/ ~Decodes(tx)
    \/ ~Payable(tx, terminal)

\* forced_rejection_reason_v5 finds one of its reasons.
ForcedRejection(tx, callers, terminal) ==
    \/ ~Decodes(tx)
    \/ ~AllowsEntry(tx, callers)
    \/ ~Payable(tx, terminal)

\* Mutant: the status of the execution is not compared.
Processed_hashOnly(body, tx, status) ==
    \/ status = "rejected"
    \/ \E i \in DOMAIN body : body[i].tx = tx

\* validate_processed_outcome_v5
Processed(body, tx, status) ==
    \/ status = "rejected"
    \/ \E i \in DOMAIN body : body[i] = [tx |-> tx, status |-> status]

ForcedAnswer(body, terminal, tx, status) ==
    /\ status = "rejected" => ForcedRejection(tx, Callers(body), terminal)
    /\ Processed(body, tx, status)

\* A receipt carries no raw transaction: the only rejection refused is one of
\* a transaction that the batch executed.
ReceiptAnswer(body, index, receipt, status) ==
    /\ receipt.maximum >= index
    /\ status = "rejected" => ~\E i \in DOMAIN body : body[i].tx = receipt.tx
    /\ Processed(body, receipt.tx, status)

\* validate_admissions_v5: fs and rs answer the next entries of the two queues,
\* in order.
Answerable(body, terminal, fs, rs) ==
    /\ \A i \in DOMAIN fs :
         ForcedAnswer(body, terminal, forced[Len(answered) + i], fs[i])
    /\ \A i \in DOMAIN rs :
         ReceiptAnswer(body, Len(bodies) + 1, receipts[Len(accounted) + i], rs[i])

Bodies == UNION {[1..n -> Executions] : n \in 1..MaxTxs}

\* Answers to the next entries of a queue, as many as the batch crosses.
Answers(queue, done) ==
    UNION {[1..n -> Statuses] : n \in 0..(Len(queue) - Len(done))}

Outcome(status) == [status |-> status, batch |-> Len(bodies) + 1]

\* execute_batch_v5_with_report: the composer chooses body and answers, the
\* guest refuses the batches that do not meet its conditions.
Batch ==
    /\ Len(bodies) < MaxBatches
    /\ \E body \in Bodies :
         LET terminal == Terminal(body, Opening)
         IN /\ Executable(body, Opening)
            /\ \E fs \in Answers(forced, answered), rs \in Answers(receipts, accounted) :
                 /\ Answerable(body, terminal, fs, rs)
                 /\ answered' = answered \o [i \in DOMAIN fs |-> Outcome(fs[i])]
                 /\ accounted' = accounted \o [i \in DOMAIN rs |-> Outcome(rs[i])]
            /\ room' = Append(room, terminal)
            /\ bodies' = Append(bodies, body)
    /\ UNCHANGED <<forced, receipts>>

(***************************************************************************)
(* Outside the guest: anyone forces bytes through L1, and the operator     *)
(* signs receipts that name the last batch that may account for them.      *)
(***************************************************************************)

ForceTransaction ==
    /\ Len(forced) < MaxForced
    /\ \E tx \in Requested : forced' = Append(forced, tx)
    /\ UNCHANGED <<room, bodies, answered, receipts, accounted>>

SignReceipt ==
    /\ Len(receipts) < MaxReceipts
    /\ \E tx \in Requested, maximum \in (Len(bodies) + 1)..MaxBatches :
         receipts' = Append(receipts, [tx |-> tx, maximum |-> maximum])
    /\ UNCHANGED <<room, bodies, forced, answered, accounted>>

Next == Batch \/ ForceTransaction \/ SignReceipt

Spec == Init /\ [][Next]_vars

-----------------------------------------------------------------------------

\* No sender ever runs two transactions with one nonce, in one batch or in two:
\* a transaction that is forced, admitted and included by the operator as well
\* runs once.
RanOnce ==
    \A b, c \in DOMAIN bodies : \A i \in DOMAIN bodies[b], j \in DOMAIN bodies[c] :
       <<b, i>> # <<c, j>> =>
         \/ bodies[b][i].tx.sender # bodies[c][j].tx.sender
         \/ bodies[b][i].tx.nonce # bodies[c][j].tx.nonce

RanIn(b, tx, status) ==
    \E i \in DOMAIN bodies[b] : bodies[b][i] = [tx |-> tx, status |-> status]

\* Under the policy of a batch's signers the transaction could follow the batch.
CouldFollow(b, tx) ==
    tx.entry = "member" /\ tx.sender \in Callers(bodies[b]) /\ Payable(tx, room[b + 1])

\* The answers of a batch, however its composer chose them, stay true of what it
\* did: a success or a failure is an execution of that very transaction, with
\* that status, in the batch that says so; a forced transaction that it rejects
\* could not follow it; and it did not run a receipt that it rejects
\* (validate_admissions_v5).  It may have run the forced transaction it rejects,
\* for a transaction that ran cannot follow: the code does not exclude that.
AnswersTrue ==
    /\ \A i \in DOMAIN answered :
         IF answered[i].status = "rejected"
         THEN ~CouldFollow(answered[i].batch, forced[i])
         ELSE RanIn(answered[i].batch, forced[i], answered[i].status)
    /\ \A i \in DOMAIN accounted :
         IF accounted[i].status = "rejected"
         THEN \A status \in {"success", "reverted"} :
                ~RanIn(accounted[i].batch, receipts[i].tx, status)
         ELSE RanIn(accounted[i].batch, receipts[i].tx, accounted[i].status)

\* The forced queue is never stuck: whatever was forced and whatever ran before,
\* some batch can answer the next forced transaction, by running it or by a
\* rejection that forced_rejection_reason_v5 derives.  A transaction that would
\* break a rule while it runs has neither its execution nor a reason of its own:
\* it is rejected by a batch that its sender signs nothing of, or that uses its
\* nonce.
ForcedNeverWedges ==
    Len(answered) < Len(forced) /\ Len(bodies) < MaxBatches =>
      \E body \in Bodies, status \in Statuses :
        /\ Executable(body, Opening)
        /\ Answerable(body, Terminal(body, Opening), <<status>>, <<>>)

\* The comment on forced_rejection_reason_v5: a reason is found only for a
\* transaction that "could never be part of this batch", and "a transaction the
\* sender can still execute" in the terminal state is censored, not rejected.
\* A rejected transaction could thus not have been put at the end of the body of
\* the batch that rejects it.
RejectedCouldNotRun ==
    \A i \in DOMAIN answered :
      LET b == answered[i].batch
      IN answered[i].status = "rejected" /\ Len(bodies[b]) < MaxTxs =>
           LET longer == Append(bodies[b], [tx |-> forced[i], status |-> "success"])
           IN ~ /\ forced[i].entry = "member" /\ forced[i].runs
                /\ AllowsEntry(forced[i], Callers(longer))
                /\ Payable(forced[i], room[b + 1])

=============================================================================
