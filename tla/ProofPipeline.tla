--------------------------- MODULE ProofPipeline ---------------------------
(***************************************************************************)
(* From a room on L1 to a batch that L1 accepts: the host prepares the     *)
(* batch (live_prepare.rs), proves it in stages (commands_v5.rs,           *)
(* hosting.rs, receipt.rs), wraps or aggregates receipts (wrap_v5.rs,      *)
(* hosting.rs), and L1 checks one seal.  The guest (methods/guest main.rs) *)
(* decodes the same bytes on its own and commits one statement.            *)
(*                                                                         *)
(* L1 and the RISC Zero verifier are external.  Anyone may run the guest:  *)
(* receipts also come from hosts that check nothing.                       *)
(*                                                                         *)
(* One cursor stands for the inbox, admission, forced and import cursors,  *)
(* which advance alike; a root or a policy hash that prepare_input copies  *)
(* from the opening facts is left out.                                     *)
(***************************************************************************)
EXTENDS Commitments, BlobStatements

CONSTANTS
    Rooms,         \* room ids, positive
    Image,         \* the embedded program
    Requests,      \* for each room, requests to prepare: [blocks, admissions, deadline,
                   \*   terminal, close] with blocks [count, post, sound, data, size] and
                   \*   admissions a sequence of [deadline, lastBatch, bonded]
    Window,        \* maximum_admission_window
    Crafted,       \* batch inputs nobody prepared: [journal, blocks]
    Colds,         \* cold templates: [template, root, policyHash, program, valid]
    Strays,        \* receipts that exist before the system starts
    FirstHeights,  \* L2 heights of the rooms when it starts
    Closings,      \* rooms that L1 may close for recovery
    ModesOf,       \* for each kind of witness, the proof modes that are requested
    MaxWord,       \* largest u64
    MaxSize,       \* MAX_BATCH_WITNESS_BYTES_V4
    MaxNow,        \* bound: L1 blocks
    MaxPrepared,   \* bound: prepared batches
    MaxReceipts,   \* bound: receipts
    MaxSettled     \* bound: batches L1 accepts

\* The types of the decoded requests and inputs.
ASSUME InputAssumption ==
    /\ \A r \in Rooms : FirstHeights[r] \in Nat
    /\ \A r \in Rooms : \A q \in Requests[r] :
         /\ q.blocks.count \in Nat /\ q.blocks.data \in Seq(Nat)
         /\ q.admissions \in Seq([deadline : Nat, lastBatch : Nat, bonded : BOOLEAN])
         /\ q.deadline \in Nat
    /\ \A i \in Crafted :
         /\ i.journal.data \in Seq(Nat)
         /\ i.journal.batch \in Nat /\ i.journal.end \in Nat /\ i.journal.after \in Nat
         /\ i.journal.deadline \in Nat
         /\ i.journal.admissions
              \in Seq([deadline : Nat, lastBatch : Nat, bonded : BOOLEAN])

VARIABLES
    l1,        \* [now, rooms]
    prepared,  \* results of prepare-batch: [opening, input]
    job,       \* the request being proved, or <<>>
    receipts,  \* receipts somebody holds
    settled    \* what L1 accepted: [journal, at, blobs]

vars == <<l1, prepared, job, receipts, settled>>

Idle == <<>>

Init ==
    /\ l1 = [now |-> 1,
             rooms |-> [r \in Rooms |-> [batch |-> 0, root |-> 1, height |-> FirstHeights[r],
                                         cursor |-> 0, state |-> 1]]]
    /\ prepared = {}
    /\ job = Idle
    /\ receipts = Strays
    /\ settled = {}

(***************************************************************************)
(* Preparation.                                                            *)
(***************************************************************************)

\* Mutant: a cursor at the largest word starts again at zero.
Advance_wraps(value, count) == (value + count) % (MaxWord + 1)

\* checked_advance and checked_add; the result is refused past MaxWord.
Advance(value, count) == value + count

InWord(value) == value \in 0..MaxWord

\* validate_admission_envelopes for one record.  bonded: signed by the room's
\* admission signer in its bond epoch, with the service bond in place.
AdmissionOk(a, opening, request) ==
    /\ a.bonded
    /\ a.lastBatch >= opening.batch + 1
    /\ a.deadline >= request.deadline
    /\ a.deadline <= opening.now + Window

\* The journal prepare_input derives from the opening facts and the request.
JournalOf(opening, request) ==
    [room |-> opening.room, program |-> Image,
     batch |-> Advance(opening.batch, 1),
     start |-> Advance(opening.height, 1),
     end |-> Advance(Advance(opening.height, 1), request.blocks.count - 1),
     pre |-> opening.root, post |-> request.blocks.post,
     before |-> opening.cursor, after |-> Advance(opening.cursor, Len(request.admissions)),
     admissions |-> request.admissions,
     deadline |-> request.deadline, close |-> request.close,
     data |-> request.blocks.data]

\* prepare_input returns an input.
PrepareOk(opening, request) ==
    LET journal == JournalOf(opening, request)
    IN /\ request.terminal => request.close
       /\ opening.state = IF request.terminal THEN 2 ELSE 1
       /\ request.blocks.count > 0
       /\ \A word \in {journal.batch, journal.start, journal.end, journal.after} : InWord(word)
       /\ request.deadline > opening.now
       /\ \A k \in DOMAIN request.admissions :
            AdmissionOk(request.admissions[k], opening, request)

\* Mutant: the guest leaves the time of an admission to the host.
AdmissionsInForce_counted(journal) == journal.after - journal.before = Len(journal.admissions)

\* What execute_batch_v5 asks of the admissions of a batch, whoever prepared it.
AdmissionsInForce(journal) ==
    /\ journal.after - journal.before = Len(journal.admissions)
    /\ \A k \in DOMAIN journal.admissions :
         /\ journal.admissions[k].lastBatch >= journal.batch
         /\ journal.admissions[k].deadline >= journal.deadline

\* execute_batch_v5 accepts an input whose encoding has this many bytes.
StfAccepts(input, size) ==
    input.blocks.sound /\ size <= MaxSize /\ AdmissionsInForce(input.journal)

\* cmd_prepare_live_room_batch: it executes the input before its length is known.
Prepare(room, request) ==
    LET opening == [room |-> room, now |-> l1.now, batch |-> l1.rooms[room].batch,
                    root |-> l1.rooms[room].root, height |-> l1.rooms[room].height,
                    cursor |-> l1.rooms[room].cursor, state |-> l1.rooms[room].state]
        input == [journal |-> JournalOf(opening, request), blocks |-> request.blocks]
    IN /\ Cardinality(prepared) < MaxPrepared
       /\ PrepareOk(opening, request)
       /\ StfAccepts(input, 0)
       /\ prepared' = prepared \cup {[opening |-> opening, input |-> input]}
       /\ UNCHANGED <<l1, job, receipts, settled>>

(***************************************************************************)
(* Witnesses and the guest.                                                *)
(***************************************************************************)

\* Framed bytes.  padded: bytes follow the encoding; sized: the encoding holds a
\* length of its own.
Bytes(magic, input) == [magic |-> magic, input |-> input, padded |-> FALSE, sized |-> FALSE]

Verifies(receipt, program) ==
    receipt.rep \in {"composite", "succinct", "groth16"} /\ receipt.program = program

Claimed(program, statement, held) ==
    \E r \in held : Verifies(r, program) /\ r.statement = statement

\* Mutant: the guest takes the claims of the members on trust.
MembersVerified_trusting(members, assumptions) == TRUE

\* env::verify for every member.
MembersVerified(members, assumptions) ==
    \A k \in DOMAIN members :
      /\ Claimed(members[k].program, members[k].journalHash, assumptions)
      /\ members[k].equivalence # <<>> =>
           Claimed(members[k].equivalence, members[k].availability, assumptions)

\* The statement a witness is about.
Statement(bytes) ==
    CASE bytes.magic = "room"      -> HashBatchJournal(bytes.input.journal)
      [] bytes.magic = "cold"      -> ColdTemplateStatement(bytes.input, bytes)
      [] bytes.magic = "blob"      -> DataAvailabilityStatement(bytes.input)
      [] bytes.magic = "aggregate" -> AggregateStatement(bytes.input)

\* The guest's main does not panic: strict_bincode, then the validation of the
\* kind its magic names.
GuestAccepts(bytes, assumptions) ==
    /\ ~bytes.padded
    /\ CASE bytes.magic = "room"      -> StfAccepts(bytes.input, bytes.input.blocks.size)
         [] bytes.magic = "cold"      -> bytes.input.valid
         [] bytes.magic = "blob"      -> EquivalenceOk(bytes.input)
         [] bytes.magic = "aggregate" -> AggregateOk(bytes.input)
                                         /\ MembersVerified(bytes.input, assumptions)

(***************************************************************************)
(* Requests to prove.                                                      *)
(***************************************************************************)

ProofModes == {"succinct", "groth16"}

Accepted(bytes, mode, assumptions, statement) ==
    [pc |-> "accepted", bytes |-> bytes, mode |-> mode, assumptions |-> assumptions,
     expected |-> statement, receipt |-> <<>>]

\* Mutant: any bytes that decode are accepted.
Canonical_decodes(bytes) == TRUE

\* The supplied bytes are the encoding of what they decode to.
Canonical(bytes) == ~bytes.padded /\ ~bytes.sized

\* encoded_witness_bytes, set by room_witness_from_stdin.
NativeSize(input) == input.blocks.size

\* Inputs of room batches that somebody can name.
RoomInputs == {p.input : p \in prepared} \cup Crafted

\* room_witness_from_stdin and cmd_prove_room_v5 up to the composite proof.
ProveRoom(input, mode) ==
    \E padded, sized \in BOOLEAN :
      LET bytes == [Bytes("room", input) EXCEPT !.padded = padded, !.sized = sized]
      IN /\ job = Idle
         /\ Canonical(bytes)
         /\ input.journal.program = Image
         /\ StfAccepts(input, NativeSize(input))
         /\ job' = Accepted(bytes, mode, {}, HashBatchJournal(input.journal))
         /\ UNCHANGED <<l1, prepared, receipts, settled>>

\* cold_template_witness_from_stdin returns a witness.
ColdWitnessOk(bytes) == Canonical(bytes) /\ bytes.input.program = Image

\* cmd_prove_cold_template_v5 up to the composite proof.
ProveCold(cold, mode) ==
    LET bytes == Bytes("cold", cold)
    IN /\ job = Idle
       /\ ColdWitnessOk(bytes)
       /\ cold.valid
       /\ job' = Accepted(bytes, mode, {}, ColdTemplateStatement(cold, bytes))
       /\ UNCHANGED <<l1, prepared, receipts, settled>>

\* A witness about the data of a batch in these blobs.
Equivalence(journal, data, start, blobs) ==
    LET draft == [room |-> journal.room, journalHash |-> HashBatchJournal(journal),
                  data |-> data, start |-> start,
                  commitments |-> [b \in DOMAIN blobs |-> Commitment(blobs[b])]]
        points == [b \in DOMAIN blobs |-> Challenge(draft, b)]
    IN [room |-> draft.room, journalHash |-> draft.journalHash, data |-> data,
        start |-> start, commitments |-> draft.commitments, points |-> points,
        evaluations |-> [b \in DOMAIN blobs |-> Opening(blobs[b], points[b])]]

\* prepare_data_availability_bundle_v1: everything is derived from the data; what
\* the caller supplies besides has to be equal.
Bundle(journal, start) ==
    Equivalence(journal, journal.data, start, CanonicalBlobs(journal.data))

\* cmd_prove_data_availability_v1
ProveBlob(journal, start, mode) ==
    LET input == Bundle(journal, start)
    IN /\ job = Idle
       /\ EquivalenceOk(input)
       /\ job' = Accepted(Bytes("blob", input), mode, {}, DataAvailabilityStatement(input))
       /\ UNCHANGED <<l1, prepared, receipts, settled>>

Member(journal, statement) ==
    [room |-> journal.room, program |-> Image, journalHash |-> HashBatchJournal(journal),
     equivalence |-> IF statement = <<>> THEN <<>> ELSE Image,
     availability |-> statement]

\* aggregate_assumptions: one receipt for every claim of the members.
AssumptionsFor(members, held) ==
    {r \in held : \E k \in DOMAIN members :
       \/ Verifies(r, members[k].program) /\ r.statement = members[k].journalHash
       \/ /\ members[k].equivalence # <<>>
          /\ Verifies(r, members[k].equivalence) /\ r.statement = members[k].availability}

\* cmd_prove_aggregate_v1
ProveAggregate(members, mode) ==
    /\ job = Idle
    /\ AggregateOk(members)
    /\ MembersVerified(members, receipts)
    /\ job' = Accepted(Bytes("aggregate", members), mode, AssumptionsFor(members, receipts),
                       AggregateStatement(members))
    /\ UNCHANGED <<l1, prepared, receipts, settled>>

(***************************************************************************)
(* Stages of a proof.  Every stage may fail; a failed job leaves nothing.  *)
(***************************************************************************)

Receipt(rep, statement) == [rep |-> rep, program |-> Image, statement |-> statement]

\* prove_with_opts: the guest runs on the bytes.
Compose ==
    /\ job # Idle /\ job.pc = "accepted"
    /\ IF GuestAccepts(job.bytes, job.assumptions)
       THEN job' = [job EXCEPT !.pc = "composite",
                               !.receipt = Receipt("composite", Statement(job.bytes))]
       ELSE job' = Idle
    /\ UNCHANGED <<l1, prepared, receipts, settled>>

\* compress_receipt
Compress ==
    /\ job # Idle /\ job.pc = "composite"
    /\ Verifies(job.receipt, Image)
    /\ job' = [job EXCEPT !.receipt.rep = "succinct",
                          !.pc = IF job.mode = "groth16" THEN "succinct" ELSE "sealed"]
    /\ UNCHANGED <<l1, prepared, receipts, settled>>

\* verify_identity_p254_receipt
IdentityOk(receipt) == receipt.rep = "identity" /\ receipt.program = Image

\* A receipt of the program comes from a run of the program (external: RISC Zero),
\* and nobody ran it before.
ASSUME StrayAssumption ==
    /\ Image # <<>>
    /\ \A r \in Strays : ~Verifies(r, Image) /\ ~IdentityOk(r)

\* compress_groth16_with_verified_identity: identity, its verification, wrapper.
Wrap ==
    /\ job # Idle /\ job.pc \in {"succinct", "identity"}
    /\ IF job.pc = "succinct" THEN Verifies(job.receipt, Image) ELSE IdentityOk(job.receipt)
    /\ job' = IF job.pc = "succinct"
              THEN [job EXCEPT !.receipt.rep = "identity", !.pc = "identity"]
              ELSE [job EXCEPT !.receipt.rep = "groth16", !.pc = "sealed"]
    /\ UNCHANGED <<l1, prepared, receipts, settled>>

\* The last self-verification, require_committed_journal_hash and the answer.
Respond ==
    /\ job # Idle /\ job.pc = "sealed"
    /\ Cardinality(receipts) < MaxReceipts
    /\ receipts' = IF Verifies(job.receipt, Image) /\ job.receipt.statement = job.expected
                   THEN receipts \cup {job.receipt} ELSE receipts
    /\ job' = Idle
    /\ UNCHANGED <<l1, prepared, settled>>

Fail ==
    /\ job # Idle
    /\ job' = Idle
    /\ UNCHANGED <<l1, prepared, receipts, settled>>

Held(receipt) ==
    /\ Cardinality(receipts) < MaxReceipts
    /\ receipts' = receipts \cup {receipt}
    /\ UNCHANGED <<l1, prepared, job, settled>>

\* cmd_wrap_groth16_v5 and cmd_wrap_identity_p254_v5
WrapSuccinct(receipt, rep) ==
    /\ Verifies(receipt, Image) /\ receipt.rep = "succinct"
    /\ Held(Receipt(rep, receipt.statement))

\* cmd_wrap_groth16_from_p254_v5
WrapIdentity(receipt) ==
    /\ IdentityOk(receipt)
    /\ Held(Receipt("groth16", receipt.statement))

\* Somebody runs the guest on bytes of their own and wraps what it commits.
ForeignProve(bytes) ==
    /\ GuestAccepts(bytes, receipts)
    /\ Held(Receipt("groth16", Statement(bytes)))

(***************************************************************************)
(* Verification.                                                           *)
(***************************************************************************)

\* cmd_verify_room_v5
VerifyRoom(journal, receipt) ==
    /\ journal.program = Image
    /\ Verifies(receipt, Image)
    /\ receipt.statement = HashBatchJournal(journal)

\* cmd_verify_cold_template_v5: the witness is framed again before it is hashed.
VerifyCold(cold, receipt) ==
    /\ cold.program = Image
    /\ Verifies(receipt, Image)
    /\ receipt.statement = ColdTemplateStatement(cold, Bytes("cold", cold))

\* cmd_verify_aggregate_v1
VerifyAggregate(members, receipt) ==
    /\ AggregateOk(members)
    /\ Verifies(receipt, Image)
    /\ receipt.statement = AggregateStatement(members)

(***************************************************************************)
(* L1 (external).                                                          *)
(***************************************************************************)

Tick ==
    /\ l1.now < MaxNow
    /\ l1' = [l1 EXCEPT !.now = @ + 1]
    /\ UNCHANGED <<prepared, job, receipts, settled>>

RecoveryClose(room) ==
    /\ l1.rooms[room].state = 1
    /\ l1' = [l1 EXCEPT !.rooms[room].state = 2]
    /\ UNCHANGED <<prepared, job, receipts, settled>>

\* The journal continues the room and is in time.
Continues(journal, facts, now) ==
    /\ journal.program = Image
    /\ now <= journal.deadline
    /\ journal.batch = facts.batch + 1
    /\ journal.start = facts.height + 1 /\ journal.end >= journal.start
    /\ journal.pre = facts.root
    /\ journal.before = facts.cursor /\ journal.after >= journal.before
    /\ facts.state = 1 \/ (facts.state = 2 /\ journal.close)

After(journal, facts) ==
    [batch |-> journal.batch, root |-> journal.post, height |-> journal.end,
     cursor |-> journal.after, state |-> IF journal.close THEN 3 ELSE facts.state]

\* The transaction publishes blobs, and L1 rebuilds the statement about them from
\* the journal, the manifest and the openings it checks.
Publication(journal, start, blobs) == Equivalence(journal, journal.data, start, blobs)

Sealed(statement) == Receipt("groth16", statement) \in receipts

\* A batch with its data in calldata (blobs = <<>>) or in blobs.
SubmitBatch(journal, blobs) ==
    LET facts == l1.rooms[journal.room]
    IN /\ Cardinality(settled) < MaxSettled
       /\ Continues(journal, facts, l1.now)
       /\ Sealed(HashBatchJournal(journal))
       /\ blobs # <<>> =>
            Sealed(DataAvailabilityStatement(Publication(journal, 0, blobs)))
       /\ l1' = [l1 EXCEPT !.rooms[journal.room] = After(journal, facts)]
       /\ settled' = settled \cup {[journal |-> journal, at |-> l1.now, blobs |-> blobs]}
       /\ UNCHANGED <<prepared, job, receipts>>

\* Members that no longer continue their room are left out.
SubmitAggregate(batches, members) ==
    LET applied == {k \in DOMAIN batches :
                      Continues(batches[k].journal, l1.rooms[batches[k].journal.room], l1.now)}
        of(r) == {k \in applied : batches[k].journal.room = r}
    IN /\ Cardinality(settled) < MaxSettled
       /\ applied # {}
       /\ Sealed(AggregateStatement(members))
       /\ l1' = [l1 EXCEPT !.rooms =
                   [r \in Rooms |-> IF of(r) = {} THEN @[r]
                                    ELSE After(batches[CHOOSE k \in of(r) : TRUE].journal, @[r])]]
       /\ settled' = settled \cup
            {[journal |-> batches[k].journal, at |-> l1.now, blobs |-> batches[k].blobs] :
               k \in applied}
       /\ UNCHANGED <<prepared, job, receipts>>

(***************************************************************************)
(* What parties may do next.                                               *)
(***************************************************************************)

Journals == {i.journal : i \in RoomInputs}

BlobChoices == {CanonicalBlobs(j.data) : j \in Journals}

\* A batch of an aggregate: its journal and, when its data is in blobs, the blobs.
Batches == [journal : Journals, blobs : {<<>>} \cup BlobChoices]

MemberOf(batch) ==
    Member(batch.journal,
           IF batch.blobs = <<>> THEN <<>>
           ELSE DataAvailabilityStatement(Publication(batch.journal, 0, batch.blobs)))

\* One batch, or two with their data in calldata.
Lists ==
    {<<b>> : b \in Batches}
      \cup {<<b, c>> : b, c \in {d \in Batches : d.blobs = <<>>}}

MembersOf(list) == [k \in DOMAIN list |-> MemberOf(list[k])]

Host ==
    \/ \E r \in Rooms : \E request \in Requests[r] : Prepare(r, request)
    \/ /\ job = Idle
       /\ \/ \E i \in RoomInputs, mode \in ModesOf["room"] : ProveRoom(i, mode)
          \/ \E c \in Colds, mode \in ModesOf["cold"] : ProveCold(c, mode)
          \/ \E j \in Journals, mode \in ModesOf["blob"] : ProveBlob(j, 0, mode)
          \/ \E list \in Lists, mode \in ModesOf["aggregate"] :
               ProveAggregate(MembersOf(list), mode)
    \/ Compose \/ Compress \/ Wrap \/ Respond \/ Fail
    \/ \E r \in receipts, rep \in {"identity", "groth16"} : WrapSuccinct(r, rep)
    \/ \E r \in receipts : WrapIdentity(r)

Foreign ==
    /\ Cardinality(receipts) < MaxReceipts
    /\ \/ \E i \in Crafted : ForeignProve(Bytes("room", i))
       \/ \E j \in Journals, blobs \in BlobChoices :
            ForeignProve(Bytes("blob", Publication(j, 0, blobs)))
       \/ \E list \in Lists : ForeignProve(Bytes("aggregate", MembersOf(list)))

L1 ==
    \/ Tick
    \/ \E r \in Closings : RecoveryClose(r)
    \/ /\ \E r \in receipts : r.rep = "groth16"
       /\ \/ \E j \in Journals, blobs \in {<<>>} \cup BlobChoices : SubmitBatch(j, blobs)
          \/ \E list \in Lists : SubmitAggregate(list, MembersOf(list))

Next == Host \/ Foreign \/ L1

Spec == Init /\ [][Next]_vars

(***************************************************************************)
(* Properties.                                                             *)
(***************************************************************************)

Executed(journal) ==
    \E i \in RoomInputs : i.journal = journal /\ StfAccepts(i, i.blocks.size)

\* Whatever host produced a receipt, when a verify command accepts it the batch
\* was executed, the template validated, or every member of the aggregate
\* executed: the guest checks all that its statement says, and the checks of a
\* host only serve its caller (methods/guest main.rs, validate_aggregate_v1).
VerifiedWasChecked ==
    \A r \in receipts :
      /\ \A i \in RoomInputs : VerifyRoom(i.journal, r) => Executed(i.journal)
      /\ \A c \in Colds : VerifyCold(c, r) => c.valid
      /\ r.statement[1] = "aggregate" =>
           \A list \in Lists :
             (\A k \in DOMAIN list : Executed(list[k].journal))
               \/ ~VerifyAggregate(MembersOf(list), r)

\* Once the native execution of a request succeeded, the guest accepts the same
\* bytes and commits the statement the host expects, so no proof is paid for and
\* then refused (room_witness_from_stdin, require_committed_journal_hash).
GuestAgrees ==
    job # Idle =>
      /\ GuestAccepts(job.bytes, job.assumptions)
      /\ Statement(job.bytes) = job.expected

\* A batch that L1 includes carries only admissions whose deadline and last batch
\* are not past when it is included, whoever prepared it and however long its proof
\* and its aggregation took: the guest compares them with the inclusion deadline of
\* the journal, and L1 the journal with the time (validate_admissions_v5).
NoLateAdmission ==
    \A s \in settled : \A k \in DOMAIN s.journal.admissions :
      /\ s.at <= s.journal.admissions[k].deadline
      /\ s.journal.batch <= s.journal.admissions[k].lastBatch

\* As long as the room has not moved since it was prepared and the deadline is not
\* past, L1 takes a prepared batch: heights and cursors continue those of L1 and
\* never wrap (prepare_input, checked_advance).
PreparedContinues ==
    \A p \in prepared :
      LET facts == l1.rooms[p.input.journal.room]
      IN (/\ l1.now <= p.input.journal.deadline
          /\ \A field \in DOMAIN facts : facts[field] = p.opening[field])
         => Continues(p.input.journal, facts, l1.now)

\* A batch that L1 accepted with its data in blobs has published exactly the data
\* its journal commits to: nothing is missing from the blobs and nothing is added
\* (validate_blob_equivalence_v1).
BlobsCarryData ==
    \A s \in settled : s.blobs # <<>> => s.blobs = CanonicalBlobs(s.journal.data)

(***************************************************************************)
(* Properties of the commitments: facts about functions, over all inputs   *)
(* of a small size, evaluated in the initial state.                        *)
(***************************************************************************)

Tuples(S, n) == UNION {[1..k -> S] : k \in 0..n}

\* The data of a batch determines its blocks: no other blocks, and no other way of
\* cutting transactions, encode to the same bytes (canonical_batch_data_v5).
BatchDataBinds ==
    Init =>
      LET \* A transaction may hold the byte that heads a string.
          txs == Tuples(Tuples({128}, 2), 2)
          lists == Tuples([number : {1}, env : {<<1>>}, post : {1, 2}, txs : txs,
                           history : Tuples({<<1, 1>>}, 1)], 2)
          data == [l \in lists |-> CanonicalBatchData(l, 1)]
      IN Cardinality({data[l] : l \in lists}) = Cardinality(lists)

\* A roster root determines capacity, positions, members and epochs, and the root of
\* the withdrawals of a batch, unless there are none, capacity, positions and
\* withdrawals (roster_root_v5, withdrawal_root_v5).
RootsBind ==
    Init =>
      LET lists == Tuples([index : 0..2, member : {1, 2}, joined : {1, 2}], 2)
          rosters == {x \in lists \X {1, 2, 4} : PositionsOk(x[1], x[2], {1, 2, 4})}
          paid == Tuples([index : 0..2, epoch : {1}, recipient : {1, 2}, asset : {1, 2},
                          amount : {1, 2}], 2)
          outboxes == {x \in (paid \ {<<>>}) \X {1, 2, 4} : PositionsOk(x[1], x[2], {1, 2, 4})}
      IN /\ Cardinality({RosterRoot(x[1], x[2]) : x \in rosters}) = Cardinality(rosters)
         /\ Cardinality({WithdrawalRoot(1, x[1], x[2]) : x \in outboxes})
              = Cardinality(outboxes)

\* Records that differ in one field.
Variants(fields) == {[f \in fields |-> IF f = g THEN 1 ELSE 0] : g \in fields \cup {"none"}}

\* The commitments to the queues of L1 determine their records: a list of another
\* length, order or field has another hash (inbox_records_hash_v5 and its siblings).
RecordsBind ==
    Init =>
      LET Binds(fields, Hash(_)) ==
            LET lists == Tuples(Variants(fields), 2)
            IN Cardinality({Hash(l) : l \in lists}) = Cardinality(lists)
          imports == [chain : {1}, source : {1}, code : {1}, adapter : {1}, room : {1, 2},
                      block : {1, 2}, header : {1}, root : {1, 2}, expiry : {1, 2},
                      storage : Tuples({<<a, b>> : a, b \in {1, 2}}, 2)]
      IN /\ Binds({"id", "action", "index", "joined", "deadline", "member", "commitment"},
                  RosterChangesHash)
         /\ Binds({"id", "depositor", "beneficiary", "asset", "amount", "queued", "consumed",
                   "refunded"}, InboxRecordsHash)
         /\ Binds({"id", "tx", "deposit", "content", "deadline", "lastBatch", "bond", "fee",
                   "signature", "outcomeId", "outcomeTx", "status", "block", "position",
                   "reason"}, AdmissionRecordsHash)
         /\ Binds({"id", "raw", "status", "block", "position", "reason"}, ForcedOutcomesHash)
         /\ Binds({"asset", "pending", "controlled", "claimable", "paid"}, LiabilitiesHash)
         /\ Cardinality({ImportRoot(i) : i \in imports}) = Cardinality(imports)

\* "the encoding stays injective against the legacy form" (execution_policy_hash_v5):
\* two policies with one hash are one policy, although an absent exit binding leaves
\* no byte and the lists of a call rule follow one another.
PolicyHashBinds ==
    Init =>
      LET rules == [caller : {1}, target : {1}, selectors : Tuples({1}, 1), kinds : Tuples({1}, 1)]
          exits == {<<>>} \cup [queue : {1}, count : {1}, base : {1}, fallback : {1},
                                assets : Tuples({<<1, 1, 1, 1>>}, 1)]
          policies == [header : {<<1>>}, code : Tuples({<<1, 1>>}, 1), calls : Tuples(rules, 2),
                       storage : Tuples({<<1, 1, 1, b>> : b \in {0, 1}}, 1),
                       imports : Tuples({<<1, 1, 1, 1, 1, 1>>}, 1),
                       registry : {<<>>, <<1, 1, 1, 1, 1>>}, exit : exits]
      IN Cardinality({ExecutionPolicyHash(p) : p \in policies}) = Cardinality(policies)

\* No commitment of a v5 statement leaves a choice: batch data, roots, queues and
\* policy each determine what they were computed from (stf-types v5/hash.rs).
CommitmentsBind == BatchDataBinds /\ RootsBind /\ RecordsBind /\ PolicyHashBinds

\* The blobs of canonical data and its length give the data back (blob_field_values).
PackingInverts ==
    Init =>
      \A data \in Tuples(0..(ByteBase - 1), BytesPerBlob + 1) :
        LET blobs == CanonicalBlobs(data)
            width(f) == Min({BytesPerField, Len(data) - f * BytesPerField})
            byte(k) ==
              LET field == (k - 1) \div BytesPerField
                  value == blobs[(field \div Fields) + 1][field % Fields]
                  below == width(field) - 1 - ((k - 1) % BytesPerField)
              IN (value \div ByteBase^below) % ByteBase
        IN data = [k \in DOMAIN data |-> byte(k)]

\* The value evaluate_blob computes is that of the polynomial through the values at
\* the bit-reversed roots, which is what the KZG opening proves.
EvaluationAgrees ==
    Init =>
      \A values \in [0..(Fields - 1) -> {0, 1, Prime - 1}], z \in 0..(Prime - 1) :
        EvaluateBlob(values, z) = CKzgEvaluation(values, z)

\* The blobs are the data: packing loses nothing, at the edges of a field and of a
\* blob too, and the opened value is that of the polynomial L1 checks (hosting.rs).
BlobsFaithful == PackingInverts /\ EvaluationAgrees

=============================================================================
