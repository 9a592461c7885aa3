------------------------------- MODULE RoomV4 -------------------------------
(***************************************************************************)
(* The life of a v4 room: a template is prepared, the room is opened       *)
(* (genesis.rs), members and newcomers fund it on L1, and batches          *)
(* (batch_v4.rs) are proved against the commitments that L1 stores and are *)
(* submitted one after the other, until one closes the room.               *)
(*                                                                         *)
(* The three guests are translated; the L1 contract is not part of the     *)
(* repository and is modelled from the public statement it compares.  A    *)
(* hash is its preimage, so L1 stores values where it stores roots, but    *)
(* for the two v4 trees, whose roots do not determine their leaves.        *)
(***************************************************************************)
EXTENDS ColdTemplate

CONSTANTS
    ColdInputs,   \* templates that are prepared
    Openings,     \* genesis inputs
    Bodies,       \* what a sequencer puts in a batch: blocks, close, envelope
    Deltas,       \* membership deltas, functions of the slot
    Requests,     \* entries that accounts make on L1
    Heirs,        \* slots that are given residuals
    Envelope,     \* an envelope that declares all of the room
    MaxInbox,     \* entries made on L1
    MaxBatches    \* batches of a room

\* Amounts are U256: the totals of an opening and the deposits of an entry.
ASSUME AmountsAssumption ==
    /\ \A input \in Openings : \A id \in DOMAIN input.totals : input.totals[id] \in Nat
    /\ \A r \in Requests : r.deposits \in Seq([asset : Nat, amount : Nat])

\* The members that open a room joined before its first batch, and deltas are
\* sorted by unique valid slot.
ASSUME MembershipAssumption ==
    /\ \A input \in Openings : \A s \in Used(input.roster) : input.roster[s].joined = 0
    /\ \A deltas \in Deltas : DOMAIN deltas \subseteq MemberSlots

VARIABLES
    templates,  \* setups that were proved
    room,       \* what L1 stores of the room, or Nothing
    accounts,   \* the state after the last accepted batch
    roster,     \* the slots after it
    exits,      \* the exits after it
    inbox,      \* the entries on L1
    proved,     \* the statement of a proved batch, or Nothing
    frozen,     \* the exits of the slots that have retired
    members     \* every <<slot, account>> that was active

vars == <<templates, room, accounts, roster, exits, inbox, proved, frozen, members>>

Init ==
    /\ templates = {} /\ room = Nothing /\ accounts = <<>>
    /\ roster = [s \in MemberSlots |-> UnusedSlot] /\ exits = <<>>
    /\ inbox = <<>> /\ proved = Nothing /\ frozen = <<>> /\ members = {}

\* execute_cold_room_v4; a template that is prepared later serves other rooms.
PrepareCold ==
    /\ room = Nothing
    /\ \E input \in {i \in ColdInputs : ColdOk(i)} :
         templates' = templates \cup {input}
    /\ UNCHANGED <<room, accounts, roster, exits, inbox, proved, frozen, members>>

\* verify_genesis_l1_anchor_v4: the header hashes to the block, and says what
\* the statement says.
AnchorOk(anchor) ==
    /\ anchor.header.root = anchor.root /\ anchor.header.number = anchor.number
    /\ anchor.number <= anchor.deadline

\* The state a witness of complete room-local accounts opens.
Opened(all, envelope) == [accounts |-> all, declared |-> envelope]

\* verify_compact_state_v4 of a room-local witness: it is within the caps, and
\* says of every declared account what the room's root says.  An account that
\* exists is not empty, and one that does not declares no slot.
CompactFits(all, envelope) ==
    /\ Cardinality(DOMAIN envelope) <= MaxAccounts
    /\ SlotCount(envelope) <= MaxSlots /\ CodeSize(all) <= MaxCode
    /\ DOMAIN all \subseteq DOMAIN envelope
    /\ \A a \in DOMAIN all :
         /\ all[a].nonce # 0 \/ all[a].balance # 0 \/ all[a].code # NoCode
         /\ NonzeroSlots(all[a]) \subseteq envelope[a]
    /\ \A a \in DOMAIN envelope \ DOMAIN all : envelope[a] = {}

\* The size of an encoded witness: it grows with the accounts and slots it
\* declares, the code and the transactions.
WitnessBytes(all, envelope, blocks) ==
    Cardinality(DOMAIN envelope) + SlotCount(envelope) + CodeSize(all) + Len(AllTxs(blocks))

\* execute_genesis_v4
GenesisOk(input) ==
    LET state == Opened(input.accounts, input.envelope)
    IN /\ input.cursor = 0 /\ AnchorOk(input.anchor)
       /\ CompactFits(input.accounts, input.envelope)
       /\ FromInput(input.preset, input.preset, input.roster, state, <<>>,
                    WitnessBytes(input.accounts, input.envelope, <<>>))
       /\ ProgramOk(input.program, input.preset)
       /\ SettlementOk(state, input.program, input.roster, input.totals, input.residuals)

\* L1 opens the room that the members approved.  A template need not be used.
OpenRoom ==
    /\ room = Nothing /\ templates # {}
    /\ \E input \in {i \in Openings : GenesisOk(i)} :
         /\ exits' = ExitsOf(input.accounts, input.program, input.roster, input.residuals)
         /\ room' = [preset |-> input.preset, opening |-> input.totals, index |-> 0,
                     time |-> 0, height |-> 0, cursor |-> 0, closed |-> FALSE,
                     rosterRoot |-> MemberRosterRoot(input.roster),
                     exitRoot |-> ClaimRoot(exits')]
         /\ accounts' = input.accounts /\ roster' = input.roster
         /\ members' = {<<s, input.roster[s].account>> : s \in Active(input.roster)}
         /\ frozen' = [s \in Used(input.roster) \ Active(input.roster) |->
                         [id \in AssetIds(input.program) |-> PaidTo(exits', s, id)]]
    /\ inbox' = <<>>
    /\ UNCHANGED <<templates, proved>>

(***************************************************************************)
(* The inbox on L1.                                                        *)
(***************************************************************************)

\* Another batch may follow within the bound.
Continues == room # Nothing /\ ~room.closed /\ room.index < MaxBatches

\* An entry made while a batch is under way is one made after it.
Fund ==
    /\ Continues /\ proved = Nothing /\ Len(inbox) < MaxInbox
    /\ \E r \in Requests :
         inbox' = Append(inbox, [index |-> Len(inbox) + 1, kind |-> r.kind, slot |-> r.slot,
                                 account |-> r.account, deposits |-> r.deposits,
                                 status |-> "pending"])
    /\ UNCHANGED <<templates, room, accounts, roster, exits, proved, frozen, members>>

Refund ==
    /\ Continues
    /\ \E k \in DOMAIN inbox :
         /\ inbox[k].status \in {"pending", "skipped"}
         /\ inbox' = [inbox EXCEPT ![k].status = "refunded"]
    /\ UNCHANGED <<templates, room, accounts, roster, exits, proved, frozen, members>>

\* What an entry brought of an asset, and what a list of entries did.
Deposited(entry, id) ==
    IF entry.status # "consumed" THEN 0
    ELSE SumTo(Len(entry.deposits), LAMBDA j :
           IF entry.deposits[j].asset = id THEN entry.deposits[j].amount ELSE 0)
Collected(entries, id) == SumTo(Len(entries), LAMBDA k : Deposited(entries[k], id))

\* What L1 holds for the room: the opening and every consumed entry.
Funded(entries) == [id \in DOMAIN room.opening |-> room.opening[id] + Collected(entries, id)]

(***************************************************************************)
(* Batches.                                                                *)
(***************************************************************************)

\* The roster that a sequencer claims to follow from the deltas.
AfterDeltas(deltas) ==
    [s \in MemberSlots |->
       IF s \notin DOMAIN deltas THEN roster[s]
       ELSE IF deltas[s].action = "activate"
            THEN [state |-> "active", account |-> deltas[s].member,
                  joined |-> room.index + 1, retired |-> Never]
            ELSE [roster[s] EXCEPT !.state = "retired", !.retired = room.index + 1]]

\* The entries of the segment as L1 shows them.
Segment(end) == SubSeq(inbox, room.cursor + 1, end)

\* A batch that the guest is asked to execute.
Batch(body, deltas, end, previous, template) ==
    [blocks |-> body.blocks, close |-> body.close, envelope |-> body.envelope,
     deltas |-> deltas, post |-> AfterDeltas(deltas), entries |-> Segment(end), end |-> end,
     previous |-> previous, template |-> template]

\* The shape of a batch, and the state and the policy it opens.
WitnessOk(body, template) ==
    /\ Len(body.blocks) \in 1..MaxBatchBlocks
    /\ Len(body.blocks) = 1 => body.close
    /\ CompactFits(accounts, body.envelope)
    /\ template # Nothing => LinkOk(ColdJournal(template), template, room.preset, accounts)
    /\ FromInput(room.preset, room.preset, roster, Opened(accounts, body.envelope),
                 body.blocks, WitnessBytes(accounts, body.envelope, body.blocks))
    /\ ProgramOk(room.preset.program, room.preset)

\* The membership may change, and changes like this.
MovesOk(deltas) ==
    /\ TransitionOk(room.index + 1, roster, AfterDeltas(deltas), deltas)
    /\ GuardsAllow(room.preset, accounts, DOMAIN deltas # {})

\* The state after the inbox, or Nothing.
AfterInbox(batch) ==
    ApplyInbox(Opened(accounts, batch.envelope), room.preset.program, batch.entries,
               batch.deltas, roster, batch.post, room.cursor, batch.end)

\* The entries as the guest resolved them.
ResolvedEntries(batch) ==
    [k \in DOMAIN batch.entries |->
       [batch.entries[k] EXCEPT !.status = Resolved(batch.entries[k], batch.deltas, roster)]]

\* The inbox with the segment resolved.
InboxAfter(entries, start) ==
    [k \in DOMAIN inbox |->
       IF k > start /\ k <= start + Len(entries) THEN entries[k - start] ELSE inbox[k]]

\* The blocks run on the state that the inbox left.
BatchRuns(batch, opened) ==
    /\ opened # Nothing
    /\ Timely(batch.blocks, room.time)
    /\ BlocksAllowed(room.preset, ActiveMembers(roster), opened, batch.blocks)
    /\ PostStateOk(room.preset, opened.accounts, Ran(opened.accounts, batch.blocks),
                   DOMAIN batch.deltas # {})

\* The settlement of the state that the blocks left.
BatchSettles(batch, residuals, after) ==
    LET program == room.preset.program
    IN /\ SettlementOk(Opened(after, batch.envelope), program, batch.post,
                       Funded(InboxAfter(ResolvedEntries(batch), room.cursor)), residuals)
       /\ ContinuityOk(program, batch.previous, ExitsOf(after, program, batch.post, residuals),
                       roster)

\* execute_batch_v4 returns a journal.
BatchOk(batch, residuals) ==
    /\ WitnessOk(batch, batch.template) /\ MovesOk(batch.deltas)
    /\ PreviousExitsOk(room.preset.program, roster, batch.previous, room.exitRoot)
    /\ BatchRuns(batch, AfterInbox(batch))
    /\ BatchSettles(batch, residuals, Ran(AfterInbox(batch).accounts, batch.blocks))

\* Its journal; L1 learns the lists behind the hashes from calldata.
JournalV4(batch, residuals) ==
    LET after == Ran(AfterInbox(batch).accounts, batch.blocks)
        paid == ExitsOf(after, room.preset.program, batch.post, residuals)
    IN [index |-> room.index + 1, start |-> room.height,
        end |-> room.height + Len(batch.blocks),
        previousTime |-> room.time, time |-> batch.blocks[Len(batch.blocks)].time,
        pre |-> accounts, post |-> after, template |-> batch.template,
        preRoster |-> MemberRosterRoot(roster), postRoster |-> batch.post,
        cursor |-> room.cursor, entries |-> ResolvedEntries(batch), deltas |-> batch.deltas,
        totals |-> Funded(InboxAfter(ResolvedEntries(batch), room.cursor)),
        previousRoot |-> room.exitRoot, exits |-> paid, close |-> batch.close]

\* Who may be given what rounding leaves of a position.
ResidualChoices ==
    LET keys == {key \in (DOMAIN room.preset.program.positions) \X DOMAIN room.opening :
                   key[2] \in DOMAIN room.preset.program.positions[key[1]].backings}
    IN UNION {[some -> Heirs] : some \in SUBSET keys}

\* The batches that get as far as the inbox.
Candidates ==
    LET sources == {t \in {Nothing} \cup templates : \E body \in Bodies : WitnessOk(body, t)}
        moves == {deltas \in Deltas : MovesOk(deltas)}
    IN {Batch(body, deltas, end, exits, template) :
          body \in {x \in Bodies : WitnessOk(x, Nothing)}, deltas \in moves,
          end \in room.cursor..Len(inbox), template \in sources}

\* The handler as a whole is BatchOk; its checks are made here in an order in
\* which each of them is made once.
Prove ==
    /\ Continues /\ proved = Nothing
    /\ PreviousExitsOk(room.preset.program, roster, exits, room.exitRoot)
    /\ \E batch \in {x \in Candidates : BatchRuns(x, AfterInbox(x))} :
         LET after == Ran(AfterInbox(batch).accounts, batch.blocks)
         IN \E residuals \in {r \in ResidualChoices : BatchSettles(batch, r, after)} :
              proved' = JournalV4(batch, residuals)
    /\ UNCHANGED <<templates, room, accounts, roster, exits, inbox, frozen, members>>

\* L1 accepts a statement about the commitments it stores, when no entry of the
\* segment was refunded since.
Accepts(journal) ==
    /\ journal.index = room.index + 1 /\ journal.start = room.height
    /\ journal.previousTime = room.time /\ journal.pre = accounts
    /\ journal.preRoster = room.rosterRoot /\ journal.previousRoot = room.exitRoot
    /\ journal.cursor = room.cursor
    /\ \A k \in DOMAIN journal.entries :
         LET now == inbox[room.cursor + k].status
         IN IF now = "refunded" THEN journal.entries[k].status = "refunded"
            ELSE journal.entries[k].status \in {"consumed", "skipped"}
    /\ journal.totals = Funded(InboxAfter(journal.entries, room.cursor))

Submit ==
    /\ proved # Nothing /\ proved' = Nothing
    /\ Accepts(proved)
    /\ room' = [room EXCEPT !.index = proved.index, !.height = proved.end,
                            !.time = proved.time,
                            !.cursor = @ + Len(proved.entries), !.closed = proved.close,
                            !.rosterRoot = MemberRosterRoot(proved.postRoster),
                            !.exitRoot = ClaimRoot(proved.exits)]
    /\ accounts' = proved.post /\ roster' = proved.postRoster /\ exits' = proved.exits
    /\ inbox' = InboxAfter(proved.entries, room.cursor)
    /\ frozen' = [s \in Used(roster') \ Active(roster') |->
                    IF s \in DOMAIN frozen THEN frozen[s]
                    ELSE [id \in DOMAIN room.opening |-> PaidTo(exits', s, id)]]
    /\ members' = members \cup {<<s, roster'[s].account>> : s \in Active(roster')}
    /\ UNCHANGED templates

\* A statement that L1 no longer accepts is dropped, and a batch proved anew.
Drop ==
    /\ proved # Nothing /\ ~Accepts(proved) /\ proved' = Nothing
    /\ UNCHANGED <<templates, room, accounts, roster, exits, inbox, frozen, members>>

Next == PrepareCold \/ OpenRoom \/ Fund \/ Refund \/ Prove \/ Submit \/ Drop

Spec == Init /\ [][Next]_vars

(***************************************************************************)
(* Properties.                                                             *)
(***************************************************************************)

\* Whatever batches did, the exits of the last one pay out, asset by asset, the
\* opening and every consumed entry: a refunded or skipped entry is never
\* credited, an entry never twice, and no value stays behind in a contract
\* (derive_settlement_v4 after apply_inbox_v4, against L1's accounting).
ExitsPayEverything ==
    room # Nothing =>
      \A id \in DOMAIN room.opening : ExitTotal(exits, id) = Funded(inbox)[id]

\* The exits of a slot never change after the batch that retired it, though its
\* account still holds its balances in the room's state and others may pay it
\* (enforce_retired_exit_continuity_v4).
RetiredExitsFrozen ==
    \A s \in DOMAIN frozen : \A id \in DOMAIN frozen[s] : PaidTo(exits, s, id) = frozen[s][id]

\* Over the life of a room a slot has one account and an account one slot, so a
\* claim names its recipient for ever (validate_roster_shape on the rosters
\* before and after every batch).
OneSlotForLife ==
    \A p, q \in members : p[1] = q[1] \/ p[2] = q[2] => p = q

\* A member that joined after the opening paid for it: exactly one join request
\* of the account was consumed (the matching of activations and requests in
\* apply_inbox_v4, whatever is refunded between proof and submission).
NewcomersPaid ==
    \A s \in Used(roster) : roster[s].joined > 0 =>
      Cardinality({k \in DOMAIN inbox : /\ inbox[k].kind = "join"
                                        /\ inbox[k].status = "consumed"
                                        /\ inbox[k].account = roster[s].account}) = 1

\* A composed batch opens with the template's contracts: the code and every
\* word that the refresh rules do not name are those the setup left
\* (validate_composed_cold_link_v4 on the hot state).
TemplateKept ==
    proved # Nothing /\ proved.template # Nothing =>
      LET setup == Ran(proved.template.initial, proved.template.blocks)
          refresh == proved.template.refresh
      IN \A a \in DOMAIN setup : setup[a].code # NoCode =>
           /\ a \in DOMAIN proved.pre /\ proved.pre[a].code = setup[a].code
           /\ \A s \in Slot :
                \/ a \in DOMAIN refresh /\ (refresh[a].all \/ s \in refresh[a].slots)
                \/ proved.pre[a].storage[s] = setup[a].storage[s]

\* The hashes of a statement determine the lists behind them: L1 cannot be shown
\* another resolution of the same entries, or other deltas
\* (hash_inbox_entries_v4, hash_membership_deltas_v4).
ListsBind ==
    Init =>
      LET entry(r, k, status) == [index |-> k, kind |-> r.kind, slot |-> r.slot,
                                  account |-> r.account, deposits |-> r.deposits,
                                  status |-> status]
          one == {entry(r, 1, st) : r \in Requests, st \in {"consumed", "skipped", "refunded"}}
          two == {entry(r, 2, st) : r \in Requests, st \in {"consumed", "skipped", "refunded"}}
          segments == {<<>>} \cup {<<e>> : e \in one} \cup {<<e, f>> : e \in one, f \in two}
          all == UNION {Range(d) : d \in Deltas}
          lists == {<<>>} \cup {<<d>> : d \in all} \cup {<<d, e>> : d \in all, e \in all}
      IN /\ \A x, y \in segments : InboxHash(x) = InboxHash(y) => x = y
         /\ \A x, y \in lists : DeltasHash(x) = DeltasHash(y) => x = y

\* The exit root has one list behind it: no reordering or repetition of the
\* leaves is authenticated, though the tree itself sorts pairs and repeats a
\* last leaf (authenticate_previous_exit_allocations_v4).
PreviousExitsUnique ==
    room # Nothing /\ proved = Nothing =>
      LET n == Len(exits)
          lists == {SubSeq(exits, 1, k) : k \in 0..n} \cup {exits \o SubSeq(exits, k, n) : k \in 1..n}
                     \cup {[i \in 1..n |-> exits[IF i = k THEN j ELSE IF i = j THEN k ELSE i]] :
                             j \in 1..n, k \in 1..n}
      IN \A list \in lists :
           PreviousExitsOk(room.preset.program, roster, list, room.exitRoot) => list = exits

\* What L1 is told of a batch is one thing: its hashes and its exit root leave no
\* choice of the lists behind them, in the statement or in the next batch.
StatementsBind == ListsBind /\ PreviousExitsUnique

\* Some choice of residuals makes the guest accept an empty terminal batch.
Closable ==
    \E residuals \in ResidualChoices :
      BatchOk(Batch([blocks |-> <<[time |-> room.time, txs |-> <<>>]>>, close |-> TRUE,
                     envelope |-> Envelope],
                    <<>>, room.cursor, exits, Nothing), residuals)


=============================================================================
