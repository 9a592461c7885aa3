------------------------ MODULE ProofPipelineProofs ------------------------
(***************************************************************************)
(* What ProofPipeline's hosts, guest and L1 keep, for every set of rooms,  *)
(* requests, receipts and sizes.                                           *)
(*                                                                         *)
(* Two invariants carry the proofs.  Every prepared batch is one that      *)
(* prepare_input answers for the opening it names.  Every receipt of the   *)
(* program states something that the guest checked: that is what a run of  *)
(* the guest leaves, and every stage and wrapper keeps the statement.      *)
(***************************************************************************)
EXTENDS ProofPipeline, TLAPS

(***************************************************************************)
(* Prepared batches and L1.                                                *)
(***************************************************************************)

FactFields == {"batch", "root", "height", "cursor", "state"}

FactsOK(facts) ==
    /\ DOMAIN facts = FactFields
    /\ facts.batch \in Nat /\ facts.height \in Nat /\ facts.cursor \in Nat

L1OK ==
    /\ DOMAIN l1 = {"now", "rooms"} /\ DOMAIN l1.rooms = Rooms
    /\ l1.now \in Nat
    /\ \A r \in Rooms : FactsOK(l1.rooms[r])

\* prepare_input gave this result for some request.
PreparedOK(p) ==
    /\ p.opening.room \in Rooms /\ p.opening.now \in Nat
    /\ p.opening.batch \in Nat /\ p.opening.height \in Nat /\ p.opening.cursor \in Nat
    /\ \E q \in Requests[p.opening.room] :
         PrepareOk(p.opening, q) /\ p.input.journal = JournalOf(p.opening, q)

SettledInTime == \A s \in settled : s.at \in Nat /\ s.at <= s.journal.deadline

Timely == L1OK /\ (\A p \in prepared : PreparedOK(p)) /\ SettledInTime

(***************************************************************************)
(* Receipts.                                                               *)
(***************************************************************************)

\* The batch of this statement was executed on one of these inputs.
BatchChecked(inputs, statement) ==
    statement[1] = "batch" =>
      \E i \in inputs : i.journal = statement[2] /\ StfAccepts(i, i.blocks.size)

\* The witness of this statement about data in blobs is a valid one.
DataChecked(statement) ==
    statement[1] = "availability" =>
      EquivalenceOk([room |-> statement[2], journalHash |-> statement[3],
                     data |-> statement[4], start |-> statement[6],
                     commitments |-> statement[7], points |-> statement[8],
                     evaluations |-> statement[9]])

\* What a statement of the guest says was checked by the guest.
Checked(inputs, statement) ==
    /\ BatchChecked(inputs, statement)
    /\ DataChecked(statement)
    /\ statement[1] = "cold" => statement[6].input.valid
    /\ statement[1] = "aggregate" =>
         \A k \in DOMAIN statement[3] :
           /\ statement[3][k].program = Image =>
                BatchChecked(inputs, statement[3][k].journalHash)
           /\ statement[3][k].equivalence = Image =>
                DataChecked(statement[3][k].availability)

Genuine(r) == Verifies(r, Image) \/ IdentityOk(r)

Sound(inputs, held) == \A r \in held : Genuine(r) => Checked(inputs, r.statement)

Magics == {"room", "cold", "blob", "aggregate"}

\* The job is about bytes that the guest accepts; its receipt is the guest's.
JobFine(request, inputs, held) ==
    /\ DOMAIN request = {"pc", "bytes", "mode", "assumptions", "expected", "receipt"}
    /\ request.bytes.magic \in Magics
    /\ request.bytes.magic = "room" => request.bytes.input \in inputs
    /\ request.assumptions \subseteq held
    /\ GuestAccepts(request.bytes, request.assumptions)
    /\ Statement(request.bytes) = request.expected
    /\ request.pc # "accepted" =>
         /\ DOMAIN request.receipt = {"rep", "program", "statement"}
         /\ request.receipt.program = Image
         /\ Checked(inputs, request.receipt.statement)

Proved ==
    /\ Sound(RoomInputs, receipts)
    /\ job # Idle => JobFine(job, RoomInputs, receipts)

(***************************************************************************)
(* Preparation and inclusion.                                              *)
(***************************************************************************)

\* The last of a number of heights.
LEMMA LastHeight ==
    ASSUME NEW h \in Nat, NEW count \in Nat, count > 0
    PROVE  h + 1 + (count - 1) \in Nat /\ h + 1 + (count - 1) >= h + 1
OBVIOUS

\* No deadline is past before a later one.
LEMMA EarlierDeadline ==
    ASSUME NEW x \in Nat, NEW y \in Nat, NEW z \in Nat, x <= y, z >= y
    PROVE  x <= z
OBVIOUS

\* A batch is not after the last batch of an admission that its number allows.
LEMMA BatchAllowed ==
    ASSUME NEW b \in Nat, NEW last \in Nat, last >= b
    PROVE  b <= last
OBVIOUS

\* A receipt as a signer of admissions writes it.
Admission == [deadline : Nat, lastBatch : Nat, bonded : BOOLEAN]

\* What prepare_input and the crafted inputs put into a journal.
LEMMA JournalTyped ==
    ASSUME \A p \in prepared : PreparedOK(p), NEW j \in Journals
    PROVE  /\ j.data \in Seq(Nat)
           /\ j.batch \in Nat /\ j.end \in Nat /\ j.after \in Nat /\ j.deadline \in Nat
           /\ j.admissions \in Seq(Admission)
<1>1. PICK i \in RoomInputs : j = i.journal
  BY Zenon DEF Journals
<1>2. CASE i \in Crafted
  BY <1>1, <1>2, InputAssumption, Zenon DEF Admission
<1>3. CASE i \in {p.input : p \in prepared}
  <2>1. PICK p \in prepared : i = p.input
    BY <1>3, Zenon
  <2>2. PreparedOK(p)
    BY Zenon
  <2>3. PICK q \in Requests[p.opening.room] :
          PrepareOk(p.opening, q) /\ p.input.journal = JournalOf(p.opening, q)
    BY <2>2, Zenon DEF PreparedOK
  <2>4. p.opening.batch \in Nat /\ p.opening.height \in Nat /\ p.opening.cursor \in Nat
    BY <2>2, Zenon DEF PreparedOK
  <2>5. /\ q.blocks.count \in Nat /\ q.blocks.data \in Seq(Nat)
        /\ q.admissions \in Seq(Admission)
        /\ q.deadline \in Nat
    BY <2>2, InputAssumption, Zenon DEF PreparedOK, Admission
  <2>6. q.blocks.count > 0
    BY <2>3, Zenon DEF PrepareOk
  <2>7. j = JournalOf(p.opening, q)
    BY <1>1, <2>1, <2>3, Zenon
  <2>8. /\ j.data = q.blocks.data /\ j.batch = p.opening.batch + 1
        /\ j.end = p.opening.height + 1 + (q.blocks.count - 1)
        /\ j.after = p.opening.cursor + Len(q.admissions) /\ j.deadline = q.deadline
        /\ j.admissions = q.admissions
    BY <2>7, Zenon DEF JournalOf, Advance
  <2>9. Len(q.admissions) \in Nat
    BY <2>5
  <2>10. q.blocks.count \in Nat /\ q.deadline \in Nat /\ q.blocks.data \in Seq(Nat)
         /\ q.admissions \in Seq(Admission)
    BY <2>5, Zenon
  <2>11. j.batch \in Nat /\ j.after \in Nat
    BY <2>4, <2>8, <2>9
  <2>12. j.end \in Nat
    BY <2>4, <2>6, <2>8, <2>10, LastHeight, ZenonT(60)
  <2> QED
    BY <2>8, <2>10, <2>11, <2>12, ZenonT(60)
<1> QED
  BY <1>2, <1>3, Zenon DEF RoomInputs

\* After a batch the facts of its room are again of their types.
LEMMA AfterTyped ==
    ASSUME NEW j, j.batch \in Nat, j.end \in Nat, j.after \in Nat, NEW facts
    PROVE  FactsOK(After(j, facts))
BY Zenon DEF FactsOK, FactFields, After

\* The first L1 has its types, and nothing is prepared or settled.
LEMMA TimelyInit == Init => Timely
<1> SUFFICES ASSUME Init PROVE Timely
  BY Zenon
<1>1. \A r \in Rooms : FactsOK(l1.rooms[r])
  BY InputAssumption, Zenon DEF Init, FactsOK, FactFields
<1>2. L1OK
  BY <1>1, Zenon DEF Init, L1OK
<1> QED
  BY <1>2, Zenon DEF Init, Timely, SettledInTime

\* A prepared batch satisfies the checks of prepare_input for the opening it names.
LEMMA PrepareTimely ==
    ASSUME Timely, NEW r \in Rooms, NEW request \in Requests[r], Prepare(r, request)
    PROVE  Timely'
<1> DEFINE opening == [room |-> r, now |-> l1.now, batch |-> l1.rooms[r].batch,
                       root |-> l1.rooms[r].root, height |-> l1.rooms[r].height,
                       cursor |-> l1.rooms[r].cursor, state |-> l1.rooms[r].state]
           new == [opening |-> opening,
                   input |-> [journal |-> JournalOf(opening, request),
                              blocks |-> request.blocks]]
<1>1. PrepareOk(opening, request) /\ prepared' = prepared \cup {new}
  BY Zenon DEF Prepare
<1>2. l1.now \in Nat /\ FactsOK(l1.rooms[r])
  BY Zenon DEF Timely, L1OK
<1>3. /\ opening.room = r /\ opening.now \in Nat
      /\ opening.batch \in Nat /\ opening.height \in Nat /\ opening.cursor \in Nat
  BY <1>2, Zenon DEF FactsOK
<1>4. new.opening = opening /\ new.input.journal = JournalOf(opening, request)
  BY Zenon
<1> HIDE DEF new, opening
<1>5. PreparedOK(new)
  BY <1>1, <1>3, <1>4, Zenon DEF PreparedOK
<1>6. \A p \in prepared' : PreparedOK(p)
  BY <1>1, <1>5, Zenon DEF Timely
<1>7. (\A p \in prepared : PreparedOK(p))'
  BY <1>6, Zenon DEF PreparedOK
<1>8. UNCHANGED <<l1, settled>>
  BY Zenon DEF Prepare
<1> QED
  BY <1>7, <1>8, Zenon DEF Timely, L1OK, SettledInTime

\* L1 includes batches before their deadline and keeps the types of its facts.
LEMMA SubmitBatchTimely ==
    ASSUME Timely, NEW j \in Journals, NEW blobs, SubmitBatch(j, blobs)
    PROVE  Timely'
<1> DEFINE facts == l1.rooms[j.room]
           new == [journal |-> j, at |-> l1.now, blobs |-> blobs]
<1>1. /\ Continues(j, facts, l1.now)
      /\ l1' = [l1 EXCEPT !.rooms[j.room] = After(j, facts)]
      /\ settled' = settled \cup {new}
      /\ prepared' = prepared
  BY Zenon DEF SubmitBatch
<1>2. j.batch \in Nat /\ j.end \in Nat /\ j.after \in Nat /\ j.deadline \in Nat
  BY JournalTyped, Zenon DEF Timely
<1>3. FactsOK(After(j, facts))
  BY <1>2, AfterTyped, Zenon
<1>4. DOMAIN l1 = {"now", "rooms"} /\ DOMAIN l1.rooms = Rooms /\ l1.now \in Nat
  BY Zenon DEF Timely, L1OK
<1>5. /\ DOMAIN l1' = {"now", "rooms"} /\ DOMAIN l1'.rooms = Rooms /\ l1'.now = l1.now
      /\ \A r \in Rooms : l1'.rooms[r] = IF r = j.room THEN After(j, facts) ELSE l1.rooms[r]
  BY <1>1, <1>4, Zenon
<1>6. \A r \in Rooms : FactsOK(l1'.rooms[r])
  BY <1>3, <1>5, Zenon DEF Timely, L1OK
<1>7. L1OK'
  BY <1>4, <1>5, <1>6, Zenon DEF L1OK, FactsOK
<1>8. new.at \in Nat /\ new.at <= new.journal.deadline
  BY <1>1, <1>4, Zenon DEF Continues
<1>9. SettledInTime'
  BY <1>1, <1>8, Zenon DEF Timely, SettledInTime
<1>10. (\A p \in prepared : PreparedOK(p))'
  BY <1>1, Zenon DEF Timely, PreparedOK
<1> QED
  BY <1>7, <1>9, <1>10, Zenon DEF Timely

\* The members of a list are batches with journals that a host may have proved.
LEMMA ListJournals ==
    ASSUME NEW list \in Lists, NEW k \in DOMAIN list
    PROVE  list[k] \in Batches /\ list[k].journal \in Journals
<1>1. list[k] \in Batches
  BY DEF Lists
<1> QED
  BY <1>1, Zenon DEF Batches

\* An aggregate settles each of its members in time.
LEMMA SubmitAggregateTimely ==
    ASSUME Timely, NEW list \in Lists, SubmitAggregate(list, MembersOf(list))
    PROVE  Timely'
<1> DEFINE applied == {k \in DOMAIN list :
                         Continues(list[k].journal, l1.rooms[list[k].journal.room], l1.now)}
           of(r) == {k \in applied : list[k].journal.room = r}
           new(k) == [journal |-> list[k].journal, at |-> l1.now, blobs |-> list[k].blobs]
<1>1. /\ l1' = [l1 EXCEPT !.rooms =
                  [r \in Rooms |-> IF of(r) = {} THEN @[r]
                                   ELSE After(list[CHOOSE k \in of(r) : TRUE].journal, @[r])]]
      /\ settled' = settled \cup {new(k) : k \in applied}
      /\ prepared' = prepared
  BY Zenon DEF SubmitAggregate
<1>2. DOMAIN l1 = {"now", "rooms"} /\ DOMAIN l1.rooms = Rooms /\ l1.now \in Nat
  BY Zenon DEF Timely, L1OK
<1>3. /\ DOMAIN l1' = {"now", "rooms"} /\ DOMAIN l1'.rooms = Rooms /\ l1'.now = l1.now
      /\ \A r \in Rooms : l1'.rooms[r] =
           IF of(r) = {} THEN l1.rooms[r]
           ELSE After(list[CHOOSE k \in of(r) : TRUE].journal, l1.rooms[r])
  BY <1>1, <1>2, Zenon
<1>4. \A k \in DOMAIN list : /\ list[k].journal.batch \in Nat /\ list[k].journal.end \in Nat
                             /\ list[k].journal.after \in Nat
                             /\ list[k].journal.deadline \in Nat
  <2> TAKE k \in DOMAIN list
  <2>1. list[k].journal \in Journals
    BY ListJournals, Zenon
  <2> QED
    BY <2>1, JournalTyped, Zenon DEF Timely
<1>5. ASSUME NEW r \in Rooms PROVE FactsOK(l1'.rooms[r])
  <2>1. CASE of(r) = {}
    BY <1>3, <2>1, Zenon DEF Timely, L1OK
  <2>2. CASE of(r) # {}
    <3> DEFINE c == CHOOSE k \in of(r) : TRUE
    <3>1. c \in of(r)
      BY <2>2, Zenon
    <3>2. c \in DOMAIN list
      BY <3>1, Zenon
    <3>3. l1'.rooms[r] = After(list[c].journal, l1.rooms[r])
      BY <1>3, <2>2, Zenon
    <3> HIDE DEF c
    <3> QED
      BY <1>4, <3>2, <3>3, AfterTyped, ZenonT(60)
  <2> QED
    BY <2>1, <2>2, Zenon
<1>6. L1OK'
  BY <1>2, <1>3, <1>5, Zenon DEF L1OK, FactsOK
<1>7. ASSUME NEW k \in applied PROVE new(k).at \in Nat /\ new(k).at <= new(k).journal.deadline
  BY <1>2, <1>7, Zenon DEF Continues
<1>8. SettledInTime'
  BY <1>1, <1>7, Zenon DEF Timely, SettledInTime
<1>9. (\A p \in prepared : PreparedOK(p))'
  BY <1>1, Zenon DEF Timely, PreparedOK
<1> QED
  BY <1>6, <1>8, <1>9, Zenon DEF Timely

\* What L1 does on its own keeps its facts typed and its inclusions in time.
LEMMA L1Timely ==
    ASSUME Timely, L1
    PROVE  Timely'
<1>0. /\ DOMAIN l1 = {"now", "rooms"} /\ DOMAIN l1.rooms = Rooms /\ l1.now \in Nat
      /\ \A r \in Rooms : FactsOK(l1.rooms[r])
  BY Zenon DEF Timely, L1OK
<1>1. CASE Tick
  <2>1. /\ DOMAIN l1' = {"now", "rooms"} /\ l1'.rooms = l1.rooms /\ l1'.now \in Nat
        /\ prepared' = prepared /\ settled' = settled
    BY <1>0, <1>1 DEF Tick
  <2> QED
    BY <1>0, <2>1, Zenon DEF Timely, L1OK, SettledInTime, PreparedOK, FactsOK
<1>2. ASSUME NEW c \in Closings, RecoveryClose(c) PROVE Timely'
  <2>1. /\ DOMAIN l1' = {"now", "rooms"} /\ DOMAIN l1'.rooms = Rooms /\ l1'.now = l1.now
        /\ \A r \in Rooms : l1'.rooms[r] = IF r = c THEN [l1.rooms[c] EXCEPT !.state = 2]
                                           ELSE l1.rooms[r]
        /\ prepared' = prepared /\ settled' = settled
    BY <1>0, <1>2, Zenon DEF RecoveryClose
  <2>2. ASSUME NEW r \in Rooms PROVE FactsOK(l1'.rooms[r])
    BY <1>0, <2>1, Zenon DEF FactsOK, FactFields
  <2> QED
    BY <1>0, <2>1, <2>2, Zenon DEF Timely, L1OK, SettledInTime, PreparedOK, FactsOK
<1>3. ASSUME NEW j \in Journals, NEW blobs, SubmitBatch(j, blobs) PROVE Timely'
  BY <1>3, SubmitBatchTimely, Zenon
<1>4. ASSUME NEW list \in Lists, SubmitAggregate(list, MembersOf(list)) PROVE Timely'
  BY <1>4, SubmitAggregateTimely, Zenon
<1> QED
  BY <1>1, <1>2, <1>3, <1>4, Zenon DEF L1

\* Steps of hosts and strangers other than Prepare leave L1 and what was prepared.
LEMMA OthersLeaveL1 ==
    ASSUME Host \/ Foreign
    PROVE  \/ \E r \in Rooms : \E request \in Requests[r] : Prepare(r, request)
           \/ UNCHANGED <<l1, prepared, settled>>
<1> DEFINE Same == UNCHANGED <<l1, prepared, settled>>
<1>1. ASSUME NEW receipt, Held(receipt) PROVE Same
  BY <1>1, Zenon DEF Held
<1>2. ASSUME NEW i, NEW mode, ProveRoom(i, mode) PROVE Same
  BY <1>2, Zenon DEF ProveRoom
<1>3. ASSUME NEW c, NEW mode, ProveCold(c, mode) PROVE Same
  BY <1>3, Zenon DEF ProveCold
<1>4. ASSUME NEW j, NEW mode, ProveBlob(j, 0, mode) PROVE Same
  BY <1>4, Zenon DEF ProveBlob
<1>5. ASSUME NEW list, NEW mode, ProveAggregate(list, mode) PROVE Same
  BY <1>5, Zenon DEF ProveAggregate
<1>6. ASSUME Compose \/ Compress \/ Wrap \/ Respond \/ Fail PROVE Same
  BY <1>6, Zenon DEF Compose, Compress, Wrap, Respond, Fail
<1>7. ASSUME NEW receipt, NEW rep, WrapSuccinct(receipt, rep) PROVE Same
  BY <1>7, <1>1, Zenon DEF WrapSuccinct
<1>8. ASSUME NEW receipt, WrapIdentity(receipt) PROVE Same
  BY <1>8, <1>1, Zenon DEF WrapIdentity
<1>9. ASSUME NEW bytes, ForeignProve(bytes) PROVE Same
  BY <1>9, <1>1, Zenon DEF ForeignProve
<1>10. Foreign => Same
  BY <1>9, Zenon DEF Foreign
<1> HIDE DEF Same
<1>11. Host => \/ \E r \in Rooms : \E request \in Requests[r] : Prepare(r, request)
               \/ Same
  BY <1>2, <1>3, <1>4, <1>5, <1>6, <1>7, <1>8, Zenon DEF Host
<1> QED
  BY <1>10, <1>11, Zenon DEF Same

\* Every step keeps L1's types, the prepared batches and the inclusions in time.
LEMMA TimelyStep == Timely /\ [Next]_vars => Timely'
<1> SUFFICES ASSUME Timely, [Next]_vars PROVE Timely'
  BY Zenon
<1>1. CASE L1
  BY <1>1, L1Timely, Zenon
<1>2. CASE UNCHANGED <<l1, prepared, settled>>
  BY <1>2, Zenon DEF Timely, L1OK, SettledInTime, PreparedOK, FactsOK
<1>3. CASE Host \/ Foreign
  BY <1>2, <1>3, OthersLeaveL1, PrepareTimely, ZenonT(60)
<1> QED
  BY <1>1, <1>2, <1>3, Zenon DEF Next, vars

\* L1's facts have their types, every prepared batch is one that prepare_input
\* answers for the opening it names, and no batch is settled after its deadline.
THEOREM TimelyHolds == Spec => []Timely
BY TimelyInit, TimelyStep, PTL DEF Spec

\* L1 takes a prepared batch as long as its room has not moved and its deadline is
\* not past.
THEOREM PreparedAreTaken == Spec => []PreparedContinues
<1>1. ASSUME Timely PROVE PreparedContinues
  <2> SUFFICES ASSUME NEW p \in prepared,
                      l1.now <= p.input.journal.deadline,
                      \A field \in DOMAIN l1.rooms[p.input.journal.room] :
                        l1.rooms[p.input.journal.room][field] = p.opening[field]
               PROVE  Continues(p.input.journal, l1.rooms[p.input.journal.room], l1.now)
    BY Zenon DEF PreparedContinues
  <2> DEFINE j == p.input.journal
             facts == l1.rooms[j.room]
  <2>1. PreparedOK(p)
    BY <1>1, Zenon DEF Timely
  <2>2. PICK q \in Requests[p.opening.room] : PrepareOk(p.opening, q) /\ j = JournalOf(p.opening, q)
    BY <2>1, Zenon DEF PreparedOK
  <2>3. /\ j.room = p.opening.room /\ j.program = Image
        /\ j.batch = p.opening.batch + 1 /\ j.start = p.opening.height + 1
        /\ j.end = p.opening.height + 1 + (q.blocks.count - 1)
        /\ j.pre = p.opening.root /\ j.before = p.opening.cursor
        /\ j.after = p.opening.cursor + Len(q.admissions) /\ j.close = q.close
    BY <2>2 DEF JournalOf, Advance
  <2>4. FactsOK(facts)
    BY <1>1, <2>1, <2>3, Zenon DEF Timely, L1OK, PreparedOK
  <2>5. /\ facts.batch = p.opening.batch /\ facts.root = p.opening.root
        /\ facts.height = p.opening.height /\ facts.cursor = p.opening.cursor
        /\ facts.state = p.opening.state
    BY <2>4, Zenon DEF FactsOK, FactFields
  <2>6. /\ q.blocks.count \in Nat
        /\ q.admissions \in Seq([deadline : Nat, lastBatch : Nat, bonded : BOOLEAN])
    BY <2>1, InputAssumption, Zenon DEF PreparedOK
  <2>7. Len(q.admissions) \in Nat
    BY <2>6
  <2>8. p.opening.height \in Nat /\ p.opening.cursor \in Nat
    BY <2>1, Zenon DEF PreparedOK
  <2>9. q.blocks.count > 0 /\ (p.opening.state = IF q.terminal THEN 2 ELSE 1)
          /\ (q.terminal => q.close)
    BY <2>2, Zenon DEF PrepareOk
  <2>10. j.end >= j.start /\ j.after >= j.before
    <3>1. p.opening.cursor + Len(q.admissions) >= p.opening.cursor
      BY <2>7, <2>8
    <3>2. p.opening.height + 1 + (q.blocks.count - 1) >= p.opening.height + 1
      BY <2>6, <2>8, <2>9, LastHeight, Zenon
    <3> QED
      BY <2>3, <3>1, <3>2, Zenon
  <2>11. facts.state = 1 \/ (facts.state = 2 /\ j.close)
    BY <2>3, <2>5, <2>9, Zenon
  <2> HIDE DEF facts, j
  <2>12. Continues(j, facts, l1.now)
    BY <2>3, <2>5, <2>10, <2>11, Zenon DEF Continues, j
  <2> QED
    BY <2>12, Zenon DEF facts, j
<1> QED
  BY <1>1, TimelyHolds, PTL

(***************************************************************************)
(* What the guest checks.                                                  *)
(***************************************************************************)

\* More inputs execute no fewer batches.
LEMMA CheckedMore ==
    ASSUME NEW inputs, NEW more, inputs \subseteq more, NEW statement, Checked(inputs, statement)
    PROVE  Checked(more, statement)
BY Zenon DEF Checked, BatchChecked

\* A job stays fine with more inputs and more receipts.
LEMMA MoreFine ==
    ASSUME NEW request, NEW inputs, NEW more, inputs \subseteq more,
           NEW held, NEW others, held \subseteq others, JobFine(request, inputs, held)
    PROVE  JobFine(request, more, others)
<1>1. Checked(inputs, request.receipt.statement) => Checked(more, request.receipt.statement)
  BY CheckedMore
<1>2. request.assumptions \subseteq others
  BY Zenon DEF JobFine
<1> QED
  BY <1>1, <1>2, Zenon DEF JobFine

\* A run of the guest leaves a statement of something it checked, when the
\* receipts it assumes do.
LEMMA GuestChecks ==
    ASSUME NEW bytes, NEW held, NEW inputs,
           GuestAccepts(bytes, held), bytes.magic \in Magics,
           bytes.magic = "room" => bytes.input \in inputs,
           Sound(inputs, held)
    PROVE  Checked(inputs, Statement(bytes))
<1>1. CASE bytes.magic = "room"
  <2>1. Statement(bytes) = <<"batch", bytes.input.journal>>
    BY <1>1, Zenon DEF Statement, HashBatchJournal
  <2>2. StfAccepts(bytes.input, bytes.input.blocks.size)
    BY <1>1, Zenon DEF GuestAccepts
  <2> QED
    BY <1>1, <2>1, <2>2 DEF Checked, BatchChecked, DataChecked
<1>2. CASE bytes.magic = "cold"
  <2>1. Statement(bytes) = <<"cold", bytes.input.template, bytes.input.root,
                             bytes.input.policyHash, bytes.input.program, bytes>>
    BY <1>2, Zenon DEF Statement, ColdTemplateStatement
  <2>2. bytes.input.valid
    BY <1>2, Zenon DEF GuestAccepts
  <2> QED
    BY <2>1, <2>2 DEF Checked, BatchChecked, DataChecked
<1>3. CASE bytes.magic = "blob"
  <2> DEFINE e == bytes.input
             copy == [room |-> e.room, journalHash |-> e.journalHash, data |-> e.data,
                      start |-> e.start, commitments |-> e.commitments,
                      points |-> e.points, evaluations |-> e.evaluations]
  <2>1. Statement(bytes) = <<"availability", e.room, e.journalHash, e.data, Len(e.data),
                             e.start, e.commitments, e.points, e.evaluations>>
    BY <1>3, Zenon DEF Statement, DataAvailabilityStatement
  <2>2. EquivalenceOk(e)
    BY <1>3, Zenon DEF GuestAccepts
  <2>3. /\ copy.room = e.room /\ copy.journalHash = e.journalHash /\ copy.data = e.data
        /\ copy.start = e.start /\ copy.commitments = e.commitments
        /\ copy.points = e.points /\ copy.evaluations = e.evaluations
    BY Zenon
  <2> HIDE DEF copy
  <2>4. EquivalenceOk(copy)
    BY <2>2, <2>3, Zenon DEF EquivalenceOk, Challenge
  <2>5. DataChecked(Statement(bytes))
    BY <2>1, <2>4 DEF DataChecked, copy
  <2> QED
    BY <2>1, <2>5 DEF Checked, BatchChecked
<1>4. CASE bytes.magic = "aggregate"
  <2> DEFINE members == bytes.input
  <2>1. Statement(bytes) = <<"aggregate", Len(members), members>>
    BY <1>4, Zenon DEF Statement, AggregateStatement
  <2>2. MembersVerified(members, held)
    BY <1>4, Zenon DEF GuestAccepts
  <2>3. ASSUME NEW k \in DOMAIN members
        PROVE  /\ members[k].program = Image => BatchChecked(inputs, members[k].journalHash)
               /\ members[k].equivalence = Image => DataChecked(members[k].availability)
    <3>1. ASSUME NEW statement, Claimed(Image, statement, held)
          PROVE  Checked(inputs, statement)
      BY <3>1, Zenon DEF Claimed, Sound, Genuine
    <3>2. /\ Claimed(members[k].program, members[k].journalHash, held)
          /\ members[k].equivalence # <<>> =>
               Claimed(members[k].equivalence, members[k].availability, held)
      BY <2>2, Zenon DEF MembersVerified
    <3> QED
      BY <3>1, <3>2, StrayAssumption, Zenon DEF Checked
  <2> DEFINE st == Statement(bytes)
  <2>4. st[1] = "aggregate" /\ st[3] = members
    BY <2>1
  <2> HIDE DEF st, members
  <2>5. st[1] # "batch" /\ st[1] # "availability" /\ st[1] # "cold"
    BY <2>4, Zenon
  <2>6. BatchChecked(inputs, st) /\ DataChecked(st)
    BY <2>5, Zenon DEF BatchChecked, DataChecked
  <2>7. Checked(inputs, st)
    BY <2>3, <2>4, <2>5, <2>6, Zenon DEF Checked
  <2> QED
    BY <2>7, Zenon DEF st
<1> QED
  BY <1>1, <1>2, <1>3, <1>4, Zenon DEF Magics

\* A request that the native checks let through is one that the guest accepts.
LEMMA AcceptedFine ==
    ASSUME NEW bytes, NEW mode, NEW assumptions, NEW inputs, NEW held,
           assumptions \subseteq held, GuestAccepts(bytes, assumptions),
           bytes.magic \in Magics, bytes.magic = "room" => bytes.input \in inputs
    PROVE  JobFine(Accepted(bytes, mode, assumptions, Statement(bytes)), inputs, held)
<1> DEFINE new == Accepted(bytes, mode, assumptions, Statement(bytes))
<1>1. /\ DOMAIN new = {"pc", "bytes", "mode", "assumptions", "expected", "receipt"}
      /\ new.bytes = bytes /\ new.assumptions = assumptions /\ new.expected = Statement(bytes)
      /\ new.pc = "accepted"
  BY Zenon DEF Accepted
<1> HIDE DEF new
<1>2. JobFine(new, inputs, held)
  BY <1>1, Zenon DEF JobFine
<1> QED
  BY <1>2, Zenon DEF new

\* What a stage may change of a request: its receipt and how far it is.
LEMMA StageFine ==
    ASSUME NEW request, NEW inputs, NEW held, JobFine(request, inputs, held),
           NEW next, DOMAIN next = DOMAIN request, next.bytes = request.bytes,
           next.assumptions = request.assumptions, next.expected = request.expected,
           DOMAIN next.receipt = {"rep", "program", "statement"},
           next.receipt.program = Image, Checked(inputs, next.receipt.statement)
    PROVE  JobFine(next, inputs, held)
BY Zenon DEF JobFine

(***************************************************************************)
(* Receipts of the program.                                                *)
(***************************************************************************)

\* No receipt that is there before the service starts is one of the program.
LEMMA ProvedInit == Init => Proved
BY StrayAssumption, Zenon DEF Init, Proved, Sound, Genuine

\* A receipt with a checked statement may be added.
LEMMA SoundAdd ==
    ASSUME NEW inputs, NEW held, Sound(inputs, held), NEW r, Checked(inputs, r.statement)
    PROVE  Sound(inputs, held \cup {r})
BY Zenon DEF Sound

\* The fields of a receipt that the host makes.
LEMMA ReceiptFields ==
    ASSUME NEW rep, NEW statement
    PROVE  /\ DOMAIN Receipt(rep, statement) = {"rep", "program", "statement"}
           /\ Receipt(rep, statement).program = Image
           /\ Receipt(rep, statement).statement = statement
BY Zenon DEF Receipt

\* Another receipt with a checked statement disturbs nothing.
LEMMA HeldProved ==
    ASSUME Proved, NEW rep, NEW statement, Checked(RoomInputs, statement),
           Held(Receipt(rep, statement))
    PROVE  Proved'
<1> DEFINE new == Receipt(rep, statement)
<1>1. /\ receipts' = receipts \cup {new} /\ job' = job /\ RoomInputs' = RoomInputs
  BY Zenon DEF Held, RoomInputs
<1>2. Checked(RoomInputs, new.statement)
  BY ReceiptFields, Zenon
<1> HIDE DEF new
<1>3. Sound(RoomInputs, receipts')
  BY <1>1, <1>2, SoundAdd, ZenonT(60) DEF Proved
<1>4. job # Idle => JobFine(job, RoomInputs, receipts')
  BY <1>1, MoreFine, Zenon DEF Proved
<1> QED
  BY <1>1, <1>3, <1>4, Zenon DEF Proved

\* Preparing a batch adds an input.
LEMMA PrepareProved ==
    ASSUME Proved, NEW r, NEW request, Prepare(r, request)
    PROVE  Proved'
<1>1. /\ RoomInputs \subseteq RoomInputs' /\ receipts' = receipts /\ job' = job
  BY Zenon DEF Prepare, RoomInputs
<1>2. Sound(RoomInputs', receipts)
  BY <1>1, CheckedMore, Zenon DEF Proved, Sound
<1>3. job # Idle => JobFine(job, RoomInputs', receipts)
  BY <1>1, MoreFine, Zenon DEF Proved
<1> QED
  BY <1>1, <1>2, <1>3, Zenon DEF Proved

\* A step that only starts a request with a fine job.
LEMMA StartProved ==
    ASSUME Proved, UNCHANGED <<l1, prepared, receipts, settled>>,
           JobFine(job', RoomInputs, receipts)
    PROVE  Proved'
<1>1. RoomInputs' = RoomInputs /\ receipts' = receipts
  BY Zenon DEF RoomInputs
<1> QED
  BY <1>1, Zenon DEF Proved

\* A request to prove a batch passes the native checks before it is a job.
LEMMA ProveRoomProved ==
    ASSUME Proved, NEW input \in RoomInputs, NEW mode, ProveRoom(input, mode)
    PROVE  Proved'
<1>1. PICK padded \in BOOLEAN, sized \in BOOLEAN :
        LET bytes == [Bytes("room", input) EXCEPT !.padded = padded, !.sized = sized]
        IN /\ Canonical(bytes)
           /\ StfAccepts(input, NativeSize(input))
           /\ job' = Accepted(bytes, mode, {}, HashBatchJournal(input.journal))
           /\ UNCHANGED <<l1, prepared, receipts, settled>>
  BY Zenon DEF ProveRoom
<1> DEFINE bytes == [Bytes("room", input) EXCEPT !.padded = padded, !.sized = sized]
<1>2. bytes.magic = "room" /\ bytes.input = input
  BY Zenon DEF Bytes
<1>3. ~bytes.padded
  BY <1>1, Zenon DEF Canonical
<1>4. job' = Accepted(bytes, mode, {}, HashBatchJournal(input.journal))
  BY <1>1, Zenon
<1> HIDE DEF bytes
<1>5. GuestAccepts(bytes, {})
  BY <1>1, <1>2, <1>3, ZenonT(60) DEF GuestAccepts, NativeSize
<1>6. Statement(bytes) = HashBatchJournal(input.journal)
  BY <1>2, Zenon DEF Statement
<1>7. bytes.magic \in Magics
  BY <1>2, Zenon DEF Magics
<1>8. JobFine(job', RoomInputs, receipts)
  BY <1>2, <1>4, <1>5, <1>6, <1>7, AcceptedFine, ZenonT(60)
<1> QED
  BY <1>1, <1>8, StartProved, Zenon

\* So does one to prove a cold template,
LEMMA ProveColdProved ==
    ASSUME Proved, NEW cold, NEW mode, ProveCold(cold, mode)
    PROVE  Proved'
<1> DEFINE bytes == Bytes("cold", cold)
<1>1. /\ cold.valid /\ job' = Accepted(bytes, mode, {}, ColdTemplateStatement(cold, bytes))
      /\ UNCHANGED <<l1, prepared, receipts, settled>>
  BY Zenon DEF ProveCold
<1>2. bytes.magic = "cold" /\ bytes.input = cold /\ ~bytes.padded
  BY Zenon DEF Bytes
<1> HIDE DEF bytes
<1>3. GuestAccepts(bytes, {})
  BY <1>1, <1>2, Zenon DEF GuestAccepts
<1>4. Statement(bytes) = ColdTemplateStatement(cold, bytes)
  BY <1>2, Zenon DEF Statement
<1>5. bytes.magic \in Magics /\ bytes.magic # "room"
  BY <1>2, Zenon DEF Magics
<1>6. JobFine(job', RoomInputs, receipts)
  BY <1>1, <1>3, <1>4, <1>5, AcceptedFine, ZenonT(60)
<1> QED
  BY <1>1, <1>6, StartProved, ZenonT(60)

\* one to prove that a batch is in blobs,
LEMMA ProveBlobProved ==
    ASSUME Proved, NEW journal, NEW start, NEW mode, ProveBlob(journal, start, mode)
    PROVE  Proved'
<1> DEFINE input == Bundle(journal, start)
           bytes == Bytes("blob", input)
<1>1. /\ EquivalenceOk(input)
      /\ job' = Accepted(bytes, mode, {}, DataAvailabilityStatement(input))
      /\ UNCHANGED <<l1, prepared, receipts, settled>>
  BY Zenon DEF ProveBlob
<1> HIDE DEF input
<1>2. bytes.magic = "blob" /\ bytes.input = input /\ ~bytes.padded
  BY Zenon DEF Bytes
<1> HIDE DEF bytes
<1>3. GuestAccepts(bytes, {})
  BY <1>1, <1>2, Zenon DEF GuestAccepts
<1>4. Statement(bytes) = DataAvailabilityStatement(input)
  BY <1>2, Zenon DEF Statement
<1>5. bytes.magic \in Magics /\ bytes.magic # "room"
  BY <1>2, Zenon DEF Magics
<1>6. JobFine(job', RoomInputs, receipts)
  BY <1>1, <1>3, <1>4, <1>5, AcceptedFine, ZenonT(60)
<1> QED
  BY <1>1, <1>6, StartProved, Zenon

\* The receipts that aggregate_assumptions picks are the ones the guest asks for.
LEMMA AssumptionsSuffice ==
    ASSUME NEW members, NEW held, MembersVerified(members, held)
    PROVE  MembersVerified(members, AssumptionsFor(members, held))
<1> SUFFICES ASSUME NEW k \in DOMAIN members
             PROVE  /\ Claimed(members[k].program, members[k].journalHash,
                               AssumptionsFor(members, held))
                    /\ members[k].equivalence # <<>> =>
                         Claimed(members[k].equivalence, members[k].availability,
                                 AssumptionsFor(members, held))
  BY Zenon DEF MembersVerified
<1>1. Claimed(members[k].program, members[k].journalHash, AssumptionsFor(members, held))
  BY Zenon DEF MembersVerified, Claimed, AssumptionsFor
<1>2. ASSUME members[k].equivalence # <<>>
      PROVE  Claimed(members[k].equivalence, members[k].availability,
                     AssumptionsFor(members, held))
  BY <1>2, Zenon DEF MembersVerified, Claimed, AssumptionsFor
<1> QED
  BY <1>1, <1>2, Zenon

\* and one to aggregate.
LEMMA ProveAggregateProved ==
    ASSUME Proved, NEW members, NEW mode, ProveAggregate(members, mode)
    PROVE  Proved'
<1> DEFINE bytes == Bytes("aggregate", members)
           assumptions == AssumptionsFor(members, receipts)
<1>1. /\ AggregateOk(members) /\ MembersVerified(members, receipts)
      /\ job' = Accepted(bytes, mode, assumptions, AggregateStatement(members))
      /\ UNCHANGED <<l1, prepared, receipts, settled>>
  BY Zenon DEF ProveAggregate
<1>2. bytes.magic = "aggregate" /\ bytes.input = members /\ ~bytes.padded
  BY Zenon DEF Bytes
<1>3. MembersVerified(members, assumptions)
  BY <1>1, AssumptionsSuffice, ZenonT(60)
<1>4. assumptions \subseteq receipts
  BY Zenon DEF AssumptionsFor
<1> HIDE DEF bytes, assumptions
<1>5. GuestAccepts(bytes, assumptions)
  BY <1>1, <1>2, <1>3, ZenonT(60) DEF GuestAccepts
<1>6. Statement(bytes) = AggregateStatement(members)
  BY <1>2, Zenon DEF Statement
<1>7. bytes.magic \in Magics /\ bytes.magic # "room"
  BY <1>2, Zenon DEF Magics
<1>8. JobFine(job', RoomInputs, receipts)
  BY <1>1, <1>4, <1>5, <1>6, <1>7, AcceptedFine, ZenonT(60)
<1> QED
  BY <1>1, <1>8, StartProved, ZenonT(60)

\* Running the guest commits the statement of its bytes.
LEMMA ComposeProved ==
    ASSUME Proved, Compose
    PROVE  Proved'
<1>1. /\ JobFine(job, RoomInputs, receipts) /\ GuestAccepts(job.bytes, job.assumptions)
      /\ job.assumptions \subseteq receipts
  BY Zenon DEF Compose, Proved, JobFine
<1>2. DOMAIN job = {"pc", "bytes", "mode", "assumptions", "expected", "receipt"}
  BY <1>1, Zenon DEF JobFine
<1>3. Sound(RoomInputs, job.assumptions)
  BY <1>1, Zenon DEF Proved, Sound
<1>4. /\ job.bytes.magic \in Magics
      /\ job.bytes.magic = "room" => job.bytes.input \in RoomInputs
  BY <1>1, Zenon DEF JobFine
<1> DEFINE st == Statement(job.bytes)
           new == Receipt("composite", st)
<1>5. Checked(RoomInputs, st)
  BY <1>1, <1>3, <1>4, GuestChecks, Zenon
<1>6. /\ job' = [job EXCEPT !.pc = "composite", !.receipt = new]
      /\ UNCHANGED <<l1, prepared, receipts, settled>>
  BY <1>1, Zenon DEF Compose
<1> HIDE DEF st
<1>7. /\ DOMAIN new = {"rep", "program", "statement"} /\ new.program = Image
      /\ new.statement = st
  BY ReceiptFields, Zenon
<1> HIDE DEF new
<1>8. /\ DOMAIN job' = DOMAIN job /\ job'.bytes = job.bytes
      /\ job'.assumptions = job.assumptions /\ job'.expected = job.expected
      /\ job'.receipt = new
  BY <1>2, <1>6, ZenonT(60)
<1>9. JobFine(job', RoomInputs, receipts)
  BY <1>1, <1>5, <1>7, <1>8, StageFine, Zenon
<1> QED
  BY <1>6, <1>9, StartProved, Zenon

\* Compression and the wrapper change the representation of a receipt.
LEMMA StageProved ==
    ASSUME Proved, job # Idle, job.pc # "accepted", NEW pc, NEW rep,
           job' = [job EXCEPT !.receipt.rep = rep, !.pc = pc],
           UNCHANGED <<l1, prepared, receipts, settled>>
    PROVE  Proved'
<1>1. JobFine(job, RoomInputs, receipts)
  BY Zenon DEF Proved
<1>2. /\ DOMAIN job = {"pc", "bytes", "mode", "assumptions", "expected", "receipt"}
      /\ DOMAIN job.receipt = {"rep", "program", "statement"}
      /\ job.receipt.program = Image
      /\ Checked(RoomInputs, job.receipt.statement)
  BY <1>1, Zenon DEF JobFine
<1>3. /\ DOMAIN job' = DOMAIN job /\ job'.bytes = job.bytes
      /\ job'.assumptions = job.assumptions /\ job'.expected = job.expected
      /\ job'.receipt = [job.receipt EXCEPT !.rep = rep]
  BY <1>2, Zenon
<1>4. /\ DOMAIN job'.receipt = {"rep", "program", "statement"}
      /\ job'.receipt.program = Image /\ job'.receipt.statement = job.receipt.statement
  BY <1>2, <1>3, ZenonT(60)
<1>5. Checked(RoomInputs, job'.receipt.statement)
  BY <1>2, <1>4, ZenonT(60)
<1>6. JobFine(job', RoomInputs, receipts)
  BY <1>1, <1>3, <1>4, <1>5, StageFine, ZenonT(60)
<1> QED
  BY <1>6, StartProved, ZenonT(60)

\* The stages of a proof keep its statement.
LEMMA StagesProved ==
    ASSUME Proved, Compress \/ Wrap
    PROVE  Proved'
<1>1. CASE Compress
  <2>1. job # Idle /\ job.pc # "accepted" /\ UNCHANGED <<l1, prepared, receipts, settled>>
    BY <1>1, Zenon DEF Compress
  <2>2. CASE job.mode = "groth16"
    <3>1. job' = [job EXCEPT !.receipt.rep = "succinct", !.pc = "succinct"]
      BY <1>1, <2>2, ZenonT(60) DEF Compress
    <3> QED
      BY <2>1, <3>1, StageProved, ZenonT(60)
  <2>3. CASE job.mode # "groth16"
    <3>1. job' = [job EXCEPT !.receipt.rep = "succinct", !.pc = "sealed"]
      BY <1>1, <2>3, ZenonT(60) DEF Compress
    <3> QED
      BY <2>1, <3>1, StageProved, ZenonT(60)
  <2> QED
    BY <2>2, <2>3, ZenonT(60)
<1>2. CASE Wrap
  <2>1. job # Idle /\ job.pc # "accepted" /\ UNCHANGED <<l1, prepared, receipts, settled>>
    BY <1>2, Zenon DEF Wrap
  <2>2. CASE job.pc = "succinct"
    <3>1. job' = [job EXCEPT !.receipt.rep = "identity", !.pc = "identity"]
      BY <1>2, <2>2, ZenonT(60) DEF Wrap
    <3> QED
      BY <2>1, <3>1, StageProved, ZenonT(60)
  <2>3. CASE job.pc # "succinct"
    <3>1. job' = [job EXCEPT !.receipt.rep = "groth16", !.pc = "sealed"]
      BY <1>2, <2>3, Zenon DEF Wrap
    <3> QED
      BY <2>1, <3>1, StageProved, ZenonT(60)
  <2> QED
    BY <2>2, <2>3, Zenon
<1> QED
  BY <1>1, <1>2, ZenonT(60)

\* The answer holds the receipt of the job.
LEMMA RespondProved ==
    ASSUME Proved, Respond
    PROVE  Proved'
<1>1. /\ job' = Idle /\ RoomInputs' = RoomInputs
      /\ receipts' = receipts \/ receipts' = receipts \cup {job.receipt}
  BY Zenon DEF Respond, RoomInputs
<1>2. Checked(RoomInputs, job.receipt.statement)
  <2>1. job # Idle /\ job.pc = "sealed"
    BY Zenon DEF Respond
  <2>2. job.pc # "accepted"
    BY <2>1, Zenon
  <2> QED
    BY <2>1, <2>2, Zenon DEF Proved, JobFine
<1>3. Sound(RoomInputs, receipts')
  BY <1>1, <1>2, SoundAdd, SMTT(30) DEF Proved
<1> QED
  BY <1>1, <1>3, Zenon DEF Proved

\* Wrappers take a receipt that verifies and keep its statement.
LEMMA WrapProved ==
    ASSUME Proved, NEW r \in receipts,
           WrapIdentity(r) \/ \E rep \in {"identity", "groth16"} : WrapSuccinct(r, rep)
    PROVE  Proved'
<1>1. PICK rep : Genuine(r) /\ Held(Receipt(rep, r.statement))
  BY Zenon DEF WrapIdentity, WrapSuccinct, Genuine
<1>2. Checked(RoomInputs, r.statement)
  BY <1>1, Zenon DEF Proved, Sound
<1> QED
  BY <1>1, <1>2, HeldProved, Zenon

\* A stranger's run of the guest is a run of the guest.
LEMMA ForeignProved ==
    ASSUME Proved, Foreign
    PROVE  Proved'
<1>1. ASSUME NEW bytes, ForeignProve(bytes), bytes.magic \in Magics,
             bytes.magic = "room" => bytes.input \in RoomInputs
      PROVE  Proved'
  <2>1. GuestAccepts(bytes, receipts) /\ Held(Receipt("groth16", Statement(bytes)))
    BY <1>1, Zenon DEF ForeignProve
  <2>2. Checked(RoomInputs, Statement(bytes))
    BY <1>1, <2>1, GuestChecks, ZenonT(60) DEF Proved
  <2> QED
    BY <2>1, <2>2, HeldProved, ZenonT(60)
<1>2. \A magic, input : Bytes(magic, input).magic = magic /\ Bytes(magic, input).input = input
  BY Zenon DEF Bytes
<1>3. ASSUME NEW i \in Crafted, ForeignProve(Bytes("room", i)) PROVE Proved'
  <2>1. i \in RoomInputs
    BY Zenon DEF RoomInputs
  <2> QED
    BY <1>1, <1>2, <1>3, <2>1, ZenonT(60) DEF Magics
<1>4. ASSUME NEW e, ForeignProve(Bytes("blob", e)) PROVE Proved'
  BY <1>1, <1>2, <1>4, SMTT(30) DEF Magics
<1>5. ASSUME NEW members, ForeignProve(Bytes("aggregate", members)) PROVE Proved'
  BY <1>1, <1>2, <1>5 DEF Magics
<1> QED
  BY <1>3, <1>4, <1>5, Zenon DEF Foreign

\* Every step keeps the receipts sound and the job fine.
LEMMA ProvedStep == Proved /\ [Next]_vars => Proved'
<1> SUFFICES ASSUME Proved, [Next]_vars PROVE Proved'
  BY Zenon
<1>1. ASSUME UNCHANGED <<prepared, job, receipts>> PROVE Proved'
  <2>1. RoomInputs' = RoomInputs
    BY <1>1, Zenon DEF RoomInputs
  <2> QED
    BY <1>1, <2>1, Zenon DEF Proved
<1>2. CASE L1
  <2>1. UNCHANGED <<prepared, job, receipts>>
    BY <1>2, ZenonT(60) DEF L1, Tick, RecoveryClose, SubmitBatch, SubmitAggregate
  <2> QED
    BY <1>1, <2>1, Zenon
<1>3. CASE Foreign
  BY <1>3, ForeignProved, Zenon
<1>4. CASE Host
  <2>1. CASE Fail
    <3>1. job' = Idle /\ receipts' = receipts /\ RoomInputs' = RoomInputs
      BY <2>1, ZenonT(60) DEF Fail, RoomInputs
    <3> QED
      BY <3>1, Zenon DEF Proved
  <2> QED
    BY <1>4, <2>1, PrepareProved, ProveRoomProved, ProveColdProved, ProveBlobProved,
       ProveAggregateProved, ComposeProved, StagesProved, RespondProved, WrapProved, Zenon
       DEF Host
<1> QED
  BY <1>1, <1>2, <1>3, <1>4, ZenonT(60) DEF Next, vars

\* Every receipt of the program, and the job under way, states only what the guest
\* checked on bytes that a host gave it.
THEOREM ProvedHolds == Spec => []Proved
BY ProvedInit, ProvedStep, PTL DEF Spec

\* Once the native checks of a request passed, the guest accepts the same bytes and
\* commits the statement that the host expects.
THEOREM GuestFollowsHost == Spec => []GuestAgrees
<1>1. Proved => GuestAgrees
  BY Zenon DEF Proved, JobFine, GuestAgrees
<1> QED
  BY <1>1, ProvedHolds, PTL

\* A receipt that a verify command accepts states what the guest checked.
LEMMA VerifiedChecked ==
    ASSUME Proved, NEW r \in receipts, Verifies(r, Image)
    PROVE  Checked(RoomInputs, r.statement)
BY Zenon DEF Proved, Sound, Genuine

\* The members of a list of batches.
LEMMA MemberFields ==
    ASSUME NEW list, NEW k \in DOMAIN list
    PROVE  /\ DOMAIN MembersOf(list) = DOMAIN list
           /\ MembersOf(list)[k].program = Image
           /\ MembersOf(list)[k].journalHash = <<"batch", list[k].journal>>
           /\ list[k].blobs # <<>> =>
                /\ MembersOf(list)[k].equivalence = Image
                /\ MembersOf(list)[k].availability =
                     DataAvailabilityStatement(Publication(list[k].journal, 0, list[k].blobs))
<1> DEFINE b == list[k]
           st == IF b.blobs = <<>> THEN <<>>
                 ELSE DataAvailabilityStatement(Publication(b.journal, 0, b.blobs))
<1>1. DOMAIN MembersOf(list) = DOMAIN list /\ MembersOf(list)[k] = Member(b.journal, st)
  BY Zenon DEF MembersOf, MemberOf
<1>2. b.blobs # <<>> =>
        /\ st = DataAvailabilityStatement(Publication(b.journal, 0, b.blobs)) /\ st # <<>>
  BY Zenon DEF DataAvailabilityStatement
<1> HIDE DEF st
<1>3. /\ Member(b.journal, st).program = Image
      /\ Member(b.journal, st).journalHash = <<"batch", b.journal>>
      /\ Member(b.journal, st).availability = st
      /\ st # <<>> => Member(b.journal, st).equivalence = Image
  BY Zenon DEF Member, HashBatchJournal
<1> QED
  BY <1>1, <1>2, <1>3, Zenon

\* Whoever made a receipt, what a verify command accepts was executed or validated
\* by the guest.
THEOREM ReceiptsAreChecked == Spec => []VerifiedWasChecked
<1>1. ASSUME Proved PROVE VerifiedWasChecked
  <2> SUFFICES ASSUME NEW r \in receipts
               PROVE  /\ \A i \in RoomInputs : VerifyRoom(i.journal, r) => Executed(i.journal)
                      /\ \A c \in Colds : VerifyCold(c, r) => c.valid
                      /\ \A list \in Lists :
                           VerifyAggregate(MembersOf(list), r) =>
                             \A k \in DOMAIN list : Executed(list[k].journal)
    BY Zenon DEF VerifiedWasChecked
  <2>1. ASSUME NEW i \in RoomInputs, VerifyRoom(i.journal, r) PROVE Executed(i.journal)
    <3>1. Verifies(r, Image) /\ r.statement = <<"batch", i.journal>>
      BY <2>1, Zenon DEF VerifyRoom, HashBatchJournal
    <3>2. r.statement[1] = "batch" /\ r.statement[2] = i.journal
      BY <3>1
    <3>3. BatchChecked(RoomInputs, r.statement)
      BY <1>1, <3>1, VerifiedChecked, Zenon DEF Checked
    <3> QED
      BY <3>2, <3>3, Zenon DEF BatchChecked, Executed
  <2>2. ASSUME NEW c \in Colds, VerifyCold(c, r) PROVE c.valid
    <3>1. /\ Verifies(r, Image)
          /\ r.statement = <<"cold", c.template, c.root, c.policyHash, c.program,
                             Bytes("cold", c)>>
      BY <2>2, Zenon DEF VerifyCold, ColdTemplateStatement
    <3>2. r.statement[1] = "cold" /\ r.statement[6] = Bytes("cold", c)
      BY <3>1
    <3>3. Bytes("cold", c).input = c
      BY Zenon DEF Bytes
    <3>4. r.statement[1] = "cold" => r.statement[6].input.valid
      BY <1>1, <3>1, VerifiedChecked, Zenon DEF Checked
    <3> QED
      BY <3>2, <3>3, <3>4, Zenon
  <2>3. ASSUME NEW list \in Lists, VerifyAggregate(MembersOf(list), r), NEW k \in DOMAIN list
        PROVE  Executed(list[k].journal)
    <3> DEFINE members == MembersOf(list)
    <3>1. Verifies(r, Image) /\ r.statement = <<"aggregate", Len(members), members>>
      BY <2>3, Zenon DEF VerifyAggregate, AggregateStatement
    <3> HIDE DEF members
    <3>2. r.statement[1] = "aggregate" /\ r.statement[3] = members
      BY <3>1
    <3>3. /\ k \in DOMAIN members /\ members[k].program = Image
          /\ members[k].journalHash = <<"batch", list[k].journal>>
      BY MemberFields, Zenon DEF members
    <3>4. BatchChecked(RoomInputs, members[k].journalHash)
      BY <1>1, <3>1, <3>2, <3>3, VerifiedChecked, Zenon DEF Checked
    <3>5. members[k].journalHash[1] = "batch" /\ members[k].journalHash[2] = list[k].journal
      BY <3>3
    <3> QED
      BY <3>4, <3>5, Zenon DEF BatchChecked, Executed
  <2> QED
    BY <2>1, <2>2, <2>3, Zenon
<1> QED
  BY <1>1, ProvedHolds, PTL

(***************************************************************************)
(* What L1 accepts.                                                        *)
(***************************************************************************)

\* A statement with a seal that L1 accepts is one that the guest checked.
LEMMA SealedChecked ==
    ASSUME Proved, NEW statement, Sealed(statement)
    PROVE  Checked(RoomInputs, statement)
<1> DEFINE r == Receipt("groth16", statement)
<1>1. r \in receipts /\ r.rep = "groth16" /\ r.program = Image /\ r.statement = statement
  BY Zenon DEF Sealed, Receipt
<1> HIDE DEF r
<1>2. Verifies(r, Image)
  BY <1>1, Zenon DEF Verifies
<1> QED
  BY <1>1, <1>2, VerifiedChecked, Zenon

\* The admissions of a journal are not past now.
InForce(j) ==
    \A k \in DOMAIN j.admissions :
      l1.now <= j.admissions[k].deadline /\ j.batch <= j.admissions[k].lastBatch

\* The admissions of a journal that the guest executed are in force as long as L1
\* may include it.
LEMMA ExecutedInForce ==
    ASSUME Timely, NEW j \in Journals, BatchChecked(RoomInputs, <<"batch", j>>),
           l1.now <= j.deadline
    PROVE  InForce(j)
<1> SUFFICES ASSUME NEW k \in DOMAIN j.admissions
             PROVE  l1.now <= j.admissions[k].deadline /\ j.batch <= j.admissions[k].lastBatch
  BY Zenon DEF InForce
<1> DEFINE st == <<"batch", j>>
<1>1. st[1] = "batch" /\ st[2] = j
  OBVIOUS
<1> HIDE DEF st
<1>2. BatchChecked(RoomInputs, st)
  BY Zenon DEF st
<1>3. PICK i \in RoomInputs : i.journal = j /\ StfAccepts(i, i.blocks.size)
  BY <1>1, <1>2, Zenon DEF BatchChecked
<1>4. j.admissions[k].lastBatch >= j.batch /\ j.admissions[k].deadline >= j.deadline
  BY <1>3, Zenon DEF StfAccepts, AdmissionsInForce
<1>5. /\ j.batch \in Nat /\ j.deadline \in Nat /\ j.admissions \in Seq(Admission)
      /\ l1.now \in Nat
  BY JournalTyped, Zenon DEF Timely, L1OK
<1>6. j.admissions[k] \in Admission
  BY <1>5
<1>7. j.admissions[k].deadline \in Nat /\ j.admissions[k].lastBatch \in Nat
  BY <1>6, Zenon DEF Admission
<1>8. l1.now <= j.admissions[k].deadline
  BY <1>4, <1>5, <1>7, EarlierDeadline, Zenon
<1>9. j.batch <= j.admissions[k].lastBatch
  BY <1>4, <1>5, <1>7, BatchAllowed, Zenon
<1> QED
  BY <1>8, <1>9, Zenon

\* Every step keeps the admissions of the included batches in force.
LEMMA InForceStep == Timely /\ Proved /\ NoLateAdmission /\ [Next]_vars => NoLateAdmission'
<1> SUFFICES ASSUME Timely, Proved, NoLateAdmission, [Next]_vars PROVE NoLateAdmission'
  BY Zenon
<1>1. ASSUME settled' = settled PROVE NoLateAdmission'
  BY <1>1, Zenon DEF NoLateAdmission
<1>2. ASSUME NEW j \in Journals, NEW blobs, SubmitBatch(j, blobs) PROVE NoLateAdmission'
  <2> DEFINE new == [journal |-> j, at |-> l1.now, blobs |-> blobs]
  <2>1. /\ settled' = settled \cup {new} /\ Sealed(<<"batch", j>>)
        /\ l1.now <= j.deadline
    BY <1>2, Zenon DEF SubmitBatch, Continues, HashBatchJournal
  <2>2. BatchChecked(RoomInputs, <<"batch", j>>)
    BY <2>1, SealedChecked, Zenon DEF Checked
  <2>3. InForce(j)
    BY <2>1, <2>2, ExecutedInForce, Zenon
  <2>4. new.journal = j /\ new.at = l1.now
    BY Zenon
  <2> HIDE DEF new
  <2> QED
    BY <2>1, <2>3, <2>4, Zenon DEF NoLateAdmission, InForce
<1>3. ASSUME NEW list \in Lists, SubmitAggregate(list, MembersOf(list))
      PROVE  NoLateAdmission'
  <2> DEFINE members == MembersOf(list)
             st == AggregateStatement(members)
             applied == {k \in DOMAIN list :
                           Continues(list[k].journal, l1.rooms[list[k].journal.room], l1.now)}
             new(k) == [journal |-> list[k].journal, at |-> l1.now, blobs |-> list[k].blobs]
  <2>1. Sealed(st) /\ settled' = settled \cup {new(k) : k \in applied}
    BY <1>3, Zenon DEF SubmitAggregate
  <2>2. st[1] = "aggregate" /\ st[3] = members
    BY Zenon DEF AggregateStatement
  <2>3. Checked(RoomInputs, st)
    BY <2>1, SealedChecked, Zenon
  <2>4. ASSUME NEW k \in applied PROVE InForce(list[k].journal)
    <3>1. k \in DOMAIN list /\ l1.now <= list[k].journal.deadline
      BY Zenon DEF Continues
    <3> HIDE DEF members, st, applied
    <3>2. /\ k \in DOMAIN members /\ members[k].program = Image
          /\ members[k].journalHash = <<"batch", list[k].journal>>
      BY <3>1, MemberFields, Zenon DEF members
    <3>3. BatchChecked(RoomInputs, members[k].journalHash)
      BY <2>2, <2>3, <3>2, Zenon DEF Checked
    <3>4. list[k].journal \in Journals
      BY <3>1, ListJournals, Zenon
    <3> QED
      BY <3>1, <3>2, <3>3, <3>4, ExecutedInForce, Zenon
  <2>5. \A k : new(k).journal = list[k].journal /\ new(k).at = l1.now
    BY Zenon
  <2> HIDE DEF new, applied
  <2>6. ASSUME NEW s \in settled', NEW k \in DOMAIN s.journal.admissions
        PROVE  /\ s.at <= s.journal.admissions[k].deadline
               /\ s.journal.batch <= s.journal.admissions[k].lastBatch
    <3>1. CASE s \in settled
      BY <2>6, <3>1, Zenon DEF NoLateAdmission
    <3>2. CASE s \notin settled
      <4>1. PICK m \in applied : s = new(m)
        BY <2>1, <3>2, Zenon
      <4>2. s.journal = list[m].journal /\ s.at = l1.now
        BY <2>5, <4>1, Zenon
      <4>3. InForce(s.journal)
        BY <2>4, <4>2, Zenon
      <4> QED
        BY <2>6, <4>2, <4>3, Zenon DEF InForce
    <3> QED
      BY <3>1, <3>2, Zenon
  <2> QED
    BY <2>6, Zenon DEF NoLateAdmission
<1>4. CASE Host \/ Foreign
  <2>1. settled' = settled
    BY <1>4, OthersLeaveL1, Zenon DEF Prepare
  <2> QED
    BY <1>1, <2>1, Zenon
<1>5. CASE L1
  <2>1. ASSUME Tick \/ \E r \in Closings : RecoveryClose(r) PROVE settled' = settled
    BY <2>1, Zenon DEF Tick, RecoveryClose
  <2> QED
    BY <1>1, <1>2, <1>3, <1>5, <2>1, Zenon DEF L1
<1> QED
  BY <1>1, <1>4, <1>5, ZenonT(60) DEF Next, vars

\* A batch that L1 includes carries no admission whose deadline or last batch is
\* past, whoever prepared and proved it: the guest compares the admissions with the
\* inclusion deadline of the journal, and L1 takes no journal without its receipt
\* or after its deadline.
THEOREM AdmissionsInTime == Spec => []NoLateAdmission
<1>1. Init => NoLateAdmission
  BY Zenon DEF Init, NoLateAdmission
<1> QED
  BY <1>1, InForceStep, TimelyHolds, ProvedHolds, PTL DEF Spec

(***************************************************************************)
(* Data in blobs.                                                          *)
(***************************************************************************)

\* A blob holds bytes.
LEMMA BlobSize == BytesPerBlob \in Nat /\ BytesPerBlob > 0
<1>1. Fields \in Nat /\ Fields > 0 /\ BytesPerField \in Nat /\ BytesPerField > 0
  BY FieldAssumption
<1> QED
  BY <1>1 DEF BytesPerBlob

\* A number of bytes needs a natural number of blobs.
LEMMA BlobCountNat == ASSUME NEW d \in Seq(Nat) PROVE BlobCount(d) \in Nat
<1>1. Len(d) \in Nat
  OBVIOUS
<1> QED
  BY <1>1, BlobSize DEF BlobCount

\* The openings of the published blobs are those of the data, so the blobs are the
\* data's.
LEMMA DataCarried ==
    ASSUME NEW j, j.data \in Seq(Nat), NEW d \in Seq(Nat), NEW blobs, blobs = CanonicalBlobs(d),
           DataChecked(DataAvailabilityStatement(Publication(j, 0, blobs)))
    PROVE  blobs = CanonicalBlobs(j.data)
<1> DEFINE n == BlobCount(d)
           e == Publication(j, 0, blobs)
           st == DataAvailabilityStatement(e)
           copy == [room |-> st[2], journalHash |-> st[3], data |-> st[4], start |-> st[6],
                    commitments |-> st[7], points |-> st[8], evaluations |-> st[9]]
<1>1. n \in Nat /\ DOMAIN blobs = 1 .. n
  BY BlobCountNat, Zenon DEF CanonicalBlobs
<1>2. st = <<"availability", e.room, e.journalHash, e.data, Len(e.data), e.start,
             e.commitments, e.points, e.evaluations>>
  BY Zenon DEF DataAvailabilityStatement
<1>3. /\ e.data = j.data
      /\ e.commitments = [b \in DOMAIN blobs |-> Commitment(blobs[b])]
      /\ e.evaluations = [b \in DOMAIN blobs |-> Opening(blobs[b], e.points[b])]
  BY Zenon DEF Publication, Equivalence
<1> HIDE DEF e
<1>4. /\ st[1] = "availability" /\ st[4] = e.data /\ st[7] = e.commitments
      /\ st[8] = e.points /\ st[9] = e.evaluations
  BY <1>2
<1> HIDE DEF st
<1>5. /\ copy.data = j.data /\ copy.commitments = e.commitments
      /\ copy.points = e.points /\ copy.evaluations = e.evaluations
  BY <1>3, <1>4, Zenon
<1>6. EquivalenceOk(copy)
  BY <1>4, Zenon DEF DataChecked, st, e
<1> HIDE DEF copy
<1>7. DOMAIN copy.commitments = 1 .. n
  BY <1>1, <1>3, <1>5, ZenonT(60)
<1>8. Len(copy.commitments) = n
  BY <1>1, <1>3, <1>5
<1>9. n = BlobCount(j.data)
  BY <1>5, <1>6, <1>8, ZenonT(60) DEF EquivalenceOk
<1>10. ASSUME NEW b \in 1 .. n PROVE blobs[b] = BlobFieldValues(j.data, b - 1)
  <2>1. e.evaluations[b] = Opening(blobs[b], e.points[b])
    BY <1>1, <1>3, Zenon
  <2>2. e.evaluations[b] = Opening(BlobFieldValues(j.data, b - 1), e.points[b])
    BY <1>5, <1>6, <1>7, Zenon DEF EquivalenceOk
  <2>3. \A u, v, z : Opening(u, z) = Opening(v, z) => u = v
    BY Zenon DEF Opening
  <2> QED
    BY <2>1, <2>2, <2>3, Zenon
<1>11. blobs = [b \in 1 .. n |-> blobs[b]]
  BY Zenon DEF CanonicalBlobs
<1> HIDE DEF n
<1> QED
  BY <1>9, <1>10, <1>11, ZenonT(60) DEF CanonicalBlobs

\* A batch that L1 accepted with its data in blobs has published its data.
LEMMA BlobsStep == Timely /\ Proved /\ BlobsCarryData /\ [Next]_vars => BlobsCarryData'
<1> SUFFICES ASSUME Timely, Proved, BlobsCarryData, [Next]_vars PROVE BlobsCarryData'
  BY Zenon
<1>1. ASSUME settled' = settled PROVE BlobsCarryData'
  BY <1>1, Zenon DEF BlobsCarryData
<1>2. ASSUME NEW statement, Sealed(statement) PROVE Checked(RoomInputs, statement)
  BY <1>2, SealedChecked, Zenon
<1>3. ASSUME NEW j \in Journals, NEW blobs \in BlobChoices,
             DataChecked(DataAvailabilityStatement(Publication(j, 0, blobs)))
      PROVE  blobs = CanonicalBlobs(j.data)
  <2>1. PICK i \in Journals : blobs = CanonicalBlobs(i.data)
    BY Zenon DEF BlobChoices
  <2>2. i.data \in Seq(Nat) /\ j.data \in Seq(Nat)
    BY JournalTyped, Zenon DEF Timely
  <2> QED
    BY <1>3, <2>1, <2>2, DataCarried, ZenonT(60)
<1>4. ASSUME NEW j \in Journals, NEW blobs \in {<<>>} \cup BlobChoices, SubmitBatch(j, blobs)
      PROVE  BlobsCarryData'
  <2> DEFINE new == [journal |-> j, at |-> l1.now, blobs |-> blobs]
             st == DataAvailabilityStatement(Publication(j, 0, blobs))
  <2>1. settled' = settled \cup {new} /\ (blobs # <<>> => Sealed(st))
    BY <1>4, Zenon DEF SubmitBatch
  <2>2. blobs # <<>> => blobs = CanonicalBlobs(j.data)
    <3>1. ASSUME blobs # <<>> PROVE DataChecked(st)
      BY <1>2, <2>1, <3>1, Zenon DEF Checked
    <3>2. blobs # <<>> => blobs \in BlobChoices
      BY Zenon
    <3> QED
      BY <1>3, <3>1, <3>2, Zenon
  <2>3. new.blobs = blobs /\ new.journal = j
    BY Zenon
  <2> HIDE DEF new
  <2> QED
    BY <2>1, <2>2, <2>3, Zenon DEF BlobsCarryData
<1>5. ASSUME NEW list \in Lists, SubmitAggregate(list, MembersOf(list))
      PROVE  BlobsCarryData'
  <2> DEFINE members == MembersOf(list)
             st == AggregateStatement(members)
             new(k) == [journal |-> list[k].journal, at |-> l1.now, blobs |-> list[k].blobs]
  <2>1. Sealed(st) /\ settled' \subseteq settled \cup {new(k) : k \in DOMAIN list}
    BY <1>5, Zenon DEF SubmitAggregate
  <2>2. st[1] = "aggregate" /\ st[3] = members
    BY Zenon DEF AggregateStatement
  <2>3. Checked(RoomInputs, st)
    BY <1>2, <2>1, Zenon
  <2>4. ASSUME NEW k \in DOMAIN list, list[k].blobs # <<>>
        PROVE  list[k].blobs = CanonicalBlobs(list[k].journal.data)
    <3> HIDE DEF members, st
    <3>1. /\ k \in DOMAIN members /\ members[k].equivalence = Image
          /\ members[k].availability =
               DataAvailabilityStatement(Publication(list[k].journal, 0, list[k].blobs))
      BY <2>4, MemberFields, Zenon DEF members
    <3>2. DataChecked(members[k].availability)
      BY <2>2, <2>3, <3>1, Zenon DEF Checked
    <3>3. list[k].journal \in Journals /\ list[k] \in Batches
      BY ListJournals, Zenon
    <3>4. list[k].blobs \in BlobChoices
      BY <2>4, <3>3, Zenon DEF Batches
    <3> QED
      BY <1>3, <3>1, <3>2, <3>3, <3>4, Zenon
  <2>5. \A k : new(k).blobs = list[k].blobs /\ new(k).journal = list[k].journal
    BY Zenon
  <2> HIDE DEF new
  <2>6. ASSUME NEW s \in settled', s.blobs # <<>> PROVE s.blobs = CanonicalBlobs(s.journal.data)
    <3>1. CASE s \in settled
      BY <2>6, <3>1, Zenon DEF BlobsCarryData
    <3>2. CASE s \notin settled
      <4>1. PICK k \in DOMAIN list : s = new(k)
        BY <2>1, <3>2, Zenon
      <4> QED
        BY <2>4, <2>5, <2>6, <4>1, Zenon
    <3> QED
      BY <3>1, <3>2, Zenon
  <2> QED
    BY <2>6, Zenon DEF BlobsCarryData
<1>6. CASE Host \/ Foreign
  <2>1. settled' = settled
    BY <1>6, OthersLeaveL1, Zenon DEF Prepare
  <2> QED
    BY <1>1, <2>1, Zenon
<1>7. CASE L1
  <2>1. ASSUME Tick \/ \E r \in Closings : RecoveryClose(r) PROVE settled' = settled
    BY <2>1, Zenon DEF Tick, RecoveryClose
  <2> QED
    BY <1>1, <1>4, <1>5, <1>7, <2>1, Zenon DEF L1
<1> QED
  BY <1>1, <1>6, <1>7, ZenonT(60) DEF Next, vars

\* The blobs that L1 accepts beside a batch hold exactly the data that its journal
\* commits to: the equivalence receipt it needs is one the guest checked.
THEOREM BlobsHoldTheData == Spec => []BlobsCarryData
<1>1. Init => BlobsCarryData
  BY Zenon DEF Init, BlobsCarryData
<1> QED
  BY <1>1, BlobsStep, TimelyHolds, ProvedHolds, PTL DEF Spec

=============================================================================
