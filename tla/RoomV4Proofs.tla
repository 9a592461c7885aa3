---------------------------- MODULE RoomV4Proofs ----------------------------
(***************************************************************************)
(* Proofs about the life of a v4 room, for any preset, programs, openings, *)
(* bodies and bounds: slots are for life, the exits of retired members are *)
(* frozen, composed batches keep the template, the exits pay out           *)
(* everything that was funded, and every newcomer paid for its slot.       *)
(***************************************************************************)
EXTENDS RoomV4, TLAPS

Program == room.preset.program

\* What L1 never changes of a room it opened.
RoomOK ==
    room # Nothing =>
      /\ {"preset", "opening"} \subseteq DOMAIN room
      /\ DOMAIN room.opening = AssetIds(Program)

\* What the guest checked of a proved batch stays true until it is submitted or
\* dropped, because L1 moves only the inbox meanwhile.
Checked ==
    proved # Nothing =>
      /\ room # Nothing
      /\ TransitionOk(room.index + 1, roster, proved.postRoster, proved.deltas)
      /\ ContinuityOk(Program, exits, proved.exits, roster)
      /\ \A id \in AssetIds(Program) : ExitTotal(proved.exits, id) = proved.totals[id]
      /\ proved.template # Nothing =>
           LinkOk(ColdJournal(proved.template), proved.template, room.preset, proved.pre)

\* The batch behind a new statement and what the guest checked of it.
LEMMA ProveChecks ==
    ASSUME Prove
    PROVE  \E deltas, paid, totals, template :
             /\ proved'.deltas = deltas /\ proved'.postRoster = AfterDeltas(deltas)
             /\ proved'.exits = paid /\ proved'.totals = totals
             /\ proved'.template = template /\ proved'.pre = accounts
             /\ MovesOk(deltas)
             /\ ContinuityOk(Program, exits, paid, roster)
             /\ \A asset \in Range(Program.assets) : ExitTotal(paid, asset.id) = totals[asset.id]
             /\ template \in {Nothing} \cup templates /\ \E body : WitnessOk(body, template)
<1>1. PICK batch, residuals :
        /\ batch \in Candidates
        /\ BatchSettles(batch, residuals, Ran(AfterInbox(batch).accounts, batch.blocks))
        /\ proved' = JournalV4(batch, residuals)
    BY Zenon DEF Prove
<1>2. PICK body, deltas, end, template :
        /\ batch = Batch(body, deltas, end, exits, template)
        /\ MovesOk(deltas)
        /\ template \in {Nothing} \cup templates /\ \E b : WitnessOk(b, template)
  <2>1. \E body \in {x \in Bodies : WitnessOk(x, Nothing)}, deltas \in {d \in Deltas : MovesOk(d)},
           end \in room.cursor .. Len(inbox),
           template \in {t \in {Nothing} \cup templates : \E b \in Bodies : WitnessOk(b, t)} :
             batch = Batch(body, deltas, end, exits, template)
    BY <1>1 DEF Candidates
  <2> QED
    BY <2>1, Zenon
<1> DEFINE after == Ran(AfterInbox(batch).accounts, batch.blocks)
           paid == ExitsOf(after, Program, AfterDeltas(deltas), residuals)
           totals == Funded(InboxAfter(ResolvedEntries(batch), room.cursor))
<1>3. /\ batch.deltas = deltas /\ batch.post = AfterDeltas(deltas)
      /\ batch.previous = exits /\ batch.template = template
    BY <1>2, Zenon DEF Batch
<1>4. /\ SettlementOk(Opened(after, batch.envelope), Program, AfterDeltas(deltas), totals, residuals)
      /\ ContinuityOk(Program, exits, paid, roster)
    BY <1>1, <1>3, Zenon DEF BatchSettles, Program
<1>5. /\ proved'.deltas = deltas /\ proved'.postRoster = AfterDeltas(deltas)
      /\ proved'.exits = paid /\ proved'.totals = totals
      /\ proved'.template = template /\ proved'.pre = accounts
    BY <1>1, <1>3, Zenon DEF JournalV4, Program
<1> HIDE DEF totals, after
<1>6. \A asset \in Range(Program.assets) : ExitTotal(paid, asset.id) = totals[asset.id]
    BY <1>4, Zenon DEF SettlementOk, Opened
<1> QED
    BY <1>2, <1>4, <1>5, <1>6, ZenonT(60)

\* The steps that leave what is checked of a room alone.
Aside == UNCHANGED <<room, accounts, roster, exits, frozen, members>>

\* A step opens the room, submits or proves a batch, or leaves the room alone.
LEMMA StepKinds ==
    ASSUME [Next]_vars
    PROVE  \/ OpenRoom \/ Submit \/ Prove
           \/ Aside /\ (proved' = proved \/ proved' = Nothing)
<1>1. CASE PrepareCold
    BY <1>1, Zenon DEF PrepareCold, Aside
<1>2. CASE Fund
    BY <1>2, Zenon DEF Fund, Aside
<1>3. CASE Refund
    BY <1>3, Zenon DEF Refund, Aside
<1>4. CASE Drop
    BY <1>4, Zenon DEF Drop, Aside
<1>5. CASE UNCHANGED vars
    BY <1>5, Zenon DEF vars, Aside
<1> QED
    BY <1>1, <1>2, <1>3, <1>4, <1>5, ZenonT(60) DEF Next

\* What a genesis that the guest accepted makes of the room.
Opens(input) ==
    /\ input \in Openings /\ GenesisOk(input)
    /\ exits' = ExitsOf(input.accounts, input.program, input.roster, input.residuals)
    /\ {"preset", "opening"} \subseteq DOMAIN room'
    /\ room'.preset = input.preset /\ room'.opening = input.totals
    /\ roster' = input.roster
    /\ members' = {<<s, input.roster[s].account>> : s \in Active(input.roster)}
    /\ frozen' = [s \in Used(input.roster) \ Active(input.roster) |->
                    [id \in AssetIds(input.program) |-> PaidTo(exits', s, id)]]

\* A room opens with such a genesis.
LEMMA OpenChecks ==
    ASSUME OpenRoom
    PROVE  \E input : Opens(input)
    BY DEF OpenRoom, Opens

\* A room opens with nothing in its inbox.
LEMMA OpenFresh ==
    ASSUME OpenRoom
    PROVE  /\ inbox' = <<>> /\ proved' = proved
           /\ "cursor" \in DOMAIN room' /\ room'.cursor = 0
    BY DEF OpenRoom

\* The exits of an accepted genesis pay out its totals.
LEMMA GenesisProgram ==
    ASSUME NEW input, GenesisOk(input)
    PROVE  /\ input.program = input.preset.program
           /\ DOMAIN input.totals = AssetIds(input.program)
           /\ \A asset \in Range(input.program.assets) :
                ExitTotal(ExitsOf(input.accounts, input.program, input.roster, input.residuals), asset.id)
                  = input.totals[asset.id]
           /\ VerifyRoster(input.roster)
<1>1. /\ SettlementOk(Opened(input.accounts, input.envelope), input.program, input.roster,
                      input.totals, input.residuals)
      /\ FromInput(input.preset, input.preset, input.roster,
                   Opened(input.accounts, input.envelope), <<>>,
                   WitnessBytes(input.accounts, input.envelope, <<>>))
      /\ ProgramOk(input.program, input.preset)
    BY Zenon DEF GenesisOk
<1>2. Opened(input.accounts, input.envelope).accounts = input.accounts
    BY Zenon DEF Opened
<1>3. VerifyRoster(input.roster)
    BY <1>1, Zenon DEF FromInput
<1>4. input.program = input.preset.program
    BY <1>1, Zenon DEF ProgramOk
<1> QED
    BY <1>1, <1>2, <1>3, <1>4, Zenon DEF SettlementOk

\* A submitted batch leaves the roster and the exits that its proof checked.
LEMMA SubmitKeeps ==
    ASSUME RoomOK, Checked, Submit
    PROVE  /\ room # Nothing /\ RoomOK' /\ Checked'
           /\ room'.preset = room.preset /\ room'.opening = room.opening
           /\ roster' = proved.postRoster /\ exits' = proved.exits
<1>1. room # Nothing /\ proved' = Nothing
    BY Zenon DEF Checked, Submit
<1>2. /\ {"preset", "opening"} \subseteq DOMAIN room /\ DOMAIN room.opening = AssetIds(Program)
    BY <1>1, Zenon DEF RoomOK
<1>3. /\ room'.preset = room.preset /\ room'.opening = room.opening
      /\ {"preset", "opening"} \subseteq DOMAIN room'
    BY <1>2, Zenon DEF Submit
<1> QED
    BY <1>1, <1>2, <1>3, ZenonT(60) DEF RoomOK, Checked, Submit, Program

\* Every step keeps a proved batch one that the guest accepted on the room.
LEMMA CheckedNext == RoomOK /\ Checked /\ [Next]_vars => RoomOK' /\ Checked'
<1> SUFFICES ASSUME RoomOK, Checked, [Next]_vars PROVE RoomOK' /\ Checked'
    BY Zenon
<1>1. CASE OpenRoom
  <2>0. PICK input : Opens(input)
    BY <1>1, OpenChecks, Zenon
  <2>1. /\ GenesisOk(input)
        /\ {"preset", "opening"} \subseteq DOMAIN room'
        /\ room'.preset = input.preset /\ room'.opening = input.totals
    BY <2>0, Zenon DEF Opens
  <2>2. RoomOK'
    BY <2>1, GenesisProgram DEF RoomOK, Program
  <2>3. room = Nothing /\ proved' = proved
    BY <1>1, Zenon DEF OpenRoom
  <2> QED
    BY <2>2, <2>3, ZenonT(60) DEF Checked
<1>2. CASE Submit
    BY <1>2, SubmitKeeps, Zenon
<1>3. CASE Prove
  <2>1. PICK deltas, paid, totals, template :
             /\ proved'.deltas = deltas /\ proved'.postRoster = AfterDeltas(deltas)
             /\ proved'.exits = paid /\ proved'.totals = totals
             /\ proved'.template = template /\ proved'.pre = accounts
             /\ MovesOk(deltas)
             /\ ContinuityOk(Program, exits, paid, roster)
             /\ \A asset \in Range(Program.assets) : ExitTotal(paid, asset.id) = totals[asset.id]
             /\ template \in {Nothing} \cup templates /\ \E body : WitnessOk(body, template)
    BY <1>3, ProveChecks, Zenon
  <2>2. /\ room # Nothing
        /\ UNCHANGED <<room, roster, exits, accounts>>
    BY <1>3, Zenon DEF Prove, Continues
  <2>3. TransitionOk(room.index + 1, roster, proved'.postRoster, proved'.deltas)
    BY <2>1, Zenon DEF MovesOk
  <2>4. \A id \in AssetIds(Program) : ExitTotal(proved'.exits, id) = proved'.totals[id]
    BY <2>1, Zenon DEF AssetIds, Range
  <2>5. proved'.template # Nothing =>
           LinkOk(ColdJournal(proved'.template), proved'.template, room.preset, proved'.pre)
    BY <2>1, Zenon DEF WitnessOk
  <2> QED
    BY <2>1, <2>2, <2>3, <2>4, <2>5, Zenon DEF RoomOK, Checked, Program
<1>4. CASE Aside /\ (proved' = proved \/ proved' = Nothing)
    BY <1>4, Zenon DEF Aside, RoomOK, Checked, Program
<1> QED
    BY <1>1, <1>2, <1>3, <1>4, StepKinds, ZenonT(60)

\* A proved batch is one that the guest accepted on the room as it is.
LEMMA CheckedHolds == Spec => [](RoomOK /\ Checked)
<1>1. Init => RoomOK /\ Checked
    BY Zenon DEF Init, RoomOK, Checked
<1> QED
    BY <1>1, CheckedNext, PTL DEF Spec

-----------------------------------------------------------------------------
(* Slots *)

\* Every member of the past still has its slot.
Belong ==
    \A p \in members : p[1] \in Used(roster) /\ p = <<p[1], roster[p[1]].account>>

\* A batch leaves the account of a used slot.
LEMMA UsedKept ==
    ASSUME NEW index, NEW before, NEW after, NEW deltas,
           TransitionOk(index, before, after, deltas), NEW s \in Used(before)
    PROVE  s \in Used(after) /\ after[s].account = before[s].account
<1>1. s \in MemberSlots /\ before[s].state # "unused"
    BY Zenon DEF Used
<1>2. CASE s \notin DOMAIN deltas
    BY <1>1, <1>2, Zenon DEF TransitionOk, Used
<1>3. CASE s \in DOMAIN deltas
  <2>1. RetirementOk(index, before[s], after[s], deltas[s])
    BY <1>1, <1>3, Zenon DEF TransitionOk, ActivationOk
  <2> QED
    BY <1>1, <2>1, ZenonT(60) DEF RetirementOk, Used
<1> QED
    BY <1>2, <1>3, ZenonT(60)

\* In a well formed roster a slot and an account determine each other.
LEMMA ShapeUnique ==
    ASSUME NEW after, RosterShapeOk(after), NEW S,
           \A p \in S : p[1] \in Used(after) /\ p = <<p[1], after[p[1]].account>>
    PROVE  \A p, q \in S : p[1] = q[1] \/ p[2] = q[2] => p = q
<1> SUFFICES ASSUME NEW p \in S, NEW q \in S, p[1] = q[1] \/ p[2] = q[2] PROVE p = q
    BY Zenon
<1> DEFINE s == p[1]
           t == q[1]
<1>1. /\ s \in Used(after) /\ p = <<s, after[s].account>>
      /\ t \in Used(after) /\ q = <<t, after[t].account>>
    BY Zenon
<1>2. p[2] = after[s].account /\ q[2] = after[t].account
  <2> HIDE DEF s, t
  <2> QED
    BY <1>1, Zenon
<1>3. s = t
    BY <1>1, <1>2, ZenonT(60) DEF RosterShapeOk
<1> HIDE DEF s, t
<1> QED
    BY <1>1, <1>3, ZenonT(60)

\* A batch gives nobody a second slot, and no slot a second account.
LEMMA BelongSubmit ==
    ASSUME RoomOK, Checked, Belong, Submit
    PROVE  Belong' /\ OneSlotForLife'
<1> DEFINE after == proved.postRoster
<1>1. /\ TransitionOk(room.index + 1, roster, after, proved.deltas)
      /\ roster' = after
    BY SubmitKeeps, Zenon DEF Checked, Submit
<1>2. members' = members \cup {<<s, roster'[s].account>> : s \in Active(roster')}
    BY Zenon DEF Submit
<1> HIDE DEF after
<1>3. ASSUME NEW p \in members
      PROVE  p[1] \in Used(after) /\ p = <<p[1], after[p[1]].account>>
  <2>1. p[1] \in Used(roster) /\ p = <<p[1], roster[p[1]].account>>
    BY Zenon DEF Belong
  <2>2. p[1] \in Used(after) /\ after[p[1]].account = roster[p[1]].account
    BY <1>1, <2>1, UsedKept, ZenonT(60)
  <2> QED
    BY <2>1, <2>2, ZenonT(60)
<1>4. ASSUME NEW p \in {<<s, after[s].account>> : s \in Active(after)}
      PROVE  p[1] \in Used(after) /\ p = <<p[1], after[p[1]].account>>
  <2>1. PICK s \in Active(after) : p = <<s, after[s].account>>
    BY <1>4, Zenon
  <2>2. s \in Used(after) /\ p[1] = s
    BY <2>1, Zenon DEF Active, Used
  <2> QED
    BY <2>1, <2>2, ZenonT(60)
<1>5. \A p \in members' : p[1] \in Used(after) /\ p = <<p[1], after[p[1]].account>>
    BY <1>1, <1>2, <1>3, <1>4, ZenonT(60)
<1>6. Belong'
    BY <1>1, <1>5, Zenon DEF Belong
<1>7. RosterShapeOk(after)
    BY <1>1, Zenon DEF TransitionOk
<1>8. \A p, q \in members' : p[1] = q[1] \/ p[2] = q[2] => p = q
    BY <1>5, <1>7, ShapeUnique, ZenonT(60)
<1> QED
    BY <1>6, <1>8, ZenonT(60) DEF OneSlotForLife

\* Neither does the opening of a room.
LEMMA BelongOpen ==
    ASSUME OpenRoom
    PROVE  Belong' /\ OneSlotForLife'
<1>0. PICK input : Opens(input)
    BY OpenChecks, Zenon
<1>1. /\ GenesisOk(input) /\ roster' = input.roster
      /\ members' = {<<s, input.roster[s].account>> : s \in Active(input.roster)}
    BY <1>0, Zenon DEF Opens
<1> DEFINE opening == input.roster
<1>2. \A s, t \in Active(opening) : opening[s].account = opening[t].account => s = t
    BY <1>1, GenesisProgram, Zenon DEF VerifyRoster
<1>3. members' = {<<s, opening[s].account>> : s \in Active(opening)} /\ roster' = opening
    BY <1>1, Zenon
<1> HIDE DEF opening
<1>4. ASSUME NEW p \in members'
      PROVE  \E s \in Active(opening) : p = <<s, opening[s].account>> /\ p[1] = s /\ p[2] = opening[s].account
  <2>1. PICK s \in Active(opening) : p = <<s, opening[s].account>>
    BY <1>3, Zenon
  <2> QED
    BY <2>1, Zenon
<1>5. Active(opening) \subseteq Used(opening)
    BY Zenon DEF Active, Used
<1>6. Belong'
    BY <1>3, <1>4, <1>5, ZenonT(60) DEF Belong
<1>7. OneSlotForLife'
  <2> SUFFICES ASSUME NEW p \in members', NEW q \in members', p[1] = q[1] \/ p[2] = q[2]
               PROVE  p = q
    BY ZenonT(60) DEF OneSlotForLife
  <2>1. PICK s \in Active(opening) : p = <<s, opening[s].account>> /\ p[1] = s /\ p[2] = opening[s].account
    BY <1>4, ZenonT(60)
  <2>2. PICK t \in Active(opening) : q = <<t, opening[t].account>> /\ q[1] = t /\ q[2] = opening[t].account
    BY <1>4, Zenon
  <2>3. s = t
    BY <1>2, <2>1, <2>2, ZenonT(60)
  <2> QED
    BY <2>1, <2>2, <2>3, ZenonT(60)
<1> QED
    BY <1>6, <1>7, Zenon

\* Over the life of a room a slot has one account and an account one slot, for
\* any deltas that the batches bring: validate_membership_transition_v4 checks
\* the roster before and after every batch.
THEOREM SlotForLife == Spec => []OneSlotForLife
<1>1. Init => Belong /\ OneSlotForLife
    BY Zenon DEF Init, Belong, OneSlotForLife
<1>2. RoomOK /\ Checked /\ Belong /\ OneSlotForLife /\ [Next]_vars => Belong' /\ OneSlotForLife'
  <2> SUFFICES ASSUME RoomOK, Checked, Belong, OneSlotForLife, [Next]_vars
               PROVE  Belong' /\ OneSlotForLife'
    BY Zenon
  <2>1. CASE OpenRoom
    BY <2>1, BelongOpen, ZenonT(60)
  <2>2. CASE Submit
    BY <2>2, BelongSubmit, Zenon
  <2>3. CASE UNCHANGED <<roster, members>>
    BY <2>3, Zenon DEF Belong, OneSlotForLife
  <2>4. Prove => UNCHANGED <<roster, members>>
    BY Zenon DEF Prove
  <2> QED
    BY <2>1, <2>2, <2>3, <2>4, StepKinds, ZenonT(60) DEF Aside
<1> QED
    BY <1>1, <1>2, CheckedHolds, PTL DEF Spec

-----------------------------------------------------------------------------
(* Exits of retired members *)

Retired(slots) == Used(slots) \ Active(slots)

\* frozen is about retired slots and the assets of the room.
FrozenOK ==
    /\ DOMAIN frozen \subseteq Retired(roster)
    /\ \A s \in DOMAIN frozen : DOMAIN frozen[s] = AssetIds(Program)

\* The exits of the slots that are retired from the start are frozen.
LEMMA FrozenOpen ==
    ASSUME OpenRoom
    PROVE  FrozenOK' /\ RetiredExitsFrozen'
<1>0. PICK input : Opens(input)
    BY OpenChecks, Zenon
<1>1. /\ GenesisOk(input) /\ roster' = input.roster /\ room'.preset = input.preset
      /\ frozen' = [s \in Used(input.roster) \ Active(input.roster) |->
                      [id \in AssetIds(input.program) |-> PaidTo(exits', s, id)]]
    BY <1>0, Zenon DEF Opens
<1>2. AssetIds(Program') = AssetIds(input.program)
    BY <1>1, GenesisProgram, ZenonT(60) DEF Program
<1>3. /\ DOMAIN frozen' = Retired(roster')
      /\ \A s \in DOMAIN frozen' : /\ DOMAIN frozen'[s] = AssetIds(Program')
                                    /\ \A id \in AssetIds(Program') : frozen'[s][id] = PaidTo(exits', s, id)
    BY <1>1, <1>2, Zenon DEF Retired
<1> QED
    BY <1>3, Zenon DEF FrozenOK, RetiredExitsFrozen

\* A batch freezes the exits of the slots it retires, and keeps the frozen ones.
LEMMA FrozenSubmit ==
    ASSUME RoomOK, Checked, FrozenOK, RetiredExitsFrozen, Submit
    PROVE  FrozenOK' /\ RetiredExitsFrozen'
<1>1. /\ room # Nothing /\ room'.preset = room.preset
      /\ exits' = proved.exits /\ roster' = proved.postRoster
      /\ DOMAIN room.opening = AssetIds(Program)
    BY SubmitKeeps, Zenon DEF RoomOK
<1>2. ContinuityOk(Program, exits, exits', roster)
    BY <1>1, Zenon DEF Checked, Submit
<1>3. frozen' = [s \in Retired(roster') |->
                   IF s \in DOMAIN frozen THEN frozen[s]
                   ELSE [id \in AssetIds(Program) |-> PaidTo(exits', s, id)]]
    BY <1>1, Zenon DEF Submit, Retired
<1>4. AssetIds(Program') = AssetIds(Program)
    BY <1>1, Zenon DEF Program
<1>5. ASSUME NEW s \in Retired(roster')
      PROVE  /\ DOMAIN frozen'[s] = AssetIds(Program)
             /\ \A id \in AssetIds(Program) : PaidTo(exits', s, id) = frozen'[s][id]
  <2>1. CASE s \in DOMAIN frozen
    <3>1. s \in Retired(roster) /\ frozen'[s] = frozen[s] /\ DOMAIN frozen[s] = AssetIds(Program)
      BY <1>1, <1>3, <2>1, ZenonT(60) DEF FrozenOK
    <3>2. \A id \in AssetIds(Program) : PaidTo(exits, s, id) = frozen[s][id]
      BY <2>1, <3>1, Zenon DEF RetiredExitsFrozen
    <3>3. \A id \in AssetIds(Program) : PaidTo(exits, s, id) = PaidTo(exits', s, id)
      BY <1>2, <3>1, ZenonT(60) DEF ContinuityOk, Retired
    <3> QED
      BY <3>1, <3>2, <3>3, ZenonT(60)
  <2>2. CASE s \notin DOMAIN frozen
    <3>1. frozen'[s] = [id \in AssetIds(Program) |-> PaidTo(exits', s, id)]
      BY <1>3, <2>2, ZenonT(60)
    <3> QED
      BY <3>1, ZenonT(60)
  <2> QED
    BY <2>1, <2>2, ZenonT(60)
<1>6. DOMAIN frozen' = Retired(roster')
    BY <1>3, Zenon
<1>7. FrozenOK'
    BY <1>4, <1>5, <1>6, ZenonT(60) DEF FrozenOK
<1>8. RetiredExitsFrozen'
    BY <1>5, <1>6, ZenonT(60) DEF RetiredExitsFrozen
<1> QED
    BY <1>7, <1>8, Zenon

\* The exits of a slot never change after the batch that retired it, whatever
\* later batches pay into or out of the pool that backs its shares
\* (enforce_retired_exit_continuity_v4).
THEOREM RetiredFrozen == Spec => []RetiredExitsFrozen
<1>1. Init => FrozenOK /\ RetiredExitsFrozen
    BY DEF Init, FrozenOK, RetiredExitsFrozen
<1>2. RoomOK /\ Checked /\ FrozenOK /\ RetiredExitsFrozen /\ [Next]_vars
        => FrozenOK' /\ RetiredExitsFrozen'
  <2> SUFFICES ASSUME RoomOK, Checked, FrozenOK, RetiredExitsFrozen, [Next]_vars
               PROVE  FrozenOK' /\ RetiredExitsFrozen'
    BY Zenon
  <2>1. CASE OpenRoom
    BY <2>1, FrozenOpen, Zenon
  <2>2. CASE Submit
    BY <2>2, FrozenSubmit, ZenonT(60)
  <2>3. CASE UNCHANGED <<room, roster, exits, frozen>>
    BY <2>3, Zenon DEF FrozenOK, RetiredExitsFrozen, Program
  <2>4. Prove => UNCHANGED <<room, roster, exits, frozen>>
    BY Zenon DEF Prove
  <2> QED
    BY <2>1, <2>2, <2>3, <2>4, StepKinds, Zenon DEF Aside
<1> QED
    BY <1>1, <1>2, CheckedHolds, PTL DEF Spec

-----------------------------------------------------------------------------
(* Templates *)

\* What a setup and the rules of its template leave alike in two states.
Alike(template, setup, state, a) ==
    /\ a \in DOMAIN state /\ state[a].code = setup[a].code
    /\ \A s \in Slot :
         \/ /\ a \in DOMAIN template.refresh
            /\ template.refresh[a].all \/ s \in template.refresh[a].slots
         \/ state[a].storage[s] = setup[a].storage[s]

\* Runtime hashes, shapes and the static commitment determine everything but
\* what the rules refresh.
LEMMA StaticDetermines ==
    ASSUME NEW template, NEW setup, NEW state, NEW a \in DOMAIN setup, setup[a].code # NoCode,
           RuntimeOk(setup, template.runtime), RuntimeOk(state, template.runtime),
           ShapesOk(template), StaticDefined(setup, template), StaticDefined(state, template),
           StaticCommitment(state, template) = StaticCommitment(setup, template)
    PROVE  Alike(template, setup, state, a)
<1>1. /\ a \in DOMAIN template.runtime /\ a \in DOMAIN state /\ state[a].code # NoCode
      /\ CodeHash(state[a]) = CodeHash(setup[a])
    BY Zenon DEF RuntimeOk
<1>2. state[a].code = setup[a].code
    BY <1>1, Zenon DEF CodeHash
<1>3. a \in DOMAIN template.access
  <2>1. DOMAIN template.runtime \subseteq DOMAIN template.access
    BY Zenon DEF ShapesOk
  <2> QED
    BY <1>1, <2>1, ZenonT(60)
<1> DEFINE Static(x) == [s \in StaticSlots(template, a) |-> x[a].storage[s]]
<1>4. Static(state) = Static(setup)
  <2> DEFINE Row(x, b) ==
               <<IF Refreshes(template, b) /\ template.refresh[b].nonce THEN 0 ELSE x[b].nonce,
                 IF Refreshes(template, b) /\ template.refresh[b].balance THEN 0 ELSE x[b].balance,
                 CodeHash(x[b]),
                 [s \in StaticSlots(template, b) |-> x[b].storage[s]]>>
             Rows(x) == [b \in DOMAIN template.access |-> Row(x, b)]
  <2>1. StaticCommitment(state, template)[3] = Rows(state)
    BY Zenon DEF StaticCommitment
  <2>2. StaticCommitment(setup, template)[3] = Rows(setup)
    BY Zenon DEF StaticCommitment
  <2>3. Row(state, a)[4] = Static(state) /\ Row(setup, a)[4] = Static(setup)
    BY Zenon
  <2> HIDE DEF Row, Static
  <2> QED
    BY <1>3, <2>1, <2>2, <2>3, SMTT(60)
<1>5. \A s \in StaticSlots(template, a) : state[a].storage[s] = setup[a].storage[s]
  <2> SUFFICES ASSUME NEW s \in StaticSlots(template, a)
               PROVE  state[a].storage[s] = setup[a].storage[s]
    BY Zenon
  <2>1. Static(state)[s] = Static(setup)[s]
    BY <1>4, Zenon
  <2> QED
    BY <2>1, Zenon
<1> HIDE DEF Static
<1>6. ASSUME NEW s \in Slot, ~ AllStorage(template, a),
             ~ (a \in DOMAIN template.refresh /\ s \in template.refresh[a].slots)
      PROVE  state[a].storage[s] = setup[a].storage[s]
  <2>1. CASE s \in template.access[a]
    BY <1>5, <1>6, <2>1, ZenonT(60) DEF StaticSlots, Refreshes
  <2>2. CASE s \notin template.access[a]
    <3>1. /\ {t \in Slot : state[a].storage[t] # 0} \subseteq template.access[a]
          /\ {t \in Slot : setup[a].storage[t] # 0} \subseteq template.access[a]
      BY <1>3, <1>6, Zenon DEF StaticDefined, NonzeroSlots
    <3> QED
      BY <2>2, <3>1, ZenonT(60)
  <2> QED
    BY <2>1, <2>2, ZenonT(60)
<1> QED
    BY <1>1, <1>2, <1>6, Zenon DEF Alike, AllStorage, Refreshes

\* Every template in use was accepted.
TemplatesOK ==
    /\ \A t \in templates : ColdOk(t)
    /\ proved # Nothing /\ proved.template # Nothing => ColdOk(proved.template)

\* A batch that is composed with a template opens with the code and the words
\* that the setup left, but for the words that its rules refresh, whichever
\* templates, rules and rooms there are (validate_composed_cold_link_v4).
THEOREM TemplateIsKept == Spec => []TemplateKept
<1>1. Init => TemplatesOK
    BY Zenon DEF Init, TemplatesOK
<1>2. TemplatesOK /\ [Next]_vars => TemplatesOK'
  <2> SUFFICES ASSUME TemplatesOK, [Next]_vars PROVE TemplatesOK'
    BY Zenon
  <2>1. CASE PrepareCold
    BY <2>1, Zenon DEF PrepareCold, TemplatesOK
  <2>2. CASE Prove
    <3>1. proved'.template \in {Nothing} \cup templates
      BY <2>2, ProveChecks, ZenonT(60)
    <3>2. templates' = templates
      BY <2>2, Zenon DEF Prove
    <3> QED
      BY <3>1, <3>2, ZenonT(60) DEF TemplatesOK
  <2>3. CASE templates' = templates /\ (proved' = proved \/ proved' = Nothing)
    BY <2>3, Zenon DEF TemplatesOK
  <2>4. OpenRoom \/ Fund \/ Refund \/ Submit \/ Drop \/ UNCHANGED vars
          => templates' = templates /\ (proved' = proved \/ proved' = Nothing)
    BY Zenon DEF OpenRoom, Fund, Refund, Submit, Drop, vars
  <2> QED
    BY <2>1, <2>2, <2>3, <2>4, ZenonT(60) DEF Next
<1>3. TemplatesOK /\ Checked => TemplateKept
  <2> SUFFICES ASSUME TemplatesOK, Checked, proved # Nothing, proved.template # Nothing
               PROVE  TemplateKept
    BY Zenon DEF TemplateKept
  <2> DEFINE template == proved.template
             setup == Ran(template.initial, template.blocks)
  <2>1. LinkOk(ColdJournal(template), template, room.preset, proved.pre)
    BY Zenon DEF Checked
  <2>2. RuntimeOk(setup, template.runtime) /\ StaticDefined(setup, template)
    BY Zenon DEF TemplatesOK, ColdOk
  <2>3. /\ RuntimeOk(proved.pre, template.runtime) /\ ShapesOk(template)
        /\ StaticDefined(proved.pre, template)
        /\ StaticCommitment(proved.pre, template) = ColdJournal(template).journal.static
    BY <2>1, Zenon DEF LinkOk
  <2>4. ColdJournal(template).journal.static = StaticCommitment(setup, template)
    BY Zenon DEF ColdJournal
  <2>5. \A a \in DOMAIN setup : setup[a].code # NoCode => Alike(template, setup, proved.pre, a)
    <3> HIDE DEF template, setup
    <3> QED
      BY <2>2, <2>3, <2>4, StaticDetermines, ZenonT(60)
  <2> QED
    BY <2>5, Zenon DEF TemplateKept, Alike
<1> QED
    BY <1>1, <1>2, <1>3, CheckedHolds, PTL DEF Spec

-----------------------------------------------------------------------------
(* The inbox *)

\* The length, the domain and the elements of a sequence.
LEMMA SeqFacts ==
    ASSUME NEW S, NEW s \in Seq(S)
    PROVE  /\ Len(s) \in Nat /\ DOMAIN s = 1 .. Len(s)
           /\ \A i \in 1 .. Len(s) : s[i] \in S
           /\ s \in [1 .. Len(s) -> S]
OBVIOUS

\* Appending one element.
LEMMA SeqAppend ==
    ASSUME NEW S, NEW s \in Seq(S), NEW x \in S
    PROVE  /\ Append(s, x) \in Seq(S) /\ Len(Append(s, x)) = Len(s) + 1
           /\ Append(s, x)[Len(s) + 1] = x
           /\ \A i \in 1 .. Len(s) : Append(s, x)[i] = s[i]
OBVIOUS

Statuses == {"pending", "consumed", "skipped", "refunded"}

\* The entries that requests become.
Entries ==
    [index : Nat, kind : {r.kind : r \in Requests}, slot : {r.slot : r \in Requests},
     account : {r.account : r \in Requests}, deposits : Seq([asset : Nat, amount : Nat]),
     status : Statuses]

\* Entries are collected from the opening on, and a statement resolves some.
InboxOK ==
    /\ inbox \in Seq(Entries)
    /\ room # Nothing =>
         /\ "cursor" \in DOMAIN room /\ room.cursor \in Nat
         /\ \A id \in DOMAIN room.opening : room.opening[id] \in Nat
    /\ proved # Nothing => proved.entries \in Seq(Entries)

\* A segment resolved by the guest consists of entries.
LEMMA ResolvedEntriesOK ==
    ASSUME inbox \in Seq(Entries), room.cursor \in Nat, Prove
    PROVE  proved'.entries \in Seq(Entries)
<1>1. PICK batch, residuals :
        batch \in Candidates /\ proved' = JournalV4(batch, residuals)
    BY Zenon DEF Prove
<1>2. PICK end \in room.cursor .. Len(inbox) : batch.entries = Segment(end)
  <2>1. \E body \in {x \in Bodies : WitnessOk(x, Nothing)}, deltas \in {d \in Deltas : MovesOk(d)},
           end \in room.cursor .. Len(inbox),
           template \in {t \in {Nothing} \cup templates : \E b \in Bodies : WitnessOk(b, t)} :
             batch = Batch(body, deltas, end, exits, template)
    BY <1>1, SMTT(60) DEF Candidates
  <2> QED
    BY <2>1, SMTT(60) DEF Batch
<1> DEFINE segment == batch.entries
<1>3. segment \in Seq(Entries)
  <2>1. \A i \in room.cursor + 1 .. end : inbox[i] \in Entries
    BY <1>2, SeqFacts, SMTT(60)
  <2> QED
    BY <1>2, <2>1, SMTT(60) DEF Segment
<1> HIDE DEF segment
<1>4. ASSUME NEW e \in Entries, NEW status \in Statuses
      PROVE  [e EXCEPT !.status = status] \in Entries
    BY Zenon DEF Entries
<1>5. \A k \in DOMAIN segment : Resolved(segment[k], batch.deltas, roster) \in Statuses
    BY Zenon DEF Resolved, Statuses
<1>6. DOMAIN segment = 1 .. Len(segment) /\ Len(segment) \in Nat
    BY <1>3, SeqFacts, Zenon
<1>7. proved'.entries =
        [k \in 1 .. Len(segment) |->
           [segment[k] EXCEPT !.status = Resolved(segment[k], batch.deltas, roster)]]
    BY <1>1, <1>6, ZenonT(60) DEF JournalV4, ResolvedEntries, segment
<1>8. \A k \in 1 .. Len(segment) :
        [segment[k] EXCEPT !.status = Resolved(segment[k], batch.deltas, roster)] \in Entries
    BY <1>3, <1>4, <1>5, <1>6, SeqFacts, ZenonT(60)
<1> QED
    BY <1>6, <1>7, <1>8

\* The inbox after a batch consists of entries.
LEMMA InboxAfterOK ==
    ASSUME inbox \in Seq(Entries), NEW entries \in Seq(Entries), NEW start \in Nat
    PROVE  InboxAfter(entries, start) \in Seq(Entries)
<1>1. DOMAIN inbox = 1 .. Len(inbox) /\ Len(inbox) \in Nat /\ Len(entries) \in Nat
    BY SeqFacts, Zenon
<1>2. ASSUME NEW k \in 1 .. Len(inbox)
      PROVE  (IF k > start /\ k <= start + Len(entries) THEN entries[k - start] ELSE inbox[k])
               \in Entries
  <2>1. CASE k > start /\ k <= start + Len(entries)
    <3>1. k - start \in 1 .. Len(entries)
      BY <1>1, <2>1, SMTT(60)
    <3> QED
      BY <2>1, <3>1, SeqFacts, ZenonT(60)
  <2>2. CASE ~ (k > start /\ k <= start + Len(entries))
    BY <2>2, SeqFacts, ZenonT(60)
  <2> QED
    BY <2>1, <2>2, ZenonT(60)
<1> QED
    BY <1>1, <1>2, SMTT(60) DEF InboxAfter

-----------------------------------------------------------------------------
(* What newcomers paid *)

\* A consumed request to join.
Joined(entry) == entry.kind = "join" /\ entry.status = "consumed"

\* The consumed requests of a segment and the activations of its batch are each
\* other's reason.
Matched(entries, deltas, start) ==
    /\ \A k \in DOMAIN entries : Joined(entries[k]) =>
         \E t \in DOMAIN deltas : /\ deltas[t].action = "activate" /\ deltas[t].join = start + k
                                  /\ deltas[t].member = entries[k].account
    /\ \A t \in DOMAIN deltas : deltas[t].action = "activate" =>
         \E k \in DOMAIN entries : /\ Joined(entries[k])
                                   /\ deltas[t].member = entries[k].account

\* What the guest checks of a segment before it credits it.
Creditable(program, entries, deltas, post, start, end) ==
    /\ Len(entries) = end - start
    /\ \A k \in DOMAIN entries :
         EntryOk(program, entries[k], start + k) /\ JoinMatches(entries[k], deltas, post)
    /\ EveryJoinPaid(entries, deltas)

\* A segment that the guest credited met its conditions.
LEMMA InboxConditions ==
    ASSUME NEW state, NEW program, NEW entries, NEW deltas, NEW pre, NEW post, NEW start, NEW end,
           ApplyInbox(state, program, entries, deltas, pre, post, start, end) # Nothing
    PROVE  Creditable(program, entries, deltas, post, start, end)
    BY Zenon DEF ApplyInbox, Creditable

\* The segment as the guest resolves it.
Settled(entries, deltas, pre) ==
    [k \in DOMAIN entries |-> [entries[k] EXCEPT !.status = Resolved(entries[k], deltas, pre)]]

\* Only the status of an entry is resolved.
ResolvedAs(e, f, status) == f.kind = e.kind /\ f.account = e.account /\ f.status = status

\* An entry of a resolved segment is the entry of the segment, resolved.
LEMMA SettledEntry ==
    ASSUME NEW entries, NEW deltas, NEW pre, NEW k \in DOMAIN entries, entries[k] \in Entries
    PROVE  ResolvedAs(entries[k], Settled(entries, deltas, pre)[k],
                      Resolved(entries[k], deltas, pre))
<1> DEFINE e == entries[k]
           status == Resolved(e, deltas, pre)
<1>1. Settled(entries, deltas, pre)[k] = [e EXCEPT !.status = status]
    BY Zenon DEF Settled
<1> HIDE DEF status, e
<1>2. e \in Entries
    BY Zenon DEF e
<1>3. ResolvedAs(e, [e EXCEPT !.status = status], status)
    BY <1>2, Zenon DEF Entries, ResolvedAs
<1> QED
    BY <1>1, <1>3, Zenon DEF e, status

\* In a segment that the guest credited, requests and activations match.
LEMMA SettledMatches ==
    ASSUME NEW program, NEW entries, NEW deltas, NEW pre, NEW post, NEW start,
           \A k \in DOMAIN entries : entries[k] \in Entries,
           \A k \in DOMAIN entries :
             EntryOk(program, entries[k], start + k) /\ JoinMatches(entries[k], deltas, post),
           EveryJoinPaid(entries, deltas)
    PROVE  Matched(Settled(entries, deltas, pre), deltas, start)
<1> DEFINE settled == Settled(entries, deltas, pre)
<1>1. DOMAIN settled = DOMAIN entries
    BY Zenon DEF Settled
<1>2. ASSUME NEW k \in DOMAIN entries
      PROVE  /\ settled[k].kind = entries[k].kind /\ settled[k].account = entries[k].account
             /\ settled[k].status = Resolved(entries[k], deltas, pre)
  <2>1. ResolvedAs(entries[k], settled[k], Resolved(entries[k], deltas, pre))
    BY SettledEntry, Zenon
  <2> HIDE DEF settled
  <2> QED
    BY <2>1, Zenon DEF ResolvedAs
<1> HIDE DEF settled
<1>3. \A d : d \in Activations(deltas) <=>
               \E t \in DOMAIN deltas : d = deltas[t] /\ deltas[t].action = "activate"
    BY Zenon DEF Activations, Range
<1>4. ASSUME NEW k \in DOMAIN settled, Joined(settled[k])
      PROVE  \E t \in DOMAIN deltas : /\ deltas[t].action = "activate" /\ deltas[t].join = start + k
                                      /\ deltas[t].member = settled[k].account
  <2>1. /\ k \in DOMAIN entries /\ entries[k].kind = "join"
        /\ Resolved(entries[k], deltas, pre) = "consumed"
    BY <1>1, <1>2, <1>4, Zenon DEF Joined
  <2>2. entries[k].index = start + k
    BY <2>1, Zenon DEF EntryOk
  <2>3. "refunded" # "consumed" /\ "skipped" # "consumed" /\ "join" # "deposit"
    BY Zenon
  <2>4. PICK d \in Activations(deltas) : d.join = entries[k].index
    BY <2>1, <2>3, Zenon DEF Resolved
  <2>5. d.member = entries[k].account
    BY <2>1, <2>4, Zenon DEF JoinMatches
  <2>6. PICK t \in DOMAIN deltas : d = deltas[t] /\ deltas[t].action = "activate"
    BY <1>3, <2>4, Zenon
  <2> QED
    BY <1>2, <2>1, <2>2, <2>4, <2>5, <2>6, Zenon
<1>5. ASSUME NEW t \in DOMAIN deltas, deltas[t].action = "activate"
      PROVE  \E k \in DOMAIN settled : /\ Joined(settled[k])
                                       /\ deltas[t].member = settled[k].account
  <2>1. deltas[t] \in Activations(deltas)
    BY <1>3, <1>5, Zenon
  <2>2. PICK k \in DOMAIN entries : entries[k].kind = "join" /\ entries[k].index = deltas[t].join
    BY <2>1, Zenon DEF EveryJoinPaid
  <2>3. entries[k].status = "pending" /\ deltas[t].member = entries[k].account
    BY <2>1, <2>2, Zenon DEF JoinMatches
  <2>4. Resolved(entries[k], deltas, pre) = "consumed"
    BY <2>1, <2>2, <2>3, Zenon DEF Resolved
  <2>5. Joined(settled[k])
    BY <1>2, <2>2, <2>4, Zenon DEF Joined
  <2> QED
    BY <1>1, <1>2, <2>2, <2>3, <2>5, Zenon
<1> QED
    BY <1>4, <1>5, Zenon DEF Matched, settled

\* Every consumed request belongs to a slot, every newcomer has one, and nobody two.
PaidFor(box, slots) ==
    /\ \A k \in DOMAIN box : Joined(box[k]) =>
         \E s \in Used(slots) : slots[s].account = box[k].account
    /\ \A s \in Used(slots) : slots[s].joined > 0 =>
         \E k \in DOMAIN box : Joined(box[k]) /\ box[k].account = slots[s].account
    /\ \A k, l \in DOMAIN box :
         Joined(box[k]) /\ Joined(box[l]) /\ box[k].account = box[l].account => k = l

\* Consumed requests stay, and the new ones are those of the segment.
Grows(box, entries, start, after) ==
    /\ \A k \in DOMAIN box : Joined(box[k]) => k \in DOMAIN after /\ after[k] = box[k]
    /\ \A j \in DOMAIN entries : start + j \in DOMAIN after /\ after[start + j] = entries[j]
    /\ \A k \in DOMAIN after : Joined(after[k]) =>
         \/ k \in DOMAIN box /\ after[k] = box[k]
         \/ \E j \in DOMAIN entries : k = start + j /\ after[k] = entries[j]

\* Consumed entries lie before the cursor.
Before(box, cursor) == \A k \in DOMAIN box : box[k].status = "consumed" => k <= cursor

\* The inbox after a batch: the segment behind the cursor is the batch's.
LEMMA SegmentPlaced ==
    ASSUME NEW box, NEW entries, NEW start \in Nat, NEW m \in Nat, NEW n \in Nat,
           DOMAIN box = 1 .. n, DOMAIN entries = 1 .. m, start + m <= n,
           Before(box, start), NEW after,
           after = [k \in DOMAIN box |->
                      IF k > start /\ k <= start + m THEN entries[k - start] ELSE box[k]]
    PROVE  Grows(box, entries, start, after) /\ Before(after, start + m)
<1>1. DOMAIN after = 1 .. n
    BY Zenon
<1>2. ASSUME NEW k \in 1 .. n, ~ (k > start /\ k <= start + m) PROVE after[k] = box[k]
    BY <1>2, Zenon
<1>3. ASSUME NEW j \in 1 .. m PROVE start + j \in 1 .. n /\ after[start + j] = entries[j]
  <2>1. /\ start + j \in 1 .. n /\ start + j > start /\ start + j <= start + m
        /\ (start + j) - start = j
    BY SMTT(60)
  <2> QED
    BY <2>1, Zenon
<1>4. ASSUME NEW k \in 1 .. n, k > start /\ k <= start + m
      PROVE  \E j \in 1 .. m : k = start + j /\ after[k] = entries[j]
  <2>1. k - start \in 1 .. m /\ k = start + (k - start)
    BY <1>4, SMTT(60)
  <2> QED
    BY <1>3, <2>1, Zenon
<1>5. \A k \in 1 .. n : k <= start => ~ (k > start /\ k <= start + m)
    BY SMTT(60)
<1>6. \A k \in DOMAIN box : Joined(box[k]) => k \in DOMAIN after /\ after[k] = box[k]
  <2> SUFFICES ASSUME NEW k \in DOMAIN box, Joined(box[k])
               PROVE  k \in DOMAIN after /\ after[k] = box[k]
    BY Zenon
  <2>1. k \in 1 .. n
    BY Zenon
  <2>2. k <= start
    BY Zenon DEF Joined, Before
  <2> QED
    BY <1>1, <1>2, <1>5, <2>1, <2>2, Zenon
<1>7. \A k \in DOMAIN after : \/ k \in DOMAIN box /\ after[k] = box[k]
                              \/ \E j \in DOMAIN entries : k = start + j /\ after[k] = entries[j]
    BY <1>1, <1>2, <1>4, Zenon
<1>8. \A k \in 1 .. n : k <= start \/ (k > start /\ k <= start + m) => k <= start + m
    BY SMTT(60)
<1>9. Before(after, start + m)
  <2> SUFFICES ASSUME NEW k \in DOMAIN after, after[k].status = "consumed" PROVE k <= start + m
    BY Zenon DEF Before
  <2>1. CASE k > start /\ k <= start + m
    BY <2>1, Zenon
  <2>2. CASE ~ (k > start /\ k <= start + m)
    <3>1. k <= start
      BY <1>1, <1>2, <2>2, Zenon DEF Before
    <3> QED
      BY <1>1, <1>8, <3>1, Zenon
  <2> QED
    BY <2>1, <2>2, Zenon
<1> QED
    BY <1>1, <1>3, <1>6, <1>7, <1>9, Zenon DEF Grows

\* A slot that a delta activates was unused, and is the account's.
LEMMA ActivatedSlot ==
    ASSUME NEW index, NEW before, NEW post, NEW deltas,
           TransitionOk(index, before, post, deltas), DOMAIN deltas \subseteq MemberSlots,
           NEW t \in DOMAIN deltas, deltas[t].action = "activate"
    PROVE  t \notin Used(before) /\ t \in Used(post) /\ post[t].account = deltas[t].member
<1>1. t \in MemberSlots /\ "activate" # "retire"
    BY Zenon
<1>2. ActivationOk(index, before[t], post[t], deltas[t])
    BY <1>1, Zenon DEF TransitionOk
<1>3. "active" # "unused"
    BY Zenon
<1> QED
    BY <1>1, <1>2, <1>3, Zenon DEF ActivationOk, Used

\* A slot was used before a batch, by the account and since the batch that it says.
WasUsed(before, post, s) ==
    /\ s \in Used(before) /\ post[s].account = before[s].account
    /\ post[s].joined = before[s].joined

\* A slot that is used after a batch was activated by it or used before.
LEMMA UsedBefore ==
    ASSUME NEW index, NEW before, NEW post, NEW deltas,
           TransitionOk(index, before, post, deltas), NEW s \in Used(post),
           ~ (s \in DOMAIN deltas /\ deltas[s].action = "activate")
    PROVE  WasUsed(before, post, s)
<1>1. s \in MemberSlots /\ post[s].state # "unused"
    BY Zenon DEF Used
<1>2. CASE s \notin DOMAIN deltas
    BY <1>1, <1>2, Zenon DEF TransitionOk, Used, WasUsed
<1>3. CASE s \in DOMAIN deltas
  <2>1. RetirementOk(index, before[s], post[s], deltas[s])
    BY <1>1, <1>3, Zenon DEF TransitionOk
  <2>2. "active" # "unused"
    BY Zenon
  <2> QED
    BY <1>1, <2>1, <2>2, Zenon DEF RetirementOk, Used, WasUsed
<1> QED
    BY <1>2, <1>3, Zenon

\* A batch lets in those whose requests it consumes, and nobody else.
LEMMA BatchPaidFor ==
    ASSUME NEW box, NEW entries, NEW start, NEW after, Grows(box, entries, start, after),
           NEW index, NEW before, NEW post, NEW deltas,
           TransitionOk(index, before, post, deltas), DOMAIN deltas \subseteq MemberSlots,
           Matched(entries, deltas, start), PaidFor(box, before)
    PROVE  PaidFor(after, post)
<1>1. \A s, t \in Used(post) : post[s].account = post[t].account => s = t
    BY Zenon DEF TransitionOk, RosterShapeOk
<1>2. ASSUME NEW t \in DOMAIN deltas, deltas[t].action = "activate"
      PROVE  t \notin Used(before) /\ t \in Used(post) /\ post[t].account = deltas[t].member
    BY <1>2, ActivatedSlot, Zenon
<1>3. ASSUME NEW k \in DOMAIN box, Joined(box[k])
      PROVE  \E s \in Used(before) : s \in Used(post) /\ post[s].account = box[k].account
  <2>1. PICK s \in Used(before) : before[s].account = box[k].account
    BY <1>3, Zenon DEF PaidFor
  <2>2. s \in Used(post) /\ post[s].account = before[s].account
    BY <2>1, UsedKept, Zenon
  <2> QED
    BY <2>1, <2>2, Zenon
<1>4. ASSUME NEW j \in DOMAIN entries, Joined(entries[j])
      PROVE  \E t \in DOMAIN deltas : /\ deltas[t].action = "activate" /\ deltas[t].join = start + j
                                      /\ t \notin Used(before) /\ t \in Used(post)
                                      /\ post[t].account = entries[j].account
  <2>1. PICK t \in DOMAIN deltas : /\ deltas[t].action = "activate" /\ deltas[t].join = start + j
                                   /\ deltas[t].member = entries[j].account
    BY <1>4, Zenon DEF Matched
  <2> QED
    BY <1>2, <2>1, Zenon
<1>5. ASSUME NEW k \in DOMAIN after, Joined(after[k])
      PROVE  \/ k \in DOMAIN box /\ Joined(box[k]) /\ after[k] = box[k]
             \/ \E j \in DOMAIN entries : k = start + j /\ after[k] = entries[j] /\ Joined(entries[j])
    BY <1>5, Zenon DEF Grows
<1>6. ASSUME NEW k \in DOMAIN after, Joined(after[k])
      PROVE  \E s \in Used(post) : post[s].account = after[k].account
  <2>1. CASE k \in DOMAIN box /\ Joined(box[k]) /\ after[k] = box[k]
    BY <1>3, <2>1, Zenon
  <2>2. CASE \E j \in DOMAIN entries : k = start + j /\ after[k] = entries[j] /\ Joined(entries[j])
    BY <1>4, <2>2, Zenon
  <2> QED
    BY <1>5, <1>6, <2>1, <2>2, Zenon
<1>7. ASSUME NEW s \in Used(post), post[s].joined > 0
      PROVE  \E k \in DOMAIN after : Joined(after[k]) /\ after[k].account = post[s].account
  <2>1. CASE s \in DOMAIN deltas /\ deltas[s].action = "activate"
    <3>1. PICK j \in DOMAIN entries : Joined(entries[j]) /\ deltas[s].member = entries[j].account
      BY <2>1, Zenon DEF Matched
    <3>2. PICK k \in DOMAIN after : after[k] = entries[j]
      BY <3>1, Zenon DEF Grows
    <3>3. post[s].account = deltas[s].member
      BY <1>2, <2>1, Zenon
    <3> QED
      BY <3>1, <3>2, <3>3, Zenon
  <2>2. CASE ~ (s \in DOMAIN deltas /\ deltas[s].action = "activate")
    <3>1. /\ s \in Used(before) /\ post[s].account = before[s].account
          /\ post[s].joined = before[s].joined
      <4>1. WasUsed(before, post, s)
        BY <2>2, UsedBefore, Zenon
      <4> QED
        BY <4>1, Zenon DEF WasUsed
    <3>2. PICK k \in DOMAIN box : Joined(box[k]) /\ box[k].account = before[s].account
      BY <1>7, <3>1, Zenon DEF PaidFor
    <3>3. k \in DOMAIN after /\ after[k] = box[k]
      BY <3>2, Zenon DEF Grows
    <3> QED
      BY <3>1, <3>2, <3>3, Zenon
  <2> QED
    BY <2>1, <2>2, Zenon
\* An earlier newcomer and one of this batch are two accounts.
<1>8. ASSUME NEW k \in DOMAIN box, Joined(box[k]), NEW j \in DOMAIN entries, Joined(entries[j])
      PROVE  box[k].account # entries[j].account
  <2>1. PICK s \in Used(before) : s \in Used(post) /\ post[s].account = box[k].account
    BY <1>3, <1>8, Zenon
  <2>2. PICK t \in DOMAIN deltas : /\ t \notin Used(before) /\ t \in Used(post)
                                   /\ post[t].account = entries[j].account
    BY <1>4, <1>8, Zenon
  <2> QED
    BY <1>1, <2>1, <2>2, Zenon
<1>9. ASSUME NEW i \in DOMAIN entries, Joined(entries[i]), NEW j \in DOMAIN entries, Joined(entries[j]),
             entries[i].account = entries[j].account
      PROVE  start + i = start + j
  <2>1. PICK s \in DOMAIN deltas : /\ deltas[s].join = start + i /\ s \in Used(post)
                                   /\ post[s].account = entries[i].account
    BY <1>4, <1>9, Zenon
  <2>2. PICK t \in DOMAIN deltas : /\ deltas[t].join = start + j /\ t \in Used(post)
                                   /\ post[t].account = entries[j].account
    BY <1>4, <1>9, Zenon
  <2>3. s = t
    BY <1>1, <1>9, <2>1, <2>2, Zenon
  <2> QED
    BY <2>1, <2>2, <2>3, Zenon
<1>10. ASSUME NEW k \in DOMAIN after, NEW l \in DOMAIN after, Joined(after[k]), Joined(after[l]),
              after[k].account = after[l].account
       PROVE  k = l
  <2> DEFINE Old(i) == i \in DOMAIN box /\ Joined(box[i]) /\ after[i] = box[i]
             New(i) == \E j \in DOMAIN entries : /\ i = start + j /\ after[i] = entries[j]
                                                 /\ Joined(entries[j])
  <2>1. (Old(k) \/ New(k)) /\ (Old(l) \/ New(l))
    BY <1>5, <1>10, Zenon
  <2>2. CASE Old(k) /\ Old(l)
    BY <1>10, <2>2, Zenon DEF PaidFor
  <2>3. CASE Old(k) /\ New(l)
    BY <1>8, <1>10, <2>3, Zenon
  <2>4. CASE New(k) /\ Old(l)
    BY <1>8, <1>10, <2>4, Zenon
  <2>5. CASE New(k) /\ New(l)
    BY <1>9, <1>10, <2>5, Zenon
  <2> HIDE DEF Old, New
  <2> QED
    BY <2>1, <2>2, <2>3, <2>4, <2>5, Zenon
<1> QED
    BY <1>6, <1>7, <1>10, Zenon DEF PaidFor

\* Requests are paid for so far, and a statement matches its segment.
Dues ==
    /\ Before(inbox, room.cursor) /\ PaidFor(inbox, roster)
    /\ proved # Nothing =>
         /\ room.cursor + Len(proved.entries) <= Len(inbox)
         /\ DOMAIN proved.deltas \subseteq MemberSlots
         /\ Matched(proved.entries, proved.deltas, room.cursor)

\* A set with one member.
LEMMA SingletonSize == ASSUME NEW x PROVE Cardinality({x}) = 1
<1> DEFINE IsCS(g) == g = [T \in SUBSET {x} |-> IF T = {} THEN 0
                                                ELSE 1 + g[T \ {CHOOSE y : y \in T}]]
           size == [T \in SUBSET {x} |-> IF T = {} THEN 0 ELSE 1]
           CS == CHOOSE g : IsCS(g)
<1>1. ASSUME NEW T \in SUBSET {x}, T # {} PROVE T \ {CHOOSE y : y \in T} = {} /\ {} \in SUBSET {x}
  <2>1. (CHOOSE y : y \in T) \in T
    BY <1>1, Zenon
  <2> QED
    BY <2>1, Zenon
<1>2. IsCS(size)
  <2>1. \A T \in SUBSET {x} : T # {} => size[T \ {CHOOSE y : y \in T}] = 0
    BY <1>1, Zenon
  <2> QED
    BY <2>1
<1>3. IsCS(CS)
  <2> HIDE DEF IsCS
  <2> QED
    BY <1>2, Zenon
<1>4. CS[{x}] = 1 + CS[{x} \ {CHOOSE y : y \in {x}}] /\ CS[{}] = 0
  <2> HIDE DEF CS
  <2> QED
    BY <1>3, Zenon
<1>5. CS[{x}] = 1
  <2>1. {x} \ {CHOOSE y : y \in {x}} = {}
    BY <1>1, Zenon
  <2> HIDE DEF CS
  <2>2. CS[{x}] = 1 + CS[{}]
    BY <1>4, <2>1, Zenon
  <2> QED
    BY <1>4, <2>2
<1>6. Cardinality({x}) = CS[{x}]
    BY Zenon DEF Cardinality
<1> HIDE DEF CS
<1> QED
    BY <1>5, <1>6, Zenon

\* Who has paid has one request.
LEMMA DuesPaid ==
    ASSUME Dues
    PROVE  NewcomersPaid
<1> SUFFICES ASSUME NEW s \in Used(roster), roster[s].joined > 0
             PROVE  Cardinality({k \in DOMAIN inbox : /\ inbox[k].kind = "join"
                                                      /\ inbox[k].status = "consumed"
                                                      /\ inbox[k].account = roster[s].account}) = 1
    BY Zenon DEF NewcomersPaid
<1>1. PICK k \in DOMAIN inbox : Joined(inbox[k]) /\ inbox[k].account = roster[s].account
    BY Zenon DEF Dues, PaidFor
<1>2. \A l \in DOMAIN inbox :
        Joined(inbox[l]) /\ inbox[l].account = roster[s].account => l = k
    BY <1>1, Zenon DEF Dues, PaidFor
<1>3. {l \in DOMAIN inbox : /\ inbox[l].kind = "join" /\ inbox[l].status = "consumed"
                            /\ inbox[l].account = roster[s].account} = {k}
    BY <1>1, <1>2, Zenon DEF Joined
<1> QED
    BY <1>3, SingletonSize, Zenon

\* The batch behind a new statement, and the segment that it resolved.
LEMMA ProveResolves ==
    ASSUME Prove
    PROVE  \E deltas \in Deltas, end \in room.cursor .. Len(inbox) : \E state, post :
             /\ ApplyInbox(state, Program, Segment(end), deltas, roster, post, room.cursor, end)
                  # Nothing
             /\ proved'.deltas = deltas
             /\ proved'.entries = Settled(Segment(end), deltas, roster)
<1>1. PICK batch, residuals :
        /\ batch \in Candidates /\ BatchRuns(batch, AfterInbox(batch))
        /\ proved' = JournalV4(batch, residuals)
    BY Zenon DEF Prove
<1>2. PICK body \in {x \in Bodies : WitnessOk(x, Nothing)}, deltas \in {d \in Deltas : MovesOk(d)},
           end \in room.cursor .. Len(inbox),
           template \in {t \in {Nothing} \cup templates : \E b \in Bodies : WitnessOk(b, t)} :
             batch = Batch(body, deltas, end, exits, template)
    BY <1>1, SMTT(60) DEF Candidates
<1>3. batch.deltas = deltas /\ batch.entries = Segment(end) /\ batch.end = end
    BY <1>2, Zenon DEF Batch
<1>4. AfterInbox(batch) # Nothing
    BY <1>1, Zenon DEF BatchRuns
<1>5. ApplyInbox(Opened(accounts, batch.envelope), Program, Segment(end), deltas, roster,
                 batch.post, room.cursor, end) # Nothing
    BY <1>3, <1>4, Zenon DEF AfterInbox, Program
<1>6. proved'.deltas = deltas /\ proved'.entries = Settled(Segment(end), deltas, roster)
    BY <1>1, <1>3, Zenon DEF JournalV4, ResolvedEntries, Settled
<1> QED
    BY <1>5, <1>6, Zenon

\* A new statement matches its segment, which lies in the inbox.
LEMMA ProveMatches ==
    ASSUME inbox \in Seq(Entries), room.cursor \in Nat, Prove
    PROVE  /\ room.cursor + Len(proved'.entries) <= Len(inbox)
           /\ DOMAIN proved'.deltas \subseteq MemberSlots
           /\ Matched(proved'.entries, proved'.deltas, room.cursor)
<1>0. PICK deltas \in Deltas, end \in room.cursor .. Len(inbox) : \E state, post :
        /\ ApplyInbox(state, Program, Segment(end), deltas, roster, post, room.cursor, end) # Nothing
        /\ proved'.deltas = deltas
        /\ proved'.entries = Settled(Segment(end), deltas, roster)
    BY ProveResolves, Zenon
<1>1. PICK state, post :
        /\ deltas \in Deltas /\ end \in room.cursor .. Len(inbox)
        /\ ApplyInbox(state, Program, Segment(end), deltas, roster, post, room.cursor, end) # Nothing
        /\ proved'.deltas = deltas
        /\ proved'.entries = Settled(Segment(end), deltas, roster)
    BY <1>0, Zenon
<1> DEFINE segment == Segment(end)
<1>2. DOMAIN inbox = 1 .. Len(inbox) /\ Len(inbox) \in Nat
    BY SeqFacts, Zenon
<1>3. segment \in Seq(Entries)
  <2>1. \A i \in room.cursor + 1 .. end : inbox[i] \in Entries
    BY <1>1, <1>2, SeqFacts, SMTT(60)
  <2> QED
    BY <1>1, <2>1, SMTT(60) DEF Segment
<1> HIDE DEF segment
<1>4. /\ Len(segment) = end - room.cursor
      /\ \A k \in DOMAIN segment : /\ EntryOk(Program, segment[k], room.cursor + k)
                                   /\ JoinMatches(segment[k], deltas, post)
      /\ EveryJoinPaid(segment, deltas)
  <2>1. ApplyInbox(state, Program, segment, deltas, roster, post, room.cursor, end) # Nothing
    BY <1>1, Zenon DEF segment
  <2>2. Creditable(Program, segment, deltas, post, room.cursor, end)
    BY <2>1, InboxConditions, Zenon
  <2> QED
    BY <2>2, Zenon DEF Creditable
<1>5. DOMAIN segment = 1 .. Len(segment) /\ \A k \in DOMAIN segment : segment[k] \in Entries
    BY <1>3, SeqFacts, Zenon
<1>6. Matched(Settled(segment, deltas, roster), deltas, room.cursor)
    BY <1>4, <1>5, SettledMatches, Zenon
<1>7. room.cursor + Len(proved'.entries) <= Len(inbox)
  <2>1. proved'.entries \in Seq(Entries)
    BY ResolvedEntriesOK, Zenon
  <2>2. DOMAIN proved'.entries = DOMAIN segment
    BY <1>1, Zenon DEF Settled, segment
  <2>3. /\ DOMAIN proved'.entries = 1 .. Len(proved'.entries)
        /\ Len(proved'.entries) \in Nat /\ Len(segment) \in Nat
    BY <1>3, <2>1, SeqFacts, Zenon
  <2>4. Len(proved'.entries) = Len(segment)
    BY <1>5, <2>2, <2>3, SMTT(60)
  <2> QED
    BY <1>1, <1>2, <1>4, <2>4, SMTT(60)
<1>8. DOMAIN proved'.deltas \subseteq MemberSlots
    BY <1>1, MembershipAssumption, Zenon
<1> QED
    BY <1>1, <1>6, <1>7, <1>8, Zenon DEF segment

\* Two inboxes with the same consumed requests.
LEMMA SameRequests ==
    ASSUME NEW box, NEW after, NEW slots, PaidFor(box, slots),
           \A k \in DOMAIN box : Joined(box[k]) => k \in DOMAIN after /\ after[k] = box[k],
           \A k \in DOMAIN after : Joined(after[k]) => k \in DOMAIN box /\ after[k] = box[k]
    PROVE  PaidFor(after, slots)
<1>1. \A k \in DOMAIN after : Joined(after[k]) =>
        k \in DOMAIN box /\ Joined(box[k]) /\ after[k].account = box[k].account
    BY Zenon
<1>2. ASSUME NEW k \in DOMAIN after, Joined(after[k])
      PROVE  \E s \in Used(slots) : slots[s].account = after[k].account
  <2>1. k \in DOMAIN box /\ Joined(box[k]) /\ after[k].account = box[k].account
    BY <1>1, <1>2, Zenon
  <2>2. PICK s \in Used(slots) : slots[s].account = box[k].account
    BY <2>1, Zenon DEF PaidFor
  <2> QED
    BY <2>1, <2>2, Zenon
<1>3. ASSUME NEW s \in Used(slots), slots[s].joined > 0
      PROVE  \E k \in DOMAIN after : Joined(after[k]) /\ after[k].account = slots[s].account
  <2>1. PICK k \in DOMAIN box : Joined(box[k]) /\ box[k].account = slots[s].account
    BY <1>3, Zenon DEF PaidFor
  <2> QED
    BY <2>1, Zenon
<1>4. ASSUME NEW k \in DOMAIN after, NEW l \in DOMAIN after, Joined(after[k]), Joined(after[l]),
             after[k].account = after[l].account
      PROVE  k = l
    BY <1>1, <1>4, Zenon DEF PaidFor
<1> QED
    BY <1>2, <1>3, <1>4, Zenon DEF PaidFor

\* A new entry is pending, and no batch is under way.
LEMMA FundDues ==
    ASSUME InboxOK, Dues, Fund
    PROVE  Dues'
<1>1. PICK r \in Requests :
        inbox' = Append(inbox, [index |-> Len(inbox) + 1, kind |-> r.kind, slot |-> r.slot,
                                account |-> r.account, deposits |-> r.deposits,
                                status |-> "pending"])
    BY Zenon DEF Fund
<1> DEFINE e == [index |-> Len(inbox) + 1, kind |-> r.kind, slot |-> r.slot,
                 account |-> r.account, deposits |-> r.deposits, status |-> "pending"]
<1>2. e \in Entries /\ e.status = "pending"
  <2>1. Len(inbox) + 1 \in Nat
    BY SeqFacts, SMTT(60) DEF InboxOK
  <2> QED
    BY <2>1, AmountsAssumption, Zenon DEF Entries, Statuses
<1>3. inbox' = Append(inbox, e) /\ inbox \in Seq(Entries)
    BY <1>1, Zenon DEF InboxOK
<1> HIDE DEF e
<1>4. UNCHANGED <<room, roster, proved>> /\ proved = Nothing
    BY Zenon DEF Fund
<1>5. /\ \A k \in DOMAIN inbox : k \in DOMAIN inbox' /\ inbox'[k] = inbox[k]
      /\ \A k \in DOMAIN inbox' : inbox'[k].status = "consumed" => k \in DOMAIN inbox
    BY <1>2, <1>3, SeqFacts, SMTT(60)
<1>6. Before(inbox', room.cursor)
    BY <1>5, Zenon DEF Dues, Before
<1>7. PaidFor(inbox', roster)
  <2>1. \A k \in DOMAIN inbox : Joined(inbox[k]) => k \in DOMAIN inbox' /\ inbox'[k] = inbox[k]
    BY <1>5, Zenon
  <2>2. \A k \in DOMAIN inbox' : Joined(inbox'[k]) => k \in DOMAIN inbox /\ inbox'[k] = inbox[k]
    BY <1>5, Zenon DEF Joined
  <2> QED
    BY <2>1, <2>2, SameRequests, Zenon DEF Dues
<1> QED
    BY <1>4, <1>6, <1>7, Zenon DEF Dues

\* A consumed entry is never refunded, nor is a refunded one consumed.
LEMMA RefundDues ==
    ASSUME InboxOK, Dues, Refund
    PROVE  Dues'
<1>1. PICK k \in DOMAIN inbox : /\ inbox[k].status \in {"pending", "skipped"}
                                /\ inbox' = [inbox EXCEPT ![k].status = "refunded"]
    BY Zenon DEF Refund
<1>2. /\ inbox \in Seq(Entries) /\ DOMAIN inbox = 1 .. Len(inbox) /\ Len(inbox) \in Nat
    BY SeqFacts, Zenon DEF InboxOK
<1>3. inbox[k] \in Entries
    BY <1>1, <1>2, SeqFacts, ZenonT(60)
<1>4. [inbox[k] EXCEPT !.status = "refunded"].status = "refunded"
    BY <1>3, Zenon DEF Entries
<1>5. /\ DOMAIN inbox' = DOMAIN inbox
      /\ \A i \in DOMAIN inbox : i # k => inbox'[i] = inbox[i]
      /\ inbox'[k].status = "refunded"
    BY <1>1, <1>4, Zenon
<1>6. UNCHANGED <<room, roster, proved>>
    BY Zenon DEF Refund
<1>7. /\ inbox[k].status # "consumed" /\ inbox'[k].status # "consumed"
    BY <1>1, <1>5, Zenon
<1>8. Before(inbox', room.cursor)
    BY <1>5, <1>7, Zenon DEF Dues, Before
<1>9. \A i \in DOMAIN inbox : /\ Joined(inbox'[i]) <=> Joined(inbox[i])
                              /\ Joined(inbox[i]) => inbox'[i] = inbox[i]
    BY <1>5, <1>7, Zenon DEF Joined
<1>10. PaidFor(inbox', roster)
    BY <1>5, <1>9, SameRequests, Zenon DEF Dues
<1>11. Len(inbox') = Len(inbox)
  <2>1. inbox' = [i \in 1 .. Len(inbox) |-> IF i = k THEN [inbox[k] EXCEPT !.status = "refunded"]
                                            ELSE inbox[i]]
    BY <1>1, <1>2, Zenon
  <2> QED
    BY <1>2, <2>1, SMTT(60)
<1> QED
    BY <1>6, <1>8, <1>10, <1>11, ZenonT(60) DEF Dues

\* A batch that L1 accepts.
LEMMA SubmitDues ==
    ASSUME RoomOK, Checked, InboxOK, Dues, Submit
    PROVE  Dues'
<1> DEFINE entries == proved.entries
           start == room.cursor
<1>1. room # Nothing /\ proved # Nothing /\ proved' = Nothing /\ roster' = proved.postRoster
    BY SubmitKeeps, Zenon DEF Submit
<1>2. TransitionOk(room.index + 1, roster, proved.postRoster, proved.deltas)
    BY <1>1, Zenon DEF Checked
<1>3. /\ inbox \in Seq(Entries) /\ entries \in Seq(Entries)
      /\ "cursor" \in DOMAIN room /\ start \in Nat
    BY <1>1, Zenon DEF InboxOK
<1>4. /\ Before(inbox, start) /\ PaidFor(inbox, roster)
      /\ start + Len(entries) <= Len(inbox)
      /\ DOMAIN proved.deltas \subseteq MemberSlots /\ Matched(entries, proved.deltas, start)
    BY <1>1, Zenon DEF Dues
<1>5. inbox' = [k \in DOMAIN inbox |-> IF k > start /\ k <= start + Len(entries)
                                       THEN entries[k - start] ELSE inbox[k]]
    BY Zenon DEF Submit, InboxAfter
<1>6. room'.cursor = start + Len(entries)
    BY <1>3, Zenon DEF Submit
<1> HIDE DEF entries, start
<1>7. /\ DOMAIN inbox = 1 .. Len(inbox) /\ Len(inbox) \in Nat
      /\ DOMAIN entries = 1 .. Len(entries) /\ Len(entries) \in Nat
    BY <1>3, SeqFacts, Zenon
<1>8. Grows(inbox, entries, start, inbox') /\ Before(inbox', start + Len(entries))
    BY <1>3, <1>4, <1>5, <1>7, SegmentPlaced, Zenon
<1>9. PaidFor(inbox', proved.postRoster)
    BY <1>2, <1>4, <1>8, BatchPaidFor, Zenon
<1> QED
    BY <1>1, <1>6, <1>8, <1>9, Zenon DEF Dues

\* The members that open a room owe nothing.
LEMMA OpenDues ==
    ASSUME RoomOK, Checked, OpenRoom
    PROVE  Dues'
<1>0. PICK input : Opens(input)
    BY OpenChecks, Zenon
<1>1. input \in Openings /\ roster' = input.roster
    BY <1>0, Zenon DEF Opens
<1>2. inbox' = <<>> /\ proved' = proved /\ room = Nothing
  <2>1. room = Nothing
    BY Zenon DEF OpenRoom
  <2> QED
    BY <2>1, OpenFresh, Zenon
<1>3. proved' = Nothing
    BY <1>2, Zenon DEF Checked
<1>4. \A k : k \notin DOMAIN inbox'
    BY <1>2, SMTT(60)
<1>5. \A s \in Used(roster') : ~ (roster'[s].joined > 0)
  <2>1. ~ (0 > 0)
    BY SMTT(60)
  <2> QED
    BY <1>1, <2>1, MembershipAssumption, Zenon
<1>6. PaidFor(inbox', roster') /\ Before(inbox', room'.cursor)
    BY <1>4, <1>5, Zenon DEF PaidFor, Before
<1> QED
    BY <1>3, <1>6, Zenon DEF Dues

-----------------------------------------------------------------------------
(* Sums *)

INSTANCE WellFoundedInduction

\* A set of naturals that is not empty has a least element.
LEMMA LeastNat ==
    ASSUME NEW T \in SUBSET Nat, T # {}
    PROVE  \E n \in T : \A m \in T : n <= m
<1>1. \E n \in T : \A m \in T : ~ (m < n)
  <2>1. PICK n \in T : \A m \in T : <<m, n>> \notin OpToRel(<, Nat)
    BY NatLessThanWellFounded, WFMin, Zenon
  <2>2. \A m \in T : ~ (m < n)
    BY <2>1, Zenon DEF OpToRel
  <2> QED
    BY <2>2, Zenon
<1> QED
    BY <1>1, SMTT(60)

\* The partial sums of v[1], ..., v[n].
Sums(sum, v, n) == sum = [k \in 0 .. n |-> IF k = 0 THEN 0 ELSE sum[k - 1] + v[k]]

\* Every list has partial sums.
LEMMA SumsExist ==
    ASSUME NEW v, NEW n \in Nat
    PROVE  \E sum : Sums(sum, v, n)
<1> DEFINE Bad == {m \in Nat : ~ \E sum : Sums(sum, v, m)}
<1> SUFFICES ASSUME Bad # {} PROVE FALSE
    BY Zenon
<1>1. PICK m \in Bad : \A k \in Bad : m <= k
    BY LeastNat, Zenon
<1>2. CASE m = 0
  <2>1. Sums([k \in 0 .. 0 |-> 0], v, 0)
    BY DEF Sums
  <2> QED
    BY <1>1, <1>2, <2>1, ZenonT(60)
<1>3. CASE m # 0
  <2>1. m - 1 \in Nat /\ m - 1 \notin Bad
    BY <1>1, <1>3, SMTT(60)
  <2>2. PICK sum : Sums(sum, v, m - 1)
    BY <2>1, Zenon
  <2> DEFINE longer == [k \in 0 .. m |-> IF k = m THEN sum[m - 1] + v[m] ELSE sum[k]]
  <2>3. ASSUME NEW k \in 0 .. m
        PROVE  longer[k] = IF k = 0 THEN 0 ELSE longer[k - 1] + v[k]
    <3>1. CASE k = m
      BY <1>3, <3>1, SMTT(60)
    <3>2. CASE k # m
      <4>1. /\ k \in 0 .. m - 1 /\ longer[k] = sum[k]
            /\ k # 0 => k - 1 \in 0 .. m - 1 /\ longer[k - 1] = sum[k - 1]
        BY <1>1, <1>3, <3>2, SMTT(60)
      <4>2. sum[k] = IF k = 0 THEN 0 ELSE sum[k - 1] + v[k]
        BY <2>2, <4>1, ZenonT(60) DEF Sums
      <4> HIDE DEF longer
      <4> QED
        BY <4>1, <4>2, Zenon
    <3> QED
      BY <3>1, <3>2, ZenonT(60)
  <2>4. Sums(longer, v, m)
    BY <2>3, ZenonT(60) DEF Sums
  <2> QED
    BY <1>1, <2>4, ZenonT(60)
<1> QED
    BY <1>2, <1>3, ZenonT(60)

\* Partial sums are determined by the values they add.
LEMMA SumsAgree ==
    ASSUME NEW s, NEW t, NEW v, NEW w, NEW m \in Nat, NEW n \in Nat, m <= n,
           Sums(s, v, m), Sums(t, w, n), \A k \in 1 .. m : v[k] = w[k]
    PROVE  s[m] = t[m]
<1> DEFINE Bad == {k \in 0 .. m : s[k] # t[k]}
<1> SUFFICES ASSUME Bad # {} PROVE FALSE
    OBVIOUS
<1>1. PICK k \in Bad : \A j \in Bad : k <= j
  <2>1. Bad \in SUBSET Nat
    OBVIOUS
  <2> HIDE DEF Bad
  <2> QED
    BY <2>1, LeastNat, ZenonT(60)
<1>2. k \in 0 .. m /\ k \in 0 .. n /\ s[k] # t[k]
    BY <1>1, SMTT(60)
<1>3. /\ s[k] = IF k = 0 THEN 0 ELSE s[k - 1] + v[k]
      /\ t[k] = IF k = 0 THEN 0 ELSE t[k - 1] + w[k]
    BY <1>2, Zenon DEF Sums
<1>4. k # 0
    BY <1>2, <1>3, ZenonT(60)
<1>5. k - 1 \in 0 .. m /\ k \in 1 .. m /\ ~ (k <= k - 1)
    BY <1>2, <1>4, SMTT(60)
<1>6. s[k - 1] = t[k - 1] /\ v[k] = w[k]
    BY <1>1, <1>5, ZenonT(60)
<1> QED
    BY <1>2, <1>3, <1>6, ZenonT(60)

\* Sums of naturals are naturals.
LEMMA SumsNatural ==
    ASSUME NEW sum, NEW v, NEW n \in Nat, Sums(sum, v, n), \A k \in 1 .. n : v[k] \in Nat
    PROVE  sum[n] \in Nat
<1> DEFINE Bad == {k \in 0 .. n : sum[k] \notin Nat}
<1> SUFFICES ASSUME Bad # {} PROVE FALSE
    OBVIOUS
<1>1. PICK k \in Bad : \A j \in Bad : k <= j
  <2>1. Bad \in SUBSET Nat
    OBVIOUS
  <2> HIDE DEF Bad
  <2> QED
    BY <2>1, LeastNat, ZenonT(60)
<1>2. k \in 0 .. n /\ sum[k] \notin Nat /\ sum[k] = IF k = 0 THEN 0 ELSE sum[k - 1] + v[k]
    BY <1>1, Zenon DEF Sums
<1>3. k \in 1 .. n /\ k - 1 \in 0 .. n /\ ~ (k <= k - 1)
    BY <1>2, SMTT(60)
<1>4. sum[k - 1] \in Nat /\ v[k] \in Nat
    BY <1>1, <1>3, Zenon
<1> QED
    BY <1>2, <1>3, <1>4, SMTT(60)

-----------------------------------------------------------------------------
(* What the exits pay out *)

\* What an entry brought is the last of the sums over its deposits.
LEMMA DepositedNatural ==
    ASSUME NEW e \in Entries, NEW id
    PROVE  Deposited(e, id) \in Nat
<1> DEFINE n == Len(e.deposits)
           W(j) == IF e.deposits[j].asset = id THEN e.deposits[j].amount ELSE 0
           v == [j \in 1 .. n |-> W(j)]
           Is(sum) == sum = [k \in 0 .. n |-> IF k = 0 THEN 0 ELSE sum[k - 1] + W(k)]
<1>1. e.deposits \in Seq([asset : Nat, amount : Nat])
    BY Zenon DEF Entries
<1>2. n \in Nat /\ \A j \in 1 .. n : W(j) \in Nat
  <2>1. n \in Nat
    BY <1>1, SeqFacts, ZenonT(60)
  <2>2. \A j \in 1 .. n : e.deposits[j] \in [asset : Nat, amount : Nat]
    BY <1>1, SeqFacts, Zenon
  <2> QED
    BY <2>1, <2>2, Zenon
<1>3. \A j \in 1 .. n : v[j] = W(j)
    BY Zenon
<1>4. Deposited(e, id) = 0 \/ Deposited(e, id) = (CHOOSE sum : Is(sum))[n]
    BY Zenon DEF Deposited, SumTo
<1> HIDE DEF n, W, v
<1>5. ASSUME NEW sum PROVE Is(sum) <=> Sums(sum, v, n)
  <2>1. ASSUME NEW k \in 0 .. n
        PROVE  (IF k = 0 THEN 0 ELSE sum[k - 1] + W(k)) = (IF k = 0 THEN 0 ELSE sum[k - 1] + v[k])
    BY <1>2, <1>3, SMTT(60)
  <2>2. [k \in 0 .. n |-> IF k = 0 THEN 0 ELSE sum[k - 1] + W(k)]
          = [k \in 0 .. n |-> IF k = 0 THEN 0 ELSE sum[k - 1] + v[k]]
    BY <2>1, Zenon
  <2> QED
    BY <2>2, Zenon DEF Sums
<1> HIDE DEF Is
<1>6. \E sum : Is(sum)
  <2>1. n \in Nat
    BY <1>2, Zenon
  <2>2. PICK sum : Sums(sum, v, n)
    BY <2>1, SumsExist, Zenon
  <2> QED
    BY <1>5, <2>2, Zenon
<1>7. Is(CHOOSE sum : Is(sum))
    BY <1>6, SMTT(30)
<1>8. Sums(CHOOSE sum : Is(sum), v, n)
    BY <1>5, <1>7, Zenon
<1>9. (CHOOSE sum : Is(sum))[n] \in Nat
    BY <1>2, <1>3, <1>8, SumsNatural, ZenonT(60)
<1> QED
    BY <1>4, <1>9, SMTT(60)

\* What a list of entries brought is the last of the sums over them.
LEMMA CollectedSums ==
    ASSUME NEW entries \in Seq(Entries), NEW id
    PROVE  \E sum : /\ Sums(sum, [k \in 1 .. Len(entries) |-> Deposited(entries[k], id)], Len(entries))
                    /\ Collected(entries, id) = sum[Len(entries)]
<1> DEFINE n == Len(entries)
           W(k) == Deposited(entries[k], id)
           v == [k \in 1 .. n |-> W(k)]
           Is(sum) == sum = [k \in 0 .. n |-> IF k = 0 THEN 0 ELSE sum[k - 1] + W(k)]
<1>2. n \in Nat
    OBVIOUS
<1>3. \A k \in 1 .. n : v[k] = W(k)
    BY Zenon
<1>4. Collected(entries, id) = (CHOOSE sum : Is(sum))[n]
    BY Zenon DEF Collected, SumTo
<1> HIDE DEF n, W, v
<1>5. ASSUME NEW sum PROVE Is(sum) <=> Sums(sum, v, n)
  <2>1. ASSUME NEW k \in 0 .. n
        PROVE  (IF k = 0 THEN 0 ELSE sum[k - 1] + W(k)) = (IF k = 0 THEN 0 ELSE sum[k - 1] + v[k])
    BY <1>2, <1>3, SMTT(60)
  <2>2. [k \in 0 .. n |-> IF k = 0 THEN 0 ELSE sum[k - 1] + W(k)]
          = [k \in 0 .. n |-> IF k = 0 THEN 0 ELSE sum[k - 1] + v[k]]
    BY <2>1, Zenon
  <2> QED
    BY <2>2, Zenon DEF Sums
<1> HIDE DEF Is
<1>6. \E sum : Is(sum)
    BY <1>2, <1>5, SumsExist, Zenon
<1>7. Is(CHOOSE sum : Is(sum))
    BY <1>6, Zenon
<1>8. Sums(CHOOSE sum : Is(sum), v, n)
    BY <1>5, <1>7, ZenonT(60)
<1> QED
    BY <1>4, <1>8, Zenon DEF v, W, n

\* Two lists whose entries brought the same collected the same.
LEMMA CollectedAgree ==
    ASSUME NEW x \in Seq(Entries), NEW y \in Seq(Entries), NEW id, Len(x) = Len(y),
           \A k \in 1 .. Len(x) : Deposited(x[k], id) = Deposited(y[k], id)
    PROVE  Collected(x, id) = Collected(y, id)
<1> DEFINE n == Len(x)
           v == [k \in 1 .. n |-> Deposited(x[k], id)]
           w == [k \in 1 .. n |-> Deposited(y[k], id)]
<1>1. PICK s : Sums(s, v, n) /\ Collected(x, id) = s[n]
    BY CollectedSums, Zenon
<1>2. PICK t : Sums(t, w, n) /\ Collected(y, id) = t[n]
    BY CollectedSums, Zenon
<1>3. n \in Nat /\ n <= n /\ \A k \in 1 .. n : v[k] = w[k]
    OBVIOUS
<1> HIDE DEF v, w, n
<1>4. s[n] = t[n]
    BY <1>1, <1>2, <1>3, SumsAgree, Zenon
<1> QED
    BY <1>1, <1>2, <1>4, ZenonT(60)

\* An entry that is not consumed collects nothing.
LEMMA CollectedAppend ==
    ASSUME NEW x \in Seq(Entries), NEW e \in Entries, NEW id, e.status # "consumed"
    PROVE  Collected(Append(x, e), id) = Collected(x, id)
<1> DEFINE n == Len(x)
           y == Append(x, e)
           v == [k \in 1 .. n |-> Deposited(x[k], id)]
           w == [k \in 1 .. n + 1 |-> Deposited(y[k], id)]
<1>1. /\ n \in Nat /\ y \in Seq(Entries) /\ Len(y) = n + 1 /\ y[n + 1] = e
      /\ \A k \in 1 .. n : y[k] = x[k] /\ x[k] \in Entries
    BY SMTT(30)
<1>2. PICK s : Sums(s, v, n) /\ Collected(x, id) = s[n]
    BY CollectedSums, Zenon
<1> HIDE DEF y
<1>3. PICK t : Sums(t, w, n + 1) /\ Collected(y, id) = t[n + 1]
    BY <1>1, CollectedSums, Zenon
<1>4. \A k \in 1 .. n : v[k] = w[k] /\ v[k] \in Nat
    BY <1>1, DepositedNatural, SMTT(30)
<1>5. w[n + 1] = 0
  <2>1. Deposited(e, id) = 0
    BY Zenon DEF Deposited
  <2>2. n + 1 \in 1 .. n + 1 /\ w[n + 1] = Deposited(y[n + 1], id)
    BY <1>1, SMTT(60)
  <2> QED
    BY <1>1, <2>1, <2>2, Zenon
<1> HIDE DEF v, w, n
<1>6. s[n] = t[n]
  <2>1. n \in Nat /\ \A k \in 1 .. n : v[k] = w[k]
    BY <1>1, <1>4, Zenon
  <2>2. n + 1 \in Nat /\ n <= n + 1
    BY <2>1, SMTT(30)
  <2> QED
    BY <1>2, <1>3, <2>1, <2>2, SumsAgree, Zenon
<1>7. s[n] \in Nat
    BY <1>1, <1>2, <1>4, SumsNatural, Zenon
<1>8. t[n + 1] = t[n] + 0
    BY <1>1, <1>3, <1>5, SMTT(60) DEF Sums
<1> QED
    BY <1>2, <1>3, <1>6, <1>7, <1>8, SMTT(60) DEF y

\* No entries collect nothing.
LEMMA CollectedNothing ==
    ASSUME NEW id
    PROVE  Collected(<<>>, id) = 0
<1>1. <<>> \in Seq(Entries) /\ Len(<<>>) = 0
    OBVIOUS
<1>2. PICK sum : /\ Sums(sum, [k \in 1 .. 0 |-> Deposited(<<>>[k], id)], 0)
                 /\ Collected(<<>>, id) = sum[0]
    BY <1>1, CollectedSums, Zenon
<1> QED
    BY <1>2, SMTT(60) DEF Sums

\* A new entry is not consumed, so the exits owe nothing for it.
LEMMA FundKeeps ==
    ASSUME InboxOK, ExitsPayEverything, Fund
    PROVE  InboxOK' /\ ExitsPayEverything'
<1>1. PICK r \in Requests :
        inbox' = Append(inbox, [index |-> Len(inbox) + 1, kind |-> r.kind, slot |-> r.slot,
                                account |-> r.account, deposits |-> r.deposits,
                                status |-> "pending"])
    BY Zenon DEF Fund
<1> DEFINE e == [index |-> Len(inbox) + 1, kind |-> r.kind, slot |-> r.slot,
                 account |-> r.account, deposits |-> r.deposits, status |-> "pending"]
<1>2. e \in Entries /\ e.status # "consumed"
  <2>1. Len(inbox) + 1 \in Nat
    BY SeqFacts, SMTT(60) DEF InboxOK
  <2> QED
    BY <2>1, AmountsAssumption, Zenon DEF Entries, Statuses
<1>3. inbox' = Append(inbox, e)
    BY <1>1, Zenon
<1> HIDE DEF e
<1>4. inbox \in Seq(Entries) /\ inbox' \in Seq(Entries)
    BY <1>2, <1>3, SeqAppend, Zenon DEF InboxOK
<1>5. room # Nothing /\ UNCHANGED <<room, exits, proved>>
    BY Zenon DEF Fund, Continues
<1>6. \A id : Collected(inbox', id) = Collected(inbox, id)
    BY <1>2, <1>3, <1>4, CollectedAppend, ZenonT(60)
<1>7. InboxOK'
    BY <1>4, <1>5, ZenonT(60) DEF InboxOK
<1>8. \A id \in DOMAIN room.opening : Funded(inbox)'[id] = Funded(inbox)[id]
    BY <1>5, <1>6, ZenonT(60) DEF Funded
<1> QED
    BY <1>5, <1>7, <1>8, ZenonT(60) DEF ExitsPayEverything

\* An entry that is refunded was never consumed.
LEMMA RefundKeeps ==
    ASSUME InboxOK, ExitsPayEverything, Refund
    PROVE  InboxOK' /\ ExitsPayEverything'
<1>1. PICK k \in DOMAIN inbox : /\ inbox[k].status \in {"pending", "skipped"}
                                /\ inbox' = [inbox EXCEPT ![k].status = "refunded"]
    BY Zenon DEF Refund
<1> DEFINE e == [inbox[k] EXCEPT !.status = "refunded"]
<1>2. /\ inbox \in Seq(Entries) /\ DOMAIN inbox = 1 .. Len(inbox) /\ Len(inbox) \in Nat
    BY SeqFacts, Zenon DEF InboxOK
<1>3. inbox[k] \in Entries
    BY <1>1, <1>2, SeqFacts, ZenonT(60)
<1>4. e \in Entries /\ e.status = "refunded"
    BY <1>3, Zenon DEF Entries, Statuses
<1>5. inbox' = [i \in 1 .. Len(inbox) |-> IF i = k THEN e ELSE inbox[i]]
    BY <1>1, <1>2, Zenon
<1> HIDE DEF e
<1>6. /\ inbox' \in Seq(Entries) /\ Len(inbox') = Len(inbox)
      /\ \A i \in 1 .. Len(inbox) : inbox'[i] = IF i = k THEN e ELSE inbox[i]
  <2>1. \A i \in 1 .. Len(inbox) : (IF i = k THEN e ELSE inbox[i]) \in Entries
    BY <1>2, <1>4, SeqFacts, ZenonT(60)
  <2> QED
    BY <1>2, <1>5, <2>1, SMTT(60)
<1>7. room # Nothing /\ UNCHANGED <<room, exits, proved>>
    BY Zenon DEF Refund, Continues
<1>8. ASSUME NEW id PROVE Collected(inbox', id) = Collected(inbox, id)
  <2>1. Deposited(e, id) = 0 /\ Deposited(inbox[k], id) = 0
    BY <1>1, <1>4, Zenon DEF Deposited
  <2>2. \A i \in 1 .. Len(inbox') : Deposited(inbox'[i], id) = Deposited(inbox[i], id)
    BY <1>6, <2>1, ZenonT(60)
  <2> QED
    BY <1>2, <1>6, <2>2, CollectedAgree, ZenonT(60)
<1>9. InboxOK'
    BY <1>6, <1>7, ZenonT(60) DEF InboxOK
<1>10. \A id \in DOMAIN room.opening : Funded(inbox)'[id] = Funded(inbox)[id]
    BY <1>7, <1>8, Zenon DEF Funded
<1> QED
    BY <1>7, <1>9, <1>10, ZenonT(60) DEF ExitsPayEverything

\* A batch pays out what the consumed entries up to its cursor add.
LEMMA SubmitPays ==
    ASSUME RoomOK, Checked, InboxOK, Submit
    PROVE  InboxOK' /\ ExitsPayEverything'
<1>1. /\ room # Nothing /\ room'.opening = room.opening
      /\ exits' = proved.exits /\ proved # Nothing /\ proved' = Nothing
    BY SubmitKeeps, Zenon DEF Submit
<1>2. /\ DOMAIN room.opening = AssetIds(Program) /\ proved.totals = Funded(inbox')
      /\ \A id \in AssetIds(Program) : ExitTotal(proved.exits, id) = proved.totals[id]
    BY <1>1, Zenon DEF RoomOK, Checked, Submit, Accepts
<1>3. \A id \in DOMAIN room.opening : Funded(inbox)'[id] = Funded(inbox')[id]
    BY <1>1, ZenonT(60) DEF Funded
<1>4. ExitsPayEverything'
    BY <1>1, <1>2, <1>3, ZenonT(60) DEF ExitsPayEverything
<1>5. /\ inbox \in Seq(Entries) /\ proved.entries \in Seq(Entries)
      /\ "cursor" \in DOMAIN room /\ room.cursor \in Nat
      /\ \A id \in DOMAIN room.opening : room.opening[id] \in Nat
    BY <1>1, ZenonT(60) DEF InboxOK
<1>6. inbox' \in Seq(Entries)
    BY <1>5, InboxAfterOK, ZenonT(60) DEF Submit
<1>7. "cursor" \in DOMAIN room' /\ room'.cursor \in Nat
  <2>1. Len(proved.entries) \in Nat
    BY <1>5, SeqFacts, ZenonT(60)
  <2>2. "cursor" \in DOMAIN room' /\ room'.cursor = room.cursor + Len(proved.entries)
    BY <1>5, Zenon DEF Submit
  <2> QED
    BY <1>5, <2>1, <2>2, SMTT(60)
<1> QED
    BY <1>1, <1>4, <1>5, <1>6, <1>7, Zenon DEF InboxOK

\* The first exits pay out the opening.
LEMMA OpenPays ==
    ASSUME OpenRoom, InboxOK
    PROVE  InboxOK' /\ ExitsPayEverything'
<1>0. PICK input : Opens(input)
    BY OpenChecks, Zenon
<1>1. /\ input \in Openings /\ GenesisOk(input)
      /\ exits' = ExitsOf(input.accounts, input.program, input.roster, input.residuals)
      /\ room'.opening = input.totals
    BY <1>0, Zenon DEF Opens
<1>2. /\ inbox' = <<>> /\ proved' = proved
      /\ "cursor" \in DOMAIN room' /\ room'.cursor = 0
    BY OpenFresh, Zenon
<1>3. \A id \in DOMAIN input.totals : input.totals[id] \in Nat
    BY <1>1, AmountsAssumption, Zenon
<1>4. \A id \in DOMAIN input.totals : ExitTotal(exits', id) = input.totals[id]
    BY <1>1, GenesisProgram, SMTT(60) DEF AssetIds, Range
<1>5. InboxOK'
    BY <1>1, <1>2, <1>3, SMTT(60) DEF InboxOK
<1>6. \A id \in DOMAIN input.totals : Funded(inbox)'[id] = input.totals[id]
    BY <1>1, <1>2, <1>3, CollectedNothing, SMTT(60) DEF Funded
<1> QED
    BY <1>1, <1>4, <1>5, <1>6, ZenonT(60) DEF ExitsPayEverything

\* Every step keeps the inbox well formed and the exits paying out what it brought.
LEMMA InboxHolds == Spec => [](InboxOK /\ ExitsPayEverything)
<1>1. Init => InboxOK /\ ExitsPayEverything
    BY SMTT(60) DEF Init, InboxOK, ExitsPayEverything
<1>2. RoomOK /\ Checked /\ InboxOK /\ ExitsPayEverything /\ [Next]_vars
        => InboxOK' /\ ExitsPayEverything'
  <2> SUFFICES ASSUME RoomOK, Checked, InboxOK, ExitsPayEverything, [Next]_vars
               PROVE  InboxOK' /\ ExitsPayEverything'
    BY Zenon
  <2>1. CASE OpenRoom
    BY <2>1, OpenPays, ZenonT(60)
  <2>2. CASE Fund
    BY <2>2, FundKeeps, ZenonT(60)
  <2>3. CASE Refund
    BY <2>3, RefundKeeps, ZenonT(60)
  <2>4. CASE Submit
    BY <2>4, SubmitPays, Zenon
  <2>5. CASE Prove
    <3>1. room # Nothing /\ UNCHANGED <<room, exits, inbox>>
      BY <2>5, Zenon DEF Prove, Continues
    <3>2. proved'.entries \in Seq(Entries)
      BY <2>5, <3>1, ResolvedEntriesOK, ZenonT(60) DEF InboxOK
    <3>3. ExitsPayEverything'
      BY <3>1, Zenon DEF ExitsPayEverything, Funded
    <3> QED
      BY <3>1, <3>2, <3>3, ZenonT(60) DEF InboxOK
  <2>6. CASE UNCHANGED <<room, exits, inbox>> /\ (proved' = proved \/ proved' = Nothing)
    BY <2>6, Zenon DEF InboxOK, ExitsPayEverything, Funded
  <2>7. PrepareCold \/ Drop \/ UNCHANGED vars
          => UNCHANGED <<room, exits, inbox>> /\ (proved' = proved \/ proved' = Nothing)
    BY Zenon DEF PrepareCold, Drop, vars
  <2> QED
    BY <2>1, <2>2, <2>3, <2>4, <2>5, <2>6, <2>7, ZenonT(60) DEF Next
<1> QED
    BY <1>1, <1>2, CheckedHolds, PTL DEF Spec

\* The exits of a room pay out, asset by asset, the opening and every consumed
\* entry, whatever the batches, the joins and the refunds in between:
\* derive_settlement_v4 distributes all of the totals, and L1 accepts a batch
\* only with the totals that its own record of the entries gives.
THEOREM PaysEverything == Spec => []ExitsPayEverything
BY InboxHolds, PTL

\* A member that joined after the opening paid for it: exactly one join request
\* of the account was consumed, for any requests, deltas and bounds and whatever
\* is refunded between proof and submission: apply_inbox_v4 matches activations
\* and requests, and the membership transition lets nobody in twice.
THEOREM NewcomersHavePaid == Spec => []NewcomersPaid
<1>1. Init => Dues
  <2> SUFFICES ASSUME Init PROVE Dues
    BY Zenon
  <2>1. \A k : k \notin DOMAIN inbox
    BY SMTT(60) DEF Init
  <2>2. \A s : s \notin Used(roster)
    BY Zenon DEF Init, Used, UnusedSlot
  <2>3. proved = Nothing
    BY Zenon DEF Init
  <2> QED
    BY <2>1, <2>2, <2>3, Zenon DEF Dues, PaidFor, Before
<1>2. RoomOK /\ Checked /\ InboxOK /\ Dues /\ [Next]_vars => Dues'
  <2> SUFFICES ASSUME RoomOK, Checked, InboxOK, Dues, [Next]_vars PROVE Dues'
    BY Zenon
  <2>1. CASE OpenRoom
    BY <2>1, OpenDues, Zenon
  <2>2. CASE Fund
    BY <2>2, FundDues, Zenon
  <2>3. CASE Refund
    BY <2>3, RefundDues, Zenon
  <2>4. CASE Submit
    BY <2>4, SubmitDues, Zenon
  <2>5. CASE Prove
    <3>1. room # Nothing /\ UNCHANGED <<room, roster, inbox>>
      BY <2>5, Zenon DEF Prove, Continues
    <3>2. /\ room.cursor + Len(proved'.entries) <= Len(inbox)
          /\ DOMAIN proved'.deltas \subseteq MemberSlots
          /\ Matched(proved'.entries, proved'.deltas, room.cursor)
      BY <2>5, <3>1, ProveMatches, Zenon DEF InboxOK
    <3> QED
      BY <3>1, <3>2, Zenon DEF Dues
  <2>6. CASE UNCHANGED <<room, roster, inbox>> /\ (proved' = proved \/ proved' = Nothing)
    BY <2>6, Zenon DEF Dues
  <2>7. PrepareCold \/ Drop \/ UNCHANGED vars
          => UNCHANGED <<room, roster, inbox>> /\ (proved' = proved \/ proved' = Nothing)
    BY Zenon DEF PrepareCold, Drop, vars
  <2> QED
    BY <2>1, <2>2, <2>3, <2>4, <2>5, <2>6, <2>7, ZenonT(60) DEF Next
<1>3. Dues => NewcomersPaid
    BY DuesPaid, Zenon
<1> QED
    BY <1>1, <1>2, <1>3, CheckedHolds, InboxHolds, PTL DEF Spec

=============================================================================
