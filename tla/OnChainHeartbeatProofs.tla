----------------------- MODULE OnChainHeartbeatProofs -----------------------
(***************************************************************************)
(* For any number of schema versions, confirmations, intervals and         *)
(* restarts: a process creates one operation per beat, and what a beat     *)
(* counted as published stays included.                                    *)
(***************************************************************************)
EXTENDS OnChainHeartbeat, TLAPS, FiniteSetTheorems

Keys == (0..MaxTurns) \X (1..MaxSchema)
Operations == [status : Statuses, depth : 0..Confirmations]

\* A publication: once it has a key it is that of its beat.
Calls ==
    {c \in [n : Nat, beat : 0..MaxTurns, step : Steps, key : Keys \cup {NoKey}] :
       c.step \in {"posting", "posted", "resolved"} => c.key \in Keys}

\* The publication beat() awaits, and the abandoned ones.
CallsOK ==
    /\ call \in Calls /\ late \subseteq Calls
    /\ begun \in Nat
    /\ \A c \in late : c.step \in {"negotiating", "posting"}
    /\ call.step \in {"posted", "resolved"} => call.key \in DOMAIN ops
    /\ pc = "outcome" => call.step = "resolved"

\* The keys in use are those of the one schema the process negotiated.
KeysOK ==
    /\ negotiated \in [state : {"none", "pending", "done"}, schema : 0..MaxSchema]
    /\ negotiated.state = "done" => negotiated.schema \in 1..MaxSchema
    /\ \A c \in late \cup {call} : c.step = "posting" =>
         negotiated.state = "done" /\ c.key = <<c.beat, negotiated.schema>>

OpsOK ==
    /\ ops \in [DOMAIN ops -> Operations]
    /\ DOMAIN ops \subseteq Keys
    /\ \A k \in accepted : /\ k \in DOMAIN ops
                           /\ ops[k].status = "included" /\ ops[k].depth >= Confirmations

LoopOK ==
    /\ clock \in Nat /\ restarts \in Nat /\ clock + restarts <= MaxTurns
    /\ beat \in 0..MaxTurns
    /\ pc \in PCs /\ attempt \in {0, 1}
    /\ schema \in 1..MaxSchema

FlagsOK == fired \in BOOLEAN /\ stopped \in BOOLEAN /\ seen \in BOOLEAN

Inv == LoopOK /\ CallsOK /\ KeysOK /\ OpsOK

-----------------------------------------------------------------------------
\* The loop starts in the invariant.
LEMMA InvInit == Init => Inv /\ FlagsOK
<1> SUFFICES ASSUME Init PROVE Inv /\ FlagsOK
    OBVIOUS
<1> USE HeartbeatAssumption
<1>1. LoopOK
    BY DEF Init, LoopOK, PCs
<1>2. CallsOK
    BY DEF Init, CallsOK, Calls, Steps
<1>3. KeysOK
    BY DEF Init, KeysOK, NotNegotiated
<1>4. OpsOK
    BY DEF Init, OpsOK
<1>5. FlagsOK
    BY Zenon DEF Init, FlagsOK
<1> QED
    BY <1>1, <1>2, <1>3, <1>4, <1>5 DEF Inv

\* A new publication has the key of its beat and of the negotiated schema.
LEMMA PublishInv ==
    ASSUME Inv, NEW b \in 0..MaxTurns, Publish(b), pc' # "outcome", ops' = ops
    PROVE  CallsOK' /\ KeysOK'
<1> DEFINE new == [n |-> begun + 1, beat |-> b, step |-> "negotiating", key |-> NoKey]
<1>1. new \in Calls /\ begun' = begun + 1 /\ begun \in Nat /\ late' = late \cup Abandoned({call})
    BY DEF Publish, Inv, CallsOK, Calls, Steps
<1>2. \A c \in late' : /\ c \in late \cup {call} /\ c.step \in {"negotiating", "posting"}
                       /\ c \in Calls
    BY <1>1 DEF Abandoned, Inv, CallsOK, Calls
<1>3. CASE negotiated.state = "done"
  <2>1. call' = Posting(new, negotiated.schema) /\ negotiated' = negotiated
    BY <1>3 DEF Publish
  <2>2. /\ call'.beat = b /\ call'.step = "posting"
        /\ call'.key = <<b, negotiated.schema>> /\ <<b, negotiated.schema>> \in Keys
    BY <1>3, <2>1 DEF Posting, KeyOf, Inv, KeysOK, Keys
  <2>3. call' \in Calls
    BY <1>1, <2>1, <2>2, Zenon DEF Calls, Posting, Steps
  <2>4. call'.step \notin {"posted", "resolved"}
    BY <2>2
  <2>5. CallsOK'
    BY <1>1, <1>2, <2>3, <2>4 DEF CallsOK
  <2>6. KeysOK'
    BY <1>2, <1>3, <2>1, <2>2 DEF KeysOK, Inv
  <2> QED
    BY <2>5, <2>6
<1>4. CASE negotiated.state # "done"
  <2>1. call' = new /\ negotiated' = [negotiated EXCEPT !.state = "pending"]
    BY <1>4 DEF Publish
  <2>2. call'.step = "negotiating" /\ call' \in Calls
    BY <1>1, <2>1 DEF Calls
  <2>3. CallsOK'
    BY <1>1, <1>2, <2>2 DEF CallsOK
  <2>4. \A c \in late' : c.step # "posting"
    BY <1>2, <1>4 DEF Inv, KeysOK
  <2>5. KeysOK'
    BY <1>4, <2>1, <2>2, <2>4 DEF KeysOK, Inv
  <2> QED
    BY <2>3, <2>5
<1> QED
    BY <1>3, <1>4

\* What publishHeartbeat leaves alone.
LEMMA BeginAttemptInv ==
    ASSUME Inv, NEW b \in 0..MaxTurns, NEW n \in {0, 1}, BeginAttempt(n, b), ops' = ops
    PROVE  CallsOK' /\ KeysOK' /\ pc' \in PCs /\ attempt' \in {0, 1}
<1>1. CASE stopped
    BY <1>1 DEF BeginAttempt, callVars, Inv, CallsOK, KeysOK, PCs
<1>2. CASE ~stopped
    BY <1>2, PublishInv DEF BeginAttempt, PCs
<1> QED
    BY <1>1, <1>2

\* The publications that waited for a negotiation go on with its schema, or fail.
LEMMA NegotiationInv ==
    ASSUME Inv, NEW step \in {"posting", "failed"}, NegotiationOver(step),
           IF step = "posting" THEN negotiated' = [state |-> "done", schema |-> schema]
                               ELSE negotiated' = NotNegotiated
    PROVE  CallsOK' /\ KeysOK'
<1>1. ASSUME NEW c \in Calls
      PROVE  /\ Negotiated(c, step) \in Calls
             /\ c.step # "negotiating" => Negotiated(c, step) = c
             /\ c.step = "negotiating" => /\ Negotiated(c, step).step = step
                                          /\ Negotiated(c, step).beat = c.beat
                                          /\ step = "posting" =>
                                               Negotiated(c, step).key = <<c.beat, schema>>
  <2>1. <<c.beat, schema>> \in Keys
    BY DEF Calls, Inv, LoopOK, Keys
  <2> QED
    BY <2>1, Zenon DEF Negotiated, Posting, KeyOf, Calls, Steps
<1>2. \A c \in late \cup {call} : c \in Calls /\ c.step # "posting"
    BY DEF NegotiationOver, Inv, CallsOK, KeysOK
<1>3. /\ call' = Negotiated(call, step) /\ late' = Abandoned({Negotiated(l, step) : l \in late})
      /\ ops' = ops /\ pc' = pc /\ begun' = begun
    BY DEF NegotiationOver, envVars, loopVars
<1>4. \A c \in late' : /\ c.step \in {"negotiating", "posting"}
                        /\ \E l \in late : c = Negotiated(l, step)
    BY <1>3 DEF Abandoned
<1>5. CallsOK'
  <2>1. call' \in Calls /\ late' \subseteq Calls
    BY <1>1, <1>2, <1>3, <1>4
  <2>2. call'.step \in {"posted", "resolved"} => call' = call
    BY <1>1, <1>2, <1>3
  <2>3. call.step = "resolved" => call' = call
    BY <1>1, <1>2, <1>3
  <2> QED
    BY <1>3, <1>4, <2>1, <2>2, <2>3 DEF Inv, CallsOK
<1>6. KeysOK'
  <2>1. \A c \in late' \cup {call'} : c.step = "posting" =>
          step = "posting" /\ c.key = <<c.beat, schema>>
    BY <1>1, <1>2, <1>3, <1>4
  <2>2. CASE step = "posting"
    BY <2>1, <2>2, HeartbeatAssumption DEF KeysOK, Inv, LoopOK
  <2>3. CASE step = "failed"
    BY <2>1, <2>3, HeartbeatAssumption DEF KeysOK, NotNegotiated
  <2> QED
    BY <2>2, <2>3
<1> QED
    BY <1>5, <1>6

\* A publication in flight moves on.
LEMMA SetStepInv ==
    ASSUME Inv, NEW c \in InFlight, NEW step \in {"posted", "resolved", "failed"},
           c.step \in {"posting", "posted"}, SetStep(c, step),
           step = "posted" => c.key \in DOMAIN ops', DOMAIN ops \subseteq DOMAIN ops',
           step = "resolved" => c.step = "posted",
           UNCHANGED <<pc, begun, negotiated>>
    PROVE  CallsOK' /\ KeysOK'
<1> DEFINE moved == [c EXCEPT !.step = step]
<1>1. c \in Calls /\ c.key \in Keys
    BY DEF InFlight, Inv, CallsOK, Calls
<1>2. moved \in Calls /\ moved.step = step /\ moved.key = c.key
    BY <1>1 DEF Calls, Steps
<1>3. CASE c = call
  <2>1. call' = moved /\ late' = late
    BY <1>3 DEF SetStep
  <2>2. pc # "outcome"
    BY <1>3 DEF Inv, CallsOK
  <2> QED
    BY <1>2, <1>3, <2>1, <2>2, Zenon DEF Inv, CallsOK, KeysOK
<1>4. CASE c # call
  <2>1. call' = call /\ late' = (late \ {c}) \cup Abandoned({moved})
    BY <1>4 DEF SetStep
  <2>2. late' \subseteq late
    BY <1>2, <2>1, Zenon DEF Abandoned
  <2> QED
    BY <2>1, <2>2, Zenon DEF Inv, CallsOK, KeysOK
<1> QED
    BY <1>3, <1>4

\* The steps of beat() keep the invariant.
LEMMA BeatInv ==
    ASSUME Inv,
           \/ TimerFires \/ Probe \/ Published \/ PublishFails \/ OutcomeSucceeds \/ OutcomeFails
           \/ Reprobe \/ DelayOver \/ Stop
    PROVE  Inv'
<1> USE DEF Inv
<1>0. /\ ops' = ops /\ schema' = schema /\ clock' = clock /\ restarts' = restarts
      /\ pc # "outcome" => accepted' = accepted
    BY DEF TimerFires, Probe, Published, PublishFails, OutcomeSucceeds, OutcomeFails, Reprobe,
           DelayOver, Stop, envVars
<1>1. CASE Probe
  <2>1. clock \in 0..MaxTurns
    BY HeartbeatAssumption DEF LoopOK
  <2>2. CASE pc' = "idle" /\ UNCHANGED <<attempt, beat, callVars>>
    BY <1>0, <1>1, <2>2 DEF Probe, LoopOK, CallsOK, KeysOK, OpsOK, callVars, PCs
  <2>3. CASE beat' = clock /\ BeginAttempt(0, clock)
    <3>1. CallsOK' /\ KeysOK' /\ pc' \in PCs /\ attempt' \in {0, 1}
      BY <1>0, <2>1, <2>3, BeginAttemptInv
    <3> QED
      BY <1>0, <1>1, <2>1, <2>3, <3>1 DEF Probe, LoopOK, OpsOK
  <2> QED
    BY <1>1, <2>2, <2>3 DEF Probe
<1>2. CASE Reprobe \/ DelayOver
  <2>1. CASE pc' = "delay" /\ UNCHANGED <<attempt, callVars>>
    BY <1>0, <1>2, <2>1 DEF Reprobe, DelayOver, LoopOK, CallsOK, KeysOK, OpsOK, callVars, PCs
  <2>2. CASE BeginAttempt(1, beat)
    <3>1. CallsOK' /\ KeysOK' /\ pc' \in PCs /\ attempt' \in {0, 1}
      BY <1>0, <2>2, BeginAttemptInv DEF LoopOK
    <3> QED
      BY <1>0, <1>2, <3>1 DEF Reprobe, DelayOver, LoopOK, OpsOK
  <2> QED
    BY <1>2, <2>1, <2>2 DEF Reprobe, DelayOver
<1>3. CASE TimerFires \/ Stop
    BY <1>0, <1>3 DEF TimerFires, Stop, LoopOK, CallsOK, KeysOK, OpsOK, loopVars, callVars, PCs
<1>4. CASE Published
    BY <1>0, <1>4 DEF Published, LoopOK, CallsOK, KeysOK, OpsOK, callVars, PCs
<1>5. CASE PublishFails \/ OutcomeFails
    BY <1>0, <1>5 DEF PublishFails, OutcomeFails, AttemptFailed, LoopOK, CallsOK, KeysOK, OpsOK,
                      callVars, PCs
<1>6. CASE OutcomeSucceeds
  <2>1. call.key \in DOMAIN ops /\ Succeeded(ops[call.key])
    BY <1>6 DEF OutcomeSucceeds, CallsOK
  <2>2. OpsOK'
    BY <1>0, <1>6, <2>1 DEF OutcomeSucceeds, OpsOK, Succeeded
  <2> QED
    BY <1>0, <1>6, <2>2 DEF OutcomeSucceeds, LoopOK, CallsOK, KeysOK, callVars, PCs
<1> QED
    BY <1>1, <1>2, <1>3, <1>4, <1>5, <1>6

\* A publication that reaches the coordinator keeps the operations it has.
LEMMA PostInv ==
    ASSUME Inv, NEW c \in InFlight, PostArrives(c)
    PROVE  Inv' /\ c.key = <<c.beat, negotiated.schema>> /\ negotiated.state = "done"
           /\ DOMAIN ops' = DOMAIN ops \cup {c.key}
<1> USE DEF Inv
<1>1. c.step = "posting" /\ c.key \in Keys
    BY DEF PostArrives, InFlight, CallsOK, Calls
<1>2. c.key = <<c.beat, negotiated.schema>> /\ negotiated.state = "done"
    BY <1>1 DEF InFlight, KeysOK
<1>3. DOMAIN ops' = DOMAIN ops \cup {c.key}
    BY DEF PostArrives
<1>4. NewOperation \in Operations
    BY HeartbeatAssumption DEF NewOperation, Operations, Statuses
<1>5. OpsOK'
  <2>1. ops' \in [DOMAIN ops' -> Operations]
    BY <1>3, <1>4 DEF PostArrives, OpsOK
  <2>2. \A k \in DOMAIN ops : ops[k].status = "included" => ops'[k] = ops[k]
    BY DEF PostArrives
  <2> QED
    BY <1>1, <1>3, <2>1, <2>2 DEF PostArrives, OpsOK
<1>6. CallsOK' /\ KeysOK'
    BY <1>1, <1>3, SetStepInv DEF PostArrives, loopVars
<1> QED
    BY <1>2, <1>3, <1>5, <1>6 DEF PostArrives, LoopOK, loopVars

\* A restart forgets the process; what was on its way may still arrive.
LEMMA RestartInv ==
    ASSUME Inv, Restart
    PROVE  /\ Inv' /\ DOMAIN ops \subseteq DOMAIN ops'
           /\ \A k \in DOMAIN ops' \ DOMAIN ops : \E b \in 0..MaxTurns :
                k = <<b, negotiated.schema>> /\ negotiated.state = "done"
<1> USE DEF Inv
<1> DEFINE sent == {c.key : c \in {f \in InFlight : f.step = "posting"}}
<1>1. PICK arrived \in SUBSET sent :
        ops' = [k \in DOMAIN ops \cup arrived |-> IF k \in DOMAIN ops THEN ops[k] ELSE NewOperation]
    BY DEF Restart
<1>2. \A k \in sent : /\ k \in Keys
                       /\ \E b \in 0..MaxTurns :
                            k = <<b, negotiated.schema>> /\ negotiated.state = "done"
  <2> SUFFICES ASSUME NEW c \in InFlight, c.step = "posting"
               PROVE  /\ c.key \in Keys
                      /\ \E b \in 0..MaxTurns :
                           c.key = <<b, negotiated.schema>> /\ negotiated.state = "done"
    BY Zenon
  <2>1. c \in late \cup {call}
    BY Zenon DEF InFlight
  <2>2. c.beat \in 0..MaxTurns /\ c.key \in Keys
    BY <2>1 DEF CallsOK, Calls
  <2> QED
    BY <2>1, <2>2, Zenon DEF KeysOK
<1>3. NewOperation \in Operations
    BY HeartbeatAssumption DEF NewOperation, Operations, Statuses
<1>4. OpsOK'
  <2>1. ops' \in [DOMAIN ops' -> Operations]
    BY <1>1, <1>3 DEF OpsOK
  <2> QED
    BY <1>1, <1>2, <2>1 DEF OpsOK, Restart
<1>5. CallsOK' /\ KeysOK'
  <2>1. call' \in Calls /\ call'.step = "failed"
    BY DEF Restart, CallsOK, Calls, Steps
  <2> QED
    BY <2>1, HeartbeatAssumption DEF Restart, CallsOK, KeysOK, NotNegotiated
<1>6. LoopOK'
    BY HeartbeatAssumption DEF Restart, LoopOK, PCs
<1> QED
    BY <1>1, <1>2, <1>4, <1>5, <1>6

\* So do the other steps of the coordinator, the network and the clock.
LEMMA OutsideInv ==
    ASSUME Inv,
           \/ NegotiateOk \/ NegotiateFails \/ ClockTicks \/ SchemaUpgrade
           \/ \E c \in InFlight : CallSettles(c)
           \/ \E k \in DOMAIN ops : OperationMoves(k)
           \/ UNCHANGED vars
    PROVE  Inv'
<1> USE DEF Inv
<1>1. CASE NegotiateOk
  <2>1. CallsOK' /\ KeysOK'
    BY <1>1, NegotiationInv DEF NegotiateOk
  <2> QED
    BY <1>1, <2>1 DEF NegotiateOk, NegotiationOver, LoopOK, OpsOK, loopVars, envVars
<1>2. CASE NegotiateFails
  <2>1. CallsOK' /\ KeysOK'
    BY <1>2, NegotiationInv DEF NegotiateFails
  <2> QED
    BY <1>2, <2>1 DEF NegotiateFails, NegotiationOver, LoopOK, OpsOK, loopVars, envVars
<1>3. CASE ClockTicks \/ SchemaUpgrade
  <2>1. LoopOK'
    BY <1>3, HeartbeatAssumption DEF ClockTicks, SchemaUpgrade, LoopOK, loopVars, envVars
  <2> QED
    BY <1>3, <2>1 DEF ClockTicks, SchemaUpgrade, CallsOK, KeysOK, OpsOK, loopVars, callVars, envVars
<1>4. ASSUME NEW c \in InFlight, CallSettles(c) PROVE Inv'
  <2>1. CallsOK' /\ KeysOK'
    BY <1>4, SetStepInv DEF CallSettles, loopVars, envVars
  <2> QED
    BY <1>4, <2>1 DEF CallSettles, LoopOK, OpsOK, loopVars, envVars
<1>5. ASSUME NEW k \in DOMAIN ops, OperationMoves(k) PROVE Inv'
  <2>1. PICK op \in Operations :
          /\ ops' = [ops EXCEPT ![k] = op]
          /\ ops[k].status = "pending" \/ ops[k].depth < Confirmations
    BY <1>5, Zenon DEF OperationMoves, Operations
  <2>2. OpsOK'
    <3>1. k \notin accepted
      BY <2>1, HeartbeatAssumption DEF OpsOK, Operations
    <3>2. DOMAIN ops' = DOMAIN ops /\ ops' \in [DOMAIN ops' -> Operations]
      BY <2>1 DEF OpsOK
    <3> QED
      BY <1>5, <2>1, <3>1, <3>2 DEF OperationMoves, OpsOK
  <2> QED
    BY <1>5, <2>1, <2>2 DEF OperationMoves, LoopOK, CallsOK, KeysOK, loopVars, callVars
<1>6. CASE UNCHANGED vars
    BY <1>6 DEF vars, LoopOK, CallsOK, KeysOK, OpsOK, loopVars, callVars, envVars
<1> QED
    BY <1>1, <1>2, <1>3, <1>4, <1>5, <1>6

\* Every step keeps the invariant.
LEMMA InvNext == Inv /\ [Next]_vars => Inv'
    BY BeatInv, PostInv, RestartInv, OutsideInv, Zenon DEF Next

-----------------------------------------------------------------------------
(* One operation per beat *)

OfBeat(b) == {k \in DOMAIN ops : k[1] = b}

\* A process that has negotiated may add, for each beat, the operation of its
\* schema; before that it has added none.
Budget ==
    \A b \in 0..MaxTurns :
      /\ negotiated.state = "done" =>
           Cardinality(OfBeat(b) \cup {<<b, negotiated.schema>>}) <= restarts + 1
      /\ negotiated.state # "done" => Cardinality(OfBeat(b)) <= restarts

\* The operations of a beat are finitely many.
LEMMA BeatFinite ==
    ASSUME Inv, NEW b
    PROVE  IsFiniteSet(OfBeat(b)) /\ Cardinality(OfBeat(b)) \in Nat
<1>1. IsFiniteSet(0..MaxTurns) /\ IsFiniteSet(1..MaxSchema)
    BY FS_Interval, HeartbeatAssumption
<1>2. IsFiniteSet(Keys)
    BY <1>1, FS_Product, Zenon DEF Keys
<1>3. OfBeat(b) \in SUBSET Keys
    BY DEF OfBeat, Inv, OpsOK
<1> QED
    BY <1>2, <1>3, FS_Subset, FS_CardinalityType

\* Every step stays within the budget.
LEMMA BudgetNext == Inv /\ Budget /\ [Next]_vars => Budget'
<1> SUFFICES ASSUME Inv, Budget, [Next]_vars, NEW b \in 0..MaxTurns
             PROVE  /\ negotiated'.state = "done" =>
                         Cardinality(OfBeat(b)' \cup {<<b, negotiated'.schema>>}) <= restarts' + 1
                    /\ negotiated'.state # "done" => Cardinality(OfBeat(b)') <= restarts'
    BY DEF Budget
<1>0. restarts \in Nat
    BY DEF Inv, LoopOK
<1>1. ASSUME DOMAIN ops' = DOMAIN ops, restarts' = restarts,
             \/ negotiated' = negotiated
             \/ negotiated.state # "done" /\ negotiated'.state # "done"
      PROVE  /\ negotiated'.state = "done" =>
                  Cardinality(OfBeat(b)' \cup {<<b, negotiated'.schema>>}) <= restarts' + 1
             /\ negotiated'.state # "done" => Cardinality(OfBeat(b)') <= restarts'
  <2>1. OfBeat(b)' = OfBeat(b)
    BY <1>1 DEF OfBeat
  <2> QED
    BY <1>1, <2>1, Zenon DEF Budget
<1>2. ASSUME NEW c \in InFlight, PostArrives(c)
      PROVE  negotiated'.state = "done"
             /\ Cardinality(OfBeat(b)' \cup {<<b, negotiated'.schema>>}) <= restarts' + 1
  <2>1. /\ c.key = <<c.beat, negotiated.schema>> /\ negotiated.state = "done"
        /\ DOMAIN ops' = DOMAIN ops \cup {c.key}
    BY <1>2, PostInv
  <2>2. negotiated' = negotiated /\ restarts' = restarts
    BY <1>2 DEF PostArrives
  <2>3. OfBeat(b)' \cup {<<b, negotiated.schema>>} = OfBeat(b) \cup {<<b, negotiated.schema>>}
    BY <2>1 DEF OfBeat
  <2> QED
    BY <2>1, <2>2, <2>3 DEF Budget
<1>3. CASE NegotiateOk
  <2>1. /\ negotiated.state # "done" /\ negotiated'.state = "done"
        /\ ops' = ops /\ restarts' = restarts
    BY <1>3 DEF NegotiateOk, NegotiationOver, envVars
  <2>2. OfBeat(b)' = OfBeat(b) /\ IsFiniteSet(OfBeat(b)) /\ Cardinality(OfBeat(b)) \in Nat
    BY <2>1, BeatFinite, Zenon DEF OfBeat
  <2>3. Cardinality(OfBeat(b)) <= restarts
    BY <2>1, Zenon DEF Budget
  <2>4. Cardinality(OfBeat(b) \cup {<<b, negotiated'.schema>>})
          \in {Cardinality(OfBeat(b)), Cardinality(OfBeat(b)) + 1}
    BY <2>2, FS_AddElement, Zenon
  <2> QED
    BY <1>0, <2>1, <2>2, <2>3, <2>4
<1>4. CASE Restart
  <2>1. negotiated'.state # "done" /\ restarts' = restarts + 1
    BY <1>4 DEF Restart, NotNegotiated
  <2>2. /\ DOMAIN ops \subseteq DOMAIN ops'
        /\ \A k \in DOMAIN ops' \ DOMAIN ops : \E d \in 0..MaxTurns :
             k = <<d, negotiated.schema>> /\ negotiated.state = "done"
    BY <1>4, RestartInv
  <2>3. CASE negotiated.state = "done"
    <3>1. OfBeat(b)' \in SUBSET (OfBeat(b) \cup {<<b, negotiated.schema>>})
      BY <2>2 DEF OfBeat
    <3>2. IsFiniteSet(OfBeat(b) \cup {<<b, negotiated.schema>>})
      BY BeatFinite, FS_AddElement, Zenon
    <3>3. Cardinality(OfBeat(b)') <= Cardinality(OfBeat(b) \cup {<<b, negotiated.schema>>})
      BY <3>1, <3>2, FS_Subset
    <3>4. /\ Cardinality(OfBeat(b)') \in Nat
          /\ Cardinality(OfBeat(b) \cup {<<b, negotiated.schema>>}) \in Nat
      BY <3>1, <3>2, FS_Subset, FS_CardinalityType
    <3>5. Cardinality(OfBeat(b) \cup {<<b, negotiated.schema>>}) <= restarts + 1
      BY <2>3 DEF Budget
    <3> QED
      BY <1>0, <2>1, <3>3, <3>4, <3>5
  <2>4. CASE negotiated.state # "done"
    <3>1. OfBeat(b)' = OfBeat(b)
      BY <2>2, <2>4 DEF OfBeat
    <3>2. Cardinality(OfBeat(b)) \in Nat /\ Cardinality(OfBeat(b)) <= restarts
      BY <2>4, BeatFinite, Zenon DEF Budget
    <3> QED
      BY <1>0, <2>1, <3>1, <3>2
  <2> QED
    BY <2>3, <2>4
<1>5. CASE NegotiateFails
  <2>1. /\ ops' = ops /\ restarts' = restarts
        /\ negotiated.state # "done" /\ negotiated'.state # "done"
    BY <1>5 DEF NegotiateFails, NegotiationOver, NotNegotiated, envVars
  <2> QED
    BY <1>1, <2>1
<1>6. CASE \/ TimerFires \/ Probe \/ Published \/ PublishFails \/ OutcomeSucceeds \/ OutcomeFails
           \/ Reprobe \/ DelayOver \/ Stop
  <2>1. ops' = ops /\ restarts' = restarts
    BY <1>6 DEF TimerFires, Probe, Published, PublishFails, OutcomeSucceeds, OutcomeFails,
                Reprobe, DelayOver, Stop, envVars
  <2>2. \/ negotiated' = negotiated
        \/ negotiated.state # "done" /\ negotiated' = [negotiated EXCEPT !.state = "pending"]
    BY <1>6 DEF TimerFires, Probe, Published, PublishFails, OutcomeSucceeds, OutcomeFails,
                Reprobe, DelayOver, Stop, AttemptFailed, BeginAttempt, Publish, callVars
  <2>3. \/ negotiated' = negotiated
        \/ negotiated.state # "done" /\ negotiated'.state # "done"
    BY <2>2 DEF Inv, KeysOK
  <2> QED
    BY <1>1, <2>1, <2>3
<1>7. ASSUME NEW k \in DOMAIN ops, OperationMoves(k)
      PROVE  DOMAIN ops' = DOMAIN ops /\ restarts' = restarts /\ negotiated' = negotiated
    BY <1>7 DEF OperationMoves, callVars
<1>8. ASSUME \/ ClockTicks \/ SchemaUpgrade \/ UNCHANGED vars
             \/ \E c \in InFlight : CallSettles(c)
      PROVE  ops' = ops /\ restarts' = restarts /\ negotiated' = negotiated
    BY <1>8 DEF ClockTicks, SchemaUpgrade, CallSettles, vars, callVars, envVars
<1> QED
    BY <1>1, <1>2, <1>3, <1>4, <1>5, <1>6, <1>7, <1>8 DEF Next

-----------------------------------------------------------------------------
(* Theorems *)

\* The flags of the loop stay Boolean.
LEMMA FlagsNext == FlagsOK /\ [Next]_vars => FlagsOK'
    BY Zenon DEF FlagsOK, Next, TimerFires, Probe, Published, PublishFails, OutcomeSucceeds,
           OutcomeFails, AttemptFailed, Reprobe, DelayOver, Stop, Restart, NegotiateOk,
           NegotiateFails, NegotiationOver, PostArrives, CallSettles, ClockTicks, SchemaUpgrade,
           OperationMoves, vars, loopVars

\* A beat makes at most two attempts, publications carry a key when they are posted,
\* and whatever was accepted is an operation of the coordinator.
THEOREM HeartbeatTypes == Spec => []TypeOK
<1>1. Inv /\ FlagsOK => TypeOK
  <2> SUFFICES ASSUME Inv, FlagsOK PROVE TypeOK
    OBVIOUS
  <2>1. \A k \in Keys : k # NoKey
    BY SMTT(30) DEF Keys, NoKey
  <2>2. \A c \in late \cup {call} :
          /\ c.n \in Nat /\ c.beat \in 0..MaxTurns /\ c.step \in Steps
          /\ c.step \in {"posting", "posted", "resolved"} => c.key # NoKey
    BY <2>1 DEF Inv, CallsOK, Calls
  <2>3. clock \in 0..MaxTurns /\ restarts \in 0..MaxTurns
    BY HeartbeatAssumption DEF Inv, LoopOK
  <2>4. /\ \A k \in DOMAIN ops : ops[k] \in [status : Statuses, depth : 0..Confirmations]
        /\ accepted \subseteq DOMAIN ops
    BY DEF Inv, OpsOK, Operations
  <2> QED
    BY <2>2, <2>3, <2>4 DEF TypeOK, Inv, LoopOK, KeysOK, FlagsOK
<1> QED
    BY <1>1, InvInit, InvNext, FlagsNext, PTL DEF Spec

\* What a beat counted as published is never reorganised away: canonicalOutcome
\* accepts an operation only at the depth L1 does not undo.
THEOREM AcceptedIncluded == Spec => []AcceptedStaysIncluded
<1>1. Inv => AcceptedStaysIncluded
    BY DEF Inv, OpsOK, AcceptedStaysIncluded
<1> QED
    BY <1>1, InvInit, InvNext, PTL DEF Spec

\* Timeouts, late publications, retries and schema upgrades create one operation per
\* beat and process, for any number of intervals and restarts: the negotiation is
\* memoised and the key is a hash of beat and body.
THEOREM OneOperation == Spec => []OneOperationPerBeat
<1>1. Init => Budget
  <2> SUFFICES ASSUME Init, NEW b \in 0..MaxTurns
               PROVE  negotiated.state # "done" /\ Cardinality(OfBeat(b)) <= restarts
    BY DEF Budget
  <2>1. OfBeat(b) = {}
    BY DEF Init, OfBeat
  <2> QED
    BY <2>1, FS_EmptySet DEF Init, NotNegotiated
<1>2. Inv /\ Budget => OneOperationPerBeat
  <2> SUFFICES ASSUME Inv, Budget, NEW k \in DOMAIN ops
               PROVE  /\ Cardinality(OfBeat(k[1])) <= restarts + 1
                      /\ \A l \in OfBeat(k[1]) : l[2] = k[2] => l = k
    BY DEF OneOperationPerBeat, OfBeat
  <2>1. k[1] \in 0..MaxTurns /\ restarts \in Nat
    BY DEF Inv, OpsOK, LoopOK, Keys
  <2>2. \A l \in OfBeat(k[1]) : l[2] = k[2] => l = k
    BY DEF Inv, OpsOK, Keys, OfBeat
  <2>3. IsFiniteSet(OfBeat(k[1])) /\ Cardinality(OfBeat(k[1])) \in Nat
    BY BeatFinite
  <2>4. CASE negotiated.state = "done"
    <3> DEFINE key == <<k[1], negotiated.schema>>
    <3>1. Cardinality(OfBeat(k[1]) \cup {key}) <= restarts + 1
      BY <2>1, <2>4 DEF Budget
    <3>2. Cardinality(OfBeat(k[1]) \cup {key})
            \in {Cardinality(OfBeat(k[1])), Cardinality(OfBeat(k[1])) + 1}
      BY <2>3, FS_AddElement
    <3> HIDE DEF key
    <3>3. Cardinality(OfBeat(k[1])) <= restarts + 1
      BY <2>1, <2>3, <3>1, <3>2
    <3> QED
      BY <2>2, <3>3
  <2>5. CASE negotiated.state # "done"
    <3>1. Cardinality(OfBeat(k[1])) <= restarts
      BY <2>1, <2>5, Zenon DEF Budget
    <3> QED
      BY <2>1, <2>2, <2>3, <3>1
  <2> QED
    BY <2>4, <2>5
<1> QED
    BY <1>1, <1>2, InvInit, InvNext, BudgetNext, PTL DEF Spec
=============================================================================
