-------------------------- MODULE OnChainHeartbeat --------------------------
(***************************************************************************)
(* The agent's on-chain liveness loop (agent/src/heartbeat.ts): a timer    *)
(* starts one beat per interval; a beat probes the prover, publishes a     *)
(* heartbeat and waits for its outcome, with one retry.                    *)
(*                                                                         *)
(* A publication goes through the coordinator's durable operations, after  *)
(* a memoised schema negotiation, under an idempotency key hashed from the *)
(* logical beat and the body.  `withTimeout` abandons a publication that   *)
(* is late, it does not cancel it: `late` holds the publications still in  *)
(* flight that no beat waits for.  The direct sender of loopback           *)
(* development chains is left out.                                         *)
(*                                                                         *)
(* The coordinator and the chain are external: they are modelled from what *)
(* parseDurableOperation and canonicalOutcome read.                        *)
(***************************************************************************)
EXTENDS Naturals, FiniteSets

CONSTANTS
    MaxSchema,    \* bound: schema versions 1..MaxSchema, advertised in turn
    Confirmations, \* options.confirmations
    MaxTurns      \* bound: intervals of wall-clock time and agent crashes

ASSUME HeartbeatAssumption ==
    /\ MaxSchema \in Nat \ {0}
    /\ Confirmations \in Nat \ {0}
    /\ MaxTurns \in Nat

VARIABLES
    clock,      \* floor(now / intervalMs)
    fired,      \* setInterval has fired in this interval
    stopped,    \* stop() was called
    pc,         \* where beat() is; it is `running` unless "idle"
    attempt,    \* the loop variable of beat()
    beat,       \* logicalBeat
    seen,       \* the answer of beat()'s latest health probe
    negotiated, \* the memoised negotiation: its state and its schema
    call,       \* the publication beat() awaits or last awaited
    late,       \* publications that withTimeout abandoned, still in flight
    begun,      \* how many publications were begun
    schema,     \* the coordinator's current schema version
    ops,        \* operations of the coordinator
    accepted,   \* keys whose outcome a beat accepted as success
    restarts

loopVars == <<pc, attempt, beat, seen>>
callVars == <<negotiated, call, late, begun>>
envVars == <<schema, ops>>
vars == <<clock, fired, stopped, loopVars, callVars, envVars,
          accepted, restarts>>

PCs == {"idle", "probe", "publish", "outcome", "reprobe", "delay"}
Steps == {"negotiating", "posting", "posted", "resolved", "failed"}
Statuses == {"pending", "included", "recovery"}
NoKey == <<>>
NotNegotiated == [state |-> "none", schema |-> 0]
NewOperation == [status |-> "pending", depth |-> 0]

Init ==
    /\ clock = 0 /\ fired = FALSE
    /\ stopped = FALSE
    /\ pc = "probe"          \* startOnChainHeartbeat beats at once
    /\ attempt = 0 /\ beat = 0 /\ seen = FALSE
    /\ negotiated = NotNegotiated
    /\ call = [n |-> 0, beat |-> 0, step |-> "failed", key |-> NoKey]
    /\ late = {} /\ begun = 0
    /\ schema = 1
    /\ ops = [k \in {} |-> 0]
    /\ accepted = {}
    /\ restarts = 0

-----------------------------------------------------------------------------
(* Publications *)

\* The idempotency key: the publications of one beat with one body share it.
KeyOf(b, s) == <<b, s>>

Settled(c) == c.step \in {"resolved", "failed"}

\* A publication that nobody awaits any more matters until it is posted.
Abandoned(calls) == {c \in calls : c.step \in {"negotiating", "posting"}}

Posting(c, s) == [c EXCEPT !.step = "posting", !.key = KeyOf(c.beat, s)]

\* publishHeartbeat up to its first await: a durable publication uses the
\* negotiated schema, joins the negotiation in progress, or begins one.
Publish(b) ==
    LET new == [n |-> begun + 1, beat |-> b, step |-> "negotiating", key |-> NoKey]
    IN  /\ begun' = begun + 1
        /\ late' = late \cup Abandoned({call})
        /\ \/ /\ negotiated.state = "done"
              /\ call' = Posting(new, negotiated.schema)
              /\ UNCHANGED negotiated
           \/ /\ negotiated.state # "done"
              /\ call' = new
              /\ negotiated' = [negotiated EXCEPT !.state = "pending"]

\* The publications that wait for the negotiation go on, or fail with it.
Negotiated(c, step) ==
    IF c.step # "negotiating" THEN c
    ELSE IF step = "failed" THEN [c EXCEPT !.step = "failed"] ELSE Posting(c, schema)

NegotiationOver(step) ==
    /\ negotiated.state = "pending"
    /\ call' = Negotiated(call, step)
    /\ late' = Abandoned({Negotiated(l, step) : l \in late})
    /\ UNCHANGED <<clock, fired, stopped, loopVars, begun, envVars, accepted, restarts>>

NegotiateOk_notMemoised ==
    /\ NegotiationOver("posting")
    /\ negotiated' = NotNegotiated

\* A negotiation that succeeds is kept for the life of the process.
NegotiateOk ==
    /\ NegotiationOver("posting")
    /\ negotiated' = [state |-> "done", schema |-> schema]

\* One that fails is forgotten, so that the next publication tries again.
NegotiateFails ==
    /\ NegotiationOver("failed")
    /\ negotiated' = NotNegotiated

InFlight == late \cup {c \in {call} : ~Settled(c)}

SetStep(c, step) ==
    LET moved == [c EXCEPT !.step = step]
    IN  IF c = call
        THEN call' = moved /\ UNCHANGED late
        ELSE late' = (late \ {c}) \cup Abandoned({moved}) /\ UNCHANGED call

\* The POST reaches the coordinator: a new key creates an operation, a known
\* key resumes the one it has.
PostArrives(c) ==
    /\ c.step = "posting"
    /\ SetStep(c, "posted")
    /\ ops' = [k \in DOMAIN ops \cup {c.key} |->
                  IF k \in DOMAIN ops /\ (k = c.key => ops[k].status # "recovery")
                  THEN ops[k] ELSE NewOperation]
    /\ UNCHANGED <<clock, fired, stopped, loopVars, negotiated, begun, schema,
                   accepted, restarts>>

\* The response comes back, or the request or its response is lost, late or
\* refused by parseDurableOperation.
CallSettles(c) ==
    /\ \/ c.step = "posted" /\ SetStep(c, "resolved")
       \/ c.step \in {"posting", "posted"} /\ SetStep(c, "failed")
    /\ UNCHANGED <<clock, fired, stopped, loopVars, negotiated, begun, envVars,
                   accepted, restarts>>

-----------------------------------------------------------------------------
(* beat() *)

\* The head of the retry loop: `attempt < 2 && !stopped`.
BeginAttempt(n, b) ==
    /\ attempt' = n
    /\ \/ /\ stopped
          /\ pc' = "idle"
          /\ UNCHANGED callVars
       \/ /\ ~stopped
          /\ pc' = "publish"
          /\ Publish(b)

\* The timer callback: a beat starts unless one is running or stop() cleared
\* the timer.
TimerFires ==
    /\ ~stopped /\ ~fired
    /\ fired' = TRUE
    /\ pc' = IF pc = "idle" THEN "probe" ELSE pc
    /\ UNCHANGED <<clock, stopped, attempt, beat, seen, callVars, envVars, accepted, restarts>>

\* The opening health probe, which may answer either way: an unhealthy prover
\* ends the beat, a healthy one fixes the logical beat and begins an attempt.
Probe ==
    /\ pc = "probe"
    /\ seen' \in BOOLEAN
    /\ \/ /\ ~seen'
          /\ pc' = "idle"
          /\ UNCHANGED <<attempt, beat, callVars>>
       \/ /\ seen'
          /\ beat' = clock
          /\ BeginAttempt(0, clock)
    /\ UNCHANGED <<clock, fired, stopped, envVars, accepted, restarts>>

\* After a failed attempt: the first one is followed by another probe unless
\* the loop was stopped, the second one ends the beat.
AttemptFailed ==
    /\ pc' = IF attempt = 0 /\ ~stopped THEN "reprobe" ELSE "idle"
    /\ UNCHANGED <<attempt, beat, seen, callVars>>

Published ==
    /\ pc = "publish"
    /\ call.step = "resolved"
    /\ pc' = "outcome"
    /\ UNCHANGED <<clock, fired, stopped, attempt, beat, seen, callVars, envVars, accepted, restarts>>

\* The publication threw, or withTimeout stopped waiting for it.
PublishFails_noTimeout ==
    /\ pc = "publish"
    /\ call.step = "failed"
    /\ AttemptFailed
    /\ UNCHANGED <<clock, fired, stopped, envVars, accepted, restarts>>

PublishFails ==
    /\ pc = "publish"
    /\ call.step # "resolved"
    /\ AttemptFailed
    /\ UNCHANGED <<clock, fired, stopped, envVars, accepted, restarts>>

\* canonicalOutcome: inclusion counts only at the required depth; an included
\* operation below it makes the poll throw instead of polling on.
Succeeded_anyDepth(op) == op.status = "included"
Succeeded(op) == op.status = "included" /\ op.depth >= Confirmations

OutcomeSucceeds ==
    /\ pc = "outcome"
    /\ Succeeded(ops[call.key])
    /\ accepted' = accepted \cup {call.key}
    /\ pc' = "idle"
    /\ UNCHANGED <<clock, fired, stopped, attempt, beat, seen, callVars, envVars, restarts>>

\* A failed or reverted operation, missing evidence, a failed poll, or the
\* receipt deadline.
OutcomeFails ==
    /\ pc = "outcome"
    /\ AttemptFailed
    /\ UNCHANGED <<clock, fired, stopped, envVars, accepted, restarts>>

\* `if (attempt === 0 && !stopped && (await healthy())) await delay(...)`: the
\* answer only decides whether to wait before the second attempt.
Reprobe ==
    /\ pc = "reprobe"
    /\ seen' \in BOOLEAN
    /\ \/ /\ seen'
          /\ pc' = "delay"
          /\ UNCHANGED <<attempt, callVars>>
       \/ /\ ~seen'
          /\ BeginAttempt(1, beat)
    /\ UNCHANGED <<clock, fired, stopped, beat, envVars, accepted, restarts>>

DelayOver ==
    /\ pc = "delay"
    /\ BeginAttempt(1, beat)
    /\ UNCHANGED <<clock, fired, stopped, beat, seen, envVars, accepted, restarts>>

Stop ==
    /\ ~stopped
    /\ stopped' = TRUE
    /\ UNCHANGED <<clock, fired, loopVars, callVars, envVars,
                   accepted, restarts>>

\* The agent process dies and is started again: its memory is gone, what
\* reached the coordinator, or was on its way and still gets there, is not.
Restart ==
    /\ clock + restarts < MaxTurns
    /\ restarts' = restarts + 1
    /\ stopped' = FALSE
    /\ fired' = FALSE
    /\ pc' = "probe" /\ attempt' = 0 /\ seen' = FALSE
    /\ negotiated' = NotNegotiated
    /\ call' = [call EXCEPT !.step = "failed"]
    /\ late' = {}
    /\ \E arrived \in SUBSET {c.key : c \in {f \in InFlight : f.step = "posting"}} :
          ops' = [k \in DOMAIN ops \cup arrived |->
                     IF k \in DOMAIN ops THEN ops[k] ELSE NewOperation]
    /\ UNCHANGED <<clock, beat, begun, schema, accepted>>

-----------------------------------------------------------------------------
(* Time, the coordinator and the chain *)

ClockTicks ==
    /\ clock + restarts < MaxTurns
    /\ fired \/ stopped
    /\ clock' = clock + 1
    /\ fired' = FALSE
    /\ UNCHANGED <<stopped, loopVars, callVars, envVars,
                   accepted, restarts>>

SchemaUpgrade ==
    /\ schema < MaxSchema
    /\ schema' = schema + 1
    /\ UNCHANGED <<clock, fired, stopped, loopVars, callVars, ops,
                   accepted, restarts>>

\* An operation is included, gains a confirmation, is reorged out before it has
\* the required depth, or needs recovery.
OperationMoves(k) ==
    /\ \E op \in [status : Statuses, depth : 0..Confirmations] :
          /\ \/ ops[k].status = "pending" /\ op = [status |-> "included", depth |-> 1]
             \/ ops[k].status = "pending" /\ op = [status |-> "recovery", depth |-> 0]
             \/ /\ ops[k].status = "included" /\ ops[k].depth < Confirmations
                /\ \/ op = [ops[k] EXCEPT !.depth = @ + 1]
                   \/ op = NewOperation
          /\ ops' = [ops EXCEPT ![k] = op]
    /\ UNCHANGED <<clock, fired, stopped, loopVars, callVars, schema,
                   accepted, restarts>>

-----------------------------------------------------------------------------
Next ==
    \/ TimerFires \/ Probe \/ Published \/ PublishFails
    \/ OutcomeSucceeds \/ OutcomeFails \/ Reprobe \/ DelayOver
    \/ Stop \/ Restart
    \/ NegotiateOk \/ NegotiateFails
    \/ \E c \in InFlight : PostArrives(c) \/ CallSettles(c)
    \/ ClockTicks \/ SchemaUpgrade
    \/ \E k \in DOMAIN ops : OperationMoves(k)

\* Every await of beat() ends: the health probe and the polls have request
\* timeouts, a publication has withTimeout, the outcome has its deadline, the
\* delay is a timer.  Nothing is assumed of the network, the coordinator or
\* the publications themselves.
Fairness ==
    /\ WF_vars(Probe)
    /\ WF_vars(Published)
    /\ WF_vars(PublishFails)
    /\ WF_vars(OutcomeFails)
    /\ WF_vars(Reprobe)
    /\ WF_vars(DelayOver)

Spec == Init /\ [][Next]_vars
FairSpec == Spec /\ Fairness

-----------------------------------------------------------------------------
(* Properties *)

\* The loop, its publications and the coordinator keep their types: a beat makes
\* at most two attempts, and what was accepted is an operation.
TypeOK ==
    /\ clock \in 0..MaxTurns /\ beat \in 0..MaxTurns
    /\ {fired, stopped, seen} \subseteq BOOLEAN
    /\ pc \in PCs
    /\ attempt \in {0, 1}
    /\ negotiated \in [state : {"none", "pending", "done"}, schema : 0..MaxSchema]
    /\ \A c \in late \cup {call} :
          /\ c.n \in Nat /\ c.beat \in 0..MaxTurns /\ c.step \in Steps
          /\ c.step \in {"posting", "posted", "resolved"} => c.key # NoKey
    /\ schema \in 1..MaxSchema
    /\ \A k \in DOMAIN ops : ops[k] \in [status : Statuses, depth : 0..Confirmations]
    /\ accepted \subseteq DOMAIN ops
    /\ restarts \in 0..MaxTurns

\* "The coordinator resumes the one durable operation instead of allocating a
\* second nonce" (heartbeat.ts:726-728): one logical beat creates one operation,
\* through timeouts, publications that arrive late, retries and two timer beats
\* in one interval.  A restart adds one only when the process that died and the
\* one that follows negotiated different schemas, so that their bodies differ.
OneOperationPerBeat ==
    \A k \in DOMAIN ops :
      LET same == {l \in DOMAIN ops : l[1] = k[1]}
      IN /\ Cardinality(same) <= restarts + 1
         /\ \A l \in same : l[2] = k[2] => l = k

\* A beat is content only with a heartbeat that can no longer be reorged out:
\* the operation it accepted stays included (canonicalOutcome's depth check).
AcceptedStaysIncluded ==
    \A k \in accepted : ops[k].status = "included"

\* No beat hangs: whatever the network and the coordinator do, a running beat
\* ends, so the single-flight flag cannot silence the node for good.
BeatEnds == pc # "idle" ~> pc = "idle"
=============================================================================
