---------------------------- MODULE JobPipeline ----------------------------
(***************************************************************************)
(* The agents (agent/src/agent.ts, local-prover.ts) between the durable    *)
(* prove queue and their local provers.  An agent leases one job at a      *)
(* time, forwards it, heartbeats the lease while the forward runs and      *)
(* reports the outcome, at most REPORT_ATTEMPTS times.                     *)
(*                                                                         *)
(* The queue is external and modelled from the agent's use of it: it       *)
(* leases queued jobs, re-queues a job whose lease expires, knows a lease  *)
(* by job and node (the reports carry nothing else), answers 409 to a      *)
(* report on a lease it no longer recognises, and repeats its answer to a  *)
(* repeated complete.  The prover is external here (see ProofService):     *)
(* what matters is the HTTP answer it gives.                               *)
(*                                                                         *)
(* Time advances in ticks of one lease clock: the code's 22 minute forward *)
(* timeout and 25 minute lease are two and three ticks.  A report, three   *)
(* attempts of at most 31 seconds, ends within its tick unless the agent   *)
(* stalls, which is a fault.                                               *)
(***************************************************************************)
EXTENDS Naturals, FiniteSets

CONSTANTS
    Nodes, Jobs,
    BadJobs,   \* jobs whose request every prover refuses
    NoNode,    \* "not leased"
    NoJob,     \* "no job in hand"
    Stoppable, \* nodes an operator may stop
    MaxFaults, \* bound: crashes, lost calls and GPU faults of a behaviour
    MaxLate    \* bound: reports that are delivered after the agent gave up on them

ASSUME PipelineAssumption ==
    /\ BadJobs \subseteq Jobs /\ Stoppable \subseteq Nodes
    /\ NoNode \notin Nodes /\ NoJob \notin Jobs
    /\ MaxFaults \in Nat /\ MaxLate \in Nat

VARIABLES
    pc,      \* [Nodes -> PCs]: the agent's loop
    job,     \* [Nodes -> Jobs \cup {NoJob}]: the job in hand
    outcome, \* [Nodes -> Outcomes]: the ForwardOutcome to report
    tries,   \* [Nodes -> 0..REPORT_ATTEMPTS]: report attempts made
    elapsed, \* [Nodes -> Nat]: ticks the forward has run
    stopped, \* [Nodes -> BOOLEAN]: stop() was called
    gpu,     \* [Nodes -> BOOLEAN]: the node's prover can prove
    state,   \* [Jobs -> JobStates]: the queue's record of the job
    holder,  \* [Jobs -> Nodes \cup {NoNode}]: who leases it
    age,     \* [Jobs -> Nat]: ticks since the lease was granted or renewed
    late,    \* reports still on their way although nobody awaits the answer
    answers, \* history: the final <<job, HTTP answer>> pairs of the provers
    traced,  \* history: <<job, outcome>> pairs of the final traces
    upset,   \* history: jobs whose lease a late report ended
    faults

agentVars == <<pc, job, outcome, tries, elapsed, stopped>>
queueVars == <<state, holder, age>>
history == <<answers, traced, upset>>
vars == <<agentVars, gpu, queueVars, late, history, faults>>

PCs == {"loop", "work", "report", "exited", "down"}
Outcomes == {"none", "ok", "rejected", "unavailable"}
JobStates == {"queued", "leased", "done", "failed"}
Reports == [node : Nodes, job : Jobs, outcome : Outcomes \ {"none"}]

REPORT_ATTEMPTS == 3
LEASE == 3
DEFAULT_FORWARD_TIMEOUT_overLease == 4
DEFAULT_FORWARD_TIMEOUT == 2

Init ==
    /\ pc = [n \in Nodes |-> "loop"]
    /\ job = [n \in Nodes |-> NoJob]
    /\ outcome = [n \in Nodes |-> "none"]
    /\ tries = [n \in Nodes |-> 0]
    /\ elapsed = [n \in Nodes |-> 0]
    /\ stopped = [n \in Nodes |-> FALSE]
    /\ gpu = [n \in Nodes |-> TRUE]
    /\ state = [j \in Jobs |-> "queued"]
    /\ holder = [j \in Jobs |-> NoNode]
    /\ age = [j \in Jobs |-> 0]
    /\ late = {}
    /\ answers = {} /\ traced = {} /\ upset = {}
    /\ faults = 0

Fault == faults < MaxFaults /\ faults' = faults + 1

-----------------------------------------------------------------------------
(* The queue (external) *)

Holds(n, j) == state[j] = "leased" /\ holder[j] = n

\* POST /queue/v1/lease
Grant(n, j) ==
    /\ state[j] = "queued"
    /\ state' = [state EXCEPT ![j] = "leased"]
    /\ holder' = [holder EXCEPT ![j] = n]
    /\ age' = [age EXCEPT ![j] = 0]

\* POST complete or fail: a recognised lease is settled, or re-queued when
\* the failure is retryable; any other report changes nothing.
Receive(r) ==
    IF Holds(r.node, r.job)
    THEN /\ state' = [state EXCEPT ![r.job] =
                CASE r.outcome = "ok" -> "done"
                  [] r.outcome = "rejected" -> "failed"
                  [] r.outcome = "unavailable" -> "queued"]
         /\ holder' = [holder EXCEPT ![r.job] = NoNode]
         /\ age' = [age EXCEPT ![r.job] = 0]
    ELSE UNCHANGED queueVars

\* The queue's answer, before the report is applied: 200 for a recognised
\* lease and for a repeated complete, 409 otherwise.
Acknowledged(r) ==
    Holds(r.node, r.job) \/ (r.outcome = "ok" /\ state[r.job] = "done")

\* The lease TTL is over: the job is leased to somebody else.
Expire(j) ==
    /\ state[j] = "leased"
    /\ age[j] = LEASE
    /\ state' = [state EXCEPT ![j] = "queued"]
    /\ holder' = [holder EXCEPT ![j] = NoNode]
    /\ age' = [age EXCEPT ![j] = 0]
    /\ UNCHANGED <<agentVars, gpu, late, history, faults>>

\* The lease heartbeat of a node that still holds the lease renews it.
Renew(n, j) ==
    /\ Holds(n, j)
    /\ age' = [age EXCEPT ![j] = 0]
    /\ UNCHANGED <<state, holder>>

\* A report the agent timed out on arrives after all.
DeliverLate(r) ==
    /\ r \in late
    /\ late' = late \ {r}
    /\ Receive(r)
    /\ upset' = IF Holds(r.node, r.job) THEN upset \cup {r.job} ELSE upset
    /\ UNCHANGED <<agentVars, gpu, answers, traced, faults>>

-----------------------------------------------------------------------------
(* The local prover, as the agent sees it *)

\* What a forward may come back with.  A prover without its GPU refuses with
\* the status it also gives a bad request; the rest are faults.
ProverAnswers(n, j) == IF gpu[n] /\ j \notin BadJobs THEN {"200"} ELSE {"400"}
FaultyAnswers == {"500", "unreadable", "unreachable"}
FinalAnswers == Jobs \X {"200", "400"}

\* forward(): the status code decides; a 4xx condemns the request.
ForwardKind_condemnsFailures(answer) ==
    CASE answer = "200" -> "ok"
      [] answer \in {"400", "500"} -> "rejected"
      [] OTHER -> "unavailable"

ForwardKind(answer) ==
    CASE answer = "200" -> "ok"
      [] answer = "400" -> "rejected"
      [] OTHER -> "unavailable"

GpuFails(n) ==
    /\ gpu[n] /\ Fault
    /\ gpu' = [gpu EXCEPT ![n] = FALSE]
    /\ UNCHANGED <<agentVars, queueVars, late, history>>

GpuReturns(n) ==
    /\ ~gpu[n]
    /\ gpu' = [gpu EXCEPT ![n] = TRUE]
    /\ UNCHANGED <<agentVars, queueVars, late, history, faults>>

-----------------------------------------------------------------------------
(* The agent *)

\* The agent's local state is left behind: the job is out of its hands.
Forget(n, next) ==
    /\ pc' = [pc EXCEPT ![n] = next]
    /\ job' = [job EXCEPT ![n] = NoJob]
    /\ outcome' = [outcome EXCEPT ![n] = "none"]
    /\ tries' = [tries EXCEPT ![n] = 0]
    /\ elapsed' = [elapsed EXCEPT ![n] = 0]

\* An iteration of the loop that leases a job: the prover answered its
\* health probe and the queue handed a job over.
LeaseJob(n, j) ==
    /\ pc[n] = "loop" /\ ~stopped[n] /\ gpu[n]
    /\ Grant(n, j)
    /\ pc' = [pc EXCEPT ![n] = "work"]
    /\ job' = [job EXCEPT ![n] = j]
    /\ UNCHANGED <<outcome, tries, elapsed, stopped, gpu, late, history, faults>>

\* The answer to the lease call is lost, or carries no safe correlation
\* tuple: the job stays leased to a node that will not work on it.
LeaseLost(n, j) ==
    /\ pc[n] = "loop" /\ gpu[n] /\ Fault
    /\ ~stopped[n]
    /\ Grant(n, j)
    /\ UNCHANGED <<agentVars, gpu, late, history>>

\* The interval of work(): a heartbeat that reaches the queue.
HeartbeatLease(n) ==
    /\ pc[n] = "work"
    /\ Renew(n, job[n])
    /\ UNCHANGED <<agentVars, gpu, late, history, faults>>

ForwardEnds(n) ==
    /\ pc[n] = "work"
    /\ \E answer \in ProverAnswers(n, job[n]) \cup FaultyAnswers :
        /\ IF answer \in FaultyAnswers THEN Fault ELSE UNCHANGED faults
        /\ outcome' = [outcome EXCEPT ![n] = ForwardKind(answer)]
        /\ answers' = answers \cup ({<<job[n], answer>>} \cap FinalAnswers)
    /\ pc' = [pc EXCEPT ![n] = "report"]
    /\ elapsed' = [elapsed EXCEPT ![n] = 0]
    /\ UNCHANGED <<job, tries, stopped, gpu, queueVars, late, traced, upset>>

ReportOf(n) == [node |-> n, job |-> job[n], outcome |-> outcome[n]]

\* jobTrace after the report: only an acknowledged outcome is final.
FinalTrace_unacknowledged(n) ==
    CASE outcome[n] = "ok" -> {<<job[n], "succeeded">>}
      [] outcome[n] = "rejected" -> {<<job[n], "failed">>}
      [] OTHER -> {}

FinalTrace(n) ==
    CASE outcome[n] = "ok" /\ Acknowledged(ReportOf(n)) -> {<<job[n], "succeeded">>}
      [] outcome[n] = "rejected" /\ Acknowledged(ReportOf(n)) -> {<<job[n], "failed">>}
      [] OTHER -> {}

\* As ReportAnswered, but a 409 is retried like a network error.
ReportAnswered_retries409(n) ==
    /\ pc[n] = "report"
    /\ Acknowledged(ReportOf(n))
    /\ Receive(ReportOf(n))
    /\ traced' = traced \cup FinalTrace(n)
    /\ Forget(n, "loop")
    /\ UNCHANGED <<stopped, gpu, late, answers, upset, faults>>

\* The queue answers the report, with 200 or with 409: either ends it.
ReportAnswered(n) ==
    /\ pc[n] = "report"
    /\ Receive(ReportOf(n))
    /\ traced' = traced \cup FinalTrace(n)
    /\ Forget(n, "loop")
    /\ UNCHANGED <<stopped, gpu, late, answers, upset, faults>>

\* An attempt without an answer; after the last one the lease is left to expire.
AttemptFails(n) ==
    IF tries[n] + 1 < REPORT_ATTEMPTS
    THEN /\ tries' = [tries EXCEPT ![n] = @ + 1]
         /\ UNCHANGED <<pc, job, outcome, elapsed>>
    ELSE Forget(n, "loop")

ReportLost(n) ==
    /\ pc[n] = "report" /\ Fault
    /\ AttemptFails(n)
    /\ UNCHANGED <<stopped, gpu, queueVars, late, history>>

ReportAnswerLost(n) ==
    /\ pc[n] = "report" /\ Fault
    /\ Receive(ReportOf(n))
    /\ AttemptFails(n)
    /\ UNCHANGED <<stopped, gpu, late, history>>

ReportDelayed(n) ==
    /\ pc[n] = "report" /\ Fault
    /\ Cardinality(late) < MaxLate
    /\ late' = late \cup {ReportOf(n)}
    /\ AttemptFails(n)
    /\ UNCHANGED <<stopped, gpu, queueVars, history>>

Stop(n) ==
    /\ n \in Stoppable /\ ~stopped[n] /\ pc[n] # "down"
    /\ stopped' = [stopped EXCEPT ![n] = TRUE]
    /\ UNCHANGED <<pc, job, outcome, tries, elapsed, gpu, queueVars, late, history, faults>>

LoopEnds(n) ==
    /\ pc[n] = "loop" /\ stopped[n]
    /\ pc' = [pc EXCEPT ![n] = "exited"]
    /\ UNCHANGED <<job, outcome, tries, elapsed, stopped, gpu, queueVars, late, history, faults>>

\* The process dies, inside a forward or anywhere else, and is started again.
Crash(n) ==
    /\ pc[n] \notin {"down", "exited"} /\ Fault
    /\ Forget(n, "down")
    /\ UNCHANGED <<stopped, gpu, queueVars, late, history>>

Restart(n) ==
    /\ pc[n] = "down"
    /\ pc' = [pc EXCEPT ![n] = "loop"]
    /\ stopped' = [stopped EXCEPT ![n] = FALSE]
    /\ UNCHANGED <<job, outcome, tries, elapsed, gpu, queueVars, late, history, faults>>

-----------------------------------------------------------------------------
\* A tick passes; a forward at its timeout and a lease at its end act first.
Tick ==
    /\ \A n \in Nodes : pc[n] = "work" => elapsed[n] < DEFAULT_FORWARD_TIMEOUT
    /\ \A j \in Jobs : state[j] = "leased" => age[j] < LEASE
    /\ \E n \in Nodes, j \in Jobs : pc[n] = "work" \/ state[j] = "leased"
    /\ IF \E n \in Nodes : pc[n] = "report" THEN Fault ELSE UNCHANGED faults
    /\ elapsed' = [n \in Nodes |-> IF pc[n] = "work" THEN elapsed[n] + 1 ELSE elapsed[n]]
    /\ age' = [j \in Jobs |-> IF state[j] = "leased" THEN age[j] + 1 ELSE age[j]]
    /\ UNCHANGED <<pc, job, outcome, tries, stopped, gpu, state, holder, late, history>>

Step(n) ==
    \/ \E j \in Jobs : LeaseJob(n, j) \/ LeaseLost(n, j)
    \/ HeartbeatLease(n) \/ ForwardEnds(n)
    \/ ReportAnswered(n) \/ ReportLost(n) \/ ReportAnswerLost(n) \/ ReportDelayed(n)
    \/ Stop(n) \/ LoopEnds(n) \/ Crash(n) \/ Restart(n)
    \/ GpuFails(n) \/ GpuReturns(n)

Next ==
    \/ \E n \in Nodes : Step(n)
    \/ \E j \in Jobs : Expire(j)
    \/ \E r \in late : DeliverLate(r)
    \/ Tick

Spec == Init /\ [][Next]_vars

\* Awaited promises settle, timers fire, the loop keeps polling and a dead
\* process or a lost GPU is brought back.
Fairness ==
    /\ WF_vars(Tick)
    /\ \A j \in Jobs : WF_vars(Expire(j))
    /\ \A n \in Nodes :
        /\ WF_vars(ForwardEnds(n)) /\ WF_vars(ReportAnswered(n))
        /\ WF_vars(LoopEnds(n)) /\ WF_vars(Restart(n)) /\ WF_vars(GpuReturns(n))
        /\ \A j \in Jobs : WF_vars(LeaseJob(n, j))

FairSpec == Spec /\ Fairness

-----------------------------------------------------------------------------
(* Properties *)

\* Every variable of the agents and the queue has its type; an agent has a
\* job exactly while it works on it or reports it.
TypeOK ==
    /\ pc \in [Nodes -> PCs]
    /\ job \in [Nodes -> Jobs \cup {NoJob}]
    /\ \A n \in Nodes : (pc[n] \in {"work", "report"}) <=> (job[n] # NoJob)
    /\ outcome \in [Nodes -> Outcomes]
    /\ \A n \in Nodes : (pc[n] = "report") <=> (outcome[n] # "none")
    /\ tries \in [Nodes -> 0..REPORT_ATTEMPTS - 1]
    /\ elapsed \in [Nodes -> 0..DEFAULT_FORWARD_TIMEOUT]
    /\ stopped \in [Nodes -> BOOLEAN] /\ gpu \in [Nodes -> BOOLEAN]
    /\ state \in [Jobs -> JobStates]
    /\ holder \in [Jobs -> Nodes \cup {NoNode}]
    /\ \A j \in Jobs : (state[j] = "leased") <=> (holder[j] # NoNode)
    /\ age \in [Jobs -> 0..LEASE]
    /\ late \subseteq Reports /\ Cardinality(late) <= MaxLate
    /\ answers \subseteq FinalAnswers
    /\ traced \subseteq Jobs \X {"succeeded", "failed"}
    /\ upset \subseteq Jobs
    /\ faults \in 0..MaxFaults

\* Two agents prove the same job at the same time only after a late report
\* ended a lease: crashes, lost calls, stops and expiry never double the work,
\* since the forward stays "Below the queue's 25-minute lease so a timeout
\* reports before expiry" (local-prover.ts:31) however many heartbeats are missed.
NoDoubleProving ==
    \A m, n \in Nodes :
        /\ m # n
        /\ pc[m] = "work" /\ pc[n] = "work"
        /\ job[m] = job[n]
        => job[m] \in upset

\* The traces an owner reads tell the truth about the queue: "succeeded" only
\* for a job that is done, "failed" only for one that is condemned, whatever
\* happens to the lease, the reports and the node afterwards.
TraceTruthful ==
    \A j \in Jobs :
        /\ <<j, "succeeded">> \in traced => state[j] = "done"
        /\ <<j, "failed">> \in traced => state[j] = "failed"

\* The pipeline implements the ledger: a job is settled once, as done only
\* after a prover answered it with a proof and as failed only after a prover
\* answered it with a 4xx.
Ledger ==
    INSTANCE JobLedger WITH
        proved <- {j \in Jobs : <<j, "200">> \in answers},
        refused <- {j \in Jobs : <<j, "400">> \in answers},
        settled <- [j \in Jobs |->
            IF state[j] \in {"queued", "leased"} THEN "open" ELSE state[j]]

ImplementsLedger == Ledger!Spec

\* A prover may crash, lose its GPU, its lease or its reports: every job is
\* settled in the end.
EveryJobSettles == \A j \in Jobs : <>(state[j] \in {"done", "failed"})

\* stop() resolves: an agent asked to stop finishes the job in hand, gives up
\* reporting after its attempts, and leaves the loop (or dies before).
StopDrains == \A n \in Nodes : stopped[n] ~> (pc[n] = "exited" \/ ~stopped[n])

\* "4xx is the prover judging the REQUEST ... no other node can fix a bad
\* witness" (local-prover.ts:82-85): only a bad request is condemned.
OnlyBadJobsCondemned == \A j \in Jobs : state[j] = "failed" => j \in BadJobs
=============================================================================
