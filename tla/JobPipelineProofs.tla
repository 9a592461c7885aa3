-------------------------- MODULE JobPipelineProofs --------------------------
(***************************************************************************)
(* For every set of nodes and jobs and every number of faults: a job is    *)
(* not proved twice at once unless a late report ended a lease, traces     *)
(* tell the truth, and the pipeline implements the job ledger.             *)
(***************************************************************************)
EXTENDS JobPipeline, TLAPS, FiniteSetTheorems

\* TypeOK in three parts: the agents, the queue, and the rest.
AgentOK ==
    /\ pc \in [Nodes -> PCs]
    /\ job \in [Nodes -> Jobs \cup {NoJob}]
    /\ \A n \in Nodes : (pc[n] \in {"work", "report"}) <=> (job[n] # NoJob)
    /\ outcome \in [Nodes -> Outcomes]
    /\ \A n \in Nodes : (pc[n] = "report") <=> (outcome[n] # "none")
    /\ tries \in [Nodes -> 0..REPORT_ATTEMPTS - 1]
    /\ elapsed \in [Nodes -> 0..DEFAULT_FORWARD_TIMEOUT]

QueueOK ==
    /\ state \in [Jobs -> JobStates]
    /\ holder \in [Jobs -> Nodes \cup {NoNode}]
    /\ \A j \in Jobs : (state[j] = "leased") <=> (holder[j] # NoNode)
    /\ age \in [Jobs -> 0..LEASE]

LateOK == late \subseteq Reports /\ IsFiniteSet(late) /\ Cardinality(late) <= MaxLate

HistoryOK ==
    /\ answers \subseteq FinalAnswers
    /\ traced \subseteq Jobs \X {"succeeded", "failed"}
    /\ upset \subseteq Jobs
    /\ faults \in 0..MaxFaults

FlagsOK == stopped \in [Nodes -> BOOLEAN] /\ gpu \in [Nodes -> BOOLEAN]

Types == AgentOK /\ QueueOK /\ LateOK /\ HistoryOK /\ FlagsOK

-----------------------------------------------------------------------------
(* Types *)

\* The pipeline starts typed.
LEMMA TypesInit == Init => Types
<1> SUFFICES ASSUME Init PROVE Types
    OBVIOUS
<1>1. AgentOK
    BY PipelineAssumption DEF Init, AgentOK, PCs, Outcomes, REPORT_ATTEMPTS, DEFAULT_FORWARD_TIMEOUT
<1>2. QueueOK
    BY PipelineAssumption DEF Init, QueueOK, JobStates, LEASE
<1>3. LateOK
    BY PipelineAssumption, FS_EmptySet DEF Init, LateOK
<1>4. HistoryOK
    BY PipelineAssumption DEF Init, HistoryOK
<1>5. FlagsOK
    BY DEF Init, FlagsOK
<1> QED
    BY <1>1, <1>2, <1>3, <1>4, <1>5 DEF Types

\* What an agent in "report" sends is a report.
LEMMA ReportTyped ==
    ASSUME AgentOK, NEW n \in Nodes, pc[n] = "report"
    PROVE  ReportOf(n) \in Reports
    BY PipelineAssumption DEF AgentOK, ReportOf, Reports

\* A report the queue receives leaves it typed.
LEMMA ReceiveTyped ==
    ASSUME QueueOK, NEW r \in Reports, Receive(r)
    PROVE  QueueOK'
<1>1. r.job \in Jobs /\ r.outcome \in {"ok", "rejected", "unavailable"}
    BY DEF Reports, Outcomes
<1>2. CASE ~Holds(r.node, r.job)
    BY <1>2 DEF Receive, QueueOK, queueVars
<1>3. CASE Holds(r.node, r.job)
    BY <1>1, <1>3, PipelineAssumption DEF Receive, QueueOK, JobStates, LEASE
<1> QED
    BY <1>2, <1>3

\* An agent that leaves its job behind is typed.
LEMMA ForgetTyped ==
    ASSUME AgentOK, NEW n \in Nodes, NEW next \in {"loop", "down"}, Forget(n, next)
    PROVE  AgentOK'
    BY DEF AgentOK, Forget, PCs, Outcomes, REPORT_ATTEMPTS, DEFAULT_FORWARD_TIMEOUT

\* So is one whose attempt to report failed.
LEMMA AttemptTyped ==
    ASSUME AgentOK, NEW n \in Nodes, AttemptFails(n)
    PROVE  AgentOK'
<1>1. CASE tries[n] + 1 < REPORT_ATTEMPTS
    BY <1>1 DEF AgentOK, AttemptFails, REPORT_ATTEMPTS
<1>2. CASE ~(tries[n] + 1 < REPORT_ATTEMPTS)
    BY <1>2, ForgetTyped DEF AttemptFails
<1> QED
    BY <1>1, <1>2

\* Leaving a job behind does not touch another agent that works on its job or reports it.
LEMMA ForgetSpares ==
    ASSUME AgentOK, NEW n \in Nodes, NEW next \in {"loop", "down"}, Forget(n, next),
           NEW m \in Nodes, pc'[m] \in {"work", "report"}
    PROVE  /\ m # n /\ pc'[m] = pc[m] /\ job'[m] = job[m]
           /\ outcome'[m] = outcome[m] /\ elapsed'[m] = elapsed[m]
<1>1. m # n
    BY DEF AgentOK, Forget
<1> QED
    BY <1>1 DEF AgentOK, Forget

\* Neither does a failed attempt to report.
LEMMA AttemptSpares ==
    ASSUME AgentOK, NEW n \in Nodes, AttemptFails(n), NEW m \in Nodes, pc'[m] \in {"work", "report"}
    PROVE  /\ pc'[m] = pc[m] /\ job'[m] = job[m]
           /\ outcome'[m] = outcome[m] /\ elapsed'[m] = elapsed[m]
<1>1. CASE tries[n] + 1 < REPORT_ATTEMPTS
  <2>1. pc' = pc /\ job' = job /\ outcome' = outcome /\ elapsed' = elapsed
    BY <1>1, Zenon DEF AttemptFails
  <2> QED
    BY <2>1, Zenon
<1>2. CASE ~(tries[n] + 1 < REPORT_ATTEMPTS)
  <2>1. Forget(n, "loop")
    BY <1>2, Zenon DEF AttemptFails
  <2> QED
    BY <2>1, ForgetSpares, Zenon
<1> QED
    BY <1>1, <1>2, Zenon

\* Faults are counted up to their bound.
LEMMA FaultCounted ==
    ASSUME HistoryOK, Fault
    PROVE  faults' \in 0..MaxFaults
    BY PipelineAssumption DEF HistoryOK, Fault

\* Every step of an agent keeps the types.
LEMMA StepTypes ==
    ASSUME Types, NEW n \in Nodes, Step(n)
    PROVE  Types'
<1> USE DEF Types
<1>1. ASSUME NEW j \in Jobs, LeaseJob(n, j) PROVE Types'
  <2>1. AgentOK'
    BY <1>1, PipelineAssumption DEF LeaseJob, AgentOK, PCs
  <2>2. QueueOK'
    BY <1>1, PipelineAssumption DEF LeaseJob, Grant, QueueOK, JobStates, LEASE
  <2>3. LateOK' /\ HistoryOK' /\ FlagsOK'
    BY <1>1 DEF LeaseJob, LateOK, HistoryOK, FlagsOK, history
  <2> QED
    BY <2>1, <2>2, <2>3
<1>2. ASSUME NEW j \in Jobs, LeaseLost(n, j) PROVE Types'
  <2>1. AgentOK' /\ LateOK' /\ FlagsOK'
    BY <1>2 DEF LeaseLost, AgentOK, LateOK, FlagsOK, agentVars
  <2>2. QueueOK'
    BY <1>2, PipelineAssumption DEF LeaseLost, Grant, QueueOK, JobStates, LEASE
  <2>3. HistoryOK'
    BY <1>2, FaultCounted DEF LeaseLost, HistoryOK, history
  <2> QED
    BY <2>1, <2>2, <2>3
<1>3. CASE HeartbeatLease(n)
  <2>1. AgentOK' /\ LateOK' /\ HistoryOK' /\ FlagsOK'
    BY <1>3 DEF HeartbeatLease, AgentOK, LateOK, HistoryOK, FlagsOK, agentVars, history
  <2>2. job[n] \in Jobs
    BY <1>3 DEF HeartbeatLease, AgentOK
  <2>3. QueueOK'
    BY <1>3, <2>2 DEF HeartbeatLease, Renew, QueueOK, LEASE
  <2> QED
    BY <2>1, <2>3
<1>4. CASE ForwardEnds(n)
  <2>1. PICK answer \in ProverAnswers(n, job[n]) \cup FaultyAnswers :
          /\ IF answer \in FaultyAnswers THEN Fault ELSE UNCHANGED faults
          /\ outcome' = [outcome EXCEPT ![n] = ForwardKind(answer)]
          /\ answers' = answers \cup ({<<job[n], answer>>} \cap FinalAnswers)
    BY <1>4, Zenon DEF ForwardEnds
  <2>2. ForwardKind(answer) \in Outcomes \ {"none"}
    BY DEF ForwardKind, Outcomes
  <2>3. AgentOK'
    BY <1>4, <2>1, <2>2 DEF ForwardEnds, AgentOK, PCs, DEFAULT_FORWARD_TIMEOUT
  <2>4. HistoryOK'
    BY <1>4, <2>1, FaultCounted DEF ForwardEnds, HistoryOK
  <2>5. QueueOK' /\ LateOK' /\ FlagsOK'
    BY <1>4 DEF ForwardEnds, QueueOK, LateOK, FlagsOK, queueVars
  <2> QED
    BY <2>3, <2>4, <2>5
<1>5. CASE ReportAnswered(n)
  <2>1. QueueOK'
    BY <1>5, ReportTyped, ReceiveTyped DEF ReportAnswered
  <2>2. AgentOK'
    BY <1>5, ForgetTyped DEF ReportAnswered
  <2>3. job[n] \in Jobs
    BY <1>5 DEF ReportAnswered, AgentOK
  <2>4. FinalTrace(n) \subseteq Jobs \X {"succeeded", "failed"}
    BY <2>3 DEF FinalTrace
  <2>5. LateOK' /\ FlagsOK' /\ HistoryOK'
    BY <1>5, <2>4 DEF ReportAnswered, LateOK, FlagsOK, HistoryOK
  <2> QED
    BY <2>1, <2>2, <2>5
<1>6. CASE ReportLost(n)
  <2>1. AgentOK' /\ HistoryOK'
    BY <1>6, AttemptTyped, FaultCounted DEF ReportLost, HistoryOK, history
  <2>2. QueueOK' /\ LateOK' /\ FlagsOK'
    BY <1>6 DEF ReportLost, QueueOK, LateOK, FlagsOK, queueVars
  <2> QED
    BY <2>1, <2>2
<1>7. CASE ReportAnswerLost(n)
  <2>1. AgentOK' /\ HistoryOK'
    BY <1>7, AttemptTyped, FaultCounted DEF ReportAnswerLost, HistoryOK, history
  <2>2. QueueOK'
    BY <1>7, ReportTyped, ReceiveTyped DEF ReportAnswerLost
  <2>3. LateOK' /\ FlagsOK'
    BY <1>7 DEF ReportAnswerLost, LateOK, FlagsOK
  <2> QED
    BY <2>1, <2>2, <2>3
<1>8. CASE ReportDelayed(n)
  <2>1. AgentOK' /\ HistoryOK'
    BY <1>8, AttemptTyped, FaultCounted DEF ReportDelayed, HistoryOK, history
  <2>2. QueueOK' /\ FlagsOK'
    BY <1>8 DEF ReportDelayed, QueueOK, FlagsOK, queueVars
  <2>3. ReportOf(n) \in Reports /\ late' = late \cup {ReportOf(n)}
    BY <1>8, ReportTyped DEF ReportDelayed
  <2>4. /\ IsFiniteSet(late')
        /\ Cardinality(late') \in {Cardinality(late), Cardinality(late) + 1}
    BY <2>3, FS_AddElement DEF LateOK
  <2>5. Cardinality(late) \in Nat /\ Cardinality(late) < MaxLate
    BY <1>8, FS_CardinalityType DEF ReportDelayed, LateOK
  <2>6. Cardinality(late') <= MaxLate
    BY <2>4, <2>5, PipelineAssumption
  <2>7. LateOK'
    BY <2>3, <2>4, <2>6 DEF LateOK, Reports
  <2> QED
    BY <2>1, <2>2, <2>7
<1>9. CASE Stop(n)
  <2>1. AgentOK' /\ QueueOK' /\ LateOK' /\ HistoryOK'
    BY <1>9 DEF Stop, AgentOK, QueueOK, LateOK, HistoryOK, queueVars, history
  <2>2. FlagsOK'
    BY <1>9 DEF Stop, FlagsOK
  <2> QED
    BY <2>1, <2>2
<1>10. CASE LoopEnds(n)
  <2>1. AgentOK'
    BY <1>10 DEF LoopEnds, AgentOK, PCs
  <2>2. QueueOK' /\ LateOK' /\ HistoryOK' /\ FlagsOK'
    BY <1>10 DEF LoopEnds, QueueOK, LateOK, HistoryOK, FlagsOK, queueVars, history
  <2> QED
    BY <2>1, <2>2
<1>11. CASE Crash(n)
  <2>1. AgentOK' /\ HistoryOK'
    BY <1>11, ForgetTyped, FaultCounted DEF Crash, HistoryOK, history
  <2>2. QueueOK' /\ LateOK' /\ FlagsOK'
    BY <1>11 DEF Crash, QueueOK, LateOK, FlagsOK, queueVars
  <2> QED
    BY <2>1, <2>2
<1>12. CASE Restart(n)
  <2>1. AgentOK' /\ FlagsOK'
    BY <1>12 DEF Restart, AgentOK, FlagsOK, PCs
  <2>2. QueueOK' /\ LateOK' /\ HistoryOK'
    BY <1>12 DEF Restart, QueueOK, LateOK, HistoryOK, queueVars, history
  <2> QED
    BY <2>1, <2>2
<1>13. CASE GpuFails(n) \/ GpuReturns(n)
  <2>1. AgentOK' /\ QueueOK' /\ LateOK' /\ FlagsOK'
    BY <1>13, Zenon DEF GpuFails, GpuReturns, AgentOK, QueueOK, LateOK, FlagsOK, agentVars, queueVars
  <2>2. HistoryOK'
    BY <1>13, FaultCounted DEF GpuFails, GpuReturns, HistoryOK, history
  <2> QED
    BY <2>1, <2>2
<1> QED
    BY <1>1, <1>2, <1>3, <1>4, <1>5, <1>6, <1>7, <1>8, <1>9, <1>10, <1>11, <1>12, <1>13 DEF Step

\* So does every other step.
LEMMA TypesNext == Types /\ [Next]_vars => Types'
<1> SUFFICES ASSUME Types, [Next]_vars PROVE Types'
    OBVIOUS
<1> USE DEF Types
<1>1. ASSUME NEW j \in Jobs, Expire(j) PROVE Types'
  <2>1. AgentOK' /\ LateOK' /\ HistoryOK' /\ FlagsOK'
    BY <1>1 DEF Expire, AgentOK, LateOK, HistoryOK, FlagsOK, agentVars, history
  <2>2. QueueOK'
    BY <1>1 DEF Expire, QueueOK, JobStates, LEASE
  <2> QED
    BY <2>1, <2>2
<1>2. ASSUME NEW r \in late, DeliverLate(r) PROVE Types'
  <2>1. AgentOK' /\ FlagsOK'
    BY <1>2 DEF DeliverLate, AgentOK, FlagsOK, agentVars
  <2>2. r \in Reports /\ r.job \in Jobs
    BY DEF LateOK, Reports
  <2>3. QueueOK'
    BY <1>2, <2>2, ReceiveTyped DEF DeliverLate
  <2>4. HistoryOK'
    BY <1>2, <2>2 DEF DeliverLate, HistoryOK
  <2>5. late' = late \ {r} /\ Cardinality(late) \in Nat
    BY <1>2, FS_CardinalityType DEF DeliverLate, LateOK
  <2>6. IsFiniteSet(late') /\ Cardinality(late') = Cardinality(late) - 1
    BY <2>5, FS_RemoveElement DEF LateOK
  <2>7. LateOK'
    BY <2>5, <2>6, PipelineAssumption DEF LateOK, Reports
  <2> QED
    BY <2>1, <2>3, <2>4, <2>7
<1>3. CASE Tick
  <2>1. AgentOK'
    BY <1>3 DEF Tick, AgentOK, DEFAULT_FORWARD_TIMEOUT
  <2>2. QueueOK'
    <3>1. state' = state /\ holder' = holder
      BY <1>3, Zenon DEF Tick
    <3>2. ASSUME NEW j \in Jobs
          PROVE  (IF state[j] = "leased" THEN age[j] + 1 ELSE age[j]) \in 0..LEASE
      <4>1. (state[j] = "leased" => age[j] < LEASE) /\ age[j] \in 0..LEASE
        BY <1>3, Zenon DEF Tick, QueueOK
      <4> QED
        BY <4>1 DEF LEASE
    <3>3. age' \in [Jobs -> 0..LEASE]
      BY <1>3, <3>2, Zenon DEF Tick
    <3> QED
      BY <3>1, <3>3, Zenon DEF QueueOK
  <2>3. LateOK' /\ FlagsOK'
    BY <1>3 DEF Tick, LateOK, FlagsOK
  <2>4. HistoryOK'
    BY <1>3, FaultCounted DEF Tick, HistoryOK, history
  <2> QED
    BY <2>1, <2>2, <2>3, <2>4
<1>4. CASE UNCHANGED vars
    BY <1>4 DEF vars, agentVars, queueVars, history, AgentOK, QueueOK, LateOK, HistoryOK, FlagsOK
<1> QED
    BY <1>1, <1>2, <1>3, <1>4, StepTypes DEF Next

\* The agents, the queue and the calls between them never leave their types: an
\* agent has a job exactly while it works on it or reports it, and makes at most
\* REPORT_ATTEMPTS attempts.
THEOREM PipelineTypes == Spec => []TypeOK
<1>1. Types => TypeOK
    BY DEF Types, TypeOK, AgentOK, QueueOK, LateOK, HistoryOK, FlagsOK
<1> QED
    BY <1>1, TypesInit, TypesNext, PTL DEF Spec

-----------------------------------------------------------------------------
(* One prover per job *)

\* A working agent holds the lease of its job, which is no older than the
\* forward it runs, unless a late report ended that lease.
Leased(n) == Holds(n, job[n]) /\ age[job[n]] <= elapsed[n]
LeaseInv == \A n \in Nodes : pc[n] = "work" => job[n] \in upset \/ Leased(n)

\* The lease of j is still the one that m holds, and as old.
SameLease(m, j) == state'[j] = "leased" /\ holder'[j] = m /\ age'[j] = age[j]

\* A report of one agent does not end the lease of another.
LEMMA ReceiveKeepsLease ==
    ASSUME QueueOK, NEW r \in Reports, Receive(r), NEW m \in Nodes, NEW j \in Jobs,
           Holds(m, j), ~(Holds(r.node, r.job) /\ r.node = m /\ r.job = j)
    PROVE  SameLease(m, j)
<1>1. CASE ~Holds(r.node, r.job)
  <2>1. state' = state /\ holder' = holder /\ age' = age
    BY <1>1, Zenon DEF Receive, queueVars
  <2> QED
    BY <2>1, Zenon DEF SameLease, Holds
<1>2. CASE Holds(r.node, r.job)
  <2>1. r.job # j
    BY <1>2, Zenon DEF Holds
  <2>2. /\ state'[j] = state[j]
        /\ holder'[j] = holder[j]
        /\ age'[j] = age[j]
    BY <1>2, <2>1, Zenon DEF Receive, QueueOK
  <2> QED
    BY <2>2, Zenon DEF SameLease, Holds
<1> QED
    BY <1>1, <1>2, Zenon

\* Nor does a lease granted on another job.
LEMMA GrantKeepsLease ==
    ASSUME QueueOK, NEW n \in Nodes, NEW i \in Jobs, Grant(n, i), NEW m \in Nodes, NEW j \in Jobs,
           Holds(m, j)
    PROVE  SameLease(m, j)
<1>1. i # j
    BY DEF Grant, Holds
<1> QED
    BY <1>1, Zenon DEF Grant, QueueOK, Holds, SameLease

\* Nor a step that leaves the queue alone.
LEMMA QuietKeepsLease ==
    ASSUME UNCHANGED queueVars, NEW m \in Nodes, NEW j \in Jobs, Holds(m, j)
    PROVE  SameLease(m, j)
    BY Zenon DEF queueVars, Holds, SameLease

\* An agent that goes on working on its job, under the same lease.
LEMMA LeaseKept ==
    ASSUME LeaseInv, NEW m \in Nodes, pc[m] = "work",
           job'[m] = job[m], elapsed'[m] = elapsed[m], upset \subseteq upset',
           Holds(m, job[m]) => SameLease(m, job[m])
    PROVE  (job[m] \in upset \/ Leased(m))'
<1>1. CASE job[m] \in upset
    BY <1>1, Zenon
<1>2. CASE Leased(m)
    BY <1>2, Zenon DEF Leased, Holds, SameLease
<1> QED
    BY <1>1, <1>2, Zenon DEF LeaseInv

\* A working agent has a job.
LEMMA WorkerHasJob ==
    ASSUME AgentOK, NEW m \in Nodes, pc[m] = "work"
    PROVE  job[m] \in Jobs /\ elapsed[m] \in 0..2
    BY DEF AgentOK, DEFAULT_FORWARD_TIMEOUT

\* What a step of one agent does to the lease of another, or of itself.
LEMMA LeaseStep ==
    ASSUME Types, LeaseInv, NEW n \in Nodes, Step(n), NEW m \in Nodes, pc'[m] = "work"
    PROVE  (job[m] \in upset \/ Leased(m))'
<1>0. AgentOK /\ QueueOK
    BY Zenon DEF Types
<1>1. ASSUME NEW j \in Jobs, LeaseJob(n, j) PROVE (job[m] \in upset \/ Leased(m))'
  <2>1. Grant(n, j)
    BY <1>1, Zenon DEF LeaseJob
  <2>2. CASE m = n
    <3>1. pc[n] = "loop" /\ job'[n] = j /\ elapsed'[n] = elapsed[n] /\ elapsed[n] \in 0..2
      BY <1>0, <1>1 DEF LeaseJob, AgentOK, DEFAULT_FORWARD_TIMEOUT
    <3>2. state'[j] = "leased" /\ holder'[j] = n /\ age'[j] = 0
      BY <1>0, <2>1, Zenon DEF Grant, QueueOK
    <3>3. age'[j] <= elapsed'[n]
      BY <3>1, <3>2
    <3> QED
      BY <2>2, <3>1, <3>2, <3>3, Zenon DEF Leased, Holds
  <2>3. CASE m # n
    <3>1. /\ pc[m] = "work" /\ job'[m] = job[m] /\ elapsed'[m] = elapsed[m]
          /\ upset' = upset
      BY <1>0, <1>1, <2>3, Zenon DEF LeaseJob, AgentOK, history
    <3>2. job[m] \in Jobs
      BY <1>0, <3>1, WorkerHasJob, Zenon
    <3>3. Holds(m, job[m]) => SameLease(m, job[m])
      BY <1>0, <2>1, <3>2, GrantKeepsLease, Zenon
    <3> QED
      BY <3>1, <3>3, LeaseKept, Zenon
  <2> QED
    BY <2>2, <2>3, Zenon
<1>2. ASSUME NEW j \in Jobs, LeaseLost(n, j) PROVE (job[m] \in upset \/ Leased(m))'
  <2>1. Grant(n, j) /\ pc' = pc /\ job' = job /\ elapsed' = elapsed /\ upset' = upset
    BY <1>2, Zenon DEF LeaseLost, agentVars, history
  <2>2. pc[m] = "work"
    BY <2>1, Zenon
  <2>3. job[m] \in Jobs
    BY <1>0, <2>2, WorkerHasJob, Zenon
  <2>4. Holds(m, job[m]) => SameLease(m, job[m])
    BY <1>0, <2>1, <2>3, GrantKeepsLease, Zenon
  <2> QED
    BY <2>1, <2>2, <2>4, LeaseKept, Zenon
<1>3. CASE HeartbeatLease(n)
  <2>1. /\ pc' = pc /\ job' = job /\ elapsed' = elapsed /\ upset' = upset
        /\ pc[n] = "work" /\ Renew(n, job[n])
    BY <1>3, Zenon DEF HeartbeatLease, agentVars, history
  <2>2. pc[m] = "work"
    BY <2>1, Zenon
  <2>3. job[m] \in Jobs /\ elapsed[m] \in 0..2 /\ job[n] \in Jobs
    BY <1>0, <2>1, <2>2, WorkerHasJob, Zenon
  <2>4. CASE job[m] \in upset
    BY <2>1, <2>4, Zenon
  <2>5. CASE Leased(m)
    <3>1. state' = state /\ holder' = holder /\ age' = [age EXCEPT ![job[n]] = 0]
      BY <2>1, Zenon DEF Renew
    <3>2. CASE job[m] = job[n]
      <4>1. age'[job[m]] <= elapsed[m]
        BY <1>0, <2>3, <3>1, <3>2 DEF QueueOK
      <4> QED
        BY <2>1, <2>5, <3>1, <4>1, Zenon DEF Leased, Holds
    <3>3. CASE job[m] # job[n]
      <4>1. age'[job[m]] = age[job[m]]
        BY <1>0, <2>3, <3>1, <3>3, Zenon DEF QueueOK
      <4> QED
        BY <2>1, <2>5, <3>1, <4>1, Zenon DEF Leased, Holds
    <3> QED
      BY <3>2, <3>3, Zenon
  <2> QED
    BY <2>2, <2>4, <2>5, Zenon DEF LeaseInv
<1>4. CASE \/ ForwardEnds(n) \/ ReportLost(n) \/ ReportDelayed(n) \/ Stop(n) \/ LoopEnds(n)
           \/ Crash(n) \/ Restart(n) \/ GpuFails(n) \/ GpuReturns(n)
  <2>1. UNCHANGED queueVars /\ upset' = upset
    BY <1>4, Zenon DEF ForwardEnds, ReportLost, ReportDelayed, Stop, LoopEnds, Crash, Restart,
                       GpuFails, GpuReturns, history
  <2>2. pc[m] = "work" /\ job'[m] = job[m] /\ elapsed'[m] = elapsed[m]
    <3>1. CASE ForwardEnds(n)
      <4>1. m # n
        BY <1>0, <3>1 DEF ForwardEnds, AgentOK
      <4> QED
        BY <1>0, <3>1, <4>1, Zenon DEF ForwardEnds, AgentOK
    <3>2. CASE ReportLost(n) \/ ReportDelayed(n)
      <4>1. AttemptFails(n)
        BY <3>2, Zenon DEF ReportLost, ReportDelayed
      <4> QED
        BY <1>0, <4>1, AttemptSpares, Zenon
    <3>3. CASE Crash(n)
      <4>1. Forget(n, "down")
        BY <3>3, Zenon DEF Crash
      <4> QED
        BY <1>0, <4>1, ForgetSpares, Zenon
    <3>4. CASE LoopEnds(n) \/ Restart(n)
      <4>1. m # n
        BY <1>0, <3>4 DEF LoopEnds, Restart, AgentOK
      <4> QED
        BY <1>0, <3>4, <4>1, Zenon DEF LoopEnds, Restart, AgentOK
    <3>5. CASE Stop(n) \/ GpuFails(n) \/ GpuReturns(n)
      BY <3>5, Zenon DEF Stop, GpuFails, GpuReturns, agentVars
    <3> QED
      BY <1>4, <3>1, <3>2, <3>3, <3>4, <3>5, Zenon
  <2>3. job[m] \in Jobs
    BY <1>0, <2>2, WorkerHasJob, Zenon
  <2>4. Holds(m, job[m]) => SameLease(m, job[m])
    BY <2>1, <2>3, QuietKeepsLease, Zenon
  <2> QED
    BY <2>1, <2>2, <2>4, LeaseKept, Zenon
<1>5. CASE ReportAnswered(n) \/ ReportAnswerLost(n)
  <2>1. pc[n] = "report" /\ Receive(ReportOf(n)) /\ upset' = upset
    BY <1>5, Zenon DEF ReportAnswered, ReportAnswerLost, history
  <2>2. pc[m] = "work" /\ job'[m] = job[m] /\ elapsed'[m] = elapsed[m]
    <3>1. CASE ReportAnswered(n)
      <4>1. Forget(n, "loop")
        BY <3>1, Zenon DEF ReportAnswered
      <4> QED
        BY <1>0, <4>1, ForgetSpares, Zenon
    <3>2. CASE ReportAnswerLost(n)
      <4>1. AttemptFails(n)
        BY <3>2, Zenon DEF ReportAnswerLost
      <4> QED
        BY <1>0, <4>1, AttemptSpares, Zenon
    <3> QED
      BY <1>5, <3>1, <3>2, Zenon
  <2>3. job[m] \in Jobs /\ m # n
    BY <1>0, <2>1, <2>2, WorkerHasJob, Zenon
  <2>4. ReportOf(n) \in Reports
    BY <1>0, <2>1, ReportTyped, Zenon
  <2>5. ReportOf(n).node = n
    BY DEF ReportOf
  <2>6. Holds(m, job[m]) => SameLease(m, job[m])
    BY <1>0, <2>1, <2>3, <2>4, <2>5, ReceiveKeepsLease, Zenon
  <2> QED
    BY <2>1, <2>2, <2>6, LeaseKept, Zenon
<1> QED
    BY <1>1, <1>2, <1>3, <1>4, <1>5, Zenon DEF Step

\* The lease of a working agent does not expire under its forward.
LEMMA LeaseNext == Types /\ LeaseInv /\ [Next]_vars => LeaseInv'
<1> SUFFICES ASSUME Types, LeaseInv, [Next]_vars, NEW m \in Nodes, pc'[m] = "work"
             PROVE  (job[m] \in upset \/ Leased(m))'
    BY Zenon DEF LeaseInv
<1>0. AgentOK /\ QueueOK /\ LateOK
    BY Zenon DEF Types
<1>1. ASSUME NEW j \in Jobs, Expire(j) PROVE (job[m] \in upset \/ Leased(m))'
  <2>1. pc' = pc /\ job' = job /\ elapsed' = elapsed /\ upset' = upset
    BY <1>1, Zenon DEF Expire, agentVars, history
  <2>2. pc[m] = "work"
    BY <2>1, Zenon
  <2>3. job[m] \in Jobs /\ elapsed[m] \in 0..2
    BY <1>0, <2>2, WorkerHasJob, Zenon
  <2>4. CASE job[m] = j
    <3>1. age[j] = 3
      BY <1>1, Zenon DEF Expire, LEASE
    <3>2. ~Leased(m)
      <4>1. ~(age[job[m]] <= elapsed[m])
        BY <2>3, <2>4, <3>1
      <4> QED
        BY <4>1, Zenon DEF Leased
    <3> QED
      BY <2>1, <2>2, <3>2, Zenon DEF LeaseInv
  <2>5. CASE job[m] # j
    <3>1. /\ state'[job[m]] = state[job[m]]
          /\ holder'[job[m]] = holder[job[m]]
          /\ age'[job[m]] = age[job[m]]
      BY <1>0, <1>1, <2>3, <2>5, Zenon DEF Expire, QueueOK
    <3>2. Holds(m, job[m]) => SameLease(m, job[m])
      BY <3>1, Zenon DEF Holds, SameLease
    <3> QED
      BY <2>1, <2>2, <3>2, LeaseKept, Zenon
  <2> QED
    BY <2>4, <2>5, Zenon
<1>2. ASSUME NEW r \in late, DeliverLate(r) PROVE (job[m] \in upset \/ Leased(m))'
  <2>1. pc' = pc /\ job' = job /\ elapsed' = elapsed /\ Receive(r)
    BY <1>2, Zenon DEF DeliverLate, agentVars
  <2>2. pc[m] = "work"
    BY <2>1, Zenon
  <2>3. job[m] \in Jobs /\ r \in Reports
    BY <1>0, <2>2, WorkerHasJob, Zenon DEF LateOK
  <2>4. CASE Holds(r.node, r.job) /\ r.node = m /\ r.job = job[m]
    <3>1. r.job \in upset'
      BY <1>2, <2>4, Zenon DEF DeliverLate
    <3> QED
      BY <2>1, <2>4, <3>1, Zenon
  <2>5. CASE ~(Holds(r.node, r.job) /\ r.node = m /\ r.job = job[m])
    <3>1. Holds(m, job[m]) => SameLease(m, job[m])
      BY <1>0, <2>1, <2>3, <2>5, ReceiveKeepsLease, Zenon
    <3>2. upset \subseteq upset'
      BY <1>2, Zenon DEF DeliverLate
    <3> QED
      BY <2>1, <2>2, <3>1, <3>2, LeaseKept, Zenon
  <2> QED
    BY <2>4, <2>5, Zenon
<1>3. CASE Tick
  <2>1. pc' = pc /\ job' = job /\ state' = state /\ holder' = holder /\ upset' = upset
    BY <1>3, Zenon DEF Tick, history
  <2>2. pc[m] = "work"
    BY <2>1, Zenon
  <2>3. job[m] \in Jobs /\ elapsed[m] \in 0..2
    BY <1>0, <2>2, WorkerHasJob, Zenon
  <2>4. elapsed'[m] = elapsed[m] + 1
    BY <1>3, <2>2, Zenon DEF Tick
  <2>5. CASE job[m] \in upset
    BY <2>1, <2>5, Zenon
  <2>6. CASE Leased(m)
    <3>1. /\ state[job[m]] = "leased" /\ holder[job[m]] = m
          /\ age[job[m]] <= elapsed[m]
      BY <2>6, Zenon DEF Leased, Holds
    <3>2. age'[job[m]] = age[job[m]] + 1
      BY <1>3, <2>3, <3>1, Zenon DEF Tick
    <3>3. age[job[m]] \in 0..3
      BY <1>0, <2>3, Zenon DEF QueueOK, LEASE
    <3>4. age'[job[m]] <= elapsed'[m]
      BY <2>3, <2>4, <3>1, <3>2, <3>3
    <3> QED
      BY <2>1, <3>1, <3>4, Zenon DEF Leased, Holds
  <2> QED
    BY <2>2, <2>5, <2>6, Zenon DEF LeaseInv
<1>4. CASE UNCHANGED vars
  <2>1. /\ pc' = pc /\ job' = job /\ elapsed' = elapsed /\ upset' = upset
        /\ UNCHANGED queueVars
    BY <1>4, Zenon DEF vars, agentVars, queueVars, history
  <2>2. pc[m] = "work"
    BY <2>1, Zenon
  <2>3. job[m] \in Jobs
    BY <1>0, <2>2, WorkerHasJob, Zenon
  <2>4. Holds(m, job[m]) => SameLease(m, job[m])
    BY <2>1, <2>3, QuietKeepsLease, Zenon
  <2> QED
    BY <2>1, <2>2, <2>4, LeaseKept, Zenon
<1> QED
    BY <1>1, <1>2, <1>3, <1>4, LeaseStep, Zenon DEF Next

\* Crashes, lost calls, stops and expiry never make two agents prove one job at a
\* time: the forward timeout is below the lease (local-prover.ts:31).
THEOREM OneProver == Spec => []NoDoubleProving
<1>1. Init => LeaseInv
    BY DEF Init, LeaseInv
<1>2. Types /\ LeaseInv => NoDoubleProving
  <2> SUFFICES ASSUME Types, LeaseInv,
                      NEW m \in Nodes, NEW n \in Nodes, m # n,
                      pc[m] = "work", pc[n] = "work", job[m] = job[n]
               PROVE  job[m] \in upset
    BY Zenon DEF NoDoubleProving
  <2>1. Leased(m) => holder[job[m]] = m
    BY Zenon DEF Leased, Holds
  <2>2. Leased(n) => holder[job[m]] = n
    BY Zenon DEF Leased, Holds
  <2> QED
    BY <2>1, <2>2, Zenon DEF LeaseInv
<1> QED
    BY <1>1, <1>2, TypesInit, TypesNext, LeaseNext, PTL DEF Spec

-----------------------------------------------------------------------------
(* Settled jobs *)

Final == {"done", "failed"}

\* A report settles only a job that is leased.
LEMMA ReceiveSettles ==
    ASSUME QueueOK, NEW r \in Reports, Receive(r)
    PROVE  /\ \A j \in Jobs : state[j] \in Final => state'[j] = state[j]
           /\ Holds(r.node, r.job) /\ r.outcome = "ok" => state'[r.job] = "done"
           /\ Holds(r.node, r.job) /\ r.outcome = "rejected" => state'[r.job] = "failed"
<1>1. r.job \in Jobs
    BY DEF Reports
<1>2. CASE ~Holds(r.node, r.job)
    BY <1>2 DEF Receive, queueVars
<1>3. CASE Holds(r.node, r.job)
    BY <1>1, <1>3, SMTT(30) DEF Receive, Holds, QueueOK, Final
<1> QED
    BY <1>2, <1>3

\* A settled job stays settled, whatever happens.
LEMMA FinalStays ==
    ASSUME Types, [Next]_vars, NEW j \in Jobs, state[j] \in Final
    PROVE  state'[j] = state[j]
<1> USE DEF Types
<1>1. ASSUME NEW n \in Nodes, NEW i \in Jobs, LeaseJob(n, i) \/ LeaseLost(n, i)
      PROVE  state'[j] = state[j]
  <2>1. Grant(n, i)
    BY <1>1, Zenon DEF LeaseJob, LeaseLost
  <2>2. i # j
    BY <2>1 DEF Grant, Final
  <2> QED
    BY <2>1, <2>2, Zenon DEF Grant, QueueOK
<1>2. ASSUME NEW n \in Nodes, ReportAnswered(n) \/ ReportAnswerLost(n)
      PROVE  state'[j] = state[j]
  <2>1. Receive(ReportOf(n)) /\ pc[n] = "report"
    BY <1>2, Zenon DEF ReportAnswered, ReportAnswerLost
  <2>2. ReportOf(n) \in Reports
    BY <2>1, ReportTyped, Zenon
  <2> QED
    BY <2>1, <2>2, ReceiveSettles, Zenon
<1>3. ASSUME NEW i \in Jobs, Expire(i) PROVE state'[j] = state[j]
    BY <1>3 DEF Expire, QueueOK, Final
<1>4. ASSUME NEW r \in late, DeliverLate(r) PROVE state'[j] = state[j]
    BY <1>4, ReceiveSettles, Zenon DEF DeliverLate, LateOK
<1>5. ASSUME NEW n \in Nodes,
             \/ HeartbeatLease(n) \/ ForwardEnds(n) \/ ReportLost(n) \/ ReportDelayed(n)
             \/ Stop(n) \/ LoopEnds(n) \/ Crash(n) \/ Restart(n) \/ GpuFails(n) \/ GpuReturns(n)
      PROVE  state'[j] = state[j]
    BY <1>5, ZenonT(30) DEF HeartbeatLease, Renew, ForwardEnds, ReportLost, ReportDelayed, Stop, LoopEnds,
                Crash, Restart, GpuFails, GpuReturns, queueVars
<1>6. CASE Tick \/ UNCHANGED vars
    BY <1>6, Zenon DEF Tick, vars, queueVars
<1> QED
    BY <1>1, <1>2, <1>3, <1>4, <1>5, <1>6, Zenon DEF Next, Step

\* A trace becomes final only when the queue acknowledges it.
LEMMA TraceNext == Types /\ TraceTruthful /\ [Next]_vars => TraceTruthful'
<1> SUFFICES ASSUME Types, TraceTruthful, [Next]_vars,
                    NEW j \in Jobs
             PROVE  /\ <<j, "succeeded">> \in traced' => state'[j] = "done"
                    /\ <<j, "failed">> \in traced' => state'[j] = "failed"
    BY Zenon DEF TraceTruthful
<1>0. /\ <<j, "succeeded">> \in traced => state'[j] = "done"
      /\ <<j, "failed">> \in traced => state'[j] = "failed"
    BY FinalStays DEF TraceTruthful, Final
<1>1. ASSUME NEW n \in Nodes, ReportAnswered(n)
      PROVE  /\ <<j, "succeeded">> \in FinalTrace(n) => state'[j] = "done"
             /\ <<j, "failed">> \in FinalTrace(n) => state'[j] = "failed"
  <2>1. Receive(ReportOf(n)) /\ ReportOf(n) \in Reports /\ QueueOK
    BY <1>1, ReportTyped DEF ReportAnswered, Types
  <2>2. /\ ReportOf(n).node = n /\ ReportOf(n).job = job[n]
        /\ ReportOf(n).outcome = outcome[n]
    BY DEF ReportOf
  <2>3. CASE j # job[n]
    BY <2>3 DEF FinalTrace
  <2>4. CASE j = job[n] /\ Holds(n, j)
    BY <2>1, <2>2, <2>4, ReceiveSettles DEF FinalTrace
  <2>5. CASE j = job[n] /\ ~Holds(n, j)
    BY <2>1, <2>2, <2>5, ReceiveSettles, SMTT(30) DEF FinalTrace, Acknowledged, Final
  <2> QED
    BY <2>3, <2>4, <2>5
<1>2. traced' = traced \/ \E n \in Nodes : ReportAnswered(n) /\ traced' = traced \cup FinalTrace(n)
    BY DEF Next, Step, LeaseJob, LeaseLost, HeartbeatLease, ForwardEnds, ReportAnswered,
           ReportLost, ReportAnswerLost, ReportDelayed, Stop, LoopEnds, Crash, Restart, GpuFails,
           GpuReturns, Expire, DeliverLate, Tick, history, vars
<1> QED
    BY <1>0, <1>1, <1>2, SMTT(30)

\* What an owner reads in a final trace is what the queue settled, whatever happens
\* to the lease, the reports and the node afterwards (agent.ts, jobTrace).
THEOREM TracesTrue == Spec => []TraceTruthful
<1>1. Init => TraceTruthful
    BY DEF Init, TraceTruthful
<1> QED
    BY <1>1, TypesInit, TypesNext, TraceNext, PTL DEF Spec

-----------------------------------------------------------------------------
(* The pipeline implements the ledger *)

\* An outcome to report was a prover's answer.
Backed(j, o) ==
    /\ o = "ok" => <<j, "200">> \in answers
    /\ o = "rejected" => <<j, "400">> \in answers

Evidence ==
    /\ \A n \in Nodes : pc[n] = "report" => Backed(job[n], outcome[n])
    /\ \A r \in late : Backed(r.job, r.outcome)

\* Evidence outlives a step that reports nothing new.
LEMMA EvidenceKept ==
    ASSUME Evidence, answers' = answers, late' \subseteq late,
           \A m \in Nodes : pc'[m] = "report" =>
             pc[m] = "report" /\ job'[m] = job[m] /\ outcome'[m] = outcome[m]
    PROVE  Evidence'
<1>1. ASSUME NEW m \in Nodes, pc'[m] = "report" PROVE Backed(job[m], outcome[m])'
    BY <1>1, Zenon DEF Evidence, Backed
<1>2. ASSUME NEW r \in late' PROVE Backed(r.job, r.outcome)'
    BY <1>2, Zenon DEF Evidence, Backed
<1> QED
    BY <1>1, <1>2, Zenon DEF Evidence

\* Outcomes and late reports keep their evidence.
LEMMA EvidenceNext == Types /\ Evidence /\ [Next]_vars => Evidence'
<1> SUFFICES ASSUME Types, Evidence, [Next]_vars PROVE Evidence'
    OBVIOUS
<1> USE DEF Types
<1>1. ASSUME NEW n \in Nodes, ForwardEnds(n) PROVE Evidence'
  <2>1. PICK answer \in ProverAnswers(n, job[n]) \cup FaultyAnswers :
          /\ outcome' = [outcome EXCEPT ![n] = ForwardKind(answer)]
          /\ answers' = answers \cup ({<<job[n], answer>>} \cap FinalAnswers)
    BY <1>1, Zenon DEF ForwardEnds
  <2>2. job[n] \in Jobs /\ job' = job /\ late' = late
    BY <1>1 DEF ForwardEnds, AgentOK
  <2>3. /\ ForwardKind(answer) = "ok" => answer = "200"
        /\ ForwardKind(answer) = "rejected" => answer = "400"
    BY DEF ForwardKind
  <2>4. Backed(job[n], ForwardKind(answer))'
    BY <2>1, <2>2, <2>3 DEF Backed, FinalAnswers
  <2>5. ASSUME NEW m \in Nodes, pc'[m] = "report" PROVE Backed(job[m], outcome[m])'
    <3>1. CASE m = n
      BY <2>1, <2>2, <2>4, <3>1 DEF AgentOK
    <3>2. CASE m # n
      <4>1. pc[m] = "report" /\ job'[m] = job[m] /\ outcome'[m] = outcome[m]
        BY <1>1, <2>1, <2>2, <2>5, <3>2, Zenon DEF ForwardEnds, AgentOK
      <4>2. Backed(job[m], outcome[m])
        BY <4>1, Zenon DEF Evidence
      <4>3. answers \subseteq answers'
        BY <2>1, Zenon
      <4> QED
        BY <4>1, <4>2, <4>3, Zenon DEF Backed
    <3> QED
      BY <3>1, <3>2
  <2>6. ASSUME NEW r \in late PROVE Backed(r.job, r.outcome)'
    BY <2>1, <2>6 DEF Evidence, Backed
  <2> QED
    BY <2>2, <2>5, <2>6 DEF Evidence
<1>2. ASSUME NEW n \in Nodes, ReportDelayed(n) PROVE Evidence'
  <2>1. answers' = answers /\ late' = late \cup {ReportOf(n)} /\ pc[n] = "report"
    BY <1>2 DEF ReportDelayed, history
  <2>2. Backed(ReportOf(n).job, ReportOf(n).outcome)
    BY <2>1 DEF ReportOf, Evidence
  <2>3. ASSUME NEW m \in Nodes, pc'[m] = "report"
        PROVE  pc[m] = "report" /\ job'[m] = job[m] /\ outcome'[m] = outcome[m]
    BY <1>2, <2>3, AttemptSpares, Zenon DEF ReportDelayed
  <2> QED
    BY <2>1, <2>2, <2>3 DEF Evidence, Backed
<1>3. ASSUME NEW n \in Nodes,
             ReportAnswered(n) \/ ReportLost(n) \/ ReportAnswerLost(n) \/ Crash(n)
      PROVE  Evidence'
  <2>1. answers' = answers /\ late' = late
    BY <1>3, Zenon DEF ReportAnswered, ReportLost, ReportAnswerLost, Crash, history
  <2>2. Forget(n, "loop") \/ Forget(n, "down") \/ AttemptFails(n)
    BY <1>3, Zenon DEF ReportAnswered, ReportLost, ReportAnswerLost, Crash
  <2>3. ASSUME NEW m \in Nodes, pc'[m] = "report"
        PROVE  pc[m] = "report" /\ job'[m] = job[m] /\ outcome'[m] = outcome[m]
    BY <2>2, <2>3, ForgetSpares, AttemptSpares, Zenon
  <2> QED
    BY <2>1, <2>3, EvidenceKept, Zenon
<1>4. ASSUME NEW n \in Nodes, NEW j \in Jobs, LeaseJob(n, j) PROVE Evidence'
    BY <1>4, Zenon DEF LeaseJob, Evidence, Backed, AgentOK, history
<1>5. ASSUME NEW n \in Nodes, LoopEnds(n) \/ Restart(n) PROVE Evidence'
  <2>1. answers' = answers /\ late' = late /\ job' = job /\ outcome' = outcome
    BY <1>5, Zenon DEF LoopEnds, Restart, history
  <2>2. ASSUME NEW m \in Nodes, pc'[m] = "report" PROVE pc[m] = "report"
    BY <1>5, <2>2 DEF LoopEnds, Restart, AgentOK
  <2> QED
    BY <2>1, <2>2, EvidenceKept, Zenon
<1>6. ASSUME NEW j \in Jobs, Expire(j) \/ \E n \in Nodes : LeaseLost(n, j)
      PROVE  Evidence'
  <2>1. /\ answers' = answers /\ late' = late
        /\ pc' = pc /\ job' = job /\ outcome' = outcome
    BY <1>6, Zenon DEF LeaseLost, Expire, agentVars, history
  <2> QED
    BY <2>1, EvidenceKept, Zenon
<1>7. ASSUME NEW r \in late, DeliverLate(r) PROVE Evidence'
  <2>1. /\ answers' = answers /\ late' \subseteq late
        /\ pc' = pc /\ job' = job /\ outcome' = outcome
    BY <1>7, Zenon DEF DeliverLate, agentVars
  <2> QED
    BY <2>1, EvidenceKept, Zenon
<1>8. ASSUME NEW n \in Nodes,
             HeartbeatLease(n) \/ Stop(n) \/ GpuFails(n) \/ GpuReturns(n)
      PROVE  Evidence'
  <2>1. /\ answers' = answers /\ late' = late
        /\ pc' = pc /\ job' = job /\ outcome' = outcome
    BY <1>8, Zenon DEF HeartbeatLease, Stop, GpuFails, GpuReturns, agentVars, history
  <2> QED
    BY <2>1, EvidenceKept, Zenon
<1>9. CASE Tick \/ UNCHANGED vars
  <2>1. /\ answers' = answers /\ late' = late
        /\ pc' = pc /\ job' = job /\ outcome' = outcome
    BY <1>9, Zenon DEF Tick, vars, agentVars, history
  <2> QED
    BY <2>1, EvidenceKept, Zenon
<1> QED
    BY <1>1, <1>2, <1>3, <1>4, <1>5, <1>6, <1>7, <1>8, <1>9, Zenon DEF Next, Step

\* A step that neither answers a job nor settles one is invisible in the ledger.
LEMMA Stutters ==
    ASSUME answers' = answers,
           \A j \in Jobs : \/ state'[j] = state[j]
                           \/ {state[j], state'[j]} \subseteq {"queued", "leased"}
    PROVE  UNCHANGED Ledger!ledgerVars
<1>1. \A j \in Jobs : (IF state[j] \in {"queued", "leased"} THEN "open" ELSE state[j])
                     = (IF state'[j] \in {"queued", "leased"} THEN "open" ELSE state'[j])
    OBVIOUS
<1> QED
    BY <1>1 DEF Ledger!ledgerVars

\* A report that the queue receives settles its job in the ledger, or nothing.
LEMMA ReceiveRefines ==
    ASSUME QueueOK, NEW r \in Reports, Receive(r), Backed(r.job, r.outcome), answers' = answers
    PROVE  [Ledger!Next]_Ledger!ledgerVars
<1>1. r.job \in Jobs /\ r.outcome \in {"ok", "rejected", "unavailable"}
    BY DEF Reports, Outcomes
<1>2. CASE ~Holds(r.node, r.job)
    BY <1>2, Stutters DEF Receive, queueVars
<1>3. CASE Holds(r.node, r.job) /\ r.outcome = "unavailable"
  <2>1. state[r.job] = "leased" /\ state' = [state EXCEPT ![r.job] = "queued"]
    BY <1>3 DEF Receive, Holds
  <2> QED
    BY <1>1, <2>1, Stutters DEF QueueOK
<1>4. CASE Holds(r.node, r.job) /\ r.outcome = "ok"
  <2>1. state[r.job] = "leased" /\ state' = [state EXCEPT ![r.job] = "done"]
    BY <1>4 DEF Receive, Holds
  <2>2. <<r.job, "200">> \in answers
    BY <1>4 DEF Backed
  <2> QED
    BY <1>1, <2>1, <2>2, Zenon DEF Ledger!Next, Ledger!Settle, QueueOK
<1>5. CASE Holds(r.node, r.job) /\ r.outcome = "rejected"
  <2>1. state[r.job] = "leased" /\ state' = [state EXCEPT ![r.job] = "failed"]
    BY <1>5 DEF Receive, Holds
  <2>2. <<r.job, "400">> \in answers
    BY <1>5 DEF Backed
  <2> QED
    BY <1>1, <2>1, <2>2, Zenon DEF Ledger!Next, Ledger!Settle, QueueOK
<1> QED
    BY <1>1, <1>2, <1>3, <1>4, <1>5

\* Every step of the pipeline is a step of the ledger or a stutter.
LEMMA StepRefines ==
    ASSUME Types, Evidence, [Next]_vars
    PROVE  [Ledger!Next]_Ledger!ledgerVars
<1> USE DEF Types
<1>1. ASSUME NEW n \in Nodes, ForwardEnds(n) PROVE [Ledger!Next]_Ledger!ledgerVars
  <2>1. PICK answer \in ProverAnswers(n, job[n]) \cup FaultyAnswers :
          answers' = answers \cup ({<<job[n], answer>>} \cap FinalAnswers)
    BY <1>1 DEF ForwardEnds
  <2>2. job[n] \in Jobs /\ state' = state
    BY <1>1 DEF ForwardEnds, AgentOK, queueVars
  <2>3. CASE answer = "200"
    BY <2>1, <2>2, <2>3 DEF Ledger!Next, Ledger!Prove, FinalAnswers
  <2>4. CASE answer = "400"
    BY <2>1, <2>2, <2>4 DEF Ledger!Next, Ledger!Refuse, FinalAnswers
  <2>5. CASE answer \notin {"200", "400"}
    BY <2>1, <2>2, <2>5, Stutters DEF FinalAnswers
  <2> QED
    BY <2>3, <2>4, <2>5
<1>2. ASSUME NEW n \in Nodes, ReportAnswered(n) \/ ReportAnswerLost(n)
      PROVE  [Ledger!Next]_Ledger!ledgerVars
  <2>1. /\ Receive(ReportOf(n)) /\ ReportOf(n) \in Reports /\ answers' = answers
        /\ pc[n] = "report"
    BY <1>2, ReportTyped DEF ReportAnswered, ReportAnswerLost, history
  <2>2. Backed(ReportOf(n).job, ReportOf(n).outcome)
    BY <2>1 DEF Evidence, ReportOf
  <2> QED
    BY <2>1, <2>2, ReceiveRefines
<1>3. ASSUME NEW r \in late, DeliverLate(r) PROVE [Ledger!Next]_Ledger!ledgerVars
  <2>1. r \in Reports /\ Receive(r) /\ answers' = answers /\ Backed(r.job, r.outcome)
    BY <1>3, Zenon DEF DeliverLate, Evidence, LateOK
  <2> QED
    BY <2>1, ReceiveRefines, Zenon
<1>4. ASSUME NEW n \in Nodes, NEW j \in Jobs, LeaseJob(n, j) \/ LeaseLost(n, j)
      PROVE  [Ledger!Next]_Ledger!ledgerVars
    BY <1>4, Stutters DEF LeaseJob, LeaseLost, Grant, QueueOK, history
<1>5. ASSUME NEW j \in Jobs, Expire(j) PROVE [Ledger!Next]_Ledger!ledgerVars
    BY <1>5, Stutters, SMTT(30) DEF Expire, QueueOK, history
<1>6. ASSUME NEW n \in Nodes,
             \/ HeartbeatLease(n) \/ ReportLost(n) \/ ReportDelayed(n) \/ Stop(n) \/ LoopEnds(n)
             \/ Crash(n) \/ Restart(n) \/ GpuFails(n) \/ GpuReturns(n)
      PROVE  [Ledger!Next]_Ledger!ledgerVars
    BY <1>6, Stutters, ZenonT(30) DEF HeartbeatLease, Renew, ReportLost, ReportDelayed, Stop, LoopEnds, Crash,
                          Restart, GpuFails, GpuReturns, queueVars, history
<1>7. CASE Tick \/ UNCHANGED vars
    BY <1>7, Stutters, Zenon DEF Tick, vars, queueVars, history
<1> QED
    BY <1>1, <1>2, <1>3, <1>4, <1>5, <1>6, <1>7 DEF Next, Step

\* The pipeline implements the ledger, for any nodes and jobs: through crashes,
\* expired leases, lost and late reports a job is settled once, as done only after
\* a prover's proof and as failed only after a prover's refusal.
THEOREM PipelineImplementsLedger == Spec => ImplementsLedger
<1>1. Init => Ledger!Init
    BY DEF Init, Ledger!Init
<1>2. Init => Evidence
    BY DEF Init, Evidence
<1>3. Types /\ Evidence /\ [Next]_vars => [Ledger!Next]_Ledger!ledgerVars
    BY StepRefines
<1> QED
    BY <1>1, <1>2, <1>3, TypesInit, TypesNext, EvidenceNext, PTL
       DEF Spec, ImplementsLedger, Ledger!Spec
=============================================================================
