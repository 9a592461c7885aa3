------------------------- MODULE ProofServiceProofs -------------------------
(***************************************************************************)
(* For every set of requests: the types of the proof service, that the     *)
(* gate's permit is held by exactly the GPU handlers that await a command, *)
(* that at most one GPU command runs, and that none starts to prove        *)
(* without a GPU.                                                          *)
(***************************************************************************)
EXTENDS ProofService, TLAPS, FiniteSetTheorems, SequenceTheorems

-----------------------------------------------------------------------------
(* Facts about sequences *)

\* Dropping a waiter from the middle of the gate leaves a sequence of waiters.
LEMMA RemoveAtType ==
    ASSUME NEW S, NEW s \in Seq(S), NEW i \in DOMAIN s
    PROVE  RemoveAt(s, i) \in Seq(S)
<1>1. i \in 1 .. Len(s) /\ Len(s) \in Nat
    BY LenProperties
<1>2. SubSeq(s, 1, i - 1) \in Seq(S)
    BY <1>1, SubSeqProperties
<1>3. SubSeq(s, i + 1, Len(s)) \in Seq(S)
    BY <1>1, SubSeqProperties
<1> QED
    BY <1>2, <1>3, ConcatProperties DEF RemoveAt

-----------------------------------------------------------------------------
(* Types *)

\* The service starts with its types.
LEMMA TypeInit == Init => TypeOK
BY DEF Init, TypeOK, HandlerStates, Stages, Results, Replies

\* Every step of the service keeps the types.
LEMMA TypeNext == TypeOK /\ [Next]_vars => TypeOK'
<1> SUFFICES ASSUME TypeOK, [Next]_vars PROVE TypeOK'
    OBVIOUS
<1> USE RequestsAssumption
<1> USE DEF TypeOK, HandlerStates, Stages, Results, Replies, probeVars
<1>1. CASE Acquire
  <2>1. Head(gate) \in GpuRequests /\ Tail(gate) \in Seq(GpuRequests)
    BY <1>1, HeadTailProperties DEF Acquire
  <2>2. Append(pool, Head(gate)) \in Seq(Requests)
    BY <2>1, AppendProperties
  <2> QED
    BY <1>1, <2>1, <2>2 DEF Acquire, Spawned
<1>2. CASE Start
  <2>1. Head(pool) \in Requests /\ Tail(pool) \in Seq(Requests)
    BY <1>2, HeadTailProperties DEF Start
  <2> QED
    BY <1>2, <2>1 DEF Start
<1>3. CASE ProbeExpires
    BY <1>3 DEF ProbeExpires
<1>4. CASE GpuChanges
    BY <1>4 DEF GpuChanges
<1>5. CASE Health
    BY <1>5 DEF Health, ProbeCached
<1>6. ASSUME NEW r \in Requests, Refuse(r) PROVE TypeOK'
    BY <1>6 DEF Refuse
<1>7. ASSUME NEW r \in Requests, Accept(r) PROVE TypeOK'
  <2>1. CASE r \in GpuRequests
    <3>1. Append(gate, r) \in Seq(GpuRequests)
      BY <2>1, AppendProperties
    <3> QED
      BY <1>7, <2>1, <3>1, Zenon DEF Accept, Spawned
  <2>2. CASE r \notin GpuRequests
    <3>1. Append(pool, r) \in Seq(Requests)
      BY AppendProperties
    <3> QED
      BY <1>7, <2>2, <3>1, Zenon DEF Accept, Spawned
  <2> QED
    BY <2>1, <2>2
<1>8. ASSUME NEW r \in Requests, Answer(r) PROVE TypeOK'
    BY <1>8 DEF Answer
<1>9. ASSUME NEW r \in Requests, Drop(r) PROVE TypeOK'
    BY <1>9, RemoveAtType DEF Drop
<1>10. ASSUME NEW r \in Requests, NextRequest(r) PROVE TypeOK'
    BY <1>10 DEF NextRequest
<1>11. ASSUME NEW r \in Requests, Admit(r) PROVE TypeOK'
    BY <1>11, Zenon DEF Admit, ProbeCached, Return
<1>12. ASSUME NEW r \in Requests, SampleTelemetry(r) PROVE TypeOK'
    BY <1>12, Zenon DEF SampleTelemetry, Return
<1>13. ASSUME NEW r \in Requests, Finish(r) PROVE TypeOK'
    BY <1>13 DEF Finish, Return
<1>14. CASE UNCHANGED vars
    BY <1>14 DEF vars
<1> QED
    BY <1>1, <1>2, <1>3, <1>4, <1>5, <1>6, <1>7, <1>8, <1>9, <1>10, <1>11, <1>12,
       <1>13, <1>14, Zenon DEF Next

\* The service never leaves its types, for any set of requests.
THEOREM TypeCorrect == Spec => []TypeOK
<1> QED
    BY TypeInit, TypeNext, PTL DEF Spec

-----------------------------------------------------------------------------
(* The permit *)

\* Acquire, Answer and Drop move the permit with the handler's state.
LEMMA PermitNext ==
    TypeOK /\ PermitHeldByAwaiting /\ [Next]_vars => PermitHeldByAwaiting'
<1> SUFFICES ASSUME TypeOK, PermitHeldByAwaiting, [Next]_vars
             PROVE  PermitHeldByAwaiting'
    OBVIOUS
<1> USE RequestsAssumption
<1> USE DEF TypeOK, PermitHeldByAwaiting
<1>1. CASE Acquire
  <2>1. Head(gate) \in GpuRequests
    BY <1>1, HeadTailProperties DEF Acquire
  <2> QED
    BY <1>1, <2>1 DEF Acquire, Spawned
<1>2. CASE Start
    BY <1>2 DEF Start
<1>3. CASE ProbeExpires \/ GpuChanges \/ Health
    BY <1>3 DEF ProbeExpires, GpuChanges, Health
<1>4. ASSUME NEW r \in Requests, Refuse(r) PROVE PermitHeldByAwaiting'
    BY <1>4 DEF Refuse
<1>5. ASSUME NEW r \in Requests, Accept(r) PROVE PermitHeldByAwaiting'
    BY <1>5 DEF Accept, Spawned
<1>6. ASSUME NEW r \in Requests, Answer(r) PROVE PermitHeldByAwaiting'
    BY <1>6 DEF Answer
<1>7. ASSUME NEW r \in Requests, Drop(r) PROVE PermitHeldByAwaiting'
    BY <1>7 DEF Drop
<1>8. ASSUME NEW r \in Requests, NextRequest(r) PROVE PermitHeldByAwaiting'
    BY <1>8 DEF NextRequest
<1>9. ASSUME NEW r \in Requests, Admit(r) \/ SampleTelemetry(r) \/ Finish(r)
      PROVE  PermitHeldByAwaiting'
    BY <1>9 DEF Admit, SampleTelemetry, Finish
<1>10. CASE UNCHANGED vars
    BY <1>10 DEF vars
<1> QED
    BY <1>1, <1>2, <1>3, <1>4, <1>5, <1>6, <1>7, <1>8, <1>9, <1>10, SMTT(30) DEF Next

\* The permit of gpu_gate is held by exactly the GPU handlers that await a
\* command: a disconnect can neither leak it nor release it twice.
THEOREM PermitSafe == Spec => []PermitHeldByAwaiting
<1>1. Init => PermitHeldByAwaiting
    BY RequestsAssumption DEF Init, PermitHeldByAwaiting
<1> QED
    BY <1>1, PermitNext, TypeCorrect, PTL DEF Spec

-----------------------------------------------------------------------------
(* One command at a time *)

\* The pool has one thread.  This is stronger than OneProofAtATime, which
\* speaks of GPU commands only, and is what Start preserves: a CPU command
\* that runs keeps a GPU command from starting.
OneCommand == \A r, s \in Running : r = s

\* The single thread of the blocking pool starts a command only when none runs.
LEMMA OneCommandNext == TypeOK /\ OneCommand /\ [Next]_vars => OneCommand'
<1> SUFFICES ASSUME TypeOK, OneCommand, [Next]_vars PROVE OneCommand'
    OBVIOUS
<1> USE RequestsAssumption
<1>1. CASE Start
  <2>1. IsFiniteSet(Running)
    BY FS_Subset DEF Running
  <2>2. Cardinality(Running) = 0
    BY <1>1, <2>1, FS_CardinalityType DEF Start, MAX_BLOCKING_THREADS
  <2>3. Running = {}
    BY <2>1, <2>2, FS_EmptySet
  <2> QED
    BY <1>1, <2>3 DEF Start, OneCommand, Running, TypeOK
<1>2. ASSUME Running' \subseteq Running PROVE OneCommand'
    BY <1>2 DEF OneCommand
<1>3. CASE Acquire
  <2>1. Head(gate) \in Requests
    BY <1>3, HeadTailProperties DEF Acquire, TypeOK
  <2> QED
    BY <1>2, <1>3, <2>1 DEF Acquire, Spawned, Running, TypeOK
<1>4. CASE ProbeExpires \/ GpuChanges \/ Health
    BY <1>2, <1>4 DEF ProbeExpires, GpuChanges, Health, Running
<1>5. ASSUME NEW r \in Requests, Refuse(r) \/ Answer(r) \/ Drop(r) PROVE OneCommand'
    BY <1>2, <1>5 DEF Refuse, Answer, Drop, Running
<1>6. ASSUME NEW r \in Requests, Accept(r) \/ NextRequest(r) PROVE OneCommand'
    BY <1>2, <1>6 DEF Accept, Spawned, NextRequest, Running, TypeOK
<1>7. ASSUME NEW r \in Requests, Admit(r) \/ SampleTelemetry(r) \/ Finish(r)
      PROVE  OneCommand'
    BY <1>2, <1>7 DEF Admit, SampleTelemetry, Finish, Return, Running, TypeOK
<1>8. CASE UNCHANGED vars
    BY <1>2, <1>8 DEF vars, Running
<1> QED
    BY <1>1, <1>3, <1>4, <1>5, <1>6, <1>7, <1>8, SMTT(30) DEF Next

\* No two GPU commands run together, although a dropped handler returns its
\* permit while its command still runs.
THEOREM OneProof == Spec => []OneProofAtATime
<1>1. Init => OneCommand
    BY DEF Init, OneCommand, Running
<1>2. OneCommand => OneProofAtATime
    BY DEF OneCommand, OneProofAtATime
<1> QED
    BY <1>1, <1>2, OneCommandNext, TypeCorrect, PTL DEF Spec

-----------------------------------------------------------------------------
(* No CPU fallback *)

\* Only the required first telemetry sample lets a command begin to prove.
LEMMA ProvingNeedsGpu ==
    ASSUME TypeOK, [Next]_vars, NEW r \in Requests,
           stage[r] # "proving", stage'[r] = "proving"
    PROVE  gpu
<1> USE RequestsAssumption
<1>1. ASSUME NEW q \in Requests, SampleTelemetry(q) PROVE gpu
    BY <1>1 DEF SampleTelemetry, Return, TypeOK
<1>2. CASE Acquire
  <2>1. Head(gate) \in Requests
    BY <1>2, HeadTailProperties DEF Acquire, TypeOK
  <2> QED
    BY <1>2, <2>1 DEF Acquire, Spawned, TypeOK
<1>3. CASE Start
    BY <1>3, HeadTailProperties DEF Start, TypeOK
<1>4. CASE ProbeExpires \/ GpuChanges \/ Health
    BY <1>4 DEF ProbeExpires, GpuChanges, Health
<1>5. ASSUME NEW q \in Requests, Refuse(q) \/ Answer(q) \/ Drop(q) PROVE gpu
    BY <1>5 DEF Refuse, Answer, Drop
<1>6. ASSUME NEW q \in Requests, Accept(q) \/ NextRequest(q) PROVE gpu
    BY <1>6 DEF Accept, Spawned, NextRequest, TypeOK
<1>7. ASSUME NEW q \in Requests, Admit(q) \/ Finish(q) PROVE gpu
    BY <1>7 DEF Admit, Finish, Return, TypeOK
<1>8. CASE UNCHANGED vars
    BY <1>8 DEF vars
<1> QED
    BY <1>1, <1>2, <1>3, <1>4, <1>5, <1>6, <1>7, <1>8, SMTT(30) DEF Next

\* A GPU command starts to prove only while the driver sees the GPU, however
\* stale the cached probe that admitted it.
THEOREM NoFallback == Spec => NoCpuFallback
<1>1. TypeOK /\ [Next]_vars =>
        [\A r \in Requests : stage[r] # "proving" /\ stage'[r] = "proving" => gpu]_vars
    BY ProvingNeedsGpu
<1> QED
    BY <1>1, TypeCorrect, PTL DEF Spec, NoCpuFallback
=============================================================================
