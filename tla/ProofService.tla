---------------------------- MODULE ProofService ----------------------------
(***************************************************************************)
(* The `/v5` HTTP proof service (zkvm/crates/risc0/host/src/http.rs) and   *)
(* the NVIDIA probe it stands on (gpu.rs).                                 *)
(*                                                                         *)
(* A request is handled by an async handler, which for a GPU route first   *)
(* waits for the one permit of `gpu_gate`, then hands its command to the   *)
(* runtime's blocking pool and awaits the result.  The handler is dropped  *)
(* when its client disconnects; the command it spawned is not.  The pool   *)
(* has `max_blocking_threads(1)` thread and runs commands in spawn order.  *)
(*                                                                         *)
(* `reply` is the HTTP answer and also the outcome label the request is    *)
(* counted under in `/metrics`: `HttpMetricsV5::record` is called exactly  *)
(* where the answer is built.                                              *)
(***************************************************************************)
EXTENDS Naturals, FiniteSets, Sequences, SequencesExt

CONSTANTS
    Requests,     \* request slots: a slot carries one request at a time
    GpuRequests,  \* those whose route is registered with needs_gpu = true
    ProveRequests \* those of them that prove; /v5/rooms/prepare does not

ASSUME RequestsAssumption ==
    /\ IsFiniteSet(Requests)
    /\ GpuRequests \subseteq Requests
    /\ ProveRequests \subseteq GpuRequests

VARIABLES
    handler, \* [Requests -> HandlerStates]: the async handler
    gate,    \* waiters of gpu_gate, first come first served
    holders, \* handlers that hold a permit of gpu_gate
    pool,    \* commands spawned on the blocking pool and not started
    stage,   \* [Requests -> Stages]: the command on the blocking pool
    result,  \* [Requests -> Results]: what the command returned
    reply,   \* [Requests -> Replies]: the answer the client received
    gpu,     \* the driver sees a GPU
    probe,   \* GPU_PROBE_CACHE for `uuid`: "stale" when absent or expired
    health   \* the latest /healthz answer since the GPU last came or went

probeVars == <<gpu, probe, health>>
vars == <<handler, gate, holders, pool, stage, result, reply, probeVars>>

HandlerStates == {"idle", "gate", "awaiting", "answered", "dropped"}
Stages == {"none", "queued", "started", "admitted", "proving", "over"}
Results == {"none", "ok", "rejected", "error"}
Replies == Results \cup {"unauthorized"}

\* serve_v5 runs cmd_health before it binds the listener, so the service
\* starts with a GPU in sight and a fresh sample of it.
Init ==
    /\ handler = [r \in Requests |-> "idle"]
    /\ gate = <<>>
    /\ holders = {}
    /\ pool = <<>>
    /\ stage = [r \in Requests |-> "none"]
    /\ result = [r \in Requests |-> "none"]
    /\ reply = [r \in Requests |-> "none"]
    /\ gpu = TRUE
    /\ probe = "present"
    /\ health = "none"

-----------------------------------------------------------------------------
(* The GPU probe *)

\* nvidia_query: a sample younger than GPU_PROBE_TTL is returned as it is,
\* otherwise the driver is asked and its answer cached.
ProbeValue == IF probe = "stale" THEN gpu ELSE probe = "present"
ProbeCached ==
    IF probe = "stale" THEN (IF gpu THEN "present" ELSE "absent") ELSE probe

\* The cached sample reaches GPU_PROBE_TTL.
ProbeExpires_never == FALSE /\ UNCHANGED vars
ProbeExpires ==
    /\ probe # "stale"
    /\ probe' = "stale"
    /\ UNCHANGED <<handler, gate, holders, pool, stage, result, reply, gpu, health>>

\* The GPU falls off the bus, or the driver finds it again.
GpuChanges ==
    /\ gpu' = ~gpu
    /\ health' = "none"
    /\ UNCHANGED <<handler, gate, holders, pool, stage, result, reply, probe>>

\* http_health_v5: enforce_production_gpu on the cached probe, on a runtime
\* thread and never on the blocking pool.
Health ==
    /\ health' = IF ProbeValue THEN "ready" ELSE "not-ready"
    /\ probe' = ProbeCached
    /\ UNCHANGED <<handler, gate, holders, pool, stage, result, reply, gpu>>

-----------------------------------------------------------------------------
(* The handler, http_command_v5 *)

GPU_GATE_PERMITS == 1

Spawned(r) ==
    /\ handler' = [handler EXCEPT ![r] = "awaiting"]
    /\ pool' = Append(pool, r)
    /\ stage' = [stage EXCEPT ![r] = "queued"]

\* A request that fails authorized_v5, or whose body is not UTF-8.
Refuse(r) ==
    /\ handler[r] = "idle"
    /\ handler' = [handler EXCEPT ![r] = "answered"]
    /\ \E answer \in {"unauthorized", "rejected"} :
          reply' = [reply EXCEPT ![r] = answer]
    /\ UNCHANGED <<gate, holders, pool, stage, result, probeVars>>

\* An accepted request: a GPU route joins the waiters of the gate, any other
\* route spawns its command at once.
Accept(r) ==
    /\ handler[r] = "idle"
    /\ \/ /\ r \in GpuRequests
          /\ handler' = [handler EXCEPT ![r] = "gate"]
          /\ gate' = Append(gate, r)
          /\ UNCHANGED <<pool, stage>>
       \/ /\ r \notin GpuRequests
          /\ Spawned(r)
          /\ UNCHANGED gate
    /\ UNCHANGED <<holders, result, reply, probeVars>>

\* acquire_owned resolves for the first waiter, which spawns its command
\* without a further await.
Acquire ==
    /\ gate # <<>>
    /\ Cardinality(holders) < GPU_GATE_PERMITS
    /\ holders' = holders \cup {Head(gate)}
    /\ Spawned(Head(gate))
    /\ gate' = Tail(gate)
    /\ UNCHANGED <<result, reply, probeVars>>

\* The awaited command is over: the permit is dropped and the answer built.
Answer(r) ==
    /\ handler[r] = "awaiting"
    /\ stage[r] = "over"
    /\ handler' = [handler EXCEPT ![r] = "answered"]
    /\ holders' = holders \ {r}
    /\ reply' = [reply EXCEPT ![r] = result[r]]
    /\ UNCHANGED <<gate, pool, stage, result, probeVars>>

\* The client disconnects (the agent's forward timeout, a dead agent): the
\* handler's future is dropped, with its place in the gate or its permit.
\* Dropping the handle of a spawn_blocking task does not cancel the task.
Drop_leaksPermit(r) ==
    /\ handler[r] = "awaiting"
    /\ handler' = [handler EXCEPT ![r] = "dropped"]
    /\ UNCHANGED <<gate, holders, pool, stage, result, reply, probeVars>>

Drop(r) ==
    /\ \/ /\ handler[r] = "gate"
          /\ \E i \in DOMAIN gate : gate[i] = r /\ gate' = RemoveAt(gate, i)
       \/ /\ handler[r] = "awaiting"
          /\ UNCHANGED gate
    /\ handler' = [handler EXCEPT ![r] = "dropped"]
    /\ holders' = holders \ {r}
    /\ UNCHANGED <<pool, stage, result, reply, probeVars>>

\* A slot whose request is settled and whose command is off the pool carries
\* the next request.
NextRequest(r) ==
    /\ handler[r] \in {"answered", "dropped"}
    /\ stage[r] \in {"none", "over"}
    /\ handler' = [handler EXCEPT ![r] = "idle"]
    /\ stage' = [stage EXCEPT ![r] = "none"]
    /\ result' = [result EXCEPT ![r] = "none"]
    /\ reply' = [reply EXCEPT ![r] = "none"]
    /\ UNCHANGED <<gate, holders, pool, probeVars>>

-----------------------------------------------------------------------------
(* The blocking pool *)

MAX_BLOCKING_THREADS_two == 2
MAX_BLOCKING_THREADS == 1

Running == {r \in Requests : stage[r] \in {"started", "admitted", "proving"}}

\* An idle thread takes the oldest spawned command.
Start ==
    /\ pool # <<>>
    /\ Cardinality(Running) < MAX_BLOCKING_THREADS
    /\ stage' = [stage EXCEPT ![Head(pool)] = "started"]
    /\ pool' = Tail(pool)
    /\ UNCHANGED <<handler, gate, holders, result, reply, probeVars>>

Return(r, value) ==
    /\ stage' = [stage EXCEPT ![r] = "over"]
    /\ result' = [result EXCEPT ![r] = value]

\* A production prove command first runs enforce_production_gpu, which trusts
\* the cached probe ...
Admit(r) ==
    /\ r \in ProveRequests
    /\ stage[r] = "started"
    /\ probe' = ProbeCached
    /\ \/ /\ ProbeValue
          /\ stage' = [stage EXCEPT ![r] = "admitted"]
          /\ UNCHANGED result
       \/ /\ ~ProbeValue
          /\ Return(r, "rejected")
    /\ UNCHANGED <<handler, gate, holders, pool, reply, gpu, health>>

\* ... and then starts the telemetry sampler, whose first sample asks the
\* driver itself and is required.
SampleTelemetry_optional(r) ==
    /\ stage[r] = "admitted"
    /\ stage' = [stage EXCEPT ![r] = "proving"]
    /\ UNCHANGED <<handler, gate, holders, pool, result, reply, probeVars>>

SampleTelemetry(r) ==
    /\ stage[r] = "admitted"
    /\ \/ /\ gpu
          /\ stage' = [stage EXCEPT ![r] = "proving"]
          /\ UNCHANGED result
       \/ /\ ~gpu
          /\ Return(r, "rejected")
    /\ UNCHANGED <<handler, gate, holders, pool, reply, probeVars>>

\* The command returns: Ok, Err (a bad witness, a failed proof) or a panic,
\* which the handler sees as a JoinError.  A bad witness is found before the
\* GPU is looked at, so a prove command may return from any stage, but only a
\* proof that ran returns Ok.
Finish(r) ==
    /\ r \in Running
    /\ \E value \in {"ok", "rejected", "error"} :
          /\ value = "ok" /\ r \in ProveRequests => stage[r] = "proving"
          /\ Return(r, value)
    /\ UNCHANGED <<handler, gate, holders, pool, reply, probeVars>>

-----------------------------------------------------------------------------
Next ==
    \/ Acquire
    \/ Start
    \/ ProbeExpires
    \/ GpuChanges
    \/ Health
    \/ \E r \in Requests :
          \/ Refuse(r)
          \/ Accept(r)
          \/ Answer(r)
          \/ Drop(r)
          \/ NextRequest(r)
          \/ Admit(r)
          \/ SampleTelemetry(r)
          \/ Finish(r)

\* The runtime polls every ready future and the pool thread runs whatever is
\* spawned; a command ends (the prover works on a finite trace); the clock
\* advances and the orchestrator keeps probing.  Clients, disconnects and the
\* GPU are free.
Fairness ==
    /\ WF_vars(Acquire)
    /\ WF_vars(Start)
    /\ \A r \in Requests : WF_vars(Answer(r)) /\ WF_vars(Finish(r))
    /\ WF_vars(ProbeExpires)
    /\ WF_vars(Health)

Spec == Init /\ [][Next]_vars
FairSpec == Spec /\ Fairness

-----------------------------------------------------------------------------
(* Properties *)

\* Handlers, commands and the probe keep their types; only GPU routes ever stand
\* at the gate or hold its permit (http_command_v5, needs_gpu).
TypeOK ==
    /\ handler \in [Requests -> HandlerStates]
    /\ gate \in Seq(GpuRequests)
    /\ holders \in SUBSET GpuRequests
    /\ pool \in Seq(Requests)
    /\ stage \in [Requests -> Stages]
    /\ result \in [Requests -> Results]
    /\ reply \in [Requests -> Replies]
    /\ gpu \in BOOLEAN
    /\ probe \in {"stale", "present", "absent"}
    /\ health \in {"none", "ready", "not-ready"}

\* "One local CUDA prover job at a time" (http.rs:36-39): no two commands of
\* GPU routes run together, although a dropped handler gives its permit back
\* while its command still runs.
OneProofAtATime ==
    \A r, s \in Running \cap GpuRequests : r = s

\* The permit is never leaked and never forged: exactly the GPU handlers that
\* await a command hold it, whatever order disconnects and answers come in.
PermitHeldByAwaiting ==
    holders = {r \in GpuRequests : handler[r] = "awaiting"}

\* Production proving never silently falls back to a CPU (gpu.rs:1-4): a GPU
\* command starts to prove only at an instant when the driver sees the GPU,
\* however stale the cached probe that admitted it.
NoCpuFallback ==
    [][\A r \in Requests :
         stage[r] # "proving" /\ stage'[r] = "proving" => gpu]_vars

\* Every request that is accepted is answered unless its client goes away:
\* neither the gate nor the single pool thread starves it.
EveryRequestSettles ==
    \A r \in Requests :
        handler[r] \in {"gate", "awaiting"} ~> handler[r] \in {"answered", "dropped"}

\* A GPU that is gone for good ends up reported as not ready: the cached
\* sample cannot keep /healthz green beyond its TTL.
LostGpuIsReported ==
    <>[](~gpu) => <>[](health = "not-ready")
=============================================================================
