----------------------------- MODULE BuildFarm -----------------------------
(***************************************************************************)
(* The native build farm: one controller process (RSFarmController.m) that *)
(* queues architecture slices, keeps the queue in a property list on disk  *)
(* and hands slices to worker processes (RSFarmWorker.m), which call it    *)
(* through Distributed Objects.  The operator submits and cancels with     *)
(* rsfarm.m.                                                               *)
(*                                                                         *)
(* The controller runs on one NSRunLoop, so every remote call and every    *)
(* timer callback is one step.  Workers, their deaths, the controller's    *)
(* restart and the passing of time interleave with those steps freely.     *)
(***************************************************************************)
EXTENDS Naturals, Sequences

CONSTANTS
  Workers,      \* names of the worker nodes
  NoWorker,     \* the "worker" key is absent
  NoSlice,      \* a worker process holds no job
  Specs,        \* build specifications the operator may submit
  SlowBuilds,   \* may one make take longer than the 45 s heartbeat limit?
  Resubmits,    \* may a snapshot-target be submitted while already listed?
  Flaky,        \* the workers whose process or machine may die
  MaxJobs,      \* bound: length of the job list
  MaxRestarts   \* bound: controller restarts

(* A specification carries the snapshot-target part of its job IDs, the    *)
(* project, and the requested architectures, which rsfarm does not         *)
(* validate.                                                               *)
ASSUME FarmAssumption ==
  /\ NoWorker \notin Workers
  /\ NoSlice \notin [id : {<<s.name, a>> : s \in Specs, a \in {"m68k", "i386", "hppa", "sparc"}},
                     project : {s.project : s \in Specs}]
  /\ \A s \in Specs : s.archs \in Seq(STRING)
  /\ SlowBuilds \in BOOLEAN /\ Resubmits \in BOOLEAN
  /\ Flaky \subseteq Workers
  /\ MaxJobs \in Nat /\ MaxRestarts \in Nat

VARIABLES
  jobs,      \* _jobs, in submission order
  registry,  \* _workers, with the age of lastHeartbeat as "beat"
  disk,      \* the property list at _statePath
  linked,    \* workers whose DO connection reaches the running controller
  pc,        \* where each worker process is in its main loop
  assigned,  \* the job each worker process was handed: its ID and project
  outcome,   \* the result RSRunJob returned, until it is reported
  restarts,  \* controller restarts so far
  handouts,  \* history: how often nextJobForWorker returned each job
  built      \* history: the slices some make built successfully, by ID and project

controllerVars == <<jobs, registry, disk>>
workerVars == <<linked, pc, assigned, outcome>>
historyVars == <<handouts, built>>
vars == <<controllerVars, workerVars, restarts, historyVars>>

-----------------------------------------------------------------------------
Architectures == {"m68k", "i386", "hppa", "sparc"}
JobStates == {"queued", "running", "complete", "failed", "cancelled"}
Outcomes == {"success", "failure", "infrastructure"}
WorkerPCs == {"down", "register", "heartbeat", "poll", "build", "report"}

(* jobID is snapshot-target-architecture.  The project is not part of it,  *)
(* but a job keeps the specification's, and it is where make is run.       *)
SliceIDs == {<<s.name, a>> : s \in Specs, a \in Architectures}
Projects == {s.project : s \in Specs}
Slices == [id : SliceIDs, project : Projects]

JobRecords == [id : SliceIDs, project : Projects, state : JobStates, retries : Nat,
               worker : Workers \cup {NoWorker}]
Registrations == [state : {"unknown", "online", "offline"}, beat : {"recent", "old"}]

QueuedJob(id, project) ==
  [id |-> id, project |-> project, state |-> "queued", retries |-> 0, worker |-> NoWorker]

(* What a worker makes of a job.                                           *)
Slice(job) == [id |-> job.id, project |-> job.project]

Known(w) == registry[w].state # "unknown"

(* Every lookup scans _jobs from the front and stops at the first match.   *)
IsFirstWith(i, P(_)) ==
  /\ i \in DOMAIN jobs
  /\ P(jobs[i])
  /\ \A k \in 1..(i - 1) : ~P(jobs[k])

(* -save: jobs and workers go to disk together, atomically.                *)
Save == disk' = [jobs |-> jobs', registry |-> registry']

Init ==
  /\ jobs = << >>
  /\ registry = [w \in Workers |-> [state |-> "unknown", beat |-> "old"]]
  /\ disk = [jobs |-> jobs, registry |-> registry]
  /\ linked = {}
  /\ pc = [w \in Workers |-> "down"]
  /\ assigned = [w \in Workers |-> NoSlice]
  /\ outcome = [w \in Workers |-> "none"]
  /\ restarts = 0
  /\ handouts = << >>
  /\ built = {}

-----------------------------------------------------------------------------
(* The operator's calls.                                                   *)

(* The slices before the first unsupported architecture are appended; an   *)
(* unsupported one ends the call with an error before -save.               *)
SupportedPrefix(archs, n) ==
  /\ n \in 0..Len(archs)
  /\ \A k \in 1..n : archs[k] \in Architectures
  /\ n < Len(archs) => archs[n + 1] \notin Architectures

submitBuild(spec) ==
  /\ Len(spec.archs) > 0
  /\ Len(jobs) + Len(spec.archs) <= MaxJobs
  /\ Resubmits \/ \A i \in DOMAIN jobs : jobs[i].id[1] # spec.name
  /\ \E n \in 0..Len(spec.archs) :
       /\ SupportedPrefix(spec.archs, n)
       /\ jobs' = jobs \o [k \in 1..n |-> QueuedJob(<<spec.name, spec.archs[k]>>, spec.project)]
       /\ handouts' = handouts \o [k \in 1..n |-> 0]
       /\ UNCHANGED registry
       /\ IF n = Len(spec.archs) THEN Save ELSE UNCHANGED disk
  /\ UNCHANGED <<workerVars, restarts, built>>

(* Only a complete job is spared, and nobody tells the worker.             *)
cancelJob(id) ==
  /\ \E i \in DOMAIN jobs :
       /\ IsFirstWith(i, LAMBDA j : j.id = id /\ j.state # "complete")
       /\ jobs' = [jobs EXCEPT ![i].state = "cancelled"]
  /\ UNCHANGED <<registry, workerVars, restarts, historyVars>>
  /\ Save

-----------------------------------------------------------------------------
(* The worker's main loop; each remote call needs a live connection.       *)

Calls(w, from, to) ==
  /\ pc[w] = from
  /\ w \in linked
  /\ pc' = [pc EXCEPT ![w] = to]
  /\ UNCHANGED <<linked, restarts>>

(* The process starts and connects to the registered controller.           *)
launchWorker(w) ==
  /\ pc[w] = "down"
  /\ pc' = [pc EXCEPT ![w] = "register"]
  /\ linked' = linked \cup {w}
  /\ UNCHANGED <<controllerVars, assigned, outcome, restarts, historyVars>>

registerWorker(w) ==
  /\ Calls(w, "register", "heartbeat")
  /\ registry' = [registry EXCEPT ![w] = [state |-> "online", beat |-> "recent"]]
  /\ UNCHANGED <<jobs, assigned, outcome, historyVars>>
  /\ Save

(* A heartbeat is not saved.                                               *)
heartbeat(w) ==
  /\ Calls(w, "heartbeat", "poll")
  /\ registry' = IF Known(w)
                 THEN [registry EXCEPT ![w] = [state |-> "online", beat |-> "recent"]]
                 ELSE registry
  /\ UNCHANGED <<jobs, disk, assigned, outcome, historyVars>>

DispatchableOnce(job) == job.state = "queued" /\ job.retries = 0

(* A worker advertises all four architectures.                             *)
Dispatchable(job) == job.state = "queued" /\ job.id[2] \in Architectures

nextJobForWorker(w) ==
  \/ /\ Calls(w, "poll", "build")
     /\ registry[w].state = "online"
     /\ \E i \in DOMAIN jobs :
          /\ IsFirstWith(i, Dispatchable)
          /\ jobs' = [jobs EXCEPT ![i].state = "running", ![i].worker = w]
          /\ handouts' = [handouts EXCEPT ![i] = @ + 1]
          /\ assigned' = [assigned EXCEPT ![w] = Slice(jobs[i])]
     /\ UNCHANGED <<registry, outcome, built>>
     /\ Save
  \/ /\ Calls(w, "poll", "heartbeat")
     /\ registry[w].state = "online" => \A i \in DOMAIN jobs : ~Dispatchable(jobs[i])
     /\ UNCHANGED <<controllerVars, assigned, outcome, historyVars>>

(* RSRunJob runs make in the job's project and blocks until it exits; a    *)
(* launch exception is the only infrastructure failure it reports.         *)
RSRunJob(w) ==
  /\ pc[w] = "build"
  /\ pc' = [pc EXCEPT ![w] = "report"]
  /\ \E result \in Outcomes :
       /\ outcome' = [outcome EXCEPT ![w] = result]
       /\ built' = IF result = "success" THEN built \cup {assigned[w]} ELSE built
  /\ UNCHANGED <<controllerVars, linked, assigned, restarts, handouts>>

ConcludedAlwaysComplete(job, result) ==
  IF result = "infrastructure" /\ job.retries < 1
  THEN [job EXCEPT !.state = "queued", !.retries = @ + 1, !.worker = NoWorker]
  ELSE [job EXCEPT !.state = "complete"]

ConcludedRetryingTwice(job, result) ==
  IF result = "infrastructure" /\ job.retries <= 1
  THEN [job EXCEPT !.state = "queued", !.retries = @ + 1, !.worker = NoWorker]
  ELSE [job EXCEPT !.state = IF result = "success" THEN "complete" ELSE "failed"]

(* The result lands on the first job with that ID, whatever its state and  *)
(* project and whoever holds it.                                           *)
Concluded(job, result) ==
  IF result = "infrastructure" /\ job.retries < 1
  THEN [job EXCEPT !.state = "queued", !.retries = @ + 1, !.worker = NoWorker]
  ELSE [job EXCEPT !.state = IF result = "success" THEN "complete" ELSE "failed"]

finishJob(w) ==
  LET Reported(job) == job.id = assigned[w].id IN
  /\ Calls(w, "report", "heartbeat")
  /\ jobs' = [i \in DOMAIN jobs |->
                IF IsFirstWith(i, Reported) THEN Concluded(jobs[i], outcome[w])
                                            ELSE jobs[i]]
  /\ assigned' = [assigned EXCEPT ![w] = NoSlice]
  /\ outcome' = [outcome EXCEPT ![w] = "none"]
  /\ UNCHANGED <<registry, historyVars>>
  /\ IF \E i \in DOMAIN jobs : Reported(jobs[i]) THEN Save ELSE UNCHANGED disk

-----------------------------------------------------------------------------
(* Time, death and recovery.                                               *)

(* A call on a connection whose controller is gone raises, nothing catches *)
(* it, and the process ends.                                               *)
Dies(w) ==
  /\ pc' = [pc EXCEPT ![w] = "down"]
  /\ linked' = linked \ {w}
  /\ assigned' = [assigned EXCEPT ![w] = NoSlice]
  /\ outcome' = [outcome EXCEPT ![w] = "none"]
  /\ UNCHANGED <<controllerVars, restarts, historyVars>>

callFails(w) ==
  /\ pc[w] \in {"register", "heartbeat", "poll", "report"}
  /\ w \notin linked
  /\ Dies(w)

crashWorker(w) ==
  /\ w \in Flaky
  /\ pc[w] # "down"
  /\ Dies(w)

(* lastHeartbeat grows older than 45 s.  A connected worker in its loop    *)
(* calls every five seconds; one inside make does not call at all.         *)
heartbeatAges(w) ==
  /\ \/ pc[w] = "down"
     \/ w \notin linked
     \/ SlowBuilds /\ pc[w] = "build"
  /\ Known(w)
  /\ registry[w].beat = "recent"
  /\ registry' = [registry EXCEPT ![w].beat = "old"]
  /\ UNCHANGED <<jobs, disk, workerVars, restarts, historyVars>>

(* The 15 s timer: silent workers go offline and lose their running jobs.  *)
Silent(w) == Known(w) /\ registry[w].beat = "old"

ReapedUncounted(job) ==
  [job EXCEPT !.state = IF job.retries < 1 THEN "queued" ELSE "failed",
              !.worker = NoWorker]

Reaped(job) ==
  [job EXCEPT !.state = IF job.retries < 1 THEN "queued" ELSE "failed",
              !.retries = @ + 1, !.worker = NoWorker]

Offline == [w \in Workers |->
              IF Silent(w) THEN [registry[w] EXCEPT !.state = "offline"]
                           ELSE registry[w]]

reapAnyWorker ==
  /\ registry' = Offline
  /\ jobs' = [i \in DOMAIN jobs |->
                IF jobs[i].state = "running" /\ \E v \in Workers : Silent(v)
                THEN Reaped(jobs[i]) ELSE jobs[i]]
  /\ UNCHANGED <<workerVars, restarts, historyVars>>
  /\ Save

reapKeepingJobs ==
  /\ registry' = Offline
  /\ UNCHANGED <<jobs, workerVars, restarts, historyVars>>
  /\ Save

reapUnsaved ==
  /\ registry' = Offline
  /\ jobs' = [i \in DOMAIN jobs |->
                IF /\ jobs[i].state = "running"
                   /\ jobs[i].worker \in Workers
                   /\ Silent(jobs[i].worker)
                THEN Reaped(jobs[i]) ELSE jobs[i]]
  /\ UNCHANGED <<disk, workerVars, restarts, historyVars>>

reapWorkers ==
  /\ registry' = Offline
  /\ jobs' = [i \in DOMAIN jobs |->
                IF /\ jobs[i].state = "running"
                   /\ jobs[i].worker \in Workers
                   /\ Silent(jobs[i].worker)
                THEN Reaped(jobs[i]) ELSE jobs[i]]
  /\ UNCHANGED <<workerVars, restarts, historyVars>>
  /\ Save

(* The controller process dies and a new one loads the property list.      *)
initWithStatePath ==
  /\ restarts < MaxRestarts
  /\ restarts' = restarts + 1
  /\ jobs' = disk.jobs
  /\ registry' = disk.registry
  /\ linked' = {}
  /\ handouts' = SubSeq(handouts, 1, Len(disk.jobs))
  /\ UNCHANGED <<disk, pc, assigned, outcome, built>>

-----------------------------------------------------------------------------
WorkerStep(w) ==
  \/ registerWorker(w)
  \/ heartbeat(w)
  \/ nextJobForWorker(w)
  \/ RSRunJob(w)
  \/ finishJob(w)
  \/ callFails(w)

Next ==
  \/ \E spec \in Specs : submitBuild(spec)
  \/ \E id \in SliceIDs : cancelJob(id)
  \/ \E w \in Workers : launchWorker(w) \/ WorkerStep(w) \/ crashWorker(w) \/ heartbeatAges(w)
  \/ reapWorkers
  \/ initWithStatePath

Spec == Init /\ [][Next]_vars

(* The run loop keeps firing the reaper, time passes, a worker process that *)
(* lives keeps looping and its makes end, and a worker that cannot die is  *)
(* started by its operator.  Nothing is assumed of the operator's calls,   *)
(* of crashes or of restarts after them.                                   *)
Fairness ==
  /\ WF_vars(reapWorkers)
  /\ \A w \in Workers : WF_vars(heartbeatAges(w)) /\ WF_vars(WorkerStep(w))
  /\ \A w \in Workers \ Flaky : WF_vars(launchWorker(w))

FairSpec == Spec /\ Fairness
=============================================================================
