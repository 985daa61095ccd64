--------------------------- MODULE FarmProperties ---------------------------
(***************************************************************************)
(* What must be true of the build farm.                                    *)
(***************************************************************************)
EXTENDS BuildFarm

(* Type correctness of the controller, the workers and the history.        *)
TypeOK ==
  /\ jobs \in Seq(JobRecords)
  /\ registry \in [Workers -> Registrations]
  /\ disk \in [jobs : Seq(JobRecords), registry : [Workers -> Registrations]]
  /\ linked \subseteq Workers
  /\ pc \in [Workers -> WorkerPCs]
  /\ assigned \in [Workers -> Slices \cup {NoSlice}]
  /\ outcome \in [Workers -> Outcomes \cup {"none"}]
  /\ restarts \in Nat
  /\ handouts \in Seq(Nat)
  /\ Len(handouts) = Len(jobs)
  /\ built \subseteq Slices

(* One infrastructure retry per job, whatever combination of reaped        *)
(* workers, late reports, cancellations and controller restarts it goes    *)
(* through: nextJobForWorker hands a listed job out at most twice.         *)
HandedOutAtMostTwice == \A i \in DOMAIN handouts : handouts[i] <= 2

(* "The controller persists its queue": what a restart would load agrees   *)
(* with memory on every job, except slices of a rejected submission that   *)
(* nobody was ever given.                                                  *)
DurableQueue ==
  /\ Len(disk.jobs) <= Len(jobs)
  /\ \A i \in 1..Len(disk.jobs) : disk.jobs[i] = jobs[i]
  /\ \A i \in DOMAIN jobs : i > Len(disk.jobs) =>
       jobs[i] = QueuedJob(jobs[i].id, jobs[i].project) /\ handouts[i] = 0

(* A job is listed complete only if some worker's make of that very slice, *)
(* in the job's own project, succeeded, although results travel by jobID   *)
(* and may arrive late; unless a job of another project is listed under    *)
(* the same ID, as then finishJob: credits either with the other's result. *)
IDOfOneProject(job) ==
  \A k \in DOMAIN jobs : jobs[k].id = job.id => jobs[k].project = job.project

CompleteWasBuilt ==
  \A i \in DOMAIN jobs :
    jobs[i].state = "complete" /\ IDOfOneProject(jobs[i]) => Slice(jobs[i]) \in built

(* Two processes never build under one jobID at the same time: they would  *)
(* share the log file named after it, and the directory of the snapshot.   *)
OneBuilderPerSlice ==
  \A v, w \in Workers :
    v # w /\ assigned[v] # NoSlice /\ assigned[w] # NoSlice => assigned[v].id # assigned[w].id

(* A job whose worker is dead does not stay with it: it is taken away, or  *)
(* the worker comes back.                                                  *)
DeadWorkerLosesJob ==
  \A i \in 1..MaxJobs, w \in Workers :
    (i \in DOMAIN jobs /\ jobs[i].state = "running" /\ jobs[i].worker = w /\ pc[w] = "down")
      ~> (i \in DOMAIN jobs /\ (jobs[i].state # "running" \/ jobs[i].worker # w \/ pc[w] # "down"))

(* As long as one worker stays alive, every queued job gets somewhere: it  *)
(* settles, or a worker that can die is left holding it.                   *)
QueuedJobSettles ==
  \A i \in 1..MaxJobs :
    (i \in DOMAIN jobs /\ jobs[i].state = "queued")
      ~> (/\ i \in DOMAIN jobs
          /\ \/ jobs[i].state \in {"complete", "failed", "cancelled"}
             \/ jobs[i].state = "running" /\ jobs[i].worker \in Flaky)

(* guest/farm/README.md: a worker "heartbeat[s] every five seconds" and    *)
(* the controller "marks a worker offline after 45 seconds", so a worker   *)
(* that is alive and connected is never listed offline.                    *)
LiveWorkerStaysOnline == \A w \in linked : registry[w].state # "offline" \/ pc[w] = "register"

(* guest/farm/README.md: the controller "retries an infrastructure failure *)
(* once", so a running job that its worker, restarted after a crash and    *)
(* alive ever since, no longer works on does not stay running for ever.    *)
Abandoned(i, w) ==
  /\ i \in DOMAIN jobs
  /\ jobs[i].state = "running"
  /\ jobs[i].worker = w
  /\ assigned[w] = NoSlice \/ assigned[w].id # jobs[i].id

AbandonedJobIsReleased ==
  \A i \in 1..MaxJobs, w \in Workers :
    <>[](pc[w] # "down") => (Abandoned(i, w) ~> ~Abandoned(i, w))

-----------------------------------------------------------------------------
(* The strengthening that makes the retry budget inductive: a job can only *)
(* be waiting or running while its one retry is unspent or just spent, and *)
(* every hand-out beyond the first was paid for by a retry.                *)
RetryBudget ==
  \A i \in DOMAIN jobs :
    /\ jobs[i].state \in {"queued", "running"} => jobs[i].retries <= 1
    /\ jobs[i].state = "queued" => handouts[i] <= jobs[i].retries
    /\ handouts[i] <= jobs[i].retries + 1
    /\ handouts[i] <= 2

QueueInvariant == TypeOK /\ DurableQueue /\ RetryBudget

(* A process that builds or reports holds a slice that the list still has  *)
(* and knows to be out, and a success it has not reported yet is a make    *)
(* that succeeded.                                                         *)
Out(slice, k) ==
  /\ k \in DOMAIN jobs
  /\ Slice(jobs[k]) = slice
  /\ handouts[k] > 0

BuilderInvariant ==
  \A w \in Workers : pc[w] \in {"build", "report"} =>
    /\ assigned[w] \in Slices
    /\ \E k \in DOMAIN jobs : Out(assigned[w], k)
    /\ pc[w] = "report" /\ outcome[w] = "success" => assigned[w] \in built

(* A complete job was built under its ID, by a make of a job that is still *)
(* listed: of the job itself, or of another one that has its ID.           *)
BuiltUnder(id) ==
  \E slice \in built : slice.id = id /\ \E k \in DOMAIN jobs : Out(slice, k)

CompletionsAreMakes ==
  \A i \in DOMAIN jobs : jobs[i].state = "complete" => BuiltUnder(jobs[i].id)

FarmInvariant == QueueInvariant /\ BuilderInvariant /\ CompletionsAreMakes

-----------------------------------------------------------------------------
(* What it takes for a slice to have one builder: every make reports in    *)
(* time, one controller stays up, and no job ID is submitted twice.        *)
Orderly ==
  /\ ~SlowBuilds /\ ~Resubmits /\ MaxRestarts = 0
  /\ \A s \in Specs : \A i, k \in DOMAIN s.archs : s.archs[i] = s.archs[k] => i = k

(* Then a worker in its loop is never silent, so the slice it holds is its *)
(* own until it reports or dies, or has been cancelled; and a slice that   *)
(* somebody holds is not waiting.                                          *)
WorkersAreHeard ==
  /\ restarts = 0
  /\ \A w \in Workers : pc[w] # "down" => w \in linked
  /\ \A w \in Workers :
       pc[w] \in {"heartbeat", "poll", "build", "report"} =>
         registry[w] = [state |-> "online", beat |-> "recent"]

OneJobPerID ==
  \A i, k \in DOMAIN jobs : jobs[i].id = jobs[k].id => i = k

Keeps(w, job) ==
  /\ job.id = assigned[w].id
  /\ \/ job.state = "running" /\ job.worker = w
     \/ job.state = "cancelled"

HoldersKeepSlices ==
  \A w \in Workers : assigned[w] # NoSlice =>
    /\ pc[w] \in {"build", "report"}
    /\ \E i \in DOMAIN jobs : Keeps(w, jobs[i])

OrderlyInvariant ==
  WorkersAreHeard /\ OneJobPerID /\ HoldersKeepSlices /\ OneBuilderPerSlice

-----------------------------------------------------------------------------
(* The farm implements the slice life cycle.                               *)
PhaseOf(state) == CASE state = "queued" -> "waiting"
                    [] state = "running" -> "out"
                    [] OTHER -> "closed"

SliceOf(job, h) == [phase |-> PhaseOf(job.state),
                    spare |-> IF job.retries = 0 THEN 1 ELSE 0,
                    handed |-> h]

SlicesOfJobs == [i \in DOMAIN jobs |-> SliceOf(jobs[i], handouts[i])]

Lifecycle == INSTANCE SliceLifecycle WITH slices <- SlicesOfJobs, MaxBatch <- MaxJobs

(* Every step of the farm is a step of the life cycle, or none.            *)
ImplementsLifecycle == Lifecycle!Spec
=============================================================================
