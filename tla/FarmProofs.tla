----------------------------- MODULE FarmProofs -----------------------------
(***************************************************************************)
(* Theorems about the build farm for any set of workers, any set of        *)
(* specifications and any number of restarts.                              *)
(***************************************************************************)
EXTENDS FarmProperties, SequenceTheorems, TLAPS

(* A function on an initial segment of the positive naturals is a sequence.*)
LEMMA SegmentIsSeq ==
  ASSUME NEW S, NEW n \in Nat, NEW t \in [1..n -> S]
  PROVE  t \in Seq(S) /\ Len(t) = n /\ DOMAIN t = 1..n
<1>1. t \in Seq(S)
  BY SeqDef
<1>2. DOMAIN t = 1..n
  OBVIOUS
<1>3. Len(t) \in Nat /\ DOMAIN t = 1..Len(t)
  BY <1>1, LenProperties
<1>4. Len(t) = n
  BY <1>2, <1>3
<1>. QED BY <1>1, <1>2, <1>4

(* Replacing the elements of a sequence one by one keeps its length.       *)
LEMMA PointwiseSeq ==
  ASSUME NEW S, NEW s \in Seq(S), NEW t \in [DOMAIN s -> S]
  PROVE  t \in Seq(S) /\ Len(t) = Len(s) /\ DOMAIN t = DOMAIN s
<1>1. Len(s) \in Nat /\ DOMAIN s = 1..Len(s)
  BY LenProperties
<1>. QED BY <1>1, SegmentIsSeq

(* What the invariant says of the job list, in the form the proofs use.    *)
LEMMA JobListType ==
  ASSUME TypeOK
  PROVE  /\ Len(jobs) \in Nat /\ DOMAIN jobs = 1..Len(jobs)
         /\ DOMAIN handouts = 1..Len(jobs)
         /\ \A i \in DOMAIN jobs : /\ jobs[i] \in JobRecords
                                   /\ jobs[i].retries \in Nat
                                   /\ handouts[i] \in Nat
         /\ Len(disk.jobs) \in Nat
<1>1. jobs \in Seq(JobRecords) /\ handouts \in Seq(Nat) /\ Len(handouts) = Len(jobs)
  BY DEF TypeOK
<1>2. Len(jobs) \in Nat /\ DOMAIN jobs = 1..Len(jobs)
  BY <1>1, LenProperties
<1>3. DOMAIN handouts = 1..Len(jobs)
  BY <1>1, LenProperties
<1>4. \A i \in DOMAIN jobs : jobs[i] \in JobRecords /\ handouts[i] \in Nat
  BY <1>1, <1>2, ElementOfSeq
<1>5. disk.jobs \in Seq(JobRecords)
  BY DEF TypeOK
<1>. QED BY <1>2, <1>3, <1>4, <1>5, LenProperties DEF JobRecords

LEMMA InitQueueInvariant == Init => QueueInvariant
<1>. SUFFICES ASSUME Init PROVE QueueInvariant
  OBVIOUS
<1>1. << >> \in Seq(JobRecords) /\ << >> \in Seq(Nat) /\ Len(<< >>) = 0
  OBVIOUS
<1>2. registry \in [Workers -> Registrations]
  BY DEF Init, Registrations
<1>3. TypeOK
  BY <1>1, <1>2 DEF Init, TypeOK, WorkerPCs
<1>4. DurableQueue /\ RetryBudget
  BY <1>1 DEF Init, DurableQueue, RetryBudget
<1>. QED BY <1>3, <1>4 DEF QueueInvariant

(* After a save the disk holds exactly what memory holds.                  *)
LEMMA SavedIsDurable ==
  ASSUME Save, jobs' \in Seq(JobRecords), registry' \in [Workers -> Registrations]
  PROVE  /\ disk' \in [jobs : Seq(JobRecords), registry : [Workers -> Registrations]]
         /\ DurableQueue'
<1>1. Len(jobs') \in Nat /\ DOMAIN jobs' = 1..Len(jobs')
  BY LenProperties
<1>. QED BY <1>1 DEF Save, DurableQueue

LEMMA QueuedJobType ==
  ASSUME NEW id \in SliceIDs, NEW project \in Projects
  PROVE  /\ QueuedJob(id, project) \in JobRecords
         /\ QueuedJob(id, project).id = id
         /\ QueuedJob(id, project).project = project
BY DEF QueuedJob, JobRecords, JobStates

(* A submission leaves the jobs that are listed and adds queued ones.      *)
Appended ==
  /\ \A i \in DOMAIN jobs :
       i \in DOMAIN jobs' /\ jobs'[i] = jobs[i] /\ handouts'[i] = handouts[i]
  /\ \A i \in DOMAIN jobs' : i \in DOMAIN jobs \/ jobs'[i].state = "queued"

LEMMA submitKeepsInvariant ==
  ASSUME FarmAssumption, QueueInvariant, NEW spec \in Specs, submitBuild(spec)
  PROVE  QueueInvariant' /\ Appended
<1>1. PICK n \in 0..Len(spec.archs) :
        /\ SupportedPrefix(spec.archs, n)
        /\ jobs' = jobs \o [k \in 1..n |-> QueuedJob(<<spec.name, spec.archs[k]>>, spec.project)]
        /\ handouts' = handouts \o [k \in 1..n |-> 0]
        /\ IF n = Len(spec.archs) THEN Save ELSE UNCHANGED disk
  BY DEF submitBuild
<1>. DEFINE new == [k \in 1..n |-> QueuedJob(<<spec.name, spec.archs[k]>>, spec.project)]
            zeros == [k \in 1..n |-> 0]
<1>2. n \in Nat
  <2>1. Len(spec.archs) \in Nat
    BY LenProperties DEF FarmAssumption
  <2>. QED BY <2>1
<1>3. ASSUME NEW k \in 1..n
      PROVE  /\ QueuedJob(<<spec.name, spec.archs[k]>>, spec.project) \in JobRecords
             /\ QueuedJob(<<spec.name, spec.archs[k]>>, spec.project).id = <<spec.name, spec.archs[k]>>
             /\ QueuedJob(<<spec.name, spec.archs[k]>>, spec.project).project = spec.project
  <2>1. spec.archs[k] \in Architectures
    BY <1>1 DEF SupportedPrefix
  <2>2. <<spec.name, spec.archs[k]>> \in SliceIDs
    BY <2>1 DEF SliceIDs
  <2>3. spec.project \in Projects
    BY DEF Projects
  <2>. QED BY <2>2, <2>3, QueuedJobType
<1>4. new \in Seq(JobRecords) /\ Len(new) = n
  <2>1. new \in [1..n -> JobRecords]
    BY <1>3
  <2>. QED BY <1>2, <2>1, SegmentIsSeq
<1>5. zeros \in Seq(Nat) /\ Len(zeros) = n
  <2>1. zeros \in [1..n -> Nat]
    OBVIOUS
  <2>. QED BY <1>2, <2>1, SegmentIsSeq
<1>6. ASSUME NEW k \in 1..n
      PROVE  new[k] = QueuedJob(new[k].id, new[k].project) /\ zeros[k] = 0
  BY <1>3
<1>7. jobs' = jobs \o new /\ handouts' = handouts \o zeros
  BY <1>1
<1>. HIDE DEF new, zeros
<1>8. TypeOK /\ DurableQueue /\ RetryBudget
  BY DEF QueueInvariant
<1>9. /\ Len(jobs) \in Nat /\ DOMAIN jobs = 1..Len(jobs)
      /\ jobs \in Seq(JobRecords) /\ handouts \in Seq(Nat) /\ Len(handouts) = Len(jobs)
  BY <1>8, JobListType DEF TypeOK
<1>10. /\ jobs' \in Seq(JobRecords) /\ Len(jobs') = Len(jobs) + n
       /\ DOMAIN jobs' = 1..(Len(jobs) + n)
       /\ \A i \in 1..Len(jobs) : jobs'[i] = jobs[i]
       /\ \A i \in 1..n : jobs'[Len(jobs) + i] = new[i]
  <2>1. /\ jobs' \in Seq(JobRecords) /\ Len(jobs') = Len(jobs) + n
        /\ \A i \in 1..(Len(jobs) + n) :
             jobs'[i] = IF i <= Len(jobs) THEN jobs[i] ELSE new[i - Len(jobs)]
    <3>1. new \in Seq(JobRecords) /\ Len(new) = n /\ jobs \in Seq(JobRecords) /\ jobs' = jobs \o new
      BY <1>4, <1>7, <1>9
    <3>. QED BY <3>1, ConcatProperties
  <2>2. DOMAIN jobs' = 1..(Len(jobs) + n)
    BY <2>1, LenProperties
  <2>. DEFINE q == Len(jobs)
  <2>3. /\ q \in Nat
        /\ \A i \in 1..(q + n) : jobs'[i] = IF i <= q THEN jobs[i] ELSE new[i - q]
    BY <1>9, <2>1
  <2>. HIDE DEF q
  <2>4. \A i \in 1..q : jobs'[i] = jobs[i]
    BY <1>2, <2>3
  <2>5. ASSUME NEW i \in 1..n PROVE jobs'[q + i] = new[i]
    <3>1. q + i \in 1..(q + n) /\ ~(q + i <= q) /\ (q + i) - q = i
      BY <1>2, <2>3
    <3>. QED BY <2>3, <3>1
  <2>. QED BY <2>1, <2>2, <2>4, <2>5 DEF q
<1>11. /\ handouts' \in Seq(Nat) /\ Len(handouts') = Len(jobs) + n
       /\ \A i \in 1..Len(jobs) : handouts'[i] = handouts[i]
       /\ \A i \in 1..n : handouts'[Len(jobs) + i] = zeros[i]
  <2>1. /\ handouts' \in Seq(Nat) /\ Len(handouts') = Len(handouts) + n
        /\ \A i \in 1..(Len(handouts) + n) :
             handouts'[i] = IF i <= Len(handouts) THEN handouts[i] ELSE zeros[i - Len(handouts)]
    <3>1. handouts \in Seq(Nat) /\ zeros \in Seq(Nat) /\ handouts' = handouts \o zeros
      BY <1>5, <1>7, <1>9
    <3>. QED BY <1>5, <3>1, ConcatProperties
  <2>. DEFINE m == Len(jobs)
  <2>2. /\ m \in Nat /\ Len(handouts') = m + n
        /\ \A i \in 1..(m + n) :
             handouts'[i] = IF i <= m THEN handouts[i] ELSE zeros[i - m]
    BY <1>9, <2>1
  <2>. HIDE DEF m
  <2>3. \A i \in 1..m : handouts'[i] = handouts[i]
    BY <1>2, <2>2
  <2>4. ASSUME NEW i \in 1..n PROVE handouts'[m + i] = zeros[i]
    <3>1. m + i \in 1..(m + n) /\ ~(m + i <= m) /\ (m + i) - m = i
      BY <1>2, <2>2
    <3>. QED BY <2>2, <3>1
  <2>5. handouts' \in Seq(Nat)
    BY <2>1
  <2>. QED BY <2>2, <2>3, <2>4, <2>5 DEF m
<1>12. ASSUME NEW i \in DOMAIN jobs'
       PROVE  \/ i \in 1..Len(jobs) /\ jobs'[i] = jobs[i] /\ handouts'[i] = handouts[i]
              \/ i > Len(jobs) /\ jobs'[i] = QueuedJob(jobs'[i].id, jobs'[i].project) /\ handouts'[i] = 0
  <2>1. CASE i \in 1..Len(jobs)
    BY <1>10, <1>11, <2>1
  <2>2. CASE i \notin 1..Len(jobs)
    <3>1. PICK k \in 1..n : i = Len(jobs) + k
      <4>1. i - Len(jobs) \in 1..n /\ i = Len(jobs) + (i - Len(jobs))
        BY <1>2, <1>9, <1>10, <2>2
      <4>. QED BY <4>1
    <3>2. jobs'[i] = new[k] /\ handouts'[i] = zeros[k]
      BY <1>10, <1>11, <3>1
    <3>3. i > Len(jobs)
      BY <1>9, <3>1
    <3>. QED BY <1>6, <3>2, <3>3
  <2>. QED BY <2>1, <2>2
<1>13. registry' \in [Workers -> Registrations]
  BY <1>8 DEF submitBuild, TypeOK
<1>14. disk' \in [jobs : Seq(JobRecords), registry : [Workers -> Registrations]] /\ DurableQueue'
  <2>1. CASE n = Len(spec.archs)
    BY <1>1, <1>10, <1>13, <2>1, SavedIsDurable
  <2>2. CASE n # Len(spec.archs)
    <3>1. disk' = disk
      BY <1>1, <2>2
    <3>2. Len(disk.jobs) \in Nat /\ Len(disk.jobs) <= Len(jobs)
      BY <1>8, JobListType DEF DurableQueue
    <3>3. \A i \in 1..Len(disk.jobs) : disk.jobs[i] = jobs'[i]
      BY <1>8, <1>9, <1>10, <3>2 DEF DurableQueue
    <3>4. \A i \in DOMAIN jobs' : i > Len(disk.jobs) =>
            jobs'[i] = QueuedJob(jobs'[i].id, jobs'[i].project) /\ handouts'[i] = 0
      BY <1>8, <1>9, <1>12 DEF DurableQueue
    <3>5. Len(disk.jobs) <= Len(jobs')
      BY <1>2, <1>9, <1>10, <3>2
    <3>6. DurableQueue'
      BY <3>1, <3>3, <3>4, <3>5 DEF DurableQueue
    <3>. QED BY <1>8, <3>1, <3>6 DEF TypeOK
  <2>. QED BY <2>1, <2>2
<1>15. RetryBudget'
  <2>. SUFFICES ASSUME NEW i \in DOMAIN jobs'
                PROVE  /\ jobs'[i].state \in {"queued", "running"} => jobs'[i].retries <= 1
                       /\ jobs'[i].state = "queued" => handouts'[i] <= jobs'[i].retries
                       /\ handouts'[i] <= jobs'[i].retries + 1
                       /\ handouts'[i] <= 2
    BY DEF RetryBudget
  <2>1. CASE i \in 1..Len(jobs) /\ jobs'[i] = jobs[i] /\ handouts'[i] = handouts[i]
    BY <1>8, <1>9, <2>1 DEF RetryBudget
  <2>2. CASE jobs'[i] = QueuedJob(jobs'[i].id, jobs'[i].project) /\ handouts'[i] = 0
    <3>1. jobs'[i].retries = 0
      BY <2>2 DEF QueuedJob
    <3>. QED BY <2>2, <3>1
  <2>. QED BY <1>12, <2>1, <2>2
<1>16. TypeOK'
  BY <1>8, <1>10, <1>11, <1>13, <1>14 DEF submitBuild, workerVars, TypeOK
<1>17. Appended
  <2>1. \A i \in DOMAIN jobs :
          i \in DOMAIN jobs' /\ jobs'[i] = jobs[i] /\ handouts'[i] = handouts[i]
    BY <1>2, <1>9, <1>10, <1>11
  <2>2. \A i \in DOMAIN jobs' : i \in DOMAIN jobs \/ jobs'[i].state = "queued"
    BY <1>9, <1>12 DEF QueuedJob
  <2>. QED BY <2>1, <2>2 DEF Appended
<1>. QED BY <1>14, <1>15, <1>16, <1>17 DEF QueueInvariant

(* What a handler that rewrites a job in place may turn it into: an        *)
(* untouched job, a settled one, or one that has just spent its retry.     *)
Rewritten(old, new) ==
  \/ new = old
  \/ /\ new \in JobRecords
     /\ new.state \in {"complete", "failed", "cancelled"}
     /\ new.retries >= old.retries
  \/ /\ new \in JobRecords
     /\ old.retries < 1
     /\ new.retries = 1

LEMMA RewriteKeepsInvariant ==
  ASSUME QueueInvariant, Save, UNCHANGED handouts,
         jobs' = [i \in DOMAIN jobs |-> jobs'[i]],
         registry' \in [Workers -> Registrations],
         \A i \in DOMAIN jobs : Rewritten(jobs[i], jobs'[i])
  PROVE  /\ jobs' \in Seq(JobRecords) /\ Len(jobs') = Len(jobs)
         /\ disk' \in [jobs : Seq(JobRecords), registry : [Workers -> Registrations]]
         /\ DurableQueue' /\ RetryBudget'
<1>1. TypeOK /\ RetryBudget
  BY DEF QueueInvariant
<1>2. \A i \in DOMAIN jobs : jobs[i] \in JobRecords /\ jobs[i].retries \in Nat /\ handouts[i] \in Nat
  BY <1>1, JobListType
<1>3. \A i \in DOMAIN jobs : jobs'[i] \in JobRecords /\ jobs'[i].retries \in Nat
  BY <1>2 DEF Rewritten, JobRecords
<1>4. jobs' \in Seq(JobRecords) /\ Len(jobs') = Len(jobs) /\ DOMAIN jobs' = DOMAIN jobs
  <2>1. jobs' \in [DOMAIN jobs -> JobRecords]
    BY <1>3
  <2>. QED BY <1>1, <2>1, PointwiseSeq DEF TypeOK
<1>5. RetryBudget'
  <2>. SUFFICES ASSUME NEW i \in DOMAIN jobs
                PROVE  /\ jobs'[i].state \in {"queued", "running"} => jobs'[i].retries <= 1
                       /\ jobs'[i].state = "queued" => handouts[i] <= jobs'[i].retries
                       /\ handouts[i] <= jobs'[i].retries + 1
                       /\ handouts[i] <= 2
    BY <1>4 DEF RetryBudget
  <2>1. /\ jobs[i].state \in {"queued", "running"} => jobs[i].retries <= 1
        /\ jobs[i].state = "queued" => handouts[i] <= jobs[i].retries
        /\ handouts[i] <= jobs[i].retries + 1
        /\ handouts[i] <= 2
    BY <1>1 DEF RetryBudget
  <2>2. CASE jobs'[i] = jobs[i]
    BY <2>1, <2>2
  <2>3. CASE /\ jobs'[i].state \in {"complete", "failed", "cancelled"}
             /\ jobs'[i].retries >= jobs[i].retries
    BY <1>2, <1>3, <2>1, <2>3
  <2>4. CASE jobs[i].retries < 1 /\ jobs'[i].retries = 1
    BY <1>2, <2>1, <2>4
  <2>. QED BY <2>2, <2>3, <2>4 DEF Rewritten
<1>. QED BY <1>4, <1>5, SavedIsDurable

(* A retry writes the state, the counter and the worker of one job.        *)
LEMMA RetriedJob ==
  ASSUME NEW job \in JobRecords, NEW s \in JobStates
  PROVE  /\ [job EXCEPT !.state = s, !.retries = job.retries + 1, !.worker = NoWorker]
              \in JobRecords
         /\ [job EXCEPT !.state = s, !.retries = job.retries + 1, !.worker = NoWorker].state = s
         /\ [job EXCEPT !.state = s, !.retries = job.retries + 1, !.worker = NoWorker].retries
              = job.retries + 1
<1>1. job.retries + 1 \in Nat
  BY DEF JobRecords
<1>2. [job EXCEPT !.state = s, !.retries = job.retries + 1, !.worker = NoWorker] \in JobRecords
  BY <1>1 DEF JobRecords
<1>3. [job EXCEPT !.state = s, !.retries = job.retries + 1, !.worker = NoWorker].state = s
  BY DEF JobRecords
<1>4. [job EXCEPT !.state = s, !.retries = job.retries + 1, !.worker = NoWorker].retries
        = job.retries + 1
  BY DEF JobRecords
<1>. QED BY <1>2, <1>3, <1>4

LEMMA CancelledJob ==
  ASSUME NEW job \in JobRecords
  PROVE  Rewritten(job, [job EXCEPT !.state = "cancelled"])
<1>. DEFINE gone == [job EXCEPT !.state = "cancelled"]
<1>1. gone \in JobRecords /\ gone.state = "cancelled" /\ gone.retries = job.retries
  BY DEF JobRecords, JobStates
<1>2. job.retries \in Nat
  BY DEF JobRecords
<1>. QED BY <1>1, <1>2 DEF Rewritten

LEMMA ConcludedJob ==
  ASSUME NEW job \in JobRecords, NEW result
  PROVE  Rewritten(job, Concluded(job, result))
<1>. DEFINE new == Concluded(job, result)
<1>1. job.retries \in Nat
  BY DEF JobRecords
<1>2. CASE result = "infrastructure" /\ job.retries < 1
  <2>1. new = [job EXCEPT !.state = "queued", !.retries = job.retries + 1, !.worker = NoWorker]
    BY <1>2 DEF Concluded
  <2>. HIDE DEF new
  <2>2. "queued" \in JobStates
    BY DEF JobStates
  <2>3. new \in JobRecords /\ new.retries = job.retries + 1
    BY <2>1, <2>2, RetriedJob
  <2>4. Rewritten(job, new)
    BY <1>1, <1>2, <2>3 DEF Rewritten
  <2>. QED BY <2>4 DEF new
<1>3. CASE ~(result = "infrastructure" /\ job.retries < 1)
  <2>1. PICK final \in {"complete", "failed"} : new = [job EXCEPT !.state = final]
    BY <1>3 DEF Concluded
  <2>. HIDE DEF new
  <2>2. new \in JobRecords /\ new.state = final /\ new.retries = job.retries
    BY <2>1 DEF JobRecords, JobStates
  <2>3. Rewritten(job, new)
    BY <1>1, <2>2 DEF Rewritten
  <2>. QED BY <2>3 DEF new
<1>. QED BY <1>2, <1>3

LEMMA ReapedJob ==
  ASSUME NEW job \in JobRecords
  PROVE  Rewritten(job, Reaped(job))
<1>. DEFINE new == Reaped(job)
<1>1. job.retries \in Nat
  BY DEF JobRecords
<1>2. CASE job.retries < 1
  <2>1. new = [job EXCEPT !.state = "queued", !.retries = job.retries + 1, !.worker = NoWorker]
    BY <1>2 DEF Reaped
  <2>. HIDE DEF new
  <2>2. "queued" \in JobStates
    BY DEF JobStates
  <2>3. new \in JobRecords /\ new.retries = job.retries + 1
    BY <2>1, <2>2, RetriedJob
  <2>4. Rewritten(job, new)
    BY <1>1, <1>2, <2>3 DEF Rewritten
  <2>. QED BY <2>4 DEF new
<1>3. CASE ~(job.retries < 1)
  <2>1. new = [job EXCEPT !.state = "failed", !.retries = job.retries + 1, !.worker = NoWorker]
    BY <1>3 DEF Reaped
  <2>. HIDE DEF new
  <2>2. "failed" \in JobStates
    BY DEF JobStates
  <2>3. new \in JobRecords /\ new.state = "failed" /\ new.retries = job.retries + 1
    BY <2>1, <2>2, RetriedJob
  <2>4. Rewritten(job, new)
    BY <1>1, <2>3 DEF Rewritten
  <2>. QED BY <2>4 DEF new
<1>. QED BY <1>2, <1>3

LEMMA cancelKeepsInvariant ==
  ASSUME QueueInvariant, NEW id, cancelJob(id)
  PROVE  QueueInvariant'
<1>1. TypeOK
  BY DEF QueueInvariant
<1>2. PICK i \in DOMAIN jobs : jobs' = [jobs EXCEPT ![i].state = "cancelled"]
  BY DEF cancelJob
<1>3. DOMAIN jobs = 1..Len(jobs) /\ \A k \in DOMAIN jobs : jobs[k] \in JobRecords
  BY <1>1, JobListType
<1>4. /\ jobs' = [k \in DOMAIN jobs |-> jobs'[k]]
      /\ jobs'[i] = [jobs[i] EXCEPT !.state = "cancelled"]
      /\ \A k \in DOMAIN jobs : k # i => jobs'[k] = jobs[k]
  BY <1>2, <1>3
<1>5. \A k \in DOMAIN jobs : Rewritten(jobs[k], jobs'[k])
  <2>1. Rewritten(jobs[i], jobs'[i])
    BY <1>3, <1>4, CancelledJob
  <2>. QED BY <1>4, <2>1 DEF Rewritten
<1>6. /\ Save /\ registry' \in [Workers -> Registrations] /\ UNCHANGED handouts
  BY <1>1 DEF cancelJob, historyVars, TypeOK
<1>7. /\ jobs' \in Seq(JobRecords) /\ Len(jobs') = Len(jobs)
      /\ disk' \in [jobs : Seq(JobRecords), registry : [Workers -> Registrations]]
      /\ DurableQueue' /\ RetryBudget'
  BY <1>4, <1>5, <1>6, RewriteKeepsInvariant
<1>8. TypeOK'
  BY <1>1, <1>7, <1>6 DEF TypeOK, cancelJob, workerVars, historyVars
<1>. QED BY <1>7, <1>8 DEF QueueInvariant

(* A report rewrites the first job with its ID, and saves if there is one. *)
LEMMA finishKeepsInvariant ==
  ASSUME QueueInvariant, NEW w \in Workers, finishJob(w)
  PROVE  QueueInvariant'
<1>. DEFINE Reported(job) == job.id = assigned[w].id
<1>1. TypeOK
  BY DEF QueueInvariant
<1>2. jobs' = [i \in DOMAIN jobs |->
                IF IsFirstWith(i, Reported) THEN Concluded(jobs[i], outcome[w])
                                            ELSE jobs[i]]
  BY DEF finishJob
<1>3. \A k \in DOMAIN jobs : jobs[k] \in JobRecords
  BY <1>1, JobListType
<1>4. /\ jobs' = [k \in DOMAIN jobs |-> jobs'[k]]
      /\ \A k \in DOMAIN jobs :
           jobs'[k] = jobs[k] \/ jobs'[k] = Concluded(jobs[k], outcome[w])
  BY <1>2
<1>5. \A k \in DOMAIN jobs : Rewritten(jobs[k], jobs'[k])
  BY <1>3, <1>4, ConcludedJob DEF Rewritten
<1>6. registry' \in [Workers -> Registrations] /\ UNCHANGED <<registry, handouts, built>>
  BY <1>1 DEF finishJob, historyVars, TypeOK
<1>7. /\ jobs' \in Seq(JobRecords) /\ Len(jobs') = Len(jobs)
      /\ disk' \in [jobs : Seq(JobRecords), registry : [Workers -> Registrations]]
      /\ DurableQueue' /\ RetryBudget'
  <2>1. CASE \E i \in DOMAIN jobs : Reported(jobs[i])
    <3>1. Save
      BY <2>1 DEF finishJob
    <3>. QED BY <1>4, <1>5, <1>6, <3>1, RewriteKeepsInvariant
  <2>2. CASE ~\E i \in DOMAIN jobs : Reported(jobs[i])
    <3>1. \A k \in DOMAIN jobs : jobs'[k] = jobs[k]
      BY <1>2, <2>2 DEF IsFirstWith
    <3>2. jobs' \in Seq(JobRecords) /\ Len(jobs') = Len(jobs)
      <4>1. jobs' \in [DOMAIN jobs -> JobRecords]
        BY <1>3, <1>4, <3>1
      <4>. QED BY <1>1, <4>1, PointwiseSeq DEF TypeOK
    <3>3. jobs' = jobs
      BY <1>1, <3>1, <3>2, SeqEqual, JobListType DEF TypeOK
    <3>4. UNCHANGED disk
      BY <2>2 DEF finishJob
    <3>. QED BY <1>6, <3>3, <3>4 DEF DurableQueue, RetryBudget, QueueInvariant, TypeOK
  <2>. QED BY <2>1, <2>2
<1>8. /\ pc' \in [Workers -> WorkerPCs]
      /\ assigned' \in [Workers -> Slices \cup {NoSlice}]
      /\ outcome' \in [Workers -> Outcomes \cup {"none"}]
      /\ UNCHANGED <<linked, restarts>>
  BY <1>1 DEF finishJob, Calls, WorkerPCs, TypeOK
<1>9. TypeOK'
  BY <1>1, <1>6, <1>7, <1>8 DEF TypeOK
<1>. QED BY <1>7, <1>9 DEF QueueInvariant

LEMMA reapKeepsInvariant ==
  ASSUME QueueInvariant, reapWorkers
  PROVE  QueueInvariant'
<1>1. TypeOK
  BY DEF QueueInvariant
<1>2. /\ jobs' = [k \in DOMAIN jobs |-> jobs'[k]]
      /\ \A k \in DOMAIN jobs : jobs'[k] = jobs[k] \/ jobs'[k] = Reaped(jobs[k])
  BY DEF reapWorkers
<1>3. \A k \in DOMAIN jobs : Rewritten(jobs[k], jobs'[k])
  BY <1>1, <1>2, ReapedJob, JobListType DEF Rewritten
<1>4. registry' \in [Workers -> Registrations]
  <2>1. ASSUME NEW w \in Workers
        PROVE  [registry[w] EXCEPT !.state = "offline"] \in Registrations
    <3>1. registry[w] \in Registrations
      BY <1>1 DEF TypeOK
    <3>. QED BY <3>1 DEF Registrations
  <2>. QED BY <1>1, <2>1 DEF reapWorkers, Offline, TypeOK
<1>5. Save /\ UNCHANGED <<linked, pc, assigned, outcome, restarts, handouts, built>>
  BY DEF reapWorkers, workerVars, historyVars
<1>6. /\ jobs' \in Seq(JobRecords) /\ Len(jobs') = Len(jobs)
      /\ disk' \in [jobs : Seq(JobRecords), registry : [Workers -> Registrations]]
      /\ DurableQueue' /\ RetryBudget'
  BY <1>2, <1>3, <1>4, <1>5, RewriteKeepsInvariant
<1>7. TypeOK'
  BY <1>1, <1>4, <1>5, <1>6 DEF TypeOK
<1>. QED BY <1>6, <1>7 DEF QueueInvariant

LEMMA dispatchKeepsInvariant ==
  ASSUME QueueInvariant, NEW w \in Workers, nextJobForWorker(w)
  PROVE  QueueInvariant'
<1>1. TypeOK /\ RetryBudget
  BY DEF QueueInvariant
<1>2. pc' \in [Workers -> WorkerPCs] /\ UNCHANGED <<linked, restarts, registry, outcome, built>>
  BY <1>1 DEF nextJobForWorker, Calls, WorkerPCs, TypeOK, controllerVars, historyVars
<1>3. CASE UNCHANGED <<controllerVars, assigned, outcome, historyVars>>
  <2>1. UNCHANGED <<jobs, registry, disk, assigned, handouts>>
    BY <1>3 DEF controllerVars, historyVars
  <2>. QED BY <1>2, <2>1 DEF QueueInvariant, TypeOK, DurableQueue, RetryBudget
<1>4. ASSUME NEW i \in DOMAIN jobs, IsFirstWith(i, Dispatchable),
             jobs' = [jobs EXCEPT ![i].state = "running", ![i].worker = w],
             handouts' = [handouts EXCEPT ![i] = @ + 1],
             assigned' = [assigned EXCEPT ![w] = Slice(jobs[i])],
             Save
      PROVE  QueueInvariant'
  <2>1. jobs[i].state = "queued"
    BY <1>4 DEF IsFirstWith, Dispatchable
  <2>2. /\ DOMAIN jobs = 1..Len(jobs) /\ DOMAIN handouts = 1..Len(jobs)
        /\ \A k \in DOMAIN jobs : /\ jobs[k] \in JobRecords
                                  /\ jobs[k].retries \in Nat
                                  /\ handouts[k] \in Nat
    BY <1>1, JobListType
  <2>3. /\ jobs'[i] = [jobs[i] EXCEPT !.state = "running", !.worker = w]
        /\ \A k \in DOMAIN jobs : k # i => jobs'[k] = jobs[k]
        /\ DOMAIN jobs' = DOMAIN jobs
        /\ jobs' = [k \in DOMAIN jobs |-> jobs'[k]]
    BY <1>4, <2>2
  <2>4. /\ jobs'[i] \in JobRecords
        /\ jobs'[i].state = "running"
        /\ jobs'[i].retries = jobs[i].retries
    BY <2>2, <2>3 DEF JobRecords, JobStates
  <2>5. jobs' \in Seq(JobRecords) /\ Len(jobs') = Len(jobs)
    <3>1. \A k \in DOMAIN jobs : jobs'[k] \in JobRecords
      BY <2>2, <2>3, <2>4
    <3>2. jobs' \in [DOMAIN jobs -> JobRecords]
      BY <2>3, <3>1
    <3>. QED BY <1>1, <3>2, PointwiseSeq DEF TypeOK
  <2>6. /\ handouts'[i] = handouts[i] + 1
        /\ \A k \in DOMAIN jobs : k # i => handouts'[k] = handouts[k]
    BY <1>4, <2>2
  <2>7. handouts' \in Seq(Nat) /\ Len(handouts') = Len(handouts)
    <3>1. handouts' \in [DOMAIN handouts -> Nat]
      <4>1. handouts \in [DOMAIN handouts -> Nat] /\ i \in DOMAIN handouts
        BY <1>1, <1>4, <2>2, LenProperties DEF TypeOK
      <4>2. handouts[i] + 1 \in Nat
        BY <2>2
      <4>. QED BY <1>4, <4>1, <4>2
    <3>. QED BY <1>1, <3>1, PointwiseSeq DEF TypeOK
  <2>8. RetryBudget'
    <3>. SUFFICES ASSUME NEW k \in DOMAIN jobs
                  PROVE  /\ jobs'[k].state \in {"queued", "running"} => jobs'[k].retries <= 1
                         /\ jobs'[k].state = "queued" => handouts'[k] <= jobs'[k].retries
                         /\ handouts'[k] <= jobs'[k].retries + 1
                         /\ handouts'[k] <= 2
      BY <2>3 DEF RetryBudget
    <3>1. CASE k = i
      <4>1. jobs[i].retries <= 1 /\ handouts[i] <= jobs[i].retries
        BY <1>1, <2>1 DEF RetryBudget
      <4>. QED BY <2>2, <2>4, <2>6, <3>1, <4>1
    <3>2. CASE k # i
      BY <1>1, <2>3, <2>6, <3>2 DEF RetryBudget
    <3>. QED BY <3>1, <3>2
  <2>9. registry' \in [Workers -> Registrations]
    BY <1>1, <1>2 DEF TypeOK
  <2>10. /\ disk' \in [jobs : Seq(JobRecords), registry : [Workers -> Registrations]]
         /\ DurableQueue'
    BY <1>4, <2>5, <2>9, SavedIsDurable
  <2>11. assigned' \in [Workers -> Slices \cup {NoSlice}]
    <3>1. Slice(jobs[i]) \in Slices
      BY <2>2 DEF JobRecords, Slice, Slices
    <3>. QED BY <1>1, <1>4, <3>1 DEF TypeOK
  <2>12. TypeOK'
    BY <1>1, <1>2, <2>5, <2>7, <2>9, <2>10, <2>11 DEF TypeOK
  <2>. QED BY <2>8, <2>10, <2>12 DEF QueueInvariant
<1>. QED BY <1>3, <1>4 DEF nextJobForWorker

(* A restart loads what DurableQueue says the disk holds.                  *)
LEMMA restartKeepsInvariant ==
  ASSUME QueueInvariant, initWithStatePath
  PROVE  QueueInvariant'
<1>1. TypeOK /\ DurableQueue /\ RetryBudget
  BY DEF QueueInvariant
<1>. DEFINE n == Len(disk.jobs)
<1>2. /\ n \in Nat /\ n <= Len(jobs) /\ Len(jobs) \in Nat
      /\ DOMAIN jobs = 1..Len(jobs)
      /\ disk.jobs \in Seq(JobRecords) /\ DOMAIN disk.jobs = 1..n
  BY <1>1, JobListType, LenProperties DEF DurableQueue, TypeOK
<1>3. /\ jobs' = disk.jobs /\ disk' = disk /\ registry' = disk.registry
      /\ handouts' = SubSeq(handouts, 1, n)
  BY DEF initWithStatePath
<1>4. /\ handouts' \in Seq(Nat) /\ Len(handouts') = n
      /\ \A i \in 1..n : handouts'[i] = handouts[i]
  <2>1. \A i \in 1..n : handouts[i] \in Nat
    BY <1>1, <1>2, JobListType
  <2>2. /\ SubSeq(handouts, 1, n) \in Seq(Nat)
        /\ Len(SubSeq(handouts, 1, n)) = IF 1 <= n THEN n - 1 + 1 ELSE 0
        /\ \A i \in 1..(n - 1 + 1) : SubSeq(handouts, 1, n)[i] = handouts[1 + i - 1]
    BY <1>2, <2>1, SubSeqProperties
  <2>. QED BY <1>2, <1>3, <2>2
<1>. HIDE DEF n
<1>5. \A i \in 1..n : i \in DOMAIN jobs /\ jobs'[i] = jobs[i]
  BY <1>1, <1>2, <1>3 DEF DurableQueue, n
<1>6. RetryBudget'
  BY <1>1, <1>2, <1>3, <1>4, <1>5 DEF RetryBudget
<1>7. DurableQueue'
  BY <1>2, <1>3 DEF DurableQueue, n
<1>8. TypeOK'
  <2>1. linked' = {} /\ restarts' \in Nat /\ UNCHANGED <<pc, assigned, outcome, built>>
    BY <1>1 DEF initWithStatePath, TypeOK
  <2>2. Len(jobs') = n
    BY <1>3 DEF n
  <2>. QED BY <1>1, <1>2, <1>3, <1>4, <2>1, <2>2 DEF TypeOK
<1>. QED BY <1>6, <1>7, <1>8 DEF QueueInvariant

(* The remaining steps leave the job list alone.                           *)
LEMMA otherStepsKeepInvariant ==
  ASSUME QueueInvariant, BuilderInvariant, NEW w \in Workers,
         \/ launchWorker(w) \/ registerWorker(w) \/ heartbeat(w) \/ RSRunJob(w)
         \/ callFails(w) \/ crashWorker(w) \/ heartbeatAges(w)
  PROVE  QueueInvariant'
<1>1. TypeOK /\ DurableQueue /\ RetryBudget
  BY DEF QueueInvariant
<1>2. UNCHANGED <<jobs, handouts>>
  BY DEF launchWorker, registerWorker, heartbeat, RSRunJob, callFails, crashWorker,
         heartbeatAges, Dies, controllerVars, historyVars
<1>3. RetryBudget'
  BY <1>1, <1>2 DEF RetryBudget
<1>4. registry' \in [Workers -> Registrations]
  <2>1. [state |-> "online", beat |-> "recent"] \in Registrations
    BY DEF Registrations
  <2>2. [registry[w] EXCEPT !.beat = "old"] \in Registrations
    <3>1. registry[w] \in Registrations
      BY <1>1 DEF TypeOK
    <3>. QED BY <3>1 DEF Registrations
  <2>3. \/ UNCHANGED registry
        \/ registry' = [registry EXCEPT ![w] = [state |-> "online", beat |-> "recent"]]
        \/ registry' = [registry EXCEPT ![w].beat = "old"]
    BY DEF launchWorker, registerWorker, heartbeat, RSRunJob, callFails, crashWorker,
           heartbeatAges, Dies, controllerVars
  <2>. QED BY <1>1, <2>1, <2>2, <2>3 DEF TypeOK
<1>5. /\ disk' \in [jobs : Seq(JobRecords), registry : [Workers -> Registrations]]
      /\ DurableQueue'
  <2>1. Save \/ UNCHANGED disk
    BY DEF launchWorker, registerWorker, heartbeat, RSRunJob, callFails, crashWorker,
           heartbeatAges, Dies, controllerVars
  <2>2. CASE Save
    BY <1>1, <1>2, <1>4, <2>2, SavedIsDurable DEF TypeOK
  <2>3. CASE UNCHANGED disk
    BY <1>1, <1>2, <2>3 DEF DurableQueue, TypeOK
  <2>. QED BY <2>1, <2>2, <2>3
<1>6. pc' \in [Workers -> WorkerPCs] /\ linked' \subseteq Workers
  BY <1>1 DEF launchWorker, registerWorker, heartbeat, RSRunJob, callFails, crashWorker,
              heartbeatAges, Dies, Calls, WorkerPCs, TypeOK, workerVars
<1>7. /\ assigned' \in [Workers -> Slices \cup {NoSlice}]
      /\ outcome' \in [Workers -> Outcomes \cup {"none"}]
      /\ restarts' = restarts
  BY <1>1 DEF launchWorker, registerWorker, heartbeat, RSRunJob, callFails, crashWorker,
              heartbeatAges, Dies, Calls, Outcomes, TypeOK, workerVars
<1>8. built' \subseteq Slices
  BY <1>1 DEF launchWorker, registerWorker, heartbeat, RSRunJob, callFails, crashWorker,
              heartbeatAges, Dies, TypeOK, historyVars, BuilderInvariant
<1>9. TypeOK'
  BY <1>1, <1>2, <1>4, <1>5, <1>6, <1>7, <1>8 DEF TypeOK
<1>. QED BY <1>3, <1>5, <1>9 DEF QueueInvariant

LEMMA NextKeepsQueueInvariant ==
  ASSUME FarmAssumption, QueueInvariant, BuilderInvariant, [Next]_vars
  PROVE  QueueInvariant'
<1>1. ASSUME NEW spec \in Specs, submitBuild(spec) PROVE QueueInvariant'
  BY <1>1, submitKeepsInvariant
<1>2. ASSUME NEW id \in SliceIDs, cancelJob(id) PROVE QueueInvariant'
  BY <1>2, cancelKeepsInvariant
<1>3. ASSUME NEW w \in Workers,
             launchWorker(w) \/ WorkerStep(w) \/ crashWorker(w) \/ heartbeatAges(w)
      PROVE  QueueInvariant'
  <2>1. CASE nextJobForWorker(w)
    BY <2>1, dispatchKeepsInvariant
  <2>2. CASE finishJob(w)
    BY <2>2, finishKeepsInvariant
  <2>3. CASE \/ launchWorker(w) \/ registerWorker(w) \/ heartbeat(w) \/ RSRunJob(w)
             \/ callFails(w) \/ crashWorker(w) \/ heartbeatAges(w)
    BY <2>3, otherStepsKeepInvariant
  <2>. QED BY <1>3, <2>1, <2>2, <2>3 DEF WorkerStep
<1>4. CASE reapWorkers
  BY <1>4, reapKeepsInvariant
<1>5. CASE initWithStatePath
  BY <1>5, restartKeepsInvariant
<1>6. CASE UNCHANGED vars
  BY <1>6 DEF vars, controllerVars, workerVars, historyVars, QueueInvariant, TypeOK,
              DurableQueue, RetryBudget
<1>. QED BY <1>1, <1>2, <1>3, <1>4, <1>5, <1>6 DEF Next

LEMMA ConcludedComplete ==
  ASSUME NEW job \in JobRecords, NEW result
  PROVE  /\ Slice(Concluded(job, result)) = Slice(job)
         /\ Concluded(job, result).id = job.id
         /\ Concluded(job, result).state = "complete" => result = "success"
<1>1. CASE result = "infrastructure" /\ job.retries < 1
  <2>1. Concluded(job, result) =
          [job EXCEPT !.state = "queued", !.retries = job.retries + 1, !.worker = NoWorker]
    BY <1>1 DEF Concluded
  <2>2. "queued" \in JobStates
    BY DEF JobStates
  <2>3. Concluded(job, result).state = "queued"
    BY <2>1, <2>2, RetriedJob
  <2>4. Concluded(job, result).id = job.id /\ Concluded(job, result).project = job.project
    BY <2>1 DEF JobRecords
  <2>. QED BY <2>3, <2>4 DEF Slice
<1>2. CASE ~(result = "infrastructure" /\ job.retries < 1)
  <2>1. Concluded(job, result) =
          [job EXCEPT !.state = IF result = "success" THEN "complete" ELSE "failed"]
    BY <1>2 DEF Concluded
  <2>. QED BY <2>1 DEF JobRecords, Slice
<1>. QED BY <1>1, <1>2

(* A job that a worker was ever given stays listed, as what it is: a       *)
(* restart forgets only jobs that were given to nobody.                    *)
LEMMA ReapedJobStays ==
  ASSUME NEW job \in JobRecords
  PROVE  Slice(Reaped(job)) = Slice(job) /\ Reaped(job).id = job.id
<1>1. Reaped(job).id = job.id /\ Reaped(job).project = job.project
  BY DEF Reaped, JobRecords
<1>. QED BY <1>1 DEF Slice

LEMMA NextKeepsOut ==
  ASSUME FarmAssumption, QueueInvariant, [Next]_vars,
         NEW slice, NEW i \in DOMAIN jobs, Out(slice, i)
  PROVE  Out(slice, i)'
<1>1. TypeOK /\ DurableQueue
  BY DEF QueueInvariant
<1>2. /\ Len(jobs) \in Nat /\ DOMAIN jobs = 1..Len(jobs) /\ DOMAIN handouts = 1..Len(jobs)
      /\ \A k \in DOMAIN jobs : jobs[k] \in JobRecords /\ handouts[k] \in Nat
  BY <1>1, JobListType
<1>3. CASE /\ DOMAIN jobs' = DOMAIN jobs
           /\ Slice(jobs'[i]) = Slice(jobs[i])
           /\ handouts'[i] >= handouts[i] /\ handouts'[i] \in Nat
  BY <1>2, <1>3 DEF Out
<1>4. ASSUME NEW spec \in Specs, submitBuild(spec) PROVE Out(slice, i)'
  <2>1. i \in DOMAIN jobs' /\ jobs'[i] = jobs[i] /\ handouts'[i] = handouts[i]
    BY <1>4, submitKeepsInvariant DEF Appended
  <2>. QED BY <2>1 DEF Out
<1>5. ASSUME NEW id \in SliceIDs, cancelJob(id) PROVE Out(slice, i)'
  <2>1. PICK k \in DOMAIN jobs : jobs' = [jobs EXCEPT ![k].state = "cancelled"]
    BY <1>5 DEF cancelJob
  <2>2. /\ DOMAIN jobs' = DOMAIN jobs
        /\ jobs'[k] = [jobs[k] EXCEPT !.state = "cancelled"]
        /\ \A m \in DOMAIN jobs : m # k => jobs'[m] = jobs[m]
    BY <1>2, <2>1
  <2>3. Slice(jobs'[i]) = Slice(jobs[i])
    BY <1>2, <2>2 DEF JobRecords, Slice
  <2>4. handouts' = handouts
    BY <1>5 DEF cancelJob, historyVars
  <2>. QED BY <1>2, <1>3, <2>2, <2>3, <2>4
<1>6. ASSUME NEW w \in Workers, nextJobForWorker(w) PROVE Out(slice, i)'
  <2>1. CASE UNCHANGED <<jobs, handouts>>
    BY <1>2, <1>3, <2>1
  <2>2. ASSUME NEW k \in DOMAIN jobs,
               jobs' = [jobs EXCEPT ![k].state = "running", ![k].worker = w],
               handouts' = [handouts EXCEPT ![k] = @ + 1]
        PROVE  Out(slice, i)'
    <3>1. /\ DOMAIN jobs' = DOMAIN jobs
          /\ jobs'[k] = [jobs[k] EXCEPT !.state = "running", !.worker = w]
          /\ \A m \in DOMAIN jobs : m # k => jobs'[m] = jobs[m]
      BY <1>2, <2>2
    <3>2. Slice(jobs'[i]) = Slice(jobs[i])
      BY <1>2, <3>1 DEF JobRecords, Slice
    <3>3. handouts'[i] >= handouts[i] /\ handouts'[i] \in Nat
      BY <1>2, <2>2
    <3>. QED BY <1>3, <3>1, <3>2, <3>3
  <2>. QED BY <1>6, <2>1, <2>2 DEF nextJobForWorker, controllerVars, historyVars
<1>7. ASSUME NEW w \in Workers, finishJob(w) PROVE Out(slice, i)'
  <2>1. /\ DOMAIN jobs' = DOMAIN jobs
        /\ jobs'[i] = jobs[i] \/ jobs'[i] = Concluded(jobs[i], outcome[w])
        /\ handouts' = handouts
    BY <1>7 DEF finishJob, historyVars
  <2>2. Slice(jobs'[i]) = Slice(jobs[i])
    BY <1>2, <2>1, ConcludedComplete
  <2>. QED BY <1>2, <1>3, <2>1, <2>2
<1>8. CASE reapWorkers
  <2>1. /\ DOMAIN jobs' = DOMAIN jobs
        /\ jobs'[i] = jobs[i] \/ jobs'[i] = Reaped(jobs[i])
        /\ handouts' = handouts
    BY <1>8 DEF reapWorkers, historyVars
  <2>2. Slice(jobs'[i]) = Slice(jobs[i])
    BY <1>2, <2>1, ReapedJobStays
  <2>. QED BY <1>2, <1>3, <2>1, <2>2
<1>9. CASE initWithStatePath
  <2>. DEFINE n == Len(disk.jobs)
  <2>1. /\ n \in Nat /\ n <= Len(jobs) /\ DOMAIN disk.jobs = 1..n
        /\ jobs' = disk.jobs /\ handouts' = SubSeq(handouts, 1, n)
    BY <1>1, <1>2, <1>9, JobListType, LenProperties
       DEF initWithStatePath, DurableQueue, TypeOK
  <2>2. i <= n
    <3>1. handouts[i] > 0
      BY DEF Out
    <3>2. i > n => handouts[i] = 0
      BY <1>1 DEF DurableQueue
    <3>3. handouts[i] \in Nat /\ i \in Nat
      BY <1>2
    <3>. HIDE DEF n
    <3>. QED BY <2>1, <3>1, <3>2, <3>3
  <2>3. i \in 1..n
    BY <1>2, <2>1, <2>2
  <2>4. jobs'[i] = jobs[i]
    BY <1>1, <2>1, <2>3 DEF DurableQueue
  <2>5. handouts'[i] = handouts[i]
    <3>1. \A k \in 1..n : handouts[k] \in Nat
      BY <1>2, <2>1
    <3>. HIDE DEF n
    <3>. QED BY <2>1, <2>3, <3>1, SubSeqProperties
  <2>. HIDE DEF n
  <2>6. i \in DOMAIN jobs'
    BY <2>1, <2>3
  <2>. QED BY <2>4, <2>5, <2>6 DEF Out
<1>10. CASE \/ UNCHANGED vars
            \/ \E w \in Workers : \/ launchWorker(w) \/ registerWorker(w) \/ heartbeat(w)
                                  \/ RSRunJob(w) \/ callFails(w) \/ crashWorker(w)
                                  \/ heartbeatAges(w)
  <2>1. UNCHANGED <<jobs, handouts>>
    BY <1>10 DEF vars, launchWorker, registerWorker, heartbeat, RSRunJob, callFails,
                 crashWorker, heartbeatAges, Dies, controllerVars, historyVars
  <2>. QED BY <1>2, <1>3, <2>1
<1>. QED BY <1>4, <1>5, <1>6, <1>7, <1>8, <1>9, <1>10 DEF Next, WorkerStep

(* Out in the next state.                                                  *)
OutNext(slice, k) ==
  /\ k \in DOMAIN jobs'
  /\ Slice(jobs'[k]) = slice
  /\ handouts'[k] > 0

(* A worker builds what it was handed, and what it was handed is out.      *)
LEMMA NextKeepsBuilderInvariant ==
  ASSUME FarmAssumption, QueueInvariant, BuilderInvariant, [Next]_vars
  PROVE  BuilderInvariant'
<1>1. TypeOK
  BY DEF QueueInvariant
<1>2. built \subseteq built'
  BY DEF Next, WorkerStep, vars, historyVars, submitBuild, cancelJob, launchWorker,
         registerWorker, heartbeat, nextJobForWorker, RSRunJob, finishJob, callFails,
         crashWorker, heartbeatAges, reapWorkers, initWithStatePath, Dies
<1>3. ASSUME NEW w \in Workers, pc[w] \in {"build", "report"}, assigned'[w] = assigned[w]
      PROVE  assigned'[w] \in Slices /\ \E k \in DOMAIN jobs' : OutNext(assigned'[w], k)
  <2>1. PICK k \in DOMAIN jobs : Out(assigned[w], k)
    BY <1>3 DEF BuilderInvariant
  <2>2. PICK held : held = assigned[w]
    OBVIOUS
  <2>3. Out(held, k)
    BY <2>1, <2>2
  <2>4. Out(held, k)'
    BY <2>1, <2>3, NextKeepsOut
  <2>5. OutNext(held, k)
    BY <2>4 DEF Out, OutNext
  <2>6. assigned[w] \in Slices
    BY <1>3 DEF BuilderInvariant
  <2>. QED BY <1>3, <2>2, <2>5, <2>6 DEF OutNext
<1>4. ASSUME NEW w \in Workers, pc'[w] \in {"build", "report"}
      PROVE  \/ /\ pc[w] \in {"build", "report"} /\ assigned'[w] = assigned[w]
                /\ \/ pc'[w] = pc[w] /\ outcome'[w] = outcome[w]
                   \/ outcome'[w] = "success" => assigned[w] \in built'
             \/ nextJobForWorker(w) /\ pc'[w] = "build"
  <2>. SUFFICES ASSUME ~nextJobForWorker(w)
                PROVE  /\ pc[w] \in {"build", "report"} /\ assigned'[w] = assigned[w]
                       /\ \/ pc'[w] = pc[w] /\ outcome'[w] = outcome[w]
                          \/ outcome'[w] = "success" => assigned[w] \in built'
    BY <1>1, <1>4 DEF nextJobForWorker, Calls, TypeOK
  <2>1. CASE UNCHANGED <<pc, assigned, outcome>>
    BY <1>4, <2>1
  <2>2. ASSUME NEW v \in Workers, WorkerStep(v) \/ launchWorker(v) \/ crashWorker(v), v # w
        PROVE  pc'[w] = pc[w] /\ assigned'[w] = assigned[w] /\ outcome'[w] = outcome[w]
    BY <1>1, <2>2 DEF WorkerStep, launchWorker, crashWorker, registerWorker, heartbeat,
       nextJobForWorker, RSRunJob, finishJob, callFails, Dies, Calls, TypeOK
  <2>3. CASE RSRunJob(w)
    BY <1>1, <2>3 DEF RSRunJob, TypeOK
  <2>4. CASE launchWorker(w) \/ registerWorker(w) \/ heartbeat(w)
    BY <1>1, <1>4, <2>4 DEF launchWorker, registerWorker, heartbeat, Calls, TypeOK
  <2>5. CASE finishJob(w) \/ callFails(w) \/ crashWorker(w)
    BY <1>1, <1>4, <2>5 DEF finishJob, callFails, crashWorker, Dies, Calls, TypeOK
  <2>6. CASE \/ \E spec \in Specs : submitBuild(spec)
             \/ \E id \in SliceIDs : cancelJob(id)
             \/ \E v \in Workers : heartbeatAges(v)
             \/ reapWorkers
             \/ initWithStatePath
             \/ UNCHANGED vars
    <3>1. UNCHANGED <<pc, assigned, outcome>>
      BY <2>6 DEF submitBuild, cancelJob, heartbeatAges, reapWorkers, initWithStatePath, vars,
                  workerVars
    <3>. QED BY <2>1, <3>1
  <2>7. ASSUME NEW v \in Workers, v = w, WorkerStep(v) \/ launchWorker(v) \/ crashWorker(v)
        PROVE  \/ RSRunJob(w) \/ launchWorker(w) \/ registerWorker(w) \/ heartbeat(w)
               \/ finishJob(w) \/ callFails(w) \/ crashWorker(w)
    BY <2>7 DEF WorkerStep
  <2>. QED BY <1>4, <2>2, <2>3, <2>4, <2>5, <2>6, <2>7 DEF Next
<1>5. ASSUME NEW w \in Workers, nextJobForWorker(w), pc'[w] = "build"
      PROVE  assigned'[w] \in Slices /\ \E k \in DOMAIN jobs' : OutNext(assigned'[w], k)
  <2>1. PICK i \in DOMAIN jobs :
          /\ jobs' = [jobs EXCEPT ![i].state = "running", ![i].worker = w]
          /\ handouts' = [handouts EXCEPT ![i] = @ + 1]
          /\ assigned' = [assigned EXCEPT ![w] = Slice(jobs[i])]
    BY <1>1, <1>5 DEF nextJobForWorker, Calls, TypeOK
  <2>2. /\ jobs[i] \in JobRecords /\ handouts[i] \in Nat
        /\ DOMAIN jobs' = DOMAIN jobs /\ i \in DOMAIN handouts
        /\ jobs'[i] = [jobs[i] EXCEPT !.state = "running", !.worker = w]
    BY <1>1, <2>1, JobListType
  <2>3. assigned'[w] = Slice(jobs[i]) /\ handouts'[i] > 0
    BY <1>1, <2>1, <2>2 DEF TypeOK
  <2>4. Slice(jobs[i]) \in Slices /\ Slice(jobs'[i]) = Slice(jobs[i])
    BY <2>2 DEF JobRecords, Slice, Slices
  <2>. QED BY <2>2, <2>3, <2>4 DEF OutNext
<1>. SUFFICES ASSUME NEW w \in Workers, pc'[w] \in {"build", "report"}
              PROVE  /\ assigned'[w] \in Slices
                     /\ \E k \in DOMAIN jobs' : OutNext(assigned'[w], k)
                     /\ pc'[w] = "report" /\ outcome'[w] = "success" => assigned'[w] \in built'
  BY DEF BuilderInvariant, Out, OutNext
<1>6. CASE nextJobForWorker(w) /\ pc'[w] = "build"
  BY <1>5, <1>6
<1>7. CASE /\ pc[w] \in {"build", "report"} /\ assigned'[w] = assigned[w]
           /\ \/ pc'[w] = pc[w] /\ outcome'[w] = outcome[w]
              \/ outcome'[w] = "success" => assigned[w] \in built'
  <2>1. assigned'[w] \in Slices /\ \E k \in DOMAIN jobs' : OutNext(assigned'[w], k)
    BY <1>3, <1>7
  <2>2. pc'[w] = "report" /\ outcome'[w] = "success" => assigned'[w] \in built'
    BY <1>2, <1>7 DEF BuilderInvariant
  <2>. QED BY <2>1, <2>2
<1>. QED BY <1>4, <1>6, <1>7

(* The success a complete job was closed with came from a make under its   *)
(* ID, because reports carry the jobID the worker was given.               *)
LEMMA NextKeepsCompletionsAreMakes ==
  ASSUME FarmAssumption, QueueInvariant, BuilderInvariant, CompletionsAreMakes, [Next]_vars
  PROVE  CompletionsAreMakes'
<1>1. TypeOK /\ DurableQueue
  BY DEF QueueInvariant
<1>2. /\ Len(jobs) \in Nat /\ DOMAIN jobs = 1..Len(jobs)
      /\ \A i \in DOMAIN jobs : jobs[i] \in JobRecords
  BY <1>1, JobListType
<1>3. ASSUME NEW id, BuiltUnder(id) PROVE BuiltUnder(id)'
  <2>1. built \subseteq built'
    BY DEF Next, WorkerStep, vars, historyVars, submitBuild, cancelJob, launchWorker,
           registerWorker, heartbeat, nextJobForWorker, RSRunJob, finishJob, callFails,
           crashWorker, heartbeatAges, reapWorkers, initWithStatePath, Dies
  <2>2. PICK slice \in built : slice.id = id /\ \E k \in DOMAIN jobs : Out(slice, k)
    BY <1>3 DEF BuiltUnder
  <2>3. PICK k \in DOMAIN jobs : Out(slice, k)
    BY <2>2
  <2>4. Out(slice, k)'
    BY <2>3, NextKeepsOut
  <2>5. k \in DOMAIN jobs'
    BY <2>4 DEF Out
  <2>. QED BY <2>1, <2>2, <2>4, <2>5 DEF BuiltUnder
<1>4. CASE \A i \in DOMAIN jobs' :
             jobs'[i].state = "complete" =>
               /\ i \in DOMAIN jobs
               /\ jobs[i].state = "complete"
               /\ jobs'[i].id = jobs[i].id
  BY <1>3, <1>4 DEF CompletionsAreMakes
<1>5. ASSUME NEW spec \in Specs, submitBuild(spec) PROVE CompletionsAreMakes'
  <2>1. Appended
    BY <1>5, submitKeepsInvariant
  <2>. QED BY <1>4, <2>1 DEF Appended
<1>6. ASSUME NEW id \in SliceIDs, cancelJob(id) PROVE CompletionsAreMakes'
  <2>1. PICK i \in DOMAIN jobs : jobs' = [jobs EXCEPT ![i].state = "cancelled"]
    BY <1>6 DEF cancelJob
  <2>2. /\ DOMAIN jobs' = DOMAIN jobs
        /\ jobs'[i] = [jobs[i] EXCEPT !.state = "cancelled"]
        /\ \A k \in DOMAIN jobs : k # i => jobs'[k] = jobs[k]
    BY <1>2, <2>1
  <2>3. jobs'[i].state = "cancelled"
    BY <1>2, <2>2 DEF JobRecords
  <2>. QED BY <1>4, <2>2, <2>3
<1>7. ASSUME NEW w \in Workers, nextJobForWorker(w) PROVE CompletionsAreMakes'
  <2>1. CASE UNCHANGED jobs
    BY <1>4, <2>1
  <2>2. ASSUME NEW i \in DOMAIN jobs,
               jobs' = [jobs EXCEPT ![i].state = "running", ![i].worker = w]
        PROVE  CompletionsAreMakes'
    <3>1. /\ DOMAIN jobs' = DOMAIN jobs
          /\ jobs'[i] = [jobs[i] EXCEPT !.state = "running", !.worker = w]
          /\ \A k \in DOMAIN jobs : k # i => jobs'[k] = jobs[k]
      BY <1>2, <2>2
    <3>2. jobs'[i].state = "running"
      BY <1>2, <3>1 DEF JobRecords
    <3>. QED BY <1>4, <3>1, <3>2
  <2>. QED BY <1>7, <2>1, <2>2 DEF nextJobForWorker, controllerVars
<1>8. ASSUME NEW w \in Workers, finishJob(w) PROVE CompletionsAreMakes'
  <2>. DEFINE Reported(job) == job.id = assigned[w].id
  <2>1. jobs' = [i \in DOMAIN jobs |->
                   IF IsFirstWith(i, Reported) THEN Concluded(jobs[i], outcome[w])
                                               ELSE jobs[i]]
    BY <1>8 DEF finishJob
  <2>2. pc[w] = "report"
    BY <1>8 DEF finishJob, Calls
  <2>3. outcome[w] = "success" => BuiltUnder(assigned[w].id)
    BY <2>2 DEF BuilderInvariant, BuiltUnder
  <2>4. ASSUME NEW i \in DOMAIN jobs, jobs'[i].state = "complete"
        PROVE  BuiltUnder(jobs'[i].id)
    <3>1. CASE IsFirstWith(i, Reported)
      <4>1. jobs[i].id = assigned[w].id
        BY <3>1 DEF IsFirstWith
      <4>2. jobs'[i] = Concluded(jobs[i], outcome[w])
        BY <2>1, <3>1
      <4>3. jobs'[i].id = assigned[w].id /\ outcome[w] = "success"
        BY <1>2, <2>4, <4>1, <4>2, ConcludedComplete
      <4>. QED BY <2>3, <4>3
    <3>2. CASE ~IsFirstWith(i, Reported)
      <4>1. jobs'[i] = jobs[i]
        BY <2>1, <3>2
      <4>. QED BY <2>4, <4>1 DEF CompletionsAreMakes
    <3>. QED BY <3>1, <3>2
  <2>5. DOMAIN jobs' = DOMAIN jobs
    BY <2>1
  <2>. QED BY <1>3, <2>4, <2>5 DEF CompletionsAreMakes
<1>9. CASE reapWorkers
  <2>1. /\ DOMAIN jobs' = DOMAIN jobs
        /\ \A i \in DOMAIN jobs : jobs'[i] = jobs[i] \/ jobs'[i] = Reaped(jobs[i])
    BY <1>9 DEF reapWorkers
  <2>2. ASSUME NEW job \in JobRecords PROVE Reaped(job).state # "complete"
    <3>1. PICK s \in {"queued", "failed"} :
            Reaped(job) = [job EXCEPT !.state = s, !.retries = job.retries + 1,
                                      !.worker = NoWorker]
      <4>1. CASE job.retries < 1
        BY <4>1 DEF Reaped
      <4>2. CASE ~(job.retries < 1)
        BY <4>2 DEF Reaped
      <4>. QED BY <4>1, <4>2
    <3>2. s \in JobStates
      BY DEF JobStates
    <3>. QED BY <3>1, <3>2, RetriedJob
  <2>. QED BY <1>2, <1>4, <2>1, <2>2
<1>10. CASE initWithStatePath
  <2>1. jobs' = disk.jobs /\ disk.jobs \in Seq(JobRecords)
    BY <1>1, <1>10 DEF initWithStatePath, TypeOK
  <2>2. DOMAIN jobs' = 1..Len(disk.jobs) /\ Len(disk.jobs) \in Nat
    BY <2>1, LenProperties
  <2>. QED BY <1>1, <1>2, <1>4, <2>1, <2>2 DEF DurableQueue
<1>11. CASE \/ UNCHANGED vars
            \/ \E w \in Workers : \/ launchWorker(w) \/ registerWorker(w) \/ heartbeat(w)
                                  \/ RSRunJob(w) \/ callFails(w) \/ crashWorker(w)
                                  \/ heartbeatAges(w)
  <2>1. UNCHANGED jobs
    BY <1>11 DEF vars, launchWorker, registerWorker, heartbeat, RSRunJob, callFails,
                 crashWorker, heartbeatAges, Dies, controllerVars
  <2>. QED BY <1>4, <2>1
<1>. QED BY <1>5, <1>6, <1>7, <1>8, <1>9, <1>10, <1>11 DEF Next, WorkerStep

-----------------------------------------------------------------------------
(* Types are preserved, the disk agrees with memory, the retry budget is   *)
(* kept, and completion means a successful make: all four are needed to    *)
(* prove any of the last three.                                            *)
THEOREM FarmInvariantHolds == Spec => []FarmInvariant
<1>1. Init => FarmInvariant
  BY InitQueueInvariant DEF Init, FarmInvariant, BuilderInvariant, CompletionsAreMakes
<1>2. FarmInvariant /\ [Next]_vars => FarmInvariant'
  BY FarmAssumption, NextKeepsQueueInvariant, NextKeepsBuilderInvariant,
     NextKeepsCompletionsAreMakes DEF FarmInvariant
<1>. QED BY <1>1, <1>2, PTL DEF Spec

(* Type correctness of the farm.                                           *)
THEOREM FarmTypeOK == Spec => []TypeOK
<1>1. FarmInvariant => TypeOK
  BY DEF FarmInvariant, QueueInvariant
<1>. QED BY <1>1, FarmInvariantHolds, PTL

(* No job is handed out more than twice, however workers die, reports      *)
(* arrive late and the controller restarts.                                *)
THEOREM RetriedOnlyOnce == Spec => []HandedOutAtMostTwice
<1>1. FarmInvariant => HandedOutAtMostTwice
  BY JobListType DEF FarmInvariant, QueueInvariant, RetryBudget, HandedOutAtMostTwice
<1>. QED BY <1>1, FarmInvariantHolds, PTL

(* What a restart loads is the queue, up to slices of a rejected           *)
(* submission that nobody was given.                                       *)
THEOREM QueueIsDurable == Spec => []DurableQueue
<1>1. FarmInvariant => DurableQueue
  BY DEF FarmInvariant, QueueInvariant
<1>. QED BY <1>1, FarmInvariantHolds, PTL

(* A job is complete only if a make in its own project succeeded under its *)
(* ID, or a job of another project has the same ID: the make was then one  *)
(* of a job listed under that ID (CompletionsAreMakes).                    *)
THEOREM CompletionIsEarned == Spec => [](CompleteWasBuilt /\ CompletionsAreMakes)
<1>1. FarmInvariant => CompleteWasBuilt
  <2>. SUFFICES ASSUME FarmInvariant, NEW i \in DOMAIN jobs,
                       jobs[i].state = "complete", IDOfOneProject(jobs[i])
                PROVE  Slice(jobs[i]) \in built
    BY DEF CompleteWasBuilt
  <2>1. PICK slice \in built : /\ slice.id = jobs[i].id
                               /\ \E k \in DOMAIN jobs : Out(slice, k)
    BY DEF FarmInvariant, CompletionsAreMakes, BuiltUnder
  <2>2. PICK k \in DOMAIN jobs : Slice(jobs[k]) = slice
    BY <2>1 DEF Out
  <2>3. jobs[k].id = jobs[i].id
    BY <2>1, <2>2 DEF Slice
  <2>4. Slice(jobs[k]) = Slice(jobs[i])
    BY <2>3 DEF IDOfOneProject, Slice
  <2>. QED BY <2>2, <2>4
<1>2. FarmInvariant => CompletionsAreMakes
  BY DEF FarmInvariant
<1>. QED BY <1>1, <1>2, FarmInvariantHolds, PTL

-----------------------------------------------------------------------------
(* One builder per slice, in an orderly farm.                              *)

(* No worker in its loop becomes silent: only a worker that is down can.   *)
LEMMA NextKeepsWorkersHeard ==
  ASSUME TypeOK, Orderly, WorkersAreHeard, [Next]_vars
  PROVE  WorkersAreHeard'
<1>. USE DEF WorkersAreHeard
<1>1. CASE UNCHANGED <<restarts, pc, linked, registry>>
  BY <1>1
<1>2. ASSUME NEW w \in Workers, launchWorker(w) PROVE WorkersAreHeard'
  BY <1>2 DEF launchWorker, TypeOK, controllerVars
<1>3. ASSUME NEW w \in Workers, registerWorker(w) PROVE WorkersAreHeard'
  BY <1>3 DEF registerWorker, Calls, TypeOK
<1>4. ASSUME NEW w \in Workers, heartbeat(w) PROVE WorkersAreHeard'
  <2>1. /\ pc[w] = "heartbeat" /\ pc' = [pc EXCEPT ![w] = "poll"]
        /\ UNCHANGED <<restarts, linked>>
        /\ registry[w] = [state |-> "online", beat |-> "recent"]
    BY <1>4 DEF heartbeat, Calls
  <2>2. UNCHANGED registry
    <3>1. registry \in [Workers -> Registrations]
      BY DEF TypeOK
    <3>2. [registry EXCEPT ![w] = [state |-> "online", beat |-> "recent"]] = registry
      BY <2>1, <3>1
    <3>. QED BY <1>4, <3>2 DEF heartbeat
  <2>. QED BY <2>1, <2>2 DEF TypeOK
<1>5. ASSUME NEW w \in Workers, nextJobForWorker(w) PROVE WorkersAreHeard'
  BY <1>5 DEF nextJobForWorker, Calls, TypeOK, controllerVars
<1>6. ASSUME NEW w \in Workers, RSRunJob(w) PROVE WorkersAreHeard'
  BY <1>6 DEF RSRunJob, TypeOK, controllerVars
<1>7. ASSUME NEW w \in Workers, finishJob(w) PROVE WorkersAreHeard'
  BY <1>7 DEF finishJob, Calls, TypeOK
<1>8. ASSUME NEW w \in Workers, callFails(w) \/ crashWorker(w) PROVE WorkersAreHeard'
  BY <1>8 DEF callFails, crashWorker, Dies, TypeOK, controllerVars
<1>9. ASSUME NEW w \in Workers, heartbeatAges(w) PROVE WorkersAreHeard'
  <2>1. pc[w] = "down"
    BY <1>9 DEF heartbeatAges, Orderly, TypeOK
  <2>. QED BY <1>9, <2>1 DEF heartbeatAges, TypeOK, workerVars
<1>10. CASE reapWorkers
  <2>1. \A w \in Workers :
          registry[w] = [state |-> "online", beat |-> "recent"] => registry'[w] = registry[w]
    BY <1>10 DEF reapWorkers, Offline, Silent
  <2>. QED BY <1>10, <2>1 DEF reapWorkers, workerVars
<1>11. CASE initWithStatePath
  BY <1>11 DEF initWithStatePath, Orderly
<1>12. ASSUME \/ \E spec \in Specs : submitBuild(spec)
              \/ \E id \in SliceIDs : cancelJob(id)
              \/ UNCHANGED vars
       PROVE  UNCHANGED <<restarts, pc, linked, registry>>
  BY <1>12 DEF submitBuild, cancelJob, vars, controllerVars, workerVars
<1>. QED BY <1>1, <1>2, <1>3, <1>4, <1>5, <1>6, <1>7, <1>8, <1>9, <1>10, <1>11, <1>12
         DEF Next, WorkerStep

(* A step that rewrites jobs in place keeps their IDs apart.               *)
LEMMA IDsStayApart ==
  ASSUME OneJobPerID, DOMAIN jobs' = DOMAIN jobs,
         \A k \in DOMAIN jobs : jobs'[k].id = jobs[k].id
  PROVE  OneJobPerID'
BY DEF OneJobPerID

(* A report or a reaped worker leaves a job its ID.                        *)
LEMMA RewritingKeepsID ==
  ASSUME NEW job \in JobRecords, NEW result
  PROVE  Concluded(job, result).id = job.id /\ Reaped(job).id = job.id
<1>1. Reaped(job).id = job.id
  BY ReapedJobStays
<1>. QED BY <1>1, ConcludedComplete

(* A submission brings IDs that are new and differ from each other.        *)
LEMMA SubmissionStaysOrderly ==
  ASSUME FarmAssumption, TypeOK, TypeOK', Orderly, OrderlyInvariant,
         NEW spec \in Specs, submitBuild(spec)
  PROVE  OneJobPerID' /\ HoldersKeepSlices' /\ OneBuilderPerSlice'
<1>1. PICK n \in 0..Len(spec.archs) :
        /\ jobs' = jobs \o [k \in 1..n |-> QueuedJob(<<spec.name, spec.archs[k]>>, spec.project)]
        /\ SupportedPrefix(spec.archs, n)
  BY DEF submitBuild
<1>. DEFINE new == [k \in 1..n |-> QueuedJob(<<spec.name, spec.archs[k]>>, spec.project)]
<1>2. Len(spec.archs) \in Nat /\ n \in Nat /\ DOMAIN spec.archs = 1..Len(spec.archs)
  BY LenProperties DEF FarmAssumption
<1>3. new \in Seq(JobRecords) /\ Len(new) = n
  <2>1. \A k \in 1..n : <<spec.name, spec.archs[k]>> \in SliceIDs
    BY <1>1 DEF SupportedPrefix, SliceIDs
  <2>2. spec.project \in Projects
    BY DEF Projects
  <2>3. new \in [1..n -> JobRecords]
    BY <2>1, <2>2, QueuedJobType
  <2>. QED BY <1>2, <2>3, SegmentIsSeq
<1>4. \A k \in 1..n : new[k].id = <<spec.name, spec.archs[k]>>
  BY DEF QueuedJob
<1>5. jobs \in Seq(JobRecords) /\ Len(jobs) \in Nat /\ DOMAIN jobs = 1..Len(jobs)
  BY JobListType DEF TypeOK
<1>6. jobs' = jobs \o new
  BY <1>1
<1>. HIDE DEF new
<1>7. DOMAIN jobs' = 1..(Len(jobs) + n)
      /\ \A i \in 1..(Len(jobs) + n) :
           jobs'[i] = IF i <= Len(jobs) THEN jobs[i] ELSE new[i - Len(jobs)]
  <2>1. /\ jobs \o new \in Seq(JobRecords) /\ Len(jobs \o new) = Len(jobs) + Len(new)
        /\ \A i \in 1..(Len(jobs) + Len(new)) :
             (jobs \o new)[i] = IF i <= Len(jobs) THEN jobs[i] ELSE new[i - Len(jobs)]
    BY <1>3, <1>5, ConcatProperties
  <2>2. DOMAIN (jobs \o new) = 1..(Len(jobs) + Len(new))
    BY <2>1, LenProperties
  <2>. QED BY <1>3, <1>6, <2>1, <2>2
<1>8. \A i \in DOMAIN jobs : jobs[i].id[1] # spec.name
  BY DEF submitBuild, Orderly
<1>9. OneJobPerID'
  <2>. SUFFICES ASSUME NEW i \in 1..(Len(jobs) + n), NEW k \in 1..(Len(jobs) + n),
                       jobs'[i].id = jobs'[k].id
                PROVE  i = k
    BY <1>7 DEF OneJobPerID
  <2>1. \A j \in 1..(Len(jobs) + n) :
          \/ j \in DOMAIN jobs /\ jobs'[j] = jobs[j] /\ jobs'[j].id[1] # spec.name
          \/ /\ j - Len(jobs) \in 1..n
             /\ jobs'[j].id = <<spec.name, spec.archs[j - Len(jobs)]>>
    <3>. SUFFICES ASSUME NEW j \in 1..(Len(jobs) + n)
                  PROVE  \/ j \in DOMAIN jobs /\ jobs'[j] = jobs[j] /\ jobs'[j].id[1] # spec.name
                         \/ /\ j - Len(jobs) \in 1..n
                            /\ jobs'[j].id = <<spec.name, spec.archs[j - Len(jobs)]>>
      OBVIOUS
    <3>1. CASE j <= Len(jobs)
      <4>1. j \in DOMAIN jobs
        BY <1>2, <1>5, <3>1
      <4>2. jobs'[j] = jobs[j]
        BY <1>7, <3>1
      <4>. QED BY <1>8, <4>1, <4>2
    <3>2. CASE ~(j <= Len(jobs))
      <4>1. j - Len(jobs) \in 1..n
        BY <1>2, <1>5, <3>2
      <4>. QED BY <1>4, <1>7, <3>2, <4>1
    <3>. QED BY <3>1, <3>2
  <2>2. CASE i \in DOMAIN jobs /\ k \in DOMAIN jobs /\ jobs'[i] = jobs[i] /\ jobs'[k] = jobs[k]
    BY <2>2 DEF OrderlyInvariant, OneJobPerID
  <2>3. CASE /\ i - Len(jobs) \in 1..n /\ jobs'[i].id = <<spec.name, spec.archs[i - Len(jobs)]>>
             /\ k - Len(jobs) \in 1..n /\ jobs'[k].id = <<spec.name, spec.archs[k - Len(jobs)]>>
    <3>. DEFINE a == spec.archs[i - Len(jobs)]
                b == spec.archs[k - Len(jobs)]
    <3>0. jobs'[i].id = <<spec.name, a>> /\ jobs'[k].id = <<spec.name, b>>
      BY <2>3
    <3>. HIDE DEF a, b
    <3>1. <<spec.name, a>> = <<spec.name, b>>
      BY <3>0
    <3>2. a = b
      BY <3>1
    <3>. USE DEF a, b
    <3>3. i - Len(jobs) \in DOMAIN spec.archs /\ k - Len(jobs) \in DOMAIN spec.archs
      BY <1>2, <2>3
    <3>4. i - Len(jobs) = k - Len(jobs)
      BY <3>2, <3>3 DEF Orderly
    <3>. QED BY <1>2, <1>5, <3>4
  <2>4. CASE \/ jobs'[i].id[1] # spec.name /\ \E a : jobs'[k].id = <<spec.name, a>>
             \/ jobs'[k].id[1] # spec.name /\ \E a : jobs'[i].id = <<spec.name, a>>
    BY <2>4
  <2>. QED BY <2>1, <2>2, <2>3, <2>4
<1>10. UNCHANGED <<pc, assigned>>
  BY DEF submitBuild, workerVars
<1>11. \A i \in DOMAIN jobs : i \in DOMAIN jobs' /\ jobs'[i] = jobs[i]
  BY <1>2, <1>5, <1>7
<1>. QED BY <1>9, <1>10, <1>11 DEF OrderlyInvariant, HoldersKeepSlices, OneBuilderPerSlice, Keeps

(* A step that changes no assignment, and no job but for cancelling it or  *)
(* taking it from a silent worker, leaves every holder its slice.          *)
LEMMA HoldersStay ==
  ASSUME OrderlyInvariant, DOMAIN jobs' = DOMAIN jobs,
         \A k \in DOMAIN jobs : jobs'[k].id = jobs[k].id,
         \A k \in DOMAIN jobs, w \in Workers :
           assigned[w] # NoSlice /\ Keeps(w, jobs[k]) =>
             \/ jobs'[k].state = "running" /\ jobs'[k].worker = w
             \/ jobs'[k].state = "cancelled",
         UNCHANGED <<pc, assigned>>
  PROVE  OneJobPerID' /\ HoldersKeepSlices' /\ OneBuilderPerSlice'
BY IDsStayApart DEF OrderlyInvariant, HoldersKeepSlices, OneBuilderPerSlice, Keeps

LEMMA CancellingStaysOrderly ==
  ASSUME TypeOK, OrderlyInvariant, NEW id, cancelJob(id)
  PROVE  OneJobPerID' /\ HoldersKeepSlices' /\ OneBuilderPerSlice'
<1>1. PICK i \in DOMAIN jobs : jobs' = [jobs EXCEPT ![i].state = "cancelled"]
  BY DEF cancelJob
<1>2. /\ DOMAIN jobs' = DOMAIN jobs
      /\ jobs'[i] = [jobs[i] EXCEPT !.state = "cancelled"] /\ jobs[i] \in JobRecords
      /\ \A k \in DOMAIN jobs : k # i => jobs'[k] = jobs[k]
  BY <1>1, JobListType
<1>3. jobs'[i].id = jobs[i].id /\ jobs'[i].state = "cancelled"
  BY <1>2 DEF JobRecords
<1>4. UNCHANGED <<pc, assigned>>
  BY DEF cancelJob, workerVars
<1>. QED BY <1>2, <1>3, <1>4, HoldersStay DEF Keeps

(* The reaper takes jobs from silent workers, and those hold nothing.      *)
LEMMA ReapingStaysOrderly ==
  ASSUME TypeOK, OrderlyInvariant, reapWorkers
  PROVE  OneJobPerID' /\ HoldersKeepSlices' /\ OneBuilderPerSlice'
<1>1. jobs' = [i \in DOMAIN jobs |->
                IF /\ jobs[i].state = "running"
                   /\ jobs[i].worker \in Workers
                   /\ Silent(jobs[i].worker)
                THEN Reaped(jobs[i]) ELSE jobs[i]]
  BY DEF reapWorkers
<1>2. DOMAIN jobs' = DOMAIN jobs /\ \A k \in DOMAIN jobs : jobs'[k].id = jobs[k].id
  BY <1>1, JobListType, RewritingKeepsID
<1>3. ASSUME NEW k \in DOMAIN jobs, NEW w \in Workers, assigned[w] # NoSlice, Keeps(w, jobs[k])
      PROVE  jobs'[k] = jobs[k]
  <2>1. ~Silent(w)
    BY <1>3 DEF OrderlyInvariant, HoldersKeepSlices, WorkersAreHeard, Silent
  <2>. QED BY <1>1, <1>3, <2>1 DEF Keeps
<1>4. UNCHANGED <<pc, assigned>>
  BY DEF reapWorkers, workerVars
<1>. QED BY <1>2, <1>3, <1>4, HoldersStay DEF Keeps

(* A queued job is nobody's, so the worker that gets it is its only one.   *)
LEMMA DispatchStaysOrderly ==
  ASSUME FarmAssumption, TypeOK, OrderlyInvariant, NEW w \in Workers, nextJobForWorker(w)
  PROVE  OneJobPerID' /\ HoldersKeepSlices' /\ OneBuilderPerSlice'
<1>1. CASE Calls(w, "poll", "heartbeat") /\ UNCHANGED <<controllerVars, assigned>>
  <2>1. UNCHANGED <<jobs, assigned>> /\ pc[w] = "poll" /\ pc' = [pc EXCEPT ![w] = "heartbeat"]
    BY <1>1 DEF Calls, controllerVars
  <2>2. assigned[w] = NoSlice
    BY <2>1 DEF OrderlyInvariant, HoldersKeepSlices
  <2>. QED BY <2>1, <2>2 DEF OrderlyInvariant, OneJobPerID, HoldersKeepSlices,
                             OneBuilderPerSlice, Keeps, TypeOK
<1>2. CASE /\ Calls(w, "poll", "build")
           /\ \E i \in DOMAIN jobs :
                /\ IsFirstWith(i, Dispatchable)
                /\ jobs' = [jobs EXCEPT ![i].state = "running", ![i].worker = w]
                /\ assigned' = [assigned EXCEPT ![w] = Slice(jobs[i])]
  <2>1. PICK i \in DOMAIN jobs :
          /\ jobs[i].state = "queued"
          /\ jobs' = [jobs EXCEPT ![i].state = "running", ![i].worker = w]
          /\ assigned' = [assigned EXCEPT ![w] = Slice(jobs[i])]
    BY <1>2 DEF IsFirstWith, Dispatchable
  <2>2. pc[w] = "poll" /\ pc' = [pc EXCEPT ![w] = "build"]
    BY <1>2 DEF Calls
  <2>3. /\ DOMAIN jobs' = DOMAIN jobs /\ jobs[i] \in JobRecords
        /\ jobs'[i] = [jobs[i] EXCEPT !.state = "running", !.worker = w]
        /\ \A k \in DOMAIN jobs : k # i => jobs'[k] = jobs[k]
    BY <2>1, JobListType
  <2>4. jobs'[i].id = jobs[i].id /\ jobs'[i].state = "running" /\ jobs'[i].worker = w
    BY <2>3 DEF JobRecords
  <2>5. OneJobPerID'
    BY <2>3, <2>4, IDsStayApart DEF OrderlyInvariant
  <2>6. \A v \in Workers : assigned[v] # NoSlice =>
          /\ assigned[v].id # jobs[i].id
          /\ \A k \in DOMAIN jobs : Keeps(v, jobs[k]) => k # i
    BY <2>1 DEF OrderlyInvariant, OneJobPerID, HoldersKeepSlices, Keeps
  <2>7. \A v \in Workers : v # w => assigned'[v] = assigned[v] /\ pc'[v] = pc[v]
    BY <2>1, <2>2
  <2>8. assigned'[w] = Slice(jobs[i]) /\ assigned'[w].id = jobs[i].id /\ pc'[w] = "build"
    BY <2>1, <2>2 DEF TypeOK, Slice
  <2>9. HoldersKeepSlices'
    <3>1. ASSUME NEW v \in Workers, v # w, assigned'[v] # NoSlice
          PROVE  pc'[v] \in {"build", "report"} /\ \E k \in DOMAIN jobs' : Keeps(v, jobs[k])'
      <4>1. PICK k \in DOMAIN jobs : Keeps(v, jobs[k])
        BY <2>7, <3>1 DEF OrderlyInvariant, HoldersKeepSlices
      <4>2. jobs'[k] = jobs[k]
        BY <2>3, <2>6, <2>7, <3>1, <4>1
      <4>3. Keeps(v, jobs[k])'
        BY <2>7, <3>1, <4>1, <4>2 DEF Keeps
      <4>. QED BY <2>3, <2>7, <3>1, <4>3 DEF OrderlyInvariant, HoldersKeepSlices
    <3>2. pc'[w] \in {"build", "report"} /\ Keeps(w, jobs[i])'
      BY <2>4, <2>8 DEF Keeps
    <3>. QED BY <2>3, <3>1, <3>2 DEF HoldersKeepSlices
  <2>10. OneBuilderPerSlice'
    <3>. SUFFICES ASSUME NEW u \in Workers, NEW v \in Workers, u # v,
                         assigned'[u] # NoSlice, assigned'[v] # NoSlice
                  PROVE  assigned'[u].id # assigned'[v].id
      BY DEF OneBuilderPerSlice
    <3>1. CASE u = w
      BY <2>6, <2>7, <2>8, <3>1
    <3>2. CASE v = w
      BY <2>6, <2>7, <2>8, <3>2
    <3>3. CASE u # w /\ v # w
      BY <2>7, <3>3 DEF OrderlyInvariant, OneBuilderPerSlice
    <3>. QED BY <3>1, <3>2, <3>3
  <2>. QED BY <2>5, <2>9, <2>10
<1>. QED BY <1>1, <1>2 DEF nextJobForWorker

(* A report concerns the reporter's own slice, which it then lets go.      *)
LEMMA ReportStaysOrderly ==
  ASSUME TypeOK, BuilderInvariant, OrderlyInvariant, NEW w \in Workers, finishJob(w)
  PROVE  OneJobPerID' /\ HoldersKeepSlices' /\ OneBuilderPerSlice'
<1>1. /\ DOMAIN jobs' = DOMAIN jobs
      /\ \A k \in DOMAIN jobs : jobs'[k] = jobs[k]
                                \/ /\ jobs'[k] = Concluded(jobs[k], outcome[w])
                                   /\ jobs[k].id = assigned[w].id
  BY DEF finishJob, IsFirstWith
<1>2. /\ assigned' = [assigned EXCEPT ![w] = NoSlice] /\ pc' = [pc EXCEPT ![w] = "heartbeat"]
  BY DEF finishJob, Calls
<1>3. OneJobPerID'
  BY <1>1, JobListType, RewritingKeepsID, IDsStayApart DEF OrderlyInvariant
<1>4. ASSUME NEW v \in Workers, assigned'[v] # NoSlice
      PROVE  pc'[v] \in {"build", "report"} /\ \E k \in DOMAIN jobs' : Keeps(v, jobs[k])'
  <2>1. v # w /\ assigned'[v] = assigned[v] /\ pc'[v] = pc[v]
    BY <1>2, <1>4 DEF TypeOK
  <2>5. assigned[v].id # assigned[w].id
    <3>1. pc[w] = "report"
      BY DEF finishJob, Calls
    <3>2. assigned[w] # NoSlice
      BY <3>1, FarmAssumption DEF BuilderInvariant, Slices, SliceIDs, Architectures, Projects, FarmAssumption
    <3>. QED BY <1>4, <2>1, <3>2 DEF OrderlyInvariant, OneBuilderPerSlice
  <2>2. PICK k \in DOMAIN jobs : Keeps(v, jobs[k])
    BY <1>4, <2>1 DEF OrderlyInvariant, HoldersKeepSlices
  <2>3. jobs'[k] = jobs[k]
    BY <1>1, <2>5, <2>2 DEF Keeps
  <2>4. Keeps(v, jobs[k])'
    BY <2>1, <2>2, <2>3 DEF Keeps
  <2>. QED BY <1>1, <1>4, <2>1, <2>4 DEF OrderlyInvariant, HoldersKeepSlices
<1>5. OneBuilderPerSlice'
  BY <1>2 DEF OrderlyInvariant, OneBuilderPerSlice, TypeOK
<1>. QED BY <1>3, <1>4, <1>5 DEF HoldersKeepSlices

(* The other steps of a worker; one that dies lets its slice go.           *)
LEMMA WorkersStayOrderly ==
  ASSUME TypeOK, OrderlyInvariant, NEW w \in Workers,
         \/ launchWorker(w) \/ registerWorker(w) \/ heartbeat(w) \/ RSRunJob(w)
         \/ callFails(w) \/ crashWorker(w) \/ heartbeatAges(w)
  PROVE  OneJobPerID' /\ HoldersKeepSlices' /\ OneBuilderPerSlice'
<1>1. UNCHANGED jobs
  BY DEF launchWorker, registerWorker, heartbeat, RSRunJob, callFails, crashWorker,
         heartbeatAges, Dies, controllerVars
<1>2. CASE callFails(w) \/ crashWorker(w)
  <2>1. assigned' = [assigned EXCEPT ![w] = NoSlice] /\ pc' = [pc EXCEPT ![w] = "down"]
    BY <1>2 DEF callFails, crashWorker, Dies
  <2>2. \A v \in Workers : assigned'[v] # NoSlice =>
          v # w /\ assigned'[v] = assigned[v] /\ pc'[v] = pc[v]
    BY <2>1 DEF TypeOK
  <2>3. HoldersKeepSlices'
    BY <1>1, <2>2 DEF OrderlyInvariant, HoldersKeepSlices, Keeps
  <2>4. OneBuilderPerSlice'
    BY <2>1 DEF OrderlyInvariant, OneBuilderPerSlice, TypeOK
  <2>. QED BY <1>1, <2>3, <2>4 DEF OrderlyInvariant, OneJobPerID
<1>3. CASE ~(callFails(w) \/ crashWorker(w))
  <2>1. UNCHANGED assigned
    BY <1>3 DEF launchWorker, registerWorker, heartbeat, RSRunJob, heartbeatAges, workerVars
  <2>2. \A v \in Workers : pc[v] \in {"build", "report"} => pc'[v] \in {"build", "report"}
    BY <1>3 DEF launchWorker, registerWorker, heartbeat, RSRunJob, heartbeatAges, workerVars,
                Calls, TypeOK
  <2>3. HoldersKeepSlices'
    BY <1>1, <2>1, <2>2 DEF OrderlyInvariant, HoldersKeepSlices, Keeps
  <2>. QED BY <1>1, <2>1, <2>3 DEF OrderlyInvariant, OneJobPerID, OneBuilderPerSlice
<1>. QED BY <1>2, <1>3

(* In an orderly farm two processes never build one slice: a dead worker's *)
(* slice may be given to another, a live one's never, since the live one   *)
(* is heard.  farm_heartbeat shows that slow makes break this.             *)
THEOREM SlicesHaveOneBuilder == ASSUME Orderly PROVE Spec => []OneBuilderPerSlice
<1>1. Init => OrderlyInvariant
  BY DEF Init, OrderlyInvariant, WorkersAreHeard, OneJobPerID, HoldersKeepSlices,
         OneBuilderPerSlice
<1>2. FarmInvariant /\ FarmInvariant' /\ OrderlyInvariant /\ [Next]_vars => OrderlyInvariant'
  <2>. SUFFICES ASSUME FarmInvariant, FarmInvariant', OrderlyInvariant, [Next]_vars
                PROVE  OneJobPerID' /\ HoldersKeepSlices' /\ OneBuilderPerSlice'
    BY NextKeepsWorkersHeard DEF OrderlyInvariant, FarmInvariant, QueueInvariant
  <2>a. TypeOK /\ TypeOK'
    BY DEF FarmInvariant, QueueInvariant
  <2>. DEFINE Goal == OneJobPerID' /\ HoldersKeepSlices' /\ OneBuilderPerSlice'
  <2>1. ASSUME NEW spec \in Specs, submitBuild(spec) PROVE Goal
    BY <2>a, <2>1, FarmAssumption, SubmissionStaysOrderly
  <2>2. ASSUME NEW id \in SliceIDs, cancelJob(id) PROVE Goal
    BY <2>a, <2>2, CancellingStaysOrderly
  <2>3. ASSUME NEW w \in Workers, nextJobForWorker(w) PROVE Goal
    BY <2>a, <2>3, FarmAssumption, DispatchStaysOrderly
  <2>4. ASSUME NEW w \in Workers, finishJob(w) PROVE Goal
    BY <2>a, <2>4, ReportStaysOrderly DEF FarmInvariant
  <2>5. ASSUME NEW w \in Workers,
               \/ launchWorker(w) \/ registerWorker(w) \/ heartbeat(w) \/ RSRunJob(w)
               \/ callFails(w) \/ crashWorker(w) \/ heartbeatAges(w)
        PROVE  Goal
    BY <2>a, <2>5, WorkersStayOrderly
  <2>6. ASSUME reapWorkers PROVE Goal
    BY <2>a, <2>6, ReapingStaysOrderly
  <2>7. ASSUME initWithStatePath PROVE Goal
    BY <2>7 DEF initWithStatePath, Orderly, OrderlyInvariant, WorkersAreHeard
  <2>8. ASSUME UNCHANGED vars PROVE Goal
    BY <2>8 DEF vars, controllerVars, workerVars, OrderlyInvariant, OneJobPerID,
                HoldersKeepSlices, OneBuilderPerSlice, Keeps
  <2>. HIDE DEF Goal
  <2>9. Goal
    BY <2>1, <2>2, <2>3, <2>4, <2>5, <2>6, <2>7, <2>8 DEF Next, WorkerStep
  <2>. QED BY <2>9 DEF Goal
<1>3. OrderlyInvariant => OneBuilderPerSlice
  BY DEF OrderlyInvariant
<1>. QED BY <1>1, <1>2, <1>3, FarmInvariantHolds, PTL DEF Spec

(***************************************************************************)
(* The build farm implements the slice life cycle, for any set of workers  *)
(* and specifications and any number of restarts: each of its steps,       *)
(* looked at through the refinement mapping, is a step of SliceLifecycle   *)
(* or none.                                                                *)
(***************************************************************************)
SliceView == [phase : {"waiting", "out", "closed"}, spare : {0, 1}, handed : Nat]

(* A change of two fields of a slice, one field after the other.           *)
LEMMA OutSlice ==
  ASSUME NEW r, NEW s, NEW h, r = [phase |-> "waiting", spare |-> s, handed |-> h]
  PROVE  [r EXCEPT !.phase = "out", !.handed = @ + 1]
           = [phase |-> "out", spare |-> s, handed |-> h + 1]
<1>1. [r EXCEPT !.phase = "out"] = [phase |-> "out", spare |-> s, handed |-> h]
  OBVIOUS
<1>2. [[phase |-> "out", spare |-> s, handed |-> h] EXCEPT !.handed = h + 1]
        = [phase |-> "out", spare |-> s, handed |-> h + 1]
  OBVIOUS
<1>3. r.handed = h
  OBVIOUS
<1>. QED BY <1>1, <1>2, <1>3

LEMMA RetriedSlice ==
  ASSUME NEW p, NEW s, NEW h
  PROVE  Lifecycle!Retried([phase |-> p, spare |-> s, handed |-> h])
           = [phase |-> "waiting", spare |-> 0, handed |-> h]
<1>1. [[phase |-> p, spare |-> s, handed |-> h] EXCEPT !.phase = "waiting"]
        = [phase |-> "waiting", spare |-> s, handed |-> h]
  OBVIOUS
<1>2. [[phase |-> "waiting", spare |-> s, handed |-> h] EXCEPT !.spare = 0]
        = [phase |-> "waiting", spare |-> 0, handed |-> h]
  OBVIOUS
<1>. QED BY <1>1, <1>2 DEF Lifecycle!Retried

(* The mapping makes a sequence of slices of a job list and its history.   *)
LEMMA MappedIsSeq ==
  ASSUME NEW js \in Seq(JobRecords), NEW hs \in Seq(Nat), Len(hs) = Len(js)
  PROVE  LET mapped == [i \in DOMAIN js |-> SliceOf(js[i], hs[i])]
         IN /\ mapped \in Seq(SliceView) /\ Len(mapped) = Len(js)
            /\ DOMAIN js = 1..Len(js) /\ Len(js) \in Nat
<1>. DEFINE mapped == [i \in DOMAIN js |-> SliceOf(js[i], hs[i])]
<1>1. Len(js) \in Nat /\ DOMAIN js = 1..Len(js)
  BY LenProperties
<1>2. \A i \in DOMAIN js : js[i] \in JobRecords /\ hs[i] \in Nat
  BY <1>1, ElementOfSeq
<1>3. \A i \in DOMAIN js : SliceOf(js[i], hs[i]) \in SliceView
  BY <1>2 DEF SliceOf, PhaseOf, SliceView
<1>4. mapped \in [1..Len(js) -> SliceView]
  BY <1>1, <1>3
<1>. QED BY <1>1, <1>4, SegmentIsSeq

LEMMA SlicesType ==
  ASSUME TypeOK
  PROVE  /\ SlicesOfJobs \in Seq(SliceView) /\ Len(SlicesOfJobs) = Len(jobs)
         /\ DOMAIN SlicesOfJobs = DOMAIN jobs
         /\ DOMAIN jobs = 1..Len(jobs) /\ Len(jobs) \in Nat
BY MappedIsSeq DEF TypeOK, SlicesOfJobs

LEMMA NewSlicesType ==
  ASSUME TypeOK'
  PROVE  /\ SlicesOfJobs' \in Seq(SliceView) /\ Len(SlicesOfJobs') = Len(jobs')
         /\ DOMAIN SlicesOfJobs' = DOMAIN jobs'
         /\ DOMAIN jobs' = 1..Len(jobs') /\ Len(jobs') \in Nat
<1>1. jobs' \in Seq(JobRecords) /\ handouts' \in Seq(Nat) /\ Len(handouts') = Len(jobs')
  BY DEF TypeOK
<1>. QED BY <1>1, MappedIsSeq DEF SlicesOfJobs

(* A step that rewrites one job rewrites its slice.                        *)
LEMMA OneSliceChanges ==
  ASSUME TypeOK, NEW i \in DOMAIN jobs, NEW e, DOMAIN jobs' = DOMAIN jobs,
         \A k \in DOMAIN jobs \ {i} : jobs'[k] = jobs[k] /\ handouts'[k] = handouts[k],
         SliceOf(jobs'[i], handouts'[i]) = e
  PROVE  SlicesOfJobs' = [SlicesOfJobs EXCEPT ![i] = e]
BY DEF SlicesOfJobs

(* An accepted submission lists slices; so does the part of a rejected one *)
(* that comes before the unsupported architecture.                         *)
LEMMA SubmissionLists ==
  ASSUME FarmAssumption, TypeOK, TypeOK', NEW spec \in Specs, submitBuild(spec)
  PROVE  Lifecycle!Listed
<1>1. PICK n \in 0..Len(spec.archs) :
        /\ jobs' = jobs \o [k \in 1..n |-> QueuedJob(<<spec.name, spec.archs[k]>>, spec.project)]
        /\ handouts' = handouts \o [k \in 1..n |-> 0]
        /\ SupportedPrefix(spec.archs, n)
  BY DEF submitBuild
<1>. DEFINE new == [k \in 1..n |-> QueuedJob(<<spec.name, spec.archs[k]>>, spec.project)]
            zeros == [k \in 1..n |-> 0]
            fresh == [k \in 1..n |-> Lifecycle!NewSlice]
<1>2. Len(spec.archs) \in Nat /\ n \in Nat
  BY LenProperties DEF FarmAssumption
<1>3. n \in 0..MaxJobs
  BY <1>2, SlicesType DEF submitBuild, FarmAssumption
<1>4. fresh \in Seq(SliceView) /\ Len(fresh) = n
  <2>1. fresh \in [1..n -> SliceView]
    BY DEF Lifecycle!NewSlice, SliceView
  <2>. QED BY <1>2, <2>1, SegmentIsSeq
<1>5. new \in Seq(JobRecords) /\ Len(new) = n
  <2>1. \A k \in 1..n : <<spec.name, spec.archs[k]>> \in SliceIDs
    BY <1>1 DEF SupportedPrefix, SliceIDs
  <2>2. spec.project \in Projects
    BY DEF Projects
  <2>3. new \in [1..n -> JobRecords]
    BY <2>1, <2>2, QueuedJobType
  <2>. QED BY <1>2, <2>3, SegmentIsSeq
<1>6. zeros \in Seq(Nat) /\ Len(zeros) = n
  <2>1. zeros \in [1..n -> Nat]
    OBVIOUS
  <2>. QED BY <1>2, <2>1, SegmentIsSeq
<1>7. \A k \in 1..n : SliceOf(new[k], zeros[k]) = fresh[k]
  BY DEF SliceOf, PhaseOf, QueuedJob, Lifecycle!NewSlice
<1>8. jobs' = jobs \o new /\ handouts' = handouts \o zeros
  BY <1>1
<1>. HIDE DEF new, zeros, fresh
<1>9. jobs \in Seq(JobRecords) /\ handouts \in Seq(Nat) /\ Len(handouts) = Len(jobs)
  BY DEF TypeOK
<1>10. /\ Len(jobs') = Len(jobs) + n
       /\ \A i \in 1..(Len(jobs) + n) :
            jobs'[i] = IF i <= Len(jobs) THEN jobs[i] ELSE new[i - Len(jobs)]
  <2>1. /\ Len(jobs \o new) = Len(jobs) + Len(new)
        /\ \A i \in 1..(Len(jobs) + Len(new)) : (jobs \o new)[i] =
             IF i <= Len(jobs) THEN jobs[i] ELSE new[i - Len(jobs)]
    BY <1>5, <1>9, ConcatProperties
  <2>. QED BY <1>5, <1>8, <2>1
<1>11. \A i \in 1..(Len(jobs) + n) :
         handouts'[i] = IF i <= Len(jobs) THEN handouts[i] ELSE zeros[i - Len(jobs)]
  <2>1. \A i \in 1..(Len(handouts) + Len(zeros)) : (handouts \o zeros)[i] =
           IF i <= Len(handouts) THEN handouts[i] ELSE zeros[i - Len(handouts)]
    BY <1>6, <1>9, ConcatProperties
  <2>. QED BY <1>6, <1>8, <1>9, <2>1
<1>12. /\ SlicesOfJobs \o fresh \in Seq(SliceView)
       /\ Len(SlicesOfJobs \o fresh) = Len(jobs) + n
       /\ \A i \in 1..(Len(jobs) + n) : (SlicesOfJobs \o fresh)[i] =
            IF i <= Len(jobs) THEN SlicesOfJobs[i] ELSE fresh[i - Len(jobs)]
  <2>1. SlicesOfJobs \in Seq(SliceView) /\ Len(SlicesOfJobs) = Len(jobs)
    BY SlicesType
  <2>2. /\ SlicesOfJobs \o fresh \in Seq(SliceView)
        /\ Len(SlicesOfJobs \o fresh) = Len(SlicesOfJobs) + Len(fresh)
        /\ \A i \in 1..(Len(SlicesOfJobs) + Len(fresh)) : (SlicesOfJobs \o fresh)[i] =
             IF i <= Len(SlicesOfJobs) THEN SlicesOfJobs[i] ELSE fresh[i - Len(SlicesOfJobs)]
    BY <1>4, <2>1, ConcatProperties
  <2>. QED BY <1>4, <2>1, <2>2
<1>13. ASSUME NEW i \in 1..(Len(jobs) + n)
       PROVE  SlicesOfJobs'[i] = (SlicesOfJobs \o fresh)[i]
  <2>1. i \in DOMAIN jobs' /\ SlicesOfJobs'[i] = SliceOf(jobs'[i], handouts'[i])
    BY <1>10, NewSlicesType DEF SlicesOfJobs
  <2>2. CASE i <= Len(jobs)
    <3>1. SlicesOfJobs[i] = SliceOf(jobs[i], handouts[i])
      BY <2>2, SlicesType DEF SlicesOfJobs
    <3>. QED BY <1>10, <1>11, <1>12, <2>1, <2>2, <3>1
  <2>3. CASE ~(i <= Len(jobs))
    <3>1. i - Len(jobs) \in 1..n
      BY <1>2, <2>3, SlicesType
    <3>. QED BY <1>7, <1>10, <1>11, <1>12, <2>1, <2>3, <3>1
  <2>. QED BY <2>2, <2>3
<1>14. SlicesOfJobs' = SlicesOfJobs \o fresh
  BY <1>10, <1>12, <1>13, NewSlicesType, SeqEqual
<1>. QED BY <1>3, <1>14 DEF Lifecycle!Listed, fresh

(* A cancellation closes a slice, also one that is out.                    *)
LEMMA CancellationConcludes ==
  ASSUME TypeOK, NEW id, cancelJob(id)
  PROVE  Lifecycle!Concluded
<1>1. PICK i \in DOMAIN jobs : jobs' = [jobs EXCEPT ![i].state = "cancelled"]
  BY DEF cancelJob
<1>2. UNCHANGED handouts /\ jobs[i] \in JobRecords
  BY JobListType DEF cancelJob, historyVars
<1>3. DOMAIN jobs' = DOMAIN jobs /\ \A k \in DOMAIN jobs \ {i} : jobs'[k] = jobs[k]
  BY <1>1
<1>4. jobs'[i] = [jobs[i] EXCEPT !.state = "cancelled"]
  BY <1>1
<1>5. SlicesOfJobs[i] = SliceOf(jobs[i], handouts[i])
  BY DEF SlicesOfJobs
<1>6. SliceOf(jobs'[i], handouts'[i]) = Lifecycle!Closed(SlicesOfJobs[i])
  BY <1>2, <1>4, <1>5 DEF JobRecords, SliceOf, PhaseOf, Lifecycle!Closed
<1>7. SlicesOfJobs' = [SlicesOfJobs EXCEPT ![i] = Lifecycle!Closed(SlicesOfJobs[i])]
  BY <1>2, <1>3, <1>6, OneSliceChanges
<1>. QED BY <1>7, SlicesType DEF Lifecycle!Concluded

(* nextJobForWorker hands out a waiting slice, or nothing.                 *)
LEMMA DispatchHandsOut ==
  ASSUME TypeOK, NEW w \in Workers, nextJobForWorker(w)
  PROVE  Lifecycle!HandedOut \/ UNCHANGED <<jobs, handouts>>
<1>1. CASE UNCHANGED <<controllerVars, assigned, outcome, historyVars>>
  BY <1>1 DEF controllerVars, historyVars
<1>2. CASE \E i \in DOMAIN jobs :
             /\ IsFirstWith(i, Dispatchable)
             /\ jobs' = [jobs EXCEPT ![i].state = "running", ![i].worker = w]
             /\ handouts' = [handouts EXCEPT ![i] = @ + 1]
  <2>1. PICK i \in DOMAIN jobs :
          /\ Dispatchable(jobs[i])
          /\ jobs' = [jobs EXCEPT ![i].state = "running", ![i].worker = w]
          /\ handouts' = [handouts EXCEPT ![i] = @ + 1]
    BY <1>2 DEF IsFirstWith
  <2>2. i \in DOMAIN handouts /\ jobs[i] \in JobRecords /\ DOMAIN handouts = DOMAIN jobs
    BY JobListType
  <2>3. /\ DOMAIN jobs' = DOMAIN jobs
        /\ \A k \in DOMAIN jobs \ {i} : jobs'[k] = jobs[k] /\ handouts'[k] = handouts[k]
    BY <2>1, <2>2
  <2>4. jobs'[i] = [jobs[i] EXCEPT !.state = "running", !.worker = w]
        /\ handouts'[i] = handouts[i] + 1
    BY <2>1, <2>2
  <2>5. SlicesOfJobs[i] = SliceOf(jobs[i], handouts[i]) /\ i \in DOMAIN SlicesOfJobs
    BY DEF SlicesOfJobs
  <2>6. SliceOf(jobs'[i], handouts'[i])
          = [SlicesOfJobs[i] EXCEPT !.phase = "out", !.handed = @ + 1]
    <3>1. jobs'[i].state = "running" /\ jobs'[i].retries = jobs[i].retries
      BY <2>2, <2>4 DEF JobRecords
    <3>2. jobs[i].state = "queued"
      BY <2>1 DEF Dispatchable
    <3>. DEFINE spare == IF jobs[i].retries = 0 THEN 1 ELSE 0
    <3>3. SlicesOfJobs[i] = [phase |-> "waiting", spare |-> spare, handed |-> handouts[i]]
      BY <2>5, <3>2 DEF SliceOf, PhaseOf
    <3>4. SliceOf(jobs'[i], handouts'[i])
            = [phase |-> "out", spare |-> spare, handed |-> handouts[i] + 1]
      BY <2>4, <3>1 DEF SliceOf, PhaseOf
    <3>. HIDE DEF spare
    <3>5. [SlicesOfJobs[i] EXCEPT !.phase = "out", !.handed = @ + 1]
            = [phase |-> "out", spare |-> spare, handed |-> handouts[i] + 1]
      BY <3>3, OutSlice
    <3>. QED BY <3>4, <3>5
  <2>7. SlicesOfJobs'
          = [SlicesOfJobs EXCEPT ![i] = [SlicesOfJobs[i] EXCEPT !.phase = "out", !.handed = @ + 1]]
    BY <2>3, <2>6, OneSliceChanges
  <2>8. SlicesOfJobs[i].phase = "waiting"
    BY <2>1, <2>5 DEF Dispatchable, SliceOf, PhaseOf
  <2>. QED BY <2>5, <2>7, <2>8 DEF Lifecycle!HandedOut
<1>. QED BY <1>1, <1>2 DEF nextJobForWorker

(* What a report makes of a slice.                                         *)
LEMMA ReportOfSlice ==
  ASSUME NEW job \in JobRecords, NEW result, NEW h
  PROVE  LET before == SliceOf(job, h)
             after == SliceOf(Concluded(job, result), h)
         IN \/ after = Lifecycle!Closed(before)
            \/ before.spare = 1 /\ after = Lifecycle!Retried(before)
<1>. DEFINE new == Concluded(job, result)
<1>1. CASE result = "infrastructure" /\ job.retries < 1
  <2>1. job.retries = 0 /\ new.state = "queued" /\ new.retries = 1
    BY <1>1 DEF Concluded, JobRecords
  <2>2. SliceOf(new, h) = [phase |-> "waiting", spare |-> 0, handed |-> h]
    BY <2>1 DEF SliceOf, PhaseOf
  <2>3. SliceOf(job, h) = [phase |-> PhaseOf(job.state), spare |-> 1, handed |-> h]
    BY <2>1 DEF SliceOf
  <2>4. Lifecycle!Retried(SliceOf(job, h)) = SliceOf(new, h)
    BY <2>2, <2>3, RetriedSlice
  <2>. QED BY <2>3, <2>4
<1>2. CASE ~(result = "infrastructure" /\ job.retries < 1)
  <2>1. new.state \in {"complete", "failed"} /\ new.retries = job.retries
    BY <1>2 DEF Concluded, JobRecords
  <2>. QED BY <2>1 DEF SliceOf, PhaseOf, Lifecycle!Closed
<1>. QED BY <1>1, <1>2

(* A report concludes the first slice with its ID, in whatever phase.      *)
LEMMA ReportConcludes ==
  ASSUME TypeOK, NEW w \in Workers, finishJob(w)
  PROVE  Lifecycle!Concluded \/ UNCHANGED SlicesOfJobs
<1>. DEFINE Reported(job) == job.id = assigned[w].id
<1>1. jobs' = [i \in DOMAIN jobs |->
                IF IsFirstWith(i, Reported) THEN Concluded(jobs[i], outcome[w])
                                            ELSE jobs[i]]
      /\ UNCHANGED handouts
  BY DEF finishJob, historyVars
<1>2. CASE \E i \in DOMAIN jobs : IsFirstWith(i, Reported)
  <2>1. PICK i \in DOMAIN jobs : IsFirstWith(i, Reported)
    BY <1>2
  <2>2. \A k \in DOMAIN jobs : IsFirstWith(k, Reported) => k = i
    BY <2>1, JobListType DEF IsFirstWith
  <2>. HIDE DEF Reported
  <2>3. /\ DOMAIN jobs' = DOMAIN jobs
        /\ jobs'[i] = Concluded(jobs[i], outcome[w])
        /\ \A k \in DOMAIN jobs \ {i} : jobs'[k] = jobs[k]
    BY <1>1, <2>1, <2>2
  <2>4. SlicesOfJobs[i] = SliceOf(jobs[i], handouts[i]) /\ i \in DOMAIN SlicesOfJobs
    BY DEF SlicesOfJobs
  <2>. DEFINE after == SliceOf(jobs'[i], handouts'[i])
  <2>5. \/ after = Lifecycle!Closed(SlicesOfJobs[i])
        \/ SlicesOfJobs[i].spare = 1 /\ after = Lifecycle!Retried(SlicesOfJobs[i])
    BY <1>1, <2>3, <2>4, ReportOfSlice, JobListType
  <2>6. SlicesOfJobs' = [SlicesOfJobs EXCEPT ![i] = after]
    BY <1>1, <2>3, OneSliceChanges
  <2>. QED BY <2>4, <2>5, <2>6 DEF Lifecycle!Concluded
<1>3. CASE ~\E i \in DOMAIN jobs : IsFirstWith(i, Reported)
  <2>1. DOMAIN jobs' = DOMAIN jobs /\ \A k \in DOMAIN jobs : jobs'[k] = jobs[k]
    BY <1>1, <1>3
  <2>. QED BY <1>1, <2>1 DEF SlicesOfJobs
<1>. QED BY <1>2, <1>3

(* What the reaper makes of the slice of a running job.                    *)
LEMMA ReapedSlice ==
  ASSUME NEW job \in JobRecords, job.state = "running", NEW h
  PROVE  LET before == SliceOf(job, h)
         IN SliceOf(Reaped(job), h) = IF before.spare = 1 THEN Lifecycle!Retried(before)
                                                          ELSE Lifecycle!Closed(before)
<1>. DEFINE new == Reaped(job)
<1>1. CASE job.retries < 1
  <2>1. job.retries = 0 /\ new.state = "queued" /\ new.retries = 1
    BY <1>1 DEF Reaped, JobRecords
  <2>2. SliceOf(new, h) = [phase |-> "waiting", spare |-> 0, handed |-> h]
    BY <2>1 DEF SliceOf, PhaseOf
  <2>3. SliceOf(job, h) = [phase |-> PhaseOf(job.state), spare |-> 1, handed |-> h]
    BY <2>1 DEF SliceOf
  <2>4. Lifecycle!Retried(SliceOf(job, h)) = SliceOf(new, h)
    BY <2>2, <2>3, RetriedSlice
  <2>. QED BY <2>3, <2>4
<1>2. CASE ~(job.retries < 1)
  <2>1. job.retries # 0 /\ new.state = "failed" /\ new.retries # 0
    BY <1>2 DEF Reaped, JobRecords
  <2>. QED BY <2>1 DEF SliceOf, PhaseOf, Lifecycle!Closed
<1>. QED BY <1>1, <1>2

(* The reaper gives up the builders of all silent workers in one step.     *)
LEMMA ReaperGivesUp ==
  ASSUME TypeOK, reapWorkers
  PROVE  Lifecycle!GivenUp
<1>. DEFINE Gone(job) == /\ job.state = "running"
                         /\ job.worker \in Workers
                         /\ Silent(job.worker)
            lost == {i \in DOMAIN jobs : Gone(jobs[i])}
<1>1. jobs' = [i \in DOMAIN jobs |-> IF Gone(jobs[i]) THEN Reaped(jobs[i]) ELSE jobs[i]]
      /\ UNCHANGED handouts
  BY DEF reapWorkers, historyVars
<1>2. \A i \in DOMAIN jobs : jobs[i] \in JobRecords
                             /\ SlicesOfJobs[i] = SliceOf(jobs[i], handouts[i])
  BY JobListType DEF SlicesOfJobs
<1>3. DOMAIN SlicesOfJobs = DOMAIN jobs
  BY DEF SlicesOfJobs
<1>4. lost \in SUBSET {i \in DOMAIN SlicesOfJobs : SlicesOfJobs[i].phase = "out"}
  BY <1>2, <1>3 DEF SliceOf, PhaseOf
<1>5. ASSUME NEW i \in DOMAIN jobs
      PROVE  SliceOf(jobs'[i], handouts'[i]) =
               IF i \notin lost THEN SlicesOfJobs[i]
               ELSE IF SlicesOfJobs[i].spare = 1 THEN Lifecycle!Retried(SlicesOfJobs[i])
                                                 ELSE Lifecycle!Closed(SlicesOfJobs[i])
  <2>1. CASE Gone(jobs[i])
    BY <1>1, <1>2, <2>1, ReapedSlice
  <2>2. CASE ~Gone(jobs[i])
    BY <1>1, <1>2, <2>2
  <2>. QED BY <2>1, <2>2
<1>6. SlicesOfJobs' = [i \in DOMAIN jobs |-> SliceOf(jobs'[i], handouts'[i])]
  BY <1>1 DEF SlicesOfJobs
<1>. HIDE DEF lost
<1>7. SlicesOfJobs' = [i \in DOMAIN SlicesOfJobs |->
                         IF i \notin lost THEN SlicesOfJobs[i]
                         ELSE IF SlicesOfJobs[i].spare = 1
                              THEN Lifecycle!Retried(SlicesOfJobs[i])
                              ELSE Lifecycle!Closed(SlicesOfJobs[i])]
  BY <1>3, <1>5, <1>6
<1>. QED BY <1>4, <1>7 DEF Lifecycle!GivenUp

(* A restart forgets the slices that are not in the file: by DurableQueue  *)
(* they are the last ones and were never handed out.                       *)
LEMMA RestartForgets ==
  ASSUME TypeOK, TypeOK', DurableQueue, initWithStatePath
  PROVE  Lifecycle!Forgotten
<1>. DEFINE n == Len(disk.jobs)
<1>1. /\ jobs' = disk.jobs /\ handouts' = SubSeq(handouts, 1, n)
      /\ Len(jobs') = n /\ n \in Nat /\ n <= Len(jobs)
  BY JobListType DEF initWithStatePath, DurableQueue
<1>2. /\ SlicesOfJobs \in Seq(SliceView) /\ Len(SlicesOfJobs) = Len(jobs)
      /\ DOMAIN SlicesOfJobs = 1..Len(jobs) /\ DOMAIN jobs = 1..Len(jobs) /\ Len(jobs) \in Nat
  BY SlicesType
<1>3. \A i \in (n + 1)..Len(SlicesOfJobs) : SlicesOfJobs[i] = Lifecycle!NewSlice
  <2>. SUFFICES ASSUME NEW i \in (n + 1)..Len(jobs)
                PROVE  SlicesOfJobs[i] = Lifecycle!NewSlice
    BY <1>2
  <2>1. i \in DOMAIN jobs /\ i > n
    BY <1>1, <1>2
  <2>2. jobs[i] = QueuedJob(jobs[i].id, jobs[i].project) /\ handouts[i] = 0
    BY <2>1 DEF DurableQueue
  <2>3. jobs[i].state = "queued" /\ jobs[i].retries = 0
    BY <2>2 DEF QueuedJob
  <2>. QED BY <2>1, <2>2, <2>3 DEF SlicesOfJobs, SliceOf, PhaseOf, Lifecycle!NewSlice
<1>4. /\ SubSeq(SlicesOfJobs, 1, n) \in Seq(SliceView)
      /\ Len(SubSeq(SlicesOfJobs, 1, n)) = n
      /\ \A i \in 1..n : SubSeq(SlicesOfJobs, 1, n)[i] = SlicesOfJobs[i]
  <2>1. \A i \in 1..n : SlicesOfJobs[i] \in SliceView
    BY <1>1, <1>2, ElementOfSeq
  <2>. HIDE DEF n
  <2>. QED BY <1>1, <2>1, SubSeqProperties
<1>5. \A i \in 1..n : handouts'[i] = handouts[i] /\ jobs'[i] = jobs[i]
  <2>1. \A i \in 1..n : handouts[i] \in Nat
    BY <1>1, <1>2, JobListType
  <2>2. \A i \in 1..n : jobs'[i] = jobs[i]
    BY <1>1 DEF DurableQueue
  <2>. HIDE DEF n
  <2>3. \A i \in 1..n : SubSeq(handouts, 1, n)[i] = handouts[i]
    BY <1>1, <2>1, SubSeqProperties
  <2>. QED BY <1>1, <2>2, <2>3
<1>. HIDE DEF n
<1>6. ASSUME NEW i \in 1..n PROVE SlicesOfJobs'[i] = SubSeq(SlicesOfJobs, 1, n)[i]
  <2>1. i \in DOMAIN jobs' /\ i \in DOMAIN jobs
    BY <1>1, <1>2, NewSlicesType
  <2>. QED BY <1>4, <1>5, <2>1 DEF SlicesOfJobs
<1>7. SlicesOfJobs' = SubSeq(SlicesOfJobs, 1, n)
  BY <1>1, <1>4, <1>6, NewSlicesType, SeqEqual
<1>. QED BY <1>1, <1>2, <1>3, <1>7 DEF Lifecycle!Forgotten

(* Every other step leaves the job list and the history alone.             *)
LEMMA OtherStepsStutter ==
  ASSUME NEW w \in Workers,
         \/ launchWorker(w) \/ registerWorker(w) \/ heartbeat(w) \/ RSRunJob(w)
         \/ callFails(w) \/ crashWorker(w) \/ heartbeatAges(w)
  PROVE  UNCHANGED <<jobs, handouts>>
BY DEF launchWorker, registerWorker, heartbeat, RSRunJob, callFails, crashWorker, Dies,
       heartbeatAges, controllerVars, historyVars

(* What submitBuild, nextJobForWorker, finishJob, the reaper and a restart *)
(* do to the job list is what the life cycle of slices allows.             *)
THEOREM FarmImplementsLifecycle == Spec => ImplementsLifecycle
<1>1. Init => Lifecycle!Init
  <2>. SUFFICES ASSUME Init PROVE SlicesOfJobs = << >>
    BY DEF Lifecycle!Init
  <2>1. DOMAIN jobs = {}
    BY DEF Init
  <2>. QED BY <2>1 DEF SlicesOfJobs
<1>2. FarmInvariant /\ FarmInvariant' /\ [Next]_vars => [Lifecycle!Next]_SlicesOfJobs
  <2>. SUFFICES ASSUME FarmInvariant, FarmInvariant', [Next]_vars
                PROVE  Lifecycle!Next \/ UNCHANGED SlicesOfJobs
    OBVIOUS
  <2>a. TypeOK /\ TypeOK' /\ DurableQueue
    BY DEF FarmInvariant, QueueInvariant
  <2>b. UNCHANGED <<jobs, handouts>> => UNCHANGED SlicesOfJobs
    BY DEF SlicesOfJobs
  <2>1. ASSUME NEW spec \in Specs, submitBuild(spec) PROVE Lifecycle!Next
    BY <2>a, <2>1, SubmissionLists, FarmAssumption DEF Lifecycle!Next
  <2>2. ASSUME NEW id \in SliceIDs, cancelJob(id) PROVE Lifecycle!Next
    BY <2>a, <2>2, CancellationConcludes DEF Lifecycle!Next
  <2>3. ASSUME NEW w \in Workers, nextJobForWorker(w)
        PROVE  Lifecycle!Next \/ UNCHANGED SlicesOfJobs
    BY <2>a, <2>b, <2>3, DispatchHandsOut DEF Lifecycle!Next
  <2>4. ASSUME NEW w \in Workers, finishJob(w)
        PROVE  Lifecycle!Next \/ UNCHANGED SlicesOfJobs
    BY <2>a, <2>4, ReportConcludes DEF Lifecycle!Next
  <2>5. CASE reapWorkers
    BY <2>a, <2>5, ReaperGivesUp DEF Lifecycle!Next
  <2>6. CASE initWithStatePath
    BY <2>a, <2>6, RestartForgets DEF Lifecycle!Next
  <2>7. ASSUME NEW w \in Workers,
               \/ launchWorker(w) \/ registerWorker(w) \/ heartbeat(w) \/ RSRunJob(w)
               \/ callFails(w) \/ crashWorker(w) \/ heartbeatAges(w)
        PROVE  UNCHANGED SlicesOfJobs
    BY <2>b, <2>7, OtherStepsStutter
  <2>8. CASE UNCHANGED vars
    BY <2>b, <2>8 DEF vars, controllerVars, historyVars
  <2>. QED BY <2>1, <2>2, <2>3, <2>4, <2>5, <2>6, <2>7, <2>8 DEF Next, WorkerStep
<1>. QED BY <1>1, <1>2, FarmInvariantHolds, PTL DEF Spec, ImplementsLifecycle, Lifecycle!Spec
=============================================================================
