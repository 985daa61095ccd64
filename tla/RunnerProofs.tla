---------------------------- MODULE RunnerProofs ----------------------------
(***************************************************************************)
(* Proofs about the command runner, for any number of commands and any     *)
(* capacity of the pipe.                                                   *)
(***************************************************************************)
EXTENDS RunnerProperties, TLAPS

(* What one handler's flag does to the flags.                              *)
LEMMA SawFlag ==
  ASSUME NEW flag \in {"exited", "eof"}, flags \subseteq {"running", "exited", "eof"}, isRunning,
         ~({"exited", "eof"} \subseteq flags), Saw(flag)
  PROVE  /\ flags' \subseteq {"running", "exited", "eof"}
         /\ "exited" \in flags' <=> "exited" \in flags \/ flag = "exited"
         /\ "eof" \in flags' <=> "eof" \in flags \/ flag = "eof"
         /\ isRunning' <=> ~({"exited", "eof"} \subseteq flags')
  BY DEF Saw, isRunning

(* The records a report sets.                                              *)
LEMMA ReportTyped ==
  ASSUME NEW s \in Statuses, NEW k \in Nat, NEW line \in {"Completed", "Failed"}
  PROVE  LET w == [line |-> line, cancel |-> "disabled"]
             r == [count |-> k, status |-> s]
         IN /\ w \in [line : {"Ready", "Running", "Launch failed", "Completed", "Failed"},
                       cancel : {"enabled", "disabled"}]
            /\ w.cancel = "disabled"
            /\ r \in [count : Nat, status : Statuses]
            /\ r.count = k /\ r.status = s
  OBVIOUS

(* finishIfComplete with both ends seen.                                   *)
LEMMA Reported ==
  ASSUME TypeOK, isRunning, OneReportPerRun, finishIfComplete, {"exited", "eof"} \subseteq flags',
         ~isRunning', exitStatus' \in Statuses, accepted' = accepted
  PROVE  /\ window' \in [line : {"Ready", "Running", "Launch failed", "Completed", "Failed"},
                         cancel : {"enabled", "disabled"}]
         /\ reported' \in [count : Nat, status : Statuses]
         /\ OneReportPerRun' /\ ButtonMatchesRunner'
  <1>1. reported.count \in Nat
    BY DEF TypeOK
  <1>2. accepted \in Nat /\ accepted = reported.count + 1
    BY DEF TypeOK, OneReportPerRun
  <1> DEFINE line == IF exitStatus' = "ok" THEN "Completed" ELSE "Failed"
  <1>3. window' = [line |-> line, cancel |-> "disabled"]
        /\ reported' = [count |-> reported.count + 1, status |-> exitStatus']
    BY DEF finishIfComplete
  <1>4. line \in {"Completed", "Failed"} /\ reported.count + 1 \in Nat
    BY <1>1
  <1> HIDE DEF line
  <1>5. /\ window' \in [line : {"Ready", "Running", "Launch failed", "Completed", "Failed"},
                        cancel : {"enabled", "disabled"}]
        /\ window'.cancel = "disabled"
        /\ reported' \in [count : Nat, status : Statuses]
        /\ reported'.count = reported.count + 1
    BY <1>1, <1>3, <1>4, ReportTyped
  <1>6. accepted' = reported'.count /\ reported'.count \in Nat
    BY <1>2, <1>4, <1>5
  <1>7. OneReportPerRun' /\ ButtonMatchesRunner'
    <2>1. \A n \in Nat : n = n + 0
      OBVIOUS
    <2>2. OneReportPerRun'
      BY <1>6, <2>1 DEF OneReportPerRun
    <2>3. ButtonMatchesRunner'
      BY <1>5 DEF ButtonMatchesRunner
    <2> QED
      BY <2>2, <2>3
  <1> QED
    BY <1>5, <1>7

LEMMA InitRunner == Init => RunnerInvariant
  BY DEF Init, RunnerInvariant, TypeOK, OneReportPerRun, ButtonMatchesRunner, isRunning, Statuses

LEMMA ReadStep == RunnerInvariant /\ readCompleted => RunnerInvariant'
  <1> SUFFICES ASSUME RunnerInvariant, readCompleted PROVE RunnerInvariant'
    OBVIOUS
  <1>1. isRunning /\ "eof" \notin flags
    BY DEF RunnerInvariant, readCompleted
  <1>2. CASE unread > 0 /\ unread' \in 0..(unread - 1) /\ UNCHANGED <<runnerVars, window, reported>>
    <2>1. unread' \in Nat
      <3>1. unread \in Nat
        BY DEF RunnerInvariant, TypeOK
      <3> QED
        BY <1>2, <3>1
    <2> QED
      BY <1>1, <1>2, <2>1 DEF RunnerInvariant, TypeOK, readCompleted, runnerVars, OneReportPerRun,
         ButtonMatchesRunner, isRunning
  <1>3. CASE /\ unread = 0 /\ writers = {}
             /\ Saw("eof")
             /\ observing' = observing \ {"read"}
             /\ reading' = "no"
             /\ UNCHANGED <<unread, exitStatus>>
             /\ finishIfComplete
    <2>1. /\ flags' \subseteq {"running", "exited", "eof"}
          /\ "exited" \in flags' <=> "exited" \in flags
          /\ "eof" \in flags'
          /\ isRunning' <=> ~({"exited", "eof"} \subseteq flags')
      BY <1>1, <1>3, SawFlag DEF RunnerInvariant, TypeOK
    <2>2. UNCHANGED <<task, terminated, writers, accepted, unread, exitStatus>>
      BY <1>3 DEF readCompleted
    <2>3. CASE "exited" \in flags
      <3>1. ~isRunning' /\ {"exited", "eof"} \subseteq flags'
        BY <2>1, <2>3
      <3>2. exitStatus' \in Statuses
        BY <2>2 DEF RunnerInvariant, TypeOK
      <3>3. /\ window' \in [line : {"Ready", "Running", "Launch failed", "Completed", "Failed"},
                            cancel : {"enabled", "disabled"}]
            /\ reported' \in [count : Nat, status : Statuses]
            /\ OneReportPerRun' /\ ButtonMatchesRunner'
        BY <1>1, <1>3, <2>2, <3>1, <3>2, Reported DEF RunnerInvariant
      <3>4. observing' = {}
        BY <1>1, <1>3, <2>3 DEF RunnerInvariant, TypeOK
      <3>5. TypeOK'
        BY <1>3, <2>1, <2>2, <3>3, <3>4 DEF RunnerInvariant, TypeOK
      <3> QED
        BY <1>3, <2>1, <2>2, <3>1, <3>3, <3>4, <3>5 DEF RunnerInvariant
    <2>4. CASE "exited" \notin flags
      <3>1. UNCHANGED <<window, reported>> /\ isRunning'
        BY <1>3, <2>1, <2>4 DEF finishIfComplete
      <3>2. TypeOK'
        BY <1>3, <2>1, <2>2, <3>1 DEF RunnerInvariant, TypeOK
      <3>3. OneReportPerRun' /\ ButtonMatchesRunner'
        BY <1>1, <2>2, <3>1 DEF RunnerInvariant, OneReportPerRun, ButtonMatchesRunner
      <3> QED
        BY <1>1, <1>3, <2>1, <2>2, <2>4, <3>1, <3>2, <3>3 DEF RunnerInvariant
    <2> QED
      BY <2>3, <2>4
  <1> QED
    BY <1>2, <1>3 DEF readCompleted

LEMMA TerminatedStep == RunnerInvariant /\ taskTerminated => RunnerInvariant'
  <1> SUFFICES ASSUME RunnerInvariant, taskTerminated PROVE RunnerInvariant'
    OBVIOUS
  <1>1. isRunning /\ "exited" \notin flags /\ task.phase = "exited" /\ exitStatus' = task.status
        /\ Saw("exited") /\ observing' = observing \ {"exit"} /\ finishIfComplete
        /\ UNCHANGED <<reading, task, terminated, writers, unread, accepted>>
    BY DEF RunnerInvariant, taskTerminated, processVars
  <1>2. /\ flags' \subseteq {"running", "exited", "eof"}
        /\ "exited" \in flags'
        /\ "eof" \in flags' <=> "eof" \in flags
        /\ isRunning' <=> ~({"exited", "eof"} \subseteq flags')
    BY <1>1, SawFlag DEF RunnerInvariant, TypeOK
  <1>3. CASE "eof" \in flags
    <2>1. ~isRunning' /\ {"exited", "eof"} \subseteq flags'
      BY <1>2, <1>3
    <2>2. exitStatus' \in Statuses
      BY <1>1 DEF RunnerInvariant, TypeOK
    <2>3. /\ window' \in [line : {"Ready", "Running", "Launch failed", "Completed", "Failed"},
                          cancel : {"enabled", "disabled"}]
          /\ reported' \in [count : Nat, status : Statuses]
          /\ OneReportPerRun' /\ ButtonMatchesRunner'
      BY <1>1, <2>1, <2>2, Reported DEF RunnerInvariant
    <2>4. observing' = {}
      BY <1>1, <1>3 DEF RunnerInvariant, TypeOK
    <2>5. TypeOK'
      BY <1>1, <1>2, <2>2, <2>3, <2>4 DEF RunnerInvariant, TypeOK
    <2> QED
      BY <1>1, <1>2, <2>1, <2>3, <2>4, <2>5 DEF RunnerInvariant
  <1>4. CASE "eof" \notin flags
    <2>1. UNCHANGED <<window, reported>> /\ isRunning'
      BY <1>1, <1>2, <1>4 DEF finishIfComplete
    <2>2. TypeOK'
      BY <1>1, <1>2, <2>1 DEF RunnerInvariant, TypeOK
    <2>3. OneReportPerRun' /\ ButtonMatchesRunner'
      BY <1>1, <2>1 DEF RunnerInvariant, OneReportPerRun, ButtonMatchesRunner
    <2> QED
      BY <1>1, <1>2, <1>4, <2>1, <2>2, <2>3 DEF RunnerInvariant
  <1> QED
    BY <1>3, <1>4

LEMMA LaunchStep == RunnerInvariant /\ (runExecutable \/ launchFails) => RunnerInvariant'
  <1> SUFFICES ASSUME RunnerInvariant, runExecutable \/ launchFails PROVE RunnerInvariant'
    OBVIOUS
  <1>1. /\ accepted \in Nat /\ reported.count \in Nat /\ ~isRunning /\ accepted = reported.count
        /\ reported \in [count : Nat, status : Statuses] /\ reported' = reported
    <2>1. accepted \in Nat /\ reported \in [count : Nat, status : Statuses]
      BY DEF RunnerInvariant, TypeOK
    <2>2. ~isRunning /\ reported' = reported
      BY DEF runExecutable, launchFails, historyVars
    <2>3. accepted = reported.count + 0
      BY <2>2 DEF RunnerInvariant, OneReportPerRun
    <2>4. reported.count \in Nat
      BY <2>1
    <2> QED
      BY <2>1, <2>2, <2>3, <2>4
  <1>2. CASE runExecutable
    <2>1. flags' = {"running"} /\ accepted' = accepted + 1 /\ window'.cancel = "enabled"
      BY <1>2 DEF runExecutable
    <2>2. isRunning' /\ OneReportPerRun' /\ ButtonMatchesRunner'
      BY <1>1, <2>1 DEF OneReportPerRun, ButtonMatchesRunner, isRunning
    <2>3. accepted' \in Nat /\ 0 \in Nat
      BY <1>1, <2>1
    <2>4. TypeOK'
      BY <1>1, <1>2, <2>3 DEF TypeOK, runExecutable, Statuses
    <2> QED
      BY <1>2, <2>1, <2>2, <2>4 DEF RunnerInvariant, runExecutable
  <1>3. CASE launchFails
    <2>1. flags' = {} /\ accepted' = accepted /\ window'.cancel = "disabled"
      BY <1>3 DEF launchFails, historyVars
    <2>2. ~isRunning' /\ OneReportPerRun' /\ ButtonMatchesRunner'
      BY <1>1, <2>1 DEF OneReportPerRun, ButtonMatchesRunner, isRunning
    <2>3. TypeOK'
      BY <1>1, <1>3, <2>1 DEF TypeOK, launchFails, Statuses
    <2> QED
      BY <1>3, <2>1, <2>2, <2>3 DEF RunnerInvariant, launchFails
  <1> QED
    BY <1>2, <1>3

LEMMA ProcessStep == RunnerInvariant /\ (cancel \/ write \/ fork \/ taskExits \/ childExits)
                       => RunnerInvariant'
  <1> SUFFICES ASSUME RunnerInvariant, cancel \/ write \/ fork \/ taskExits \/ childExits
               PROVE  RunnerInvariant'
    OBVIOUS
  <1>1. UNCHANGED <<runnerVars, window, historyVars>>
    BY DEF cancel, write, fork, taskExits, childExits
  <1>2. OneReportPerRun' /\ ButtonMatchesRunner' /\ (isRunning' <=> isRunning)
    BY <1>1 DEF RunnerInvariant, OneReportPerRun, ButtonMatchesRunner, isRunning, runnerVars, historyVars
  <1>3. write => unread' \in Nat
    <2>1. unread \in Nat
      BY DEF RunnerInvariant, TypeOK
    <2> QED
      BY <2>1 DEF write
  <1> USE <1>1, <1>2 DEF RunnerInvariant, TypeOK, runnerVars, historyVars
  <1>4. CASE cancel
    BY <1>4 DEF cancel
  <1>5. CASE write
    <2>1. "eof" \notin flags
      BY <1>5 DEF write
    <2> QED
      BY <1>5, <1>3, <2>1 DEF write
  <1>6. CASE fork
    BY <1>6 DEF fork
  <1>7. CASE taskExits
    <2>1. PICK s \in {"ok", "error"} : task' = [phase |-> "exited", status |-> s]
      BY <1>7 DEF taskExits
    <2>2. /\ task' \in [phase : {"none", "live", "exited"}, status : Statuses]
          /\ task'.phase = "exited" /\ task'.status = s /\ s # "none"
      BY <2>1 DEF Statuses
    <2>3. "exited" \notin flags
      BY <1>7 DEF taskExits
    <2> QED
      BY <1>7, <2>2, <2>3 DEF taskExits
  <1>8. CASE childExits
    BY <1>8 DEF childExits
  <1> QED
    BY <1>4, <1>5, <1>6, <1>7, <1>8

LEMMA NextKeepsRunnerInvariant == RunnerInvariant /\ [Next]_vars => RunnerInvariant'
  <1>1. RunnerInvariant /\ UNCHANGED vars => RunnerInvariant'
    BY DEF RunnerInvariant, TypeOK, OneReportPerRun, ButtonMatchesRunner, isRunning, vars, runnerVars,
       processVars, historyVars
  <1> QED
    BY <1>1, ReadStep, TerminatedStep, LaunchStep, ProcessStep DEF Next

(* The inductive invariant: the runner observes exactly the ends it has    *)
(* not seen, its busy state counts one report that is due, and the Cancel  *)
(* button follows it.                                                      *)
THEOREM RunnerInvariantHolds == Spec => []RunnerInvariant
  BY InitRunner, NextKeepsRunnerInvariant, PTL DEF Spec

(* Every command that was launched has been reported once, but for the one *)
(* that runs: readCompleted: and taskTerminated: may come in either order. *)
THEOREM ReportsMatchRuns == Spec => []OneReportPerRun
  <1>1. RunnerInvariant => OneReportPerRun
    BY DEF RunnerInvariant
  <1> QED
    BY <1>1, RunnerInvariantHolds, PTL

(* finishedWithStatus: is called only after the task's exit and after all  *)
(* output was handed to receivedText:, and with the task's own status.     *)
THEOREM ReportsAreTrue == Spec => ReportIsTrue
  <1>1. RunnerInvariant /\ [Next]_vars
          => [reported' # reported => /\ task.phase = "exited" /\ writers = {} /\ unread = 0
                                      /\ reported'.status = task.status]_vars
    <2> SUFFICES ASSUME RunnerInvariant, [Next]_vars, reported' # reported
                 PROVE  /\ task.phase = "exited" /\ writers = {} /\ unread = 0
                        /\ reported'.status = task.status
      OBVIOUS
    <2>1. CASE readCompleted
      <3>1. finishIfComplete /\ Saw("eof") /\ unread = 0 /\ writers = {} /\ exitStatus' = exitStatus
        BY <2>1 DEF readCompleted
      <3>2. "exited" \in flags /\ reported'.status = exitStatus'
        BY <3>1 DEF finishIfComplete, Saw
      <3> QED
        BY <3>1, <3>2 DEF RunnerInvariant
    <2>2. CASE taskTerminated
      <3>1. finishIfComplete /\ Saw("exited") /\ task.phase = "exited" /\ exitStatus' = task.status
        BY <2>2 DEF taskTerminated
      <3>2. "eof" \in flags /\ reported'.status = exitStatus'
        BY <3>1 DEF finishIfComplete, Saw
      <3> QED
        BY <3>1, <3>2 DEF RunnerInvariant
    <2>3. CASE ~readCompleted /\ ~taskTerminated
      BY <2>3 DEF Next, vars, historyVars, runExecutable, launchFails, cancel, write, fork, taskExits,
         childExits
    <2> QED
      BY <2>1, <2>2, <2>3
  <1> QED
    BY <1>1, RunnerInvariantHolds, PTL DEF Spec, ReportIsTrue
=============================================================================
