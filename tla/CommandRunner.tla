--------------------------- MODULE CommandRunner ---------------------------
(***************************************************************************)
(* How ReopenStep Workbench runs a command: RSCommandRunner.m launches one *)
(* task with its output on a pipe and reports to the window controller     *)
(* (RSWorkbenchController.m) when it has seen both the end of the task and *)
(* the end of the output.                                                  *)
(*                                                                         *)
(* Both programs' methods run on the application's run loop, one at a      *)
(* time; the task and a process it may leave behind with the pipe open run *)
(* beside them.                                                            *)
(***************************************************************************)
EXTENDS Naturals

CONSTANTS
  Lingering,   \* may a process left behind keep the pipe open for ever?
  MaxRuns,     \* bound: commands accepted
  MaxUnread    \* capacity of the pipe, in reads

ASSUME RunnerAssumption ==
  /\ Lingering \in BOOLEAN
  /\ MaxRuns \in Nat /\ MaxUnread \in Nat

VARIABLES
  flags,       \* which of _running, _taskExited and _sawEOF are YES
  exitStatus,  \* _exitStatus
  observing,   \* the notifications the runner is registered for
  reading,     \* is a background read outstanding?
  task,        \* the task: phase and termination status
  terminated,  \* has the task been sent its termination signal?
  writers,     \* who holds the write end of the pipe
  unread,      \* output in the pipe
  window,      \* the controller's status line and Cancel button
  accepted,    \* history: commands launched
  reported     \* history: finishedWithStatus: calls, and the last status

runnerVars == <<flags, exitStatus, observing, reading>>
processVars == <<task, terminated, writers, unread>>
historyVars == <<accepted, reported>>
vars == <<runnerVars, processVars, window, historyVars>>

-----------------------------------------------------------------------------
Statuses == {"none", "ok", "error"}
isRunning == "running" \in flags

Init ==
  /\ flags = {} /\ exitStatus = "none"
  /\ observing = {} /\ reading = "no"
  /\ task = [phase |-> "none", status |-> "none"] /\ terminated = "no"
  /\ writers = {} /\ unread = 0
  /\ window = [line |-> "Ready", cancel |-> "disabled"]
  /\ accepted = 0 /\ reported = [count |-> 0, status |-> "none"]

-----------------------------------------------------------------------------
(* The user starts a command.  While one runs, the controller only writes  *)
(* a message to the console.                                               *)
runExecutable ==
  /\ ~isRunning
  /\ accepted < MaxRuns
  /\ exitStatus' = "none"
  /\ flags' = {"running"}
  /\ observing' = {"read", "exit"} /\ reading' = "yes"
  /\ task' = [phase |-> "live", status |-> "none"] /\ terminated' = "no"
  /\ writers' = {"task"} /\ unread' = 0
  /\ window' = [line |-> "Running", cancel |-> "enabled"]
  /\ accepted' = accepted + 1
  /\ UNCHANGED reported

(* The launch raises: the observers go, and no report will come.           *)
launchFails ==
  /\ ~isRunning
  /\ accepted < MaxRuns
  /\ exitStatus' = "none" /\ flags' = {} /\ observing' = {} /\ reading' = "no"
  /\ task' = [phase |-> "none", status |-> "none"] /\ terminated' = "no"
  /\ writers' = {} /\ unread' = 0
  /\ window' = [line |-> "Launch failed", cancel |-> "disabled"]
  /\ UNCHANGED historyVars

(* The Cancel button: the signal goes to the task alone.                   *)
cancel ==
  /\ window.cancel = "enabled"
  /\ isRunning
  /\ terminated' = "yes"
  /\ UNCHANGED <<runnerVars, task, writers, unread, window, historyVars>>

-----------------------------------------------------------------------------
finishOnEither ==
  IF {"exited", "eof"} \intersect flags' # {} /\ isRunning
  THEN /\ window' = [line |-> IF exitStatus' = "ok" THEN "Completed" ELSE "Failed", cancel |-> "disabled"]
       /\ reported' = [count |-> reported.count + 1, status |-> exitStatus']
  ELSE UNCHANGED <<window, reported>>

(* Reports once both ends have been seen; flags' is what the caller set.   *)
finishIfComplete ==
  IF {"exited", "eof"} \subseteq flags'
  THEN /\ window' = [line |-> IF exitStatus' = "ok" THEN "Completed" ELSE "Failed", cancel |-> "disabled"]
       /\ reported' = [count |-> reported.count + 1, status |-> exitStatus']
  ELSE UNCHANGED <<window, reported>>

(* A handler notes what it saw; _running falls when both were seen.        *)
Saw(flag) ==
  LET seen == flags \cup {flag} IN
  flags' = IF {"exited", "eof"} \subseteq seen THEN seen \ {"running"} ELSE seen

readCompletedOnce ==
  /\ reading = "yes" /\ "read" \in observing
  /\ \/ /\ unread > 0
        /\ unread' \in 0..(unread - 1)
        /\ reading' = "no"
        /\ UNCHANGED <<flags, exitStatus, observing, window, reported>>
     \/ /\ unread = 0 /\ writers = {}
        /\ Saw("eof")
        /\ observing' = observing \ {"read"}
        /\ reading' = "no"
        /\ UNCHANGED <<unread, exitStatus>>
        /\ finishIfComplete
  /\ UNCHANGED <<task, terminated, writers, accepted>>

(* A background read ends: with some of the output, which is shown and the *)
(* read repeated, or with none, once nobody can write any more.            *)
readCompleted ==
  /\ reading = "yes" /\ "read" \in observing
  /\ \/ /\ unread > 0
        /\ unread' \in 0..(unread - 1)
        /\ UNCHANGED <<runnerVars, window, reported>>
     \/ /\ unread = 0 /\ writers = {}
        /\ Saw("eof")
        /\ observing' = observing \ {"read"}
        /\ reading' = "no"
        /\ UNCHANGED <<unread, exitStatus>>
        /\ finishIfComplete
  /\ UNCHANGED <<task, terminated, writers, accepted>>

taskTerminatedAgain ==
  /\ task.phase = "exited" /\ "exit" \in observing
  /\ exitStatus' = task.status
  /\ Saw("exited")
  /\ finishIfComplete
  /\ UNCHANGED <<observing, reading, processVars, accepted>>

taskTerminated ==
  /\ task.phase = "exited" /\ "exit" \in observing
  /\ exitStatus' = task.status
  /\ Saw("exited")
  /\ observing' = observing \ {"exit"}
  /\ finishIfComplete
  /\ UNCHANGED <<reading, processVars, accepted>>

-----------------------------------------------------------------------------
(* The processes: output, a child that inherits the pipe, and their ends.  *)
write ==
  /\ writers # {}
  /\ unread < MaxUnread
  /\ unread' = unread + 1
  /\ UNCHANGED <<runnerVars, task, terminated, writers, window, historyVars>>

fork ==
  /\ task.phase = "live"
  /\ "child" \notin writers
  /\ writers' = writers \cup {"child"}
  /\ UNCHANGED <<runnerVars, task, terminated, unread, window, historyVars>>

taskExits ==
  /\ task.phase = "live"
  /\ \E s \in {"ok", "error"} : task' = [phase |-> "exited", status |-> s]
  /\ writers' = writers \ {"task"}
  /\ UNCHANGED <<runnerVars, terminated, unread, window, historyVars>>

childExits ==
  /\ "child" \in writers
  /\ writers' = writers \ {"child"}
  /\ UNCHANGED <<runnerVars, task, terminated, unread, window, historyVars>>

-----------------------------------------------------------------------------
Next ==
  \/ runExecutable \/ launchFails \/ cancel
  \/ readCompleted \/ taskTerminated
  \/ write \/ fork \/ taskExits \/ childExits

Spec == Init /\ [][Next]_vars

(* The run loop delivers notifications, a task ends or obeys its signal,   *)
(* and, unless it may linger, so does a process left behind.               *)
FairSpec ==
  /\ Spec
  /\ WF_vars(readCompleted) /\ WF_vars(taskTerminated) /\ WF_vars(taskExits)
  /\ ~Lingering => WF_vars(childExits)
=============================================================================
