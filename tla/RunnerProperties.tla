-------------------------- MODULE RunnerProperties --------------------------
(***************************************************************************)
(* What must be true of the Workbench's command runner.                    *)
(***************************************************************************)
EXTENDS CommandRunner

(* Type correctness of the runner, the processes and the window.           *)
TypeOK ==
  /\ flags \subseteq {"running", "exited", "eof"}
  /\ exitStatus \in Statuses
  /\ observing \subseteq {"read", "exit"}
  /\ reading \in {"yes", "no"}
  /\ task \in [phase : {"none", "live", "exited"}, status : Statuses]
  /\ terminated \in {"yes", "no"}
  /\ writers \subseteq {"task", "child"}
  /\ unread \in Nat
  /\ window \in [line : {"Ready", "Running", "Launch failed", "Completed", "Failed"},
                 cancel : {"enabled", "disabled"}]
  /\ accepted \in Nat
  /\ reported \in [count : Nat, status : Statuses]

(* Every accepted command is reported exactly once, whichever of its two   *)
(* ends is seen first: the runner is busy from the launch to the report.   *)
OneReportPerRun == accepted = reported.count + (IF isRunning THEN 1 ELSE 0)

(* The Cancel button is enabled exactly while there is something to        *)
(* cancel.                                                                 *)
ButtonMatchesRunner == window.cancel = "enabled" <=> isRunning

(* A command is reported only when it is over: the task has exited and all *)
(* it and its children wrote has been shown.  The status is the task's     *)
(* own, never the -1 of a command whose end was not seen or the status of  *)
(* an earlier command, whichever of the two ends came last.                *)
ReportIsTrue ==
  [][reported' # reported =>
       /\ task.phase = "exited" /\ writers = {} /\ unread = 0
       /\ reported'.status = task.status]_vars

(* Every accepted command is reported in the end.                          *)
EveryRunReports == isRunning ~> ~isRunning

(* RSWorkbenchController.m: "A command is already running. Cancel it       *)
(* before starting another.": once a command was cancelled, the runner     *)
(* becomes free.                                                           *)
CancelFreesRunner == isRunning /\ terminated = "yes" ~> ~isRunning

-----------------------------------------------------------------------------
(* The strengthening that is inductive: the runner still observes exactly  *)
(* the ends it has not seen, and an end it has seen is a fact.             *)
RunnerInvariant ==
  /\ TypeOK
  /\ OneReportPerRun
  /\ ButtonMatchesRunner
  /\ isRunning => /\ "read" \in observing <=> "eof" \notin flags
                  /\ "exit" \in observing <=> "exited" \notin flags
                  /\ ~({"exited", "eof"} \subseteq flags)
                  /\ task.phase \in {"live", "exited"}
                  /\ reading = "yes" <=> "eof" \notin flags
  /\ ~isRunning => observing = {}
  /\ "exited" \in flags => exitStatus = task.status
  /\ "eof" \in flags => writers = {} /\ unread = 0
  /\ task.phase = "live" <=> "task" \in writers
  /\ task.phase = "exited" <=> task.status # "none"
  /\ "exited" \in flags => task.phase = "exited"
=============================================================================
