--------------------------- MODULE QemuProperties ---------------------------
(***************************************************************************)
(* What must be true of the boot tests.                                    *)
(***************************************************************************)
EXTENDS QemuHarness

Results == {"passed", "failed", "error"}

(* Type correctness of the test's, QEMU's and the files' state.            *)
TypeOK ==
  /\ suite \in Suites
  /\ case \in 1..Len(Cases) /\ stage \in Nat \ {0} /\ attempts \in 0..MaxAttempts
  /\ at \in {"start", "await", "look", "found", "missed", "close", "quit", "terminate",
             "kill", "latest", "next", "over", "aborted"}
  /\ outcome \in Results \cup {"running", "interrupted"}
  /\ status \in 0..2
  /\ process \in {"none", "running", "hung", "exited"}
  /\ screen \in Screens \cup {{}}
  /\ signal \in {"none", "terminate", "kill"}
  /\ \A i \in 1..Len(inbox) : inbox[i] \in {"screendump", "quit"}
  /\ probe \in Screens \cup {{}, Absent}
  /\ reports \in [1..Len(Cases) -> Results \cup {Absent}]
  /\ latest = Absent \/ latest \in [case : 1..Len(Cases), result : Results]
  /\ shown \subseteq Nat \ {0}

(* No QEMU is left behind a case or by a tool that ends, whether QEMU      *)
(* hangs, ignores its monitor and the first signal, or the test is         *)
(* interrupted while it waits.  It is left only if the operator interrupts *)
(* the start of a test or the finally clause ("aborted"), where            *)
(* QemuMonitor.close catches no KeyboardInterrupt.                         *)
QemuIsGone == at \in {"start", "latest", "next", "over"} => process \in {"none", "exited"}

(* A case is reported as passed only if the guest really showed every      *)
(* screen the case requires, each while the test waited for it.            *)
PassedWasShown ==
  reports[case] = "passed" =>
    \A s \in 1..Len(Plan) : Plan[s].missed = "failed" => s \in shown

(* boote/README.md: every case stores its report, and latest.json points   *)
(* to the most recent case: the report is what the caller gets of a case   *)
(* that was not interrupted, and latest.json is the report wherever there  *)
(* is one.                                                                 *)
ReportsAgree ==
  at = "next" =>
    /\ outcome # "interrupted" => reports[case] = outcome
    /\ reports[case] # Absent => latest = [case |-> case, result |-> reports[case]]

(* The tool's exit status is success exactly if all its cases passed and   *)
(* it was not interrupted, and the sum of a matrix says so of all of them. *)
SuiteIsJudgedByAll ==
  at \in {"over", "aborted"} =>
    LET passed == \A c \in 1..Len(Cases) : reports[c] = "passed"
    IN /\ status = 0 <=> passed /\ outcome # "interrupted"
       /\ matrix # Absent => (matrix.passed <=> passed) /\ matrix.cases = reports

(* However QEMU behaves, the tool ends.                                    *)
EveryTestEnds == <>(at \in {"over", "aborted"})
=============================================================================
