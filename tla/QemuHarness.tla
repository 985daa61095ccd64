---------------------------- MODULE QemuHarness ----------------------------
(***************************************************************************)
(* The boot tests (boote_test.py, darwin_installer_test.py): QEMU is       *)
(* started with its monitor on a pipe, screenshots are taken until the     *)
(* guest shows what a stage expects or its time is over, a report is       *)
(* written, QEMU is closed, and the next case follows.                     *)
(*                                                                         *)
(* QEMU is a process of its own: it may be slow, hang or exit between any  *)
(* two steps of the test, and the operator may interrupt a test.           *)
(***************************************************************************)
EXTENDS Integers, Sequences, FiniteSetsExt

CONSTANTS
  Suites,       \* what the tool may be asked: cases, and whether to sum up
  Screens,      \* what a guest may show, as sets of terms
  MaxAttempts,  \* screenshots that fit in a stage's time
  Absent

(* A stage waits for something, a plan ends with a stage that decides, and *)
(* once a test may pass nothing is required any more.                      *)
Decides(plan, s) ==
  /\ plan[s].terms # {}
  /\ {plan[s].found, plan[s].missed} \subseteq {"next", "passed", "failed"}
  /\ s = Len(plan) => plan[s].found # "next" /\ plan[s].missed # "next"
  /\ "passed" \in {plan[s].found, plan[s].missed} =>
       \A t \in 1..Len(plan) : t > s => plan[t].missed # "failed"

ASSUME QemuAssumption ==
  /\ MaxAttempts \in Nat \ {0}
  /\ Absent \notin {"passed", "failed", "error"}
  /\ \A s \in Suites :
       /\ s.aggregate \in BOOLEAN /\ Len(s.cases) \in Nat \ {0}
       /\ \A c \in 1..Len(s.cases) :
            /\ Len(s.cases[c]) \in Nat \ {0}
            /\ \A i \in 1..Len(s.cases[c]) : Decides(s.cases[c], i)

VARIABLES
  suite,     \* what was asked
  case,      \* the case under way
  at,        \* where the test is
  stage,     \* its stage
  attempts,  \* screenshots taken in it
  outcome,   \* what became of the case
  status,    \* the exit status so far
  process,   \* QEMU: "none", "running", "hung", "exited"
  screen,    \* the terms the guest shows
  inbox,     \* commands in the monitor's pipe
  signal,    \* the signal QEMU was sent
  probe,     \* the screenshot file
  reports,   \* report.json of each case
  latest,    \* latest.json
  matrix,    \* matrix-latest.json, as far as this run wrote it
  shown      \* history: stages whose terms were on the screen in their time

main == <<suite, case, status, matrix>>
test == <<stage, attempts, outcome>>
guest == <<process, screen, inbox, signal, shown>>
disk == <<probe, reports, latest>>

vars == <<at, main, test, guest, disk>>

Cases == suite.cases
Plan == Cases[case]
Stage == Plan[stage]

Init ==
  /\ suite \in Suites
  /\ case = 1 /\ at = "start" /\ stage = 1 /\ attempts = 0
  /\ outcome = "running" /\ status = 0
  /\ process = "none" /\ screen = {} /\ inbox = << >> /\ signal = "none"
  /\ probe = Absent /\ latest = Absent /\ matrix = Absent
  /\ reports = [c \in 1..Len(suite.cases) |-> Absent]
  /\ shown = {}

(* The stage s, if its terms are on the screen.                            *)
Reached(s, terms) == IF Plan[s].terms \subseteq terms THEN {s} ELSE {}

-----------------------------------------------------------------------------
(* The inputs are checked, a new directory is made, QEMU is started: any   *)
(* of it may raise before there is a report.                               *)
start ==
  /\ at = "start"
  /\ \/ /\ at' = "await"
        /\ process' = "running" /\ screen' = {} /\ inbox' = << >> /\ signal' = "none"
        /\ stage' = 1 /\ attempts' = 0 /\ outcome' = "running"
        /\ probe' = Absent /\ shown' = {}
        /\ UNCHANGED <<main, reports, latest>>
     \/ /\ at' = "over" /\ status' = 2 /\ outcome' = "error"
        /\ UNCHANGED <<suite, case, matrix, stage, attempts, guest, disk>>

(* Any exception in a stage: reported, and on to the finally clause.       *)
harnessError ==
  /\ at' = "close"
  /\ outcome' = "error"
  /\ reports' = [reports EXCEPT ![case] = "error"]
  /\ UNCHANGED <<stage, attempts, latest>>

(* One screenshot is asked for at least; the time is up somewhere after.   *)
await ==
  /\ at = "await"
  /\ \/ /\ attempts < MaxAttempts /\ process # "exited"
        /\ at' = "look"
        /\ inbox' = Append(inbox, "screendump")
        /\ attempts' = attempts + 1
        /\ UNCHANGED <<stage, outcome, process, screen, signal, shown, disk>>
     \/ /\ attempts < MaxAttempts /\ process = "exited"
        /\ harnessError /\ UNCHANGED <<guest, probe>>
     \/ /\ attempts > 0 /\ at' = "missed" /\ UNCHANGED <<test, guest, disk>>
  /\ UNCHANGED main

(* Mutant: one of the terms is enough.                                     *)
screen_has_any(text, terms) == text \cap terms # {}

screen_has_terms(text, terms) == terms \subseteq text

(* OCR may miss terms.  Without a file by now, or if a tool fails, the     *)
(* test is over.                                                           *)
capture ==
  /\ at = "look"
  /\ \/ /\ probe # Absent
        /\ \E text \in SUBSET probe :
             at' = IF screen_has_terms(text, Stage.terms) THEN "found" ELSE "await"
        /\ probe' = Absent
        /\ UNCHANGED <<test, reports, latest>>
     \/ harnessError /\ UNCHANGED probe
  /\ UNCHANGED <<main, guest>>

(* Keys before the next stage, a memory dump after the handoff.            *)
CommandFollows == Stage.dump \/ (Stage.keys /\ at = "found")

(* What a found or a missed stage means for the test is part of its plan.  *)
conclude ==
  /\ at \in {"found", "missed"}
  /\ LET verdict == IF at = "found" THEN Stage.found ELSE Stage.missed
     IN \/ /\ CommandFollows /\ process = "exited"
           /\ harnessError /\ UNCHANGED <<guest, probe>>
        \/ /\ ~CommandFollows \/ process # "exited"
           /\ verdict = "next"
           /\ at' = "await" /\ stage' = stage + 1 /\ attempts' = 0
           /\ shown' = shown \cup Reached(stage + 1, screen)
           /\ UNCHANGED <<outcome, process, screen, inbox, signal, disk>>
        \/ /\ ~CommandFollows \/ process # "exited"
           /\ verdict # "next"
           /\ at' = "close" /\ outcome' = verdict
           /\ reports' = [reports EXCEPT ![case] = verdict]
           /\ UNCHANGED <<stage, attempts, guest, probe, latest>>
  /\ UNCHANGED main

(* The body of the try statement.                                          *)
Waiting == {"await", "look", "found", "missed"}

(* An interrupt is no Exception.  Within the try the finally clause runs,  *)
(* with the report that is there, if any.  Before the try and within the   *)
(* clause nothing catches it: the tool ends where it is, and a QEMU that   *)
(* was started, or was not closed yet, stays.                              *)
interrupt ==
  /\ outcome' = "interrupted"
  /\ \/ /\ at \in Waiting \cup {"close"}
        /\ at' = "close"
        /\ UNCHANGED <<status, process>>
     \/ /\ at \notin Waiting \cup {"over", "aborted"}
        /\ at' = "aborted" /\ status' = 2
        /\ process' \in IF at = "start" THEN {process, "running"} ELSE {process}
  /\ UNCHANGED <<suite, case, matrix, stage, attempts, screen, inbox, signal, shown, disk>>

-----------------------------------------------------------------------------
quit ==
  /\ at = "close"
  /\ IF process = "exited"
     THEN at' = "latest" /\ UNCHANGED inbox
     ELSE at' = "quit" /\ inbox' = Append(inbox, "quit")
  /\ UNCHANGED <<main, test, process, screen, signal, shown, disk>>

closed ==
  /\ at \in {"quit", "terminate", "kill"} /\ process = "exited"
  /\ at' = "latest"
  /\ UNCHANGED <<main, test, guest, disk>>

(* Mutants: the wait has no limit; QEMU is given up after the first signal.*)
escalateNever == FALSE /\ UNCHANGED vars

escalateOnce ==
  /\ at \in {"quit", "terminate"} /\ process # "exited"
  /\ at' = IF at = "quit" THEN "terminate" ELSE "latest"
  /\ signal' = "terminate"
  /\ UNCHANGED <<main, test, process, screen, inbox, shown, disk>>

(* Five seconds for the command, three for each signal.                    *)
escalate ==
  /\ at \in {"quit", "terminate"} /\ process # "exited"
  /\ at' = IF at = "quit" THEN "terminate" ELSE "kill"
  /\ signal' = at'
  /\ UNCHANGED <<main, test, process, screen, inbox, shown, disk>>

(* Mutant: only a test that returns updates latest.json.                   *)
publishReturned ==
  /\ at = "latest"
  /\ at' = "next"
  /\ latest' = IF outcome \in {"passed", "failed"}
               THEN [case |-> case, result |-> reports[case]] ELSE latest
  /\ UNCHANGED <<main, test, guest, probe, reports>>

publishLatest ==
  /\ at = "latest"
  /\ at' = "next"
  /\ latest' = IF reports[case] # Absent
               THEN [case |-> case, result |-> reports[case]] ELSE latest
  /\ UNCHANGED <<main, test, guest, probe, reports>>

Code == [passed |-> 0, failed |-> 1]

(* Mutant: the last case decides.                                          *)
LastStatus == Code[outcome]

Status == Max({status, Code[outcome]})

(* The next case, the sum of all cases, or the end after an exception.     *)
proceed ==
  /\ at = "next"
  /\ IF outcome \in {"error", "interrupted"}
     THEN at' = "over" /\ status' = 2 /\ UNCHANGED <<case, matrix>>
     ELSE /\ status' = Status
          /\ IF case < Len(Cases)
             THEN at' = "start" /\ case' = case + 1 /\ UNCHANGED matrix
             ELSE /\ at' = "over"
                  /\ matrix' = IF suite.aggregate THEN [passed |-> status' = 0, cases |-> reports]
                               ELSE matrix
                  /\ UNCHANGED case
  /\ UNCHANGED <<suite, test, guest, disk>>

-----------------------------------------------------------------------------
show ==
  /\ process = "running"
  /\ screen' \in Screens
  /\ shown' = shown \cup Reached(stage, screen')
  /\ UNCHANGED <<at, main, test, process, inbox, signal, disk>>

serve ==
  /\ process = "running" /\ inbox # << >>
  /\ inbox' = Tail(inbox)
  /\ \/ Head(inbox) = "screendump" /\ probe' = screen /\ UNCHANGED process
     \/ Head(inbox) = "quit" /\ process' = "exited" /\ UNCHANGED probe
  /\ UNCHANGED <<at, main, test, screen, signal, shown, reports, latest>>

stop(how) ==
  /\ process' = how
  /\ UNCHANGED <<at, main, test, screen, inbox, signal, shown, disk>>

hang == process = "running" /\ stop("hung")

exit == process \in {"running", "hung"} /\ stop("exited")

signalled ==
  /\ \/ signal = "terminate" /\ process = "running"
     \/ signal = "kill" /\ process \in {"running", "hung"}
  /\ stop("exited")

-----------------------------------------------------------------------------
Test ==
  \/ start \/ await \/ capture \/ conclude
  \/ quit \/ closed \/ escalate \/ publishLatest \/ proceed

Qemu == show \/ serve \/ hang \/ exit \/ signalled

Next == Test \/ interrupt \/ Qemu

(* The test runs and a killed process ends; QEMU promises nothing.         *)
Fairness == WF_vars(Test) /\ WF_vars(signalled)

Spec == Init /\ [][Next]_vars

FairSpec == Spec /\ Fairness
=============================================================================
