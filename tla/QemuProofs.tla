------------------------------ MODULE QemuProofs -------------------------------
(***************************************************************************)
(* Proofs about the boot tests, for any suite of cases, any stages and     *)
(* screens, and any number of screenshots.                                 *)
(***************************************************************************)
EXTENDS QemuProperties, TLAPS

Closing == {"close", "quit", "terminate", "kill", "latest", "next"}

(* The type invariant, with the inbox as a sequence.                       *)
Shape ==
  /\ TypeOK
  /\ inbox \in Seq({"screendump", "quit"})

(* While the test waits, what it has seen was shown in its time: the       *)
(* screenshot it will look at is one of this stage.                        *)
Seen ==
  at \in Waiting =>
    /\ stage \in 1..Len(Plan)
    /\ Plan[stage].terms \subseteq screen => stage \in shown
    /\ \A s \in 1..Len(Plan) : s < stage /\ Plan[s].missed = "failed" => s \in shown
    /\ at = "found" => stage \in shown
    /\ probe # Absent => at = "look" /\ inbox = << >> /\ (Plan[stage].terms \subseteq probe => stage \in shown)
    /\ inbox = << >> \/ (at = "look" /\ inbox = <<"screendump">>)

Reported ==
  /\ \A c \in 1..Len(Cases) : c > case => reports[c] = Absent
  /\ at \in Waiting \cup {"start"} => reports[case] = Absent
  /\ at \in Closing =>
       \/ outcome = "interrupted"
       \/ outcome \in Results /\ reports[case] = outcome
  /\ at = "next" /\ reports[case] # Absent => latest = [case |-> case, result |-> reports[case]]

(* The status so far is that of the cases that are over.                   *)
Judged ==
  at \notin {"over", "aborted"} =>
    /\ matrix = Absent /\ status \in {0, 1}
    /\ \A c \in 1..Len(Cases) : c < case => reports[c] \in {"passed", "failed"}
    /\ status = 0 <=> \A c \in 1..Len(Cases) : c < case => reports[c] = "passed"

QemuInvariant ==
  Shape /\ QemuIsGone /\ Seen /\ Reported /\ Judged /\ PassedWasShown /\ SuiteIsJudgedByAll

(* What a suite is.                                                        *)
LEMMA SuiteFacts ==
  ASSUME TypeOK
  PROVE  /\ Len(Cases) \in Nat \ {0} /\ case \in Nat \ {0} /\ case <= Len(Cases)
         /\ Len(Plan) \in Nat \ {0}
         /\ \A s \in 1..Len(Plan) : Decides(Plan, s)
         /\ Absent \notin Results
  <1>1. suite \in Suites /\ case \in 1..Len(suite.cases)
    BY DEF TypeOK, Cases
  <1>2. /\ Len(suite.cases) \in Nat \ {0}
        /\ Len(suite.cases[case]) \in Nat \ {0}
        /\ \A s \in 1..Len(suite.cases[case]) : Decides(suite.cases[case], s)
    BY <1>1, QemuAssumption
  <1>3. Absent \notin Results
    BY QemuAssumption DEF Results
  <1> QED
    BY <1>1, <1>2, <1>3 DEF Cases, Plan

LEMMA QemuStarts == Init => QemuInvariant
  <1> SUFFICES ASSUME Init PROVE QemuInvariant
    OBVIOUS
  <1>1. Len(Cases) \in Nat \ {0} /\ Absent \notin Results
    BY QemuAssumption DEF Init, Cases, Results
  <1>2. Len(inbox) = 0 /\ inbox \in Seq({"screendump", "quit"})
    BY DEF Init
  <1>3. reports = [c \in 1..Len(Cases) |-> Absent] /\ case = 1
    BY DEF Init, Cases
  <1>4. TypeOK
    BY <1>1, <1>2, <1>3, QemuAssumption DEF Init, TypeOK
  <1>5. Reported /\ Judged /\ PassedWasShown
    BY <1>1, <1>3 DEF Init, Reported, Judged, PassedWasShown, Waiting, Closing, Results
  <1> QED
    BY <1>2, <1>4, <1>5 DEF Init, QemuInvariant, Shape, QemuIsGone, Seen, Waiting, SuiteIsJudgedByAll

(* What QEMU does: the test, its reports and its verdicts stay.            *)
LEMMA GuestSteps ==
  ASSUME QemuInvariant, Qemu
  PROVE  QemuInvariant'
  <1>0. /\ Shape /\ QemuIsGone /\ Seen /\ Reported /\ Judged /\ PassedWasShown /\ SuiteIsJudgedByAll
        /\ TypeOK /\ inbox \in Seq({"screendump", "quit"})
    BY DEF QemuInvariant, Shape
  <1>1. UNCHANGED <<at, suite, case, status, matrix, stage, attempts, outcome, reports, latest>>
    BY DEF Qemu, show, serve, hang, exit, signalled, stop, main, test, disk
  <1>2. Cases' = Cases /\ Plan' = Plan
    BY <1>1 DEF Cases, Plan
  <1>3. \/ show
        \/ serve
        \/ /\ process \in {"running", "hung"} /\ process' \in {"hung", "exited"}
           /\ UNCHANGED <<screen, inbox, signal, shown, probe>>
    BY DEF Qemu, hang, exit, signalled, stop, disk
  <1>4. process \in {"running", "hung"}
    BY <1>3 DEF show, serve
  <1>5. at \notin {"start", "latest", "next", "over"}
    BY <1>0, <1>4 DEF QemuIsGone
  <1>6. shown \subseteq shown' /\ stage \in Nat \ {0}
    BY <1>0, <1>3 DEF show, serve, TypeOK
  <1>7. TypeOK' /\ inbox' \in Seq({"screendump", "quit"})
    <2>1. CASE show
      <3>1. screen' \in Screens /\ shown' \subseteq Nat \ {0} /\ UNCHANGED <<process, inbox, signal, probe>>
        BY <1>0, <1>6, <2>1 DEF show, Reached, TypeOK, disk
      <3> QED
        BY <1>0, <1>1, <1>2, <3>1 DEF TypeOK
    <2>2. CASE serve
      <3>1. /\ inbox' \in Seq({"screendump", "quit"})
            /\ UNCHANGED <<screen, signal, shown>>
            /\ process' \in {process, "exited"} /\ probe' \in {probe, screen}
        BY <1>0, <2>2 DEF serve
      <3> QED
        BY <1>0, <1>1, <1>2, <3>1 DEF TypeOK
    <2>3. CASE /\ process \in {"running", "hung"} /\ process' \in {"hung", "exited"}
               /\ UNCHANGED <<screen, inbox, signal, shown, probe>>
      BY <1>0, <1>1, <1>2, <2>3 DEF TypeOK
    <2> QED
      BY <1>3, <2>1, <2>2, <2>3
  <1>8. Seen'
    <2> SUFFICES ASSUME at \in Waiting PROVE Seen'
      BY <1>1 DEF Seen
    <2>1. /\ stage \in 1..Len(Plan)
          /\ \A s \in 1..Len(Plan) : s < stage /\ Plan[s].missed = "failed" => s \in shown
          /\ at = "found" => stage \in shown
          /\ Plan[stage].terms \subseteq screen => stage \in shown
          /\ probe # Absent => at = "look" /\ inbox = << >> /\ (Plan[stage].terms \subseteq probe => stage \in shown)
          /\ inbox = << >> \/ (at = "look" /\ inbox = <<"screendump">>)
      BY <1>0 DEF Seen
    <2>2. CASE show
      <3>1. /\ Plan[stage].terms \subseteq screen' => stage \in shown'
            /\ UNCHANGED <<inbox, probe>>
        BY <2>2 DEF show, Reached, disk
      <3> QED
        BY <1>1, <1>2, <1>6, <2>1, <3>1 DEF Seen
    <2>3. CASE serve
      <3>1. at = "look" /\ inbox = <<"screendump">> /\ inbox # << >>
        BY <2>1, <2>3 DEF serve
      <3>2. Head(inbox) = "screendump" /\ Tail(inbox) = << >>
        BY <3>1
      <3>3. inbox' = << >> /\ probe' = screen /\ UNCHANGED <<screen, shown>>
        BY <2>3, <3>2 DEF serve
      <3> QED
        BY <1>1, <1>2, <2>1, <3>1, <3>3 DEF Seen
    <2>4. CASE UNCHANGED <<screen, inbox, shown, probe>>
      BY <1>1, <1>2, <2>1, <2>4 DEF Seen
    <2> QED
      BY <1>3, <2>2, <2>3, <2>4
  <1>9. Reported' /\ Judged'
    BY <1>0, <1>1, <1>2 DEF Reported, Judged
  <1>10. QemuIsGone' /\ PassedWasShown' /\ SuiteIsJudgedByAll'
    BY <1>0, <1>1, <1>2, <1>5, <1>6 DEF QemuIsGone, PassedWasShown, SuiteIsJudgedByAll
  <1> QED
    BY <1>7, <1>8, <1>9, <1>10 DEF QemuInvariant, Shape

(* A case gets its result, and all its screens were shown if it passed.    *)
LEMMA CaseCloses ==
  ASSUME QemuInvariant, at \in Waiting, at' = "close", NEW r \in Results, outcome' = r,
         reports' = [reports EXCEPT ![case] = r], UNCHANGED <<main, guest, stage, attempts, probe, latest>>,
         r = "passed" => \A s \in 1..Len(Plan) : Plan[s].missed = "failed" => s \in shown
  PROVE  QemuInvariant'
  <1>0. Shape /\ Reported /\ Judged /\ TypeOK /\ inbox \in Seq({"screendump", "quit"})
    BY DEF QemuInvariant, Shape
  <1>1. UNCHANGED <<suite, case, status, matrix, process, screen, inbox, signal, shown, stage, attempts,
                    probe, latest>>
    BY DEF main, guest
  <1>2. Cases' = Cases /\ Plan' = Plan
    BY <1>1 DEF Cases, Plan
  <1>3. case \in 1..Len(Cases) /\ Len(Cases) \in Nat
    BY <1>0, SuiteFacts
  <1>4. reports'[case] = r /\ \A c \in 1..Len(Cases) : c # case => reports'[c] = reports[c]
    BY <1>0, <1>3 DEF TypeOK
  <1>5. TypeOK'
    <2>1. reports' \in [1..Len(Cases) -> Results \cup {Absent}]
      BY <1>0, <1>3 DEF TypeOK
    <2> QED
      BY <1>0, <1>1, <1>2, <2>1 DEF TypeOK
  <1>6. Reported'
    BY <1>0, <1>1, <1>2, <1>3, <1>4 DEF Reported, Waiting, Closing
  <1>7. Judged'
    BY <1>0, <1>1, <1>2, <1>3, <1>4 DEF Judged, Waiting
  <1>8. QemuIsGone' /\ Seen' /\ PassedWasShown' /\ SuiteIsJudgedByAll'
    BY <1>1, <1>2, <1>4 DEF QemuIsGone, Seen, Waiting, PassedWasShown, SuiteIsJudgedByAll
  <1> QED
    BY <1>0, <1>1, <1>5, <1>6, <1>7, <1>8 DEF QemuInvariant, Shape

(* The test goes on waiting.                                               *)
LEMMA StillWaits ==
  ASSUME QemuInvariant, at \in Waiting, at' \in Waiting,
         UNCHANGED <<main, outcome, process, reports, latest>>, shown \subseteq shown',
         TypeOK', inbox' \in Seq({"screendump", "quit"}), Seen'
  PROVE  QemuInvariant'
  <1>0. Reported /\ Judged /\ TypeOK
    BY DEF QemuInvariant, Shape
  <1>1. UNCHANGED <<suite, case, status, matrix, process, reports, latest>>
    BY DEF main
  <1>2. Cases' = Cases /\ Plan' = Plan
    BY <1>1 DEF Cases, Plan
  <1>3. reports[case] = Absent /\ Absent \notin Results
    BY <1>0, SuiteFacts DEF Reported
  <1>4. Reported' /\ Judged'
    BY <1>0, <1>1, <1>2 DEF Reported, Judged, Waiting, Closing
  <1>5. QemuIsGone' /\ PassedWasShown' /\ SuiteIsJudgedByAll'
    BY <1>1, <1>2, <1>3 DEF QemuIsGone, Waiting, PassedWasShown, SuiteIsJudgedByAll, Results
  <1> QED
    BY <1>4, <1>5 DEF QemuInvariant, Shape

(* An exception ends the case.                                             *)
LEMMA ErrorCloses ==
  ASSUME QemuInvariant, at \in Waiting, harnessError, UNCHANGED <<main, guest, probe>>
  PROVE  QemuInvariant'
  BY CaseCloses DEF harnessError, Results

LEMMA AwaitSteps ==
  ASSUME QemuInvariant, await
  PROVE  QemuInvariant'
  <1>0. /\ Shape /\ Seen /\ TypeOK /\ inbox \in Seq({"screendump", "quit"}) /\ at = "await" /\ at \in Waiting
        /\ UNCHANGED main
    BY DEF QemuInvariant, Shape, await, Waiting
  <1>1. Cases' = Cases /\ Plan' = Plan /\ UNCHANGED <<suite, case, status, matrix>>
    BY <1>0 DEF Cases, Plan, main
  <1>2. /\ inbox = << >> /\ probe = Absent /\ stage \in 1..Len(Plan)
        /\ Plan[stage].terms \subseteq screen => stage \in shown
        /\ \A s \in 1..Len(Plan) : s < stage /\ Plan[s].missed = "failed" => s \in shown
    BY <1>0 DEF Seen
  <1>3. CASE harnessError /\ UNCHANGED <<guest, probe>>
    BY <1>0, <1>3, ErrorCloses
  <1>4. CASE /\ attempts < MaxAttempts
             /\ at' = "look"
             /\ inbox' = Append(inbox, "screendump")
             /\ attempts' = attempts + 1
             /\ UNCHANGED <<stage, outcome, process, screen, signal, shown, disk>>
    <2>1. UNCHANGED <<probe, reports, latest>> /\ inbox' = <<"screendump">> /\ at' = "look"
      BY <1>2, <1>4 DEF disk
    <2>2. inbox' \in Seq({"screendump", "quit"}) /\ attempts' \in 0..MaxAttempts
      BY <1>0, <1>4, QemuAssumption DEF TypeOK
    <2>3. \A i \in 1..Len(inbox') : inbox'[i] \in {"screendump", "quit"}
      BY <2>2
    <2>4. TypeOK'
      BY <1>0, <1>1, <1>4, <2>1, <2>2, <2>3 DEF TypeOK
    <2>5. Seen'
      BY <1>1, <1>2, <1>4, <2>1 DEF Seen
    <2> QED
      BY <1>0, <1>4, <2>1, <2>2, <2>4, <2>5, StillWaits DEF Waiting
  <1>5. CASE at' = "missed" /\ UNCHANGED <<test, guest, disk>>
    <2>1. UNCHANGED <<stage, attempts, outcome, process, screen, inbox, signal, shown, probe, reports, latest>>
      BY <1>5 DEF test, guest, disk
    <2>2. TypeOK' /\ Seen'
      BY <1>0, <1>1, <1>2, <1>5, <2>1 DEF TypeOK, Seen
    <2> QED
      BY <1>0, <1>5, <2>1, <2>2, StillWaits DEF Waiting
  <1> QED
    BY <1>0, <1>3, <1>4, <1>5 DEF await

LEMMA CaptureSteps ==
  ASSUME QemuInvariant, capture
  PROVE  QemuInvariant'
  <1>0. /\ Shape /\ Seen /\ TypeOK /\ inbox \in Seq({"screendump", "quit"}) /\ at = "look" /\ at \in Waiting
        /\ UNCHANGED main /\ UNCHANGED guest
    BY DEF QemuInvariant, Shape, capture, Waiting
  <1>1. Cases' = Cases /\ Plan' = Plan /\ UNCHANGED <<suite, case, status, matrix, process, screen, inbox, signal, shown>>
    BY <1>0 DEF Cases, Plan, main, guest
  <1>2. CASE harnessError /\ UNCHANGED probe
    BY <1>0, <1>2, ErrorCloses
  <1>3. CASE /\ probe # Absent
             /\ \E text \in SUBSET probe :
                  at' = IF screen_has_terms(text, Stage.terms) THEN "found" ELSE "await"
             /\ probe' = Absent
             /\ UNCHANGED <<test, reports, latest>>
    <2>1. UNCHANGED <<stage, attempts, outcome, reports, latest>> /\ probe' = Absent /\ at' \in {"found", "await"}
      BY <1>3 DEF test
    <2>2. /\ inbox = << >> /\ stage \in 1..Len(Plan)
          /\ Plan[stage].terms \subseteq probe => stage \in shown
          /\ Plan[stage].terms \subseteq screen => stage \in shown
          /\ \A s \in 1..Len(Plan) : s < stage /\ Plan[s].missed = "failed" => s \in shown
      BY <1>0, <1>3 DEF Seen
    <2>3. at' = "found" => stage \in shown
      BY <1>3, <2>2 DEF screen_has_terms, Stage
    <2>4. TypeOK'
      BY <1>0, <1>1, <2>1 DEF TypeOK
    <2>5. Seen'
      BY <1>1, <2>1, <2>2, <2>3 DEF Seen
    <2> QED
      BY <1>0, <1>1, <2>1, <2>4, <2>5, StillWaits DEF Waiting
  <1> QED
    BY <1>0, <1>2, <1>3 DEF capture

(* What the test may conclude from a stage that passes it.                 *)
LEMMA PassingWasShown ==
  ASSUME QemuInvariant, at \in {"found", "missed"},
         (IF at = "found" THEN Stage.found ELSE Stage.missed) = "passed"
  PROVE  \A s \in 1..Len(Plan) : Plan[s].missed = "failed" => s \in shown
  <1>1. /\ stage \in 1..Len(Plan) /\ Len(Plan) \in Nat
        /\ at = "found" => stage \in shown
        /\ \A s \in 1..Len(Plan) : s < stage /\ Plan[s].missed = "failed" => s \in shown
    BY SuiteFacts DEF QemuInvariant, Shape, Seen, Waiting
  <1>2. \A t \in 1..Len(Plan) : t > stage => Plan[t].missed # "failed"
    BY <1>1, SuiteFacts DEF QemuInvariant, Shape, Decides, Stage
  <1>3. Plan[stage].missed = "failed" => stage \in shown
    BY <1>1 DEF Stage
  <1> QED
    BY <1>1, <1>2, <1>3

LEMMA ConcludeSteps ==
  ASSUME QemuInvariant, conclude
  PROVE  QemuInvariant'
  <1>0. /\ Shape /\ Seen /\ TypeOK /\ inbox \in Seq({"screendump", "quit"}) /\ at \in {"found", "missed"}
        /\ at \in Waiting /\ UNCHANGED main
    BY DEF QemuInvariant, Shape, conclude, Waiting
  <1>1. Cases' = Cases /\ Plan' = Plan /\ UNCHANGED <<suite, case, status, matrix>>
    BY <1>0 DEF Cases, Plan, main
  <1>2. /\ stage \in 1..Len(Plan) /\ Len(Plan) \in Nat
        /\ at = "found" => stage \in shown
        /\ \A s \in 1..Len(Plan) : s < stage /\ Plan[s].missed = "failed" => s \in shown
        /\ probe = Absent /\ inbox = << >>
    BY <1>0, SuiteFacts DEF Seen
  <1>3. PICK verdict : verdict = IF at = "found" THEN Stage.found ELSE Stage.missed
    OBVIOUS
  <1>4. /\ verdict \in {"next", "passed", "failed"}
        /\ stage = Len(Plan) => verdict # "next"
    BY <1>0, <1>2, <1>3, SuiteFacts DEF Decides, Stage
  <1>5. CASE harnessError /\ UNCHANGED <<guest, probe>>
    BY <1>0, <1>5, ErrorCloses
  <1>6. CASE /\ verdict = "next"
             /\ at' = "await" /\ stage' = stage + 1 /\ attempts' = 0
             /\ shown' = shown \cup Reached(stage + 1, screen)
             /\ UNCHANGED <<outcome, process, screen, inbox, signal, disk>>
    <2>1. UNCHANGED <<outcome, process, screen, inbox, signal, probe, reports, latest>>
      BY <1>6 DEF disk
    <2>2. stage' \in 1..Len(Plan)
      BY <1>2, <1>4, <1>6
    <2>3. shown \subseteq shown' /\ shown' \subseteq Nat \ {0}
      BY <1>0, <1>2, <1>6 DEF Reached, TypeOK
    <2>4. Plan[stage'].terms \subseteq screen => stage' \in shown'
      BY <1>6 DEF Reached
    <2>5. Plan[stage].missed = "failed" => stage \in shown
      BY <1>0, <1>2, <1>3, <1>6 DEF Stage
    <2>6. \A s \in 1..Len(Plan) : s < stage' /\ Plan[s].missed = "failed" => s \in shown'
      BY <1>2, <1>6, <2>3, <2>5
    <2>7. TypeOK'
      BY <1>0, <1>1, <1>6, <2>1, <2>2, <2>3, QemuAssumption DEF TypeOK
    <2>8. Seen'
      BY <1>1, <1>2, <1>6, <2>1, <2>2, <2>4, <2>6 DEF Seen
    <2> QED
      BY <1>0, <1>6, <2>1, <2>3, <2>7, <2>8, StillWaits DEF Waiting
  <1>7. CASE /\ verdict # "next"
             /\ at' = "close" /\ outcome' = verdict
             /\ reports' = [reports EXCEPT ![case] = verdict]
             /\ UNCHANGED <<stage, attempts, guest, probe, latest>>
    <2>1. verdict \in Results
      BY <1>4, <1>7 DEF Results
    <2>2. verdict = "passed" => \A s \in 1..Len(Plan) : Plan[s].missed = "failed" => s \in shown
      BY <1>0, <1>3, PassingWasShown
    <2> QED
      BY <1>0, <1>7, <2>1, <2>2, CaseCloses
  <1> QED
    BY <1>3, <1>5, <1>6, <1>7 DEF conclude

(* An interrupt, in the try or outside of it.                              *)
LEMMA InterruptSteps ==
  ASSUME QemuInvariant, interrupt
  PROVE  QemuInvariant'
  <1>0. /\ Shape /\ QemuIsGone /\ Reported /\ Judged /\ PassedWasShown /\ TypeOK
        /\ inbox \in Seq({"screendump", "quit"})
    BY DEF QemuInvariant, Shape
  <1>1. /\ UNCHANGED <<suite, case, matrix, stage, attempts, screen, inbox, signal, shown, probe, reports, latest>>
        /\ outcome' = "interrupted"
    BY DEF interrupt, disk
  <1>2. Cases' = Cases /\ Plan' = Plan
    BY <1>1 DEF Cases, Plan
  <1>3. PassedWasShown'
    BY <1>0, <1>1, <1>2 DEF PassedWasShown
  <1>4. CASE at \in Waiting \cup {"close"} /\ at' = "close" /\ UNCHANGED <<status, process>>
    <2>1. TypeOK'
      BY <1>0, <1>1, <1>2, <1>4 DEF TypeOK
    <2>2. Reported' /\ Judged'
      BY <1>0, <1>1, <1>2, <1>4 DEF Reported, Judged, Waiting, Closing
    <2>3. QemuIsGone' /\ Seen' /\ SuiteIsJudgedByAll'
      BY <1>4 DEF QemuIsGone, Seen, Waiting, SuiteIsJudgedByAll
    <2> QED
      BY <1>0, <1>1, <1>3, <2>1, <2>2, <2>3 DEF QemuInvariant, Shape
  <1>5. CASE /\ at \notin Waiting \cup {"over", "aborted"} /\ at' = "aborted" /\ status' = 2
             /\ process' \in IF at = "start" THEN {process, "running"} ELSE {process}
    <2>1. process' \in {"none", "running", "hung", "exited"}
      BY <1>0, <1>5 DEF TypeOK
    <2>2. TypeOK'
      BY <1>0, <1>1, <1>2, <1>5, <2>1 DEF TypeOK
    <2>3. Reported' /\ Judged'
      BY <1>0, <1>1, <1>2, <1>5 DEF Reported, Judged, Waiting, Closing
    <2>4. matrix' = Absent
      BY <1>0, <1>1, <1>5 DEF Judged
    <2>5. QemuIsGone' /\ Seen' /\ SuiteIsJudgedByAll'
      BY <1>1, <1>5, <2>4 DEF QemuIsGone, Seen, Waiting, SuiteIsJudgedByAll
    <2> QED
      BY <1>0, <1>1, <1>3, <2>2, <2>3, <2>5 DEF QemuInvariant, Shape
  <1> QED
    BY <1>4, <1>5 DEF interrupt

(* The steps that bring QEMU down and publish.                             *)
LEMMA CloseSteps ==
  ASSUME QemuInvariant, quit \/ closed \/ escalate \/ publishLatest
  PROVE  QemuInvariant'
  <1>0. Shape /\ QemuIsGone /\ Reported /\ Judged /\ PassedWasShown /\ TypeOK /\ inbox \in Seq({"screendump", "quit"})
    BY DEF QemuInvariant, Shape
  <1>1. /\ UNCHANGED <<suite, case, status, matrix, stage, attempts, process, screen, shown, probe, reports>>
        /\ at \in Closing /\ at # "next" /\ at' \in Closing /\ UNCHANGED outcome
    BY DEF quit, closed, escalate, publishLatest, main, test, guest, disk, Waiting, Closing
  <1>2. at' \in {"latest", "next"} => process \in {"none", "exited"}
    BY <1>0 DEF quit, closed, escalate, publishLatest, QemuIsGone
  <1>3. Cases' = Cases /\ Plan' = Plan
    BY <1>1 DEF Cases, Plan
  <1>4. inbox' \in Seq({"screendump", "quit"}) /\ \A i \in 1..Len(inbox') : inbox'[i] \in {"screendump", "quit"}
    <2>1. inbox' = inbox \/ inbox' = Append(inbox, "quit")
      BY DEF quit, closed, escalate, publishLatest, guest
    <2>2. inbox' \in Seq({"screendump", "quit"})
      BY <1>0, <2>1
    <2> QED
      BY <2>2
  <1>5. signal' \in {signal, "terminate", "kill"}
    BY DEF quit, closed, escalate, publishLatest, guest
  <1>6. outcome = "interrupted" \/ (outcome \in Results /\ reports[case] = outcome)
    BY <1>0, <1>1 DEF Reported, Closing
  <1>7. case \in 1..Len(Cases) /\ Absent \notin Results
    BY <1>0, SuiteFacts
  <1>8. latest' = latest \/ (reports[case] \in Results /\ latest' = [case |-> case, result |-> reports[case]])
    BY <1>0, <1>7 DEF TypeOK, quit, closed, escalate, publishLatest, disk, Closing
  <1>9. at' = "next" /\ reports[case] # Absent => latest' = [case |-> case, result |-> reports[case]]
    BY <1>1, <1>7 DEF quit, closed, escalate, publishLatest, Closing
  <1>10. TypeOK'
    BY <1>0, <1>1, <1>3, <1>4, <1>5, <1>7, <1>8 DEF TypeOK, Closing
  <1>11. Reported'
    BY <1>0, <1>1, <1>3, <1>6, <1>9 DEF Reported, Waiting, Closing
  <1>12. Judged'
    BY <1>0, <1>1, <1>3 DEF Judged, Waiting, Closing
  <1>13. QemuIsGone' /\ Seen' /\ PassedWasShown' /\ SuiteIsJudgedByAll'
    BY <1>0, <1>1, <1>2, <1>3 DEF QemuIsGone, Seen, Waiting, Closing, PassedWasShown, SuiteIsJudgedByAll
  <1> QED
    BY <1>4, <1>10, <1>11, <1>12, <1>13 DEF QemuInvariant, Shape

LEMMA StartSteps ==
  ASSUME QemuInvariant, start
  PROVE  QemuInvariant'
  <1>0. /\ Shape /\ QemuIsGone /\ Reported /\ Judged /\ TypeOK /\ inbox \in Seq({"screendump", "quit"})
        /\ at = "start"
    BY DEF QemuInvariant, Shape, start
  <1>1. UNCHANGED <<suite, case, matrix, reports, latest>>
    BY DEF start, main, disk
  <1>2. Cases' = Cases /\ Plan' = Plan
    BY <1>1 DEF Cases, Plan
  <1>3. /\ case \in 1..Len(Cases) /\ Len(Plan) \in Nat \ {0} /\ Plan[1].terms # {}
        /\ reports[case] = Absent /\ Absent \notin Results
    BY <1>0, SuiteFacts DEF Reported, Decides
  <1>4. PassedWasShown'
    BY <1>1, <1>2, <1>3 DEF PassedWasShown, Results
  <1>5. CASE /\ at' = "await"
             /\ process' = "running" /\ screen' = {} /\ inbox' = << >> /\ signal' = "none"
             /\ stage' = 1 /\ attempts' = 0 /\ outcome' = "running"
             /\ probe' = Absent /\ shown' = {}
             /\ UNCHANGED <<main, reports, latest>>
    <2>1. Len(inbox') = 0 /\ inbox' \in Seq({"screendump", "quit"}) /\ UNCHANGED status
      BY <1>5 DEF main
    <2>2. TypeOK'
      BY <1>0, <1>1, <1>2, <1>5, <2>1, QemuAssumption DEF TypeOK
    <2>3. Seen'
      BY <1>2, <1>3, <1>5 DEF Seen
    <2>4. Reported' /\ Judged'
      BY <1>0, <1>1, <1>2, <1>5, <2>1 DEF Reported, Judged, Waiting, Closing
    <2>5. QemuIsGone' /\ SuiteIsJudgedByAll'
      BY <1>5 DEF QemuIsGone, SuiteIsJudgedByAll
    <2> QED
      BY <1>4, <2>1, <2>2, <2>3, <2>4, <2>5 DEF QemuInvariant, Shape
  <1>6. CASE /\ at' = "over" /\ status' = 2 /\ outcome' = "error"
             /\ UNCHANGED <<suite, case, matrix, stage, attempts, guest, disk>>
    <2>1. UNCHANGED <<stage, attempts, process, screen, inbox, signal, shown, probe>>
      BY <1>6 DEF guest, disk
    <2>2. TypeOK'
      BY <1>0, <1>1, <1>2, <1>6, <2>1 DEF TypeOK, Results
    <2>3. Seen' /\ Reported' /\ Judged' /\ QemuIsGone'
      BY <1>0, <1>1, <1>2, <1>6, <2>1 DEF Seen, Reported, Judged, QemuIsGone, Waiting, Closing
    <2>4. SuiteIsJudgedByAll'
      BY <1>0, <1>1, <1>2, <1>3, <1>6 DEF SuiteIsJudgedByAll, Judged, Results
    <2> QED
      BY <1>0, <1>4, <2>1, <2>2, <2>3, <2>4 DEF QemuInvariant, Shape
  <1> QED
    BY <1>5, <1>6 DEF start

(* The status of the cases that are over, once one more is.                *)
LEMMA StatusIsMax ==
  ASSUME status \in {0, 1}, outcome \in {"passed", "failed"}
  PROVE  Status \in {0, 1} /\ (Status = 0 <=> status = 0 /\ outcome = "passed")
  <1> DEFINE S == {status, Code[outcome]}
  <1>1. Code[outcome] = IF outcome = "passed" THEN 0 ELSE 1
    BY DEF Code
  <1>2. \E x \in S : \A y \in S : x >= y
    BY <1>1
  <1>3. Status \in S /\ \A y \in S : Status >= y
    BY <1>2 DEF Status, Max
  <1> QED
    BY <1>1, <1>3

LEMMA ProceedSteps ==
  ASSUME QemuInvariant, proceed
  PROVE  QemuInvariant'
  <1>0. /\ Shape /\ QemuIsGone /\ Reported /\ Judged /\ PassedWasShown /\ TypeOK
        /\ inbox \in Seq({"screendump", "quit"}) /\ at = "next"
    BY DEF QemuInvariant, Shape, proceed
  <1>1. UNCHANGED <<suite, stage, attempts, outcome, process, screen, inbox, signal, shown, probe, reports, latest>>
    BY DEF proceed, test, guest, disk
  <1>2. Cases' = Cases /\ (UNCHANGED case => Plan' = Plan)
    BY <1>1 DEF Cases, Plan
  <1>3. /\ case \in 1..Len(Cases) /\ Len(Cases) \in Nat /\ Absent \notin Results
    BY <1>0, SuiteFacts
  <1>4. /\ matrix = Absent /\ status \in {0, 1}
        /\ \A c \in 1..Len(Cases) : c < case => reports[c] \in {"passed", "failed"}
        /\ status = 0 <=> \A c \in 1..Len(Cases) : c < case => reports[c] = "passed"
    BY <1>0 DEF Judged
  <1>5. /\ \/ outcome = "interrupted"
           \/ outcome \in Results /\ reports[case] = outcome
        /\ \A c \in 1..Len(Cases) : c > case => reports[c] = Absent
    BY <1>0 DEF Reported, Closing
  <1>6. QemuIsGone' /\ Seen'
    BY <1>0, <1>1 DEF proceed, QemuIsGone, Seen, Waiting
  <1>7. CASE outcome \in {"error", "interrupted"}
    <2>1. at' = "over" /\ status' = 2 /\ UNCHANGED <<case, matrix>>
      BY <1>7 DEF proceed
    <2>2. TypeOK'
      BY <1>0, <1>1, <1>2, <2>1 DEF TypeOK
    <2>3. Reported' /\ Judged' /\ PassedWasShown'
      BY <1>0, <1>1, <1>2, <2>1 DEF Reported, Judged, PassedWasShown, Waiting, Closing
    <2>4. outcome = "interrupted" \/ reports[case] # "passed"
      BY <1>3, <1>5, <1>7 DEF Results
    <2>5. SuiteIsJudgedByAll'
      BY <1>1, <1>2, <1>3, <1>4, <2>1, <2>4 DEF SuiteIsJudgedByAll
    <2> QED
      BY <1>0, <1>1, <1>6, <2>2, <2>3, <2>5 DEF QemuInvariant, Shape
  <1>8. CASE outcome \notin {"error", "interrupted"}
    <2>1. outcome \in {"passed", "failed"} /\ reports[case] = outcome
      BY <1>5, <1>8 DEF Results
    <2>2. /\ status' \in {0, 1}
          /\ status' = 0 <=> \A c \in 1..Len(Cases) : c <= case => reports[c] = "passed"
      <3>1. status' = Status
        BY <1>8 DEF proceed
      <3>2. status' \in {0, 1} /\ (status' = 0 <=> status = 0 /\ outcome = "passed")
        BY <1>4, <2>1, <3>1, StatusIsMax
      <3> QED
        BY <1>3, <1>4, <2>1, <3>2
    <2>3. CASE case < Len(Cases)
      <3>1. at' = "start" /\ case' = case + 1 /\ UNCHANGED matrix
        BY <1>8, <2>3 DEF proceed
      <3>2. TypeOK'
        BY <1>0, <1>1, <1>2, <1>3, <2>2, <2>3, <3>1 DEF TypeOK
      <3>3. reports'[case'] = Absent /\ PassedWasShown'
        BY <1>1, <1>3, <1>5, <2>3, <3>1 DEF PassedWasShown, Results
      <3>4. Reported'
        BY <1>1, <1>2, <1>3, <1>5, <3>1, <3>3 DEF Reported, Waiting, Closing
      <3>5. Judged'
        BY <1>1, <1>2, <1>3, <1>4, <2>1, <2>2, <3>1 DEF Judged
      <3>6. SuiteIsJudgedByAll'
        BY <3>1 DEF SuiteIsJudgedByAll
      <3> QED
        BY <1>0, <1>1, <1>6, <3>2, <3>3, <3>4, <3>5, <3>6 DEF QemuInvariant, Shape
    <2>4. CASE case = Len(Cases)
      <3>1. /\ at' = "over" /\ UNCHANGED case
            /\ matrix' = (IF suite.aggregate THEN [passed |-> status' = 0, cases |-> reports] ELSE matrix)
        BY <1>3, <1>8, <2>4 DEF proceed
      <3>2. TypeOK'
        BY <1>0, <1>1, <1>2, <2>2, <3>1 DEF TypeOK
      <3>3. Reported' /\ Judged' /\ PassedWasShown'
        BY <1>0, <1>1, <1>2, <3>1 DEF Reported, Judged, PassedWasShown, Waiting, Closing
      <3>4. status' = 0 <=> (\A c \in 1..Len(Cases) : reports[c] = "passed")
        BY <1>3, <2>2, <2>4
      <3>5. outcome' # "interrupted" /\ reports' = reports /\ Cases' = Cases
        BY <1>1, <1>2, <2>1
      <3>6. SuiteIsJudgedByAll'
        BY <1>4, <3>1, <3>4, <3>5 DEF SuiteIsJudgedByAll
      <3> QED
        BY <1>0, <1>1, <1>6, <3>2, <3>3, <3>6 DEF QemuInvariant, Shape
    <2> QED
      BY <1>3, <2>3, <2>4
  <1> QED
    BY <1>7, <1>8

LEMMA QemuSteps ==
  ASSUME QemuInvariant, [Next]_vars
  PROVE  QemuInvariant'
  <1>1. CASE UNCHANGED vars
    <2>1. UNCHANGED <<at, suite, case, status, matrix, stage, attempts, outcome, process, screen, inbox, signal,
                      shown, probe, reports, latest>>
      BY <1>1 DEF vars, main, test, guest, disk
    <2>2. Cases' = Cases /\ Plan' = Plan
      BY <2>1 DEF Cases, Plan
    <2>3. TypeOK' /\ inbox' \in Seq({"screendump", "quit"})
      BY <2>1, <2>2 DEF QemuInvariant, Shape, TypeOK
    <2>4. QemuIsGone' /\ Seen' /\ PassedWasShown'
      BY <2>1, <2>2 DEF QemuInvariant, QemuIsGone, Seen, PassedWasShown
    <2>5. Reported' /\ Judged' /\ SuiteIsJudgedByAll'
      BY <2>1, <2>2 DEF QemuInvariant, Reported, Judged, SuiteIsJudgedByAll
    <2> QED
      BY <2>3, <2>4, <2>5 DEF QemuInvariant, Shape
  <1> QED
    BY <1>1, GuestSteps, StartSteps, AwaitSteps, CaptureSteps, ConcludeSteps, InterruptSteps, CloseSteps, ProceedSteps
    DEF Next, Test

(* The strengthening: the screenshot under way is one of this stage, every *)
(* required screen of the stages before was shown, and the status is that  *)
(* of the cases that are over.                                             *)
THEOREM QemuInvariantHolds == Spec => []QemuInvariant
  <1>1. QemuInvariant /\ [Next]_vars => QemuInvariant'
    BY QemuSteps
  <1> QED
    BY <1>1, QemuStarts, PTL DEF Spec

(* Type correctness, for every suite.                                      *)
THEOREM QemuTypeOK == Spec => []TypeOK
  <1>1. QemuInvariant => TypeOK
    BY DEF QemuInvariant, Shape
  <1> QED
    BY <1>1, QemuInvariantHolds, PTL

(* No QEMU is left behind a case or by a tool that ends: QemuMonitor.close *)
(* leaves only by an exit, after the second signal if need be, or by an    *)
(* interrupt that comes while it waits, which ends the tool as "aborted".  *)
THEOREM NoQemuIsLeft == Spec => []QemuIsGone
  <1>1. QemuInvariant => QemuIsGone
    BY DEF QemuInvariant
  <1> QED
    BY <1>1, QemuInvariantHolds, PTL

(* A case that is reported as passed showed every required screen while    *)
(* the test waited for it (_capture, _await_terms, the two drivers).       *)
THEOREM PassesWereShown == Spec => []PassedWasShown
  <1>1. QemuInvariant => PassedWasShown
    BY DEF QemuInvariant
  <1> QED
    BY <1>1, QemuInvariantHolds, PTL

(* The report is what the caller gets unless the test was interrupted, and *)
(* latest.json is the report.                                              *)
THEOREM ReportsDoAgree == Spec => []ReportsAgree
  <1>1. QemuInvariant => ReportsAgree
    BY SuiteFacts DEF QemuInvariant, Shape, Reported, ReportsAgree, Closing, Results
  <1> QED
    BY <1>1, QemuInvariantHolds, PTL

(* The exit status and the matrix's sum are success exactly if all cases   *)
(* passed and no interrupt ended the tool.                                 *)
THEOREM SuitesAreJudged == Spec => []SuiteIsJudgedByAll
  <1>1. QemuInvariant => SuiteIsJudgedByAll
    BY DEF QemuInvariant
  <1> QED
    BY <1>1, QemuInvariantHolds, PTL
=============================================================================
