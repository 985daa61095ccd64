--------------------------- MODULE SliceLifecycle ---------------------------
(***************************************************************************)
(* What the build farm promises about one list of architecture slices,     *)
(* told without workers, heartbeats or disks: a slice waits, is handed out *)
(* to a builder, and is closed; it can come back to the waiting state once *)
(* in its life, so it is handed out at most twice; and a crash forgets     *)
(* only slices at the end of the list that were never handed out.          *)
(***************************************************************************)
EXTENDS Naturals, Sequences

CONSTANT MaxBatch   \* bound: slices listed by one submission

VARIABLE slices   \* [phase, spare, handed] for each slice, in list order

Phases == {"waiting", "out", "closed"}
NewSlice == [phase |-> "waiting", spare |-> 1, handed |-> 0]

Init == slices = << >>

Listed ==
  \E n \in 0..MaxBatch : slices' = slices \o [k \in 1..n |-> NewSlice]

(* The end of the list is forgotten, if nobody was ever given any of it.   *)
Forgotten ==
  \E n \in 0..Len(slices) :
    /\ \A i \in (n + 1)..Len(slices) : slices[i] = NewSlice
    /\ slices' = SubSeq(slices, 1, n)

HandedOut ==
  \E i \in DOMAIN slices :
    /\ slices[i].phase = "waiting"
    /\ slices' = [slices EXCEPT ![i].phase = "out", ![i].handed = @ + 1]

Closed(s) == [s EXCEPT !.phase = "closed"]
Retried(s) == [s EXCEPT !.phase = "waiting", !.spare = 0]

(* A report, a cancellation or a retry of one slice, in any phase.         *)
Concluded ==
  \E i \in DOMAIN slices :
    \/ slices' = [slices EXCEPT ![i] = Closed(slices[i])]
    \/ /\ slices[i].spare = 1
       /\ slices' = [slices EXCEPT ![i] = Retried(slices[i])]

(* Several builders are given up at once.                                  *)
GivenUp ==
  \E lost \in SUBSET {i \in DOMAIN slices : slices[i].phase = "out"} :
    slices' = [i \in DOMAIN slices |->
                 IF i \notin lost THEN slices[i]
                 ELSE IF slices[i].spare = 1 THEN Retried(slices[i])
                                             ELSE Closed(slices[i])]

Next == Listed \/ Forgotten \/ HandedOut \/ Concluded \/ GivenUp

Spec == Init /\ [][Next]_slices
=============================================================================
