------------------------------ MODULE V2Proofs ------------------------------
(***************************************************************************)
(* Proofs about the Voodoo2 server: for any number of clients, no board is *)
(* mapped twice and no board is lost with a dead owner.                    *)
(***************************************************************************)
EXTENDS V2Properties, TLAPS

(* A list keeps its members when another is appended.                      *)
LEMMA AppendKeeps ==
  ASSUME NEW S, NEW s \in Seq(S), NEW x \in S
  PROVE  /\ Append(s, x) \in Seq(S)
         /\ Len(Append(s, x)) = Len(s) + 1
         /\ \A i \in DOMAIN s : i \in DOMAIN Append(s, x) /\ Append(s, x)[i] = s[i]
         /\ \A i \in DOMAIN Append(s, x) : i \in DOMAIN s \/ Append(s, x)[i] = x
         /\ Len(s) + 1 \in DOMAIN Append(s, x) /\ Append(s, x)[Len(s) + 1] = x
  OBVIOUS

(* A member of a list is its head or a member of its tail.                 *)
LEMMA HeadOrTail ==
  ASSUME NEW S, NEW s \in Seq(S), s # << >>
  PROVE  /\ Head(s) \in S /\ Tail(s) \in Seq(S)
         /\ 1 \in DOMAIN s /\ Head(s) = s[1]
         /\ \A i \in DOMAIN s : i = 1 \/ (i - 1 \in DOMAIN Tail(s) /\ Tail(s)[i - 1] = s[i])
         /\ \A i \in DOMAIN Tail(s) : i + 1 \in DOMAIN s /\ Tail(s)[i] = s[i + 1]
  OBVIOUS

(* Updating the records of a list of devices keeps it one of the same      *)
(* length.                                                                 *)
LEMMA DeviceList ==
  ASSUME NEW s \in Seq(DeviceRecords), NEW t,
         t \in [DOMAIN s -> DeviceRecords]
  PROVE  t \in Seq(DeviceRecords) /\ Len(t) = Len(s) /\ DOMAIN t = DOMAIN s
  OBVIOUS

LEMMA InitBoard == Init => BoardInvariant
  <1> SUFFICES ASSUME Init PROVE BoardInvariant
    OBVIOUS
  <1> USE DEF Init
  <1>1. TypeOK
    BY DEF TypeOK, Phases, Requests, Idle, ClosedLibrary, DeviceIndexes, V2SERVER_MAX_DEVICES
  <1>2. LockInvariant /\ KnownInvariant /\ NoticeInvariant
    BY DEF LockInvariant, KnownInvariant, NoticeInvariant, Idle
  <1>3. OwnerIsMapped /\ DeadOwnerIsNoticed
    BY DEF OwnerIsMapped, DeadOwnerIsNoticed, Alive, Recording
  <1> QED
    BY <1>1, <1>2, <1>3 DEF BoardInvariant

-----------------------------------------------------------------------------
(* What the steps of the invariant rest on besides types.                  *)
Rest == LockInvariant /\ KnownInvariant /\ NoticeInvariant /\ OwnerIsMapped /\ DeadOwnerIsNoticed

(* A step that changes neither the table, the request in hand, the maps    *)
(* and the notifications nor who is alive preserves all of it.             *)
LEMMA CalmStep ==
  ASSUME Rest,
         UNCHANGED <<devices, phase, request, result, mutex, dying, notices, known, mapped>>,
         \A c : Alive(c)' <=> Alive(c),
         \A c : client[c] = "dead" => client'[c] = "dead",
         \A c : client'[c] = "unborn" => client[c] = "unborn"
  PROVE  Rest'
  <1>1. LockInvariant'
    BY DEF Rest, LockInvariant
  <1>2. \A c : Noticed(c)' <=> Noticed(c)
    BY DEF Noticed
  <1>3. KnownInvariant'
    BY <1>2 DEF Rest, KnownInvariant
  <1>4. NoticeInvariant'
    BY DEF Rest, NoticeInvariant
  <1>5. OwnerIsMapped'
    BY DEF Rest, OwnerIsMapped, Recording
  <1>6. DeadOwnerIsNoticed'
    BY <1>2 DEF Rest, DeadOwnerIsNoticed
  <1> QED
    BY <1>1, <1>3, <1>4, <1>5, <1>6 DEF Rest

(* A client that was alive and sends is alive still.                       *)
LEMMA SendingStaysAlive ==
  ASSUME TypeOK, NEW c \in Clients, client[c] = "idle",
         NEW at \in {"counting", "mapping"}, client' = [client EXCEPT ![c] = at]
  PROVE  /\ \A x : Alive(x)' <=> Alive(x)
         /\ \A x : client[x] = "dead" => client'[x] = "dead"
         /\ \A x : client'[x] = "unborn" => client[x] = "unborn"
  BY BoardAssumption DEF TypeOK, Alive

LEMMA ProbeStep == BoardInvariant /\ probe => BoardInvariant'
  <1> SUFFICES ASSUME BoardInvariant, probe PROVE BoardInvariant'
    OBVIOUS
  <1> USE DEF probe, serverVars, cleanupVars, clientVars
  <1>1. TypeOK'
    BY DEF BoardInvariant, TypeOK
  <1>2. Rest'
    BY CalmStep DEF BoardInvariant, Rest, Alive
  <1> QED
    BY <1>1, <1>2 DEF BoardInvariant, Rest

LEMMA SendStep ==
  ASSUME BoardInvariant, NEW c \in Clients, NEW d \in DeviceIndexes,
         NEW routine \in {"count", "map"}, NEW at \in {"counting", "mapping"},
         Sends(c, routine, d, at)
  PROVE  BoardInvariant'
  <1> USE DEF Sends, serverVars, cleanupVars, clientVars
  <1>1. [from |-> c, routine |-> routine, device |-> d] \in Requests
    BY DEF Requests
  <1>2. messages' \in Seq(Requests)
    BY <1>1, AppendKeeps DEF BoardInvariant, TypeOK
  <1>3. TypeOK'
    BY <1>2 DEF BoardInvariant, TypeOK
  <1>4. Rest'
    BY CalmStep, SendingStaysAlive DEF BoardInvariant, Rest
  <1> QED
    BY <1>3, <1>4 DEF BoardInvariant, Rest

LEMMA CloseStep ==
  ASSUME BoardInvariant, NEW c \in Clients, pciClose(c)
  PROVE  BoardInvariant'
  <1> USE DEF pciClose, serverVars, cleanupVars
  <1>1. TypeOK'
    BY DEF BoardInvariant, TypeOK, ClosedLibrary, V2SERVER_MAX_DEVICES
  <1>2. Rest'
    BY CalmStep DEF BoardInvariant, Rest, Alive
  <1> QED
    BY <1>1, <1>2 DEF BoardInvariant, Rest

(* A launched process has no map and owns nothing: a dead owner is noticed *)
(* and so was launched before.                                             *)
LEMMA LaunchStep ==
  ASSUME BoardInvariant, NEW c \in Clients, launch(c)
  PROVE  BoardInvariant'
  <1> USE DEF launch, serverVars, cleanupVars
  <1>1. TypeOK'
    BY DEF BoardInvariant, TypeOK
  <1>2. /\ ~Alive(c) /\ Alive(c)' /\ c # NoTask /\ client[c] = "unborn" /\ ~Noticed(c)
        /\ \A x : x # c => (Alive(x)' <=> Alive(x))
        /\ \A x : client[x] = "dead" => client'[x] = "dead"
        /\ \A x : client'[x] = "unborn" => client[x] = "unborn"
    BY BoardAssumption DEF BoardInvariant, TypeOK, Alive, Noticed, NoticeInvariant
  <1>3. \A x : Noticed(x)' <=> Noticed(x)
    BY DEF Noticed
  <1>4. \A d \in DOMAIN devices : devices[d].ownerTask # c
    BY <1>2 DEF BoardInvariant, DeadOwnerIsNoticed
  <1>5. phase \in {"lock", "map", "record"} => request.from # c
    BY <1>2 DEF BoardInvariant, KnownInvariant
  <1>6. LockInvariant'
    BY DEF BoardInvariant, LockInvariant
  <1>7. KnownInvariant'
    BY <1>2, <1>3, <1>4, <1>5 DEF BoardInvariant, KnownInvariant
  <1>8. NoticeInvariant'
    BY <1>2 DEF BoardInvariant, NoticeInvariant
  <1>9. \A d : <<c, d>> \notin mapped
    BY <1>2 DEF BoardInvariant, KnownInvariant
  <1>10. OwnerIsMapped'
    BY <1>2, <1>4, <1>5, <1>9 DEF BoardInvariant, OwnerIsMapped, Recording
  <1>11. DeadOwnerIsNoticed'
    BY <1>2, <1>3 DEF BoardInvariant, DeadOwnerIsNoticed
  <1> QED
    BY <1>1, <1>6, <1>7, <1>8, <1>10, <1>11 DEF BoardInvariant

-----------------------------------------------------------------------------
(* The end of a process.                                                   *)
LEMMA ExitStep ==
  ASSUME BoardInvariant, NEW c \in Clients, exit(c)
  PROVE  BoardInvariant'
  <1> USE DEF exit, serverVars, cleanupVars
  <1>1. /\ notices' \in Seq(Clients)
        /\ \A i \in DOMAIN notices : i \in DOMAIN notices' /\ notices'[i] = notices[i]
        /\ \A i \in DOMAIN notices' : i \in DOMAIN notices \/ notices'[i] = c
        /\ c \in known => \E i \in DOMAIN notices' : notices'[i] = c
    <2>1. notices \in Seq(Clients)
      BY DEF BoardInvariant, TypeOK
    <2>2. CASE c \in known
      <3>1. notices' = Append(notices, c)
        BY <2>2
      <3> QED
        BY <2>1, <3>1, AppendKeeps
    <2>3. CASE c \notin known
      BY <2>1, <2>3
    <2> QED
      BY <2>2, <2>3
  <1>2. TypeOK'
    BY <1>1 DEF BoardInvariant, TypeOK
  <1>3. /\ Alive(c) /\ ~Alive(c)' /\ c # NoTask /\ client'[c] = "dead"
        /\ \A x : x # c => (Alive(x)' <=> Alive(x)) /\ client'[x] = client[x]
    BY DEF BoardInvariant, TypeOK, Alive
  <1>4. (\A x : Noticed(x) => Noticed(x)') /\ (c \in known => Noticed(c)')
    BY <1>1 DEF Noticed
  <1>5. LockInvariant'
    BY DEF BoardInvariant, LockInvariant
  <1>6. KnownInvariant'
    <2>1. (request.from # NoTask => client[request.from] # "unborn")'
      BY <1>3 DEF BoardInvariant, KnownInvariant
    <2>2. (\A m \in mapped : Alive(m[1]))'
      BY <1>3 DEF BoardInvariant, KnownInvariant
    <2>3. (\A d \in DOMAIN devices : Alive(devices[d].ownerTask) => devices[d].ownerTask \in known)'
      BY <1>3 DEF BoardInvariant, KnownInvariant
    <2>4. (phase \in {"lock", "map", "record"} /\ Alive(request.from) => request.from \in known)'
      BY <1>3 DEF BoardInvariant, KnownInvariant
    <2>5. (phase = "record" /\ result = "success" /\ ~Alive(request.from) => Noticed(request.from))'
      BY <1>3, <1>4 DEF BoardInvariant, KnownInvariant
    <2> QED
      BY <2>1, <2>2, <2>3, <2>4, <2>5 DEF KnownInvariant
  <1>7. NoticeInvariant'
    BY <1>1, <1>3 DEF BoardInvariant, NoticeInvariant
  <1>8. OwnerIsMapped'
    <2> SUFFICES ASSUME NEW x \in Clients, NEW d \in DeviceIndexes, Alive(x)'
                 PROVE  (<<x, d>> \in mapped <=>
                          (d \in DOMAIN devices /\ devices[d].ownerTask = x) \/ Recording(x, d))'
      BY DEF OwnerIsMapped
    <2>1. x # c /\ Alive(x)
      BY <1>3
    <2>2. <<x, d>> \in mapped' <=> <<x, d>> \in mapped
      BY <2>1
    <2> QED
      BY <2>1, <2>2 DEF BoardInvariant, OwnerIsMapped, Recording
  <1>9. DeadOwnerIsNoticed'
    BY <1>3, <1>4 DEF BoardInvariant, DeadOwnerIsNoticed, KnownInvariant
  <1> QED
    BY <1>2, <1>5, <1>6, <1>7, <1>8, <1>9 DEF BoardInvariant

-----------------------------------------------------------------------------
(* The cleanup thread.                                                     *)
LEMMA NoticeStep == BoardInvariant /\ receiveNotice => BoardInvariant'
  <1> SUFFICES ASSUME BoardInvariant, receiveNotice PROVE BoardInvariant'
    OBVIOUS
  <1> USE DEF receiveNotice, serverVars, clientVars
  <1>1. /\ Head(notices) \in Clients /\ Tail(notices) \in Seq(Clients)
        /\ 1 \in DOMAIN notices /\ Head(notices) = notices[1]
        /\ \A i \in DOMAIN notices :
             i = 1 \/ (i - 1 \in DOMAIN Tail(notices) /\ Tail(notices)[i - 1] = notices[i])
        /\ \A i \in DOMAIN Tail(notices) :
             i + 1 \in DOMAIN notices /\ Tail(notices)[i] = notices[i + 1]
    BY HeadOrTail DEF BoardInvariant, TypeOK
  <1>2. TypeOK'
    BY <1>1 DEF BoardInvariant, TypeOK
  <1>3. \A x : x # NoTask /\ Noticed(x) => Noticed(x)'
    BY <1>1 DEF Noticed
  <1>4. \A x : Alive(x)' <=> Alive(x)
    BY DEF Alive
  <1>5. LockInvariant' /\ OwnerIsMapped'
    BY <1>4 DEF BoardInvariant, LockInvariant, OwnerIsMapped, Recording
  <1>6. KnownInvariant'
    BY <1>3, <1>4 DEF BoardInvariant, KnownInvariant, LockInvariant
  <1>7. NoticeInvariant'
    BY <1>1 DEF BoardInvariant, NoticeInvariant
  <1>8. DeadOwnerIsNoticed'
    BY <1>3, <1>4 DEF BoardInvariant, DeadOwnerIsNoticed
  <1> QED
    BY <1>2, <1>5, <1>6, <1>7, <1>8 DEF BoardInvariant

LEMMA ReleaseStep == BoardInvariant /\ V2ServerReleaseOwner => BoardInvariant'
  <1> SUFFICES ASSUME BoardInvariant, V2ServerReleaseOwner PROVE BoardInvariant'
    OBVIOUS
  <1> USE DEF V2ServerReleaseOwner, clientVars
  <1>1. devices \in Seq(DeviceRecords)
    BY DEF BoardInvariant, TypeOK
  <1>2. \A i \in DOMAIN devices : devices[i] \in DeviceRecords
    BY <1>1
  <1>3. devices' \in [DOMAIN devices -> DeviceRecords]
    BY <1>2 DEF DeviceRecords
  <1>4. devices' \in Seq(DeviceRecords) /\ Len(devices') = Len(devices)
        /\ DOMAIN devices' = DOMAIN devices
    BY <1>1, <1>3, DeviceList
  <1>5. \A i \in DOMAIN devices :
          /\ devices[i].ownerTask = dying => devices'[i].ownerTask = NoTask
          /\ devices[i].ownerTask # dying => devices'[i].ownerTask = devices[i].ownerTask
    BY <1>2 DEF DeviceRecords
  <1>6. TypeOK'
    BY <1>4 DEF BoardInvariant, TypeOK
  <1>7. phase \notin {"map", "record"}
    BY DEF BoardInvariant, LockInvariant
  <1>8. ~Alive(dying) /\ (\A x : Alive(x)' <=> Alive(x)) /\ ~Alive(NoTask)
    BY DEF BoardInvariant, NoticeInvariant, Alive
  <1>9. \A x : x # dying /\ Noticed(x) => Noticed(x)'
    BY DEF Noticed
  <1>10. LockInvariant' /\ NoticeInvariant'
    BY <1>4, <1>7 DEF BoardInvariant, LockInvariant, NoticeInvariant
  <1>11. KnownInvariant'
    BY <1>4, <1>5, <1>7, <1>8 DEF BoardInvariant, KnownInvariant
  <1>12. OwnerIsMapped'
    BY <1>4, <1>5, <1>7, <1>8 DEF BoardInvariant, OwnerIsMapped, Recording, Alive
  <1>13. DeadOwnerIsNoticed'
    BY <1>4, <1>5, <1>8, <1>9 DEF BoardInvariant, DeadOwnerIsNoticed
  <1> QED
    BY <1>6, <1>10, <1>11, <1>12, <1>13 DEF BoardInvariant

-----------------------------------------------------------------------------
(* Discovery and the request loop.                                         *)
LEMMA DiscoverStep == BoardInvariant /\ discoverDevices => BoardInvariant'
  <1> SUFFICES ASSUME BoardInvariant, discoverDevices PROVE BoardInvariant'
    OBVIOUS
  <1> USE DEF discoverDevices, clientVars, cleanupVars
  <1>1. devices \in Seq(DeviceRecords) /\ Len(devices) <= V2SERVER_MAX_DEVICES
        /\ V2SERVER_MAX_DEVICES \in Nat
    BY DEF BoardInvariant, TypeOK, V2SERVER_MAX_DEVICES
  <1>2. /\ devices' \in Seq(DeviceRecords) /\ Len(devices') <= V2SERVER_MAX_DEVICES
        /\ \A i \in DOMAIN devices : i \in DOMAIN devices' /\ devices'[i] = devices[i]
        /\ \A i \in DOMAIN devices' : i \in DOMAIN devices \/ devices'[i].ownerTask = NoTask
    <2>1. CASE devices' = devices
      BY <1>1, <2>1
    <2>2. ASSUME NEW n \in 0..1, Len(devices) < V2SERVER_MAX_DEVICES,
                 devices' = Append(devices, [ranges |-> n, ownerTask |-> NoTask])
          PROVE  <1>2!1 /\ <1>2!2 /\ <1>2!3
      <3>1. [ranges |-> n, ownerTask |-> NoTask] \in DeviceRecords
        BY DEF DeviceRecords
      <3>2. /\ devices' \in Seq(DeviceRecords) /\ Len(devices') = Len(devices) + 1
            /\ \A i \in DOMAIN devices : i \in DOMAIN devices' /\ devices'[i] = devices[i]
            /\ \A i \in DOMAIN devices' :
                 i \in DOMAIN devices \/ devices'[i] = [ranges |-> n, ownerTask |-> NoTask]
        BY <1>1, <2>2, <3>1, AppendKeeps
      <3>3. Len(devices') <= V2SERVER_MAX_DEVICES
        BY <1>1, <2>2, <3>2
      <3> QED
        BY <3>2, <3>3
    <2> QED
      BY <2>1, <2>2
  <1>3. phase \in {"discover", "receive"} /\ phase' \in {"discover", "receive"}
    BY DEF BoardInvariant, TypeOK
  <1>4. TypeOK'
    BY <1>2, <1>3 DEF BoardInvariant, TypeOK, Phases
  <1>5. (\A x : Alive(x)' <=> Alive(x)) /\ (\A x : Noticed(x)' <=> Noticed(x)) /\ ~Alive(NoTask)
    BY DEF Alive, Noticed
  <1>6. LockInvariant' /\ NoticeInvariant'
    BY <1>3 DEF BoardInvariant, LockInvariant, NoticeInvariant
  <1>7. KnownInvariant'
    BY <1>2, <1>3, <1>5 DEF BoardInvariant, KnownInvariant
  <1>8. OwnerIsMapped'
    BY <1>2, <1>3, <1>5 DEF BoardInvariant, OwnerIsMapped, Recording
  <1>9. DeadOwnerIsNoticed'
    BY <1>2, <1>5 DEF BoardInvariant, DeadOwnerIsNoticed
  <1> QED
    BY <1>4, <1>6, <1>7, <1>8, <1>9 DEF BoardInvariant

LEMMA ReceiveStep == BoardInvariant /\ msg_receive => BoardInvariant'
  <1> SUFFICES ASSUME BoardInvariant, msg_receive PROVE BoardInvariant'
    OBVIOUS
  <1> USE DEF msg_receive, clientVars, cleanupVars
  <1> DEFINE m == Head(messages)
             target == IF Alive(m.from) THEN m.from ELSE NoTask
  <1>1. m \in Requests /\ Tail(messages) \in Seq(Requests)
    BY HeadOrTail DEF BoardInvariant, TypeOK
  <1>2. target \in Clients \cup {NoTask} /\ (target # NoTask => target \in Clients /\ Alive(target))
    BY <1>1 DEF Requests, Alive
  <1>3. request' \in Requests /\ request'.from = target /\ request'.device = m.device
        /\ request'.routine = m.routine
    BY <1>1, <1>2 DEF Requests
  <1>4. known' \subseteq Clients /\ known \subseteq known'
    BY <1>2 DEF BoardInvariant, TypeOK
  <1>5. phase = "receive" /\ phase' \in {"reply", "lock"} /\ result' \in {"none", "success", "failure"}
        /\ (phase' = "lock" => m.routine # "count" /\ target # NoTask /\ ~(m.device > Len(devices)))
    BY DEF BoardInvariant, TypeOK
  <1>6. TypeOK'
    BY <1>1, <1>3, <1>4, <1>5 DEF BoardInvariant, TypeOK, Phases
  <1>7. phase' = "lock" => request'.device \in DOMAIN devices /\ request'.from # NoTask
                           /\ request'.from \in known'
    BY <1>1, <1>3, <1>5 DEF BoardInvariant, TypeOK, Requests, DeviceIndexes, V2SERVER_MAX_DEVICES
  <1>8. (\A x : Alive(x)' <=> Alive(x)) /\ (\A x : Noticed(x)' <=> Noticed(x))
    BY DEF Alive, Noticed
  <1>9. LockInvariant' /\ NoticeInvariant'
    BY <1>5, <1>7 DEF BoardInvariant, LockInvariant, NoticeInvariant
  <1>10. request'.from # NoTask => client[request'.from] # "unborn"
    BY <1>2, <1>3 DEF Alive
  <1>11. KnownInvariant'
    BY <1>4, <1>5, <1>7, <1>8, <1>10 DEF BoardInvariant, KnownInvariant
  <1>12. OwnerIsMapped' /\ DeadOwnerIsNoticed'
    BY <1>5, <1>8 DEF BoardInvariant, OwnerIsMapped, Recording, DeadOwnerIsNoticed
  <1> QED
    BY <1>6, <1>9, <1>11, <1>12 DEF BoardInvariant

LEMMA LockStep == BoardInvariant /\ lockDevice => BoardInvariant'
  <1> SUFFICES ASSUME BoardInvariant, lockDevice PROVE BoardInvariant'
    OBVIOUS
  <1> USE DEF lockDevice, clientVars, cleanupVars
  <1>1. phase = "lock" /\ phase' \in {"reply", "map"} /\ result' \in {"none", "success", "failure"}
        /\ (phase' = "map" => devices[request.device].ownerTask = NoTask /\ mutex' = "loop")
        /\ (phase' # "map" => mutex' = "free")
    BY DEF BoardInvariant, TypeOK, Refused
  <1>2. TypeOK'
    BY <1>1 DEF BoardInvariant, TypeOK, Phases
  <1>3. (\A x : Alive(x)' <=> Alive(x)) /\ (\A x : Noticed(x)' <=> Noticed(x))
    BY DEF Alive, Noticed
  <1>4. LockInvariant' /\ NoticeInvariant'
    BY <1>1 DEF BoardInvariant, LockInvariant, NoticeInvariant
  <1>5. KnownInvariant'
    BY <1>1, <1>3 DEF BoardInvariant, KnownInvariant
  <1>6. OwnerIsMapped' /\ DeadOwnerIsNoticed'
    BY <1>1, <1>3 DEF BoardInvariant, OwnerIsMapped, Recording, DeadOwnerIsNoticed
  <1> QED
    BY <1>2, <1>4, <1>5, <1>6 DEF BoardInvariant

(* The kernel maps a board without owner, so nobody else has it.           *)
LEMMA MapStep == BoardInvariant /\ _IOMapDeviceMemory => BoardInvariant'
  <1> SUFFICES ASSUME BoardInvariant, _IOMapDeviceMemory PROVE BoardInvariant'
    OBVIOUS
  <1> USE DEF _IOMapDeviceMemory, clientVars, cleanupVars
  <1>1. phase = "map" /\ phase' = "record" /\ result' \in {"success", "failure"}
        /\ (result' = "success" =>
              Alive(request.from) /\ mapped' = mapped \cup {<<request.from, request.device>>})
        /\ (result' # "success" => mapped' = mapped)
    OBVIOUS
  <1>2. request.from \in Clients /\ request.device \in DeviceIndexes
        /\ request.device \in DOMAIN devices /\ devices[request.device].ownerTask = NoTask
    BY <1>1 DEF BoardInvariant, TypeOK, LockInvariant, Requests
  <1>3. TypeOK'
    BY <1>1, <1>2 DEF BoardInvariant, TypeOK, Phases
  <1>4. (\A x : Alive(x)' <=> Alive(x)) /\ (\A x : Noticed(x)' <=> Noticed(x))
    BY DEF Alive, Noticed
  <1>5. LockInvariant' /\ NoticeInvariant'
    BY <1>1, <1>2 DEF BoardInvariant, LockInvariant, NoticeInvariant
  <1>6. KnownInvariant'
    <2>1. \A x \in mapped' : Alive(x[1])
      BY <1>1 DEF BoardInvariant, KnownInvariant
    <2> QED
      BY <1>1, <1>4, <2>1 DEF BoardInvariant, KnownInvariant
  <1>7. OwnerIsMapped'
    <2> SUFFICES ASSUME NEW x \in Clients, NEW d \in DeviceIndexes, Alive(x)'
                 PROVE  (<<x, d>> \in mapped <=>
                          (d \in DOMAIN devices /\ devices[d].ownerTask = x) \/ Recording(x, d))'
      BY DEF OwnerIsMapped
    <2>1. x # NoTask /\ (<<x, d>> \in mapped <=> d \in DOMAIN devices /\ devices[d].ownerTask = x)
      BY <1>1, <1>4 DEF BoardInvariant, OwnerIsMapped, Recording, Alive
    <2>2. Recording(x, d)' <=> result' = "success" /\ request.from = x /\ request.device = d
      BY <1>1 DEF Recording
    <2>3. <<x, d>> \in mapped' <=>
            <<x, d>> \in mapped \/ (result' = "success" /\ request.from = x /\ request.device = d)
      BY <1>1
    <2> QED
      BY <2>1, <2>2, <2>3
  <1>8. DeadOwnerIsNoticed'
    BY <1>4 DEF BoardInvariant, DeadOwnerIsNoticed
  <1> QED
    BY <1>3, <1>5, <1>6, <1>7, <1>8 DEF BoardInvariant

(* The record makes the table agree with the map again; an owner that died *)
(* meanwhile is noticed.                                                   *)
LEMMA RecordStep == BoardInvariant /\ recordOwner => BoardInvariant'
  <1> SUFFICES ASSUME BoardInvariant, recordOwner PROVE BoardInvariant'
    OBVIOUS
  <1> USE DEF recordOwner, clientVars, cleanupVars
  <1>1. phase = "record" /\ phase' = "reply" /\ mutex' = "free"
    OBVIOUS
  <1>2. request.from \in Clients /\ request.device \in DOMAIN devices
        /\ devices[request.device].ownerTask = NoTask
    BY <1>1 DEF BoardInvariant, TypeOK, LockInvariant, Requests
  <1>3. devices \in Seq(DeviceRecords)
    BY DEF BoardInvariant, TypeOK
  <1>4. \A i \in DOMAIN devices : devices[i] \in DeviceRecords
    BY <1>3
  <1>5. devices' \in [DOMAIN devices -> DeviceRecords]
        /\ \A i \in DOMAIN devices :
             devices'[i].ownerTask = IF result = "success" /\ i = request.device
                                     THEN request.from ELSE devices[i].ownerTask
    <2>1. CASE result = "success"
      <3>1. [devices[request.device] EXCEPT !.ownerTask = request.from] \in DeviceRecords
        BY <1>2, <1>4 DEF DeviceRecords
      <3>2. [devices[request.device] EXCEPT !.ownerTask = request.from].ownerTask = request.from
        BY <1>2, <1>4 DEF DeviceRecords
      <3>3. devices' = [devices EXCEPT ![request.device] =
                          [devices[request.device] EXCEPT !.ownerTask = request.from]]
        BY <2>1
      <3>4. devices \in [DOMAIN devices -> DeviceRecords]
        BY <1>3
      <3> QED
        BY <1>2, <1>4, <2>1, <3>1, <3>2, <3>3, <3>4
    <2>2. CASE result # "success"
      BY <1>3, <1>4, <2>2
    <2> QED
      BY <2>1, <2>2
  <1>6. devices' \in Seq(DeviceRecords) /\ Len(devices') = Len(devices)
        /\ DOMAIN devices' = DOMAIN devices
    BY <1>3, <1>5, DeviceList
  <1>7. TypeOK'
    BY <1>1, <1>6 DEF BoardInvariant, TypeOK, Phases
  <1>8. (\A x : Alive(x)' <=> Alive(x)) /\ (\A x : Noticed(x)' <=> Noticed(x)) /\ ~Alive(NoTask)
    BY DEF Alive, Noticed
  <1>9. LockInvariant' /\ NoticeInvariant'
    BY <1>1 DEF BoardInvariant, LockInvariant, NoticeInvariant
  <1>10. KnownInvariant'
    BY <1>1, <1>5, <1>6, <1>8 DEF BoardInvariant, KnownInvariant
  <1>11. OwnerIsMapped'
    <2> SUFFICES ASSUME NEW x \in Clients, NEW d \in DeviceIndexes, Alive(x)'
                 PROVE  (<<x, d>> \in mapped <=>
                          (d \in DOMAIN devices /\ devices[d].ownerTask = x) \/ Recording(x, d))'
      BY DEF OwnerIsMapped
    <2>1. Alive(x) /\ x # NoTask
      BY <1>8
    <2>2. ~Recording(x, d)'
      BY <1>1 DEF Recording
    <2>3. <<x, d>> \in mapped <=>
            (d \in DOMAIN devices /\ devices[d].ownerTask = x)
             \/ (result = "success" /\ request.from = x /\ request.device = d)
      BY <1>1, <2>1 DEF BoardInvariant, OwnerIsMapped, Recording
    <2> QED
      BY <1>2, <1>5, <1>6, <2>1, <2>2, <2>3
  <1>12. DeadOwnerIsNoticed'
    BY <1>1, <1>2, <1>5, <1>6, <1>8 DEF BoardInvariant, DeadOwnerIsNoticed, KnownInvariant
  <1> QED
    BY <1>7, <1>9, <1>10, <1>11, <1>12 DEF BoardInvariant

LEMMA ReplyStep == BoardInvariant /\ reply => BoardInvariant'
  <1> SUFFICES ASSUME BoardInvariant, reply PROVE BoardInvariant'
    OBVIOUS
  <1>1. request.device \in DeviceIndexes /\ Len(devices) \in 0..V2SERVER_MAX_DEVICES
    <2>1. request \in Requests /\ devices \in Seq(DeviceRecords) /\ Len(devices) <= V2SERVER_MAX_DEVICES
      BY DEF BoardInvariant, TypeOK
    <2>2. Len(devices) \in Nat
      BY <2>1
    <2>3. request.device \in DeviceIndexes
      BY <2>1 DEF Requests
    <2>4. Len(devices) \in 0..V2SERVER_MAX_DEVICES
      <3>1. \A n \in Nat : n <= V2SERVER_MAX_DEVICES => n \in 0..V2SERVER_MAX_DEVICES
        BY DEF V2SERVER_MAX_DEVICES
      <3>2. Len(devices) <= V2SERVER_MAX_DEVICES
        BY <2>1
      <3> QED
        BY <2>2, <3>1, <3>2
    <2> QED
      BY <2>3, <2>4
  <1> USE DEF reply, cleanupVars
  <1>2. phase = "reply" /\ phase' = "receive" /\ request' = Idle /\ Idle \in Requests
        /\ Idle.from = NoTask
    BY DEF Idle, Requests, DeviceIndexes, V2SERVER_MAX_DEVICES
  <1> DEFINE Libraries == [open : {"yes", "no"}, count : 0..V2SERVER_MAX_DEVICES,
                           cached : SUBSET DeviceIndexes]
  <1>3. Opened \in Libraries
    BY <1>1 DEF Opened, ClosedLibrary, V2SERVER_MAX_DEVICES
  <1>4. library \in [Clients -> Libraries]
    BY DEF BoardInvariant, TypeOK
  <1>5. library' \in [Clients -> Libraries]
    <2>1. CASE ~Alive(request.from)
      BY <1>4, <2>1 DEF clientVars
    <2>2. CASE Alive(request.from)
      <3>1. request.from \in Clients
        BY <2>2 DEF BoardInvariant, TypeOK, Requests, Alive
      <3>2. library[request.from] \in Libraries
        BY <1>4, <3>1
      <3>3. Caching(library[request.from], request.device) \in Libraries
        BY <1>1, <3>2 DEF Caching
      <3> QED
        BY <1>3, <1>4, <2>2, <3>1, <3>2, <3>3
    <2> QED
      BY <2>1, <2>2
  <1>6. /\ client' \in [Clients -> {"unborn", "idle", "counting", "mapping", "dead"}]
        /\ \A x : Alive(x)' <=> Alive(x)
        /\ \A x : client[x] = "dead" => client'[x] = "dead"
    <2>1. client \in [Clients -> {"unborn", "idle", "counting", "mapping", "dead"}]
          /\ request.from \in Clients \cup {NoTask}
      BY DEF BoardInvariant, TypeOK, Requests
    <2>2. CASE ~Alive(request.from)
      BY <2>1, <2>2 DEF clientVars, Alive
    <2>3. CASE Alive(request.from)
      <3>1. client' = [client EXCEPT ![request.from] = "idle"] /\ request.from \in Clients
        BY <2>1, <2>3 DEF Alive
      <3> QED
        BY <2>1, <2>3, <3>1 DEF Alive
    <2> QED
      BY <2>2, <2>3
  <1>7. TypeOK'
    BY <1>2, <1>5, <1>6 DEF BoardInvariant, TypeOK, Phases
  <1>8. \A x : Noticed(x)' <=> Noticed(x)
    BY DEF Noticed
  <1>9. LockInvariant' /\ NoticeInvariant'
    BY <1>2, <1>6 DEF BoardInvariant, LockInvariant, NoticeInvariant
  <1>10. KnownInvariant'
    BY <1>2, <1>6, <1>8 DEF BoardInvariant, KnownInvariant
  <1>11. OwnerIsMapped' /\ DeadOwnerIsNoticed'
    BY <1>2, <1>6, <1>8 DEF BoardInvariant, OwnerIsMapped, Recording, DeadOwnerIsNoticed
  <1> QED
    BY <1>7, <1>9, <1>10, <1>11 DEF BoardInvariant

-----------------------------------------------------------------------------
LEMMA NextKeepsBoardInvariant == BoardInvariant /\ [Next]_vars => BoardInvariant'
  <1> SUFFICES ASSUME BoardInvariant, [Next]_vars PROVE BoardInvariant'
    OBVIOUS
  <1>1. CASE probe
    BY <1>1, ProbeStep
  <1>2. CASE discoverDevices
    BY <1>2, DiscoverStep
  <1>3. CASE RequestLoop
    BY <1>3, ReceiveStep, LockStep, MapStep, RecordStep, ReplyStep DEF RequestLoop
  <1>4. CASE CleanupThread
    BY <1>4, NoticeStep, ReleaseStep DEF CleanupThread
  <1>5. ASSUME NEW c \in Clients, launch(c) \/ pciClose(c) \/ exit(c)
        PROVE  BoardInvariant'
    BY <1>5, LaunchStep, CloseStep, ExitStep
  <1>6. ASSUME NEW c \in Clients, pciOpen(c) PROVE BoardInvariant'
    <2>1. 1 \in DeviceIndexes /\ Sends(c, "count", 1, "counting")
      BY <1>6 DEF pciOpen, DeviceIndexes, V2SERVER_MAX_DEVICES
    <2> QED
      BY <2>1, SendStep
  <1>7. ASSUME NEW c \in Clients, NEW d \in DeviceIndexes, pciMapCardMulti(c, d)
        PROVE  BoardInvariant'
    <2>1. Sends(c, "map", d, "mapping")
      BY <1>7 DEF pciMapCardMulti
    <2> QED
      BY <2>1, SendStep
  <1>8. CASE UNCHANGED vars
    <2> USE <1>8 DEF vars, serverVars, cleanupVars, clientVars
    <2>1. TypeOK'
      BY DEF BoardInvariant, TypeOK
    <2>2. Rest'
      BY CalmStep DEF BoardInvariant, Rest, Alive
    <2> QED
      BY <2>1, <2>2 DEF BoardInvariant, Rest
  <1> QED
    BY <1>1, <1>2, <1>3, <1>4, <1>5, <1>6, <1>7, <1>8 DEF Next

(* The inductive invariant of the board server: types, the mutex           *)
(* discipline of V2Server_MapDeviceMemory and V2ServerReleaseOwner, the    *)
(* ports the server knows, and the table against the kernel's map.         *)
THEOREM BoardInvariantHolds == Spec => []BoardInvariant
  BY InitBoard, NextKeepsBoardInvariant, PTL DEF Spec

(* V2Server_MapDeviceMemory never lends a board to two live processes: two *)
(* mapped clients are both owners in the table, or one is just being       *)
(* recorded, and then the table has no owner.                              *)
THEOREM BoardsAreExclusive == Spec => []ExclusiveMapping
  <1>1. BoardInvariant => ExclusiveMapping
    <2> SUFFICES ASSUME BoardInvariant, NEW m \in mapped, NEW n \in mapped, m[2] = n[2]
                 PROVE  m = n
      BY DEF ExclusiveMapping
    <2>1. m \in Clients \X DeviceIndexes /\ n \in Clients \X DeviceIndexes
      BY DEF BoardInvariant, TypeOK
    <2>2. m = <<m[1], m[2]>> /\ n = <<n[1], n[2]>> /\ m[1] \in Clients /\ n[1] \in Clients
          /\ m[2] \in DeviceIndexes
      BY <2>1
    <2>3. Alive(m[1]) /\ Alive(n[1]) /\ m[1] # NoTask /\ n[1] # NoTask
      BY DEF BoardInvariant, KnownInvariant, Alive
    <2> DEFINE d == m[2]
               Owns(c) == d \in DOMAIN devices /\ devices[d].ownerTask = c
    <2>4. (Owns(m[1]) \/ Recording(m[1], d)) /\ (Owns(n[1]) \/ Recording(n[1], d))
      BY <2>2, <2>3 DEF BoardInvariant, OwnerIsMapped
    <2>5. \A c \in Clients : Recording(c, d) => devices[d].ownerTask = NoTask
      BY DEF BoardInvariant, LockInvariant, Recording
    <2>6. m[1] = n[1]
      BY <2>2, <2>3, <2>4, <2>5 DEF Recording
    <2> QED
      BY <2>2, <2>6
  <1> QED
    BY <1>1, BoardInvariantHolds, PTL

(* V2ServerCleanupThread hears of every dead owner: a board is never lost  *)
(* with the process that had it.                                           *)
THEOREM DeathsAreNoticed == Spec => []DeadOwnerIsNoticed
  <1>1. BoardInvariant => DeadOwnerIsNoticed
    BY DEF BoardInvariant
  <1> QED
    BY <1>1, BoardInvariantHolds, PTL

-----------------------------------------------------------------------------
(* What the client library remembers.  The kernel takes a live client's    *)
(* board from it only when it dies, and no board joins the table once      *)
(* requests are served.                                                    *)
LEMMA LibraryStep ==
  ASSUME BoardInvariant, LibraryInvariant, Next
  PROVE  LibraryInvariant'
<1>a. TypeOK /\ KnownInvariant
  BY DEF BoardInvariant
<1> USE <1>a DEF TypeOK, LibraryInvariant, LibraryIsCurrent, Alive
<1>1. CASE probe
  BY <1>1 DEF probe, serverVars, clientVars
<1>2. CASE discoverDevices
  <2>1. UNCHANGED <<library, client, mapped, request, result>> /\ phase = "discover"
    BY <1>2 DEF discoverDevices, clientVars
  <2>2. phase' \in {"discover", "receive"} /\ \A c \in Clients : library[c].open = "no"
    BY <1>2 DEF discoverDevices
  <2> QED BY <2>1, <2>2
<1>3. CASE msg_receive
  <2>1. UNCHANGED <<devices, library, client, mapped>> /\ phase # "discover" /\ phase' # "discover"
    BY <1>3 DEF msg_receive, clientVars
  <2>2. /\ phase' \in {"reply", "lock"}
        /\ phase' = "lock" => request'.routine = "map"
        /\ request'.routine = "map" => phase' = "lock" \/ result' = "failure"
    <3>1. Head(messages) \in Requests
      BY <1>3 DEF msg_receive
    <3>2. Head(messages).routine \in {"count", "map"}
      BY <3>1 DEF Requests
    <3>3. request'.routine = Head(messages).routine
      BY <1>3, <3>1 DEF msg_receive, Requests
    <3> QED BY <1>3, <3>2, <3>3 DEF msg_receive
  <2> QED BY <2>1, <2>2
<1>4. CASE lockDevice
  BY <1>4 DEF lockDevice, clientVars
<1>5. CASE _IOMapDeviceMemory
  BY <1>5 DEF _IOMapDeviceMemory, clientVars
<1>6. CASE recordOwner
  <2>1. Len(devices') = Len(devices)
    BY <1>6 DEF recordOwner
  <2> QED BY <1>6, <2>1 DEF recordOwner, clientVars
<1>7. CASE reply
  <2>1. /\ phase = "reply" /\ phase' = "receive"
        /\ UNCHANGED <<devices, mapped>>
        /\ \A c \in Clients : Alive(c)' = Alive(c)
    BY <1>7 DEF reply, clientVars
  <2>2. ASSUME NEW c \in Clients
        PROVE  /\ library'[c].cached \subseteq library[c].cached
                    \cup (IF c = request.from /\ request.routine = "map" /\ result = "success"
                          THEN {request.device} ELSE {})
               /\ library'[c].open = "yes" => library'[c].count = Len(devices)
    <3>1. CASE Alive(request.from) /\ c = request.from
      <4>1. request.routine \in {"count", "map"}
        BY DEF Requests
      <4>2. CASE request.routine = "count"
        <5>1. library'[c] = Opened
          BY <1>7, <3>1, <4>2 DEF reply
        <5> QED BY <5>1 DEF Opened, ClosedLibrary
      <4>3. CASE request.routine = "map" /\ result = "success"
        <5>1. library'[c] = [library[c] EXCEPT !.cached = library[c].cached \cup {request.device}]
          BY <1>7, <3>1, <4>3 DEF reply, Caching
        <5>2. library[c] \in [open : {"yes", "no"}, count : 0..V2SERVER_MAX_DEVICES,
                              cached : SUBSET DeviceIndexes]
          OBVIOUS
        <5> QED BY <4>3, <3>1, <5>1, <5>2
      <4>4. CASE request.routine = "map" /\ result # "success"
        BY <1>7, <3>1, <4>4 DEF reply
      <4> QED BY <4>1, <4>2, <4>3, <4>4
    <3>2. CASE ~(Alive(request.from) /\ c = request.from)
      BY <1>7, <3>2 DEF reply, clientVars
    <3> QED BY <3>1, <3>2
  <2>3. \A c \in Clients : Alive(c) => \A d \in library'[c].cached : <<c, d>> \in mapped
    BY <2>1, <2>2
  <2>4. \A c \in Clients : client'[c] = "unborn" => client[c] = "unborn" /\ ~Alive(c)
    BY <1>7 DEF reply, clientVars
  <2>5. \A c \in Clients : client'[c] = "unborn" => library'[c].cached = {}
    BY <1>7, <2>4 DEF reply, clientVars
  <2> QED BY <2>1, <2>2, <2>3, <2>5
<1>8. CASE receiveNotice
  BY <1>8 DEF receiveNotice, serverVars, clientVars
<1>9. CASE V2ServerReleaseOwner
  <2>1. Len(devices') = Len(devices)
    BY <1>9 DEF V2ServerReleaseOwner
  <2> QED BY <1>9, <2>1 DEF V2ServerReleaseOwner, clientVars
<1>10. ASSUME NEW c \in Clients, launch(c) PROVE LibraryInvariant'
  <2>1. /\ client[c] = "unborn"
        /\ UNCHANGED <<devices, phase, request, result, library, mapped>>
        /\ \A k \in Clients : client'[k] = IF k = c THEN "idle" ELSE client[k]
    BY <1>10 DEF launch, serverVars
  <2>2. request.from \in Clients \cup {NoTask} /\ request.from # c
    BY <2>1, BoardAssumption DEF Requests, KnownInvariant, BoardInvariant
  <2> QED BY <2>1, <2>2
<1>11. ASSUME NEW c \in Clients, pciOpen(c) PROVE LibraryInvariant'
  BY <1>11 DEF pciOpen, Sends, serverVars
<1>12. ASSUME NEW c \in Clients, NEW d \in DeviceIndexes, pciMapCardMulti(c, d)
       PROVE  LibraryInvariant'
  BY <1>12 DEF pciMapCardMulti, Sends, serverVars
<1>13. ASSUME NEW c \in Clients, pciClose(c) PROVE LibraryInvariant'
  BY <1>13 DEF pciClose, serverVars, ClosedLibrary
<1>14. ASSUME NEW c \in Clients, exit(c) PROVE LibraryInvariant'
  BY <1>14 DEF exit, serverVars
<1> QED
  BY <1>1, <1>2, <1>3, <1>4, <1>5, <1>6, <1>7, <1>8, <1>9, <1>10, <1>11, <1>12, <1>13, <1>14
     DEF Next, RequestLoop, CleanupThread

(* An address that pciMapCardMulti returns from its cache is mapped, and   *)
(* the number pciOpen was told is final, whatever the order of requests,   *)
(* discovery and deaths.                                                   *)
THEOREM LibrariesStayCurrent == Spec => []LibraryIsCurrent
<1>1. Init => LibraryInvariant
  BY DEF Init, LibraryInvariant, LibraryIsCurrent, ClosedLibrary
<1>2. BoardInvariant /\ LibraryInvariant /\ [Next]_vars => LibraryInvariant'
  <2>1. CASE UNCHANGED vars
    BY <2>1 DEF vars, serverVars, clientVars, LibraryInvariant, LibraryIsCurrent, Alive
  <2> QED BY <2>1, LibraryStep
<1>3. LibraryInvariant => LibraryIsCurrent
  BY DEF LibraryInvariant
<1> QED BY <1>1, <1>2, <1>3, BoardInvariantHolds, PTL DEF Spec
=============================================================================
