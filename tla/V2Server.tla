------------------------------ MODULE V2Server ------------------------------
(***************************************************************************)
(* Voodoo2 boards shared between Glide clients on Rhapsody: the kernel     *)
(* driver that registers boards (Voodoo2.m), the user server that lends    *)
(* each board to one task (V2Server.c, V2Server_main.m) and the client     *)
(* library that calls it (macosxglide.m).                                  *)
(*                                                                         *)
(* The server has two threads, the request loop and the cleanup thread,    *)
(* which share the device table under a mutex.  A client may die between   *)
(* any two steps of either.  A task port is named by its client: the       *)
(* kernel is assumed not to give a dead task's name to another task while  *)
(* the server still has to act on the death.                               *)
(***************************************************************************)
EXTENDS Naturals, Sequences

CONSTANTS
  Clients,   \* client processes, each of which lives once
  NoTask,    \* PORT_NULL as a task port
  Boards     \* boards on the bus

V2SERVER_MAX_DEVICES == 2

ASSUME BoardAssumption ==
  /\ NoTask \notin Clients
  /\ Boards \in Nat

VARIABLES
  probed,     \* v2DeviceCount: boards the kernel driver registered
  devices,    \* the server's table: whether ranges[0] exists, and ownerTask
  phase,      \* where the request loop is
  request,    \* the message the request loop works on
  result,     \* what the handler will reply
  mutex,      \* who holds deviceMutex
  dying,      \* the port the cleanup thread has to release
  notices,    \* NOTIFY_PORT_DELETED messages not received yet
  messages,   \* requests on the server's port
  known,      \* the live task ports the server's port name space holds
  client,     \* where each client process is
  library,    \* each client's pciLibraryInitialized, numberOfDevices, mappedDevices
  mapped      \* the kernel's truth: which client has which board in its map

serverVars == <<devices, phase, request, result>>
cleanupVars == <<dying>>
clientVars == <<client, library>>
vars == <<probed, serverVars, mutex, cleanupVars, notices, messages, known, clientVars, mapped>>

-----------------------------------------------------------------------------
DeviceIndexes == 1..V2SERVER_MAX_DEVICES
DeviceRecords == [ranges : 0..1, ownerTask : Clients \cup {NoTask}]
Requests == [from : Clients \cup {NoTask}, routine : {"count", "map"}, device : DeviceIndexes]
Phases == {"discover", "receive", "lock", "map", "record", "reply"}
ClosedLibrary == [open |-> "no", count |-> 0, cached |-> {}]
Idle == [from |-> NoTask, routine |-> "count", device |-> 1]

Alive(c) == c # NoTask /\ client[c] \in {"idle", "counting", "mapping"}

Init ==
  /\ probed = 0
  /\ devices = << >>
  /\ phase = "discover" /\ request = Idle /\ result = "none"
  /\ mutex = "free"
  /\ dying = NoTask
  /\ notices = << >> /\ messages = << >>
  /\ known = {}
  /\ client = [c \in Clients |-> "unborn"]
  /\ library = [c \in Clients |-> ClosedLibrary]
  /\ mapped = {}

-----------------------------------------------------------------------------
(* The kernel driver registers a board; at most two.                       *)
probe ==
  /\ probed < Boards
  /\ probed < V2SERVER_MAX_DEVICES
  /\ probed' = probed + 1
  /\ UNCHANGED <<serverVars, mutex, cleanupVars, notices, messages, known, clientVars, mapped>>

(* The server adds the boards it can look up by name, in order, and stops  *)
(* at the first that fails any of the three calls.  Its port is checked in *)
(* already, so requests may be waiting.                                    *)
discoverDevices ==
  /\ phase = "discover"
  /\ \/ /\ Len(devices) < probed
        /\ Len(devices) < V2SERVER_MAX_DEVICES
        /\ \E n \in 0..1 : devices' = Append(devices, [ranges |-> n, ownerTask |-> NoTask])
        /\ UNCHANGED phase
     \/ phase' = "receive" /\ UNCHANGED devices
  /\ UNCHANGED <<probed, request, result, mutex, cleanupVars, notices, messages, known,
                 clientVars, mapped>>

(* The request loop receives a message: a live sender's task port becomes  *)
(* known to the server, a dead one's arrives as PORT_NULL.                 *)
msg_receive ==
  /\ phase = "receive"
  /\ messages # << >>
  /\ messages' = Tail(messages)
  /\ LET m == Head(messages)
         target == IF Alive(m.from) THEN m.from ELSE NoTask
     IN /\ request' = [m EXCEPT !.from = target]
        /\ known' = IF m.routine = "map" /\ target # NoTask THEN known \cup {target} ELSE known
        /\ IF m.routine = "count"
           THEN phase' = "reply" /\ result' = "success"
           ELSE IF target = NoTask \/ m.device > Len(devices)
           THEN phase' = "reply" /\ result' = "failure"
           ELSE phase' = "lock" /\ UNCHANGED result
  /\ UNCHANGED <<probed, devices, mutex, cleanupVars, notices, clientVars, mapped>>

RefusedOnlyIfUnmappable(device) == device.ranges = 0

Refused(device) == device.ownerTask # NoTask \/ device.ranges = 0

lockDeviceForGood ==
  /\ phase = "lock"
  /\ mutex = "free"
  /\ mutex' = "loop"
  /\ IF Refused(devices[request.device])
     THEN phase' = "reply" /\ result' = "failure"
     ELSE phase' = "map" /\ UNCHANGED result
  /\ UNCHANGED <<probed, devices, request, cleanupVars, notices, messages, known, clientVars, mapped>>

(* Under the mutex, an owned or unmappable board is refused; otherwise the *)
(* mutex stays held.                                                       *)
lockDevice ==
  /\ phase = "lock"
  /\ mutex = "free"
  /\ IF Refused(devices[request.device])
     THEN phase' = "reply" /\ result' = "failure" /\ UNCHANGED mutex
     ELSE phase' = "map" /\ mutex' = "loop" /\ UNCHANGED result
  /\ UNCHANGED <<probed, devices, request, cleanupVars, notices, messages, known, clientVars, mapped>>

(* The kernel maps the board into a task that still exists, or fails.      *)
_IOMapDeviceMemory ==
  /\ phase = "map"
  /\ phase' = "record"
  /\ \/ /\ Alive(request.from)
        /\ mapped' = mapped \cup {<<request.from, request.device>>}
        /\ result' = "success"
     \/ result' = "failure" /\ UNCHANGED mapped
  /\ UNCHANGED <<probed, devices, request, mutex, cleanupVars, notices, messages, known, clientVars>>

recordOwner ==
  /\ phase = "record"
  /\ devices' = IF result = "success"
                THEN [devices EXCEPT ![request.device].ownerTask = request.from]
                ELSE devices
  /\ mutex' = "free"
  /\ phase' = "reply"
  /\ UNCHANGED <<probed, request, result, cleanupVars, notices, messages, known, clientVars, mapped>>

(* numberOfDevices is the count at the moment of the reply; without boards *)
(* the library stays closed.                                               *)
Opened == IF Len(devices) = 0 THEN ClosedLibrary
          ELSE [open |-> "yes", count |-> Len(devices), cached |-> {}]

Caching(lib, d) == [lib EXCEPT !.cached = lib.cached \cup {d}]

replyAlwaysCached ==
  /\ phase = "reply"
  /\ phase' = "receive"
  /\ request' = Idle
  /\ result' = "none"
  /\ IF Alive(request.from)
     THEN /\ client' = [client EXCEPT ![request.from] = "idle"]
          /\ library' = [library EXCEPT ![request.from] =
               IF request.routine = "count" THEN Opened ELSE Caching(@, request.device)]
     ELSE UNCHANGED clientVars
  /\ UNCHANGED <<probed, devices, mutex, cleanupVars, notices, messages, known, mapped>>

(* The reply reaches a sender that is still alive, and its library call    *)
(* returns.                                                                *)
reply ==
  /\ phase = "reply"
  /\ phase' = "receive"
  /\ request' = Idle
  /\ result' = "none"
  /\ IF Alive(request.from)
     THEN /\ client' = [client EXCEPT ![request.from] = "idle"]
          /\ library' = [library EXCEPT ![request.from] =
               IF request.routine = "count" THEN Opened
               ELSE IF result = "success" THEN Caching(@, request.device) ELSE @]
     ELSE UNCHANGED clientVars
  /\ UNCHANGED <<probed, devices, mutex, cleanupVars, notices, messages, known, mapped>>

-----------------------------------------------------------------------------
(* The cleanup thread.                                                     *)
receiveNotice ==
  /\ dying = NoTask
  /\ notices # << >>
  /\ dying' = Head(notices)
  /\ notices' = Tail(notices)
  /\ UNCHANGED <<probed, serverVars, mutex, messages, known, clientVars, mapped>>

ReleaseFirstOwned ==
  /\ dying # NoTask
  /\ mutex = "free"
  /\ devices' = [i \in DOMAIN devices |->
                   IF devices[i].ownerTask = dying /\ \A k \in 1..(i - 1) : devices[k].ownerTask # dying
                   THEN [devices[i] EXCEPT !.ownerTask = NoTask] ELSE devices[i]]
  /\ dying' = NoTask
  /\ UNCHANGED <<probed, phase, request, result, mutex, notices, messages, known, clientVars, mapped>>

ReleaseUnlocked ==
  /\ dying # NoTask
  /\ devices' = [i \in DOMAIN devices |->
                   IF devices[i].ownerTask = dying
                   THEN [devices[i] EXCEPT !.ownerTask = NoTask] ELSE devices[i]]
  /\ dying' = NoTask
  /\ UNCHANGED <<probed, phase, request, result, mutex, notices, messages, known, clientVars, mapped>>

V2ServerReleaseOwner ==
  /\ dying # NoTask
  /\ mutex = "free"
  /\ devices' = [i \in DOMAIN devices |->
                   IF devices[i].ownerTask = dying
                   THEN [devices[i] EXCEPT !.ownerTask = NoTask] ELSE devices[i]]
  /\ dying' = NoTask
  /\ UNCHANGED <<probed, phase, request, result, mutex, notices, messages, known, clientVars, mapped>>

-----------------------------------------------------------------------------
(* A client process: its library calls are synchronous, so it has at most  *)
(* one request outstanding.                                                *)
launch(c) ==
  /\ client[c] = "unborn"
  /\ client' = [client EXCEPT ![c] = "idle"]
  /\ UNCHANGED <<probed, serverVars, mutex, cleanupVars, notices, messages, known, library, mapped>>

Sends(c, routine, device, at) ==
  /\ client[c] = "idle"
  /\ client' = [client EXCEPT ![c] = at]
  /\ messages' = Append(messages, [from |-> c, routine |-> routine, device |-> device])
  /\ UNCHANGED <<probed, serverVars, mutex, cleanupVars, notices, known, library, mapped>>

pciOpen(c) ==
  /\ library[c].open = "no"
  /\ Sends(c, "count", 1, "counting")

(* A cached mapping is returned without a call.                            *)
pciMapCardMulti(c, d) ==
  /\ library[c].open = "yes"
  /\ d <= library[c].count
  /\ d \notin library[c].cached
  /\ Sends(c, "map", d, "mapping")

(* The cache is forgotten; the server is not told.                         *)
pciClose(c) ==
  /\ client[c] = "idle"
  /\ library[c].open = "yes"
  /\ library' = [library EXCEPT ![c] = ClosedLibrary]
  /\ UNCHANGED <<probed, serverVars, mutex, cleanupVars, notices, messages, known, client, mapped>>

(* The process ends at any point: the kernel drops its map, and tells the  *)
(* server if the server holds its task port.                               *)
exit(c) ==
  /\ Alive(c)
  /\ client' = [client EXCEPT ![c] = "dead"]
  /\ mapped' = {m \in mapped : m[1] # c}
  /\ known' = known \ {c}
  /\ notices' = IF c \in known THEN Append(notices, c) ELSE notices
  /\ UNCHANGED <<probed, serverVars, mutex, cleanupVars, messages, library>>

-----------------------------------------------------------------------------
RequestLoop == msg_receive \/ lockDevice \/ _IOMapDeviceMemory \/ recordOwner \/ reply
CleanupThread == receiveNotice \/ V2ServerReleaseOwner

Next ==
  \/ probe
  \/ discoverDevices
  \/ RequestLoop
  \/ CleanupThread
  \/ \E c \in Clients :
       \/ launch(c) \/ pciOpen(c) \/ pciClose(c) \/ exit(c)
       \/ \E d \in DeviceIndexes : pciMapCardMulti(c, d)

Spec == Init /\ [][Next]_vars

(* Both threads of the server are scheduled, and a thread waiting for the  *)
(* mutex gets it if it is freed again and again; nothing is assumed of the *)
(* clients.                                                                *)
FairSpec ==
  /\ Spec
  /\ WF_vars(discoverDevices)
  /\ WF_vars(RequestLoop)
  /\ WF_vars(receiveNotice)
  /\ SF_vars(V2ServerReleaseOwner)
=============================================================================
