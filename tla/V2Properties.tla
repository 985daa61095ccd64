---------------------------- MODULE V2Properties ----------------------------
(***************************************************************************)
(* What must be true of the Voodoo2 boards, their server and its clients.  *)
(***************************************************************************)
EXTENDS V2Server

(* Type correctness of the driver, the server, the messages and the        *)
(* clients.                                                                *)
TypeOK ==
  /\ probed \in Nat
  /\ devices \in Seq(DeviceRecords) /\ Len(devices) <= V2SERVER_MAX_DEVICES
  /\ phase \in Phases
  /\ request \in Requests
  /\ result \in {"none", "success", "failure"}
  /\ mutex \in {"free", "loop"}
  /\ dying \in Clients \cup {NoTask}
  /\ notices \in Seq(Clients)
  /\ messages \in Seq(Requests)
  /\ known \subseteq Clients
  /\ client \in [Clients -> {"unborn", "idle", "counting", "mapping", "dead"}]
  /\ library \in [Clients -> [open : {"yes", "no"}, count : 0..V2SERVER_MAX_DEVICES,
                              cached : SUBSET DeviceIndexes]]
  /\ mapped \subseteq (Clients \X DeviceIndexes)

(* glide/protocol.md: the server "maps the device's first memory range     *)
(* into that task, and rejects a second owner": no board is ever in the    *)
(* address spaces of two processes, whoever dies while being served.       *)
ExclusiveMapping == \A m, n \in mapped : m[2] = n[2] => m = n

(* glide/protocol.md: "A task-death notification clears ownership": a dead *)
(* owner in the table always has its notification under way, so no board   *)
(* is lost, though the owner may die while its request is being served.    *)
Noticed(c) == dying = c \/ \E i \in DOMAIN notices : notices[i] = c

DeadOwnerIsNoticed ==
  \A d \in DOMAIN devices :
    devices[d].ownerTask # NoTask /\ ~Alive(devices[d].ownerTask)
      => Noticed(devices[d].ownerTask)

(* A board's table entry and the kernel's map agree about live clients,    *)
(* but for the one board the request loop is just recording.               *)
Recording(c, d) ==
  phase = "record" /\ result = "success" /\ request.from = c /\ request.device = d

OwnerIsMapped ==
  \A c \in Clients : \A d \in DeviceIndexes :
    Alive(c) => (<<c, d>> \in mapped <=>
                   (d \in DOMAIN devices /\ devices[d].ownerTask = c) \/ Recording(c, d))

(* What the client library remembers is still true: an address that        *)
(* pciMapCardMulti returns from its cache is mapped, and the number of     *)
(* boards pciOpen was told, perhaps asked before discovery was over, is    *)
(* the final one.                                                          *)
LibraryIsCurrent ==
  \A c \in Clients :
    /\ \A d \in library[c].cached : Alive(c) => <<c, d>> \in mapped
    /\ library[c].open = "yes" => library[c].count = Len(devices)

(* Every board of a dead owner becomes free again.                         *)
DeadOwnerReleased ==
  \A c \in Clients : \A d \in DeviceIndexes :
    LET Lost == d \in DOMAIN devices /\ devices[d].ownerTask = c /\ client[c] = "dead"
    IN Lost ~> ~Lost

(* Every library call returns, unless the caller dies: no death leaves the *)
(* mutex held.                                                             *)
CallReturns ==
  \A c \in Clients : client[c] \in {"counting", "mapping"} ~> client[c] \notin {"counting", "mapping"}

-----------------------------------------------------------------------------
(* The strengthening of the safety properties that is inductive.           *)

(* The mutex is held from the ownership check to the record, and while it  *)
(* is held the board in question has no owner.                             *)
LockInvariant ==
  /\ mutex = "loop" <=> phase \in {"map", "record"}
  /\ phase \in {"lock", "map", "record"} =>
       request.device \in DOMAIN devices /\ request.from # NoTask
  /\ phase \in {"map", "record"} => devices[request.device].ownerTask = NoTask

(* Only live processes have maps; the server knows the port of every live  *)
(* owner and of the live process it serves, which has been launched.       *)
KnownInvariant ==
  /\ request.from # NoTask => client[request.from] # "unborn"
  /\ \A m \in mapped : Alive(m[1])
  /\ \A d \in DOMAIN devices :
       Alive(devices[d].ownerTask) => devices[d].ownerTask \in known
  /\ phase \in {"lock", "map", "record"} /\ Alive(request.from) => request.from \in known
  /\ phase = "record" /\ result = "success" /\ ~Alive(request.from) => Noticed(request.from)

(* A death is announced once, after it happened.                           *)
NoticeInvariant ==
  /\ \A i \in DOMAIN notices : client[notices[i]] = "dead"
  /\ dying # NoTask => client[dying] = "dead"

(* No client has counted the boards before discovery was over or has called *)
(* before it was launched, and what a reply of success says of a live sender's board is still so.             *)
LibraryInvariant ==
  /\ LibraryIsCurrent
  /\ phase = "discover" => \A c \in Clients : library[c].open = "no"
  /\ \A c \in Clients : client[c] = "unborn" => library[c].cached = {}
  /\ (/\ phase \in {"record", "reply"} /\ request.routine = "map"
      /\ result = "success" /\ Alive(request.from))
       => <<request.from, request.device>> \in mapped
  /\ phase \in {"lock", "map", "record"} => request.routine = "map"

BoardInvariant ==
  /\ TypeOK /\ LockInvariant /\ KnownInvariant /\ NoticeInvariant
  /\ OwnerIsMapped /\ DeadOwnerIsNoticed
=============================================================================
