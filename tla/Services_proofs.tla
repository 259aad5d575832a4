-------------------------- MODULE Services_proofs --------------------------
(***************************************************************************)
(* What the fallback to the other partition, the requests of clients and   *)
(* the triggers may never do, the types of all services around the mesh,   *)
(* and the search for the mark of a project, for any number of boots,      *)
(* connections, names and failing calls, any mark and any partition.       *)
(***************************************************************************)
EXTENDS MCServices, Mespnow_proofs, MdebugFlash_proofs, MconfigControl_proofs,
        FiniteSetTheorems, SequenceTheorems, WellFoundedInduction, TLAPS

-----------------------------------------------------------------------------
(* Falling back                                                            *)

\* As long as no call has failed, the count stored is at most the boots in a row.  Of a
\* boot that has not stored its count it is less, the timer only runs after that,
\* and what leads to the fallback is erased first.
CountedInARow ==
  /\ restartCount \in Nat /\ inARow \in Nat
  /\ nvsFailures \in Nat
  /\ nvsFailures = 0 =>
       /\ restartCount <= inARow
       /\ bootAt = "count" => restartCount < inARow
       /\ bootAt = "fallback" => restartCount = 0
  /\ bootAt \in {"off", "count"} => eraseTimer = FALSE

LEMMA CountedInit == CheckInit => CountedInARow
  BY DEF CheckInit, CountedInARow

LEMMA CountedStep == CountedInARow /\ [CheckNext]_checkVars => CountedInARow'
  <1>. SUFFICES ASSUME CountedInARow, [CheckNext]_checkVars PROVE CountedInARow'
    OBVIOUS
  <1>. USE DEF CountedInARow
  <1>1. ASSUME NEW why \in {"cold", "restart"}, CheckBoot(why) PROVE CountedInARow'
    BY <1>1 DEF CheckBoot
  <1>2. CASE CheckReset
    BY <1>2 DEF CheckReset
  <1>3. CASE RestartSave
    BY <1>3, CheckAssumption DEF RestartSave, Counted, NvsFails, CheckAssumption
  <1>4. CASE RestartSaveFails
    BY <1>4 DEF RestartSaveFails, Counted, NvsFails
  <1>5. CASE RestartErase
    BY <1>5 DEF RestartErase, NvsFails
  <1>6. CASE EraseTimerExpires
    BY <1>6 DEF EraseTimerExpires, CountErased, NvsFails
  <1>7. ASSUME NEW img \in Image, VersionFallback(img) PROVE CountedInARow'
    BY <1>7 DEF VersionFallback, NvsFails
  <1>8. CASE UNCHANGED checkVars
    BY <1>8 DEF checkVars
  <1>. QED
    BY <1>1, <1>2, <1>3, <1>4, <1>5, <1>6, <1>7, <1>8 DEF CheckNext

\* A device only gives its firmware up at the last of RestartCount boots one after the
\* other none of which lived until its timer, of which only the first was a power-on, for
\* any number of boots, resets and partitions, as long as no call has failed.
THEOREM FallbackNeedsRestarts == CheckSpec => FallbackMeansRestarts
  <1>1. CountedInARow /\ [CheckNext]_checkVars
          => [bootAt = "count" /\ bootAt' = "erase" /\ nvsFailures = 0
                => inARow' >= RestartCount /\ (reason = "cold" => RestartCount = 1)]_checkVars
    <2>. SUFFICES ASSUME CountedInARow, CheckNext, bootAt = "count", bootAt' = "erase",
                         nvsFailures = 0
                  PROVE  inARow' >= RestartCount /\ (reason = "cold" => RestartCount = 1)
      OBVIOUS
    <2>1. RestartSave
      BY DEF CheckNext, CheckBoot, CheckReset, RestartSaveFails, RestartErase,
             EraseTimerExpires, VersionFallback
    <2>2. Counted >= RestartCount
      BY <2>1, CheckAssumption DEF RestartSave, CountedInARow, Counted, CheckAssumption
    <2>3. inARow' >= Counted
      BY <2>1 DEF RestartSave, CountedInARow, Counted
    <2>4. reason = "cold" => RestartCount = 1
      BY <2>2, CheckAssumption DEF Counted, CheckAssumption
    <2>. QED  BY <2>1, <2>2, <2>3, <2>4, CheckAssumption DEF RestartSave, CountedInARow, Counted, CheckAssumption
  <1>. QED
    BY <1>1, CountedInit, CountedStep, PTL DEF CheckSpec, FallbackMeansRestarts

-----------------------------------------------------------------------------
(* Requests of clients                                                     *)

\* The first of some entries.
LEMMA FirstOf ==
  ASSUME NEW S \in SUBSET Nat, S # {}
  PROVE  (CHOOSE i \in S : \A k \in S : i <= k) \in S
  <1>1. PICK i \in S : \A k \in S : ~ (<<k, i>> \in OpToRel(<, Nat))
    BY NatLessThanWellFounded, WFMin
  <1>2. \A k \in S : ~ (k < i)
    BY <1>1 DEF OpToRel
  <1>3. \E j \in S : \A k \in S : j <= k
    BY <1>2
  <1>. QED  BY <1>3

LEMMA FindFinds ==
  ASSUME NEW f
  PROVE  \/ Find(f) = 0 /\ Found(f) = {}
         \/ Find(f) \in Slot /\ slot[Find(f)].sockfd = f /\ slot[Find(f)].flag # "none"
  <1>1. Found(f) \in SUBSET Nat
    BY HttpAssumption DEF Found, Slot, HttpAssumption
  <1>2. CASE Found(f) # {}
    <2>1. Find(f) \in Found(f)
      BY <1>1, <1>2, FirstOf DEF Find
    <2>. QED  BY <2>1 DEF Found
  <1>. QED  BY <1>2 DEF Find

LEMMA FirstFreeIsFree ==
  ASSUME FreeSlot # {}
  PROVE  FirstFree \in Slot /\ slot[FirstFree].flag = "none"
  <1>1. FreeSlot \in SUBSET Nat
    BY HttpAssumption DEF FreeSlot, Slot, HttpAssumption
  <1>2. FirstFree \in FreeSlot
    BY <1>1, FirstOf DEF FirstFree
  <1>. QED  BY <1>2 DEF FreeSlot

LEMMA TruncatedIs == \A n \in Nat : Truncated(n) \in Uint16 /\ Truncated(n) \in Nat
  BY SMT DEF Truncated, Uint16

LEMMA DecrementedIs == \A n \in Nat : Decremented(n) \in Uint16 /\ Decremented(n) \in Nat
  BY SMT DEF Decremented, Uint16

ConnType == [flag : {"none", "data", "header", "body"}, sockfd : {0} \union HttpFd, num : Nat,
             timer : Nat, req : Nat]
WriteType == [at : {"idle", "begun", "header", "data", "count", "footer"}, slot : 0 .. HttpSlots,
              req : Nat, device : Nat, kept : BOOLEAN]
RemovalType == [at : {"none", "lookup", "close", "stop", "clear"}, fd : {0} \union HttpFd,
                slot : 0 .. HttpSlots, req : Nat]
RequestType == [client : Nat, fd : HttpFd, num : HttpDevices]

\* Clients are numbered as they connect, and a request knows its client and descriptor.
ClientTypes ==
  /\ clients \in Nat /\ owner \in [HttpFd -> Nat]
  /\ \A f \in HttpFd : owner[f] <= clients
  /\ requests \in Seq(RequestType)
  /\ \A q \in Request : requests[q].client \in 1 .. clients

\* An entry with a descriptor is in use.
SlotTypes ==
  /\ slot \in [Slot -> ConnType]
  /\ \A i \in Slot : slot[i].sockfd # 0 => slot[i].flag # "none"
  /\ timers \subseteq [slot : Slot, req : Nat]
  /\ timeoutCb \in [at : {"idle", "send", "close"}, slot : 0 .. HttpSlots]
  /\ timeoutCb.at # "idle" => timeoutCb.slot \in Slot

\* mlink_httpd_write after it has found the entry.
WritesFor == httpWrite.at # "idle"

\* What is queued, answered and written is of a request.
QueueTypes ==
  /\ mlinkQueue \in Seq([req : Request, num : Nat])
  /\ \A ans \in answers : ans.req \in Request /\ ans.device \in Nat
  /\ httpWrite \in WriteType
  /\ WritesFor => httpWrite.slot \in Slot /\ httpWrite.req \in Request

\* Only an entry is cleared.
RemovalTypes ==
  /\ removal \in [Remover -> RemovalType]
  /\ \A p \in Remover : removal[p].at = "clear" => removal[p].slot # 0

\* A write has the entry of its client's socket for as long as that is connected, unless
\* another task clears it.
EntryIsOfClient ==
  WritesFor /\ httpWrite.kept /\ Connected(httpWrite.req) =>
    slot[httpWrite.slot].sockfd = requests[httpWrite.req].fd

HttpInv == ClientTypes /\ SlotTypes /\ QueueTypes /\ RemovalTypes /\ EntryIsOfClient

LEMMA HttpConstants == Slot \subseteq 0 .. HttpSlots /\ 0 \in 0 .. HttpSlots /\ 0 \notin Slot /\ 0 \notin HttpFd
  BY HttpAssumption DEF HttpAssumption, Slot

LEMMA IdleHttpTypes ==
  /\ IdleWrite \in WriteType /\ IdleWrite.at = "idle"
  /\ NoConn \in ConnType /\ NoConn.sockfd = 0
  /\ NoRemoval \in RemovalType /\ NoRemoval.at = "none"
  BY HttpConstants DEF IdleWrite, WriteType, NoConn, ConnType, NoRemoval, RemovalType

LEMMA HttpInvInit == HttpInit => HttpInv
  <1>. SUFFICES ASSUME HttpInit PROVE HttpInv
    OBVIOUS
  <1>1. ClientTypes
    BY DEF HttpInit, ClientTypes, Request
  <1>2. SlotTypes
    BY HttpConstants DEF HttpInit, SlotTypes, ConnType, NoConn, IdleCb
  <1>3. QueueTypes /\ EntryIsOfClient
    BY IdleHttpTypes DEF HttpInit, QueueTypes, WritesFor, EntryIsOfClient
  <1>4. RemovalTypes
    BY IdleHttpTypes DEF HttpInit, RemovalTypes
  <1>. QED  BY <1>1, <1>2, <1>3, <1>4 DEF HttpInv

\* The entry of the write keeps its descriptor.
EntryKept ==
  httpWrite.slot \in Slot /\ slot[httpWrite.slot].sockfd # 0 =>
    slot'[httpWrite.slot].sockfd = slot[httpWrite.slot].sockfd

\* A write that goes on does so with the same entry.
WriteGoesOn ==
  WritesFor' /\ httpWrite'.kept =>
    /\ WritesFor /\ httpWrite.kept /\ EntryKept
    /\ httpWrite'.slot = httpWrite.slot /\ httpWrite'.req = httpWrite.req

LEMMA KnownRequest ==
  ASSUME ClientTypes, NEW q \in Request
  PROVE  requests[q].fd \in HttpFd /\ requests[q].client \in 1 .. clients /\ requests[q].num \in HttpDevices
  <1>1. \A S : requests \in Seq(S) => requests[q] \in S
    BY DEF Request
  <1>2. requests[q] \in RequestType
    BY <1>1 DEF ClientTypes
  <1>. QED  BY <1>2 DEF ClientTypes, RequestType

\* A step in which sockets are closed at most.
OnlyCloses ==
  /\ owner' \in [HttpFd -> Nat] /\ \A f \in HttpFd : owner'[f] \in {owner[f], 0}
  /\ UNCHANGED <<clients, requests>>

LEMMA ClosingKeeps ==
  ASSUME HttpInv, OnlyCloses
  PROVE  ClientTypes' /\ \A q \in Request : Connected(q)' => Connected(q)
  <1>1. ClientTypes'
    <2>1. clients \in Nat /\ \A f \in HttpFd : owner[f] <= clients /\ owner'[f] \in {owner[f], 0}
      BY DEF HttpInv, ClientTypes, OnlyCloses
    <2>2. \A f \in HttpFd : owner'[f] <= clients
      BY <2>1
    <2>. QED  BY <2>2 DEF HttpInv, ClientTypes, OnlyCloses, Request
  <1>2. ASSUME NEW q \in Request, Connected(q)' PROVE Connected(q)
    <2>1. requests[q].fd \in HttpFd /\ requests[q].client \in 1 .. clients /\ clients \in Nat
      BY KnownRequest DEF HttpInv, ClientTypes
    <2>2. owner'[requests[q].fd] = requests[q].client
      BY <1>2 DEF Connected, OnlyCloses
    <2>3. owner'[requests[q].fd] \in {owner[requests[q].fd], 0}
      BY <2>1 DEF OnlyCloses
    <2>. QED  BY <2>1, <2>2, <2>3 DEF Connected
  <1>. QED  BY <1>1, <1>2

\* Of a write that goes on.
LEMMA EntryStays ==
  ASSUME HttpInv, ClientTypes', QueueTypes', WriteGoesOn,
         \A q \in Request : /\ q \in Request' /\ requests'[q] = requests[q]
                            /\ Connected(q)' => Connected(q)
  PROVE  EntryIsOfClient'
  <1>. SUFFICES ASSUME WritesFor', httpWrite'.kept, Connected(httpWrite.req)'
                PROVE  slot'[httpWrite'.slot].sockfd = requests'[httpWrite'.req].fd
    BY DEF EntryIsOfClient
  <1>. DEFINE q == httpWrite.req
              i == httpWrite.slot
  <1>1. /\ WritesFor /\ httpWrite.kept /\ EntryKept /\ httpWrite'.slot = i /\ httpWrite'.req = q
        /\ q \in Request /\ i \in Slot
    BY DEF HttpInv, QueueTypes, WriteGoesOn
  <1>2. Connected(q) /\ requests'[q] = requests[q]
    <2>1. owner'[requests'[q].fd] = requests'[q].client
      BY <1>1 DEF Connected
    <2>2. Connected(q)'
      BY <1>1, <2>1 DEF Connected
    <2>. QED  BY <1>1, <2>1, <2>2
  <1>3. slot[i].sockfd = requests[q].fd
    BY <1>1, <1>2 DEF HttpInv, EntryIsOfClient
  <1>4. slot[i].sockfd # 0
    BY <1>1, <1>3, KnownRequest, HttpConstants DEF HttpInv
  <1>5. slot'[i].sockfd = slot[i].sockfd
    BY <1>1, <1>4 DEF EntryKept
  <1>. QED  BY <1>1, <1>2, <1>3, <1>5

\* The HTTP server.
LEMMA ServerKeeps ==
  ASSUME HttpInv, NEW f \in HttpFd, HttpConnect(f) \/ HttpClose(f)
  PROVE  HttpInv'
  <1>. USE DEF HttpInv
  <1>1. SlotTypes' /\ RemovalTypes'
    BY DEF SlotTypes, RemovalTypes, HttpConnect, HttpClose
  <1>2. QueueTypes'
    BY DEF QueueTypes, WritesFor, Request, HttpConnect, HttpClose
  <1>0. WriteGoesOn
    BY DEF WriteGoesOn, EntryKept, WritesFor, HttpConnect, HttpClose
  <1>3. CASE HttpClose(f)
    <2>1. OnlyCloses
      BY <1>3 DEF HttpClose, OnlyCloses, ClientTypes
    <2>2. EntryIsOfClient'
      BY <1>0, <1>2, <1>3, <2>1, ClosingKeeps, EntryStays DEF HttpClose, Request
    <2>. QED  BY <1>1, <1>2, <2>1, <2>2, ClosingKeeps
  <1>4. CASE HttpConnect(f)
    <2>1. clients \in Nat /\ clients' = clients + 1 /\ owner' = [owner EXCEPT ![f] = clients']
          /\ owner \in [HttpFd -> Nat] /\ requests' = requests
      BY <1>4 DEF HttpConnect, ClientTypes
    <2>2. ClientTypes'
      <3>1. ASSUME NEW g \in HttpFd PROVE owner'[g] <= clients'
        <4>1. owner[g] <= clients /\ owner[g] \in Nat
          BY <2>1 DEF ClientTypes
        <4>2. owner'[g] \in {owner[g], clients'}
          BY <2>1
        <4>. QED  BY <2>1, <4>1, <4>2
      <3>2. owner' \in [HttpFd -> Nat]
        BY <2>1
      <3>. QED  BY <2>1, <3>1, <3>2 DEF ClientTypes, Request
    <2>3. ASSUME NEW q \in Request, Connected(q)' PROVE Connected(q)
      <3>1. requests[q].fd \in HttpFd /\ requests[q].client \in 1 .. clients
        BY KnownRequest
      <3>2. owner'[requests[q].fd] = requests[q].client
        BY <2>1, <2>3 DEF Connected
      <3>3. requests[q].fd # f
        BY <2>1, <3>1, <3>2
      <3>. QED  BY <2>1, <3>1, <3>2, <3>3 DEF Connected
    <2>4. EntryIsOfClient'
      BY <1>0, <1>2, <1>4, <2>2, <2>3, EntryStays DEF HttpConnect, Request
    <2>. QED  BY <1>1, <1>2, <2>2, <2>4
  <1>. QED  BY <1>3, <1>4

LEMMA RequestKeeps ==
  ASSUME HttpInv, NEW f \in HttpFd, NEW n \in HttpDevices, DeviceRequest(f, n)
  PROVE  HttpInv'
  <1>. USE DEF HttpInv
  <1>. DEFINE new == [client |-> owner[f], fd |-> f, num |-> n]
              q == Len(requests) + 1
  <1>1. /\ requests' = Append(requests, new) /\ new \in RequestType
        /\ owner[f] \in 1 .. clients /\ clients \in Nat
        /\ UNCHANGED <<owner, clients, answers, httpWrite, timeoutCb, removal>>
    BY DEF DeviceRequest, ClientTypes, RequestType
  <1>2. /\ requests' \in Seq(RequestType) /\ Len(requests') = q
        /\ q \in Nat \ {0} /\ requests'[q] = new
        /\ \A p \in Request : requests'[p] = requests[p]
    <2>. HIDE DEF new
    <2>. QED  BY <1>1 DEF ClientTypes, Request
  <1>3. Request' = Request \union {q} /\ Request \subseteq Request'
    BY <1>2 DEF Request, ClientTypes
  <1>4. ClientTypes'
    <2>1. \A p \in Request' : requests'[p].client \in 1 .. clients
      <3>1. requests'[q].client \in 1 .. clients
        BY <1>1, <1>2
      <3>. QED  BY <1>2, <1>3, <3>1 DEF ClientTypes
    <2>. QED  BY <1>1, <1>2, <2>1 DEF ClientTypes
  <1>5. QueueTypes'
    <2>. DEFINE old == [req : Request, num : Nat]
                all == [req : Request', num : Nat]
                m == [req |-> q, num |-> n]
    <2>1. mlinkQueue \in Seq(all)
      <3>1. mlinkQueue \in Seq(old) /\ old \subseteq all
        BY <1>3 DEF QueueTypes
      <3>. HIDE DEF old, all
      <3>. QED  BY <3>1
    <2>2. m \in all /\ mlinkQueue' = Append(MadeRoom, m)
      BY <1>3, HttpAssumption DEF HttpAssumption, DeviceRequest
    <2>3. MadeRoom \in Seq(all)
      <3>1. CASE Len(mlinkQueue) < HttpRoom
        BY <2>1, <3>1 DEF MadeRoom
      <3>2. CASE ~ (Len(mlinkQueue) < HttpRoom)
        <4>. HIDE DEF all
        <4>. QED  BY <2>1, <3>2, HttpAssumption DEF MadeRoom, HttpAssumption
      <3>. QED  BY <3>1, <3>2
    <2>4. mlinkQueue' \in Seq(all)
      <3>. HIDE DEF all, m
      <3>. QED  BY <2>2, <2>3
    <2>. QED  BY <1>1, <1>3, <2>4 DEF QueueTypes, WritesFor
  <1>6. SlotTypes' /\ EntryKept
    <2>1. CASE UNCHANGED <<slot, timers>>
      BY <1>1, <2>1 DEF SlotTypes, EntryKept
    <2>2. CASE FreeSlot # {} /\ \E timer \in {0, q} :
                 /\ slot' = [slot EXCEPT ![FirstFree] = Conn(f, Truncated(n), timer)]
                 /\ timers' \in {timers, timers \union {[slot |-> FirstFree, req |-> q]}}
      <3>1. PICK timer \in {0, q} :
                 /\ slot' = [slot EXCEPT ![FirstFree] = Conn(f, Truncated(n), timer)]
                 /\ timers' \in {timers, timers \union {[slot |-> FirstFree, req |-> q]}}
        BY <2>2
      <3>2. FirstFree \in Slot /\ slot[FirstFree].sockfd = 0 /\ slot \in [Slot -> ConnType]
        BY <2>2, FirstFreeIsFree DEF SlotTypes
      <3>3. Conn(f, Truncated(n), timer) \in ConnType /\ Conn(f, Truncated(n), timer).flag # "none"
        <4>1. Truncated(n) \in Nat
          BY TruncatedIs, HttpAssumption DEF HttpAssumption
        <4>. QED  BY <1>2, <4>1 DEF Conn, ConnType
      <3>4. slot' \in [Slot -> ConnType] /\ EntryKept
            /\ \A i \in Slot : slot'[i].sockfd # 0 => slot'[i].flag # "none"
        BY <3>1, <3>2, <3>3 DEF EntryKept, SlotTypes
      <3>5. timers' \subseteq [slot : Slot, req : Nat]
        BY <1>2, <3>1, <3>2 DEF SlotTypes
      <3>. QED  BY <1>1, <3>4, <3>5 DEF SlotTypes
    <2>3. AddConnection(f, Truncated(n))
      BY DEF DeviceRequest
    <2>. QED  BY <2>1, <2>2, <2>3 DEF AddConnection
  <1>7. \A p \in Request : p \in Request' /\ requests'[p] = requests[p]
                           /\ (Connected(p)' => Connected(p))
    BY <1>1, <1>2, <1>3 DEF Connected
  <1>8. WriteGoesOn /\ RemovalTypes'
    BY <1>1, <1>6 DEF WriteGoesOn, WritesFor, RemovalTypes
  <1>9. EntryIsOfClient'
    BY <1>4, <1>5, <1>7, <1>8, EntryStays
  <1>. QED  BY <1>4, <1>5, <1>6, <1>8, <1>9

\* A step of a task that makes no request and keeps the types of the entries.
LEMMA TaskKeeps ==
  ASSUME HttpInv, OnlyCloses, SlotTypes', QueueTypes', RemovalTypes', WriteGoesOn
  PROVE  HttpInv'
  <1>1. ClientTypes'
    BY ClosingKeeps
  <1>2. \A q \in Request : /\ q \in Request' /\ requests'[q] = requests[q]
                           /\ Connected(q)' => Connected(q)
    BY ClosingKeeps DEF OnlyCloses, Request
  <1>. QED  BY <1>1, <1>2, EntryStays DEF HttpInv

LEMMA NothingCloses == HttpInv /\ UNCHANGED <<owner, clients, requests>> => OnlyCloses
  BY DEF HttpInv, ClientTypes, OnlyCloses

\* The application takes a request from the queue, and begins to write an answer.
LEMMA ApplicationKeeps ==
  ASSUME HttpInv, HttpRead \/ \E ans \in answers : WriteBegins(ans)
  PROVE  HttpInv'
  <1>. USE DEF HttpInv
  <1>1. CASE HttpRead
    <2>1. SlotTypes' /\ RemovalTypes' /\ OnlyCloses /\ WriteGoesOn /\ UNCHANGED <<httpWrite, requests>>
      BY <1>1, NothingCloses DEF HttpRead, SlotTypes, RemovalTypes, WriteGoesOn, EntryKept, WritesFor
    <2>. DEFINE all == [req : Request, num : Nat]
                q == Head(mlinkQueue)
    <2>2. mlinkQueue \in Seq(all) /\ mlinkQueue # <<>> /\ mlinkQueue' = Tail(mlinkQueue)
      BY <1>1 DEF HttpRead, QueueTypes
    <2>3. q \in all /\ mlinkQueue' \in Seq(all)
      <3>. HIDE DEF all
      <3>. QED  BY <2>2
    <2>4. \A ans \in answers' : ans.req \in Request /\ ans.device \in Nat
      BY <1>1, <2>3 DEF HttpRead, QueueTypes
    <2>5. QueueTypes'
      BY <2>1, <2>3, <2>4 DEF QueueTypes, WritesFor, Request
    <2>. QED  BY <2>1, <2>5, TaskKeeps
  <1>2. ASSUME NEW ans \in answers, WriteBegins(ans) PROVE HttpInv'
    <2>. DEFINE q == ans.req
                i == Find(requests[q].fd)
                begun == [at |-> "begun", slot |-> i, req |-> q, device |-> ans.device, kept |-> TRUE]
    <2>1. q \in Request /\ ans.device \in Nat
      BY DEF QueueTypes
    <2>2. i = 0 \/ (i \in Slot /\ slot[i].sockfd = requests[q].fd)
      BY FindFinds
    <2>3. ClientTypes' /\ SlotTypes' /\ RemovalTypes'
      BY <1>2 DEF WriteBegins, ClientTypes, SlotTypes, RemovalTypes, Request
    <2>4. httpWrite' = IdleWrite \/ (i \in Slot /\ httpWrite' = begun)
      BY <1>2, <2>2 DEF WriteBegins
    <2>0. i \in Slot => begun \in WriteType
      BY <2>1, HttpConstants DEF WriteType, Request
    <2>5. QueueTypes'
      <3>1. UNCHANGED <<mlinkQueue, requests>> /\ answers' \subseteq answers
        BY <1>2 DEF WriteBegins
      <3>2. httpWrite' \in WriteType /\ (WritesFor' => httpWrite'.slot \in Slot /\ httpWrite'.req \in Request)
        <4>1. CASE httpWrite' = IdleWrite
          BY <4>1, IdleHttpTypes DEF WritesFor
        <4>2. CASE i \in Slot /\ httpWrite' = begun
          <5>1. httpWrite'.slot = i /\ httpWrite'.req = q
            BY <4>2
          <5>. QED  BY <2>0, <2>1, <4>2, <5>1
        <4>. QED  BY <2>4, <4>1, <4>2
      <3>. QED  BY <3>1, <3>2 DEF QueueTypes, WritesFor, Request
    <2>6. EntryIsOfClient'
      <3>1. UNCHANGED <<slot, requests>>
        BY <1>2 DEF WriteBegins
      <3>2. CASE httpWrite' = IdleWrite
        BY <3>2, IdleHttpTypes DEF EntryIsOfClient, WritesFor
      <3>3. CASE i \in Slot /\ httpWrite' = begun
        <4>1. httpWrite'.slot = i /\ httpWrite'.req = q /\ slot[i].sockfd = requests[q].fd
          BY <2>2, <3>3, HttpConstants
        <4>. QED  BY <3>1, <4>1 DEF EntryIsOfClient
      <3>. QED  BY <2>4, <3>2, <3>3
    <2>. QED  BY <2>3, <2>5, <2>6
  <1>. QED  BY <1>1, <1>2

\* A task begins to remove an entry.
LEMMA RemovalBegins ==
  ASSUME RemovalTypes, NEW p \in Remover, NEW m \in RemovalType, m.at # "clear",
         removal' = [removal EXCEPT ![p] = m]
  PROVE  RemovalTypes'
  BY DEF RemovalTypes

\* It finds the entry of a socket whose client has gone.
LEMMA SendKeeps ==
  ASSUME HttpInv, NEW p \in Remover, NEW i \in Slot, SendGoesWrong(p, i)
  PROVE  RemovalTypes'
  <1>. DEFINE m == [NoRemoval EXCEPT !.at = "lookup", !.fd = slot[i].sockfd]
  <1>1. slot[i].sockfd \in {0} \union HttpFd
    BY DEF HttpInv, SlotTypes, ConnType
  <1>2. m \in RemovalType /\ m.at # "clear" /\ removal' = [removal EXCEPT ![p] = m]
    BY <1>1, HttpConstants DEF SendGoesWrong, NoRemoval, RemovalType
  <1>. HIDE DEF m
  <1>. QED  BY <1>2, RemovalBegins DEF HttpInv

LEMMA RemovalKeeps ==
  ASSUME HttpInv, NEW p \in Remover, RemovalStep(p)
  PROVE  HttpInv'
  <1>. USE DEF HttpInv
  <1>1. /\ slot \in [Slot -> ConnType] /\ httpWrite \in WriteType
        /\ removal \in [Remover -> RemovalType] /\ removal[p] \in RemovalType
        /\ UNCHANGED <<clients, requests, mlinkQueue, answers, timeoutCb>>
    BY DEF SlotTypes, QueueTypes, RemovalTypes, RemovalStep
  <1>2. ASSUME UNCHANGED <<slot, httpWrite>>, timers' \subseteq timers
        PROVE  SlotTypes' /\ QueueTypes' /\ WriteGoesOn
    <2>1. SlotTypes'
      BY <1>1, <1>2 DEF SlotTypes
    <2>2. QueueTypes'
      BY <1>1, <1>2 DEF QueueTypes, WritesFor, Request
    <2>. QED  BY <1>2, <2>1, <2>2 DEF WriteGoesOn, EntryKept, WritesFor
  <1>3. CASE Lookup(p)
    <2>. DEFINE i == Find(removal[p].fd)
                q == IF i = 0 THEN 0 ELSE slot[i].req
    <2>1. i \in 0 .. HttpSlots /\ q \in Nat
      BY <1>1, FindFinds, HttpConstants DEF ConnType
    <2>2. /\ removal' = [removal EXCEPT ![p].at = "close", ![p].slot = i, ![p].req = q]
          /\ UNCHANGED <<owner, slot, timers, httpWrite>>
      BY <1>3 DEF Lookup
    <2>. HIDE DEF i, q
    <2>3. RemovalTypes'
      BY <1>1, <2>1, <2>2 DEF RemovalTypes, RemovalType
    <2>. QED  BY <1>1, <1>2, <2>2, <2>3, NothingCloses, TaskKeeps
  <1>4. CASE CloseSocket(p)
    <2>1. /\ removal' = [removal EXCEPT ![p].at = "stop"]
          /\ owner' = [owner EXCEPT ![removal[p].fd] = 0]
          /\ UNCHANGED <<slot, timers, httpWrite>>
      BY <1>4 DEF CloseSocket
    <2>2. OnlyCloses
      BY <1>1, <2>1 DEF OnlyCloses, ClientTypes
    <2>3. RemovalTypes'
      BY <1>1, <2>1 DEF RemovalTypes, RemovalType
    <2>. QED  BY <1>2, <2>1, <2>2, <2>3, TaskKeeps
  <1>5. CASE StopTimer(p)
    <2>1. /\ \/ removal' = [removal EXCEPT ![p].at = "clear"] /\ removal[p].slot # 0
             \/ removal' = [removal EXCEPT ![p] = NoRemoval]
          /\ timers' \subseteq timers
          /\ UNCHANGED <<owner, slot, httpWrite>>
      BY <1>5 DEF StopTimer, HasTimer
    <2>2. RemovalTypes'
      BY <1>1, <2>1, IdleHttpTypes DEF RemovalTypes, RemovalType
    <2>. QED  BY <1>1, <1>2, <2>1, <2>2, NothingCloses, TaskKeeps
  <1>6. CASE ClearConn(p)
    <2>. DEFINE i == removal[p].slot
    <2>1. /\ removal' = [removal EXCEPT ![p] = NoRemoval] /\ i # 0
          /\ slot' = [slot EXCEPT ![i] = NoConn]
          /\ httpWrite' = IF httpWrite.slot = i THEN [httpWrite EXCEPT !.kept = FALSE] ELSE httpWrite
          /\ UNCHANGED <<owner, timers>>
      BY <1>6 DEF ClearConn, RemovalTypes
    <2>2. RemovalTypes'
      BY <1>1, <2>1, IdleHttpTypes DEF RemovalTypes
    <2>3. SlotTypes'
      <3>1. slot' \in [Slot -> ConnType] /\ \A k \in Slot : slot'[k] \in {slot[k], NoConn}
        BY <1>1, <2>1, IdleHttpTypes
      <3>. QED  BY <1>1, <2>1, <3>1, IdleHttpTypes DEF SlotTypes
    <2>4. /\ httpWrite' \in WriteType /\ httpWrite'.slot = httpWrite.slot /\ httpWrite'.req = httpWrite.req
          /\ httpWrite'.at = httpWrite.at
          /\ httpWrite'.kept => httpWrite.kept /\ httpWrite.slot # i
      BY <1>1, <2>1 DEF WriteType
    <2>5. QueueTypes'
      BY <1>1, <2>4 DEF QueueTypes, WritesFor, Request
    <2>6. httpWrite.slot # i => EntryKept
      BY <1>1, <2>1 DEF EntryKept
    <2>7. WriteGoesOn
      BY <2>4, <2>6 DEF WriteGoesOn, WritesFor
    <2>. QED  BY <1>1, <2>1, <2>2, <2>3, <2>5, <2>7, NothingCloses, TaskKeeps
  <1>. QED
    BY <1>3, <1>4, <1>5, <1>6 DEF RemovalStep

\* mlink_httpd_write.
LEMMA WriteKeeps == HttpInv /\ WriteStepHttp => HttpInv'
  <1>. SUFFICES ASSUME HttpInv, WriteStepHttp PROVE HttpInv'
    OBVIOUS
  <1>. USE DEF HttpInv
  <1>. DEFINE i == httpWrite.slot
  <1>1. CASE RemovalStep("write")
    BY <1>1, RemovalKeeps DEF Remover
  <1>2. CASE ~ RemovalStep("write")
    <2>1. /\ WritesFor /\ i \in Slot /\ slot \in [Slot -> ConnType] /\ slot[i] \in ConnType
          /\ httpWrite \in WriteType /\ "write" \in Remover
          /\ UNCHANGED <<owner, clients, requests, mlinkQueue, answers, timeoutCb>>
      BY <1>2 DEF SlotTypes, QueueTypes, Remover, WriteStepHttp, WriteHeader, WithHeader, WriteBody,
                  WriteCount, WriteFooter, WriteFails, WriteUnchanged, WritesFor
    <2>2. OnlyCloses
      BY <2>1, NothingCloses
    <2>3. SlotTypes' /\ EntryKept
      <3>1. \/ slot' = slot
            \/ slot' = [slot EXCEPT ![i].flag = "body"]
            \/ slot' = [slot EXCEPT ![i].num = Decremented(slot[i].num)]
        BY <1>2 DEF WriteStepHttp, WriteHeader, WithHeader, WriteBody, WriteCount, WriteFooter, WriteFails
      <3>2. Decremented(slot[i].num) \in Nat
        BY <2>1, DecrementedIs DEF ConnType
      <3>3. slot' \in [Slot -> ConnType] /\ \A k \in Slot : /\ slot'[k].sockfd = slot[k].sockfd
                                                            /\ slot'[k].flag \in {slot[k].flag, "body"}
        BY <2>1, <3>1, <3>2 DEF ConnType
      <3>4. timers' \subseteq timers \union {[slot |-> i, req |-> slot[i].timer]}
        BY <1>2 DEF WriteStepHttp, WriteHeader, WithHeader, WriteBody, WriteCount, WriteFooter, WriteFails
      <3>5. timers' \subseteq [slot : Slot, req : Nat]
        BY <2>1, <3>4 DEF SlotTypes, ConnType
      <3>6. SlotTypes'
        BY <2>1, <3>3, <3>5 DEF SlotTypes
      <3>. QED  BY <3>3, <3>6 DEF EntryKept
    <2>4. QueueTypes' /\ WriteGoesOn
      <3>1. httpWrite' = IdleWrite \/ \E at \in {"header", "data", "count", "footer"} : httpWrite' = [httpWrite EXCEPT !.at = at]
        BY <1>2 DEF WriteStepHttp, WriteHeader, WithHeader, WriteBody, WriteCount, WriteFooter, WriteFails
      <3>2. CASE httpWrite' = IdleWrite
        BY <2>1, <3>2, IdleHttpTypes DEF QueueTypes, WriteGoesOn, WritesFor, Request
      <3>3. ASSUME NEW at \in {"header", "data", "count", "footer"}, httpWrite' = [httpWrite EXCEPT !.at = at]
            PROVE  QueueTypes' /\ WriteGoesOn
        <4>1. /\ httpWrite' \in WriteType /\ httpWrite'.slot = i /\ httpWrite'.req = httpWrite.req
              /\ httpWrite'.kept = httpWrite.kept
          BY <2>1, <3>3 DEF WriteType
        <4>2. QueueTypes'
          BY <2>1, <4>1 DEF QueueTypes, WritesFor, Request
        <4>3. WriteGoesOn
          BY <2>1, <2>3, <4>1 DEF WriteGoesOn
        <4>. QED  BY <4>2, <4>3
      <3>. QED  BY <3>1, <3>2, <3>3
    <2>5. RemovalTypes'
      <3>1. CASE WriteFails
        BY <2>1, <3>1, SendKeeps DEF WriteFails
      <3>2. CASE ~ WriteFails
        <4>1. removal' = removal \/ \E conn \in {slot[i]} : removal' = [removal EXCEPT !["write"] = LastOf(conn)]
          BY <1>2, <3>2 DEF WriteStepHttp, WriteHeader, WithHeader, WriteBody, WriteCount, WriteFooter
        <4>2. LastOf(slot[i]) \in RemovalType /\ LastOf(slot[i]).at # "clear"
          BY <2>1, HttpConstants DEF LastOf, RemovalType, ConnType
        <4>3. CASE removal' = removal
          BY <4>3 DEF RemovalTypes
        <4>4. CASE removal' = [removal EXCEPT !["write"] = LastOf(slot[i])]
          BY <2>1, <4>2, <4>4, RemovalBegins
        <4>. QED  BY <4>1, <4>3, <4>4
      <3>. QED  BY <3>1, <3>2
    <2>. QED  BY <2>2, <2>3, <2>4, <2>5, TaskKeeps
  <1>. QED  BY <1>1, <1>2

\* mlink_connection_timeout_cb.
LEMMA TimerKeeps == HttpInv /\ TimerStepHttp => HttpInv'
  <1>. SUFFICES ASSUME HttpInv, TimerStepHttp PROVE HttpInv'
    OBVIOUS
  <1>. USE DEF HttpInv
  <1>1. CASE RemovalStep("timer")
    BY <1>1, RemovalKeeps DEF Remover
  <1>2. CASE TimeoutStep
    <2>1. /\ slot \in [Slot -> ConnType] /\ timers \subseteq [slot : Slot, req : Nat]
          /\ \A k \in Slot : slot[k].sockfd # 0 => slot[k].flag # "none"
          /\ timeoutCb \in [at : {"idle", "send", "close"}, slot : 0 .. HttpSlots]
          /\ timeoutCb.at # "idle" => timeoutCb.slot \in Slot
          /\ "timer" \in Remover
      BY DEF SlotTypes, Remover
    <2>2. UNCHANGED <<clients, requests, mlinkQueue, answers, httpWrite>>
      BY <1>2 DEF TimeoutStep
    <2>3. QueueTypes'
      BY <2>2 DEF QueueTypes, WritesFor, Request
    <2>4. EntryKept => WriteGoesOn
      BY <2>2 DEF WriteGoesOn, WritesFor
    <2>5. ASSUME NEW t \in timers, TimeoutBegins(t) PROVE HttpInv'
      <3>1. t.slot \in Slot /\ UNCHANGED <<owner, removal>> /\ timers' \subseteq timers
        BY <2>1, <2>5 DEF TimeoutBegins
      <3>0. RemovalTypes' /\ OnlyCloses
        BY <2>2, <3>1, NothingCloses DEF RemovalTypes
      <3>2. CASE UNCHANGED <<slot, timeoutCb>>
        <4>1. SlotTypes' /\ EntryKept
          BY <2>1, <3>1, <3>2 DEF SlotTypes, EntryKept
        <4>. QED  BY <2>3, <2>4, <3>0, <4>1, TaskKeeps
      <3>3. CASE /\ slot' = [slot EXCEPT ![t.slot].flag = "data"]
                 /\ timeoutCb' = [at |-> "send", slot |-> t.slot]
        <4>0. slot[t.slot] \in ConnType
          BY <2>1, <3>1
        <4>1. slot' \in [Slot -> ConnType] /\ EntryKept
              /\ \A k \in Slot : slot'[k].sockfd # 0 => slot'[k].flag # "none"
          BY <2>1, <3>1, <3>3, <4>0 DEF ConnType, EntryKept
        <4>2. SlotTypes'
          BY <2>1, <3>1, <3>3, <4>1, HttpConstants DEF SlotTypes
        <4>. QED  BY <2>3, <2>4, <3>0, <4>1, <4>2, TaskKeeps
      <3>. QED  BY <2>5, <3>2, <3>3 DEF TimeoutBegins
    <2>6. CASE TimeoutSends
      <3>1. timeoutCb.slot \in Slot /\ timeoutCb' = [timeoutCb EXCEPT !.at = "close"]
            /\ UNCHANGED <<owner, slot, timers>>
        BY <2>1, <2>6 DEF TimeoutSends
      <3>2. SlotTypes' /\ EntryKept
        BY <2>1, <3>1 DEF SlotTypes, EntryKept
      <3>3. RemovalTypes'
        BY <2>1, <2>6, <3>1, SendKeeps DEF TimeoutSends, RemovalTypes
      <3>. QED  BY <2>2, <2>3, <2>4, <3>1, <3>2, <3>3, NothingCloses, TaskKeeps
    <2>7. CASE TimeoutCloses
      <3>. DEFINE i == timeoutCb.slot
                  f == slot[i].sockfd
                  m == [at |-> "stop", fd |-> 0, slot |-> i, req |-> slot[i].req]
      <3>1. /\ i \in Slot /\ timeoutCb' = IdleCb /\ owner' = Closed
            /\ removal' = [removal EXCEPT !["timer"] = m] /\ UNCHANGED <<slot, timers>>
        BY <2>1, <2>7 DEF TimeoutCloses
      <3>2. f \in {0} \union HttpFd /\ owner \in [HttpFd -> Nat] /\ slot[i].req \in Nat
        BY <2>1, <3>1 DEF ConnType, ClientTypes
      <3>3. OnlyCloses
        BY <2>2, <3>1, <3>2 DEF OnlyCloses, Closed
      <3>4. m \in RemovalType /\ m.at # "clear"
        BY <3>1, <3>2, HttpConstants DEF RemovalType
      <3>. HIDE DEF m
      <3>5. RemovalTypes'
        BY <2>1, <3>1, <3>4, RemovalBegins
      <3>6. SlotTypes' /\ EntryKept
        BY <2>1, <3>1, HttpConstants DEF SlotTypes, EntryKept, IdleCb
      <3>. QED  BY <2>3, <2>4, <3>3, <3>5, <3>6, TaskKeeps
    <2>. QED
      BY <1>2, <2>5, <2>6, <2>7 DEF TimeoutStep
  <1>. QED  BY <1>1, <1>2 DEF TimerStepHttp

LEMMA HttpInvStep == HttpInv /\ [HttpNext]_httpVars => HttpInv'
  <1>. SUFFICES ASSUME HttpInv, [HttpNext]_httpVars PROVE HttpInv'
    OBVIOUS
  <1>1. CASE UNCHANGED httpVars
    BY <1>1 DEF httpVars, HttpInv, ClientTypes, SlotTypes, QueueTypes, RemovalTypes, EntryIsOfClient, WritesFor,
                Connected, Request
  <1>. QED
    BY <1>1, ServerKeeps, RequestKeeps, ApplicationKeeps, WriteKeeps, TimerKeeps DEF HttpNext

\* While a client is connected no answer to its request is sent to another one, for any
\* number of entries, descriptors, clients, requests and failing calls, however often the
\* entries and the descriptors are used again, unless the entry is cleared in the middle of
\* the write.
THEOREM AnswersReachTheirClient == HttpSpec => ResponsesReachTheirClient
  <1>1. HttpInv /\ [HttpNext]_httpVars
          => [\A g \in reached' \ reached :
                Connected(g.req) /\ httpWrite.kept => g.client = requests[g.req].client]_httpVars
    <2>. SUFFICES ASSUME HttpInv, HttpNext, NEW g \in reached' \ reached, Connected(g.req), httpWrite.kept
                  PROVE  g.client = requests[g.req].client
      OBVIOUS
    <2>0. reached' # reached
      OBVIOUS
    <2>1. WriteBody /\ slot[httpWrite.slot].sockfd # 0
      <3>1. ~ \E f \in HttpFd : HttpConnect(f) \/ HttpClose(f) \/ \E n \in HttpDevices : DeviceRequest(f, n)
        BY <2>0 DEF HttpConnect, HttpClose, DeviceRequest
      <3>2. ~ HttpRead /\ ~ \E ans \in answers : WriteBegins(ans)
        BY <2>0 DEF HttpRead, WriteBegins
      <3>3. ~ TimerStepHttp /\ ~ RemovalStep("write")
        BY <2>0 DEF TimerStepHttp, TimeoutStep, RemovalStep
      <3>4. WriteStepHttp
        BY <3>1, <3>2, <3>3 DEF HttpNext
      <3>5. WriteBody
        BY <2>0, <3>3, <3>4 DEF WriteStepHttp, WriteHeader, WithHeader, WriteCount, WriteFooter, WriteFails
      <3>. QED
        BY <2>0, <3>5 DEF WriteBody
    <2>2. g.req = httpWrite.req /\ g.client = owner[slot[httpWrite.slot].sockfd] /\ WritesFor
      BY <2>1 DEF WriteBody, WritesFor
    <2>3. slot[httpWrite.slot].sockfd = requests[httpWrite.req].fd
      BY <2>2 DEF HttpInv, EntryIsOfClient
    <2>. QED  BY <2>2, <2>3 DEF Connected
  <1>. QED
    BY <1>1, HttpInvInit, HttpInvStep, PTL DEF HttpSpec, ResponsesReachTheirClient

-----------------------------------------------------------------------------
(* Triggers                                                                *)

USE TriggerAssumption DEF TriggerAssumption

\* A list has one trigger of that name, which has that text, or none if there is no text.
Has(l, n, text) ==
  IF text = NoText THEN \A i \in 1 .. Len(l) : l[i].name # n
  ELSE \E i \in 1 .. Len(l) : /\ l[i].name = n /\ l[i].text = text
                              /\ \A j \in 1 .. Len(l) : l[j].name = n => j = i

\* The stored list has one entry of that name, which has room for the text, or none if
\* there is no text.
ListsOne(l, n, text) ==
  IF text = NoText THEN \A i \in 1 .. Len(l) : l[i].name # n
  ELSE \E i \in 1 .. Len(l) : /\ l[i].name = n /\ l[i].size = text.size
                              /\ \A j \in 1 .. Len(l) : l[j].name = n => j = i

\* The names whose trigger a request has changed in the RAM already.
Adding(n) == change.at \in {"save", "addUpdate"} /\ n = Item.name
Removed(n) == change.at = "remove" /\ n \in change.done

\* What the list in the RAM holds of a name meanwhile.
InRam(n) == IF Adding(n) THEN Item.text ELSE IF Removed(n) THEN NoText ELSE promise[n]

\* Under its name is that text, and the stored list names it; of a trigger that was removed
\* one of the two may be left.
TextStored(n, text) == text = NoText \/ storedText[n] = text
NameStored(n, text) == (text = NoText /\ storedText[n] = NoText) \/ ListsOne(storedList, n, text)

NameKept(n) ==
  /\ Has(list, n, InRam(n))
  /\ (change.at = "save" /\ n = Item.name) \/ n \in unsaved \/ TextStored(n, InRam(n))
  /\ Adding(n) \/ Removed(n) \/ n \in unlisted \/ NameStored(n, promise[n])
  /\ change.at = "add" /\ n = Item.name => change.from = 1

ChangeRecord ==
  [at : {"idle", "add", "save", "addUpdate", "remove"},
   todo : Seq(Trigger) \union Seq(TriggerName), done : SUBSET TriggerName, from : Nat \ {0}]

ChangeType ==
  /\ change \in ChangeRecord
  /\ change.at \in {"add", "save", "addUpdate"} => change.todo \in Seq(Trigger) /\ change.todo # <<>>
  /\ change.at = "remove" => change.todo \in Seq(TriggerName)
  /\ change.at \in {"save", "addUpdate"} => change.from = 1

KeptInv == TriggerTypeOK /\ ChangeType /\ \A n \in TriggerName \ unsure : NameKept(n)

LEMMA TextIsNot == ASSUME NEW text \in Text PROVE text # NoText
  <1>1. text.size \in Nat \ {0}
    BY DEF Text
  <1>. QED  BY <1>1 DEF NoText

\* A trigger is put in front of a list.
LEMMA HasInFront ==
  ASSUME NEW l \in Seq(Trigger), NEW item \in Trigger, NEW n, NEW text
  PROVE  /\ n # item.name /\ Has(l, n, text) => Has(<<item>> \o l, n, text)
         /\ Has(l, item.name, NoText) => Has(<<item>> \o l, item.name, item.text)
         /\ <<item>> \o l \in Seq(Trigger)
  <1>. DEFINE m == <<item>> \o l
  <1>1. /\ m \in Seq(Trigger) /\ Len(m) = Len(l) + 1 /\ Len(l) \in Nat
        /\ m[1] = item /\ \A i \in 1 .. Len(l) : m[i + 1] = l[i]
    OBVIOUS
  <1>2. \A j \in 1 .. Len(m) : j # 1 => j - 1 \in 1 .. Len(l) /\ m[j] = l[j - 1]
    <2>. SUFFICES ASSUME NEW j \in 1 .. Len(m), j # 1 PROVE j - 1 \in 1 .. Len(l) /\ m[j] = l[j - 1]
      OBVIOUS
    <2>1. j - 1 \in 1 .. Len(l) /\ (j - 1) + 1 = j
      BY <1>1
    <2>2. m[(j - 1) + 1] = l[j - 1]
      BY <1>1, <2>1
    <2>. QED  BY <2>1, <2>2
  <1>3. item.text # NoText
    BY TextIsNot DEF Trigger
  <1>. HIDE DEF m
  <1>4. ASSUME n # item.name, Has(l, n, text) PROVE Has(m, n, text)
    <2>1. CASE text = NoText
      BY <1>1, <1>2, <1>4, <2>1 DEF Has
    <2>2. CASE text # NoText
      <3>1. PICK i \in 1 .. Len(l) : /\ l[i].name = n /\ l[i].text = text
                                     /\ \A j \in 1 .. Len(l) : l[j].name = n => j = i
        BY <1>4, <2>2 DEF Has
      <3>2. i + 1 \in 1 .. Len(m) /\ m[i + 1].name = n /\ m[i + 1].text = text
        BY <1>1, <3>1
      <3>3. ASSUME NEW j \in 1 .. Len(m), m[j].name = n PROVE j = i + 1
        <4>1. j - 1 \in 1 .. Len(l) /\ l[j - 1].name = n
          BY <1>1, <1>2, <1>4, <3>3
        <4>2. j - 1 = i
          BY <3>1, <4>1
        <4>. QED  BY <4>2, <1>1
      <3>. QED  BY <2>2, <3>2, <3>3 DEF Has
    <2>. QED  BY <2>1, <2>2
  <1>5. ASSUME Has(l, item.name, NoText) PROVE Has(m, item.name, item.text)
    <2>1. \A i \in 1 .. Len(l) : l[i].name # item.name
      BY <1>5 DEF Has
    <2>2. 1 \in 1 .. Len(m) /\ \A j \in 1 .. Len(m) : m[j].name = item.name => j = 1
      <3>1. 1 \in 1 .. Len(m)
        BY <1>1
      <3>2. ASSUME NEW j \in 1 .. Len(m), m[j].name = item.name PROVE j = 1
        <4>1. j # 1 => j - 1 \in 1 .. Len(l) /\ m[j] = l[j - 1]
          BY <1>2
        <4>. QED  BY <2>1, <3>2, <4>1
      <3>. QED  BY <3>1, <3>2
    <2>. QED  BY <1>1, <1>3, <2>2 DEF Has
  <1>. QED  BY <1>1, <1>4, <1>5 DEF m

\* A list without its i-th trigger.
LEMMA RemovedIs ==
  ASSUME NEW l \in Seq(Trigger), NEW i \in 1 .. Len(l)
  PROVE  /\ RemoveAt(l, i) \in Seq(Trigger) /\ Len(RemoveAt(l, i)) = Len(l) - 1
         /\ \A j \in 1 .. Len(RemoveAt(l, i)) :
              RemoveAt(l, i)[j] = IF j < i THEN l[j] ELSE l[j + 1]
  <1>. DEFINE r == RemoveAt(l, i)
  <1>. DEFINE a == SubSeq(l, 1, i - 1)
              b == SubSeq(l, i + 1, Len(l))
  <1>1. /\ a \in Seq(Trigger) /\ Len(a) = i - 1 /\ i \in Nat
        /\ \A j \in 1 .. i - 1 : a[j] = l[j]
    OBVIOUS
  <1>2. /\ b \in Seq(Trigger) /\ Len(b) = Len(l) - i
        /\ \A j \in 1 .. Len(l) - i : b[j] = l[i + j]
    OBVIOUS
  <1>3. r = a \o b
    BY DEF RemoveAt
  <1>0. Len(l) \in Nat /\ i <= Len(l)
    OBVIOUS
  <1>. HIDE DEF a, b, r
  <1>4. r \in Seq(Trigger) /\ Len(r) = Len(l) - 1
    BY <1>0, <1>1, <1>2, <1>3
  <1>5. ASSUME NEW j \in 1 .. Len(r) PROVE r[j] = IF j < i THEN l[j] ELSE l[j + 1]
    <2>1. CASE j < i
      BY <1>1, <1>2, <1>3, <1>4, <2>1
    <2>2. CASE ~ (j < i)
      <3>1. j - (i - 1) \in 1 .. Len(l) - i /\ i + (j - (i - 1)) = j + 1
        BY <1>1, <1>4, <2>2
      <3>2. r[j] = b[j - (i - 1)]
        BY <1>1, <1>2, <1>3, <1>4, <2>2
      <3>. QED  BY <1>2, <2>2, <3>1, <3>2
    <2>. QED  BY <2>1, <2>2
  <1>. QED  BY <1>4, <1>5 DEF r

\* A trigger is taken off a list.
LEMMA HasWithout ==
  ASSUME NEW l \in Seq(Trigger), NEW i \in 1 .. Len(l), NEW n, NEW text, Has(l, n, text)
  PROVE  /\ Has(RemoveAt(l, i), n, IF l[i].name = n THEN NoText ELSE text)
         /\ RemoveAt(l, i) \in Seq(Trigger)
  <1>. DEFINE r == RemoveAt(l, i)
  <1>1. /\ r \in Seq(Trigger) /\ Len(r) = Len(l) - 1
        /\ \A j \in 1 .. Len(r) : r[j] = IF j < i THEN l[j] ELSE l[j + 1]
    BY RemovedIs
  <1>. HIDE DEF r
  <1>2. Len(l) \in Nat /\ i \in Nat
    OBVIOUS
  <1>3. \A j \in 1 .. Len(r) : \E k \in 1 .. Len(l) : k # i /\ r[j] = l[k] /\ k = IF j < i THEN j ELSE j + 1
    BY <1>1, <1>2
  <1>4. CASE text = NoText
    BY <1>1, <1>3, <1>4 DEF Has, r
  <1>5. CASE text # NoText
    <2>1. PICK k \in 1 .. Len(l) : /\ l[k].name = n /\ l[k].text = text
                                   /\ \A j \in 1 .. Len(l) : l[j].name = n => j = k
      BY <1>5 DEF Has
    <2>2. CASE l[i].name = n
      <3>1. k = i
        BY <2>1, <2>2
      <3>2. \A j \in 1 .. Len(r) : r[j].name # n
        BY <1>3, <2>1, <3>1
      <3>. QED  BY <1>1, <2>2, <3>2 DEF Has, r
    <2>3. CASE l[i].name # n
      <3>. DEFINE d == IF k < i THEN k ELSE k - 1
      <3>1. k # i /\ d \in 1 .. Len(r) /\ r[d] = l[k]
        <4>1. k # i /\ k \in Nat
          BY <2>1, <2>3
        <4>2. d \in 1 .. Len(r) /\ (IF d < i THEN d ELSE d + 1) = k
          BY <1>1, <1>2, <4>1
        <4>. QED  BY <1>1, <4>1, <4>2
      <3>2. ASSUME NEW j \in 1 .. Len(r), r[j].name = n PROVE j = d
        <4>1. (IF j < i THEN j ELSE j + 1) = k
          BY <1>3, <2>1, <3>2
        <4>. QED  BY <1>1, <1>2, <4>1
      <3>. HIDE DEF d
      <3>3. Has(r, n, text)
        BY <1>5, <2>1, <3>1, <3>2 DEF Has
      <3>. QED  BY <1>1, <2>3, <3>3 DEF r
    <2>. QED  BY <2>2, <2>3
  <1>. QED  BY <1>1, <1>4, <1>5 DEF r

\* What mlink_trigger_store_update stores.
LEMMA StoredIsListed ==
  ASSUME NEW l \in Seq(Trigger)
  PROVE  /\ StoredForm(l) \in Seq([name : TriggerName, size : TriggerSize])
         /\ \A n, text : Has(l, n, text) => ListsOne(StoredForm(l), n, text)
  <1>. DEFINE s == StoredForm(l)
  <1>1. \A i \in 1 .. Len(l) : l[i].name \in TriggerName /\ l[i].text.size \in TriggerSize
    <2>1. \A i \in 1 .. Len(l) : l[i] \in Trigger
      OBVIOUS
    <2>. QED  BY <2>1 DEF Trigger, Text
  <1>2. s \in Seq([name : TriggerName, size : TriggerSize]) /\ Len(s) = Len(l)
        /\ \A i \in 1 .. Len(l) : s[i].name = l[i].name /\ s[i].size = l[i].text.size
    <2>1. s \in [1 .. Len(l) -> [name : TriggerName, size : TriggerSize]] /\ Len(l) \in Nat
      BY <1>1 DEF StoredForm
    <2>. QED  BY <2>1 DEF StoredForm
  <1>. HIDE DEF s
  <1>3. ASSUME NEW n, NEW text, Has(l, n, text) PROVE ListsOne(s, n, text)
    BY <1>2, <1>3 DEF Has, ListsOne
  <1>. QED  BY <1>2, <1>3 DEF s

\* What loads is counted from the end of the stored list.
LEMMA BehindFinds ==
  ASSUME storedList \in Seq([name : TriggerName, size : TriggerSize])
  PROVE  /\ Cardinality(Loaded) \in Nat
         /\ \A k \in 1 .. Cardinality(Loaded) : Behind(k) \in Loaded
         /\ \A i \in Loaded : \E k \in 1 .. Cardinality(Loaded) : Behind(k) = i
         /\ \A j, k \in 1 .. Cardinality(Loaded) : Behind(j) = Behind(k) => j = k
  <1>. DEFINE N == Cardinality(Loaded)
              After(i) == {j \in Loaded : i < j}
              R(i) == Cardinality(After(i))
  <1>1. Loaded \subseteq 1 .. Len(storedList) /\ Len(storedList) \in Nat
    BY DEF Loaded
  <1>2. IsFiniteSet(Loaded) /\ N \in Nat
    <2>1. IsFiniteSet(1 .. Len(storedList))
      BY <1>1, FS_Interval
    <2>2. IsFiniteSet(Loaded)
      BY <1>1, <2>1, FS_Subset
    <2>. QED  BY <2>2, FS_CardinalityType
  <1>3. ASSUME NEW i \in Loaded PROVE IsFiniteSet(After(i)) /\ R(i) \in Nat /\ R(i) < N
    <2>1. After(i) \in SUBSET Loaded /\ i \notin After(i)
      BY <1>1
    <2>2. IsFiniteSet(After(i)) /\ R(i) <= N /\ (N = R(i) => Loaded = After(i))
      BY <1>2, <2>1, FS_Subset
    <2>3. R(i) \in Nat
      BY <2>2, FS_CardinalityType
    <2>4. R(i) # N
      BY <2>1, <2>2
    <2>. QED  BY <1>2, <2>2, <2>3, <2>4
  <1>4. ASSUME NEW i \in Loaded, NEW j \in Loaded, i < j PROVE R(j) < R(i)
    <2>1. After(j) \in SUBSET After(i) /\ j \in After(i) /\ j \notin After(j)
      <3>1. i \in Nat /\ j \in Nat /\ \A k \in Loaded : k \in Nat
        BY <1>1
      <3>2. \A k \in After(j) : k \in After(i)
        BY <1>4, <3>1
      <3>3. j \in After(i)
        BY <1>4
      <3>4. j \notin After(j)
        BY <3>1
      <3>. HIDE DEF After
      <3>. QED  BY <3>2, <3>3, <3>4
    <2>2. R(j) <= R(i) /\ (R(i) = R(j) => After(i) = After(j))
      BY <1>3, <2>1, FS_Subset
    <2>3. R(j) # R(i) /\ R(i) \in Nat /\ R(j) \in Nat
      BY <1>3, <2>1, <2>2
    <2>. QED  BY <2>2, <2>3
  <1>. HIDE DEF After, R
  <1>5. \A i, j \in Loaded : R(i) = R(j) => i = j
    <2>. SUFFICES ASSUME NEW i \in Loaded, NEW j \in Loaded, R(i) = R(j), i # j PROVE FALSE
      OBVIOUS
    <2>1. i < j \/ j < i
      BY <1>1
    <2>2. R(i) \in Nat /\ R(j) \in Nat
      BY <1>3
    <2>. QED  BY <1>4, <2>1, <2>2
  <1>6. \A k \in 1 .. N : \E i \in Loaded : R(i) = k - 1
    <2>. DEFINE f == [i \in Loaded |-> R(i) + 1]
    <2>1. f \in [Loaded -> 1 .. N]
      BY <1>2, <1>3
    <2>2. \A i, j \in Loaded : f[i] = f[j] => i = j
      <3>. SUFFICES ASSUME NEW i \in Loaded, NEW j \in Loaded, f[i] = f[j] PROVE i = j
        OBVIOUS
      <3>1. R(i) + 1 = R(j) + 1 /\ R(i) \in Nat /\ R(j) \in Nat
        BY <1>3
      <3>. QED  BY <1>5, <3>1
    <2>. HIDE DEF f
    <2>3. f \in Injection(Loaded, 1 .. N)
      BY <2>1, <2>2 DEF Injection, IsInjective
    <2>4. IsFiniteSet(1 .. N) /\ Cardinality(1 .. N) = N
      BY <1>2, FS_Interval
    <2>5. f \in Surjection(Loaded, 1 .. N)
      BY <2>3, <2>4, FS_Injection
    <2>6. \A k \in 1 .. N : \E i \in Loaded : f[i] = k
      BY <2>5 DEF Surjection
    <2>. SUFFICES ASSUME NEW k \in 1 .. N PROVE \E i \in Loaded : R(i) = k - 1
      OBVIOUS
    <2>7. PICK i \in Loaded : f[i] = k
      BY <2>6
    <2>8. R(i) + 1 = k /\ R(i) \in Nat
      BY <1>3, <2>7 DEF f
    <2>. QED  BY <2>8
  <1>7. ASSUME NEW k \in 1 .. N PROVE Behind(k) \in Loaded /\ R(Behind(k)) = k - 1
    <2>1. \E i \in Loaded : Cardinality({j \in Loaded : i < j}) = k - 1
      BY <1>6 DEF R, After
    <2>2. Behind(k) \in Loaded /\ Cardinality({j \in Loaded : Behind(k) < j}) = k - 1
      BY <2>1 DEF Behind
    <2>. QED  BY <2>2 DEF R, After
  <1>8. ASSUME NEW i \in Loaded PROVE \E k \in 1 .. N : Behind(k) = i
    <2>1. R(i) + 1 \in 1 .. N /\ (R(i) + 1) - 1 = R(i)
      BY <1>2, <1>3
    <2>2. Behind(R(i) + 1) \in Loaded /\ R(Behind(R(i) + 1)) = (R(i) + 1) - 1
      BY <1>7, <2>1
    <2>. QED  BY <1>5, <2>1, <2>2
  <1>9. ASSUME NEW j \in 1 .. N, NEW k \in 1 .. N, Behind(j) = Behind(k) PROVE j = k
    <2>1. j - 1 = k - 1
      BY <1>7, <1>9
    <2>. QED  BY <2>1
  <1>. QED  BY <1>2, <1>7, <1>8, <1>9

\* A reset finds what is stored.
LEMMA InitFinds ==
  ASSUME TriggerTypeOK
  PROVE  /\ AfterInit \in Seq(Trigger)
         /\ \A n \in TriggerName, text \in Text \union {NoText} :
              TextStored(n, text) /\ NameStored(n, text) => Has(AfterInit, n, text)
  <1>. DEFINE N == Cardinality(Loaded)
  <1>1. /\ storedList \in Seq([name : TriggerName, size : TriggerSize])
        /\ storedText \in [TriggerName -> Text \union {NoText}]
    BY DEF TriggerTypeOK
  <1>2. /\ N \in Nat
        /\ \A k \in 1 .. N : Behind(k) \in Loaded
        /\ \A i \in Loaded : \E k \in 1 .. N : Behind(k) = i
        /\ \A j, k \in 1 .. N : Behind(j) = Behind(k) => j = k
    BY <1>1, BehindFinds
  <1>3. \A i \in Loaded : /\ i \in 1 .. Len(storedList) /\ storedList[i].name \in TriggerName
                          /\ storedText[storedList[i].name] \in Text
                          /\ storedText[storedList[i].name].size <= storedList[i].size
    <2>. SUFFICES ASSUME NEW i \in Loaded
                  PROVE  /\ i \in 1 .. Len(storedList) /\ storedList[i].name \in TriggerName
                         /\ storedText[storedList[i].name] \in Text
                         /\ storedText[storedList[i].name].size <= storedList[i].size
      OBVIOUS
    <2>1. i \in 1 .. Len(storedList) /\ Loads(storedList[i])
      BY DEF Loaded
    <2>2. storedList[i] \in [name : TriggerName, size : TriggerSize]
      <3>1. \A S : storedList \in Seq(S) => storedList[i] \in S
        BY <2>1
      <3>. QED  BY <1>1, <3>1
    <2>. QED  BY <1>1, <2>1, <2>2 DEF Loads
  <1>4. /\ Len(AfterInit) = N /\ AfterInit \in Seq(Trigger)
        /\ \A k \in 1 .. N : /\ AfterInit[k].name = storedList[Behind(k)].name
                             /\ AfterInit[k].text = storedText[storedList[Behind(k)].name]
    <2>1. AfterInit \in [1 .. N -> Trigger]
      BY <1>2, <1>3 DEF AfterInit, Trigger
    <2>2. Len(AfterInit) = N /\ AfterInit \in Seq(Trigger)
      BY <1>2, <2>1
    <2>. QED  BY <2>2 DEF AfterInit
  <1>. HIDE DEF N
  <1>5. ASSUME NEW n \in TriggerName, NEW text \in Text \union {NoText}, TextStored(n, text), NameStored(n, text)
        PROVE  Has(AfterInit, n, text)
    <2>1. CASE text = NoText
      <3>1. ASSUME NEW k \in 1 .. N, AfterInit[k].name = n PROVE FALSE
        <4>1. Behind(k) \in Loaded /\ storedText[n] \in Text /\ storedList[Behind(k)].name = n
              /\ Behind(k) \in 1 .. Len(storedList)
          BY <1>2, <1>3, <1>4, <3>1
        <4>2. storedText[n] # NoText
          BY <4>1, TextIsNot
        <4>3. ListsOne(storedList, n, NoText)
          BY <1>5, <2>1, <4>2 DEF NameStored
        <4>. QED  BY <4>1, <4>3 DEF ListsOne
      <3>. QED  BY <1>4, <2>1, <3>1 DEF Has
    <2>2. CASE text # NoText
      <3>0. storedText[n] = text /\ ListsOne(storedList, n, text)
        BY <1>5, <2>2 DEF TextStored, NameStored
      <3>1. PICK i \in 1 .. Len(storedList) :
                   /\ storedList[i].name = n /\ storedList[i].size = storedText[n].size
                   /\ \A j \in 1 .. Len(storedList) : storedList[j].name = n => j = i
        BY <2>2, <3>0 DEF ListsOne
      <3>2. i \in Loaded
        <4>1. storedText[n].size \in Nat
          BY <2>2, <3>0 DEF Text
        <4>. QED  BY <2>2, <3>0, <3>1, <4>1 DEF Loaded, Loads
      <3>3. PICK k \in 1 .. N : Behind(k) = i
        BY <1>2, <3>2
      <3>4. AfterInit[k].name = n /\ AfterInit[k].text = storedText[n]
        BY <1>4, <3>1, <3>3
      <3>5. ASSUME NEW j \in 1 .. N, AfterInit[j].name = n PROVE j = k
        <4>1. Behind(j) = i
          BY <1>2, <1>3, <1>4, <3>1, <3>5
        <4>. QED  BY <1>2, <3>3, <4>1
      <3>. QED  BY <1>4, <2>2, <3>0, <3>4, <3>5 DEF Has
    <2>. QED  BY <2>1, <2>2
  <1>. QED  BY <1>4, <1>5

\* The first place of a name in the list.
LEMMA FirstPlaceIs ==
  ASSUME NEW n, NEW k \in Nat, Places(n, k) # {}, list \in Seq(Trigger)
  PROVE  FirstPlace(n, k) \in Nat /\ FirstPlace(n, k) \in k .. Len(list)
         /\ list[FirstPlace(n, k)].name = n
  <1>1. Places(n, k) \in SUBSET Nat
    BY DEF Places
  <1>2. (CHOOSE i \in Places(n, k) : \A j \in Places(n, k) : i <= j) \in Places(n, k)
    BY <1>1, FirstOf
  <1>. QED  BY <1>1, <1>2 DEF FirstPlace, Places

LEMMA KeptInit == TriggerInit => KeptInv
  <1>. SUFFICES ASSUME TriggerInit PROVE KeptInv
    OBVIOUS
  <1>1. TriggerTypeOK /\ ChangeType
    BY DEF TriggerInit, TriggerTypeOK, ChangeType, ChangeRecord, Quiet0
  <1>2. ASSUME NEW n \in TriggerName PROVE NameKept(n)
    BY <1>2 DEF TriggerInit, NameKept, InRam, Adding, Removed, Quiet0, Has, TextStored, NameStored
  <1>. QED  BY <1>1, <1>2 DEF KeptInv

\* What the types say of the trigger that is being added.
LEMMA ItemType ==
  ASSUME ChangeType, change.at \in {"add", "save", "addUpdate"}
  PROVE  Item \in Trigger /\ Item.name \in TriggerName /\ Item.text \in Text /\ Item.text # NoText
         /\ change.todo \in Seq(Trigger) /\ Len(change.todo) \in Nat \ {0}
  <1>1. change.todo \in Seq(Trigger) /\ change.todo # <<>>
    BY DEF ChangeType, ChangeRecord
  <1>2. change.todo[1] \in Trigger /\ Len(change.todo) \in Nat \ {0}
    BY <1>1
  <1>3. Item \in Trigger
    BY <1>2 DEF Item
  <1>. QED  BY <1>1, <1>2, <1>3, TextIsNot DEF Trigger

LEMMA NamesType ==
  ASSUME ChangeType
  PROVE  Names \subseteq TriggerName
  <1>1. CASE change.at \in {"add", "save", "addUpdate"}
    <2>1. Item.name \in TriggerName
      BY <1>1, ItemType
    <2>. QED  BY <1>1, <2>1 DEF Names, Item
  <1>2. CASE change.at = "remove"
    <2>1. change.todo \in Seq(TriggerName) /\ change.done \subseteq TriggerName
      BY <1>2 DEF ChangeType, ChangeRecord
    <2>2. change.todo # <<>> => change.todo[1] \in TriggerName
      BY <2>1
    <2>. QED  BY <1>2, <2>1, <2>2 DEF Names
  <1>3. CASE change.at = "idle"
    BY <1>3 DEF Names
  <1>. QED  BY <1>1, <1>2, <1>3 DEF ChangeType, ChangeRecord

\* A request ends on a failure: its names are given up.
LEMMA GivingUp ==
  ASSUME TriggerTypeOK, ChangeType, GiveUp
  PROVE  /\ ChangeType' /\ Names \subseteq TriggerName /\ unsure' \subseteq TriggerName
         /\ unsure' = unsure \union Names /\ change'.at = "idle"
         /\ change'.done \subseteq TriggerName /\ change'.from \in Nat
         /\ \A n : InRam(n)' = promise'[n] /\ ~ Adding(n)' /\ ~ Removed(n)'
  <1>1. change' = Quiet0 /\ unsure' = unsure \union Names
    BY DEF GiveUp
  <1>2. ChangeType' /\ change'.at = "idle" /\ change'.done \subseteq TriggerName /\ change'.from \in Nat
    BY <1>1 DEF Quiet0, ChangeType, ChangeRecord
  <1>. QED  BY <1>1, <1>2, NamesType DEF TriggerTypeOK, InRam, Adding, Removed

\* Of a name the request has not to do with, the memory is as promised, and so is what is
\* stored unless storing it has failed.
LEMMA NotNamed ==
  ASSUME KeptInv, NEW n \in TriggerName \ (unsure \union Names)
  PROVE  /\ ~ Adding(n) /\ ~ Removed(n)
         /\ Has(list, n, promise[n])
         /\ n \in unsaved \/ TextStored(n, promise[n])
         /\ n \in unlisted \/ NameStored(n, promise[n])
  <1>1. ~ Adding(n) /\ ~ Removed(n) /\ ~ (change.at = "save" /\ n = Item.name)
    BY DEF Names, Adding, Removed, Item, KeptInv, ChangeType, ChangeRecord
  <1>2. NameKept(n)
    BY DEF KeptInv
  <1>. QED  BY <1>1, <1>2 DEF NameKept, InRam

\* A request that ends on a failure, before it has changed anything.
LEMMA FailureKeeps ==
  ASSUME KeptInv, TriggerTypeOK', GiveUp,
         UNCHANGED <<list, storedList, storedText, promise, unsaved, unlisted>>
  PROVE  KeptInv'
  <1>1. ChangeType' /\ change'.at = "idle" /\ unsure' = unsure \union Names
        /\ \A n : InRam(n)' = promise'[n] /\ ~ Adding(n)' /\ ~ Removed(n)'
    BY GivingUp DEF KeptInv
  <1>2. ASSUME NEW n \in TriggerName \ unsure' PROVE NameKept(n)'
    <2>1. /\ Has(list, n, promise[n])
          /\ n \in unsaved \/ TextStored(n, promise[n])
          /\ n \in unlisted \/ NameStored(n, promise[n])
      BY <1>1, <1>2, NotNamed
    <2>2. InRam(n)' = promise[n]
      BY <1>1
    <2>3. Has(list, n, promise[n])' /\ (n \in unsaved' \/ TextStored(n, promise[n])')
          /\ (n \in unlisted' \/ NameStored(n, promise[n])')
      BY <2>1 DEF Has, TextStored, NameStored, ListsOne
    <2>. QED  BY <1>1, <2>1, <2>2, <2>3 DEF NameKept, TextStored
  <1>. QED  BY <1>1, <1>2 DEF KeptInv

\* Setting a trigger.
LEMMA SetKeeps ==
  ASSUME KeptInv, NEW items \in Lists([name : TriggerName, size : TriggerSize]), SetRequest(items)
  PROVE  KeptInv'
  <1>. DEFINE todo == [i \in 1 .. Len(items) |->
                         [name |-> items[i].name,
                          text |-> [size |-> items[i].size, id |-> triggerRequests + 1]]]
  <1>1. Len(items) \in Nat \ {0} /\ \A i \in 1 .. Len(items) : items[i] \in [name : TriggerName, size : TriggerSize]
    <2>1. PICK k \in 1 .. TriggerItems : items \in [1 .. k -> [name : TriggerName, size : TriggerSize]]
      BY DEF Lists
    <2>2. Len(items) = k /\ k \in Nat \ {0}
      BY <2>1
    <2>. QED  BY <2>1, <2>2
  <1>2. triggerRequests + 1 \in 1 .. TriggerRequests /\ triggerRequests' = triggerRequests + 1
    BY DEF SetRequest, KeptInv, TriggerTypeOK
  <1>3. todo \in Seq(Trigger) /\ todo # <<>>
    <2>1. \A i \in 1 .. Len(items) : todo[i] \in Trigger
      BY <1>1, <1>2 DEF Trigger, Text
    <2>2. todo \in [1 .. Len(items) -> Trigger]
      BY <2>1
    <2>. QED  BY <1>1, <2>2
  <1>4. change.at = "idle" /\ change' = [at |-> "add", todo |-> todo, done |-> {}, from |-> 1]
        /\ UNCHANGED <<list, storedList, storedText, triggerMishaps, promise, unsure, unsaved, unlisted>>
    BY DEF SetRequest, Quiet0
  <1>. HIDE DEF todo
  <1>5. ChangeType' /\ TriggerTypeOK'
    BY <1>2, <1>3, <1>4 DEF ChangeType, ChangeRecord, TriggerTypeOK, KeptInv
  <1>6. ASSUME NEW n \in TriggerName \ unsure' PROVE NameKept(n)'
    BY <1>4, <1>6 DEF KeptInv, NameKept, InRam, Adding, Removed, Has, ListsOne, TextStored, NameStored
  <1>. QED  BY <1>5, <1>6 DEF KeptInv

LEMMA AddReplaceKeeps == KeptInv /\ AddReplace => KeptInv'
  <1>. SUFFICES ASSUME KeptInv, AddReplace PROVE KeptInv'
    OBVIOUS
  <1>. DEFINE m == Item.name
              k == change.from
  <1>1. change.at = "add"
        /\ UNCHANGED <<storedList, triggerRequests, triggerMishaps, promise, unsure, unsaved, unlisted>>
        /\ change' = [change EXCEPT !.at = "save", !.from = 1] /\ k \in Nat \ {0}
        /\ list \in Seq(Trigger) /\ storedText \in [TriggerName -> Text \union {NoText}]
    BY DEF AddReplace, KeptInv, TriggerTypeOK, ChangeType, ChangeRecord
  <1>2. Item \in Trigger /\ m \in TriggerName /\ Item.text # NoText /\ Item' = Item
    BY <1>1, ItemType DEF KeptInv, Item, ChangeType, ChangeRecord
  <1>3. ChangeType' /\ change'.at = "save"
    <2>1. change.todo \in Seq(Trigger) /\ change.todo # <<>> /\ change'.todo = change.todo
      BY <1>1 DEF KeptInv, ChangeType, ChangeRecord
    <2>2. change' = [at |-> "save", todo |-> change.todo, done |-> change.done, from |-> 1]
          /\ change.todo \in Seq(Trigger) \union Seq(TriggerName) /\ change.done \subseteq TriggerName
      <3>1. change \in ChangeRecord
        BY DEF KeptInv, ChangeType
      <3>. QED  BY <1>1, <3>1 DEF ChangeRecord
    <2>3. change' \in ChangeRecord /\ change'.at = "save" /\ change'.from = 1
      BY <2>2 DEF ChangeRecord
    <2>. QED  BY <2>1, <2>3 DEF ChangeType
  <1>4. ASSUME NEW n \in TriggerName \ unsure
        PROVE  /\ ~ Adding(n) /\ ~ Removed(n) /\ InRam(n) = promise[n]
               /\ Has(list, n, promise[n]) /\ (n \in unsaved \/ TextStored(n, promise[n]))
               /\ (n \in unlisted \/ NameStored(n, promise[n])) /\ (n = m => k = 1)
    BY <1>1 DEF KeptInv, NameKept, InRam, Adding, Removed
  <1>5. \E rest \in Seq(Trigger) :
          /\ list' = <<Item>> \o rest
          /\ storedText' \in [TriggerName -> Text \union {NoText}]
          /\ \A n \in TriggerName \ unsure :
               IF n = m THEN Has(rest, m, NoText)
               ELSE Has(rest, n, promise[n]) /\ storedText'[n] = storedText[n]
    <2>1. CASE Places(m, k) = {}
      <3>1. list' = <<Item>> \o list /\ UNCHANGED storedText
        BY <2>1 DEF AddReplace
      <3>2. m \in TriggerName \ unsure => Has(list, m, NoText)
        BY <1>4, <2>1 DEF Places, Has
      <3>. QED  BY <1>1, <1>4, <3>1, <3>2
    <2>2. CASE Places(m, k) # {}
      <3>. DEFINE i == FirstPlace(m, k)
                  rest == RemoveAt(list, i)
      <3>1. list' = <<Item>> \o rest /\ storedText' = [storedText EXCEPT ![m] = NoText]
        BY <2>2 DEF AddReplace
      <3>2. i \in 1 .. Len(list) /\ list[i].name = m
        BY <1>1, <2>2, FirstPlaceIs
      <3>. HIDE DEF i
      <3>3. storedText' \in [TriggerName -> Text \union {NoText}]
            /\ \A n \in TriggerName : n # m => storedText'[n] = storedText[n]
        BY <1>1, <1>2, <3>1
      <3>4. rest \in Seq(Trigger)
        BY <1>1, <3>2, RemovedIs
      <3>5. ASSUME NEW n \in TriggerName \ unsure
            PROVE  Has(rest, n, IF n = m THEN NoText ELSE promise[n])
        BY <1>1, <1>4, <3>2, HasWithout
      <3>. HIDE DEF rest
      <3>. QED  BY <3>1, <3>3, <3>4, <3>5
    <2>. QED  BY <2>1, <2>2
  <1>6. PICK rest \in Seq(Trigger) :
          /\ list' = <<Item>> \o rest
          /\ storedText' \in [TriggerName -> Text \union {NoText}]
          /\ \A n \in TriggerName \ unsure :
               IF n = m THEN Has(rest, m, NoText)
               ELSE Has(rest, n, promise[n]) /\ storedText'[n] = storedText[n]
    BY <1>5
  <1>7. TriggerTypeOK'
    <2>1. list' \in Seq(Trigger)
      BY <1>2, <1>6, HasInFront
    <2>. QED  BY <1>1, <1>3, <1>6, <2>1 DEF KeptInv, TriggerTypeOK, ChangeType, ChangeRecord
  <1>8. ASSUME NEW n \in TriggerName \ unsure' PROVE NameKept(n)'
    <2>1. n \in TriggerName \ unsure
      BY <1>1, <1>8
    <2>2. CASE n = m
      <3>1. Has(list', m, Item.text)
        BY <1>2, <1>6, <2>1, <2>2, HasInFront
      <3>2. InRam(n)' = Item.text /\ Adding(n)' /\ (change.at = "save" /\ n = Item.name)'
        BY <1>2, <1>3, <2>2 DEF InRam, Adding
      <3>. QED  BY <1>3, <2>2, <3>1, <3>2 DEF NameKept, Has
    <2>3. CASE n # m
      <3>1. Has(list', n, promise[n])
        BY <1>2, <1>6, <2>1, <2>3, HasInFront
      <3>2. ~ Adding(n)' /\ ~ Removed(n)' /\ InRam(n)' = promise[n]
        BY <1>1, <1>2, <1>3, <2>3 DEF InRam, Adding, Removed
      <3>3. (n \in unsaved \/ TextStored(n, promise[n])) /\ (n \in unlisted \/ NameStored(n, promise[n]))
            /\ storedText'[n] = storedText[n]
        BY <1>4, <1>6, <2>1, <2>3
      <3>4. n \in unsaved' \/ TextStored(n, promise[n])'
        BY <1>1, <3>3 DEF TextStored
      <3>5. n \in unlisted' \/ NameStored(n, promise[n])'
        BY <1>1, <3>3 DEF NameStored, ListsOne
      <3>. QED  BY <1>1, <1>3, <3>1, <3>2, <3>4, <3>5 DEF NameKept, Has, TextStored
    <2>. QED  BY <2>2, <2>3
  <1>. QED  BY <1>3, <1>7, <1>8 DEF KeptInv

LEMMA AddEraseFailsKeeps == KeptInv /\ AddEraseFails => KeptInv'
  <1>. SUFFICES ASSUME KeptInv, AddEraseFails PROVE KeptInv'
    OBVIOUS
  <1>. DEFINE m == Item.name
              i == FirstPlace(m, change.from)
  <1>1. /\ change.at = "add"
        /\ UNCHANGED <<list, storedList, storedText, triggerRequests, promise, unsaved, unlisted>>
        /\ change' = [change EXCEPT !.from = i + 1] /\ unsure' = unsure \union {m}
        /\ list \in Seq(Trigger) /\ change.from \in Nat \ {0} /\ Places(m, change.from) # {}
    BY DEF AddEraseFails, KeptInv, TriggerTypeOK, ChangeType, ChangeRecord
  <1>2. i \in Nat /\ m \in TriggerName
    BY <1>1, FirstPlaceIs, ItemType DEF KeptInv
  <1>. HIDE DEF i
  <1>3. ChangeType' /\ TriggerTypeOK' /\ change'.at = "add" /\ Item' = Item
    <2>1. ChangeType' /\ change'.at = "add" /\ Item' = Item
      <3>1. change \in ChangeRecord /\ change.todo \in Seq(Trigger) /\ change.todo # <<>>
        BY <1>1 DEF KeptInv, ChangeType
      <3>2. change' = [at |-> "add", todo |-> change.todo, done |-> change.done, from |-> i + 1]
            /\ change.done \subseteq TriggerName
        BY <1>1, <3>1 DEF ChangeRecord
      <3>3. change' \in ChangeRecord
        BY <1>2, <3>1, <3>2 DEF ChangeRecord
      <3>. QED  BY <3>1, <3>2, <3>3 DEF ChangeType, Item
    <2>2. triggerMishaps' \in 0 .. TriggerMishaps
      BY DEF AddEraseFails, TriggerMishap, KeptInv, TriggerTypeOK
    <2>. QED  BY <1>1, <1>2, <2>1, <2>2 DEF KeptInv, TriggerTypeOK, ChangeType, ChangeRecord
  <1>4. ASSUME NEW n \in TriggerName \ unsure' PROVE NameKept(n)'
    <2>1. n \in TriggerName \ unsure /\ n # m
      BY <1>1, <1>4
    <2>2. /\ Has(list, n, promise[n]) /\ (n \in unsaved \/ TextStored(n, promise[n]))
          /\ (n \in unlisted \/ NameStored(n, promise[n]))
      BY <1>1, <2>1 DEF KeptInv, NameKept, InRam, Adding, Removed
    <2>3. ~ Adding(n)' /\ ~ Removed(n)' /\ InRam(n)' = promise[n]
      BY <1>1, <1>3, <2>1 DEF InRam, Adding, Removed
    <2>. QED  BY <1>1, <1>3, <2>1, <2>2, <2>3 DEF NameKept, Has, ListsOne, TextStored, NameStored
  <1>. QED  BY <1>3, <1>4 DEF KeptInv

LEMMA AddSaveKeeps == KeptInv /\ AddSave => KeptInv'
  <1>. SUFFICES ASSUME KeptInv, AddSave PROVE KeptInv'
    OBVIOUS
  <1>. DEFINE m == Item.name
  <1>1. change.at = "save" /\ UNCHANGED <<list, storedList, triggerRequests, promise, unlisted>>
        /\ storedText \in [TriggerName -> Text \union {NoText}] /\ unsaved \subseteq TriggerName
    BY DEF AddSave, KeptInv, TriggerTypeOK
  <1>2. Item \in Trigger /\ m \in TriggerName /\ Item.text \in Text
    BY <1>1, ItemType DEF KeptInv
  <1>3. CASE TriggerMishap /\ GiveUp /\ UNCHANGED <<storedText, unsaved>>
    <2>1. TriggerTypeOK'
      <3>1. triggerMishaps' \in 0 .. TriggerMishaps
        BY <1>3 DEF TriggerMishap, KeptInv, TriggerTypeOK
      <3>2. ChangeType' /\ unsure' \subseteq TriggerName /\ change'.at = "idle"
            /\ change'.done \subseteq TriggerName /\ change'.from \in Nat
        BY <1>3, GivingUp DEF KeptInv
      <3>. QED  BY <1>1, <1>3, <3>1, <3>2 DEF KeptInv, TriggerTypeOK
    <2>. QED  BY <1>1, <1>3, <2>1, FailureKeeps
  <1>4. CASE /\ \/ storedText' = [storedText EXCEPT ![m] = Item.text] /\ unsaved' = unsaved \ {m}
                \/ UNCHANGED storedText /\ unsaved' = unsaved \union {m}
             /\ triggerMishaps' \in 0 .. TriggerMishaps
             /\ change' = [change EXCEPT !.at = "addUpdate"] /\ UNCHANGED unsure
    <2>1. ChangeType' /\ change'.at = "addUpdate" /\ Item' = Item
      <3>1. change.todo \in Seq(Trigger) /\ change.todo # <<>> /\ change'.todo = change.todo
            /\ change'.from = 1
        BY <1>1, <1>4 DEF KeptInv, ChangeType, ChangeRecord
      <3>2. change' \in ChangeRecord /\ change'.at = "addUpdate"
        BY <1>4 DEF KeptInv, ChangeType, ChangeRecord
      <3>. QED  BY <3>1, <3>2 DEF ChangeType, Item
    <2>2. /\ storedText' \in [TriggerName -> Text \union {NoText}] /\ unsaved' \subseteq TriggerName
          /\ m \in unsaved' \/ storedText'[m] = Item.text
          /\ \A n \in TriggerName : n # m => storedText'[n] = storedText[n] /\ (n \in unsaved => n \in unsaved')
      BY <1>1, <1>2, <1>4
    <2>3. TriggerTypeOK'
      <3>1. change'.done \subseteq TriggerName /\ change'.from \in Nat
        BY <2>1 DEF ChangeType, ChangeRecord
      <3>. QED  BY <1>1, <1>4, <2>1, <2>2, <3>1 DEF KeptInv, TriggerTypeOK
    <2>4. ASSUME NEW n \in TriggerName \ unsure' PROVE NameKept(n)'
      <3>1. NameKept(n)
        BY <1>4, <2>4 DEF KeptInv
      <3>2. Adding(n)' = Adding(n) /\ Removed(n)' = Removed(n) /\ InRam(n)' = InRam(n)
        BY <1>1, <2>1 DEF Adding, Removed, InRam
      <3>3. n \in unsaved' \/ TextStored(n, InRam(n))'
        <4>1. CASE n = m
          <5>1. InRam(n) = Item.text
            BY <1>1, <4>1 DEF InRam, Adding
          <5>. QED  BY <2>2, <3>2, <4>1, <5>1 DEF TextStored
        <4>2. CASE n # m
          <5>1. n \in unsaved \/ TextStored(n, InRam(n))
            BY <3>1, <4>2 DEF NameKept
          <5>. QED  BY <2>2, <3>2, <4>2, <5>1 DEF TextStored
        <4>. QED  BY <4>1, <4>2
      <3>4. Adding(n)' \/ Removed(n)' \/ n \in unlisted' \/ NameStored(n, promise[n])'
        <4>1. CASE n = m
          BY <2>1, <4>1 DEF Adding
        <4>2. CASE n # m
          BY <1>1, <2>2, <3>1, <3>2, <4>2 DEF NameKept, NameStored, ListsOne
        <4>. QED  BY <4>1, <4>2
      <3>5. Has(list, n, InRam(n))'
        BY <1>1, <3>1, <3>2 DEF NameKept, Has
      <3>. QED  BY <2>1, <3>3, <3>4, <3>5 DEF NameKept
    <2>. QED  BY <2>1, <2>3, <2>4 DEF KeptInv
  <1>5. TriggerMishap => triggerMishaps' \in 0 .. TriggerMishaps
    BY DEF TriggerMishap, KeptInv, TriggerTypeOK
  <1>6. UNCHANGED triggerMishaps => triggerMishaps' \in 0 .. TriggerMishaps
    BY DEF KeptInv, TriggerTypeOK
  <1>. QED  BY <1>3, <1>4, <1>5, <1>6 DEF AddSave

\* Of each name that is not given up, the list in the RAM is what the texts stored say,
\* but for the texts that were not stored: so is the list stored after it.
LEMMA StoringKeeps ==
  ASSUME KeptInv, change.at # "save", NEW n \in TriggerName \ unsure
  PROVE  /\ Has(list, n, InRam(n)) /\ (n \in unsaved \/ TextStored(n, InRam(n)))
         /\ ListsOne(StoredForm(list), n, InRam(n))
  <1>1. Has(list, n, InRam(n)) /\ (n \in unsaved \/ TextStored(n, InRam(n))) /\ list \in Seq(Trigger)
    BY DEF KeptInv, NameKept, TriggerTypeOK
  <1>. QED  BY <1>1, StoredIsListed

LEMMA AddUpdateKeeps == KeptInv /\ AddUpdate => KeptInv'
  <1>. SUFFICES ASSUME KeptInv, AddUpdate PROVE KeptInv'
    OBVIOUS
  <1>. DEFINE m == Item.name
  <1>1. change.at = "addUpdate" /\ UNCHANGED <<list, storedText, triggerRequests, unsaved>>
        /\ promise \in [TriggerName -> Text \union {NoText}] /\ list \in Seq(Trigger)
        /\ storedList \in Seq([name : TriggerName, size : TriggerSize]) /\ unlisted \subseteq TriggerName
    BY DEF AddUpdate, KeptInv, TriggerTypeOK
  <1>2. Item \in Trigger /\ m \in TriggerName /\ Item.text \in Text
        /\ change.todo \in Seq(Trigger) /\ Len(change.todo) \in Nat \ {0}
    BY <1>1, ItemType DEF KeptInv
  <1>3. CASE TriggerMishap /\ GiveUp /\ UNCHANGED <<storedList, promise, unlisted>>
    <2>1. TriggerTypeOK'
      <3>1. triggerMishaps' \in 0 .. TriggerMishaps
        BY <1>3 DEF TriggerMishap, KeptInv, TriggerTypeOK
      <3>2. ChangeType' /\ unsure' \subseteq TriggerName /\ change'.at = "idle"
            /\ change'.done \subseteq TriggerName /\ change'.from \in Nat
        BY <1>3, GivingUp DEF KeptInv
      <3>. QED  BY <1>1, <1>3, <3>1, <3>2 DEF KeptInv, TriggerTypeOK
    <2>. QED  BY <1>1, <1>3, <2>1, FailureKeeps
  <1>4. CASE /\ \/ storedList' = StoredForm(list) /\ unlisted' = {}
                \/ UNCHANGED storedList /\ unlisted' = unlisted \union {m}
             /\ Added /\ triggerMishaps' \in 0 .. TriggerMishaps
    <2>0. /\ promise' = [promise EXCEPT ![m] = Item.text] /\ UNCHANGED unsure
          /\ change' = IF Len(change.todo) = 1 THEN Quiet0
                       ELSE [change EXCEPT !.at = "add", !.todo = Tail(@)]
      BY <1>4 DEF Added
    <2>1. /\ ChangeType' /\ change'.at \in {"idle", "add"}
          /\ (change'.at = "add" => change'.from = change.from)
      <3>1. CASE Len(change.todo) = 1
        BY <2>0, <3>1 DEF ChangeType, ChangeRecord, Quiet0
      <3>2. CASE Len(change.todo) # 1
        <4>1. Tail(change.todo) \in Seq(Trigger) /\ Tail(change.todo) # <<>>
          <5>1. Tail(change.todo) \in Seq(Trigger) /\ Len(Tail(change.todo)) = Len(change.todo) - 1
            BY <1>2
          <5>2. Len(Tail(change.todo)) # 0
            BY <1>2, <3>2, <5>1
          <5>3. Len(<<>>) = 0
            OBVIOUS
          <5>. QED  BY <5>1, <5>2, <5>3
        <4>2. change' = [change EXCEPT !.at = "add", !.todo = Tail(change.todo)]
          BY <2>0, <3>2
        <4>. HIDE DEF m
        <4>3. change' \in ChangeRecord /\ change'.at = "add" /\ change'.todo = Tail(change.todo)
              /\ change'.from = change.from
          BY <4>1, <4>2 DEF KeptInv, ChangeType, ChangeRecord
        <4>. QED  BY <4>1, <4>3 DEF ChangeType
      <3>. QED  BY <3>1, <3>2
    <2>2. TriggerTypeOK'
      <3>1. change'.done \subseteq TriggerName /\ change'.from \in Nat
        BY <2>1 DEF ChangeType, ChangeRecord
      <3>2. promise' \in [TriggerName -> Text \union {NoText}]
        BY <1>1, <1>2, <2>0
      <3>3. storedList' \in Seq([name : TriggerName, size : TriggerSize]) /\ unlisted' \subseteq TriggerName
        BY <1>1, <1>2, <1>4, StoredIsListed
      <3>. QED  BY <1>1, <1>4, <2>0, <2>1, <3>1, <3>2, <3>3 DEF KeptInv, TriggerTypeOK
    <2>3. ASSUME NEW n \in TriggerName \ unsure' PROVE NameKept(n)'
      <3>1. /\ Has(list, n, InRam(n)) /\ (n \in unsaved \/ TextStored(n, InRam(n)))
            /\ ListsOne(StoredForm(list), n, InRam(n))
        BY <1>1, <2>0, <2>3, StoringKeeps
      <3>2. ~ Adding(n)' /\ ~ Removed(n)' /\ InRam(n)' = promise'[n]
        BY <2>1 DEF Adding, Removed, InRam
      <3>3. promise'[n] = InRam(n) /\ (n # m => promise'[n] = promise[n])
        BY <1>1, <1>2, <2>0 DEF InRam, Adding, Removed
      <3>4. change'.at = "add" => change'.from = 1
        BY <1>1, <2>1 DEF KeptInv, ChangeType
      <3>5. n \in unlisted' \/ NameStored(n, promise[n])'
        <4>1. CASE storedList' = StoredForm(list)
          <5>1. ListsOne(storedList', n, promise'[n])
            BY <3>1, <3>3, <4>1
          <5>. QED  BY <5>1 DEF NameStored, ListsOne
        <4>2. CASE UNCHANGED storedList /\ unlisted' = unlisted \union {m} /\ n # m
          <5>1. n \in unlisted \/ NameStored(n, promise[n])
            BY <1>1, <2>0, <2>3, <4>2 DEF KeptInv, NameKept, Adding, Removed
          <5>. QED  BY <1>1, <3>3, <4>2, <5>1 DEF NameStored, ListsOne
        <4>. QED  BY <1>4, <4>1, <4>2
      <3>6. n \in unsaved' \/ TextStored(n, InRam(n))'
        BY <1>1, <3>1, <3>2, <3>3 DEF TextStored
      <3>7. Has(list, n, InRam(n))'
        BY <1>1, <3>1, <3>2, <3>3 DEF Has
      <3>. QED  BY <2>1, <3>4, <3>5, <3>6, <3>7 DEF NameKept
    <2>. QED  BY <2>1, <2>2, <2>3 DEF KeptInv
  <1>5. TriggerMishap => triggerMishaps' \in 0 .. TriggerMishaps
    BY DEF TriggerMishap, KeptInv, TriggerTypeOK
  <1>6. UNCHANGED triggerMishaps => triggerMishaps' \in 0 .. TriggerMishaps
    BY DEF KeptInv, TriggerTypeOK
  <1>. QED  BY <1>3, <1>4, <1>5, <1>6 DEF AddUpdate

LEMMA RemoveRequestKeeps ==
  ASSUME KeptInv, NEW names \in Lists(TriggerName), RemoveRequest(names)
  PROVE  KeptInv'
  <1>1. names \in Seq(TriggerName)
    <2>1. PICK k \in 1 .. TriggerItems : names \in [1 .. k -> TriggerName]
      BY DEF Lists
    <2>2. k \in Nat
      OBVIOUS
    <2>. QED  BY <2>1, <2>2
  <1>2. triggerRequests' \in 0 .. TriggerRequests
    BY DEF RemoveRequest, KeptInv, TriggerTypeOK
  <1>3. change.at = "idle" /\ change' = [at |-> "remove", todo |-> names, done |-> {}, from |-> 1]
        /\ UNCHANGED <<list, storedList, storedText, triggerMishaps, promise, unsure, unsaved, unlisted>>
    BY DEF RemoveRequest, Quiet0
  <1>4. ChangeType' /\ TriggerTypeOK'
    BY <1>1, <1>2, <1>3 DEF ChangeType, ChangeRecord, TriggerTypeOK, KeptInv
  <1>5. ASSUME NEW n \in TriggerName \ unsure' PROVE NameKept(n)'
    BY <1>3, <1>5 DEF KeptInv, NameKept, InRam, Adding, Removed, Has, ListsOne, TextStored, NameStored
  <1>. QED  BY <1>4, <1>5 DEF KeptInv

LEMMA RemoveOneKeeps == KeptInv /\ RemoveOne => KeptInv'
  <1>. SUFFICES ASSUME KeptInv, RemoveOne PROVE KeptInv'
    OBVIOUS
  <1>. DEFINE m == change.todo[1]
  <1>1. change.at = "remove" /\ change.todo # <<>>
        /\ UNCHANGED <<storedList, triggerRequests, promise, unlisted>>
        /\ storedText \in [TriggerName -> Text \union {NoText}] /\ list \in Seq(Trigger)
        /\ unsaved \subseteq TriggerName
    BY DEF RemoveOne, KeptInv, TriggerTypeOK
  <1>2. change.todo \in Seq(TriggerName) /\ m \in TriggerName /\ Tail(change.todo) \in Seq(TriggerName)
    <2>1. change.todo \in Seq(TriggerName)
      BY <1>1 DEF KeptInv, ChangeType
    <2>. QED  BY <1>1, <2>1
  <1>3. CASE TriggerMishap /\ GiveUp /\ UNCHANGED <<list, storedText, unsaved>>
    <2>1. TriggerTypeOK'
      <3>1. triggerMishaps' \in 0 .. TriggerMishaps
        BY <1>3 DEF TriggerMishap, KeptInv, TriggerTypeOK
      <3>2. ChangeType' /\ unsure' \subseteq TriggerName /\ change'.at = "idle"
            /\ change'.done \subseteq TriggerName /\ change'.from \in Nat
        BY <1>3, GivingUp DEF KeptInv
      <3>. QED  BY <1>1, <1>3, <3>1, <3>2 DEF KeptInv, TriggerTypeOK
    <2>. QED  BY <1>1, <1>3, <2>1, FailureKeeps
  <1>4. CASE /\ IF Places(m, 1) = {} THEN UNCHANGED <<list, storedText>>
                ELSE /\ list' = RemoveAt(list, FirstPlace(m, 1))
                     /\ \/ storedText' = [storedText EXCEPT ![m] = NoText]
                        \/ UNCHANGED storedText
             /\ change' = [change EXCEPT !.todo = Tail(@), !.done = @ \union {m}]
             /\ unsaved' = unsaved \ {m} /\ UNCHANGED unsure
             /\ triggerMishaps' \in 0 .. TriggerMishaps
    <2>1. ChangeType' /\ change'.at = "remove" /\ change'.done = change.done \union {m}
      <3>1. change \in ChangeRecord
        BY DEF KeptInv, ChangeType
      <3>2. change' = [at |-> "remove", todo |-> Tail(change.todo), done |-> change.done \union {m},
                       from |-> change.from]
            /\ change.done \subseteq TriggerName /\ change.from \in Nat \ {0}
        BY <1>1, <1>4, <3>1 DEF ChangeRecord
      <3>. HIDE DEF m
      <3>3. change' \in ChangeRecord
        BY <1>2, <3>2 DEF ChangeRecord
      <3>. QED  BY <1>2, <3>2, <3>3 DEF ChangeType
    <2>2. /\ list' \in Seq(Trigger) /\ storedText' \in [TriggerName -> Text \union {NoText}]
          /\ \A k \in TriggerName : k # m => storedText'[k] = storedText[k]
          /\ m \notin unsure => Has(list', m, NoText)
          /\ \A k \in TriggerName \ unsure : k # m => Has(list', k, InRam(k))
      <3>0. ASSUME NEW n \in TriggerName \ unsure PROVE Has(list, n, InRam(n))
        BY <1>1, StoringKeeps
      <3>1. CASE Places(m, 1) = {}
        <4>1. UNCHANGED <<list, storedText>> /\ \A i \in 1 .. Len(list) : list[i].name # m
          BY <1>4, <3>1 DEF Places
        <4>2. m \notin unsure => InRam(m) = NoText
          BY <1>2, <3>0, <4>1 DEF Has
        <4>. QED  BY <1>1, <1>2, <3>0, <4>1, <4>2
      <3>2. CASE Places(m, 1) # {}
        <4>. DEFINE i == FirstPlace(m, 1)
        <4>1. list' = RemoveAt(list, i)
              /\ (storedText' = [storedText EXCEPT ![m] = NoText] \/ storedText' = storedText)
          BY <1>4, <3>2
        <4>2. i \in 1 .. Len(list) /\ list[i].name = m
          BY <1>1, <3>2, FirstPlaceIs
        <4>. HIDE DEF i, m
        <4>3. list' \in Seq(Trigger)
          BY <1>1, <4>1, <4>2, RemovedIs
        <4>4. ASSUME NEW n \in TriggerName \ unsure
              PROVE  Has(list', n, IF n = m THEN NoText ELSE InRam(n))
          BY <1>1, <3>0, <4>1, <4>2, HasWithout
        <4>5. storedText' \in [TriggerName -> Text \union {NoText}]
              /\ \A n \in TriggerName : n # m => storedText'[n] = storedText[n]
          BY <1>1, <4>1
        <4>6. /\ m \notin unsure => Has(list', m, NoText)
              /\ \A k \in TriggerName \ unsure : k # m => Has(list', k, InRam(k))
          <5>1. m \in TriggerName
            BY <1>2 DEF m
          <5>. QED  BY <4>4, <5>1
        <4>. QED  BY <4>3, <4>5, <4>6
      <3>. QED  BY <3>1, <3>2
    <2>3. TriggerTypeOK'
      <3>1. change'.done \subseteq TriggerName /\ change'.from \in Nat
        BY <2>1 DEF ChangeType, ChangeRecord
      <3>. QED  BY <1>1, <1>4, <2>1, <2>2, <3>1 DEF KeptInv, TriggerTypeOK
    <2>4. ASSUME NEW n \in TriggerName \ unsure' PROVE NameKept(n)'
      <3>0. n \in TriggerName \ unsure /\ NameKept(n)
        BY <1>4, <2>4 DEF KeptInv
      <3>1. InRam(n)' = IF n = m THEN NoText ELSE InRam(n)
        BY <1>1, <2>1 DEF InRam, Adding, Removed
      <3>2. Has(list, n, InRam(n))'
        <4>1. Has(list', n, InRam(n)')
          <5>1. CASE n = m
            BY <2>2, <3>0, <3>1, <5>1
          <5>2. CASE n # m
            BY <2>2, <3>0, <3>1, <5>2
          <5>. QED  BY <5>1, <5>2
        <4>. QED  BY <4>1 DEF Has
      <3>3. n \in unsaved' \/ TextStored(n, InRam(n))'
        <4>1. CASE n = m
          BY <3>1, <4>1 DEF TextStored
        <4>2. CASE n # m
          BY <1>1, <1>4, <2>2, <3>0, <3>1, <4>2 DEF NameKept, TextStored
        <4>. QED  BY <4>1, <4>2
      <3>4. Removed(n)' \/ n \in unlisted' \/ NameStored(n, promise[n])'
        <4>1. CASE n \in change'.done
          BY <2>1, <4>1 DEF Removed
        <4>2. CASE n \notin change'.done
          <5>1. n # m /\ (n \in unlisted \/ NameStored(n, promise[n]))
            BY <1>1, <2>1, <3>0, <4>2 DEF NameKept, Adding, Removed
          <5>. QED  BY <1>1, <2>2, <3>0, <5>1 DEF NameStored, ListsOne
        <4>. QED  BY <4>1, <4>2
      <3>. QED  BY <2>1, <3>2, <3>3, <3>4 DEF NameKept
    <2>. QED  BY <2>1, <2>3, <2>4 DEF KeptInv
  <1>5. TriggerMishap => triggerMishaps' \in 0 .. TriggerMishaps
    BY DEF TriggerMishap, KeptInv, TriggerTypeOK
  <1>6. UNCHANGED triggerMishaps => triggerMishaps' \in 0 .. TriggerMishaps
    BY DEF KeptInv, TriggerTypeOK
  <1>. QED  BY <1>3, <1>4, <1>5, <1>6 DEF RemoveOne

LEMMA RemoveUpdateKeeps == KeptInv /\ RemoveUpdate => KeptInv'
  <1>. SUFFICES ASSUME KeptInv, RemoveUpdate PROVE KeptInv'
    OBVIOUS
  <1>1. change.at = "remove" /\ UNCHANGED <<list, storedText, triggerRequests, unsaved>>
        /\ promise \in [TriggerName -> Text \union {NoText}] /\ list \in Seq(Trigger)
        /\ storedList \in Seq([name : TriggerName, size : TriggerSize]) /\ unlisted \subseteq TriggerName
        /\ change.done \subseteq TriggerName
    BY DEF RemoveUpdate, KeptInv, TriggerTypeOK
  <1>2. CASE TriggerMishap /\ GiveUp /\ UNCHANGED <<storedList, promise, unlisted>>
    <2>1. TriggerTypeOK'
      <3>1. triggerMishaps' \in 0 .. TriggerMishaps
        BY <1>2 DEF TriggerMishap, KeptInv, TriggerTypeOK
      <3>2. ChangeType' /\ unsure' \subseteq TriggerName /\ change'.at = "idle"
            /\ change'.done \subseteq TriggerName /\ change'.from \in Nat
        BY <1>2, GivingUp DEF KeptInv
      <3>. QED  BY <1>1, <1>2, <3>1, <3>2 DEF KeptInv, TriggerTypeOK
    <2>. QED  BY <1>1, <1>2, <2>1, FailureKeeps
  <1>3. CASE /\ \/ storedList' = StoredForm(list) /\ unlisted' = {}
                \/ /\ UNCHANGED storedList
                   /\ unlisted' = unlisted \union {n \in change.done : storedText[n] # NoText}
             /\ AllRemoved /\ triggerMishaps' \in 0 .. TriggerMishaps
    <2>0. /\ promise' = [n \in TriggerName |-> IF n \in change.done THEN NoText ELSE promise[n]]
          /\ change' = Quiet0 /\ UNCHANGED unsure
      BY <1>3 DEF AllRemoved
    <2>1. ChangeType' /\ change'.at = "idle" /\ change'.done = {} /\ change'.from = 1
      BY <2>0 DEF ChangeType, ChangeRecord, Quiet0
    <2>2. TriggerTypeOK'
      <3>1. promise' \in [TriggerName -> Text \union {NoText}]
        BY <1>1, <2>0
      <3>2. storedList' \in Seq([name : TriggerName, size : TriggerSize]) /\ unlisted' \subseteq TriggerName
        BY <1>1, <1>3, StoredIsListed
      <3>. QED  BY <1>1, <1>3, <2>0, <2>1, <3>1, <3>2 DEF KeptInv, TriggerTypeOK
    <2>3. ASSUME NEW n \in TriggerName \ unsure' PROVE NameKept(n)'
      <3>1. /\ Has(list, n, InRam(n)) /\ (n \in unsaved \/ TextStored(n, InRam(n)))
            /\ ListsOne(StoredForm(list), n, InRam(n))
        BY <1>1, <2>0, <2>3, StoringKeeps
      <3>2. ~ Adding(n)' /\ ~ Removed(n)' /\ InRam(n)' = promise'[n]
        BY <2>1 DEF Adding, Removed, InRam
      <3>3. promise'[n] = InRam(n) /\ promise'[n] = IF n \in change.done THEN NoText ELSE promise[n]
        BY <1>1, <2>0 DEF InRam, Adding, Removed
      <3>4. n \in unlisted' \/ NameStored(n, promise[n])'
        <4>1. CASE storedList' = StoredForm(list)
          <5>1. ListsOne(storedList', n, promise'[n])
            BY <3>1, <3>3, <4>1
          <5>. QED  BY <5>1 DEF NameStored, ListsOne
        <4>2. CASE /\ UNCHANGED storedList
                   /\ unlisted' = unlisted \union {k \in change.done : storedText[k] # NoText}
          <5>1. CASE n \in change.done
            BY <1>1, <3>3, <4>2, <5>1 DEF NameStored
          <5>2. CASE n \notin change.done
            <6>1. n \in unlisted \/ NameStored(n, promise[n])
              BY <1>1, <2>0, <2>3, <5>2 DEF KeptInv, NameKept, Adding, Removed
            <6>. QED  BY <1>1, <3>3, <4>2, <5>2, <6>1 DEF NameStored, ListsOne
          <5>. QED  BY <5>1, <5>2
        <4>. QED  BY <1>3, <4>1, <4>2
      <3>5. n \in unsaved' \/ TextStored(n, InRam(n))'
        BY <1>1, <3>1, <3>2, <3>3 DEF TextStored
      <3>6. Has(list, n, InRam(n))'
        BY <1>1, <3>1, <3>2, <3>3 DEF Has
      <3>. QED  BY <2>1, <3>4, <3>5, <3>6 DEF NameKept
    <2>. QED  BY <2>1, <2>2, <2>3 DEF KeptInv
  <1>4. TriggerMishap => triggerMishaps' \in 0 .. TriggerMishaps
    BY DEF TriggerMishap, KeptInv, TriggerTypeOK
  <1>5. UNCHANGED triggerMishaps => triggerMishaps' \in 0 .. TriggerMishaps
    BY DEF KeptInv, TriggerTypeOK
  <1>. QED  BY <1>2, <1>3, <1>4, <1>5 DEF RemoveUpdate

LEMMA TriggerResetKeeps == KeptInv /\ TriggerReset => KeptInv'
  <1>. SUFFICES ASSUME KeptInv, TriggerReset PROVE KeptInv'
    OBVIOUS
  <1>1. list' = AfterInit /\ change' = Quiet0 /\ unsure' = unsure \union Names \union unsaved \union unlisted
        /\ unsaved' = {} /\ unlisted' = {}
        /\ UNCHANGED <<storedList, storedText, triggerRequests, promise>>
    BY DEF TriggerReset
  <1>2. ChangeType' /\ change'.at = "idle" /\ change'.done \subseteq TriggerName /\ change'.from \in Nat
        /\ \A n : InRam(n)' = promise'[n] /\ ~ Adding(n)' /\ ~ Removed(n)'
    BY <1>1 DEF Quiet0, ChangeType, ChangeRecord, InRam, Adding, Removed
  <1>3. TriggerTypeOK'
    <2>1. triggerMishaps' \in 0 .. TriggerMishaps
      BY DEF TriggerReset, TriggerMishap, KeptInv, TriggerTypeOK
    <2>2. list' \in Seq(Trigger)
      BY <1>1, InitFinds DEF KeptInv
    <2>3. unsure' \subseteq TriggerName
      BY <1>1, NamesType DEF KeptInv, TriggerTypeOK
    <2>. QED  BY <1>1, <1>2, <2>1, <2>2, <2>3 DEF KeptInv, TriggerTypeOK
  <1>4. ASSUME NEW n \in TriggerName \ unsure' PROVE NameKept(n)'
    <2>0. n \in TriggerName \ (unsure \union Names) /\ n \notin unsaved /\ n \notin unlisted
          /\ promise[n] \in Text \union {NoText}
      BY <1>1, <1>4 DEF KeptInv, TriggerTypeOK
    <2>1. TextStored(n, promise[n]) /\ NameStored(n, promise[n])
      BY <2>0, NotNamed
    <2>2. Has(list', n, promise[n])
      BY <1>1, <2>0, <2>1, InitFinds DEF KeptInv
    <2>. QED  BY <1>1, <1>2, <2>1, <2>2 DEF NameKept, Has, ListsOne, TextStored, NameStored
  <1>. QED  BY <1>2, <1>3, <1>4 DEF KeptInv

LEMMA KeptStep == KeptInv /\ [TriggerNext]_triggerVars => KeptInv'
  <1>. SUFFICES ASSUME KeptInv, [TriggerNext]_triggerVars PROVE KeptInv'
    OBVIOUS
  <1>1. CASE UNCHANGED triggerVars
    BY <1>1 DEF triggerVars, KeptInv, TriggerTypeOK, ChangeType, NameKept, InRam, Adding, Removed,
                Has, ListsOne, Item, TextStored, NameStored
  <1>. QED
    BY <1>1, SetKeeps, RemoveRequestKeeps, AddReplaceKeeps, AddEraseFailsKeeps, AddSaveKeeps, AddUpdateKeeps,
       RemoveOneKeeps, RemoveUpdateKeeps, TriggerResetKeeps DEF TriggerNext

LEMMA TriggerInvariant == TriggerSpec => []KeptInv
  BY KeptInit, KeptStep, PTL DEF TriggerSpec

\* The list, what is stored and what was promised have their types.
THEOREM TriggerTypeCorrect == TriggerSpec => []TriggerTypeOK
  <1>1. KeptInv => TriggerTypeOK
    BY DEF KeptInv
  <1>. QED  BY <1>1, TriggerInvariant, PTL

\* What a list has of a name, in the words of the property.
LEMMA HasIsTexts ==
  ASSUME NEW l, NEW n, NEW text, Has(l, n, text)
  PROVE  Once(l, n) /\ TextsOf(l, n) = IF text = NoText THEN {} ELSE {text}
  BY DEF Has, Once, TextsOf

\* Whatever the requests before and their failures, and however often the device is reset,
\* a trigger whose own request was neither interrupted nor failed is in the list once, with
\* its last text, or is not when it was removed; and so it is after a reset now, unless a
\* call that stores its text or its name has failed unnoticed; for any number of names,
\* texts, requests, resets and failing calls.
THEOREM TriggersStay == TriggerSpec => []TriggersAreKept
  <1>1. KeptInv => TriggersAreKept
    <2>. SUFFICES ASSUME KeptInv, NEW n \in TriggerName \ (unsure \union Names)
                  PROVE  /\ TextsOf(list, n) = Kept(n) /\ Once(list, n)
                         /\ n \notin unsaved \union unlisted =>
                              TextsOf(AfterInit, n) = Kept(n) /\ Once(AfterInit, n)
      BY DEF TriggersAreKept
    <2>1. /\ Has(list, n, promise[n])
          /\ n \in unsaved \/ TextStored(n, promise[n])
          /\ n \in unlisted \/ NameStored(n, promise[n])
      BY NotNamed
    <2>2. promise[n] \in Text \union {NoText}
      BY DEF KeptInv, TriggerTypeOK
    <2>3. n \notin unsaved \union unlisted => Has(AfterInit, n, promise[n])
      BY <2>1, <2>2, InitFinds DEF KeptInv
    <2>. QED  BY <2>1, <2>3, HasIsTexts DEF Kept
  <1>. QED  BY <1>1, TriggerInvariant, PTL

HIDE DEF TriggerAssumption

-----------------------------------------------------------------------------
(* The types of the event loop and of the count of restarts                *)

LEMMA TailIs ==
  ASSUME NEW S, NEW s \in Seq(S), s # <<>>
  PROVE  /\ Tail(s) \in Seq(S) /\ Len(Tail(s)) = Len(s) - 1 /\ Len(s) \in Nat /\ Head(s) \in S
         /\ Head(s) = s[1]
  OBVIOUS

LEMMA AppendIs ==
  ASSUME NEW S, NEW s \in Seq(S), NEW e \in S
  PROVE  Append(s, e) \in Seq(S) /\ Len(Append(s, e)) = Len(s) + 1 /\ Len(s) \in Nat
  OBVIOUS

\* No count exceeds the boots, and one that is about to be written is of one boot more.
TimerAndImage == eraseTimer \in BOOLEAN /\ image \in Image \union {<<>>}
CheckInv ==
  /\ bootAt \in {"off", "count", "erase", "fallback", "run"} /\ reason \in {"cold", "restart"}
  /\ boots \in 0 .. Boots /\ nvsFailures \in 0 .. NvsFailures
  /\ restartCount \in 0 .. boots /\ inARow \in 0 .. boots
  /\ bootAt = "count" => restartCount < boots
  /\ TimerAndImage

LEMMA CheckNumbers == Boots \in Nat /\ NvsFailures \in Nat
  BY CheckAssumption DEF CheckAssumption

LEMMA CheckInvInit == CheckInit => CheckInv
  <1>1. CheckInit => TimerAndImage
    BY DEF CheckInit, TimerAndImage
  <1>. QED  BY <1>1, CheckNumbers DEF CheckInit, CheckInv

LEMMA CheckInvStep == CheckInv /\ [CheckNext]_checkVars => CheckInv'
  <1>. SUFFICES ASSUME CheckInv, [CheckNext]_checkVars PROVE CheckInv'
    OBVIOUS
  <1>0. TimerAndImage'
    <2>. USE DEF CheckInv, TimerAndImage
    <2>1. ASSUME NEW why \in {"cold", "restart"}, CheckBoot(why) PROVE TimerAndImage'
      BY <2>1 DEF CheckBoot
    <2>2. CASE CheckReset \/ RestartSave \/ RestartSaveFails \/ RestartErase \/ EraseTimerExpires
      BY <2>2, Zenon DEF CheckReset, RestartSave, RestartSaveFails, RestartErase, EraseTimerExpires
    <2>3. ASSUME NEW img \in Image, VersionFallback(img) PROVE TimerAndImage'
      BY <2>3, Zenon DEF VersionFallback
    <2>4. CASE UNCHANGED checkVars
      BY <2>4 DEF checkVars
    <2>. QED  BY <2>1, <2>2, <2>3, <2>4 DEF CheckNext
  <1>. USE CheckNumbers, <1>0 DEF CheckInv
  <1>1. ASSUME NEW why \in {"cold", "restart"}, CheckBoot(why) PROVE CheckInv'
    BY <1>1 DEF CheckBoot
  <1>2. CASE CheckReset
    BY <1>2 DEF CheckReset
  <1>3. CASE RestartSave
    BY <1>3 DEF RestartSave, Counted, NvsFails
  <1>4. CASE RestartSaveFails
    BY <1>4 DEF RestartSaveFails, Counted, NvsFails
  <1>5. CASE RestartErase
    BY <1>5 DEF RestartErase, NvsFails
  <1>6. CASE EraseTimerExpires
    BY <1>6 DEF EraseTimerExpires, CountErased, NvsFails
  <1>7. ASSUME NEW img \in Image, VersionFallback(img) PROVE CheckInv'
    BY <1>7 DEF VersionFallback, NvsFails
  <1>8. CASE UNCHANGED checkVars
    BY <1>8 DEF checkVars
  <1>. QED
    BY <1>1, <1>2, <1>3, <1>4, <1>5, <1>6, <1>7, <1>8 DEF CheckNext

LEMMA CheckTypes == CheckInv => CheckTypeOK
  BY CheckNumbers DEF CheckInv, CheckTypeOK, TimerAndImage

LEMMA LostType ==
  ASSUME EventLoopTypeOK, NEW q,
         NEW how \in {"new", "not started", "started", "running", "expired",
                      "queued", "dropped", "received"}
  PROVE  Lost(q, how) \in [DelayedEvent -> {"new", "not started", "started", "running", "expired",
                                            "queued", "dropped", "received"}]
  BY DEF Lost, EventLoopTypeOK

LEMMA EventNumbers == EventRoom \in Nat \ {0} /\ TimerRoom \in Nat \ {0} /\ Delays \in Nat
  BY EventAssumption DEF EventAssumption

LEMMA QueueLengths ==
  ASSUME EventLoopTypeOK
  PROVE  /\ eventQueue \in Seq(0 .. Delays) /\ Len(eventQueue) \in Nat /\ Len(eventQueue) <= EventRoom
         /\ commands \in Seq(0 .. Delays) /\ Len(commands) \in Nat /\ Len(commands) <= TimerRoom
  <1>1. /\ eventQueue \in Seq(0 .. Delays) /\ Len(eventQueue) <= EventRoom
        /\ commands \in Seq(0 .. Delays) /\ Len(commands) <= TimerRoom
    BY DEF EventLoopTypeOK
  <1>2. Len(eventQueue) \in Nat /\ Len(commands) \in Nat
    BY <1>1, LenProperties
  <1>. QED  BY <1>1, <1>2

LEMMA TailFits ==
  ASSUME EventLoopTypeOK, eventQueue # <<>>
  PROVE  Tail(eventQueue) \in Seq(0 .. Delays) /\ Len(Tail(eventQueue)) <= EventRoom
  BY QueueLengths, EventNumbers, TailIs

LEMMA FrontTaken ==
  ASSUME EventLoopTypeOK
  PROVE  PutInFront \in Seq(0 .. Delays) /\ Len(PutInFront) <= EventRoom
  BY TailFits, QueueLengths DEF PutInFront

LEMMA EventFits ==
  ASSUME EventLoopTypeOK, ~ QueueIsFull, NEW e \in 0 .. Delays
  PROVE  Append(eventQueue, e) \in Seq(0 .. Delays) /\ Len(Append(eventQueue, e)) <= EventRoom
  <1>1. Len(eventQueue) + 1 <= EventRoom
    BY QueueLengths, EventNumbers DEF QueueIsFull
  <1>. QED  BY <1>1, QueueLengths, AppendIs

LEMMA CommandFits ==
  ASSUME EventLoopTypeOK, Len(commands) < TimerRoom, NEW e \in 0 .. Delays
  PROVE  Append(commands, e) \in Seq(0 .. Delays) /\ Len(Append(commands, e)) <= TimerRoom
  <1>1. Len(commands) + 1 <= TimerRoom
    BY QueueLengths, EventNumbers
  <1>. QED  BY <1>1, QueueLengths, AppendIs

LEMMA EventTypesInit == EventLoopInit => EventLoopTypeOK
  <1>1. <<>> \in Seq(0 .. Delays) /\ Len(<<>>) = 0
    OBVIOUS
  <1>2. IdleDaemon \in [at : {"idle", "drop", "put", "stop", "delete"}, id : 0 .. Delays]
    BY EventNumbers DEF IdleDaemon
  <1>3. EventLoopInit => /\ eventQueue \in Seq(0 .. Delays) /\ Len(eventQueue) <= EventRoom
                         /\ commands \in Seq(0 .. Delays) /\ Len(commands) <= TimerRoom
    BY <1>1, EventNumbers DEF EventLoopInit
  <1>. QED  BY <1>2, <1>3 DEF EventLoopInit, EventLoopTypeOK

LEMMA SenderKeepsTypes ==
  ASSUME EventLoopTypeOK, NEW s \in Sender, SendCall(s) \/ SendStep(s)
  PROVE  EventLoopTypeOK'
  <1>1. CASE SendCall(s)
    BY <1>1 DEF SendCall, EventLoopTypeOK
  <1>2. CASE SendCheck(s)
    BY <1>2 DEF SendCheck, EventLoopTypeOK
  <1>3. CASE SendDrop(s)
    BY <1>3, FrontTaken, LostType DEF SendDrop, EventLoopTypeOK
  <1>4. CASE SendPut(s)
    <2>1. 0 \in 0 .. Delays
      BY EventNumbers
    <2>2. eventQueue' \in Seq(0 .. Delays) /\ Len(eventQueue') <= EventRoom
      BY <1>4, <2>1, EventFits DEF SendPut
    <2>. QED  BY <1>4, <2>2 DEF SendPut, EventLoopTypeOK
  <1>. QED  BY <1>1, <1>2, <1>3, <1>4 DEF SendStep

LEMMA LoopKeepsTypes ==
  ASSUME EventLoopTypeOK,
         \/ LoopReceive \/ HandlerReturns \/ (\E set \in BOOLEAN : LoopSet(set))
         \/ LoopInit \/ LoopDeinit
  PROVE  EventLoopTypeOK'
  <1>0. <<>> \in Seq(0 .. Delays) /\ Len(<<>>) <= EventRoom
    BY EventNumbers
  <1>1. CASE LoopReceive
    <2>1. eventQueue' \in Seq(0 .. Delays) /\ Len(eventQueue') <= EventRoom
      BY <1>1, TailFits DEF LoopReceive
    <2>. QED  BY <1>1, <2>1, LostType DEF LoopReceive, EventLoopTypeOK
  <1>2. CASE HandlerReturns
    BY <1>2 DEF HandlerReturns, AfterHandler, EventLoopTypeOK
  <1>3. ASSUME NEW set \in BOOLEAN, LoopSet(set) PROVE EventLoopTypeOK'
    BY <1>3 DEF LoopSet, EventLoopTypeOK
  <1>4. CASE LoopInit
    BY <1>0, <1>4 DEF LoopInit, EventLoopTypeOK
  <1>5. CASE LoopDeinit
    BY <1>0, <1>5 DEF LoopDeinit, EventLoopTypeOK
  <1>. QED  BY <1>1, <1>2, <1>3, <1>4, <1>5

LEMMA TimersKeepTypes ==
  ASSUME EventLoopTypeOK,
         (\E id \in DelayedEvent : DelaySend(id)) \/ OtherCommand \/ DaemonStep
  PROVE  EventLoopTypeOK'
  <1>0. 0 \in 0 .. Delays /\ DelayedEvent \subseteq 0 .. Delays
    BY EventNumbers DEF DelayedEvent
  <1>1. ASSUME NEW id \in DelayedEvent, DelaySend(id) PROVE EventLoopTypeOK'
    <2>1. commands' \in Seq(0 .. Delays) /\ Len(commands') <= TimerRoom
      <3>1. CASE Len(commands) < TimerRoom
        BY <1>0, <1>1, <3>1, CommandFits DEF DelaySend
      <3>2. CASE commands' = commands
        BY <3>2 DEF EventLoopTypeOK
      <3>. QED  BY <1>1, <3>1, <3>2 DEF DelaySend
    <2>. QED  BY <1>1, <2>1 DEF DelaySend, EventLoopTypeOK
  <1>2. CASE OtherCommand
    BY <1>0, <1>2, CommandFits DEF OtherCommand, EventLoopTypeOK
  <1>3. CASE DaemonCommand
    <2>1. commands' \in Seq(0 .. Delays) /\ Len(commands') <= TimerRoom
      BY <1>3, QueueLengths, EventNumbers, TailIs DEF DaemonCommand
    <2>. QED  BY <1>3, <2>1, LostType DEF DaemonCommand, EventLoopTypeOK
  <1>4. CASE TimerDrop
    BY <1>4, FrontTaken, LostType DEF TimerDrop, EventLoopTypeOK
  <1>5. CASE TimerPut
    <2>1. daemon.id \in 0 .. Delays
      BY DEF EventLoopTypeOK
    <2>2. eventQueue' \in Seq(0 .. Delays) /\ Len(eventQueue') <= EventRoom
      BY <1>5, <2>1, EventFits DEF TimerPut, EventLoopTypeOK
    <2>. QED  BY <1>5, <2>2 DEF TimerPut, EventLoopTypeOK
  <1>6. CASE TimerStop
    <2>1. daemon' \in [at : {"idle", "drop", "put", "stop", "delete"}, id : 0 .. Delays]
      BY <1>0, <1>6 DEF TimerStop, EventLoopTypeOK, IdleDaemon
    <2>2. commands' \in Seq(0 .. Delays) /\ Len(commands') <= TimerRoom
      BY <1>0, <1>6, CommandFits DEF TimerStop
    <2>. QED  BY <1>6, <2>1, <2>2 DEF TimerStop, EventLoopTypeOK
  <1>7. ASSUME NEW id \in DelayedEvent, TimerExpires(id) PROVE EventLoopTypeOK'
    BY <1>0, <1>7 DEF TimerExpires, EventLoopTypeOK
  <1>. QED  BY <1>1, <1>2, <1>3, <1>4, <1>5, <1>6, <1>7 DEF DaemonStep

LEMMA EventTypesStep == EventLoopTypeOK /\ [EventLoopNext]_eventVars => EventLoopTypeOK'
  <1>1. CASE UNCHANGED eventVars
    BY <1>1 DEF eventVars, EventLoopTypeOK
  <1>. QED
    BY <1>1, SenderKeepsTypes, LoopKeepsTypes, TimersKeepTypes DEF EventLoopNext

-----------------------------------------------------------------------------
(* The types of the notices and of the chain                               *)

NoticeUsedType == noticeUsed \in [notices : 0 .. Notices, starts : Nat, sockets : Nat]

\* A task has a queue, and is the one that a stop waits for.
TaskHasQueue ==
  /\ udpTask.at # "none" => hasQueue
  /\ exitSem = "given" => stopper = "wait" /\ udpTask.at = "none"
  /\ exitFlag /\ stopper = "idle" => udpTask.at = "none"
  /\ stopper = "wait" => exitFlag

UdpType == [at : {"none", "start", "loop", "collect", "requeue", "tell"}, type : NoticeType \union {"none"},
            ids : SUBSET (1 .. Notices), other : Seq(Notice)]
NoticeInv == NoticeTypeOK /\ NoticeUsedType /\ TaskHasQueue

LEMMA NoTaskType ==
  NoTask \in UdpType /\ NoTask.at = "none" /\ Len(NoTask.other) = 0
  BY DEF NoTask, UdpType

LEMMA FreshTask ==
  \A e \in {"start", "loop"} :
    LET t == [NoTask EXCEPT !.at = e]
    IN  t \in UdpType /\ t.at = e /\ Len(t.other) = 0
  BY NoTaskType DEF NoTask, UdpType

\* The notices that wait and the one that is written are of one kind.
LEMMA NoticeFacts ==
  ASSUME NoticeInv
  PROVE  /\ NoticeRoom \in Nat \ {0} /\ Notices \in Nat
         /\ noticeQueue \in Seq(Notice) /\ Len(noticeQueue) \in Nat /\ Len(noticeQueue) <= NoticeRoom
         /\ \A n \in Notice : n.id \in 1 .. Notices /\ n.type \in NoticeType
         /\ write # <<>> => write[1] \in Notice
  <1>1. noticeQueue \in Seq(Notice) /\ Len(noticeQueue) <= NoticeRoom /\ write \in Seq(Notice)
    BY DEF NoticeInv, NoticeTypeOK
  <1>2. Len(noticeQueue) \in Nat
    BY <1>1, LenProperties
  <1>3. write # <<>> => write[1] \in Notice
    BY <1>1, TailIs
  <1>. QED  BY <1>1, <1>2, <1>3, NoticeAssumption DEF Notice, NoticeAssumption

LEMMA FrontOfQueue ==
  ASSUME NoticeInv, noticeQueue # <<>>
  PROVE  /\ Tail(noticeQueue) \in Seq(Notice) /\ Len(Tail(noticeQueue)) <= NoticeRoom
         /\ Head(noticeQueue) \in Notice /\ Head(noticeQueue).id \in 1 .. Notices
         /\ Head(noticeQueue).type \in NoticeType /\ hasQueue
         /\ \A n \in Notice : /\ Append(Tail(noticeQueue), n) \in Seq(Notice)
                              /\ Len(Append(Tail(noticeQueue), n)) <= NoticeRoom
  <1>1. /\ Tail(noticeQueue) \in Seq(Notice) /\ Len(Tail(noticeQueue)) = Len(noticeQueue) - 1
        /\ Head(noticeQueue) \in Notice
    BY NoticeFacts, TailIs
  <1>2. hasQueue
    BY DEF NoticeInv, NoticeTypeOK
  <1>. QED  BY <1>1, <1>2, NoticeFacts, AppendIs

LEMMA NoticeInvInit == NoticesInit => NoticeInv
  <1>. SUFFICES ASSUME NoticesInit PROVE NoticeInv
    OBVIOUS
  <1>1. <<>> \in Seq(Notice) /\ Len(<<>>) = 0
    OBVIOUS
  <1>2. NoticeRoom \in Nat /\ Notices \in Nat
    BY NoticeAssumption DEF NoticeAssumption
  <1>3. NoticeUsedType
    BY <1>2 DEF NoticesInit, NoticeUsedType
  <1>4. /\ noticeQueue \in Seq(Notice) /\ Len(noticeQueue) <= NoticeRoom
        /\ write \in Seq(Notice) /\ Len(write) <= 1 /\ noticeQueue = <<>> /\ closing \in Nat
    BY <1>1, <1>2 DEF NoticesInit
  <1>5. udpTask \in UdpType /\ udpTask.at = "none" /\ Len(udpTask.other) = 0
    BY NoTaskType DEF NoticesInit
  <1>6. NoticeTypeOK
    BY <1>4, <1>5 DEF NoticeTypeOK, NoticesInit, UdpType
  <1>7. TaskHasQueue
    BY <1>5 DEF TaskHasQueue, NoticesInit
  <1>. QED  BY <1>3, <1>6, <1>7 DEF NoticeInv

LEMMA NoticeWriterKeeps ==
  ASSUME NoticeInv,
         (\E type \in NoticeType, mac \in NoticeMac : NoticeWrite(type, mac)) \/ NoticePut
  PROVE  NoticeInv'
  <1>0. TaskHasQueue'
    BY DEF NoticeInv, TaskHasQueue, NoticeWrite, NoticePut
  <1>1. ASSUME NEW type \in NoticeType, NEW mac \in NoticeMac, NoticeWrite(type, mac)
        PROVE  NoticeInv'
    <2>1. noticeUsed.notices \in 0 .. Notices /\ noticeUsed.notices + 1 \in 1 .. Notices
      BY <1>1, NoticeFacts DEF NoticeWrite, NoticeInv, NoticeUsedType
    <2>2. NoticeUsedType'
      BY <1>1, <2>1, NoticeFacts DEF NoticeWrite, NoticeInv, NoticeUsedType
    <2>3. [id |-> noticeUsed.notices + 1, type |-> type, mac |-> mac] \in Notice
      BY <2>1 DEF Notice
    <2>4. write' \in Seq(Notice) /\ Len(write') <= 1
      BY <1>1, <2>3 DEF NoticeWrite
    <2>5. CASE Full
      <3>1. noticeQueue # <<>>
        BY <2>5, NoticeFacts DEF Full
      <3>2. NoticeTypeOK'
        BY <1>1, <2>4, <2>5, <3>1, FrontOfQueue DEF NoticeWrite, NoticeInv, NoticeTypeOK
      <3>. QED  BY <1>0, <2>2, <3>2 DEF NoticeInv
    <2>6. CASE ~ Full
      <3>1. NoticeTypeOK'
        BY <1>1, <2>4, <2>6 DEF NoticeWrite, NoticeInv, NoticeTypeOK
      <3>. QED  BY <1>0, <2>2, <3>1 DEF NoticeInv
    <2>. QED  BY <2>5, <2>6
  <1>2. CASE NoticePut
    <2>1. write[1] \in Notice /\ write[1].id \in 1 .. Notices
      BY <1>2, NoticeFacts DEF NoticePut
    <2>2. write' \in Seq(Notice) /\ Len(write') <= 1
      BY <1>2 DEF NoticePut
    <2>0. NoticeUsedType'
      BY <1>2 DEF NoticePut, NoticeInv, NoticeUsedType
    <2>3. CASE hasQueue /\ ~ Full
      <3>1. Append(noticeQueue, write[1]) \in Seq(Notice) /\ Len(Append(noticeQueue, write[1])) <= NoticeRoom
        BY <2>1, <2>3, NoticeFacts, AppendIs DEF Full
      <3>2. NoticeTypeOK'
        BY <1>2, <2>2, <2>3, <3>1 DEF NoticePut, NoticeInv, NoticeTypeOK
      <3>. QED  BY <1>0, <2>0, <3>2 DEF NoticeInv
    <2>4. CASE ~ (hasQueue /\ ~ Full)
      <3>1. NoticeTypeOK'
        BY <1>2, <2>1, <2>2, <2>4 DEF NoticePut, NoticeInv, NoticeTypeOK
      <3>. QED  BY <1>0, <2>0, <3>1 DEF NoticeInv
    <2>. QED  BY <2>3, <2>4
  <1>. QED  BY <1>1, <1>2

LEMMA NoticeServiceKeeps ==
  ASSUME NoticeInv, NoticeInit \/ NoticeDeinit \/ NoticeDeinitEnd
  PROVE  NoticeInv'
  <1>1. CASE NoticeInit
    <2>1. NoticeUsedType'
      BY <1>1 DEF NoticeInit, NoticeInv, NoticeUsedType
    <2>2. udpTask' = [NoTask EXCEPT !.at = "start"]
      BY <1>1 DEF NoticeInit
    <2>3. udpTask' \in UdpType /\ udpTask'.at = "start" /\ Len(udpTask'.other) = 0
      BY <2>2, FreshTask
    <2>4. NoticeTypeOK'
      BY <1>1, <2>3 DEF NoticeInit, NoticeInv, NoticeTypeOK, UdpType
    <2>5. TaskHasQueue'
      BY <1>1, <2>3 DEF NoticeInit, NoticeInv, NoticeTypeOK, TaskHasQueue
    <2>. QED  BY <2>1, <2>4, <2>5 DEF NoticeInv
  <1>2. CASE NoticeDeinit
    BY <1>2 DEF NoticeDeinit, NoticeInv, NoticeTypeOK, NoticeUsedType, TaskHasQueue
  <1>3. CASE NoticeDeinitEnd
    <2>1. \A i \in DOMAIN noticeQueue : noticeQueue[i].id \in 1 .. Notices
      <3>1. \A i \in DOMAIN noticeQueue : noticeQueue[i] \in Notice
        BY NoticeFacts
      <3>. QED  BY <3>1, NoticeFacts
    <2>2. lostNotices' \subseteq 1 .. Notices
      BY <1>3, <2>1 DEF NoticeDeinitEnd, NoticeInv, NoticeTypeOK
    <2>3. <<>> \in Seq(Notice) /\ Len(<<>>) <= NoticeRoom
      BY NoticeFacts
    <2>4. NoticeTypeOK'
      BY <1>3, <2>2, <2>3 DEF NoticeDeinitEnd, NoticeInv, NoticeTypeOK
    <2>5. TaskHasQueue' /\ NoticeUsedType'
      BY <1>3 DEF NoticeDeinitEnd, NoticeInv, TaskHasQueue, NoticeUsedType
    <2>. QED  BY <2>4, <2>5 DEF NoticeInv
  <1>. QED  BY <1>1, <1>2, <1>3

\* What a step of the task leaves as it was, and what it makes of the rest.
TaskMakes ==
  /\ UNCHANGED <<exitFlag, hasQueue, stopper, write>>
  /\ noticeQueue' \in Seq(Notice) /\ Len(noticeQueue') <= NoticeRoom /\ (~ hasQueue => noticeQueue' = <<>>)
  /\ told' \subseteq 1 .. Notices /\ lostNotices' \subseteq 1 .. Notices /\ abandoned' \in BOOLEAN
  /\ closing' \in Nat /\ NoticeUsedType'

\* The task goes on, from a state in which it has a queue.
TaskGoesOn ==
  /\ udpTask' \in UdpType /\ udpTask'.at # "none"
  /\ Len(udpTask'.other) = (IF udpTask'.at = "requeue" THEN 1 ELSE 0)
  /\ udpTask.at # "none" /\ UNCHANGED exitSem

LEMMA GoingOnKeeps ==
  ASSUME NoticeInv, TaskMakes, TaskGoesOn
  PROVE  NoticeInv'
  <1>1. NoticeTypeOK'
    BY DEF TaskMakes, TaskGoesOn, NoticeInv, NoticeTypeOK, UdpType
  <1>2. TaskHasQueue'
    BY DEF TaskMakes, TaskGoesOn, NoticeInv, TaskHasQueue
  <1>. QED  BY <1>1, <1>2 DEF TaskMakes, NoticeInv

LEMMA EndingKeeps ==
  ASSUME NoticeInv, TaskMakes, udpTask' = NoTask,
         exitSem' = exitSem \/ (exitSem' = Given /\ stopper = "wait")
  PROVE  NoticeInv'
  <1>1. udpTask' \in UdpType /\ udpTask'.at = "none" /\ Len(udpTask'.other) = 0
    BY NoTaskType
  <1>2. exitSem' \in {"none", "taken", "given"}
    BY DEF NoticeInv, NoticeTypeOK, Given
  <1>3. NoticeTypeOK'
    BY <1>1, <1>2 DEF TaskMakes, NoticeInv, NoticeTypeOK, UdpType
  <1>4. TaskHasQueue'
    BY <1>1 DEF TaskMakes, NoticeInv, TaskHasQueue, Given
  <1>. QED  BY <1>3, <1>4 DEF TaskMakes, NoticeInv

LEMMA NoticeTaskKeeps ==
  ASSUME NoticeInv, TaskStep \/ TaskClose
  PROVE  NoticeInv'
  <1>0. /\ udpTask \in UdpType /\ exitFlag \in BOOLEAN /\ closing \in Nat /\ abandoned \in BOOLEAN
        /\ told \subseteq 1 .. Notices /\ lostNotices \subseteq 1 .. Notices
        /\ NoticeUsedType /\ (~ hasQueue => noticeQueue = <<>>) /\ (udpTask.at # "none" => hasQueue)
        /\ Len(udpTask.other) = (IF udpTask.at = "requeue" THEN 1 ELSE 0)
    BY DEF NoticeInv, NoticeTypeOK, UdpType, TaskHasQueue
  <1>a. noticeQueue \in Seq(Notice) /\ Len(noticeQueue) <= NoticeRoom
    BY NoticeFacts
  <1>. USE DEF TaskUnchanged
  <1>1. CASE TaskStart
    <2>1. TaskMakes
      BY <1>0, <1>a, <1>1 DEF TaskStart, TaskMakes, NoticeUsedType
    <2>2. TaskGoesOn
      BY <1>0, <1>1 DEF TaskStart, TaskGoesOn, UdpType
    <2>. QED  BY <2>1, <2>2, GoingOnKeeps
  <1>2. CASE TaskStartFails
    <2>1. NoticeUsedType'
      BY <1>0, <1>2 DEF TaskStartFails, NoticeUsedType
    <2>2. TaskMakes /\ udpTask' = NoTask /\ exitSem' = exitSem
      BY <1>0, <1>a, <1>2, <2>1 DEF TaskStartFails, TaskMakes
    <2>. QED  BY <2>2, EndingKeeps
  <1>3. CASE TaskTake
    <2>1. noticeQueue # <<>> /\ noticeQueue' = Tail(noticeQueue)
          /\ udpTask' = [at |-> "collect", type |-> Head(noticeQueue).type,
                         ids |-> {Head(noticeQueue).id}, other |-> <<>>]
      BY <1>3 DEF TaskTake
    <2>2. TaskMakes
      BY <1>0, <1>3, <2>1, FrontOfQueue DEF TaskTake, TaskMakes, NoticeUsedType
    <2>3. udpTask' \in UdpType /\ Len(udpTask'.other) = 0 /\ udpTask'.at = "collect"
      <3>1. <<>> \in Seq(Notice) /\ Len(<<>>) = 0
        OBVIOUS
      <3>. QED  BY <2>1, <3>1, FrontOfQueue DEF UdpType
    <2>4. TaskGoesOn
      BY <1>3, <2>3 DEF TaskTake, TaskGoesOn
    <2>. QED  BY <2>2, <2>4, GoingOnKeeps
  <1>4. CASE CollectSame
    <2>1. noticeQueue # <<>> /\ noticeQueue' = Tail(noticeQueue)
          /\ udpTask' = [udpTask EXCEPT !.ids = @ \union {Head(noticeQueue).id}]
      BY <1>4 DEF CollectSame
    <2>2. TaskMakes
      BY <1>0, <1>4, <2>1, FrontOfQueue DEF CollectSame, TaskMakes, NoticeUsedType
    <2>3. udpTask.ids \union {Head(noticeQueue).id} \subseteq 1 .. Notices
      BY <1>0, <2>1, FrontOfQueue DEF UdpType
    <2>4. udpTask' \in UdpType /\ udpTask'.at = udpTask.at /\ udpTask'.other = udpTask.other
      BY <1>0, <2>1, <2>3 DEF UdpType
    <2>5. TaskGoesOn
      BY <1>0, <1>4, <2>4 DEF CollectSame, TaskGoesOn
    <2>. QED  BY <2>2, <2>5, GoingOnKeeps
  <1>5. CASE CollectOther
    <2>1. noticeQueue # <<>> /\ noticeQueue' = Tail(noticeQueue)
          /\ udpTask' = [udpTask EXCEPT !.at = "requeue", !.other = <<Head(noticeQueue)>>]
      BY <1>5 DEF CollectOther
    <2>2. TaskMakes
      BY <1>0, <1>5, <2>1, FrontOfQueue DEF CollectOther, TaskMakes, NoticeUsedType
    <2>3. <<Head(noticeQueue)>> \in Seq(Notice) /\ Len(<<Head(noticeQueue)>>) = 1
      BY <2>1, FrontOfQueue
    <2>4. TaskGoesOn
      BY <1>0, <1>5, <2>1, <2>3 DEF CollectOther, TaskGoesOn, UdpType
    <2>. QED  BY <2>2, <2>4, GoingOnKeeps
  <1>6. CASE RequeueOther
    <2>1. udpTask.at = "requeue" /\ hasQueue /\ udpTask' = [udpTask EXCEPT !.at = "tell", !.other = <<>>]
      BY <1>0, <1>6 DEF RequeueOther, AfterOther
    <2>2. udpTask.other[1] \in Notice /\ udpTask.other[1].id \in 1 .. Notices
      <3>1. udpTask.other \in Seq(Notice) /\ Len(udpTask.other) = 1
        BY <1>0, <2>1 DEF UdpType
      <3>2. udpTask.other[1] \in Notice
        BY <3>1
      <3>. QED  BY <3>2, NoticeFacts
    <2>3. TaskMakes
      <3>1. CASE Full
        BY <1>0, <1>a, <1>6, <2>2, <3>1 DEF RequeueOther, TaskMakes, NoticeUsedType
      <3>2. CASE ~ Full
        <4>1. Append(noticeQueue, udpTask.other[1]) \in Seq(Notice)
              /\ Len(Append(noticeQueue, udpTask.other[1])) <= NoticeRoom
          BY <2>2, <3>2, NoticeFacts, AppendIs DEF Full
        <4>2. noticeQueue' = Append(noticeQueue, udpTask.other[1]) /\ UNCHANGED lostNotices
          BY <1>6, <3>2 DEF RequeueOther
        <4>. QED  BY <1>0, <1>6, <2>1, <4>1, <4>2 DEF RequeueOther, TaskMakes, NoticeUsedType
      <3>. QED  BY <3>1, <3>2
    <2>4. TaskGoesOn
      <3>1. <<>> \in Seq(Notice) /\ Len(<<>>) = 0
        OBVIOUS
      <3>. QED  BY <1>0, <1>6, <2>1, <3>1 DEF RequeueOther, TaskGoesOn, UdpType
    <2>. QED  BY <2>3, <2>4, GoingOnKeeps
  <1>7. CASE CollectEnd
    <2>1. TaskMakes
      BY <1>0, <1>a, <1>7 DEF CollectEnd, TaskMakes, NoticeUsedType
    <2>2. TaskGoesOn
      BY <1>0, <1>7 DEF CollectEnd, TaskGoesOn, UdpType
    <2>. QED  BY <2>1, <2>2, GoingOnKeeps
  <1>8. CASE Tell
    <2>1. udpTask.ids \subseteq 1 .. Notices
      BY <1>0 DEF UdpType
    <2>2. TaskMakes
      BY <1>0, <1>a, <1>8, <2>1 DEF Tell, TaskMakes, NoticeUsedType
    <2>3. udpTask' \in UdpType /\ udpTask'.at = "loop" /\ Len(udpTask'.other) = 0
      BY <1>8, FreshTask DEF Tell
    <2>4. TaskGoesOn
      BY <1>8, <2>3 DEF Tell, TaskGoesOn
    <2>. QED  BY <2>2, <2>4, GoingOnKeeps
  <1>9. CASE TaskExit
    <2>1. TaskMakes
      BY <1>0, <1>a, <1>9 DEF TaskExit, TaskMakes, NoticeUsedType
    <2>2. stopper = "wait"
      BY <1>9 DEF TaskExit, NoticeInv, NoticeTypeOK, TaskHasQueue
    <2>. QED  BY <1>9, <2>1, <2>2, EndingKeeps DEF TaskExit
  <1>10. CASE TaskClose
    <2>1. closing' \in Nat
      BY <1>0, <1>10 DEF TaskClose
    <2>2. UNCHANGED <<exitFlag, hasQueue, stopper, write, noticeUsed, exitSem, noticeQueue, udpTask, told,
                      lostNotices, abandoned>>
      BY <1>10 DEF TaskClose
    <2>. QED
      BY <2>1, <2>2 DEF NoticeInv, NoticeTypeOK, NoticeUsedType, TaskHasQueue
  <1>. QED  BY <1>1, <1>2, <1>3, <1>4, <1>5, <1>6, <1>7, <1>8, <1>9, <1>10 DEF TaskStep

LEMMA NoticeInvStep == NoticeInv /\ [NoticeNext]_noticeVars => NoticeInv'
  <1>1. CASE UNCHANGED noticeVars
    BY <1>1 DEF noticeVars, NoticeInv, NoticeTypeOK, NoticeUsedType, TaskHasQueue
  <1>. QED
    BY <1>1, NoticeWriterKeeps, NoticeServiceKeeps, NoticeTaskKeeps DEF NoticeNext

\* The answer a master makes has a key.
MastersType ==
  [ChainMaster -> [at : {"read", "config", "list"}, answer : 0 .. AnswerKeys, left : 0 .. ListTries]]
ChainInv ==
  ChainTypeOK /\ \A m \in ChainMaster : chainMaster[m].at # "read" => chainMaster[m].answer # 0

LEMMA ChainNumbers ==
  /\ ChainMaster # {} /\ ListTries \in Nat \ {0} /\ AnswerKeys \in Nat \ {0}
  /\ 0 \in 0 .. AnswerKeys /\ 0 \in 0 .. ListTries /\ ListTries \in 0 .. ListTries
  BY ChainAssumption DEF ChainAssumption

LEMMA ChainInvInit == ChainInit => ChainInv
  <1>. SUFFICES ASSUME ChainInit PROVE ChainInv
    OBVIOUS
  <1>1. dest \in ChainMaster
    BY ChainNumbers DEF ChainInit
  <1>2. slavePipe \in Seq(ChainMessage)
    BY DEF ChainInit
  <1>3. chainMaster \in MastersType /\ \A m \in ChainMaster : chainMaster[m].at = "read"
    BY ChainNumbers DEF ChainInit, IdleMaster, MastersType
  <1>. QED
    BY <1>1, <1>2, <1>3, ChainNumbers DEF ChainInv, ChainTypeOK, ChainInit, MastersType

LEMMA FrontOfPipe ==
  ASSUME ChainInv, slavePipe # <<>>
  PROVE  /\ Tail(slavePipe) \in Seq(ChainMessage) /\ Head(slavePipe).from \in ChainMaster
         /\ Head(slavePipe).answer \in 0 .. AnswerKeys
  <1>1. slavePipe \in Seq(ChainMessage)
    BY DEF ChainInv, ChainTypeOK
  <1>2. Tail(slavePipe) \in Seq(ChainMessage) /\ Head(slavePipe) \in ChainMessage
    BY <1>1, TailIs
  <1>. QED  BY <1>2, ChainNumbers DEF ChainMessage

LEMMA PeersStay ==
  ASSUME ChainInv, NEW m \in ChainMaster
  PROVE  /\ AddPeer(peers, m) \subseteq ChainMaster /\ DelPeer(peers, m) \subseteq ChainMaster
         /\ PeerAgain(peers, m) \subseteq ChainMaster /\ peers \subseteq ChainMaster
  BY DEF ChainInv, ChainTypeOK, AddPeer, DelPeer, PeerAgain

LEMMA AskedStays ==
  ASSUME ChainInv, NEW m \in ChainMaster
  PROVE  /\ [asked EXCEPT ![m] = @ + 1] \in [ChainMaster -> Nat]
         /\ asked[m] > 0 => [asked EXCEPT ![m] = @ - 1] \in [ChainMaster -> Nat]
  BY DEF ChainInv, ChainTypeOK

LEMMA SlaveKeepsTypes ==
  ASSUME ChainInv, ChainSlaveInit \/ SlaveStep
  PROVE  ChainInv'
  <1>0. dest \in ChainMaster /\ listLeft \in 0 .. ListTries /\ slavePipe \in Seq(ChainMessage)
    BY DEF ChainInv, ChainTypeOK
  <1>. USE DEF mastersVars, ChainInv
  <1>1. CASE ChainSlaveInit
    BY <1>1 DEF ChainSlaveInit, ChainTypeOK
  <1>2. ASSUME NEW m \in ChainMaster, Scan(m) PROVE ChainInv'
    BY <1>2, PeersStay DEF Scan, ChainTypeOK
  <1>3. CASE Drain
    BY <1>3, FrontOfPipe DEF Drain, ChainTypeOK
  <1>4. CASE RequestConfig
    <2>1. asked' \in [ChainMaster -> Nat]
      BY <1>0, <1>4, AskedStays DEF RequestConfig, Asks, ChainTypeOK
    <2>. QED  BY <1>0, <1>4, <2>1, PeersStay DEF RequestConfig, ChainTypeOK
  <1>5. CASE RequestFails
    <2>1. asked' \in [ChainMaster -> Nat]
      BY <1>0, <1>5, AskedStays DEF RequestFails, Asks, ChainTypeOK
    <2>. QED  BY <1>0, <1>5, <2>1, PeersStay DEF RequestFails, ChainTypeOK
  <1>6. CASE ConfigArrives
    BY <1>6, FrontOfPipe, ChainNumbers DEF ConfigArrives, ChainTypeOK
  <1>7. CASE ConfigRefused
    BY <1>7, FrontOfPipe, PeersStay DEF ConfigRefused, ChainTypeOK
  <1>8. CASE ConfigTimeout
    BY <1>0, <1>8, PeersStay DEF ConfigTimeout, ChainTypeOK
  <1>9. CASE ListFromOther
    <2>1. listLeft' \in 0 .. ListTries
      BY <1>0, <1>9, ChainNumbers DEF ListFromOther
    <2>. QED  BY <1>9, <2>1, FrontOfPipe DEF ListFromOther, ChainTypeOK
  <1>10. CASE ListArrives
    BY <1>0, <1>10, FrontOfPipe, PeersStay DEF ListArrives, ChainTypeOK
  <1>11. CASE ListTimeout
    BY <1>0, <1>11, PeersStay DEF ListTimeout, ChainTypeOK
  <1>12. CASE QueueWrite
    BY <1>12 DEF QueueWrite, ChainTypeOK
  <1>. QED
    BY <1>1, <1>2, <1>3, <1>4, <1>5, <1>6, <1>7, <1>8, <1>9, <1>10, <1>11, <1>12 DEF SlaveStep

LEMMA PipeGrows ==
  ASSUME ChainInv, NEW m \in ChainMaster, chainMaster[m].at \in {"config", "list"},
         WriteOk(m) \/ WriteFailed(m)
  PROVE  slavePipe' \in Seq(ChainMessage)
  <1>. DEFINE msg == [kind |-> chainMaster[m].at, from |-> m, answer |-> chainMaster[m].answer]
  <1>1. slavePipe \in Seq(ChainMessage)
    BY DEF ChainInv, ChainTypeOK
  <1>2. msg \in ChainMessage
    <2>1. chainMaster[m].answer \in 0 .. AnswerKeys /\ chainMaster[m].answer # 0
      BY DEF ChainInv, ChainTypeOK
    <2>2. chainMaster[m].answer \in 1 .. AnswerKeys
      BY <2>1, ChainNumbers
    <2>. QED  BY <2>2 DEF ChainMessage
  <1>3. slavePipe' = slavePipe \/ slavePipe' = Append(slavePipe, msg)
    BY DEF WriteOk, WriteFailed, Delivered
  <1>. HIDE DEF msg
  <1>. QED  BY <1>1, <1>2, <1>3, AppendIs

LEMMA MasterKeepsTypes ==
  ASSUME ChainInv, NEW m \in ChainMaster, MasterStep(m)
  PROVE  ChainInv'
  <1>0. chainMaster \in MastersType
    BY DEF ChainInv, ChainTypeOK, MastersType
  <1>. USE DEF slaveVars
  <1>1. ASSUME MasterRead(m) PROVE ChainInv'
    <2>1. lastKey' \in 1 .. AnswerKeys
      <3>1. lastKey \in Nat /\ lastKey' = (lastKey % AnswerKeys) + 1
        BY <1>1, ChainNumbers DEF MasterRead, ChainInv, ChainTypeOK
      <3>2. (lastKey % AnswerKeys) \in 0 .. AnswerKeys - 1
        BY <3>1, ChainNumbers
      <3>. QED  BY <3>1, <3>2, ChainNumbers
    <2>2. asked' \in [ChainMaster -> Nat]
      BY <1>1, AskedStays DEF MasterRead
    <2>3. chainMaster' = [chainMaster EXCEPT ![m] = [at |-> "config", answer |-> lastKey', left |-> ListTries]]
      BY <1>1 DEF MasterRead
    <2>4. lastKey' \in 0 .. AnswerKeys /\ lastKey' # 0
      BY <2>1, ChainNumbers
    <2>5. chainMaster' \in MastersType
      BY <1>0, <2>3, <2>4, ChainNumbers DEF MastersType
    <2>6. \A k \in ChainMaster : chainMaster'[k].at # "read" => chainMaster'[k].answer # 0
      BY <1>0, <2>3, <2>4 DEF MastersType, ChainInv
    <2>. QED
      BY <1>1, <2>2, <2>4, <2>5, <2>6 DEF MasterRead, ChainInv, ChainTypeOK, MastersType
  <1>2. CASE MasterSendsConfig(m)
    <2>1. slavePipe' \in Seq(ChainMessage)
      BY <1>2, PipeGrows DEF MasterSendsConfig
    <2>2. \/ chainMaster' = [chainMaster EXCEPT ![m].at = "list"]
          \/ chainMaster' = [chainMaster EXCEPT ![m] = IdleMaster]
      BY <1>2 DEF MasterSendsConfig
    <2>3. chainMaster' \in MastersType
      BY <1>0, <2>2, ChainNumbers DEF MastersType, IdleMaster
    <2>4. chainMaster[m].answer # 0
      BY <1>2 DEF MasterSendsConfig, ChainInv
    <2>5. \A k \in ChainMaster : chainMaster'[k].at # "read" => chainMaster'[k].answer # 0
      BY <1>0, <2>2, <2>4 DEF MastersType, ChainInv, IdleMaster
    <2>. QED
      BY <1>2, <2>1, <2>3, <2>5 DEF MasterSendsConfig, ChainInv, ChainTypeOK, MastersType
  <1>3. CASE MasterSendsList(m)
    <2>1. slavePipe' \in Seq(ChainMessage)
      BY <1>3, PipeGrows DEF MasterSendsList
    <2>2. \/ chainMaster' = [chainMaster EXCEPT ![m] = IdleMaster]
          \/ chainMaster[m].left > 1 /\ chainMaster' = [chainMaster EXCEPT ![m] = [chainMaster[m] EXCEPT !.left = @ - 1]]
      BY <1>3 DEF MasterSendsList
    <2>3. chainMaster[m].left > 1 => chainMaster[m].left - 1 \in 0 .. ListTries
      BY <1>0, ChainNumbers DEF MastersType
    <2>4. chainMaster' \in MastersType
      BY <1>0, <2>2, <2>3, ChainNumbers DEF MastersType, IdleMaster
    <2>5. chainMaster[m].answer # 0
      BY <1>3 DEF MasterSendsList, ChainInv
    <2>6. \A k \in ChainMaster : chainMaster'[k].at # "read" => chainMaster'[k].answer # 0
      BY <1>0, <2>2, <2>5 DEF MastersType, ChainInv, IdleMaster
    <2>. QED
      BY <1>3, <2>1, <2>4, <2>6 DEF MasterSendsList, ChainInv, ChainTypeOK, MastersType
  <1>. QED  BY <1>1, <1>2, <1>3 DEF MasterStep

LEMMA ChainInvStep == ChainInv /\ [ChainNext]_chainVars => ChainInv'
  <1>1. CASE UNCHANGED chainVars
    BY <1>1 DEF chainVars, ChainInv, ChainTypeOK
  <1>. QED
    BY <1>1, SlaveKeepsTypes, MasterKeepsTypes DEF ChainNext

-----------------------------------------------------------------------------
(* The types of the requests                                               *)

Named == {0} \union Request
EntryNames(e) == e.num \in Uint16 /\ e.timer \in Named /\ e.req \in Named

\* Entries, timers and answers are of requests that were made, and the counts fit.
RequestsNamed ==
  /\ \A i \in Slot : EntryNames(slot[i])
  /\ timers \subseteq [slot : Slot, req : Request]
  /\ answers \subseteq [req : Request, device : Nat]
  /\ httpWrite.req \in Named /\ \A p \in Remover : removal[p].req \in Named
  /\ reached \subseteq [req : Request, device : Nat, client : 1 .. clients]
  /\ disturbedReqs \subseteq Request
HttpBounds == clients <= HttpClients /\ Len(mlinkQueue) <= HttpRoom
HttpTypeInv == HttpInv /\ RequestsNamed /\ HttpBounds

LEMMA HttpNumbers ==
  /\ HttpSlots \in Nat \ {0} /\ HttpRoom \in Nat \ {0} /\ HttpFd \subseteq Nat \ {0}
  /\ HttpDevices \subseteq Nat \ {0} /\ HttpClients \in Nat
  BY HttpAssumption DEF HttpAssumption

LEMMA HttpTypesInit == HttpInit => HttpTypeInv
  <1>. SUFFICES ASSUME HttpInit PROVE HttpTypeInv
    OBVIOUS
  <1>1. HttpInv
    BY HttpInvInit
  <1>2. \A i \in Slot : slot[i] = NoConn
    BY DEF HttpInit
  <1>3. EntryNames(NoConn)
    <2>1. 0 \in Uint16
      BY DEF Uint16
    <2>. QED  BY <2>1 DEF EntryNames, NoConn, Named
  <1>4. RequestsNamed
    BY <1>2, <1>3 DEF HttpInit, RequestsNamed, Named, IdleWrite, NoRemoval
  <1>5. HttpBounds
    BY HttpNumbers DEF HttpInit, HttpBounds
  <1>. QED  BY <1>1, <1>4, <1>5 DEF HttpTypeInv

\* A step that makes no request.
LEMMA NamesStay ==
  ASSUME HttpTypeInv, HttpInv', UNCHANGED <<clients, requests>>, answers' \subseteq answers,
         mlinkQueue' = mlinkQueue, \A i \in Slot : EntryNames(slot'[i]),
         timers' \subseteq [slot : Slot, req : Request],
         httpWrite'.req \in Named, \A p \in Remover : removal'[p].req \in Named,
         reached' \subseteq [req : Request, device : Nat, client : 1 .. clients],
         disturbedReqs' \subseteq Request
  PROVE  HttpTypeInv'
  <1>1. Request' = Request /\ Named' = Named
    BY DEF Request, Named
  <1>2. ASSUME NEW i \in Slot PROVE EntryNames(slot[i])'
    BY <1>1 DEF EntryNames
  <1>3. RequestsNamed'
    BY <1>1, <1>2 DEF HttpTypeInv, RequestsNamed
  <1>4. HttpBounds'
    BY DEF HttpTypeInv, HttpBounds
  <1>. QED  BY <1>3, <1>4 DEF HttpTypeInv

\* What is of use of the invariant in every step.
HttpNames ==
  /\ slot \in [Slot -> ConnType] /\ timers \subseteq [slot : Slot, req : Request]
  /\ \A k \in Slot : EntryNames(slot[k])
  /\ httpWrite \in WriteType /\ httpWrite.req \in Named /\ (WritesFor => httpWrite.slot \in Slot /\ httpWrite.req \in Request)
  /\ removal \in [Remover -> RemovalType] /\ \A p \in Remover : removal[p].req \in Named
  /\ timeoutCb.at # "idle" => timeoutCb.slot \in Slot
  /\ reached \subseteq [req : Request, device : Nat, client : 1 .. clients]
  /\ disturbedReqs \subseteq Request

LEMMA HttpNamesHold == HttpTypeInv => HttpNames
  BY DEF HttpTypeInv, HttpInv, SlotTypes, QueueTypes, RemovalTypes, RequestsNamed, HttpNames

LEMMA IdleNames ==
  EntryNames(NoConn) /\ IdleWrite.req \in Named /\ NoRemoval.req \in Named /\ 0 \in Named
  <1>1. 0 \in Uint16
    BY DEF Uint16
  <1>. QED  BY <1>1 DEF EntryNames, NoConn, Named, IdleWrite, NoRemoval

LEMMA ServerKeepsTypes ==
  ASSUME HttpTypeInv, HttpInv', NEW f \in HttpFd, HttpConnect(f) \/ HttpClose(f)
  PROVE  HttpTypeInv'
  <1>1. clients' \in Nat /\ clients \in Nat /\ clients <= clients' /\ clients' <= HttpClients
    BY HttpNumbers DEF HttpTypeInv, HttpInv, ClientTypes, HttpBounds, HttpConnect, HttpClose
  <1>2. UNCHANGED <<requests, slot, timers, mlinkQueue, answers, httpWrite, removal, reached, disturbedReqs>>
    BY DEF HttpConnect, HttpClose
  <1>3. \A c \in 1 .. clients : c \in 1 .. clients'
    BY <1>1
  <1>4. RequestsNamed'
    BY <1>2, <1>3 DEF HttpTypeInv, RequestsNamed, EntryNames, Named, Request
  <1>. QED  BY <1>1, <1>2, <1>4 DEF HttpTypeInv, HttpBounds

LEMMA RequestKeepsTypes ==
  ASSUME HttpTypeInv, HttpInv', NEW f \in HttpFd, NEW n \in HttpDevices, DeviceRequest(f, n)
  PROVE  HttpTypeInv'
  <1>. DEFINE q == Len(requests) + 1
  <1>1. /\ Len(requests) \in Nat /\ Len(requests') = q
        /\ UNCHANGED <<clients, answers, httpWrite, removal, reached>>
    <2>1. requests' = Append(requests, [client |-> owner[f], fd |-> f, num |-> n])
      BY DEF DeviceRequest
    <2>2. \E S : requests \in Seq(S)
      BY DEF HttpTypeInv, HttpInv, ClientTypes
    <2>. QED  BY <2>1, <2>2 DEF DeviceRequest
  <1>2. Request' = Request \union {q} /\ Named' = Named \union {q} /\ 0 \in Named
    BY <1>1 DEF Request, Named
  <1>3. /\ disturbedReqs' \subseteq disturbedReqs \union {q}
        /\ \/ UNCHANGED <<slot, timers>>
           \/ /\ FreeSlot # {}
              /\ \E timer \in {0, q} : slot' = [slot EXCEPT ![FirstFree] = Conn(f, Truncated(n), timer)]
              /\ timers' \subseteq timers \union {[slot |-> FirstFree, req |-> q]}
    BY DEF DeviceRequest, AddConnection
  <1>4. Truncated(n) \in Uint16
    BY HttpNumbers, TruncatedIs
  <1>5. ASSUME NEW timer \in {0, q}, NEW i \in Slot, slot'[i] = Conn(f, Truncated(n), timer)
        PROVE  EntryNames(slot[i])'
    <2>1. /\ slot'[i].num = Truncated(n) /\ slot'[i].timer = timer
          /\ slot'[i].req = Len(requests) + 1
      BY <1>1, <1>5 DEF Conn
    <2>. QED  BY <1>2, <1>4, <2>1 DEF EntryNames
  <1>6. slot \in [Slot -> ConnType] /\ \A i \in Slot : EntryNames(slot[i])
    BY DEF HttpTypeInv, HttpInv, SlotTypes, RequestsNamed
  <1>7. ASSUME NEW i \in Slot PROVE EntryNames(slot[i])'
    <2>1. EntryNames(slot[i])
      BY <1>6
    <2>2. CASE slot'[i] = slot[i]
      BY <1>2, <2>1, <2>2 DEF EntryNames
    <2>3. CASE slot'[i] # slot[i]
      <3>1. PICK timer \in {0, q} : slot' = [slot EXCEPT ![FirstFree] = Conn(f, Truncated(n), timer)]
        BY <1>3, <2>3
      <3>2. slot'[i] = Conn(f, Truncated(n), timer)
        BY <1>6, <2>3, <3>1
      <3>. QED  BY <1>5, <3>2
    <2>. QED  BY <2>2, <2>3
  <1>8. timers' \subseteq [slot : Slot, req : Request']
    BY <1>2, <1>3, FirstFreeIsFree DEF HttpTypeInv, RequestsNamed
  <1>9. RequestsNamed'
    BY <1>1, <1>2, <1>3, <1>7, <1>8 DEF HttpTypeInv, RequestsNamed
  <1>10. HttpBounds'
    <2>1. \E S : mlinkQueue \in Seq(S)
      BY DEF HttpTypeInv, HttpInv, QueueTypes
    <2>2. Len(mlinkQueue) \in Nat /\ Len(mlinkQueue) <= HttpRoom
      BY <2>1 DEF HttpTypeInv, HttpBounds
    <2>3. \E S : MadeRoom \in Seq(S)
      BY <2>1, <2>2, HttpNumbers DEF MadeRoom
    <2>4. Len(MadeRoom) \in Nat /\ Len(MadeRoom) + 1 <= HttpRoom
      BY <2>1, <2>2, HttpNumbers DEF MadeRoom
    <2>5. Len(mlinkQueue') = Len(MadeRoom) + 1
      BY <2>3 DEF DeviceRequest
    <2>. QED  BY <1>1, <2>4, <2>5 DEF HttpTypeInv, HttpBounds
  <1>. QED  BY <1>9, <1>10 DEF HttpTypeInv

LEMMA ReadKeepsTypes ==
  ASSUME HttpTypeInv, HttpInv', HttpRead
  PROVE  HttpTypeInv'
  <1>1. UNCHANGED <<clients, requests, slot, timers, httpWrite, removal, reached, disturbedReqs>>
        /\ mlinkQueue # <<>> /\ mlinkQueue' = Tail(mlinkQueue)
    BY DEF HttpRead
  <1>2. mlinkQueue \in Seq([req : Request, num : Nat])
    BY DEF HttpTypeInv, HttpInv, QueueTypes
  <1>3. Head(mlinkQueue) \in [req : Request, num : Nat] /\ Len(mlinkQueue') = Len(mlinkQueue) - 1
        /\ Len(mlinkQueue) \in Nat
    <2>. DEFINE S == [req : Request, num : Nat]
    <2>1. mlinkQueue \in Seq(S)
      BY <1>2
    <2>. HIDE DEF S
    <2>2. Head(mlinkQueue) \in S /\ Len(Tail(mlinkQueue)) = Len(mlinkQueue) - 1
          /\ Len(mlinkQueue) \in Nat
      BY <1>1, <2>1
    <2>. QED  BY <1>1, <2>2 DEF S
  <1>4. answers' \subseteq [req : Request, device : Nat]
    <2>1. \A d \in 1 .. Head(mlinkQueue).num : [req |-> Head(mlinkQueue).req, device |-> d]
                                              \in [req : Request, device : Nat]
      BY <1>3
    <2>. QED  BY <2>1 DEF HttpRead, HttpTypeInv, RequestsNamed
  <1>5. RequestsNamed'
    BY <1>1, <1>4 DEF HttpTypeInv, RequestsNamed, EntryNames, Named, Request
  <1>6. HttpBounds'
    BY <1>1, <1>3, HttpNumbers DEF HttpTypeInv, HttpBounds
  <1>. QED  BY <1>5, <1>6 DEF HttpTypeInv

LEMMA RemovalKeepsTypes ==
  ASSUME HttpTypeInv, HttpInv', NEW p \in Remover, RemovalStep(p)
  PROVE  HttpTypeInv'
  <1>0. HttpNames
    BY HttpNamesHold
  <1>1. UNCHANGED <<clients, requests, mlinkQueue, answers, reached>>
    BY DEF RemovalStep
  <1>2. timers' \subseteq timers
    BY DEF RemovalStep, Lookup, CloseSocket, StopTimer, ClearConn
  <1>3. ASSUME NEW k \in Slot PROVE EntryNames(slot'[k])
    <2>1. slot' = slot \/ slot' = [slot EXCEPT ![removal[p].slot] = NoConn]
      BY DEF RemovalStep, Lookup, CloseSocket, StopTimer, ClearConn
    <2>2. slot'[k] \in {slot[k], NoConn}
      BY <1>0, <2>1 DEF HttpNames
    <2>. QED  BY <1>0, <2>2, IdleNames DEF HttpNames
  <1>4. httpWrite'.req \in Named
    BY <1>0 DEF RemovalStep, Lookup, CloseSocket, StopTimer, ClearConn, HttpNames, WriteType
  <1>5. ASSUME NEW o \in Remover PROVE removal'[o].req \in Named
    <2>1. CASE Lookup(p)
      <3>. DEFINE i == Find(removal[p].fd)
      <3>1. i = 0 \/ slot[i].req \in Named
        BY <1>0, FindFinds DEF HttpNames, EntryNames
      <3>2. removal' = [removal EXCEPT ![p].at = "close", ![p].slot = i, ![p].req = IF i = 0 THEN 0 ELSE slot[i].req]
        BY <2>1 DEF Lookup
      <3>. HIDE DEF i
      <3>3. removal[p] \in RemovalType /\ removal[o].req \in Named
        BY <1>0 DEF HttpNames
      <3>. QED  BY <1>0, <3>1, <3>2, <3>3, IdleNames DEF HttpNames, RemovalType
    <2>2. CASE ~ Lookup(p)
      <3>1. \/ \E at \in {"stop", "clear"} : removal' = [removal EXCEPT ![p].at = at]
            \/ removal' = [removal EXCEPT ![p] = NoRemoval]
        BY <2>2 DEF RemovalStep, CloseSocket, StopTimer, ClearConn
      <3>. QED  BY <1>0, <3>1, IdleNames DEF HttpNames, RemovalType
    <2>. QED  BY <2>1, <2>2
  <1>6. disturbedReqs' \subseteq Request
    <2>1. CASE ~ ClearConn(p)
      BY <1>0, <2>1 DEF RemovalStep, Lookup, CloseSocket, StopTimer, HttpNames
    <2>2. CASE ClearConn(p)
      <3>1. removal[p].slot \in Slot
        BY <2>2, HttpNumbers DEF HttpTypeInv, HttpInv, RemovalTypes, RemovalType, ClearConn, Slot
      <3>. QED  BY <1>0, <2>2, <3>1 DEF ClearConn, HttpNames, EntryNames, Named
    <2>. QED  BY <2>1, <2>2
  <1>7. timers' \subseteq [slot : Slot, req : Request]
    BY <1>0, <1>2 DEF HttpNames
  <1>8. reached' \subseteq [req : Request, device : Nat, client : 1 .. clients]
    BY <1>0, <1>1 DEF HttpNames
  <1>. QED  BY <1>1, <1>3, <1>4, <1>5, <1>6, <1>7, <1>8, NamesStay

LEMMA WriteKeepsTypes ==
  ASSUME HttpTypeInv, HttpInv', (\E ans \in answers : WriteBegins(ans)) \/ WriteStepHttp
  PROVE  HttpTypeInv'
  <1>. DEFINE i == httpWrite.slot
  <1>0. HttpNames
    BY HttpNamesHold
  <1>1. ASSUME NEW ans \in answers, WriteBegins(ans) PROVE HttpTypeInv'
    <2>1. ans.req \in Named
      BY DEF HttpTypeInv, RequestsNamed, Named
    <2>2. httpWrite'.req \in {0, ans.req}
      BY <1>1 DEF WriteBegins, IdleWrite
    <2>3. /\ UNCHANGED <<clients, requests, slot, timers, mlinkQueue, removal, reached, disturbedReqs>>
          /\ answers' \subseteq answers
      BY <1>1 DEF WriteBegins
    <2>. QED  BY <1>0, <2>1, <2>2, <2>3, IdleNames, NamesStay DEF HttpNames
  <1>2. CASE RemovalStep("write")
    BY <1>2, RemovalKeepsTypes DEF Remover
  <1>3. CASE WriteStepHttp /\ ~ RemovalStep("write")
    <2>. USE <1>3 DEF WriteStepHttp
    <2>1. /\ WritesFor /\ i \in Slot /\ slot[i] \in ConnType /\ EntryNames(slot[i]) /\ httpWrite.req \in Request
          /\ UNCHANGED <<clients, requests, mlinkQueue, answers>>
      BY <1>0 DEF HttpNames, WriteHeader, WithHeader, WriteBody, WriteCount, WriteFooter, WriteFails,
                  WriteUnchanged, WritesFor
    <2>2. ASSUME NEW k \in Slot PROVE EntryNames(slot'[k])
      <3>1. \/ slot' = slot
            \/ slot' = [slot EXCEPT ![i].flag = "body"]
            \/ slot' = [slot EXCEPT ![i].num = Decremented(slot[i].num)]
        BY DEF WriteHeader, WithHeader, WriteBody, WriteCount, WriteFooter, WriteFails
      <3>2. Decremented(slot[i].num) \in Uint16
        BY <2>1, DecrementedIs DEF ConnType
      <3>3. /\ slot'[k].num \in {slot[k].num, Decremented(slot[i].num)}
            /\ slot'[k].timer = slot[k].timer /\ slot'[k].req = slot[k].req
        BY <1>0, <2>1, <3>1 DEF HttpNames, ConnType
      <3>. QED  BY <1>0, <3>2, <3>3 DEF HttpNames, EntryNames
    <2>3. timers' \subseteq [slot : Slot, req : Request]
      <3>1. timers' = timers \/ (slot[i].timer # 0 /\ timers' = timers \union {[slot |-> i, req |-> slot[i].timer]})
        BY DEF WriteHeader, WithHeader, WriteBody, WriteCount, WriteFooter, WriteFails
      <3>2. slot[i].timer # 0 => slot[i].timer \in Request
        BY <2>1 DEF EntryNames, Named
      <3>. QED  BY <1>0, <2>1, <3>1, <3>2 DEF HttpNames
    <2>4. httpWrite'.req \in Named
      <3>1. httpWrite' = IdleWrite \/ \E at \in {"header", "data", "count", "footer"} : httpWrite' = [httpWrite EXCEPT !.at = at]
        BY DEF WriteHeader, WithHeader, WriteBody, WriteCount, WriteFooter, WriteFails
      <3>. QED  BY <1>0, <3>1, IdleNames DEF HttpNames, WriteType
    <2>5. ASSUME NEW o \in Remover PROVE removal'[o].req \in Named
      <3>1. LastOf(slot[i]).req \in Named
        BY <2>1, IdleNames DEF LastOf, EntryNames
      <3>2. \/ removal' = removal
            \/ removal' = [removal EXCEPT !["write"] = LastOf(slot[i])]
            \/ removal' = [removal EXCEPT !["write"] = [NoRemoval EXCEPT !.at = "lookup", !.fd = slot[i].sockfd]]
        BY DEF WriteHeader, WithHeader, WriteBody, WriteCount, WriteFooter, WriteFails, SendGoesWrong
      <3>3. [NoRemoval EXCEPT !.at = "lookup", !.fd = slot[i].sockfd].req = 0
        BY DEF NoRemoval
      <3>. QED  BY <1>0, <3>1, <3>2, <3>3, IdleNames DEF HttpNames
    <2>6. reached' \subseteq [req : Request, device : Nat, client : 1 .. clients]
      <3>1. CASE ~ WriteBody \/ slot[i].sockfd = 0
        BY <1>0, <3>1 DEF HttpNames, WriteHeader, WithHeader, WriteBody, WriteCount, WriteFooter, WriteFails
      <3>2. CASE WriteBody /\ slot[i].sockfd # 0
        <4>1. slot[i].sockfd \in HttpFd /\ owner[slot[i].sockfd] # 0
          BY <2>1, <3>2 DEF WriteBody, CanSend, ConnType
        <4>2. owner[slot[i].sockfd] \in 1 .. clients
          BY <4>1 DEF HttpTypeInv, HttpInv, ClientTypes
        <4>3. httpWrite.device \in Nat
          BY <1>0 DEF HttpNames, WriteType
        <4>. QED  BY <1>0, <2>1, <3>2, <4>2, <4>3 DEF WriteBody, HttpNames
      <3>. QED  BY <3>1, <3>2
    <2>7. disturbedReqs' \subseteq Request
      <3>1. disturbedReqs' \subseteq disturbedReqs \union {p \in {slot[i].req} : Miscounts(httpWrite.req, p)}
        BY DEF WriteHeader, WithHeader, WriteBody, WriteCount, WriteFooter, WriteFails
      <3>. QED  BY <1>0, <3>1 DEF HttpNames, Miscounts
    <2>. QED  BY <2>1, <2>2, <2>3, <2>4, <2>5, <2>6, <2>7, NamesStay
  <1>. QED
    BY <1>1, <1>2, <1>3

LEMMA TimerKeepsTypes ==
  ASSUME HttpTypeInv, HttpInv', TimerStepHttp
  PROVE  HttpTypeInv'
  <1>0. HttpNames
    BY HttpNamesHold
  <1>1. CASE RemovalStep("timer")
    BY <1>1, RemovalKeepsTypes DEF Remover
  <1>2. CASE TimeoutStep
    <2>1. /\ UNCHANGED <<clients, requests, mlinkQueue, answers, httpWrite, reached, disturbedReqs>>
          /\ timers' \subseteq timers
      BY <1>2 DEF TimeoutStep, TimeoutBegins, TimeoutSends, TimeoutCloses
    <2>2. ASSUME NEW k \in Slot PROVE EntryNames(slot'[k])
      <3>1. slot' = slot \/ \E t \in timers : slot' = [slot EXCEPT ![t.slot].flag = "data"]
        BY <1>2 DEF TimeoutStep, TimeoutBegins, TimeoutSends, TimeoutCloses
      <3>2. slot'[k].num = slot[k].num /\ slot'[k].timer = slot[k].timer /\ slot'[k].req = slot[k].req
        <4>1. slot' = slot \/ \E m \in Slot : slot' = [slot EXCEPT ![m].flag = "data"]
          BY <1>0, <3>1 DEF HttpNames
        <4>2. CASE slot' = slot
          BY <4>2
        <4>3. ASSUME NEW m \in Slot, slot' = [slot EXCEPT ![m].flag = "data"]
              PROVE  slot'[k].num = slot[k].num /\ slot'[k].timer = slot[k].timer /\ slot'[k].req = slot[k].req
          BY <1>0, <4>3 DEF HttpNames, ConnType
        <4>. QED  BY <4>1, <4>2, <4>3
      <3>. QED  BY <1>0, <3>2 DEF HttpNames, EntryNames
    <2>3. ASSUME NEW o \in Remover PROVE removal'[o].req \in Named
      <3>. DEFINE c == timeoutCb.slot
      <3>1. CASE removal' = removal
        BY <1>0, <3>1 DEF HttpNames
      <3>2. CASE TimeoutSends /\ SendGoesWrong("timer", c)
        <4>1. removal' = [removal EXCEPT !["timer"] = [NoRemoval EXCEPT !.at = "lookup", !.fd = slot[c].sockfd]]
          BY <3>2 DEF SendGoesWrong
        <4>2. [NoRemoval EXCEPT !.at = "lookup", !.fd = slot[c].sockfd].req = 0
          BY DEF NoRemoval
        <4>. QED  BY <1>0, <4>1, <4>2, IdleNames DEF HttpNames
      <3>3. CASE TimeoutCloses
        <4>1. removal' = [removal EXCEPT !["timer"] = [at |-> "stop", fd |-> 0, slot |-> c, req |-> slot[c].req]]
              /\ c \in Slot
          BY <1>0, <3>3 DEF TimeoutCloses, HttpNames
        <4>2. slot[c].req \in Named
          BY <1>0, <4>1 DEF HttpNames, EntryNames
        <4>. QED  BY <1>0, <4>1, <4>2 DEF HttpNames
      <3>. QED
        BY <1>2, <3>1, <3>2, <3>3 DEF TimeoutStep, TimeoutBegins, TimeoutSends
    <2>. QED  BY <1>0, <2>1, <2>2, <2>3, NamesStay DEF HttpNames
  <1>. QED  BY <1>1, <1>2 DEF TimerStepHttp

LEMMA HttpTypesStep == HttpTypeInv /\ [HttpNext]_httpVars => HttpTypeInv'
  <1>. SUFFICES ASSUME HttpTypeInv, [HttpNext]_httpVars PROVE HttpTypeInv'
    OBVIOUS
  <1>1. HttpInv'
    BY HttpInvStep DEF HttpTypeInv
  <1>2. CASE UNCHANGED httpVars
    BY <1>1, <1>2 DEF httpVars, HttpTypeInv, RequestsNamed, HttpBounds, EntryNames, Named, Request
  <1>. QED
    BY <1>1, <1>2, ServerKeepsTypes, RequestKeepsTypes, ReadKeepsTypes, WriteKeepsTypes, TimerKeepsTypes
    DEF HttpNext

LEMMA HttpTypes == HttpTypeInv => HttpTypeOK
  <1>. SUFFICES ASSUME HttpTypeInv PROVE HttpTypeOK
    OBVIOUS
  <1>1. clients \in 0 .. HttpClients /\ owner \in [HttpFd -> 0 .. clients]
    BY HttpNumbers DEF HttpTypeInv, HttpInv, ClientTypes, HttpBounds
  <1>2. \A q \in Request : /\ requests[q].client \in 1 .. clients /\ requests[q].fd \in HttpFd
                           /\ requests[q].num \in HttpDevices
    BY KnownRequest DEF HttpTypeInv, HttpInv
  <1>3. slot \in [Slot -> [flag : {"none", "data", "header", "body"}, sockfd : {0} \union HttpFd,
                           num : Uint16, timer : {0} \union Request, req : {0} \union Request]]
    <2>1. slot \in [Slot -> ConnType] /\ \A i \in Slot : EntryNames(slot[i])
      BY DEF HttpTypeInv, HttpInv, SlotTypes, RequestsNamed
    <2>2. ASSUME NEW i \in Slot
          PROVE  slot[i] \in [flag : {"none", "data", "header", "body"}, sockfd : {0} \union HttpFd,
                              num : Uint16, timer : {0} \union Request, req : {0} \union Request]
      BY <2>1 DEF ConnType, EntryNames, Named
    <2>. QED  BY <2>1, <2>2
  <1>4. \A i \in DOMAIN mlinkQueue : mlinkQueue[i].req \in Request
    <2>1. mlinkQueue \in Seq([req : Request, num : Nat])
      BY DEF HttpTypeInv, HttpInv, QueueTypes
    <2>. DEFINE S == [req : Request, num : Nat]
    <2>2. mlinkQueue \in Seq(S)
      BY <2>1
    <2>. HIDE DEF S
    <2>3. \A i \in DOMAIN mlinkQueue : mlinkQueue[i] \in S
      BY <2>2
    <2>. QED  BY <2>3 DEF S
  <1>5. /\ httpWrite \in [at : {"idle", "begun", "header", "data", "count", "footer"}, slot : 0 .. HttpSlots,
                          req : {0} \union Request, device : Nat, kept : BOOLEAN]
        /\ removal \in [Remover -> [at : {"none", "lookup", "close", "stop", "clear"}, fd : {0} \union HttpFd,
                                    slot : 0 .. HttpSlots, req : {0} \union Request]]
    <2>1. HttpNames
      BY HttpNamesHold
    <2>2. ASSUME NEW p \in Remover
          PROVE  removal[p] \in [at : {"none", "lookup", "close", "stop", "clear"}, fd : {0} \union HttpFd,
                                 slot : 0 .. HttpSlots, req : {0} \union Request]
      BY <2>1 DEF HttpNames, RemovalType, Named
    <2>3. removal \in [Remover -> RemovalType]
      BY <2>1 DEF HttpNames
    <2>4. httpWrite \in [at : {"idle", "begun", "header", "data", "count", "footer"}, slot : 0 .. HttpSlots,
                         req : {0} \union Request, device : Nat, kept : BOOLEAN]
      BY <2>1 DEF HttpNames, WriteType, Named
    <2>. QED  BY <2>2, <2>3, <2>4
  <1>. QED
    BY <1>1, <1>2, <1>3, <1>4, <1>5
    DEF HttpTypeInv, HttpInv, HttpBounds, RequestsNamed, SlotTypes, HttpTypeOK
-----------------------------------------------------------------------------
(* The services together                                                   *)

\* What each service keeps, which the others leave alone.
ServicesInv ==
  /\ EspnowInv /\ FlashTypeInv /\ EventLoopTypeOK /\ NoticeInv /\ HttpTypeInv
  /\ KeptInv /\ ChainInv /\ ControlInv /\ CheckInv

LEMMA ServicesInvInit == ServicesInit => ServicesInv
  <1>1. MespnowInit => EspnowInv
    BY EspnowInvInit
  <1>2. CheckInit => CheckInv
    BY CheckInvInit
  <1>. QED
    BY <1>1, <1>2, FlashTypesInit, EventTypesInit, NoticeInvInit, HttpTypesInit, KeptInit, ChainInvInit,
       ControlInvInit
    DEF ServicesInit, ServicesInv

\* One service takes a step, or none.
OneServiceSteps ==
  /\ [MespnowNext]_espnowVars /\ [FlashNext]_flashVars /\ [EventLoopNext]_eventVars
  /\ [NoticeNext]_noticeVars /\ [HttpNext]_httpVars /\ [TriggerNext]_triggerVars
  /\ [ChainNext]_chainVars /\ [ControlNext]_controlVars /\ [CheckNext]_checkVars

LEMMA OneServiceAtATime == [ServicesNext]_serviceVars => OneServiceSteps
  BY DEF ServicesNext, serviceVars, OneServiceSteps, EspnowOnly, FlashOnly, EventOnly, NoticeOnly,
         HttpOnly, TriggerOnly, ChainOnly, ControlOnly, CheckOnly

LEMMA ServicesInvStep == ServicesInv /\ [ServicesNext]_serviceVars => ServicesInv'
  BY OneServiceAtATime, EspnowInvStep, FlashTypesStep, EventTypesStep, NoticeInvStep, HttpTypesStep, KeptStep,
     ChainInvStep, ControlStepInv, CheckInvStep
  DEF OneServiceSteps, ServicesInv

\* The variables of every service have their types, for any number of devices, entries,
\* events, notices, requests, triggers, boots and failures.
THEOREM ServicesTypesHold == ServicesSafety => []ServicesTypeOK
  <1>1. ServicesInv => ServicesTypeOK
    <2>1. KeptInv => TriggerTypeOK
      BY DEF KeptInv
    <2>2. ControlInv => ControlTypeOK
      BY DEF ControlInv
    <2>3. ChainInv => ChainTypeOK
      BY DEF ChainInv
    <2>4. NoticeInv => NoticeTypeOK
      BY DEF NoticeInv
    <2>. QED
      BY <2>1, <2>2, <2>3, <2>4, EspnowTypesOK, FlashTypes, HttpTypes, CheckTypes DEF ServicesInv, ServicesTypeOK
  <1>. QED
    BY <1>1, ServicesInvInit, ServicesInvStep, PTL DEF ServicesSafety

-----------------------------------------------------------------------------
(* The mark of a project.  The induction is over sets of numbers.          *)

\* What holds of zero and passes on holds of every number.
LEMMA EveryNumber ==
  ASSUME NEW T, 0 \in T, \A n \in Nat : n \in T => n + 1 \in T
  PROVE  Nat \subseteq T
  <1>. DEFINE F == Nat \ T
  <1>. SUFFICES ASSUME F # {} PROVE FALSE
    OBVIOUS
  <1>1. PICK i \in F : \A k \in F : ~ (<<k, i>> \in OpToRel(<, Nat))
    BY NatLessThanWellFounded, WFMin, F \in SUBSET Nat
  <1>2. \A k \in F : ~ (k < i)
    BY <1>1 DEF OpToRel
  <1>3. i - 1 \in Nat /\ i \in Nat /\ i \notin T
    BY SMT
  <1>4. i - 1 \in T
    BY <1>2, <1>3
  <1>. QED  BY <1>3, <1>4

\* And what passes on from all smaller numbers.
LEMMA EveryNumberStrong ==
  ASSUME NEW T, \A n \in Nat : (\A m \in Nat : m < n => m \in T) => n \in T
  PROVE  Nat \subseteq T
  <1>. DEFINE F == Nat \ T
  <1>. SUFFICES ASSUME F # {} PROVE FALSE
    OBVIOUS
  <1>1. PICK i \in F : \A k \in F : ~ (<<k, i>> \in OpToRel(<, Nat))
    BY NatLessThanWellFounded, WFMin, F \in SUBSET Nat
  <1>2. \A k \in F : ~ (k < i)
    BY <1>1 DEF OpToRel
  <1>3. \A m \in Nat : m < i => m \in T
    BY <1>2
  <1>. QED  BY <1>3

-----------------------------------------------------------------------------
\* The first j letters of the target end after letter k of some text.
EndsAt(target, text, j, k) == j <= k /\ \A i \in 1 .. j : target[i] = text[k - j + i]

\* For each of the first n places, the most of the beginning that ends there, but not all.
NextIs(target, next, n) ==
  \A i \in 1 .. n :
    /\ next[i] \in 0 .. i - 1 /\ EndsAt(target, target, next[i], i)
    /\ \A j \in 0 .. i - 1 : EndsAt(target, target, j, i) => j <= next[i]

LEMMA EndsTwice ==
  ASSUME NEW target, NEW text, NEW i \in Nat, NEW j \in Nat, NEW k \in Nat,
         EndsAt(target, target, i, j), EndsAt(target, text, j, k)
  PROVE  EndsAt(target, text, i, k)
  <1>1. i <= k
    BY DEF EndsAt
  <1>2. ASSUME NEW l \in 1 .. i PROVE target[l] = text[k - i + l]
    <2>1. target[l] = target[j - i + l] /\ i <= j /\ j <= k
      BY DEF EndsAt
    <2>2. j - i + l \in 1 .. j
      BY <2>1
    <2>3. target[j - i + l] = text[k - j + (j - i + l)]
      BY <2>2 DEF EndsAt
    <2>4. k - j + (j - i + l) = k - i + l
      OBVIOUS
    <2>. QED  BY <2>1, <2>3, <2>4
  <1>. QED  BY <1>1, <1>2 DEF EndsAt

LEMMA EndsInside ==
  ASSUME NEW target, NEW text, NEW i \in Nat, NEW j \in Nat, NEW k \in Nat, i <= j,
         EndsAt(target, text, i, k), EndsAt(target, text, j, k)
  PROVE  EndsAt(target, target, i, j)
  <1>2. ASSUME NEW l \in 1 .. i PROVE target[l] = target[j - i + l]
    <2>1. target[l] = text[k - i + l] /\ i <= j /\ j <= k
      BY DEF EndsAt
    <2>2. j - i + l \in 1 .. j
      BY <2>1
    <2>3. target[j - i + l] = text[k - j + (j - i + l)]
      BY <2>2 DEF EndsAt
    <2>4. k - j + (j - i + l) = k - i + l
      OBVIOUS
    <2>. QED  BY <2>1, <2>3, <2>4
  <1>. QED  BY <1>2 DEF EndsAt

\* One letter more.
LEMMA EndsOneLess ==
  ASSUME NEW target, NEW text, NEW j \in Nat, NEW k \in Nat, NEW i \in Nat, NEW l \in Nat,
         i = j + 1, l = k + 1, EndsAt(target, text, i, l)
  PROVE  EndsAt(target, text, j, k) /\ target[i] = text[l]
  <1>1. j <= k /\ \A m \in 1 .. j + 1 : target[m] = text[l - i + m]
    BY DEF EndsAt
  <1>2. \A m \in 1 .. j : target[m] = text[k - j + m]
    <2>1. l - i = k - j
      OBVIOUS
    <2>. QED  BY <1>1, <2>1
  <1>3. i \in 1 .. j + 1 /\ l - i + i = l
    OBVIOUS
  <1>. QED  BY <1>1, <1>2, <1>3 DEF EndsAt

LEMMA EndsOneMore ==
  ASSUME NEW target, NEW text, NEW j \in Nat, NEW k \in Nat,
         EndsAt(target, text, j, k), target[j + 1] = text[k + 1]
  PROVE  EndsAt(target, text, j + 1, k + 1)
  <1>1. j + 1 <= k + 1
    BY DEF EndsAt
  <1>2. ASSUME NEW i \in 1 .. j + 1 PROVE target[i] = text[(k + 1) - (j + 1) + i]
    <2>1. (k + 1) - (j + 1) + i = k - j + i
      OBVIOUS
    <2>2. CASE i = j + 1
      <3>1. k - j + i = k + 1
        BY <2>2
      <3>. QED  BY <2>1, <2>2, <3>1
    <2>3. CASE i # j + 1
      <3>1. i \in 1 .. j
        BY <2>3
      <3>. QED  BY <2>1, <3>1 DEF EndsAt
    <2>. QED  BY <2>2, <2>3
  <1>. QED  BY <1>1, <1>2 DEF EndsAt

-----------------------------------------------------------------------------
\* Where falling back from each of the first k places ends, when letter c comes.
FallsBack(target, next, c, k, g) ==
  g = [j \in 0 .. k |-> IF j = 0 \/ target[j + 1] = c THEN j ELSE g[next[j]]]

\* A table that leads back to smaller places defines where falling back ends, for every
\* place of it.
LEMMA FallingBackEnds ==
  ASSUME NEW target, NEW next, NEW c, NEW k \in Nat, \A i \in 1 .. k : next[i] \in 0 .. i - 1
  PROVE  \E g : FallsBack(target, next, c, k, g)
  <1>. DEFINE Works(m, g) ==
                \A j \in 0 .. m : g[j] = IF j = 0 \/ target[j + 1] = c THEN j ELSE g[next[j]]
              There(m) == \E g \in [0 .. m -> 0 .. m] : Works(m, g)
              T == {m \in Nat : m <= k => There(m)}
  <1>1. 0 \in T
    <2>1. [j \in 0 .. 0 |-> 0] \in [0 .. 0 -> 0 .. 0] /\ Works(0, [j \in 0 .. 0 |-> 0])
      OBVIOUS
    <2>. QED  BY <2>1
  <1>2. ASSUME NEW m \in Nat, m \in T PROVE m + 1 \in T
    <2>. SUFFICES ASSUME m + 1 <= k PROVE There(m + 1)
      <3>. HIDE DEF There
      <3>. QED  OBVIOUS
    <2>0. There(m)
      <3>. HIDE DEF There
      <3>. QED  BY <1>2
    <2>1. PICK g \in [0 .. m -> 0 .. m] : Works(m, g)
      BY <2>0
    <2>. DEFINE e == IF target[m + 2] = c THEN m + 1 ELSE g[next[m + 1]]
                h == [j \in 0 .. m + 1 |-> IF j = m + 1 THEN e ELSE g[j]]
    <2>2. next[m + 1] \in 0 .. m
      BY m + 1 \in 1 .. k
    <2>3. e \in 0 .. m + 1
      BY <2>2
    <2>4. h \in [0 .. m + 1 -> 0 .. m + 1]
      BY <2>3
    <2>5. ASSUME NEW j \in 0 .. m + 1
          PROVE  h[j] = IF j = 0 \/ target[j + 1] = c THEN j ELSE h[next[j]]
      <3>1. CASE j = m + 1
        BY <3>1, <2>2
      <3>2. CASE j # m + 1
        <4>1. j \in 0 .. m /\ h[j] = g[j]
          BY <3>2
        <4>0. j # 0 => j \in 1 .. k
          BY <4>1
        <4>2. ASSUME j # 0 PROVE next[j] \in 0 .. m /\ next[j] # m + 1
          <5>1. next[j] \in 0 .. j - 1
            BY <4>0, <4>2
          <5>. QED  BY <4>1, <5>1
        <4>3. j # 0 => h[next[j]] = g[next[j]]
          BY <4>2
        <4>. QED  BY <4>1, <4>3, <2>1
      <3>. QED  BY <3>1, <3>2
    <2>6. Works(m + 1, h)
      <3>. HIDE DEF h
      <3>. QED  BY <2>5
    <2>. HIDE DEF h, Works
    <2>. QED  BY <2>4, <2>6
  <1>3. Nat \subseteq T
    <2>. HIDE DEF T
    <2>. QED  BY <1>1, <1>2, EveryNumber
  <1>4. There(k)
    <2>. HIDE DEF There
    <2>. QED  BY <1>3
  <1>5. PICK g \in [0 .. k -> 0 .. k] : Works(k, g)
    BY <1>4
  <1>6. FallsBack(target, next, c, k, g)
    BY <1>5 DEF FallsBack
  <1>. QED  BY <1>6

\* The letter c follows the first j letters of the target, or there are none.
CanFollow(target, j, c) == j = 0 \/ target[j + 1] = c

\* Falling back gives the most of what ends with the first k letters that c can follow.
LEMMA FallBackIs ==
  ASSUME NEW target, NEW next, NEW c, NEW k \in Nat, NextIs(target, next, k)
  PROVE  /\ FallBack(target, next, k, c) \in 0 .. k
         /\ EndsAt(target, target, FallBack(target, next, k, c), k)
         /\ CanFollow(target, FallBack(target, next, k, c), c)
         /\ \A j \in 0 .. k : EndsAt(target, target, j, k) /\ target[j + 1] = c
                             => j <= FallBack(target, next, k, c)
  <1>. DEFINE back == CHOOSE g : g = [j \in 0 .. k |-> IF j = 0 \/ target[j + 1] = c THEN j
                                                       ELSE g[next[j]]]
  <1>1. \A i \in 1 .. k : next[i] \in 0 .. i - 1
    BY DEF NextIs
  <1>2. back = [j \in 0 .. k |-> IF j = 0 \/ target[j + 1] = c THEN j ELSE back[next[j]]]
    <2>1. PICK f : FallsBack(target, next, c, k, f)
      BY <1>1, FallingBackEnds
    <2>. QED  BY <2>1 DEF FallsBack
  <1>3. FallBack(target, next, k, c) = back[k]
    BY DEF FallBack
  <1>. HIDE DEF back
  <1>. DEFINE Right(m) == /\ back[m] \in 0 .. m /\ EndsAt(target, target, back[m], m)
                          /\ CanFollow(target, back[m], c)
                          /\ \A j \in 0 .. m : EndsAt(target, target, j, m) /\ target[j + 1] = c
                                              => j <= back[m]
              T == {m \in Nat : m <= k => Right(m)}
  <1>4. ASSUME NEW m \in Nat, \A l \in Nat : l < m => l \in T PROVE m \in T
    <2>. SUFFICES ASSUME m <= k PROVE Right(m)
      OBVIOUS
    <2>1. CASE m = 0 \/ target[m + 1] = c
      <3>1. back[m] = m
        BY <1>2, <2>1
      <3>2. EndsAt(target, target, m, m)
        BY DEF EndsAt
      <3>. QED  BY <3>1, <3>2, <2>1 DEF CanFollow
    <2>2. CASE ~ (m = 0 \/ target[m + 1] = c)
      <3>0. m \in 1 .. k
        BY <2>2
      <3>. DEFINE l == next[m]
      <3>1. back[m] = back[l]
        BY <1>2, <2>2, <3>0
      <3>2. l \in Nat /\ l < m /\ EndsAt(target, target, l, m)
            /\ \A j \in 0 .. m - 1 : EndsAt(target, target, j, m) => j <= l
        BY <3>0 DEF NextIs
      <3>. HIDE DEF l
      <3>3. Right(l)
        BY <1>4, <3>2
      <3>4. back[m] \in 0 .. m
        BY <3>1, <3>2, <3>3
      <3>5. EndsAt(target, target, back[m], m)
        BY <3>1, <3>2, <3>3, EndsTwice
      <3>6. ASSUME NEW j \in 0 .. m, EndsAt(target, target, j, m), target[j + 1] = c
            PROVE  j <= back[m]
        <4>1. j # m
          BY <2>2, <3>6
        <4>2. j <= l
          BY <3>2, <3>6, <4>1
        <4>3. EndsAt(target, target, j, l)
          BY <3>2, <3>6, <4>2, EndsInside
        <4>. QED  BY <3>1, <3>3, <3>6, <4>2, <4>3, <3>2
      <3>. QED  BY <3>1, <3>3, <3>4, <3>5, <3>6
    <2>. QED  BY <2>1, <2>2
  <1>5. Nat \subseteq T
    <2>. HIDE DEF T
    <2>. QED  BY <1>4, EveryNumberStrong
  <1>6. Right(k)
    BY <1>5
  <1>. QED  BY <1>3, <1>6

\* With a letter more, the most of the target that ends there.
LEMMA AdvanceIs ==
  ASSUME NEW target, NEW text, NEW next, NEW n \in Nat, NEW i \in Nat, NEW k \in Nat,
         NextIs(target, next, k), EndsAt(target, text, k, i),
         \A j \in 0 .. n : EndsAt(target, text, j, i) => j <= k, k <= n
  PROVE  LET r == Advance(target, FallBack(target, next, k, text[i + 1]), text[i + 1]) IN
         /\ r \in 0 .. k + 1 /\ EndsAt(target, text, r, i + 1)
         /\ \A j \in 0 .. n + 1 : EndsAt(target, text, j, i + 1) => j <= r
  <1>. DEFINE c == text[i + 1]
              b == FallBack(target, next, k, c)
              r == Advance(target, b, c)
  <1>1. /\ b \in 0 .. k /\ EndsAt(target, target, b, k) /\ CanFollow(target, b, c)
        /\ \A j \in 0 .. k : EndsAt(target, target, j, k) /\ target[j + 1] = c => j <= b
    BY FallBackIs
  <1>2. r = IF target[b + 1] = c THEN b + 1 ELSE b
    BY DEF Advance
  <1>. HIDE DEF b, r
  <1>3. EndsAt(target, text, b, i)
    BY <1>1, EndsTwice
  <1>4. EndsAt(target, text, r, i + 1)
    <2>1. CASE target[b + 1] = c
      BY <2>1, <1>1, <1>2, <1>3, EndsOneMore
    <2>2. CASE target[b + 1] # c
      <3>1. r = 0
        BY <2>2, <1>1, <1>2 DEF CanFollow
      <3>. QED  BY <3>1 DEF EndsAt
    <2>. QED  BY <2>1, <2>2
  <1>5. ASSUME NEW j \in 0 .. n + 1, EndsAt(target, text, j, i + 1) PROVE j <= r
    <2>. SUFFICES ASSUME j # 0 PROVE j <= r
      BY <1>1, <1>2
    <2>1. PICK l \in 0 .. n : l + 1 = j
      <3>1. j - 1 \in 0 .. n /\ (j - 1) + 1 = j
        OBVIOUS
      <3>. QED  BY <3>1
    <2>2. EndsAt(target, text, l, i) /\ target[j] = c
      <3>1. j \in Nat /\ l \in Nat /\ j = l + 1
        BY <2>1
      <3>2. PICK i1 \in Nat : i1 = i + 1
        BY i + 1 \in Nat
      <3>3. EndsAt(target, text, j, i1)
        BY <1>5, <3>2
      <3>4. EndsAt(target, text, l, i) /\ target[j] = text[i1]
        BY <3>1, <3>2, <3>3, EndsOneLess
      <3>. QED  BY <3>2, <3>4
    <2>3. l <= k
      BY <2>1, <2>2
    <2>4. EndsAt(target, target, l, k)
      BY <2>1, <2>2, <2>3, EndsInside
    <2>5. l <= b
      BY <1>1, <2>1, <2>2, <2>3, <2>4
    <2>6. CASE target[b + 1] = c
      BY <2>1, <2>5, <2>6, <1>1, <1>2
    <2>7. CASE target[b + 1] # c
      <3>1. b = 0 /\ j = 1
        BY <2>1, <2>5, <2>7, <1>1 DEF CanFollow
      <3>. QED  BY <3>1, <2>2, <2>7
    <2>. QED  BY <2>6, <2>7
  <1>6. r \in 0 .. k + 1
    BY <1>1, <1>2
  <1>. QED  BY <1>4, <1>5, <1>6 DEF r, b

-----------------------------------------------------------------------------
\* The tables of the first m places, each from the one before.
AreTables(target, m, g) ==
  g = [i \in 1 .. m |->
        IF i = 1 THEN <<0>>
        ELSE LET next == g[i - 1]
                 k == FallBack(target, next, next[i - 1], target[i])
             IN Append(next, Advance(target, k, target[i]))]

LEMMA TablesEnd == ASSUME NEW target PROVE \A m \in Nat : \E g : AreTables(target, m, g)
  <1>. DEFINE Step(g, i) == LET next == g[i - 1]
                                k == FallBack(target, next, next[i - 1], target[i])
                            IN Append(next, Advance(target, k, target[i]))
              Value(g, i) == IF i = 1 THEN <<0>> ELSE Step(g, i)
              There(m) == \E g : g = [i \in 1 .. m |-> Value(g, i)]
              T == {m \in Nat : There(m)}
  <1>1. There(0)
    <2>. DEFINE g == [i \in 1 .. 0 |-> 0]
    <2>1. g = [i \in 1 .. 0 |-> Value(g, i)]
      <3>. HIDE DEF Value
      <3>. QED  OBVIOUS
    <2>. HIDE DEF g, Value
    <2>. QED  BY <2>1
  <1>2. ASSUME NEW m \in Nat, There(m) PROVE There(m + 1)
    <2>1. PICK g : g = [i \in 1 .. m |-> Value(g, i)]
      BY <1>2
    <2>. DEFINE h == [i \in 1 .. m + 1 |-> IF i = m + 1 THEN Value(g, m + 1) ELSE g[i]]
    <2>2. ASSUME NEW i \in 1 .. m + 1 PROVE h[i] = Value(h, i)
      <3>1. i # 1 => h[i - 1] = g[i - 1]
        <4>. HIDE DEF Value
        <4>. QED  OBVIOUS
      <3>2. Value(h, i) = Value(g, i)
        <4>. HIDE DEF h
        <4>. QED  BY <3>1
      <3>3. h[i] = Value(g, i)
        <4>. HIDE DEF Value
        <4>. QED  BY <2>1
      <3>. QED  BY <3>2, <3>3
    <2>3. h = [i \in 1 .. m + 1 |-> Value(h, i)]
      <3>. DEFINE f == [i \in 1 .. m + 1 |-> Value(h, i)]
      <3>1. \A i \in 1 .. m + 1 : h[i] = f[i]
        <4>. HIDE DEF h, Value
        <4>. QED  BY <2>2
      <3>2. h = [i \in DOMAIN h |-> h[i]] /\ DOMAIN h = 1 .. m + 1
        <4>. HIDE DEF Value
        <4>. QED  OBVIOUS
      <3>. HIDE DEF h, Value
      <3>. QED  BY <3>1, <3>2
    <2>. HIDE DEF h, Value
    <2>. QED  BY <2>3
  <1>3. Nat \subseteq T
    <2>. HIDE DEF There
    <2>1. 0 \in T /\ \A m \in Nat : m \in T => m + 1 \in T
      BY <1>1, <1>2
    <2>. HIDE DEF T
    <2>. QED  BY <2>1, EveryNumber
  <1>4. \A m \in Nat : There(m)
    <2>. HIDE DEF There
    <2>. QED  BY <1>3
  <1>. QED  BY <1>4 DEF AreTables

GoodTable(target, next, n) == next \in Seq(Nat) /\ Len(next) = n /\ NextIs(target, next, n)

LEMMA TableGrows ==
  ASSUME NEW target, NEW next, NEW m \in Nat \ {0}, GoodTable(target, next, m)
  PROVE  LET k == FallBack(target, next, next[m], target[m + 1])
         IN  GoodTable(target, Append(next, Advance(target, k, target[m + 1])), m + 1)
  <1>. DEFINE r == Advance(target, FallBack(target, next, next[m], target[m + 1]), target[m + 1])
              longer == Append(next, r)
  <1>1. /\ next[m] \in 0 .. m - 1 /\ EndsAt(target, target, next[m], m)
        /\ \A j \in 0 .. m - 1 : EndsAt(target, target, j, m) => j <= next[m]
    BY m \in 1 .. m DEF GoodTable, NextIs
  <1>2. NextIs(target, next, next[m])
    BY <1>1 DEF GoodTable, NextIs
  <1>3. m - 1 \in Nat /\ next[m] \in Nat /\ next[m] <= m - 1 /\ (m - 1) + 1 = m
    BY <1>1
  <1>4. /\ r \in 0 .. next[m] + 1 /\ EndsAt(target, target, r, m + 1)
        /\ \A j \in 0 .. (m - 1) + 1 : EndsAt(target, target, j, m + 1) => j <= r
    <2>1. PICK n \in Nat : n = m - 1
      BY <1>3
    <2>2. PICK k \in Nat : k = next[m]
      BY <1>3
    <2>. QED  BY <1>1, <1>2, <1>3, <2>1, <2>2, AdvanceIs
  <1>. HIDE DEF r
  <1>5. r \in 0 .. m /\ \A j \in 0 .. m : EndsAt(target, target, j, m + 1) => j <= r
    BY <1>3, <1>4
  <1>6. longer \in Seq(Nat) /\ Len(longer) = m + 1
    BY <1>5 DEF GoodTable
  <1>7. longer[m + 1] = r /\ \A i \in 1 .. m : longer[i] = next[i]
    BY <1>5 DEF GoodTable
  <1>8. NextIs(target, longer, m + 1)
    <2>. SUFFICES ASSUME NEW i \in 1 .. m + 1
                  PROVE  /\ longer[i] \in 0 .. i - 1 /\ EndsAt(target, target, longer[i], i)
                         /\ \A j \in 0 .. i - 1 : EndsAt(target, target, j, i) => j <= longer[i]
      BY DEF NextIs
    <2>. HIDE DEF longer
    <2>1. CASE i = m + 1
      BY <2>1, <1>4, <1>5, <1>7
    <2>2. CASE i # m + 1
      <3>1. i \in 1 .. m
        BY <2>2
      <3>. QED  BY <3>1, <1>7 DEF GoodTable, NextIs
    <2>. QED  BY <2>1, <2>2
  <1>. QED  BY <1>6, <1>8 DEF GoodTable, r

\* The table is right, for every target.
LEMMA KmpNextIs ==
  ASSUME NEW target, Len(target) \in Nat \ {0}
  PROVE  GoodTable(target, KmpNext(target), Len(target))
  <1>. DEFINE n == Len(target)
              table == CHOOSE g : g = [i \in 1 .. Len(target) |->
                         IF i = 1 THEN <<0>>
                         ELSE LET next == g[i - 1]
                                  k == FallBack(target, next, next[i - 1], target[i])
                              IN Append(next, Advance(target, k, target[i]))]
  <1>1. AreTables(target, Len(target), table)
    <2>1. PICK f : AreTables(target, Len(target), f)
      BY TablesEnd
    <2>. QED  BY <2>1 DEF AreTables
  <1>2. KmpNext(target) = table[Len(target)]
    BY DEF KmpNext
  <1>. HIDE DEF table
  <1>. DEFINE T == {m \in Nat : m + 1 <= Len(target) => GoodTable(target, table[m + 1], m + 1)}
  <1>3. 0 \in T
    <2>1. table[1] = <<0>>
      BY <1>1, 1 \in 1 .. Len(target) DEF AreTables
    <2>2. NextIs(target, <<0>>, 1)
      BY DEF NextIs, EndsAt
    <2>3. <<0>> \in Seq(Nat) /\ Len(<<0>>) = 1
      OBVIOUS
    <2>4. GoodTable(target, table[1], 1) /\ 0 + 1 = 1
      BY <2>1, <2>2, <2>3 DEF GoodTable
    <2>. QED  BY <2>4
  <1>4. ASSUME NEW m \in Nat, m \in T PROVE m + 1 \in T
    <2>. SUFFICES ASSUME m + 2 <= Len(target) PROVE GoodTable(target, table[m + 2], m + 2)
      <3>1. m + 1 + 1 = m + 2
        OBVIOUS
      <3>. QED  BY <3>1
    <2>1. PICK i \in Nat \ {0} : i = m + 1
      BY m + 1 \in Nat \ {0}
    <2>2. GoodTable(target, table[i], i)
      BY <1>4, <2>1
    <2>3. i + 1 \in 1 .. Len(target) /\ i + 1 # 1 /\ (i + 1) - 1 = i /\ i + 1 = m + 2
      BY <2>1
    <2>4. table[i + 1] = Append(table[i],
                 Advance(target, FallBack(target, table[i], table[i][i], target[i + 1]), target[i + 1]))
      BY <1>1, <2>3 DEF AreTables
    <2>5. GoodTable(target, table[i + 1], i + 1)
      BY <2>2, <2>4, TableGrows
    <2>. QED  BY <2>3, <2>5
  <1>5. Nat \subseteq T
    <2>. HIDE DEF T
    <2>. QED  BY <1>3, <1>4, EveryNumber
  <1>6. Len(target) - 1 \in T /\ (Len(target) - 1) + 1 = Len(target)
    <2>1. Len(target) - 1 \in Nat
      OBVIOUS
    <2>. HIDE DEF T
    <2>. QED  BY <1>5, <2>1
  <1>7. GoodTable(target, table[Len(target)], Len(target))
    BY <1>6
  <1>. QED  BY <1>2, <1>7

-----------------------------------------------------------------------------
\* How much of the target ends at each of the first m letters, until all of it does.
AreMatched(src, target, next, m, g) ==
  g = [i \in 0 .. m |->
        IF i = 0 THEN 0
        ELSE LET k == g[i - 1] IN
             IF k = Len(target) THEN k
             ELSE Advance(target, FallBack(target, next, k, src[i]), src[i])]

LEMMA MatchingEnds ==
  ASSUME NEW src, NEW target, NEW next
  PROVE  \A m \in Nat : \E g : AreMatched(src, target, next, m, g)
  <1>. DEFINE Step(g, i) == LET k == g[i - 1] IN
                            IF k = Len(target) THEN k
                            ELSE Advance(target, FallBack(target, next, k, src[i]), src[i])
              Value(g, i) == IF i = 0 THEN 0 ELSE Step(g, i)
              There(m) == \E g : g = [i \in 0 .. m |-> Value(g, i)]
              T == {m \in Nat : There(m)}
  <1>1. There(0)
    <2>. DEFINE g == [i \in 0 .. 0 |-> 0]
    <2>1. \A i \in 0 .. 0 : Value(g, i) = 0
      <3>. HIDE DEF Step
      <3>. QED  OBVIOUS
    <2>2. g = [i \in 0 .. 0 |-> Value(g, i)]
      <3>. HIDE DEF Value
      <3>. QED  BY <2>1
    <2>. HIDE DEF g, Value
    <2>. QED  BY <2>2
  <1>2. ASSUME NEW m \in Nat, There(m) PROVE There(m + 1)
    <2>1. PICK g : g = [i \in 0 .. m |-> Value(g, i)]
      BY <1>2
    <2>. DEFINE h == [i \in 0 .. m + 1 |-> IF i = m + 1 THEN Value(g, m + 1) ELSE g[i]]
    <2>2. ASSUME NEW i \in 0 .. m + 1 PROVE h[i] = Value(h, i)
      <3>1. i # 0 => h[i - 1] = g[i - 1]
        <4>. HIDE DEF Value
        <4>. QED  OBVIOUS
      <3>2. Value(h, i) = Value(g, i)
        <4>. HIDE DEF h
        <4>. QED  BY <3>1
      <3>3. h[i] = Value(g, i)
        <4>. HIDE DEF Value
        <4>. QED  BY <2>1
      <3>. QED  BY <3>2, <3>3
    <2>3. h = [i \in 0 .. m + 1 |-> Value(h, i)]
      <3>. DEFINE f == [i \in 0 .. m + 1 |-> Value(h, i)]
      <3>1. \A i \in 0 .. m + 1 : h[i] = f[i]
        <4>. HIDE DEF h, Value
        <4>. QED  BY <2>2
      <3>2. h = [i \in DOMAIN h |-> h[i]] /\ DOMAIN h = 0 .. m + 1
        <4>. HIDE DEF Value
        <4>. QED  OBVIOUS
      <3>. HIDE DEF h, Value
      <3>. QED  BY <3>1, <3>2
    <2>. HIDE DEF h, Value
    <2>. QED  BY <2>3
  <1>3. Nat \subseteq T
    <2>. HIDE DEF There
    <2>1. 0 \in T /\ \A m \in Nat : m \in T => m + 1 \in T
      BY <1>1, <1>2
    <2>. HIDE DEF T
    <2>. QED  BY <2>1, EveryNumber
  <1>4. \A m \in Nat : There(m)
    <2>. HIDE DEF There
    <2>. QED  BY <1>3
  <1>. QED  BY <1>4 DEF AreMatched

\* After m letters with k matched: all of the target has been there, or k is the most of
\* it that ends there and all of it has not.
MatchedIs(src, target, k, m) ==
  /\ k \in 0 .. Len(target)
  /\ k = Len(target) => \E e \in 0 .. m : EndsAt(target, src, Len(target), e)
  /\ k # Len(target) =>
       /\ EndsAt(target, src, k, m)
       /\ \A e \in 0 .. m : ~ EndsAt(target, src, Len(target), e)
       /\ \A j \in 0 .. Len(target) : EndsAt(target, src, j, m) => j <= k

LEMMA MatchedGrows ==
  ASSUME NEW src, NEW target, NEW next, NEW m \in Nat, NEW k, Len(target) \in Nat \ {0},
         NextIs(target, next, Len(target)), MatchedIs(src, target, k, m), k # Len(target)
  PROVE  MatchedIs(src, target,
                   Advance(target, FallBack(target, next, k, src[m + 1]), src[m + 1]), m + 1)
  <1>. DEFINE r == Advance(target, FallBack(target, next, k, src[m + 1]), src[m + 1])
  <1>1. PICK n \in Nat : n + 1 = Len(target)
    <2>1. Len(target) - 1 \in Nat /\ (Len(target) - 1) + 1 = Len(target)
      OBVIOUS
    <2>. QED  BY <2>1
  <1>2. k \in Nat /\ k <= n /\ EndsAt(target, src, k, m)
        /\ \A j \in 0 .. n : EndsAt(target, src, j, m) => j <= k
    BY <1>1 DEF MatchedIs
  <1>3. NextIs(target, next, k)
    BY <1>1, <1>2 DEF NextIs
  <1>4. /\ r \in 0 .. k + 1 /\ EndsAt(target, src, r, m + 1)
        /\ \A j \in 0 .. n + 1 : EndsAt(target, src, j, m + 1) => j <= r
    BY <1>2, <1>3, AdvanceIs
  <1>. HIDE DEF r
  <1>5. r \in 0 .. Len(target)
    BY <1>1, <1>2, <1>4
  <1>6. ASSUME r = Len(target) PROVE MatchedIs(src, target, r, m + 1)
    <2>1. EndsAt(target, src, Len(target), m + 1) /\ m + 1 \in 0 .. m + 1
      BY <1>4, <1>6
    <2>2. \E e \in 0 .. m + 1 : EndsAt(target, src, Len(target), e)
      BY <2>1
    <2>. QED  BY <1>5, <1>6, <2>2 DEF MatchedIs
  <1>7. ASSUME r # Len(target) PROVE MatchedIs(src, target, r, m + 1)
    <2>1. ASSUME NEW e \in 0 .. m + 1, EndsAt(target, src, Len(target), e) PROVE FALSE
      <3>1. CASE e = m + 1
        BY <1>1, <1>4, <1>5, <1>7, <2>1, <3>1
      <3>2. CASE e # m + 1
        BY <2>1, <3>2 DEF MatchedIs
      <3>. QED  BY <3>1, <3>2
    <2>2. \A j \in 0 .. Len(target) : EndsAt(target, src, j, m + 1) => j <= r
      BY <1>1, <1>4
    <2>. QED  BY <1>4, <1>5, <1>7, <2>1, <2>2 DEF MatchedIs
  <1>. QED  BY <1>6, <1>7 DEF r

\* The search finds the target if and only if it ends at one of the letters searched.
LEMMA KmpFindIs ==
  ASSUME NEW src, NEW target, Len(target) \in Nat \ {0}, Len(src) \in Nat
  PROVE  KmpFind(src, target) <=>
           \E e \in 0 .. LettersSearched(src, target) : EndsAt(target, src, Len(target), e)
  <1>. DEFINE next == KmpNext(target)
              n == LettersSearched(src, target)
              matched == CHOOSE g : g = [i \in 0 .. n |->
                           IF i = 0 THEN 0
                           ELSE LET k == g[i - 1] IN
                                IF k = Len(target) THEN k
                                ELSE Advance(target, FallBack(target, next, k, src[i]), src[i])]
  <1>0. n \in Nat
    BY DEF LettersSearched
  <1>1. AreMatched(src, target, next, n, matched)
    <2>. HIDE DEF next, n
    <2>1. PICK f : AreMatched(src, target, next, n, f)
      BY <1>0, MatchingEnds
    <2>. QED  BY <2>1 DEF AreMatched
  <1>2. KmpFind(src, target) <=> matched[n] = Len(target)
    BY DEF KmpFind
  <1>3. NextIs(target, next, Len(target))
    BY KmpNextIs DEF GoodTable
  <1>. HIDE DEF matched, next, n
  <1>. DEFINE T == {m \in Nat : m <= n => MatchedIs(src, target, matched[m], m)}
  <1>4. 0 \in T
    <2>1. matched[0] = 0
      BY <1>0, <1>1, 0 \in 0 .. n DEF AreMatched
    <2>2. MatchedIs(src, target, 0, 0)
      BY DEF MatchedIs, EndsAt
    <2>. QED  BY <2>1, <2>2
  <1>5. ASSUME NEW m \in Nat, m \in T PROVE m + 1 \in T
    <2>. SUFFICES ASSUME m + 1 <= n PROVE MatchedIs(src, target, matched[m + 1], m + 1)
      OBVIOUS
    <2>1. MatchedIs(src, target, matched[m], m)
      BY <1>0, <1>5
    <2>2. m + 1 \in 0 .. n /\ m + 1 # 0 /\ (m + 1) - 1 = m
      BY <1>0
    <2>3. matched[m + 1] =
            IF matched[m] = Len(target) THEN matched[m]
            ELSE Advance(target, FallBack(target, next, matched[m], src[m + 1]), src[m + 1])
      BY <1>1, <2>2 DEF AreMatched
    <2>4. CASE matched[m] = Len(target)
      BY <2>1, <2>3, <2>4 DEF MatchedIs
    <2>5. CASE matched[m] # Len(target)
      BY <1>3, <2>1, <2>3, <2>5, MatchedGrows
    <2>. QED  BY <2>4, <2>5
  <1>6. Nat \subseteq T
    <2>. HIDE DEF T
    <2>. QED  BY <1>4, <1>5, EveryNumber
  <1>7. MatchedIs(src, target, matched[n], n)
    BY <1>0, <1>6
  <1>. QED  BY <1>2, <1>7 DEF MatchedIs, n

-----------------------------------------------------------------------------
\* A search of some of the letters is a search of what they make up.
LEMMA EndsIsOccurs ==
  ASSUME NEW S, NEW src \in Seq(S), NEW target \in Seq(S), target # <<>>,
         NEW n \in Nat, n <= Len(src)
  PROVE  (\E e \in 0 .. n : EndsAt(target, src, Len(target), e)) <=>
           Occurs(target, SubSeq(src, 1, n))
  <1>. DEFINE front == SubSeq(src, 1, n)
              l == Len(target)
  <1>1. front \in Seq(S) /\ Len(front) = n /\ \A i \in 1 .. n : front[i] = src[i]
    OBVIOUS
  <1>2. l \in Nat /\ l # 0 /\ target \in [1 .. l -> S]
    OBVIOUS
  <1>. HIDE DEF front, l
  <1>3. ASSUME NEW i \in 0 .. n - l
        PROVE  /\ Len(SubSeq(front, i + 1, i + l)) = l
               /\ SubSeq(front, i + 1, i + l) \in Seq(S)
               /\ \A k \in 1 .. l : SubSeq(front, i + 1, i + l)[k] = src[i + k]
    <2>1. i + 1 \in 1 .. Len(front) + 1 /\ i + l \in 0 .. Len(front) /\ i + 1 \in Int /\ i + l \in Int
      BY <1>1, <1>2
    <2>2. SubSeq(front, i + 1, i + l) = [k \in 1 .. l |-> front[i + k]]
      BY <1>1, <1>2, <2>1
    <2>3. \A k \in 1 .. l : i + k \in 1 .. n
      BY <1>2
    <2>4. \A k \in 1 .. l : front[i + k] = src[i + k] /\ src[i + k] \in S
      BY <1>1, <2>3
    <2>. DEFINE s == SubSeq(front, i + 1, i + l)
    <2>5. s \in [1 .. l -> S] /\ \A k \in 1 .. l : s[k] = src[i + k]
      BY <2>2, <2>4
    <2>. HIDE DEF s
    <2>6. s \in Seq(S) /\ Len(s) = l
      BY <1>2, <2>5
    <2>. QED  BY <2>5, <2>6 DEF s
  <1>4. ASSUME NEW e \in 0 .. n, EndsAt(target, src, l, e) PROVE Occurs(target, front)
    <2>1. e - l \in 0 .. n - l /\ l <= e
      BY <1>2, <1>4 DEF EndsAt
    <2>2. PICK i \in 0 .. n - l : i = e - l
      BY <2>1
    <2>3. \A k \in 1 .. l : target[k] = SubSeq(front, i + 1, i + l)[k]
      BY <1>3, <1>4, <2>2 DEF EndsAt
    <2>4. SubSeq(front, i + 1, i + l) = target
      <3>. DEFINE s == SubSeq(front, i + 1, i + l)
      <3>1. s \in Seq(S) /\ Len(s) = l
        BY <1>3
      <3>. HIDE DEF s
      <3>. QED  BY <1>2, <2>3, <3>1 DEF s, l
    <2>. QED  BY <1>1, <2>4 DEF Occurs, l
  <1>5. ASSUME Occurs(target, front) PROVE \E e \in 0 .. n : EndsAt(target, src, l, e)
    <2>1. PICK i \in 0 .. n - l : SubSeq(front, i + 1, i + l) = target
      BY <1>1, <1>5 DEF Occurs, l
    <2>2. PICK e \in 0 .. n : e = i + l
      BY <1>2
    <2>3. \A k \in 1 .. l : target[k] = src[e - l + k]
      <3>1. e - l = i
        BY <1>2, <2>2
      <3>2. \A k \in 1 .. l : target[k] = src[i + k]
        BY <1>3, <2>1
      <3>. QED  BY <3>1, <3>2
    <2>4. l <= e
      BY <1>2, <2>2
    <2>5. EndsAt(target, src, l, e)
      BY <2>3, <2>4 DEF EndsAt
    <2>. QED  BY <2>5
  <1>. QED  BY <1>4, <1>5 DEF front, l

LEMMA MarkIsFoundIn == CheckTypeOK => MarkIsFound
  <1>. SUFFICES ASSUME CheckTypeOK, image # <<>>
       PROVE  KmpFind(image, FirmwareFlag) <=>
                Occurs(FirmwareFlag, SubSeq(image, 1, ImageSize - Len(FirmwareFlag) + 1))
    BY DEF MarkIsFound
  <1>. DEFINE n == ImageSize - Len(FirmwareFlag) + 1
              searched == LettersSearched(image, FirmwareFlag)
              S == ImageLetter
  <1>1. /\ FirmwareFlag \in Seq(ImageLetter) /\ FirmwareFlag # <<>> /\ ImageSize \in Nat
        /\ Len(FirmwareFlag) \in Nat \ {0}
    BY CheckAssumption DEF CheckAssumption
  <1>2. image \in [1 .. ImageSize -> ImageLetter]
    BY Zenon DEF CheckTypeOK, Image
  <1>3. image \in Seq(ImageLetter) /\ Len(image) = ImageSize
    BY <1>1, <1>2
  <1>4. KmpFind(image, FirmwareFlag) <=>
          \E e \in 0 .. searched : EndsAt(FirmwareFlag, image, Len(FirmwareFlag), e)
    BY <1>1, <1>3, KmpFindIs
  <1>5. CASE n \in Nat /\ n # 0
    <2>1. searched = n /\ n <= Len(image)
      BY <1>1, <1>3, <1>5 DEF LettersSearched
    <2>. QED  BY <1>1, <1>3, <1>4, <1>5, <2>1, EndsIsOccurs
  <1>6. CASE ~ (n \in Nat /\ n # 0)
    <2>1. searched = 0 /\ n <= 0 /\ n \in Int
      BY <1>1, <1>3, <1>6 DEF LettersSearched
    <2>2. ~ KmpFind(image, FirmwareFlag)
      BY <1>1, <1>4, <2>1 DEF EndsAt
    <2>3. SubSeq(image, 1, n) = <<>>
      BY <2>1, <1>3
    <2>4. ~ Occurs(FirmwareFlag, <<>>)
      BY <1>1 DEF Occurs
    <2>. QED  BY <2>2, <2>3, <2>4
  <1>. QED  BY <1>5, <1>6

\* The other partition is taken for one of this project if and only if it has the mark,
\* the last cells excepted that are never looked at, for every mark and every partition.
THEOREM TheMarkIsFound == CheckSpec => []MarkIsFound
  <1>1. CheckInv => MarkIsFound
    BY CheckTypes, MarkIsFoundIn
  <1>. QED
    BY <1>1, CheckInvInit, CheckInvStep, PTL DEF CheckSpec
=============================================================================
