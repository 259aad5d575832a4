------------------------------ MODULE MlinkHttpd ------------------------------
(***************************************************************************)
(* Requests of clients to the devices behind the root (mlink_httpd.c).     *)
(* The task of the HTTP server notes which socket a request came from in   *)
(* a list of connections and queues the request.  A task of the            *)
(* application passes it on to the devices, and writes their answers to    *)
(* the connection that has the same socket descriptor.  A timer of each    *)
(* connection closes the socket when answers fail to come.  The three      *)
(* tasks share the list without a lock, and a descriptor that was closed   *)
(* is given to the next client.                                            *)
(*                                                                         *)
(* A task that removes an entry looks it up, closes the socket, stops the  *)
(* timer and clears the entry one after the other, while the other tasks   *)
(* go on.                                                                  *)
(*                                                                         *)
(* Requests that ask for no answer, the other pages, and stopping the      *)
(* server are left out.                                                    *)
(***************************************************************************)
EXTENDS Integers, Sequences, FiniteSets

CONSTANTS
  HttpSlots,    \* MLINK_HTTPD_MAX_CONNECT
  HttpRoom,     \* length of g_mlink_queue, 3 in the code
  HttpFd,       \* socket descriptors, 0 is not one
  HttpDevices,  \* how many devices a request may be for
  HttpClients,  \* how many clients connect
  HttpRequests, \* how many requests they make
  HttpMishaps   \* bound on failing calls

ASSUME HttpAssumption ==
  /\ HttpSlots \in Nat \ {0} /\ HttpRoom \in Nat \ {0} /\ HttpFd \subseteq Nat \ {0}
  /\ HttpDevices \subseteq Nat \ {0}
  /\ HttpClients \in Nat /\ HttpRequests \in Nat /\ HttpMishaps \in Nat

VARIABLES
  owner,       \* of every descriptor: the client whose socket it is, 0 when closed
  clients,     \* how many clients have connected
  requests,    \* the requests made, each with its client, descriptor and number of devices
  slot,        \* g_conn_list, with the request each entry was made for
  timers,      \* the timers that run, named by the request they were created for
  mlinkQueue,  \* g_mlink_queue
  answers,     \* answers of devices on their way
  httpWrite,   \* the task in mlink_httpd_write
  timeoutCb,   \* the timer daemon in mlink_connection_timeout_cb
  removal,     \* how far either of them is with the removal of an entry
  httpMishaps, \* how much of the bound is used
  reached,     \* which answers were sent to which clients
  disturbedReqs  \* requests no timer or no entry was had for, whose entry another task has
                 \* cleared, or has been counted down by answers to such a request or for
                 \* another client

httpVars == <<owner, clients, requests, slot, timers, mlinkQueue, answers, httpWrite,
              timeoutCb, removal, httpMishaps, reached, disturbedReqs>>

Slot == 1 .. HttpSlots
Request == 1 .. Len(requests)
NoConn == [flag |-> "none", sockfd |-> 0, num |-> 0, timer |-> 0, req |-> 0]
HttpMishap == httpMishaps < HttpMishaps /\ httpMishaps' = httpMishaps + 1

\* num and chunks_num are uint16_t.
Uint16 == {n \in Nat : n < 65536}
Truncated(n) == n % 65536
Decremented(n) == (n + 65535) % 65536

\* The task keeps the entry it has found; kept: no other task has cleared it meanwhile.
IdleWrite == [at |-> "idle", slot |-> 0, req |-> 0, device |-> 0, kept |-> TRUE]
IdleCb == [at |-> "idle", slot |-> 0]
NoRemoval == [at |-> "none", fd |-> 0, slot |-> 0, req |-> 0]
Remover == {"write", "timer"}

-----------------------------------------------------------------------------
\* mlink_connection_find: the first entry in use with that descriptor, or 0.
FoundInUse(f) == {i \in Slot : slot[i].flag # "none"}  \* mutant
Found(f) == {i \in Slot : slot[i].sockfd = f /\ slot[i].flag # "none"}

Find(f) ==
  IF Found(f) = {} THEN 0 ELSE CHOOSE i \in Found(f) : \A k \in Found(f) : i <= k

\* httpd_default_send, to the descriptor the entry has now.  An entry that was cleared has
\* none, and the MDF_ERR_INVALID_ARG it gets is positive, which is a success to its callers.
CanSend(i) == slot[i].sockfd # 0 => owner[slot[i].sockfd] # 0

\* A client that has gone is only noticed by a send that fails: then the entry that is found
\* for the descriptor is removed, and its socket closed before.
SendGoesWrong(p, i) ==
  /\ ~ CanSend(i)
  /\ removal' = [removal EXCEPT ![p] = [NoRemoval EXCEPT !.at = "lookup", !.fd = slot[i].sockfd]]

Lookup(p) ==
  LET i == Find(removal[p].fd) IN
  /\ removal[p].at = "lookup"
  /\ removal' = [removal EXCEPT ![p].at = "close", ![p].slot = i,
                                ![p].req = IF i = 0 THEN 0 ELSE slot[i].req]
  /\ UNCHANGED <<owner, slot, timers, httpWrite, httpMishaps, disturbedReqs>>

CloseSocket(p) ==
  /\ removal[p].at = "close" /\ removal' = [removal EXCEPT ![p].at = "stop"]
  /\ owner' = [owner EXCEPT ![removal[p].fd] = 0]
  /\ UNCHANGED <<slot, timers, httpWrite, httpMishaps, disturbedReqs>>

\* mlink_connection_remove: an entry without a timer stays as it is.  The commands to
\* stop and delete the timer do not wait, and may not fit into their queue.
HasTimer(i) == i # 0 /\ slot[i].timer # 0

StopTimer(p) ==
  LET i == removal[p].slot IN
  /\ removal[p].at = "stop"
  /\ IF HasTimer(i)
       THEN /\ removal' = [removal EXCEPT ![p].at = "clear"]
            /\ \/ timers' = timers \ {[slot |-> i, req |-> slot[i].timer]} /\ UNCHANGED httpMishaps
               \/ HttpMishap /\ UNCHANGED timers
       ELSE removal' = [removal EXCEPT ![p] = NoRemoval] /\ UNCHANGED <<timers, httpMishaps>>
  /\ UNCHANGED <<owner, slot, httpWrite, disturbedReqs>>

\* Whoever has the entry by then.
ClearConn(p) ==
  LET i == removal[p].slot IN
  /\ removal[p].at = "clear" /\ removal' = [removal EXCEPT ![p] = NoRemoval]
  /\ slot' = [slot EXCEPT ![i] = NoConn]
  /\ disturbedReqs' = disturbedReqs \union ({slot[i].req} \ {0, removal[p].req})
  /\ httpWrite' = IF httpWrite.slot = i THEN [httpWrite EXCEPT !.kept = FALSE] ELSE httpWrite
  /\ UNCHANGED <<owner, timers, httpMishaps>>

RemovalStep(p) ==
  /\ Lookup(p) \/ CloseSocket(p) \/ StopTimer(p) \/ ClearConn(p)
  /\ UNCHANGED <<clients, requests, mlinkQueue, answers, timeoutCb, reached>>

-----------------------------------------------------------------------------
\* The HTTP server: a client takes a free descriptor, or closes its connection.
HttpConnect(f) ==
  /\ owner[f] = 0 /\ clients < HttpClients /\ clients' = clients + 1
  /\ owner' = [owner EXCEPT ![f] = clients + 1]
  /\ UNCHANGED <<requests, slot, timers, mlinkQueue, answers, httpWrite, timeoutCb, removal,
                 httpMishaps, reached, disturbedReqs>>

HttpClose(f) ==
  /\ owner[f] # 0 /\ owner' = [owner EXCEPT ![f] = 0]
  /\ UNCHANGED <<clients, requests, slot, timers, mlinkQueue, answers, httpWrite, timeoutCb,
                 removal, httpMishaps, reached, disturbedReqs>>

\* mlink_connection_add takes the first free entry.  mlink_device_request queues the
\* request even if there is none, or no timer.
FreeSlot == {i \in Slot : slot[i].flag = "none"}
FirstFree == CHOOSE i \in FreeSlot : \A k \in FreeSlot : i <= k

Conn(f, n, timer) ==
  [flag |-> IF n > 1 THEN "header" ELSE "data", sockfd |-> f, num |-> n, timer |-> timer,
   req |-> Len(requests) + 1]

AddConnection(f, n) ==
  IF FreeSlot = {} THEN /\ disturbedReqs' = disturbedReqs \union {Len(requests) + 1}
                       /\ UNCHANGED <<slot, timers, httpMishaps>>
  ELSE \/ /\ slot' = [slot EXCEPT ![FirstFree] = Conn(f, n, Len(requests) + 1)]
          /\ timers' = timers \union {[slot |-> FirstFree, req |-> Len(requests) + 1]}
          /\ UNCHANGED <<httpMishaps, disturbedReqs>>
       \/ /\ HttpMishap /\ UNCHANGED timers
          /\ slot' = [slot EXCEPT ![FirstFree] = Conn(f, n, 0)]
          /\ disturbedReqs' = disturbedReqs \union {Len(requests) + 1}

\* A full queue loses its front, whose connection waits for its timer.
MadeRoomNever == mlinkQueue  \* mutant
MadeRoom == IF Len(mlinkQueue) < HttpRoom THEN mlinkQueue ELSE Tail(mlinkQueue)

DeviceRequest(f, n) ==
  /\ owner[f] # 0 /\ Len(requests) < HttpRequests
  /\ requests' = Append(requests, [client |-> owner[f], fd |-> f, num |-> n])
  /\ AddConnection(f, Truncated(n))
  /\ mlinkQueue' = Append(MadeRoom, [req |-> Len(requests) + 1, num |-> n])
  /\ UNCHANGED <<owner, clients, answers, httpWrite, timeoutCb, removal, reached>>

\* mlink_httpd_read, and the application that passes the request on.
HttpRead ==
  LET q == Head(mlinkQueue) IN
  /\ mlinkQueue # <<>> /\ mlinkQueue' = Tail(mlinkQueue)
  /\ answers' = answers \union {[req |-> q.req, device |-> d] : d \in 1 .. q.num}
  /\ UNCHANGED <<owner, clients, requests, slot, timers, httpWrite, timeoutCb, removal,
                 httpMishaps, reached, disturbedReqs>>

-----------------------------------------------------------------------------
\* mlink_httpd_write of the answer of one device.
WriteBegins(ans) ==
  LET i == Find(requests[ans.req].fd) IN
  /\ httpWrite.at = "idle" /\ removal["write"].at = "none" /\ answers' = answers \ {ans}
  /\ httpWrite' = IF i = 0 THEN IdleWrite
                  ELSE [at |-> "begun", slot |-> i, req |-> ans.req, device |-> ans.device, kept |-> TRUE]
  /\ UNCHANGED <<owner, clients, requests, slot, timers, mlinkQueue, timeoutCb, removal,
                 httpMishaps, reached, disturbedReqs>>

WriteUnchanged == UNCHANGED <<owner, clients, requests, mlinkQueue, answers, timeoutCb, httpMishaps>>

\* The first answer of several is preceded by a header.
WithHeader ==
  /\ httpWrite.at = "begun"
  /\ httpWrite' = [httpWrite EXCEPT !.at = IF slot[httpWrite.slot].flag = "header" THEN "header" ELSE "data"]
  /\ UNCHANGED <<slot, timers, removal, reached, disturbedReqs>> /\ WriteUnchanged

\* Header, chunk or footer: the send goes through, or the write ends.
WriteHeader ==
  /\ httpWrite.at = "header" /\ CanSend(httpWrite.slot)
  /\ slot' = [slot EXCEPT ![httpWrite.slot].flag = "body"]
  /\ httpWrite' = [httpWrite EXCEPT !.at = "data"]
  /\ UNCHANGED <<timers, removal, reached, disturbedReqs>> /\ WriteUnchanged

\* xTimerReset starts the timer again if it has just expired.
WriteBody ==
  LET conn == slot[httpWrite.slot] IN
  /\ httpWrite.at = "data" /\ CanSend(httpWrite.slot)
  /\ reached' = IF conn.sockfd = 0 THEN reached
                ELSE reached \union {[req |-> httpWrite.req, device |-> httpWrite.device,
                                      client |-> owner[conn.sockfd]]}
  /\ timers' = IF conn.flag = "body" /\ conn.timer # 0
                 THEN timers \union {[slot |-> httpWrite.slot, req |-> conn.timer]} ELSE timers
  /\ httpWrite' = [httpWrite EXCEPT !.at = "count"]
  /\ UNCHANGED <<slot, removal, disturbedReqs>> /\ WriteUnchanged

\* The entry counts an answer that is none of its own.
Miscounts(q, p) ==
  p \in Request /\ p # q /\ (q \in disturbedReqs \/ requests[p].client # requests[q].client)

\* The entry is removed after the last answer: that of the next request, if another task has
\* cleared it in the middle of the write.
LastOf(conn) ==
  [at |-> "stop", fd |-> 0, slot |-> httpWrite.slot, req |-> IF httpWrite.kept THEN conn.req ELSE 0]

\* Zero wraps around.
WriteCount ==
  LET conn == slot[httpWrite.slot]
      num == Decremented(conn.num)
  IN  /\ httpWrite.at = "count" /\ slot' = [slot EXCEPT ![httpWrite.slot].num = num]
      /\ disturbedReqs' = disturbedReqs \union {p \in {conn.req} : Miscounts(httpWrite.req, p)}
      /\ IF num = 0 /\ conn.flag = "body"
           THEN httpWrite' = [httpWrite EXCEPT !.at = "footer"] /\ UNCHANGED removal
           ELSE /\ httpWrite' = IdleWrite
                /\ removal' = IF num = 0 THEN [removal EXCEPT !["write"] = LastOf(conn)] ELSE removal
      /\ UNCHANGED <<timers, reached>> /\ WriteUnchanged

WriteFooter ==
  /\ httpWrite.at = "footer" /\ CanSend(httpWrite.slot)
  /\ httpWrite' = IdleWrite
  /\ removal' = [removal EXCEPT !["write"] = LastOf(slot[httpWrite.slot])]
  /\ UNCHANGED <<slot, timers, reached, disturbedReqs>> /\ WriteUnchanged

WriteFails ==
  /\ httpWrite.at \in {"header", "data", "footer"}
  /\ httpWrite' = IdleWrite /\ SendGoesWrong("write", httpWrite.slot)
  /\ UNCHANGED <<slot, timers, reached, disturbedReqs>> /\ WriteUnchanged

-----------------------------------------------------------------------------
\* mlink_connection_timeout_cb: an answer or a footer if the socket is writable, then the
\* socket is closed.
TimeoutIsMine(t) == slot[t.slot].timer # 0 /\ slot[t.slot].flag # "none"

TimeoutBegins(t) ==
  /\ timeoutCb.at = "idle" /\ removal["timer"].at = "none"
  /\ IF TimeoutIsMine(t)
       THEN /\ slot' = [slot EXCEPT ![t.slot].flag = "data"]
            /\ timeoutCb' = [at |-> "send", slot |-> t.slot]
       ELSE UNCHANGED <<slot, timeoutCb>>
  /\ timers' = timers \ {t} /\ UNCHANGED <<owner, removal>>

TimeoutSends ==
  /\ timeoutCb.at = "send" /\ timeoutCb' = [timeoutCb EXCEPT !.at = "close"]
  /\ UNCHANGED removal \/ SendGoesWrong("timer", timeoutCb.slot)
  /\ UNCHANGED <<owner, slot, timers>>

\* After a send that failed the descriptor is that of nobody, or of the next request.
ClosedNever == owner  \* mutant
Closed ==
  LET f == slot[timeoutCb.slot].sockfd IN IF f = 0 THEN owner ELSE [owner EXCEPT ![f] = 0]

TimeoutCloses ==
  LET i == timeoutCb.slot IN
  /\ timeoutCb.at = "close" /\ removal["timer"].at = "none"
  /\ timeoutCb' = IdleCb /\ owner' = Closed
  /\ removal' = [removal EXCEPT !["timer"] = [at |-> "stop", fd |-> 0, slot |-> i, req |-> slot[i].req]]
  /\ UNCHANGED <<slot, timers>>

TimeoutStep ==
  /\ (\E t \in timers : TimeoutBegins(t)) \/ TimeoutSends \/ TimeoutCloses
  /\ UNCHANGED <<clients, requests, mlinkQueue, answers, httpWrite, httpMishaps, reached, disturbedReqs>>

-----------------------------------------------------------------------------
HttpInit ==
  /\ owner = [f \in HttpFd |-> 0] /\ clients = 0 /\ requests = <<>>
  /\ slot = [i \in Slot |-> NoConn] /\ timers = {} /\ mlinkQueue = <<>> /\ answers = {}
  /\ httpWrite = IdleWrite /\ timeoutCb = IdleCb /\ removal = [p \in Remover |-> NoRemoval]
  /\ httpMishaps = 0 /\ reached = {} /\ disturbedReqs = {}

WriteStepHttp ==
  \/ WithHeader \/ WriteHeader \/ WriteBody \/ WriteCount \/ WriteFooter \/ WriteFails
  \/ RemovalStep("write")

TimerStepHttp == TimeoutStep \/ RemovalStep("timer")

HttpNext ==
  \/ \E f \in HttpFd : HttpConnect(f) \/ HttpClose(f)
  \/ \E f \in HttpFd, n \in HttpDevices : DeviceRequest(f, n)
  \/ HttpRead
  \/ \E ans \in answers : WriteBegins(ans)
  \/ WriteStepHttp \/ TimerStepHttp

\* A write goes on and timers expire; no device has to answer.
HttpFairness == WF_httpVars(WriteStepHttp) /\ WF_httpVars(TimerStepHttp)

HttpSpec == HttpInit /\ [][HttpNext]_httpVars /\ HttpFairness

-----------------------------------------------------------------------------
HttpTypeOK ==
  /\ owner \in [HttpFd -> 0 .. clients] /\ clients \in 0 .. HttpClients
  /\ \A q \in Request : /\ requests[q].client \in 1 .. clients /\ requests[q].fd \in HttpFd
                       /\ requests[q].num \in HttpDevices
  /\ slot \in [Slot -> [flag : {"none", "data", "header", "body"}, sockfd : {0} \union HttpFd,
                        num : Uint16, timer : {0} \union Request, req : {0} \union Request]]
  /\ timers \subseteq [slot : Slot, req : Request]
  /\ Len(mlinkQueue) <= HttpRoom /\ \A i \in DOMAIN mlinkQueue : mlinkQueue[i].req \in Request
  /\ answers \subseteq [req : Request, device : Nat]
  /\ httpWrite \in [at : {"idle", "begun", "header", "data", "count", "footer"}, slot : 0 .. HttpSlots,
                     req : {0} \union Request, device : Nat, kept : BOOLEAN]
  /\ timeoutCb \in [at : {"idle", "send", "close"}, slot : 0 .. HttpSlots]
  /\ removal \in [Remover -> [at : {"none", "lookup", "close", "stop", "clear"}, fd : {0} \union HttpFd,
                              slot : 0 .. HttpSlots, req : {0} \union Request]]
  /\ reached \subseteq [req : Request, device : Nat, client : 1 .. clients]
  /\ disturbedReqs \subseteq Request

Connected(q) == q \in Request /\ owner[requests[q].fd] = requests[q].client
Waiting(q) == \E i \in Slot : slot[i].flag # "none" /\ slot[i].req = q

Served(q) == \A d \in 1 .. requests[q].num : [req |-> q, device |-> d, client |-> requests[q].client] \in reached

\* While a client is connected no answer to its request is sent to another client, however
\* entries and descriptors are used again, unless the timer's task clears the entry in the
\* middle of the write.
ResponsesReachTheirClient ==
  [][\A g \in reached' \ reached :
       Connected(g.req) /\ httpWrite.kept => g.client = requests[g.req].client]_httpVars

\* The client of every request is sent the answers of all devices it has asked, or sees its
\* connection closed, though clients before it had its descriptor or its entry; unless
\* disturbedReqs says why not.
RequestsEnd ==
  \A q \in 1 .. HttpRequests :
    []<>(q \in Request => ~ Connected(q) \/ Served(q) \/ q \in disturbedReqs)
=============================================================================
