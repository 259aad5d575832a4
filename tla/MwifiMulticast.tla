--------------------------- MODULE MwifiMulticast ---------------------------
(***************************************************************************)
(* How the root of the mesh writes one message to many nodes               *)
(* (mwifi_root_write with MWIFI_COMMUNICATE_MULTICAST): the message goes   *)
(* once to each child that has a destination below it, with the list of    *)
(* those destinations; mwifi_read on the child forwards it the same way    *)
(* (mwifi_transmit_write, mwifi.c).  Meanwhile nodes may move in the tree, *)
(* and a send may fail.                                                    *)
(*                                                                         *)
(* A message is whole here: MwifiTransfer models its packets.              *)
(***************************************************************************)
EXTENDS Integers, Sequences, FiniteSets

CONSTANTS
  Node,      \* the nodes
  Root,      \* the root, one of them
  Topology,  \* trees the mesh may begin with: the nodes above each node
  Modes,     \* destinations: "list", "any" (all), "broadcast" (all but the root)
  Moves,     \* how often a node may change its parent
  Failures   \* how often a send may fail

ASSUME MulticastAssumption ==
  /\ Root \in Node
  /\ Topology \subseteq [Node -> SUBSET Node]
  /\ \A t \in Topology :
       /\ t[Root] = {}
       /\ \A n, m \in Node : n \notin t[n] /\ (n \in t[m] => t[n] \subseteq t[m])
       /\ \A n, m, k \in Node : {n, m} \subseteq t[k] => n = m \/ n \in t[m] \/ m \in t[n]
  /\ Modes \subseteq {"list", "any", "broadcast"}
  /\ Moves \in Nat /\ Failures \in Nat

VARIABLES
  above,    \* the nodes on the way from each node to the root
  mode,     \* of the write, "none" before it
  wanted,   \* the nodes the write is for
  inbox,    \* messages that have reached a node and are not read yet
  job,      \* a node in the middle of mwifi_transmit_write
  copies,   \* how often the application of a node has read the message
  moved, failed,  \* how much of both bounds is used
  spoiled   \* nodes that a failing call was to serve, and the node that made it

multicastVars == <<above, mode, wanted, inbox, job, copies, moved, failed, spoiled>>

\* data_head: transmit_self, transmit_all and the transmit_num addresses.
Message == [self : BOOLEAN, all : BOOLEAN, list : SUBSET Node]

\* The variables of mwifi_transmit_write: children still to serve (sta), those
\* the list still names, and whether the last send has failed (ret).
Place == {"none", "children", "rest"}
Job == [at : Place, kids : SUBSET Node, list : SUBSET Node, self : BOOLEAN,
        all : BOOLEAN, keep : BOOLEAN, ok : BOOLEAN]
NoJob == [at |-> "none", kids |-> {}, list |-> {}, self |-> FALSE,
          all |-> FALSE, keep |-> FALSE, ok |-> TRUE]

Alone == [self |-> TRUE, all |-> FALSE, list |-> {}]

Children(n) == {c \in Node : n \in above[c] /\ above[c] = above[n] \union {n}}

\* esp_mesh_get_subnet_nodes_list.
Subnet(c) == {n \in Node : c \in above[n]}

\* mwifi_transmit_write, up to its loop over the children.
Transmit(list, self, all, keep) ==
  [at |-> "children", kids |-> {}, list |-> list, self |-> self, all |-> all,
   keep |-> keep, ok |-> TRUE]

\* esp_wifi_ap_get_sta_list names the children.  When it fails there are none: a list is
\* then served one by one, and a message to everybody goes no further.
Begin(n, j) ==
  \/ job' = [job EXCEPT ![n] = [j EXCEPT !.kids = Children(n)]] /\ UNCHANGED <<failed, spoiled>>
  \/ /\ failed < Failures /\ failed' = failed + 1 /\ job' = [job EXCEPT ![n] = j]
     /\ spoiled' = IF j.all THEN spoiled \union Subnet(n) ELSE spoiled

Deliver(c, m) == inbox' = [inbox EXCEPT ![c] = Append(@, m)]

-----------------------------------------------------------------------------
\* mwifi_root_write.  transmit_self is set from the beginning, which counts when
\* the message goes to everybody.
RootWriteList(list) ==
  /\ mode = "none" /\ mode' = "list" /\ wanted' = list
  /\ Begin(Root, Transmit(list, TRUE, FALSE, FALSE))
  /\ UNCHANGED <<above, inbox, copies, moved>>

RootWriteAll(m) ==
  /\ mode = "none" /\ mode' = m
  /\ wanted' = IF m = "any" THEN Node ELSE Node \ {Root}
  /\ Begin(Root, Transmit({}, TRUE, TRUE, FALSE))
  /\ UNCHANGED <<above, inbox, copies, moved>>

\* What the next child c gets of the list of n: the addresses in its subtree.
AddressesFor(n, c) == (job[n].list \ {c}) \intersect Subnet(c)

ForChild(n, c) ==
  IF job[n].all
    THEN [self |-> job[n].self, all |-> TRUE, list |-> {}]
    ELSE [self |-> c \in job[n].list, all |-> FALSE, list |-> AddressesFor(n, c)]

\* What is left of the list of n after c.
LeftAfterForgotten(n, c) == job[n].list  \* mutant

LeftAfter(n, c) == job[n].list \ ({c} \union Subnet(c))

\* The loop over the children ends early when nobody is left on the list.
HasChild(n) ==
  job[n].at = "children" /\ job[n].kids # {} /\ (job[n].all \/ job[n].list # {})

IsForSomebody(m) == m.self \/ m.all \/ m.list # {}

ServeChild(n, c) ==
  LET m == ForChild(n, c) IN
  /\ HasChild(n) /\ c \in job[n].kids
  /\ job' = [job EXCEPT ![n].kids = @ \ {c}, ![n].list = LeftAfter(n, c), ![n].ok = TRUE]
  /\ IF IsForSomebody(m) THEN Deliver(c, m) ELSE UNCHANGED inbox
  /\ UNCHANGED <<above, mode, wanted, copies, moved, failed, spoiled>>

\* A failing call ends the loop: nobody is tried again that c and its subtree had.
Fail(n, lost, left) ==
  /\ failed < Failures /\ failed' = failed + 1
  /\ job' = [job EXCEPT ![n].kids = {}, ![n].list = left, ![n].ok = FALSE]
  /\ spoiled' = spoiled \union {n} \union lost

ServeFails(n, c) ==
  LET m == ForChild(n, c)
      unserved == UNION {{k} \union Subnet(k) : k \in job[n].kids}
  IN
  /\ HasChild(n) /\ c \in job[n].kids /\ IsForSomebody(m)
  /\ Fail(n, IF m.all THEN unserved ELSE job[n].list \ LeftAfter(n, c), LeftAfter(n, c))
  /\ UNCHANGED <<above, mode, wanted, inbox, copies, moved>>

\* esp_mesh_get_subnet_nodes_num fails when c itself is off the list already.
SubnetFails(n, c) ==
  /\ HasChild(n) /\ c \in job[n].kids /\ ~ job[n].all
  /\ Fail(n, job[n].list \intersect {c}, job[n].list \ {c})
  /\ UNCHANGED <<above, mode, wanted, inbox, copies, moved>>

\* esp_mesh_get_subnet_nodes_list fails: c is served alone, its subtree stays on the
\* list, and the error is forgotten with the next send.
SubnetListFails(n, c) ==
  LET self == c \in job[n].list IN
  /\ HasChild(n) /\ c \in job[n].kids /\ ~ job[n].all
  /\ failed < Failures /\ failed' = failed + 1
  /\ job' = [job EXCEPT ![n].kids = @ \ {c}, ![n].list = @ \ {c}, ![n].ok = self]
  /\ spoiled' = spoiled \union {n}
  /\ IF self THEN Deliver(c, Alone) ELSE UNCHANGED inbox
  /\ UNCHANGED <<above, mode, wanted, copies, moved>>

\* After the children.  "When sending to all devices, the device need to send it to
\* the root node itself"; otherwise the list has the nodes that no child answers
\* for (they may have moved), who are served one by one.
RestAllNobody(n) == {}  \* mutant

RestAll(n) == IF mode = "any" /\ n = Root THEN {Root} ELSE {}

RestOfList(n) ==
  /\ job[n].at = "children" /\ ~ HasChild(n)
  /\ job' = [job EXCEPT ![n].at = "rest", ![n].kids = {},
                        ![n].list = IF job[n].all THEN RestAll(n) ELSE @]
  /\ UNCHANGED <<above, mode, wanted, inbox, copies, moved, failed, spoiled>>

InRest(n, c) == job[n].at = "rest" /\ c \in job[n].list

ServeRest(n, c) ==
  /\ InRest(n, c) /\ Deliver(c, Alone)
  /\ job' = [job EXCEPT ![n].list = @ \ {c}, ![n].ok = TRUE]
  /\ UNCHANGED <<above, mode, wanted, copies, moved, failed, spoiled>>

RestFails(n, c) ==
  /\ InRest(n, c) /\ Fail(n, {c}, job[n].list \ {c})
  /\ UNCHANGED <<above, mode, wanted, inbox, copies, moved>>

\* mwifi_transmit_write returns what its last send returned.  On an error mwifi_read
\* returns without its own copy.
TransmitEnd(n) ==
  /\ job[n].at = "rest" /\ job[n].list = {}
  /\ job' = [job EXCEPT ![n] = NoJob]
  /\ copies' = [copies EXCEPT ![n] = IF job[n].keep /\ job[n].ok THEN @ + 1 ELSE @]
  /\ UNCHANGED <<above, mode, wanted, inbox, moved, failed, spoiled>>

-----------------------------------------------------------------------------
\* mwifi_read, once the message is whole.
ReadOwn(n) ==
  /\ job[n] = NoJob /\ inbox[n] # <<>>
  /\ LET m == Head(inbox[n]) IN
       /\ ~ m.all /\ m.list = {}
       /\ copies' = [copies EXCEPT ![n] = IF m.self THEN @ + 1 ELSE @]
  /\ inbox' = [inbox EXCEPT ![n] = Tail(@)]
  /\ UNCHANGED <<above, mode, wanted, job, moved, failed, spoiled>>

ReadForward(n) ==
  LET m == Head(inbox[n]) IN
  /\ job[n] = NoJob /\ inbox[n] # <<>>
  /\ m.all \/ m.list # {}
  /\ Begin(n, Transmit(m.list, m.self, m.all, m.self))
  /\ inbox' = [inbox EXCEPT ![n] = Tail(@)]
  /\ UNCHANGED <<above, mode, wanted, copies, moved>>

\* Node n changes to parent p and takes its subtree along.
Move(n, p) ==
  /\ moved < Moves /\ moved' = moved + 1
  /\ n # Root /\ p # n /\ n \notin above[p] /\ n \notin Children(p)
  /\ above' = [x \in Node |->
                 IF x = n THEN above[p] \union {p}
                 ELSE IF n \in above[x]
                      THEN (above[x] \ above[n]) \union above[p] \union {p}
                      ELSE above[x]]
  /\ UNCHANGED <<mode, wanted, inbox, job, copies, failed, spoiled>>

-----------------------------------------------------------------------------
MulticastInit ==
  /\ above \in Topology
  /\ mode = "none" /\ wanted = {}
  /\ inbox = [n \in Node |-> <<>>]
  /\ job = [n \in Node |-> NoJob]
  /\ copies = [n \in Node |-> 0]
  /\ moved = 0 /\ failed = 0 /\ spoiled = {}

Transmitting(n) ==
  \/ \E c \in Node : \/ ServeChild(n, c) \/ ServeFails(n, c) \/ SubnetFails(n, c)
                   \/ SubnetListFails(n, c) \/ ServeRest(n, c) \/ RestFails(n, c)
  \/ RestOfList(n)
  \/ TransmitEnd(n)

Reading(n) == ReadOwn(n) \/ ReadForward(n)

MulticastNext ==
  \/ "list" \in Modes /\ \E list \in (SUBSET Node) \ {{}} : RootWriteList(list)
  \/ \E m \in Modes \ {"list"} : RootWriteAll(m)
  \/ \E n \in Node : Transmitting(n) \/ Reading(n)
  \/ \E n, p \in Node : Move(n, p)

\* Every task runs: the sends of the model return, and every node keeps reading.
MulticastFairness ==
  \A n \in Node : WF_multicastVars(Transmitting(n)) /\ WF_multicastVars(Reading(n))

MulticastSpec ==
  MulticastInit /\ [][MulticastNext]_multicastVars /\ MulticastFairness

-----------------------------------------------------------------------------
\* The types, and only nodes the write is for are ever on a list (mwifi.c:755-779).
MulticastTypeOK ==
  /\ above \in [Node -> SUBSET Node]
  /\ mode \in {"none", "list", "any", "broadcast"}
  /\ wanted \subseteq Node
  /\ inbox \in [Node -> Seq(Message)]
  /\ job \in [Node -> Job]
  /\ copies \in [Node -> Nat]
  /\ moved \in 0 .. Moves /\ failed \in 0 .. Failures
  /\ spoiled \subseteq Node
  /\ \A n \in Node : /\ job[n].list \subseteq wanted
                     /\ \A i \in DOMAIN inbox[n] : inbox[n][i].list \subseteq wanted

\* Nobody reads a message twice, and nobody one that is not for him: the list is
\* divided among the children, whatever nodes move meanwhile (a message to
\* everybody has no list to divide) (mwifi.c:742-808).
ReadAtMostOnce ==
  \A n \in Node :
    /\ copies[n] > 0 => n \in wanted
    /\ mode = "list" \/ moved = 0 => copies[n] =< 1

\* Every node the message is for reads it, but those a failing send was to serve
\* (mwifi.c:742-838).
EverybodyReads ==
  [](mode # "none" =>
       <>(\A n \in wanted \ spoiled :
            copies[n] > 0 \/ (mode # "list" /\ moved > 0)))
=============================================================================
