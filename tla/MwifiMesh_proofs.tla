-------------------------- MODULE MwifiMesh_proofs --------------------------
(***************************************************************************)
(* Proofs about MwifiMesh: the flags of mwifi follow the mesh, for any     *)
(* number of starts, stops, restarts and events.  The events that wait for *)
(* the event task may be any number; what they will leave the flags at is  *)
(* said by the last of them that tells anything.                           *)
(***************************************************************************)
EXTENDS MwifiMesh, TLAPS

USE MeshAssumption DEF MeshAssumption

Event == {"started", "stopped", "connected", "disconnected", "rootless", "root"}

\* The kinds of events that tell whether the mesh runs, and whether it has a parent.
RunEvent == {"started", "stopped"}
ParentEvent == {"connected", "disconnected", "stopped"}

\* Once the events s have been handled, flag will be what mesh is: the last event of these
\* kinds says so or, when none waits, the flag does.
Tells(s, kinds, on, flag, mesh) ==
  \/ flag = mesh /\ \A i \in 1 .. Len(s) : s[i] \notin kinds
  \/ \E i \in 1 .. Len(s) :
       /\ s[i] \in kinds /\ mesh = (s[i] = on)
       /\ \A j \in i + 1 .. Len(s) : s[j] \notin kinds

\* Between mwifi_stop's assignment and esp_mesh_stop the first flag says too little, and
\* an event "started" that comes then says too much.
StartedWillBeTrue ==
  (~ astray /\ call \notin {"stop", "restart"}) =>
    Tells(posts, RunEvent, "started", started, stackOn)
ConnectedWillBeTrue ==
  ~ astray => Tells(posts, ParentEvent, "connected", connected, parent)

MeshInv == MeshTypeOK /\ StartedWillBeTrue /\ ConnectedWillBeTrue
-----------------------------------------------------------------------------
(* What the waiting events tell *)

LEMMA NoneTells ==
  ASSUME NEW kinds, NEW on, NEW flag, NEW mesh, Tells(<<>>, kinds, on, flag, mesh)
  PROVE  flag = mesh
  BY DEF Tells

LEMMA AppendTells ==
  ASSUME NEW s \in Seq(Event), NEW e \in Event, NEW kinds, NEW on, NEW flag, NEW mesh,
         e \in kinds
  PROVE  Tells(Append(s, e), kinds, on, flag, e = on)
  <1>1. Len(s) \in Nat /\ Len(Append(s, e)) = Len(s) + 1 /\ Append(s, e)[Len(s) + 1] = e
    OBVIOUS
  <1>2. Len(s) + 1 \in 1 .. Len(Append(s, e))
    BY <1>1
  <1>3. \A j \in (Len(s) + 1) + 1 .. Len(Append(s, e)) : Append(s, e)[j] \notin kinds
    BY <1>1
  <1>. QED  BY <1>1, <1>2, <1>3 DEF Tells

LEMMA AppendOther ==
  ASSUME NEW s \in Seq(Event), NEW e \in Event, NEW kinds, NEW on, NEW flag, NEW mesh,
         e \notin kinds, Tells(s, kinds, on, flag, mesh)
  PROVE  Tells(Append(s, e), kinds, on, flag, mesh)
  <1>1. /\ Len(s) \in Nat /\ Len(Append(s, e)) = Len(s) + 1 /\ Append(s, e)[Len(s) + 1] = e
        /\ \A i \in 1 .. Len(s) : Append(s, e)[i] = s[i]
    OBVIOUS
  <1>2. ASSUME NEW k \in Nat, \A j \in k .. Len(s) : s[j] \notin kinds, k > 0
        PROVE  \A j \in k .. Len(Append(s, e)) : Append(s, e)[j] \notin kinds
    BY <1>1, <1>2
  <1>3. CASE flag = mesh /\ \A i \in 1 .. Len(s) : s[i] \notin kinds
    BY <1>2, <1>3 DEF Tells
  <1>4. CASE ~ (flag = mesh /\ \A i \in 1 .. Len(s) : s[i] \notin kinds)
    <2>1. PICK i \in 1 .. Len(s) : /\ s[i] \in kinds /\ mesh = (s[i] = on)
                                   /\ \A j \in i + 1 .. Len(s) : s[j] \notin kinds
      BY <1>4 DEF Tells
    <2>2. i \in 1 .. Len(Append(s, e)) /\ Append(s, e)[i] = s[i]
      BY <1>1
    <2>3. \A j \in i + 1 .. Len(Append(s, e)) : Append(s, e)[j] \notin kinds
      BY <1>2, <2>1
    <2>. QED  BY <2>1, <2>2, <2>3 DEF Tells
  <1>. QED  BY <1>3, <1>4

\* The flag once the first of the waiting events has been handled.
Heeds(s, kinds, on, flag) == IF Head(s) \in kinds THEN Head(s) = on ELSE flag

LEMMA TailTells ==
  ASSUME NEW s \in Seq(Event), s # <<>>, NEW kinds, NEW on, NEW flag, NEW mesh,
         Tells(s, kinds, on, flag, mesh)
  PROVE  Tells(Tail(s), kinds, on, Heeds(s, kinds, on, flag), mesh)
  <1>1. /\ Len(s) \in Nat \ {0} /\ Len(Tail(s)) = Len(s) - 1 /\ Head(s) = s[1]
        /\ \A i \in 1 .. Len(Tail(s)) : Tail(s)[i] = s[i + 1]
    OBVIOUS
  <1>2. ASSUME NEW k \in Nat \ {0}, \A j \in k + 1 .. Len(s) : s[j] \notin kinds
        PROVE  \A j \in k .. Len(Tail(s)) : Tail(s)[j] \notin kinds
    <2>1. ASSUME NEW j \in k .. Len(Tail(s)) PROVE Tail(s)[j] \notin kinds
      <3>1. j + 1 \in k + 1 .. Len(s) /\ Tail(s)[j] = s[j + 1]
        BY <1>1
      <3>. QED  BY <1>2, <3>1
    <2>. QED  BY <2>1
  <1>3. CASE flag = mesh /\ \A i \in 1 .. Len(s) : s[i] \notin kinds
    <2>1. Heeds(s, kinds, on, flag) = mesh
      BY <1>1, <1>3 DEF Heeds
    <2>2. \A j \in 1 .. Len(Tail(s)) : Tail(s)[j] \notin kinds
      BY <1>1, <1>2, <1>3
    <2>. QED  BY <2>1, <2>2 DEF Tells
  <1>4. CASE ~ (flag = mesh /\ \A i \in 1 .. Len(s) : s[i] \notin kinds)
    <2>1. PICK i \in 1 .. Len(s) : /\ s[i] \in kinds /\ mesh = (s[i] = on)
                                   /\ \A j \in i + 1 .. Len(s) : s[j] \notin kinds
      BY <1>4 DEF Tells
    <2>2. CASE i = 1
      <3>1. Heeds(s, kinds, on, flag) = mesh
        BY <1>1, <2>1, <2>2 DEF Heeds
      <3>2. \A j \in 1 .. Len(Tail(s)) : Tail(s)[j] \notin kinds
        BY <1>2, <2>1, <2>2
      <3>. QED  BY <3>1, <3>2 DEF Tells
    <2>3. CASE i # 1
      <3>1. i - 1 \in 1 .. Len(Tail(s)) /\ i \in Nat \ {0} /\ (i - 1) + 1 = i
        BY <1>1, <2>3
      <3>2. Tail(s)[i - 1] = s[i]
        BY <1>1, <3>1
      <3>3. \A j \in (i - 1) + 1 .. Len(Tail(s)) : Tail(s)[j] \notin kinds
        BY <1>2, <2>1, <3>1
      <3>. QED  BY <2>1, <3>1, <3>2, <3>3 DEF Tells
    <2>. QED  BY <2>2, <2>3
  <1>. QED  BY <1>3, <1>4

-----------------------------------------------------------------------------
(* Types *)

LEMMA MeshTypeInit == MeshInit => MeshTypeOK
  <1>. SUFFICES ASSUME MeshInit PROVE MeshTypeOK
    OBVIOUS
  <1>1. meshUsed \in [{"calls", "events", "fails"} -> Nat]
    <2>1. DOMAIN meshUsed = {"calls", "events", "fails"}
      BY DEF MeshInit
    <2>2. meshUsed = [x \in {"calls", "events", "fails"} |-> 0]
      BY DEF MeshInit
    <2>. QED  BY <2>2
  <1>2. appTask \in [AppTask -> {"none", "check", "call", "rest"}]
    BY DEF MeshInit
  <1>3. posts \in Seq({"started", "stopped", "connected", "disconnected", "rootless", "root"})
    BY DEF MeshInit
  <1>. QED
    BY <1>1, <1>2, <1>3 DEF MeshInit, MeshTypeOK

LEMMA UsesType ==
  ASSUME meshUsed \in [{"calls", "events", "fails"} -> Nat],
         NEW what \in {"calls", "events", "fails"}, NEW limit, Uses(what, limit)
  PROVE  meshUsed' \in [{"calls", "events", "fails"} -> Nat]
  BY DEF Uses

\* What is posted, and what is used of the bounds.
LEMMA PostsType ==
  ASSUME MeshTypeOK, [MeshNext]_meshVars
  PROVE  posts' \in Seq(Event)
  <1>1. posts \in Seq(Event)
    BY DEF MeshTypeOK, Event
  <1>2. \A e \in Event : Append(posts, e) \in Seq(Event)
    BY <1>1
  <1>3. /\ "started" \in Event /\ "stopped" \in Event /\ "connected" \in Event
        /\ "disconnected" \in Event /\ "rootless" \in Event /\ "root" \in Event
    BY DEF Event
  <1>4. posts \o <<"disconnected", "stopped">> \in Seq(Event)
    BY <1>1, <1>3
  <1>5. CASE UNCHANGED posts
    BY <1>1, <1>5
  <1>6. CASE StartMesh \/ ParentFound \/ ParentLost \/ RootChanges("rootless") \/ RootChanges("root")
    BY <1>1, <1>2, <1>3, <1>6 DEF StartMesh, ParentFound, ParentLost, RootChanges
  <1>7. CASE StopMesh
    BY <1>2, <1>3, <1>4, <1>7 DEF StopMesh
  <1>8. CASE EventCb
    BY <1>1, <1>8 DEF EventCb
  <1>9. CASE InitMwifi \/ SetConfig \/ StartCall \/ StopCall("stop") \/ StopCall("restart")
             \/ DeinitMwifi \/ StartMeshFails \/ StopMeshFails \/ AppMain
             \/ (\E t \in AppTask : AppStep(t)) \/ UNCHANGED meshVars
    BY <1>5, <1>9
    DEF InitMwifi, SetConfig, StartCall, StopCall, DeinitMwifi, StartMeshFails, StopMeshFails,
        AppMain, AppStep, AppCheck, AppCall, AppCallFails, AppRested, AppUnchanged, stackVars, meshVars
  <1>. QED
    BY <1>6, <1>7, <1>8, <1>9 DEF MeshNext, CallStep

LEMMA MeshUsedType ==
  ASSUME MeshTypeOK, [MeshNext]_meshVars
  PROVE  meshUsed' \in [{"calls", "events", "fails"} -> Nat]
  <1>1. CASE \E what \in {"calls", "events", "fails"} : \E limit : Uses(what, limit)
    BY <1>1, UsesType DEF MeshTypeOK
  <1>2. CASE UNCHANGED meshUsed
    BY <1>2 DEF MeshTypeOK
  <1>3. CASE InitMwifi \/ SetConfig \/ StartCall \/ StopCall("stop") \/ StopCall("restart")
             \/ DeinitMwifi
    BY <1>1, <1>3 DEF InitMwifi, SetConfig, StartCall, StopCall, DeinitMwifi, MeshCall
  <1>4. CASE ParentFound \/ ParentLost \/ RootChanges("rootless") \/ RootChanges("root")
    BY <1>1, <1>4 DEF ParentFound, ParentLost, RootChanges
  <1>5. CASE StartMeshFails \/ StopMeshFails
    BY <1>1, <1>5 DEF StartMeshFails, StopMeshFails, MeshFail
  <1>6. CASE StartMesh \/ StopMesh \/ EventCb \/ AppMain \/ UNCHANGED meshVars
    BY <1>2, <1>6 DEF StartMesh, StopMesh, EventCb, AppMain, meshVars
  <1>7. CASE \E t \in AppTask : AppStep(t)
    BY <1>1, <1>2, <1>7 DEF AppStep, AppCheck, AppCall, AppCallFails, AppRested, MeshFail
  <1>. QED
    BY <1>3, <1>4, <1>5, <1>6, <1>7 DEF MeshNext, CallStep

LEMMA AppTaskType ==
  ASSUME MeshTypeOK, [MeshNext]_meshVars
  PROVE  appTask' \in [AppTask -> {"none", "check", "call", "rest"}]
  <1>1. CASE UNCHANGED appTask
    BY <1>1 DEF MeshTypeOK
  <1>2. CASE \E t \in AppTask : AppStep(t)
    BY <1>2 DEF MeshTypeOK, AppStep, AppCheck, AppCall, AppCallFails, AppRested
  <1>3. CASE AppMain
    BY <1>3 DEF AppMain
  <1>. QED
    BY <1>1, <1>2, <1>3
    DEF MeshNext, CallStep, InitMwifi, SetConfig, StartCall, StopCall, DeinitMwifi, StartMesh,
        StartMeshFails, StopMesh, StopMeshFails, EventCb, ParentFound, ParentLost, RootChanges,
        appVars, meshVars

\* The flags and the calls: of what is posted only the first event matters.
FlagTypes ==
  /\ inited \in BOOLEAN /\ hasConfig \in BOOLEAN /\ (hasConfig => inited)
  /\ started \in BOOLEAN /\ connected \in BOOLEAN /\ rootless \in BOOLEAN
  /\ call \in {"idle", "start", "stop", "restart"}
  /\ stackOn \in BOOLEAN /\ parent \in BOOLEAN /\ (parent => stackOn) /\ astray \in BOOLEAN

LEMMA FlagTypesStep == FlagTypes /\ [MeshNext]_meshVars => FlagTypes'
  <1>. SUFFICES ASSUME FlagTypes, [MeshNext]_meshVars PROVE FlagTypes'
    OBVIOUS
  <1>1. CASE InitMwifi \/ SetConfig \/ StartCall
    <2>1. UNCHANGED <<started, connected, rootless, stackOn, parent, astray>>
      BY <1>1 DEF InitMwifi, SetConfig, StartCall, flagVars, stackVars
    <2>2. inited' \in BOOLEAN /\ hasConfig' \in BOOLEAN /\ (hasConfig' => inited')
      BY <1>1 DEF FlagTypes, InitMwifi, SetConfig, StartCall
    <2>3. call' \in {"idle", "start", "stop", "restart"}
      BY <1>1 DEF FlagTypes, InitMwifi, SetConfig, StartCall
    <2>. QED  BY <2>1, <2>2, <2>3 DEF FlagTypes
  <1>2. CASE StopCall("stop") \/ StopCall("restart")
    <2>1. UNCHANGED <<inited, hasConfig, connected, rootless, stackOn, parent, astray>>
      BY <1>2 DEF StopCall, stackVars
    <2>2. started' = FALSE /\ call' \in {"idle", "start", "stop", "restart"}
      BY <1>2 DEF StopCall
    <2>. QED  BY <2>1, <2>2 DEF FlagTypes
  <1>3. CASE DeinitMwifi
    <2>1. UNCHANGED <<started, connected, rootless, call>>
      BY <1>3 DEF DeinitMwifi, flagVars
    <2>2. inited' = FALSE /\ hasConfig' = FALSE /\ stackOn' = FALSE /\ parent' = FALSE
      BY <1>3 DEF DeinitMwifi
    <2>3. astray' \in BOOLEAN
      BY <1>3 DEF DeinitMwifi
    <2>. QED  BY <2>1, <2>2, <2>3 DEF FlagTypes
  <1>4. CASE StartMesh \/ StartMeshFails
    <2>1. UNCHANGED <<inited, hasConfig, started, connected, rootless, parent, astray>>
      BY <1>4 DEF StartMesh, StartMeshFails, flagVars, stackVars
    <2>2. call' = "idle" /\ (stackOn' = TRUE \/ stackOn' = stackOn)
      BY <1>4 DEF StartMesh, StartMeshFails, stackVars
    <2>. QED  BY <2>1, <2>2 DEF FlagTypes
  <1>5. CASE StopMesh
    BY <1>5 DEF FlagTypes, StopMesh, AfterStop, flagVars
  <1>6. CASE StopMeshFails
    BY <1>6 DEF FlagTypes, StopMeshFails, flagVars, stackVars
  <1>7. CASE EventCb
    <2>1. rootless' \in BOOLEAN
      BY <1>7 DEF FlagTypes, EventCb, RootlessBy
    <2>2. started' \in BOOLEAN
      BY <1>7 DEF FlagTypes, EventCb, StartedBy
    <2>3. connected' \in BOOLEAN
      BY <1>7 DEF FlagTypes, EventCb, ConnectedBy
    <2>. QED  BY <1>7, <2>1, <2>2, <2>3 DEF FlagTypes, EventCb
  <1>8. CASE ParentFound \/ ParentLost
    <2>1. UNCHANGED <<inited, hasConfig, started, connected, rootless, call, stackOn, astray>>
      BY <1>8 DEF ParentFound, ParentLost, flagVars
    <2>2. parent' \in BOOLEAN /\ stackOn
      BY <1>8 DEF ParentFound, ParentLost
    <2>. QED  BY <2>1, <2>2 DEF FlagTypes
  <1>9. CASE RootChanges("rootless") \/ RootChanges("root")
    BY <1>9 DEF FlagTypes, RootChanges, flagVars
  <1>10. CASE AppMain \/ UNCHANGED meshVars
    BY <1>10 DEF FlagTypes, AppMain, flagVars, stackVars, meshVars
  <1>11. CASE \E t \in AppTask : AppStep(t)
    BY <1>11
    DEF FlagTypes, AppStep, AppCheck, AppCall, AppCallFails, AppRested, AppUnchanged, flagVars, stackVars
  <1>. QED
    BY <1>1, <1>2, <1>3, <1>4, <1>5, <1>6, <1>7, <1>8, <1>9, <1>10, <1>11 DEF MeshNext, CallStep

LEMMA MeshTypeStep == MeshTypeOK /\ [MeshNext]_meshVars => MeshTypeOK'
  <1>. SUFFICES ASSUME MeshTypeOK, [MeshNext]_meshVars PROVE MeshTypeOK'
    OBVIOUS
  <1>1. FlagTypes'
    BY FlagTypesStep DEF FlagTypes, MeshTypeOK
  <1>2. posts' \in Seq({"started", "stopped", "connected", "disconnected", "rootless", "root"})
    BY PostsType DEF Event
  <1>. QED
    BY <1>1, <1>2, MeshUsedType, AppTaskType DEF FlagTypes, MeshTypeOK

-----------------------------------------------------------------------------
(* The flags *)

LEMMA MeshInvInit == MeshInit => MeshInv
  <1>1. \A kinds, on : Tells(<<>>, kinds, on, FALSE, FALSE)
    BY DEF Tells
  <1>2. MeshInit => StartedWillBeTrue /\ ConnectedWillBeTrue
    BY <1>1 DEF MeshInit, StartedWillBeTrue, ConnectedWillBeTrue
  <1>. QED  BY <1>2, MeshTypeInit DEF MeshInv

LEMMA PostsAreEvents == MeshTypeOK => posts \in Seq(Event)
  BY DEF MeshTypeOK, Event

\* Both ways of posting that the mesh has stopped, of which the first may come with the
\* parent being gone.
LEMMA StoppedTells ==
  ASSUME MeshTypeOK, StopMesh, NEW kinds, NEW on, NEW flag, "stopped" \in kinds, on # "stopped"
  PROVE  Tells(posts', kinds, on, flag, FALSE)
  <1>1. posts \in Seq(Event) /\ Append(posts, "disconnected") \in Seq(Event)
    BY PostsAreEvents DEF Event
  <1>2. posts \o <<"disconnected", "stopped">> = Append(Append(posts, "disconnected"), "stopped")
    BY <1>1
  <1>3. PICK s \in Seq(Event) : posts' = Append(s, "stopped")
    BY <1>1, <1>2 DEF StopMesh
  <1>4. "stopped" \in Event /\ ("stopped" = on) = FALSE
    BY DEF Event
  <1>5. Tells(Append(s, "stopped"), kinds, on, flag, "stopped" = on)
    BY <1>3, <1>4, AppendTells
  <1>. QED  BY <1>3, <1>4, <1>5

LEMMA MeshInvStep == MeshInv /\ [MeshNext]_meshVars => MeshInv'
  <1>. SUFFICES ASSUME MeshInv, [MeshNext]_meshVars PROVE MeshInv'
    OBVIOUS
  <1>1. MeshTypeOK /\ StartedWillBeTrue /\ ConnectedWillBeTrue
    BY DEF MeshInv
  <1>2. MeshTypeOK' /\ posts \in Seq(Event)
    BY <1>1, MeshTypeStep, PostsAreEvents
  <1>. SUFFICES StartedWillBeTrue' /\ ConnectedWillBeTrue'
    BY <1>2 DEF MeshInv
  <1>3. CASE /\ UNCHANGED <<posts, started, connected, stackOn, parent, astray>>
             /\ (call' \notin {"stop", "restart"}) => (call \notin {"stop", "restart"})
    BY <1>1, <1>3 DEF StartedWillBeTrue, ConnectedWillBeTrue
  <1>4. CASE InitMwifi \/ SetConfig \/ StartCall \/ StartMeshFails \/ AppMain
             \/ (\E t \in AppTask : AppStep(t)) \/ UNCHANGED meshVars
    BY <1>3, <1>4
    DEF InitMwifi, SetConfig, StartCall, StartMeshFails, AppMain, AppStep, AppCheck, AppCall,
        AppCallFails, AppRested, AppUnchanged, MeshCall, flagVars, stackVars, meshVars
  \* While mwifi_stop is at work only what tells of the parent matters.
  <1>5. CASE StopCall("stop") \/ StopCall("restart")
    BY <1>1, <1>5 DEF StopCall, stackVars, StartedWillBeTrue, ConnectedWillBeTrue
  <1>6. CASE StartMesh
    <2>1. CASE stackOn
      BY <1>1, <1>6, <2>1 DEF StartMesh, flagVars, StartedWillBeTrue, ConnectedWillBeTrue
    <2>2. CASE ~ stackOn
      <3>1. posts' = Append(posts, "started") /\ stackOn' = TRUE
        BY <1>6, <2>2 DEF StartMesh
      <3>2. Tells(posts', RunEvent, "started", started', stackOn')
        <4>1. "started" \in Event /\ "started" \in RunEvent
          BY DEF Event, RunEvent
        <4>2. Tells(Append(posts, "started"), RunEvent, "started", started', "started" = "started")
          BY <1>2, <4>1, AppendTells
        <4>. QED  BY <3>1, <4>2
      <3>3. UNCHANGED <<connected, parent, astray>>
        BY <1>6 DEF StartMesh, flagVars
      <3>4. ~ astray' => Tells(posts', ParentEvent, "connected", connected', parent')
        <4>1. "started" \in Event /\ "started" \notin ParentEvent
          BY DEF Event, ParentEvent
        <4>. QED  BY <1>1, <1>2, <3>1, <3>3, <4>1, AppendOther DEF ConnectedWillBeTrue
      <3>. QED  BY <3>2, <3>4 DEF StartedWillBeTrue, ConnectedWillBeTrue
    <2>. QED  BY <2>1, <2>2
  \* The last event says that the mesh has stopped.
  <1>7. CASE StopMesh
    <2>1. stackOn' = FALSE /\ parent' = FALSE
      BY <1>7 DEF StopMesh
    <2>2. Tells(posts', RunEvent, "started", started', stackOn')
      <3>1. "stopped" \in RunEvent /\ "started" # "stopped"
        BY DEF RunEvent
      <3>. QED  BY <1>1, <1>7, <2>1, <3>1, StoppedTells
    <2>3. Tells(posts', ParentEvent, "connected", connected', parent')
      <3>1. "stopped" \in ParentEvent /\ "connected" # "stopped"
        BY DEF ParentEvent
      <3>. QED  BY <1>1, <1>7, <2>1, <3>1, StoppedTells
    <2>. QED  BY <2>2, <2>3 DEF StartedWillBeTrue, ConnectedWillBeTrue
  <1>8. CASE StopMeshFails
    BY <1>8 DEF StopMeshFails, StartedWillBeTrue, ConnectedWillBeTrue
  <1>9. CASE DeinitMwifi
    <2>1. CASE stackOn
      BY <1>9, <2>1 DEF DeinitMwifi, StartedWillBeTrue, ConnectedWillBeTrue
    <2>2. CASE ~ stackOn
      <3>1. UNCHANGED <<posts, started, connected, stackOn, parent, astray, call>>
        BY <1>1, <1>9, <2>2 DEF DeinitMwifi, flagVars, MeshTypeOK
      <3>. QED  BY <1>3, <3>1
    <2>. QED  BY <2>1, <2>2
  <1>10. CASE EventCb
    <2>1. posts # <<>> /\ posts' = Tail(posts) /\ UNCHANGED <<call, stackOn, parent, astray>>
      BY <1>10 DEF EventCb
    <2>2. Head(posts) \in {"started", "stopped", "connected", "disconnected", "rootless", "root"}
      BY <1>1, <2>1 DEF MeshTypeOK
    <2>3. started' = Heeds(posts, RunEvent, "started", started)
      BY <1>10, <2>2 DEF EventCb, StartedBy, Heeds, RunEvent
    <2>4. connected' = Heeds(posts, ParentEvent, "connected", connected)
      BY <1>10, <2>2 DEF EventCb, ConnectedBy, Heeds, ParentEvent
    <2>5. StartedWillBeTrue'
      BY <1>1, <1>2, <2>1, <2>3, TailTells DEF StartedWillBeTrue
    <2>6. ConnectedWillBeTrue'
      BY <1>1, <1>2, <2>1, <2>4, TailTells DEF ConnectedWillBeTrue
    <2>. QED  BY <2>5, <2>6
  <1>11. CASE RootChanges("rootless") \/ RootChanges("root")
    <2>1. PICK e \in {"rootless", "root"} : posts' = Append(posts, e)
      BY <1>11 DEF RootChanges
    <2>2. e \in Event /\ e \notin RunEvent /\ e \notin ParentEvent
      BY DEF Event, RunEvent, ParentEvent
    <2>3. UNCHANGED <<started, connected, call, stackOn, parent, astray>>
      BY <1>11 DEF RootChanges, flagVars
    <2>4. StartedWillBeTrue'
      BY <1>1, <1>2, <2>1, <2>2, <2>3, AppendOther DEF StartedWillBeTrue
    <2>5. ConnectedWillBeTrue'
      BY <1>1, <1>2, <2>1, <2>2, <2>3, AppendOther DEF ConnectedWillBeTrue
    <2>. QED  BY <2>4, <2>5
  <1>12. CASE ParentFound \/ ParentLost
    <2>1. PICK e \in {"connected", "disconnected"} :
            posts' = Append(posts, e) /\ parent' = (e = "connected")
      BY <1>12 DEF ParentFound, ParentLost
    <2>2. e \in Event /\ e \notin RunEvent /\ e \in ParentEvent
      BY DEF Event, RunEvent, ParentEvent
    <2>3. UNCHANGED <<started, call, stackOn, astray>>
      BY <1>12 DEF ParentFound, ParentLost, flagVars
    <2>4. StartedWillBeTrue'
      BY <1>1, <1>2, <2>1, <2>2, <2>3, AppendOther DEF StartedWillBeTrue
    <2>5. Tells(Append(posts, e), ParentEvent, "connected", connected', e = "connected")
      BY <1>2, <2>2, AppendTells
    <2>. QED  BY <2>1, <2>4, <2>5 DEF ConnectedWillBeTrue
  <1>. QED
    BY <1>4, <1>5, <1>6, <1>7, <1>8, <1>9, <1>10, <1>11, <1>12 DEF MeshNext, CallStep

LEMMA MeshAlways == MeshSpec => []MeshInv
  BY MeshInvInit, MeshInvStep, PTL DEF MeshSpec

-----------------------------------------------------------------------------
\* The types of the starting and stopping of the mesh, for any number of calls and events.
THEOREM MeshTypesHold == MeshSpec => []MeshTypeOK
  <1>1. MeshInv => MeshTypeOK
    BY DEF MeshInv
  <1>. QED  BY <1>1, MeshAlways, PTL

\* However many starts, stops, restarts and events there are, and in whatever order the
\* calls and the events that tell of them come: when no event waits and no call is under
\* way, mwifi_is_started and mwifi_is_connected say what is so, unless esp_mesh_stop failed
\* or mwifi_deinit met a mesh that ran.
THEOREM FlagsTellTheTruth == MeshSpec => []FlagsFollowTheMesh
  <1>1. MeshInv => FlagsFollowTheMesh
    <2>. SUFFICES ASSUME MeshInv, posts = <<>>, call = "idle", ~ astray
                  PROVE  (started <=> stackOn) /\ (connected <=> parent)
      BY DEF FlagsFollowTheMesh
    <2>1. Tells(<<>>, RunEvent, "started", started, stackOn)
      BY DEF MeshInv, StartedWillBeTrue
    <2>2. Tells(<<>>, ParentEvent, "connected", connected, parent)
      BY DEF MeshInv, ConnectedWillBeTrue
    <2>. QED  BY <2>1, <2>2, NoneTells
  <1>. QED  BY <1>1, MeshAlways, PTL
=============================================================================
