------------------------------ MODULE MwifiMesh ------------------------------
(***************************************************************************)
(* Starting and stopping the mesh on a node (mwifi.c) and the tasks of the *)
(* application that write to it and read from it (src/src/main.c).  The    *)
(* mesh itself tells what becomes of it by events, which the system's      *)
(* event task hands to esp_mesh_event_cb one after the other; the flags    *)
(* mwifi_is_started and mwifi_is_connected answer with are set there, and  *)
(* by mwifi_stop.                                                          *)
(*                                                                         *)
(* Left out: what the handler of the application is told, which            *)
(* MdfEventLoop carries, the timer by which a root with a bad signal gives *)
(* itself up, and the values of the configuration.  mwifi_start aborts the *)
(* device without one, and is not called then.                             *)
(***************************************************************************)
EXTENDS Naturals, Sequences

CONSTANTS
  MeshCalls,  \* how often mwifi is started, stopped, initialised and the like
  MeshEvents, \* how often the parent or the root comes or goes
  MeshFails   \* bound on failing calls

ASSUME MeshAssumption == MeshCalls \in Nat /\ MeshEvents \in Nat /\ MeshFails \in Nat

VARIABLES
  inited,     \* g_mwifi_inited_flag
  hasConfig,  \* whether g_ap_config has been set
  started,    \* g_mwifi_started_flag
  connected,  \* mwifi_connected_flag
  rootless,   \* g_rootless_flag
  call,       \* where the application is in mwifi_start, mwifi_stop or mwifi_restart
  appTask,    \* node_write_task and node_read_task
  stackOn, parent,  \* the mesh: whether it runs, and whether it has a parent
  posts,      \* events it has posted
  meshUsed,   \* how much of the bounds is used
  astray      \* the mesh did not stop, or was taken away while it ran

meshVars == <<inited, hasConfig, started, connected, rootless, call, appTask, stackOn, parent,
              posts, meshUsed, astray>>
appVars == <<appTask>>
stackVars == <<stackOn, parent, posts>>
flagVars == <<started, connected, rootless>>

AppTask == {"write", "read"}
Uses(what, limit) == meshUsed[what] < limit /\ meshUsed' = [meshUsed EXCEPT ![what] = @ + 1]
MeshCall == call = "idle" /\ Uses("calls", MeshCalls)
MeshFail == Uses("fails", MeshFails)

-----------------------------------------------------------------------------
\* mwifi_init and mwifi_set_config
InitMwifi ==
  /\ MeshCall /\ ~ inited /\ inited' = TRUE
  /\ UNCHANGED <<hasConfig, flagVars, call, appVars, stackVars, astray>>

SetConfig ==
  /\ MeshCall /\ inited /\ hasConfig' = TRUE
  /\ UNCHANGED <<inited, flagVars, call, appVars, stackVars, astray>>

\* mwifi_start, which does nothing when the flag says that the mesh is started.
StartCall ==
  /\ MeshCall /\ ~ started /\ inited /\ hasConfig /\ call' = "start"
  /\ UNCHANGED <<inited, hasConfig, flagVars, appVars, stackVars, astray>>

\* esp_mesh_start: a mesh that runs goes on.
StartMesh ==
  /\ call = "start" /\ call' = "idle" /\ stackOn' = TRUE
  /\ posts' = IF stackOn THEN posts ELSE Append(posts, "started")
  /\ UNCHANGED <<inited, hasConfig, flagVars, appVars, parent, meshUsed, astray>>

StartMeshFails ==
  /\ call = "start" /\ MeshFail /\ call' = "idle"
  /\ UNCHANGED <<inited, hasConfig, flagVars, appVars, stackVars, astray>>

\* mwifi_stop, and the first half of mwifi_restart.  One that is called before the event
\* "started" has come stops nothing.
StopCall(then) ==
  /\ MeshCall /\ started /\ started' = FALSE /\ call' = then
  /\ UNCHANGED <<inited, hasConfig, connected, rootless, appVars, stackVars, astray>>

AfterStop == IF call = "restart" /\ inited /\ hasConfig THEN "start" ELSE "idle"

\* esp_mesh_stop.  That the parent is gone may be told of its own.
StopMesh ==
  /\ call \in {"stop", "restart"} /\ call' = AfterStop
  /\ stackOn' = FALSE /\ parent' = FALSE
  /\ posts' \in {Append(posts, "stopped"), posts \o <<"disconnected", "stopped">>}
  /\ UNCHANGED <<inited, hasConfig, flagVars, appVars, meshUsed, astray>>

\* It fails: the flag is off already, and mwifi_stop will do nothing any more.
StopMeshFails ==
  /\ call \in {"stop", "restart"} /\ MeshFail /\ call' = "idle" /\ astray' = TRUE
  /\ UNCHANGED <<inited, hasConfig, flagVars, appVars, stackVars>>

\* mwifi_deinit does not look at the flags and leaves them as they are.
DeinitMwifi ==
  /\ MeshCall /\ inited /\ inited' = FALSE /\ hasConfig' = FALSE
  /\ astray' = (astray \/ stackOn) /\ stackOn' = FALSE /\ parent' = FALSE
  /\ UNCHANGED <<flagVars, call, appVars, posts>>

-----------------------------------------------------------------------------
\* The mesh.
ParentFound ==
  /\ stackOn /\ ~ parent /\ Uses("events", MeshEvents)
  /\ parent' = TRUE /\ posts' = Append(posts, "connected")
  /\ UNCHANGED <<inited, hasConfig, flagVars, call, appVars, stackOn, astray>>

\* Also after a search for a parent in vain.
ParentLost ==
  /\ stackOn /\ Uses("events", MeshEvents)
  /\ parent' = FALSE /\ posts' = Append(posts, "disconnected")
  /\ UNCHANGED <<inited, hasConfig, flagVars, call, appVars, stackOn, astray>>

RootChanges(what) ==
  /\ stackOn /\ Uses("events", MeshEvents) /\ posts' = Append(posts, what)
  /\ UNCHANGED <<inited, hasConfig, flagVars, call, appVars, stackOn, parent, astray>>

-----------------------------------------------------------------------------
\* esp_mesh_event_cb
StartedBy(event) == CASE event = "started" -> TRUE [] event = "stopped" -> FALSE [] OTHER -> started

ConnectedByForgets(event) ==  \* mutant
  CASE event = "connected" -> TRUE [] event = "disconnected" -> FALSE [] OTHER -> connected
ConnectedBy(event) ==
  CASE event = "connected" -> TRUE
    [] event \in {"disconnected", "stopped"} -> FALSE
    [] OTHER -> connected

\* A device that has found a parent knows itself whether it is the root.
RootlessBy(event) ==
  CASE event = "rootless" -> {TRUE} [] event = "root" -> {FALSE}
    [] event = "connected" -> {rootless, FALSE} [] OTHER -> {rootless}

EventCb ==
  LET event == Head(posts) IN
  /\ posts # <<>> /\ posts' = Tail(posts)
  /\ started' = StartedBy(event) /\ connected' = ConnectedBy(event)
  /\ rootless' \in RootlessBy(event)
  /\ UNCHANGED <<inited, hasConfig, call, appVars, stackOn, parent, meshUsed, astray>>

-----------------------------------------------------------------------------
\* app_main creates the tasks once mwifi_start has returned.
AppMain ==
  /\ call = "idle" /\ stackOn /\ appTask["write"] = "none"
  /\ appTask' = [t \in AppTask |-> "check"]
  /\ UNCHANGED <<inited, hasConfig, flagVars, call, stackVars, meshUsed, astray>>

AppUnchanged == UNCHANGED <<inited, hasConfig, flagVars, call, stackVars, astray>>

\* A node that is not connected waits half a second.
AppCheck(t) ==
  /\ appTask[t] = "check"
  /\ appTask' = [appTask EXCEPT ![t] = IF connected THEN "call" ELSE "rest"]
  /\ AppUnchanged /\ UNCHANGED meshUsed

\* mwifi_write and mwifi_read refuse at once.
Refuses(t) == ~ started \/ (t = "write" /\ rootless)

\* It has written and waits a second, or waits in mwifi_read until there is something.
AppCall(t) ==
  /\ appTask[t] = "call" /\ ~ Refuses(t) /\ appTask' = [appTask EXCEPT ![t] = "rest"]
  /\ AppUnchanged /\ UNCHANGED meshUsed

\* After an error the loop goes on without a delay.
AppCallFails(t) ==
  /\ appTask[t] = "call" /\ appTask' = [appTask EXCEPT ![t] = "check"]
  /\ IF Refuses(t) \/ ~ parent THEN UNCHANGED meshUsed ELSE MeshFail
  /\ AppUnchanged

AppRested(t) ==
  /\ appTask[t] = "rest" /\ appTask' = [appTask EXCEPT ![t] = "check"]
  /\ AppUnchanged /\ UNCHANGED meshUsed

-----------------------------------------------------------------------------
MeshInit ==
  /\ inited = FALSE /\ hasConfig = FALSE /\ started = FALSE /\ connected = FALSE /\ rootless = FALSE
  /\ call = "idle" /\ appTask = [t \in AppTask |-> "none"]
  /\ stackOn = FALSE /\ parent = FALSE /\ posts = <<>>
  /\ meshUsed = [calls |-> 0, events |-> 0, fails |-> 0] /\ astray = FALSE

CallStep == StartMesh \/ StartMeshFails \/ StopMesh \/ StopMeshFails
AppStep(t) == AppCheck(t) \/ AppCall(t) \/ AppCallFails(t) \/ AppRested(t)

MeshNext ==
  \/ InitMwifi \/ SetConfig \/ StartCall \/ StopCall("stop") \/ StopCall("restart") \/ DeinitMwifi
  \/ CallStep \/ EventCb
  \/ ParentFound \/ ParentLost \/ RootChanges("rootless") \/ RootChanges("root")
  \/ AppMain \/ \E t \in AppTask : AppStep(t)

\* The tasks run; nobody has to call, and no parent has to be found.
MeshFairness ==
  /\ WF_meshVars(CallStep) /\ WF_meshVars(EventCb)
  /\ \A t \in AppTask : WF_meshVars(AppStep(t))

MeshSpec == MeshInit /\ [][MeshNext]_meshVars /\ MeshFairness

-----------------------------------------------------------------------------
MeshTypeOK ==
  /\ inited \in BOOLEAN /\ hasConfig \in BOOLEAN /\ (hasConfig => inited)
  /\ started \in BOOLEAN /\ connected \in BOOLEAN /\ rootless \in BOOLEAN
  /\ call \in {"idle", "start", "stop", "restart"}
  /\ appTask \in [AppTask -> {"none", "check", "call", "rest"}]
  /\ stackOn \in BOOLEAN /\ parent \in BOOLEAN /\ (parent => stackOn)
  /\ posts \in Seq({"started", "stopped", "connected", "disconnected", "rootless", "root"})
  /\ meshUsed \in [{"calls", "events", "fails"} -> Nat] /\ astray \in BOOLEAN

\* When no event waits and no call is under way, mwifi_is_started and mwifi_is_connected
\* tell the truth, however starts, stops and restarts came before their events, unless
\* esp_mesh_stop has failed or mwifi_deinit has met a mesh that ran.
FlagsFollowTheMesh ==
  (posts = <<>> /\ call = "idle" /\ ~ astray) =>
    (started <=> stackOn) /\ (connected <=> parent)

\* A task of the application does not go round its loop for ever without a delay: it
\* comes to rest, unless the flags have gone astray or the network has no root.
TasksRest ==
  \A t \in AppTask : appTask[t] = "call" ~> (appTask[t] = "rest" \/ astray \/ rootless)
=============================================================================
