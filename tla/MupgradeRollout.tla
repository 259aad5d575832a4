--------------------------- MODULE MupgradeRollout ---------------------------
(***************************************************************************)
(* What mupgrade_firmware_send promises its caller: it waits for a set of  *)
(* devices, counts one as succeeded only when that device holds the        *)
(* firmware, lets one go otherwise only when it declines, and ends.        *)
(***************************************************************************)
CONSTANT Node

VARIABLES
  open,     \* a send is under way
  pending,  \* devices it waits for
  done,     \* devices it counts as succeeded
  holds,    \* devices that hold the firmware
  declines  \* devices whose application has stopped the upgrade

vars == <<open, pending, done, holds, declines>>

Init == open = FALSE /\ pending = {} /\ done = {} /\ holds = {} /\ declines = {}

Open(devices) ==
  /\ open = FALSE /\ open' = TRUE
  /\ pending' = devices /\ done' = {}
  /\ UNCHANGED <<holds, declines>>

Install(n) ==
  /\ holds' = holds \union {n}
  /\ UNCHANGED <<open, pending, done, declines>>

\* To decline is also to take back what was installed.
Decline(n) ==
  /\ declines' = declines \union {n}
  /\ holds' = holds \ {n}
  /\ UNCHANGED <<open, pending, done>>

Confirm(n) ==
  /\ open = TRUE /\ n \in pending \intersect (holds \union declines)
  /\ pending' = pending \ {n} /\ done' = done \union {n}
  /\ UNCHANGED <<open, holds, declines>>

Release(n) ==
  /\ open = TRUE /\ n \in pending \intersect declines
  /\ pending' = pending \ {n}
  /\ UNCHANGED <<open, done, holds, declines>>

Close ==
  /\ open = TRUE /\ open' = FALSE
  /\ UNCHANGED <<pending, done, holds, declines>>

Next ==
  \/ \E devices \in SUBSET Node : Open(devices)
  \/ \E n \in Node : Install(n) \/ Decline(n) \/ Confirm(n) \/ Release(n)
  \/ Close

Spec == Init /\ [][Next]_vars /\ WF_vars(Close)
=============================================================================
