---------------------------- MODULE StateNotifier ----------------------------
(***************************************************************************)
(* What a device server promises to the code that listens to its           *)
(* deviceStateChanged signal, whatever device is behind it.                *)
(*                                                                         *)
(* Publishing a state is one step here: getState() answers it from then on *)
(* and one notification of it is on its way.  A state is published when it *)
(* differs from the last one, or at every turn while infinite emission is  *)
(* on.  Notifications are delivered once, in order, none lost: the signal  *)
(* crosses threads as a queued event of the Qt event loop.                 *)
(***************************************************************************)
EXTENDS Naturals, Sequences

CONSTANT MaxEvents  \* bound on undelivered notifications (Qt's queue has none)

VARIABLES
  published,        \* BaseDeviceServer::lastState
  infiniteEmitting, \* BaseDeviceServer::infiniteEmitting
  inbox,            \* notifications not yet delivered to the listener
  seen              \* the last state the listener was told

vars == <<published, infiniteEmitting, inbox, seen>>

\* minter::dev_connection_type, the values of state_string_map.
DevState == {"DISCONNECTED", "APP_NOT_OPENED", "PERMISSION_ERROR", "APP_OPENED"}

Init ==
  /\ published = "DISCONNECTED"
  /\ infiniteEmitting = TRUE
  /\ inbox = <<>>
  /\ seen = "DISCONNECTED"

Publish(s) ==
  /\ Len(inbox) < MaxEvents
  /\ s # published \/ infiniteEmitting
  /\ published' = s
  /\ inbox' = Append(inbox, s)
  /\ UNCHANGED <<infiniteEmitting, seen>>

Deliver ==
  /\ inbox # <<>>
  /\ seen' = Head(inbox)
  /\ inbox' = Tail(inbox)
  /\ UNCHANGED <<published, infiniteEmitting>>

SetInfiniteEmitting(on) ==
  /\ infiniteEmitting' = on
  /\ UNCHANGED <<published, inbox, seen>>

Next ==
  \/ \E s \in DevState : Publish(s)
  \/ Deliver
  \/ \E on \in BOOLEAN : SetInfiniteEmitting(on)

SafeSpec == Init /\ [][Next]_vars

\* The listener's event loop keeps running.
Spec == SafeSpec /\ WF_vars(Deliver)

-----------------------------------------------------------------------------
\* What the listener will believe once it has handled everything queued.
LastKnown(known, queue) == IF queue = <<>> THEN known ELSE queue[Len(queue)]

TypeOK ==
  /\ published \in DevState
  /\ infiniteEmitting \in BOOLEAN
  /\ inbox \in Seq(DevState)
  /\ seen \in DevState

\* No notification is lost or overtaken: once its queue is empty the listener
\* holds the state getState() answers.
NothingLost == LastKnown(seen, inbox) = published
==============================================================================
