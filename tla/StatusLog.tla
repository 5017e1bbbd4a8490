------------------------------ MODULE StatusLog ------------------------------
(***************************************************************************)
(* What the callers of the status runtime and the readers of its events    *)
(* are promised, whatever its fibers do to each other: there is one status, *)
(* a call replaces it at one instant between its beginning and its return   *)
(* and is answered with what it put there, and whoever reads the events    *)
(* knows what the status says at every instant, but for the addresses of a  *)
(* host that stays online: those the next heartbeat tells.  A disconnect    *)
(* changes only what is known of the queue, and there is none before the    *)
(* first status.                                                            *)
(***************************************************************************)
EXTENDS StatusSnapshots

CONSTANTS Observers,      \* who observes
          Periodic,       \* the observers that report each answer (the heartbeat)
          AddressLists,   \* what may be observed of the network
          Recorders,      \* who records disconnects
          QueueStatuses,  \* what may be observed of the queue
          Messages        \* what a disconnect may say

Callers == Observers \cup Recorders

VARIABLES status,   \* the status, Null before the first observation
          told,     \* what a reader of the published events knows
          call,     \* "none", "pending" or "over", for each caller
          answer    \* what the call is answered with once it is over

logVars == <<status, told, call, answer>>

Init ==
  /\ status = Null /\ told = Null
  /\ call = [c \in Callers |-> "none"]
  /\ answer = [c \in Callers |-> Null]

Observe(c) ==
  /\ call[c] = "none"
  /\ call' = [call EXCEPT ![c] = "pending"]
  /\ UNCHANGED <<status, told, answer>>

\* A recorded disconnect is no first status.
Record(c) ==
  /\ call[c] = "none"
  /\ call' = [call EXCEPT ![c] = IF status = Null THEN "over" ELSE "pending"]
  /\ UNCHANGED <<status, told, answer>>

\* The instant of a call: status, events and answer at once.
Settles(c) ==
  /\ call[c] = "pending"
  /\ call' = [call EXCEPT ![c] = "over"]

TakesEffect(c, new) ==
  /\ status' = new
  /\ told' = IF status = Null THEN View(new) ELSE Informed(told, status, new)
  /\ answer' = [answer EXCEPT ![c] = new]

ObservationTakesEffect(c) ==
  /\ Settles(c)
  /\ \E localIps \in AddressLists, queue \in QueueStatuses, usb \in UsbDeviceStates :
       TakesEffect(c, Snapshot(localIps, queue, usb))

DisconnectTakesEffect(c) ==
  /\ Settles(c)
  /\ \E message \in Messages :
       TakesEffect(c, Snapshot(status.localIps, Unreachable(message), status.usbDevice))

Return(c) ==
  /\ call[c] = "over"
  /\ call' = [call EXCEPT ![c] = "none"]
  /\ answer' = [answer EXCEPT ![c] = Null]
  /\ UNCHANGED <<status, told>>

\* A heartbeat reports the status it is answered with, which is still the status.
Beat(c) ==
  /\ call[c] = "over" /\ answer[c] = status
  /\ told' = View(status)
  /\ call' = [call EXCEPT ![c] = "none"]
  /\ answer' = [answer EXCEPT ![c] = Null]
  /\ UNCHANGED status

\* Each step is one of a call.
Next ==
  /\ call' # call
  /\ \/ \E c \in Observers : Observe(c) \/ ObservationTakesEffect(c)
     \/ \E c \in Recorders : Record(c) \/ DisconnectTakesEffect(c)
     \/ \E c \in Callers \ Periodic : Return(c)
     \/ \E c \in Periodic : Beat(c)

Spec == Init /\ [][Next]_logVars
=============================================================================
