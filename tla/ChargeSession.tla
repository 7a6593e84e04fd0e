---------------------------- MODULE ChargeSession ----------------------------
(***************************************************************************)
(* What the SECC promises a vehicle about its charging session (the        *)
(* session state of src/include/jpv2g/secc.h and the phases of             *)
(* src/include/jpv2g/state_secc.h), whatever messages bring it about: a    *)
(* connection serves one session, under one SessionID; a paused session is *)
(* kept, across any number of other connections, for one return and no     *)
(* other session takes its SessionID meanwhile; and the energy, once       *)
(* stopped, does not flow again.  A connection can break off at any time.  *)
(***************************************************************************)
CONSTANTS
  Ids,          \* the SessionIDs
  None          \* no SessionID

VARIABLES
  stage,        \* of the connection
  session,      \* the session it serves
  memory,       \* the paused session
  power         \* what the vehicle was granted

vars == <<stage, session, memory, power>>

Init == /\ stage = "none"
        /\ session = None
        /\ memory = None
        /\ power = "off"

Open ==
  /\ stage = "none"
  /\ stage' = "open"
  /\ UNCHANGED <<session, memory, power>>

\* A new session, or one announced under no SessionID, which can do nothing.
Announce(id) ==
  /\ stage = "open"
  /\ id # memory \/ id = None
  /\ stage' = "serving"
  /\ session' = id
  /\ UNCHANGED <<memory, power>>

Rejoin ==
  /\ stage = "open"
  /\ memory # None
  /\ stage' = "serving"
  /\ session' = memory
  /\ memory' = None
  /\ UNCHANGED power

\* The return was granted, but the vehicle cannot be told.
LoseRejoin ==
  /\ stage = "open"
  /\ stage' = "over"
  /\ memory' = None
  /\ UNCHANGED <<session, power>>

\* The energy starts, pauses for a renegotiation, or is stopped for good.
Switch(from, to) ==
  /\ stage = "serving"
  /\ session # None
  /\ power \in from
  /\ power' = to
  /\ UNCHANGED <<stage, session, memory>>

Energise    == Switch({"off"}, "on")
Renegotiate == Switch({"on"}, "off")
Relieve     == Switch({"off", "on"}, "stopped")

\* The connection is over; what it served is, too, unless it is remembered.
Finish ==
  /\ stage' = "over"
  /\ session' = None
  /\ power' = "off"

Suspend ==
  /\ stage = "serving"
  /\ session # None
  /\ memory' = session
  /\ Finish

End ==
  /\ stage \in {"open", "serving"}
  /\ UNCHANGED memory
  /\ Finish

Leave ==
  /\ stage = "over"
  /\ stage' = "none"
  /\ UNCHANGED <<session, memory, power>>

Next == \/ Open \/ Rejoin \/ LoseRejoin
        \/ Energise \/ Renegotiate \/ Relieve
        \/ Suspend \/ End \/ Leave
        \/ \E id \in Ids \cup {None} : Announce(id)

Spec == Init /\ [][Next]_vars

-------------------------------------------------------------------------------

\* A session is served on its connection alone, never under the SessionID of the
\* one that is paused, and nobody is granted energy without one.
SessionPromise ==
  /\ stage # "serving" => session = None
  /\ memory # None => session # memory
  /\ power # "off" => session # None

===============================================================================
