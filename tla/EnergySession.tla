---------------------------- MODULE EnergySession ----------------------------
(***************************************************************************)
(* What a DC charging session promises the power path, whatever messages   *)
(* bring it about (the phases of src/include/jpv2g/secc_iso20.h): energy   *)
(* flows once every ground for it has been established, in this order, and *)
(* in this session; once it has been stopped it does not flow again; and a *)
(* session ends in order only when it does not flow.  A session can break  *)
(* off, or begin anew, at any time.                                        *)
(***************************************************************************)
CONSTANTS
  Grounds,      \* what has to be established before energy may flow
  Before        \* of each ground, those to be established before it

VARIABLES stage, grounds

vars == <<stage, grounds>>

Stages == {"none", "preparing", "energised", "relieved", "stopped", "broken"}

Init == stage = "none" /\ grounds = {}

Begin == stage' = "preparing" /\ grounds' = {}

Establish(g) ==
  /\ stage = "preparing"
  /\ Before[g] \subseteq grounds
  /\ grounds' = grounds \cup {g}
  /\ UNCHANGED stage

Energise ==
  /\ stage = "preparing"
  /\ grounds = Grounds
  /\ stage' = "energised"
  /\ UNCHANGED grounds

\* A vehicle may stop the energy before it has started it.
Relieve ==
  /\ stage \in {"preparing", "energised"}
  /\ grounds = Grounds
  /\ stage' = "relieved"
  /\ UNCHANGED grounds

Stop ==
  /\ stage \in {"preparing", "relieved"}
  /\ stage' = "stopped"
  /\ grounds' = {}

Break ==
  /\ stage \in {"preparing", "energised", "relieved"}
  /\ stage' = "broken"
  /\ grounds' = {}

Leave ==
  /\ stage \in {"stopped", "broken"}
  /\ stage' = "none"
  /\ UNCHANGED grounds

Next == \/ Begin \/ Energise \/ Relieve \/ Stop \/ Break \/ Leave
        \/ \E g \in Grounds : Establish(g)

Spec == Init /\ [][Next]_vars

-------------------------------------------------------------------------------

\* Energy that flows, or has been stopped in order, was started on every ground,
\* and no ground was there before those it rests on.
EnergyPromise ==
  /\ stage \in {"energised", "relieved"} => grounds = Grounds
  /\ \A g \in grounds : Before[g] \subseteq grounds

===============================================================================
