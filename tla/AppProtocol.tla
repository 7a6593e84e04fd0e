----------------------------- MODULE AppProtocol -----------------------------
(***************************************************************************)
(* The selection of the application protocol (src/src/secc.c,              *)
(* select_app_protocol and what calls it).  The stream loop runs the       *)
(* selection twice over one SupportedAppProtocolReq: once to know which    *)
(* protocol to pin, and, after the sequencer has accepted the request,     *)
(* once more in the handler that writes the response.  Each run reads the  *)
(* protocol mask anew for every offer, while the application may set the   *)
(* mask from another thread.                                               *)
(*                                                                         *)
(* The module runs the loop one offer at a time, with the mask changing    *)
(* in between.  The namespace of an offer is abstracted to the protocol    *)
(* whose pattern it matches (at most one, in the order the code tries      *)
(* them), its SchemaID to its index; the minor version decides nothing but *)
(* which of two positive codes is answered, and is left out.               *)
(***************************************************************************)
EXTENDS Integers, Sequences

CONSTANTS
  Priorities,   \* what an offer's Priority can be: the lower, the better
  Majors,       \* the major versions an offer can carry
  MaxOffers,    \* appHand_AppProtocolType_20_ARRAY_SIZE
  Registered    \* whether a secc20 session is registered

Maskable  == {"ISO2", "DIN"}
Protocols == Maskable \cup {"ISO20"}
Unknown   == "UNKNOWN"

Offers == [matches : Protocols \cup {"other"}, major : Majors, priority : Priorities]

ASSUME PriorityAssumption == Priorities \subseteq 0..255
ASSUME VersionAssumption  == Majors \subseteq Nat
ASSUME OffersAssumption   == MaxOffers \in Nat
ASSUME Iso20Assumption    == Registered \in BOOLEAN

\* Mutation: a sentinel the type cannot hold.
LowestBeyondByte == 256

Lowest == 255   \* UINT8_MAX

VARIABLES
  mask,        \* the maskable protocols enabled by s_protocol_mask
  pc, offers, i, selection, best_priority,
  detected,    \* what the first run of the selection returned
  phase, pinned,
  response,    \* index of the offer answered with, 0 for Failed_NoNegotiation
  enabled,     \* history: protocols enabled at some moment of this request
  changed      \* history: the mask was set during this request

loopVars == <<i, selection, best_priority>>
vars == <<mask, pc, offers, loopVars, detected, phase, pinned, response,
          enabled, changed>>

-------------------------------------------------------------------------------

(* One offer. *)

SupportedMajor(protocol) == IF protocol = "ISO20" THEN 1 ELSE 2

\* protocol_enabled, and the gate of ISO 15118-20.
Enabled(protocol, m) == IF protocol = "ISO20" THEN Registered ELSE protocol \in m

\* Whether the SECC could speak the protocol of the offer, the mask being m.
Supported(offer, m) ==
  /\ offer.matches \in Protocols
  /\ Enabled(offer.matches, m)
  /\ offer.major = SupportedMajor(offer.matches)

\* Mutation: an equal priority displaces the offer that came first.
OutrankedStrictly(offer, selected, best) == selected # 0 /\ offer.priority > best

\* Mutation: the best priority so far is compared before there is one.
OutrankedFromStart(offer, selected, best) == offer.priority >= best

Outranked(offer, selected, best) == selected # 0 /\ offer.priority >= best

\* Mutation: the mask is not consulted.
ChosenUnmasked(offer, m, selected, best) ==
  /\ ~Outranked(offer, selected, best)
  /\ Supported(offer, Maskable)

Chosen(offer, m, selected, best) ==
  /\ ~Outranked(offer, selected, best)
  /\ Supported(offer, m)

ProtocolOf(index) == IF index = 0 THEN Unknown ELSE offers[index].matches

-------------------------------------------------------------------------------

(* What the selection is to find, stated without its loop: of the supported
   offers among the first n, the one of the best priority, and of those the
   first. *)

IsBest(index, n, m) ==
  IF \A j \in 1..n : ~Supported(offers[j], m)
  THEN index = 0
  ELSE /\ index \in 1..n
       /\ Supported(offers[index], m)
       /\ \A j \in 1..n : Supported(offers[j], m) =>
            \/ offers[index].priority < offers[j].priority
            \/ offers[index].priority = offers[j].priority /\ index <= j

-------------------------------------------------------------------------------

Init ==
  /\ mask \in SUBSET Maskable
  /\ pc = "recv"
  /\ offers = <<>>
  /\ i = 1 /\ selection = 0 /\ best_priority = Lowest
  /\ detected = Unknown
  /\ phase = "APP_PROTOCOL"
  /\ pinned = Unknown
  /\ response = 0
  /\ enabled = mask
  /\ changed = FALSE

StartLoop == i' = 1 /\ selection' = 0 /\ best_priority' = Lowest

\* jpv2g_secc_set_protocol_mask, by the application.  A mask of zero is ignored;
\* one without a bit of either protocol is not.
SetMask ==
  /\ mask' \in SUBSET Maskable
  /\ enabled' = enabled \cup mask'
  /\ changed' = (changed \/ mask' # mask)
  /\ UNCHANGED <<pc, offers, loopVars, detected, phase, pinned, response>>

\* A SupportedAppProtocolReq, the first or a repeated one.
Receive ==
  /\ pc = "recv"
  /\ \E n \in 0..MaxOffers : offers' \in [1..n -> Offers]
  /\ StartLoop
  /\ pc' = "detect"
  /\ enabled' = mask
  /\ changed' = FALSE
  /\ UNCHANGED <<mask, detected, phase, pinned, response>>

\* One turn of the loop in select_app_protocol, in either run.
Examine ==
  /\ pc \in {"detect", "answer"}
  /\ i <= Len(offers)
  /\ i' = i + 1
  /\ IF Chosen(offers[i], mask, selection, best_priority)
     THEN selection' = i /\ best_priority' = offers[i].priority
     ELSE UNCHANGED <<selection, best_priority>>
  /\ UNCHANGED <<mask, pc, offers, detected, phase, pinned, response, enabled,
                 changed>>

\* The protocol the sequencer is asked about: an unsuccessful repetition stands
\* by what was settled before.
Hint == IF ProtocolOf(selection) # Unknown THEN ProtocolOf(selection) ELSE pinned

\* The sequencer takes the first request whatever it offers, and a repeated one
\* only for the protocol it has pinned, or any if it has pinned none.
Acceptable == \/ phase = "APP_PROTOCOL"
              \/ Hint # Unknown /\ pinned \in {Unknown, Hint}

Detected ==
  /\ pc = "detect"
  /\ i > Len(offers)
  /\ detected' = ProtocolOf(selection)
  /\ UNCHANGED <<mask, offers, response, enabled, changed>>

Accept ==
  /\ Detected
  /\ Acceptable
  /\ phase' = "SESSION_SETUP"
  /\ pinned' = Hint
  /\ pc' = "answer"
  /\ StartLoop

\* -EPROTO: the stream ends.
Reject ==
  /\ Detected
  /\ ~Acceptable
  /\ pc' = "over"
  /\ UNCHANGED <<loopVars, phase, pinned>>

\* The handler's response carries the SchemaID of the offer selected.
Answer ==
  /\ pc = "answer"
  /\ i > Len(offers)
  /\ response' = selection
  /\ pc' = "send"
  /\ UNCHANGED <<mask, offers, loopVars, detected, phase, pinned, enabled, changed>>

\* The response has gone out; the request and what was made of it are forgotten.
Sent ==
  /\ pc = "send"
  /\ pc' = "recv"
  /\ offers' = <<>>
  /\ StartLoop
  /\ detected' = Unknown
  /\ response' = 0
  /\ enabled' = mask
  /\ changed' = FALSE
  /\ UNCHANGED <<mask, phase, pinned>>

Next == SetMask \/ Receive \/ Examine \/ Accept \/ Reject \/ Answer \/ Sent

Spec == Init /\ [][Next]_vars

-------------------------------------------------------------------------------

\* Types; the selection is one of the offers at hand, and the best priority fits
\* the byte it is kept in (select_app_protocol).
TypeOK ==
  /\ mask \subseteq Maskable /\ enabled \subseteq Maskable
  /\ pc \in {"recv", "detect", "answer", "send", "over"}
  /\ \E n \in 0..MaxOffers : offers \in [1..n -> Offers]
  /\ i \in 1..(MaxOffers + 1)
  /\ selection \in 0..MaxOffers /\ selection <= Len(offers)
  /\ best_priority \in 0..255
  /\ {detected, pinned} \subseteq Protocols \cup {Unknown}
  /\ phase \in {"APP_PROTOCOL", "SESSION_SETUP"}
  /\ response \in 0..MaxOffers /\ response <= Len(offers)
  /\ changed \in BOOLEAN

\* However far the loop has got, it holds the best of the supported offers it
\* has seen: a better offer that came later displaces it, one of the worst
\* priority there is can still be taken, and the first one wins a tie.
SelectionIsBest ==
  (pc \in {"detect", "answer"} /\ ~changed) => IsBest(selection, i - 1, mask)

\* The response offers what the sequencer has pinned, although the selection
\* was made twice, and denies only what has no supported offer at all; a mask
\* set between the two runs is the exception.
AnswerIsPinned ==
  (pc = "send" /\ ~changed) =>
     /\ response # 0 => ProtocolOf(response) = pinned
     /\ response = 0 => \A j \in DOMAIN offers : ~Supported(offers[j], mask)

\* Whenever the mask is set, no protocol is detected or answered that was disabled
\* throughout the request, nor ISO 15118-20 without a session to serve it.
SelectedWasEnabled ==
  /\ pc = "send" => Enabled(ProtocolOf(response), enabled) \/ response = 0
  /\ pc = "answer" => Enabled(detected, enabled) \/ detected = Unknown

===============================================================================
