-------------------------------- MODULE Evcc --------------------------------
(***************************************************************************)
(* The vehicle's side (src/src/evcc.c and discovery.c): finding a SECC     *)
(* over SDP, connecting to it, and exchanging requests for responses over  *)
(* the V2GTP framing, which this module takes apart down to the pieces in  *)
(* which TCP hands over a frame.                                           *)
(*                                                                         *)
(* A response carries nothing that says which request it answers.  The     *)
(* SECC of the model is well behaved: it answers the requests of a         *)
(* connection in order and once each, as late and as slowly as it likes,   *)
(* or closes.  The application may go on after an exchange that failed,    *)
(* as the API lets it (jpv2g_evcc_run_minimal_flow does not).              *)
(*                                                                         *)
(* A frame is HeaderLen and then PayloadLen units.  Bytes read where a     *)
(* header was due but none begins are taken not to look like one by        *)
(* accident: whatever length they claim, the frame is refused.             *)
(***************************************************************************)
EXTENDS Integers, Sequences

CONSTANTS
  Kinds,           \* request types, each with its response type
  Timeout,         \* timeout_ms of an exchange
  SetupTimeout,    \* JPV2G_TIMEOUT_COMM_SETUP, which a request has to be sent in
  MaxRetries,      \* max_retries of the discovery
  MaxExchanges,    \* bound: exchanges on one connection
  MaxConnections,  \* bound: connections opened
  HeaderLen,
  PayloadLen

ASSUME KindsAssumption  == Kinds # {}
ASSUME TimesAssumption  == /\ Timeout \in Nat \ {0} /\ SetupTimeout \in Nat \ {0}
                           /\ MaxRetries \in Nat \ {0}
ASSUME BoundsAssumption == MaxExchanges \in Nat /\ MaxConnections \in Nat
ASSUME FrameAssumption  == HeaderLen \in Nat \ {0} /\ PayloadLen \in Nat \ {0}

FrameLen == HeaderLen + PayloadLen
Garbage  == 0     \* in place of the number of the request a frame answers
Units    == [answers : 1..MaxExchanges, pos : 1..FrameLen]

VARIABLES
  (* The EVCC *)
  pc,          \* the call in progress: idle, sdp, send, header, payload
  attempt,     \* of the discovery
  discovered,
  fd,          \* evcc->tcp.fd: none, open, or the number of a closed socket
  requests,    \* the kinds of the requests built on this connection
  frame,       \* the request answered by the frame being read, or Garbage
  need, got,   \* length of what is sent or read, and what was of it
  left,        \* time until its deadline
  (* The network and the SECC *)
  responses,   \* SDP datagrams in the discovery socket: good or bad
  stream,      \* units in the receive buffer of the connection
  owed, sent,  \* requests the SECC has still to answer, and the units of the
               \* first answer it has sent
  peer,        \* the SECC's end: up, or down
  (* History *)
  connections, failures, elapsed, handled

evccVars == <<pc, attempt, discovered, fd, requests, frame, need, got, left>>
peerVars == <<stream, owed, sent, peer>>
pastVars == <<connections, failures, elapsed, handled>>
vars == <<evccVars, responses, peerVars, pastVars>>

Nothing == [request |-> 0, answers |-> 0]

Init ==
  /\ pc = "idle"
  /\ attempt = 0
  /\ discovered = FALSE
  /\ fd = "none"
  /\ requests = <<>>
  /\ frame = Garbage /\ need = 0 /\ got = 0 /\ left = 0
  /\ responses = <<>>
  /\ stream = <<>> /\ owed = <<>> /\ sent = 0 /\ peer = "down"
  /\ connections = 0 /\ failures = 0 /\ elapsed = 0 /\ handled = Nothing

-------------------------------------------------------------------------------

(* jpv2g_discover_secc.  The socket is opened anew for each discovery, and kept
   for all its attempts: an attempt takes the next datagram there is, whichever
   request that one answers.  (Bound: one discovery that succeeds, and two
   datagrams at a time in the socket.) *)

Discover ==
  /\ pc = "idle" /\ ~discovered
  /\ pc' = "sdp"
  /\ attempt' = 1
  /\ responses' = <<>>
  /\ UNCHANGED <<discovered, fd, requests, frame, need, got, left, peerVars, pastVars>>

\* A SECC answers, or answers again, or something else comes in.
Datagram ==
  /\ pc = "sdp"
  /\ Len(responses) < 2
  /\ \E content \in {"good", "bad"} : responses' = Append(responses, content)
  /\ UNCHANGED <<evccVars, peerVars, pastVars>>

\* Mutation: only a silent attempt is counted.
NextAttemptIfSilent ==
  /\ attempt' = IF responses = <<>> THEN attempt + 1 ELSE attempt
  /\ pc' = IF attempt' > MaxRetries THEN "idle" ELSE "sdp"

\* Mutation: one attempt too many.
NextAttemptOnceMore ==
  /\ attempt' = attempt + 1
  /\ pc' = IF attempt <= MaxRetries THEN "sdp" ELSE "idle"

\* The loop of attempts goes on, or gives up.
NextAttempt ==
  /\ attempt' = attempt + 1
  /\ pc' = IF attempt < MaxRetries THEN "sdp" ELSE "idle"

\* Nothing arrived within the timeout, or the request could not be sent.
SdpTimeout ==
  /\ pc = "sdp"
  /\ responses = <<>>
  /\ NextAttempt
  /\ UNCHANGED <<discovered, fd, requests, frame, need, got, left, responses,
                 peerVars, pastVars>>

\* Not V2GTP, not an SDP response, or too short for one.
SdpReject ==
  /\ pc = "sdp"
  /\ responses # <<>> /\ Head(responses) = "bad"
  /\ responses' = Tail(responses)
  /\ NextAttempt
  /\ UNCHANGED <<discovered, fd, requests, frame, need, got, left, peerVars, pastVars>>

SdpAccept ==
  /\ pc = "sdp"
  /\ responses # <<>> /\ Head(responses) = "good"
  /\ discovered' = TRUE
  /\ pc' = "idle"
  /\ responses' = <<>>
  /\ UNCHANGED <<attempt, fd, requests, frame, need, got, left, peerVars, pastVars>>

-------------------------------------------------------------------------------

(* jpv2g_evcc_connect and jpv2g_evcc_close. *)

Connect ==
  /\ pc = "idle" /\ discovered /\ fd # "open"
  /\ connections < MaxConnections
  /\ connections' = connections + 1
  /\ fd' = "open"
  /\ requests' = <<>>
  /\ stream' = <<>> /\ owed' = <<>> /\ sent' = 0 /\ peer' = "up"
  /\ failures' = 0 /\ handled' = Nothing
  /\ UNCHANGED <<pc, attempt, discovered, frame, need, got, left, responses, elapsed>>

\* jpv2g_tcp_client_connect closes the socket and leaves its number in place.
ConnectFails ==
  /\ pc = "idle" /\ discovered /\ fd # "open"
  /\ fd' = "stale"
  /\ UNCHANGED <<pc, attempt, discovered, requests, frame, need, got, left,
                 responses, peerVars, pastVars>>

Close ==
  /\ pc = "idle" /\ fd # "none"
  /\ fd' = "none"
  /\ stream' = <<>> /\ owed' = <<>> /\ sent' = 0 /\ peer' = "down"
  /\ UNCHANGED <<pc, attempt, discovered, requests, frame, need, got, left,
                 responses, pastVars>>

-------------------------------------------------------------------------------

(* jpv2g_evcc_exchange: send a request, then receive a frame. *)

Sending   == pc = "send"
Receiving == pc \in {"header", "payload"}

\* A part of a frame is awaited, under a deadline of its own.
Await(part, length) ==
  /\ pc' = part
  /\ need' = length
  /\ got' = 0
  /\ left' = Timeout

\* The call returns.
Return ==
  /\ pc' = "idle"
  /\ need' = 0 /\ got' = 0 /\ left' = 0
  /\ frame' = Garbage

\* The exchange is over without a response handled.
Fail ==
  /\ Return
  /\ failures' = failures + 1
  /\ UNCHANGED <<attempt, discovered, fd, requests, responses, connections,
                 elapsed, handled>>

\* The request is built, and evcc_send_bytes calls send() for all of it.
Exchange(kind) ==
  /\ pc = "idle" /\ fd = "open"
  /\ Len(requests) < MaxExchanges
  /\ requests' = Append(requests, kind)
  /\ pc' = "send"
  /\ need' = FrameLen
  /\ got' = 0
  /\ left' = SetupTimeout
  /\ UNCHANGED <<attempt, discovered, fd, frame, responses, peerVars, pastVars>>

(* evcc_send_bytes.  The socket is a blocking one again (jpv2g_tcp_client_connect),
   so that send() comes back when the kernel has taken something, or on an error,
   and the deadline is looked at in between only.  Of a SECC that is there and
   reads nothing, neither need ever come; so over TLS. *)

\* The kernel has taken some of the request, and there is time for the rest.
SendPart ==
  /\ Sending /\ left > 0
  /\ \E n \in 1..(need - got - 1) : got' = got + n
  /\ UNCHANGED <<pc, attempt, discovered, fd, requests, frame, need, left,
                 responses, peerVars, pastVars>>

SendWhole ==
  /\ Sending
  /\ owed' = IF peer = "up" THEN Append(owed, Len(requests)) ELSE owed
  /\ Await("header", HeaderLen)
  /\ elapsed' = 0
  /\ UNCHANGED <<attempt, discovered, fd, requests, frame, responses, stream,
                 sent, peer, connections, failures, handled>>

\* An error, or the deadline is past when send() comes back, with a part or
\* interrupted.  If any of it went out, the SECC has the beginning of a frame
\* that never ends, and answers nothing more.
SendFails ==
  /\ Sending
  /\ \E n \in 0..(need - got - 1) :
       /\ n > 0 => left = 0
       /\ peer' = IF got + n > 0 THEN "down" ELSE peer
  /\ Fail
  /\ UNCHANGED <<stream, owed, sent>>

-------------------------------------------------------------------------------

(* evcc_recv_bytes and jpv2g_evcc_recv_v2gtp. *)

Lesser(a, b) == IF a < b THEN a ELSE b

\* Mutation: each piece renews the deadline.
RenewedBy(n) == Timeout

\* What is left of the time after a piece of n units: the deadline is the
\* part's.
LeftAfter(n) == left

\* recv returns what there is, up to what is still needed.  The first piece of
\* a header decides whether a frame is being read, and which.
Recv ==
  /\ Receiving /\ got < need /\ left > 0
  /\ stream # <<>>
  /\ LET n == Lesser(Len(stream), need - got) IN
       /\ stream' = SubSeq(stream, n + 1, Len(stream))
       /\ got' = got + n
       /\ left' = LeftAfter(n)
  /\ frame' = IF pc = "header" /\ got = 0
              THEN IF Head(stream).pos = 1 THEN Head(stream).answers ELSE Garbage
              ELSE frame
  /\ UNCHANGED <<pc, attempt, discovered, fd, requests, need, responses, owed,
                 sent, peer, pastVars>>

\* Mutation: the request is sent once more, and its response awaited again.
SendAgain ==
  /\ Receiving /\ got < need /\ left = 0
  /\ IF peer = "up" /\ Len(owed) = 1
     THEN /\ owed' = Append(owed, Len(requests))
          /\ Await("header", HeaderLen)
          /\ elapsed' = 0
          /\ UNCHANGED <<attempt, discovered, fd, requests, frame, responses,
                         stream, sent, peer, connections, failures, handled>>
     ELSE Fail /\ UNCHANGED peerVars

RecvTimeout ==
  /\ Receiving /\ got < need /\ left = 0
  /\ Fail
  /\ UNCHANGED peerVars

\* The SECC has closed, and everything it sent has been read.
RecvReset ==
  /\ Receiving /\ got < need /\ left > 0
  /\ peer = "down" /\ stream = <<>>
  /\ Fail
  /\ UNCHANGED peerVars

\* The header is complete.  Whatever it is, as many units are read as it says.
HeaderRead ==
  /\ pc = "header" /\ got = need
  /\ \E length \in 0..FrameLen :
       /\ frame # Garbage => length = PayloadLen
       /\ Await("payload", length)
  /\ UNCHANGED <<attempt, discovered, fd, requests, frame, responses, peerVars, pastVars>>

\* It says more than a frame may have, or than the buffer holds.
HeaderTooLong ==
  /\ pc = "header" /\ got = need
  /\ frame = Garbage
  /\ Fail
  /\ UNCHANGED peerVars

\* The frame is a V2GTP frame and decodes as the response to the kind of
\* request this exchange sent.
Matches == frame # Garbage /\ requests[frame] = requests[Len(requests)]

Handle ==
  /\ pc = "payload" /\ got = need
  /\ Matches
  /\ handled' = [request |-> Len(requests), answers |-> frame]
  /\ Return
  /\ UNCHANGED <<attempt, discovered, fd, requests, responses, peerVars,
                 connections, failures, elapsed>>

Refuse ==
  /\ pc = "payload" /\ got = need
  /\ ~Matches
  /\ Fail
  /\ UNCHANGED peerVars

\* (The history counts the time of a receive.)
Tick ==
  /\ Sending \/ Receiving
  /\ got < need /\ left > 0
  /\ left' = left - 1
  /\ elapsed' = IF Receiving THEN elapsed + 1 ELSE elapsed
  /\ UNCHANGED <<pc, attempt, discovered, fd, requests, frame, need, got,
                 responses, peerVars, connections, failures, handled>>

-------------------------------------------------------------------------------

(* The SECC: answers in order, a unit at a time, or closes. *)

PeerSends ==
  /\ peer = "up" /\ owed # <<>>
  /\ stream' = Append(stream, [answers |-> Head(owed), pos |-> sent + 1])
  /\ sent' = IF sent + 1 = FrameLen THEN 0 ELSE sent + 1
  /\ owed' = IF sent + 1 = FrameLen THEN Tail(owed) ELSE owed
  /\ UNCHANGED <<evccVars, responses, peer, pastVars>>

PeerCloses ==
  /\ peer = "up"
  /\ peer' = "down"
  /\ UNCHANGED <<evccVars, responses, stream, owed, sent, pastVars>>

-------------------------------------------------------------------------------

Discovering == SdpTimeout \/ SdpReject \/ SdpAccept

Transmitting == SendPart \/ SendWhole \/ SendFails

Reading == Recv \/ RecvTimeout \/ RecvReset \/ HeaderRead \/ HeaderTooLong
             \/ Handle \/ Refuse

Next ==
  \/ Discover \/ Datagram \/ Discovering
  \/ Connect \/ ConnectFails \/ Close
  \/ \E kind \in Kinds : Exchange(kind)
  \/ Transmitting \/ Reading \/ Tick
  \/ PeerSends \/ PeerCloses

Spec == Init /\ [][Next]_vars

\* Time passes and the calls run; what the network and the SECC do is open.  A
\* send() comes back once the SECC has closed: with an error, as the SECC's
\* machine resets what is sent after that.  Nothing else need end it.
FairSpec ==
  /\ Spec
  /\ WF_vars(Discovering) /\ WF_vars(Reading) /\ WF_vars(Tick)
  /\ WF_vars(peer = "down" /\ Transmitting)

-------------------------------------------------------------------------------

(* Properties. *)

\* Types; a call in progress has the resources it needs, and an attempt is one
\* of those there are (jpv2g_discover_secc, jpv2g_evcc_exchange).
TypeOK ==
  /\ pc \in {"idle", "sdp", "send", "header", "payload"}
  /\ attempt \in 0..(MaxRetries + 1)
  /\ pc = "sdp" => attempt \in 1..MaxRetries /\ ~discovered
  /\ discovered \in BOOLEAN
  /\ fd \in {"none", "open", "stale"}
  /\ Sending \/ Receiving => fd = "open" /\ requests # <<>>
  /\ Sending => got < need
  /\ requests \in Seq(Kinds)
  /\ frame \in 0..Len(requests)
  /\ need \in 0..FrameLen /\ got \in 0..need
  /\ left \in 0..(IF Sending THEN SetupTimeout ELSE Timeout)
  /\ responses \in Seq({"good", "bad"})
  /\ stream \in Seq(Units)
  /\ owed \in Seq(1..Len(requests)) /\ sent \in 0..(FrameLen - 1)
  /\ peer \in {"up", "down"}
  /\ connections \in 0..MaxConnections
  /\ failures \in 0..Len(requests)
  /\ elapsed \in Nat
  /\ handled \in [request : 0..Len(requests), answers : 0..Len(requests)]

\* A response is taken for that of the request just sent because it comes next.
\* It lags behind by at most as many requests as exchanges have failed on the
\* connection, and so not at all while none has: what the flow that stops at
\* the first error relies on (jpv2g_evcc_run_minimal_flow), and the most that
\* an application which goes on can.
LagIsBoundedByFailures ==
  /\ handled.answers <= handled.request
  /\ handled.request - handled.answers <= failures

\* A SECC that drips its response a byte at a time holds the caller for two
\* timeouts and no longer: one for the header, one for the payload
\* (jpv2g_evcc_recv_v2gtp gives each part the whole timeout_ms).
FrameIsBounded == elapsed <= 2 * Timeout

\* No send() is held for ever by a SECC that is there but does not read: what
\* the code leaves to the SECC.  A send that goes on by parts is not meant, nor
\* a connection the SECC has closed.
SeccReads == []<>(~Sending \/ peer = "down")

\* Every call comes back: a discovery whatever datagrams arrive, an exchange
\* whatever the SECC sends or does not send, as long as it reads what it is sent.
EveryCallReturns == SeccReads => (pc # "idle" ~> pc = "idle")

=============================================================================
