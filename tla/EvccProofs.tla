------------------------------ MODULE EvccProofs ------------------------------
(***************************************************************************)
(* The vehicle's exchanges, for any number of them, any timeout, and any   *)
(* way in which TCP cuts the responses up: how long a frame can take, and  *)
(* how far a response can lag behind the request it is taken for.          *)
(***************************************************************************)
EXTENDS Evcc, SequenceTheorems, TLAPS

-------------------------------------------------------------------------------

(* Sequences. *)

\* A sequence with one element more.
LEMMA Appended ==
  ASSUME NEW S, NEW q \in Seq(S), NEW e \in S
  PROVE  /\ Append(q, e) \in Seq(S) /\ Len(Append(q, e)) = Len(q) + 1 /\ Len(q) \in Nat
         /\ \A i \in 1..Len(Append(q, e)) :
              \/ i \in 1..Len(q) /\ Append(q, e)[i] = q[i]
              \/ i = Len(q) + 1 /\ Append(q, e)[i] = e
  BY AppendProperties, LenProperties

\* A sequence without its first element.
LEMMA Shortened ==
  ASSUME NEW S, NEW q \in Seq(S), q # <<>>
  PROVE  /\ Tail(q) \in Seq(S) /\ Len(q) \in Nat \ {0} /\ Len(Tail(q)) = Len(q) - 1
         /\ Head(q) = q[1] /\ 1 \in 1..Len(q) /\ Head(q) \in S
         /\ \A i \in 1..Len(Tail(q)) : i + 1 \in 1..Len(q) /\ Tail(q)[i] = q[i + 1]
  <1>1. Len(q) \in Nat \ {0}
    BY EmptySeq
  <1>. QED
    BY <1>1, HeadTailProperties

\* A sequence without its first n elements.
LEMMA Remaining ==
  ASSUME NEW S, NEW q \in Seq(S), NEW n \in 0..Len(q)
  PROVE  /\ SubSeq(q, n + 1, Len(q)) \in Seq(S)
         /\ Len(SubSeq(q, n + 1, Len(q))) = Len(q) - n /\ Len(q) \in Nat
         /\ \A i \in 1..Len(SubSeq(q, n + 1, Len(q))) :
              i + n \in 1..Len(q) /\ SubSeq(q, n + 1, Len(q))[i] = q[i + n]
  <1>1. Len(q) \in Nat
    BY LenProperties
  <1>2. \A i \in (n + 1)..Len(q) : q[i] \in S
    <2>1. TAKE i \in (n + 1)..Len(q)
    <2>2. i \in 1..Len(q)
      BY <1>1
    <2>. QED
      BY <2>2, ElementOfSeq
  <1>3. /\ SubSeq(q, n + 1, Len(q)) \in Seq(S)
        /\ Len(SubSeq(q, n + 1, Len(q))) = IF n + 1 <= Len(q) THEN Len(q) - (n + 1) + 1 ELSE 0
        /\ \A i \in 1..(Len(q) - (n + 1) + 1) : SubSeq(q, n + 1, Len(q))[i] = q[(n + 1) + i - 1]
    <2>1. n + 1 \in Int /\ Len(q) \in Int
      BY <1>1
    <2>. QED
      BY <1>2, <2>1, SubSeqProperties
  <1>4. Len(SubSeq(q, n + 1, Len(q))) = Len(q) - n
    BY <1>1, <1>3
  <1>5. ASSUME NEW i \in 1..Len(SubSeq(q, n + 1, Len(q)))
        PROVE  i + n \in 1..Len(q) /\ SubSeq(q, n + 1, Len(q))[i] = q[i + n]
    <2>1. i \in 1..(Len(q) - (n + 1) + 1) /\ (n + 1) + i - 1 = i + n /\ i + n \in 1..Len(q)
      BY <1>1, <1>4
    <2>. QED
      BY <1>3, <2>1
  <1>. QED
    BY <1>1, <1>3, <1>4, <1>5

\* A sequence over a set is one over a larger set.
LEMMA Widened ==
  ASSUME NEW S, NEW T, S \subseteq T, NEW q \in Seq(S)
  PROVE  q \in Seq(T)
  <1>1. q \in [1..Len(q) -> S] /\ Len(q) \in Nat
    BY LenProperties
  <1>2. q \in [1..Len(q) -> T]
    BY <1>1
  <1>. QED
    BY <1>1, <1>2, SeqDef

-------------------------------------------------------------------------------

(* Type correctness. *)

\* A call of jpv2g_evcc_exchange is in progress.
Exchanging == Sending \/ Receiving

\* The types, and what makes them inductive: a frame is read in a receive alone,
\* an exchange can still fail while it is in progress, and every response answers
\* a request that was built.
TypeInv ==
  /\ TypeOK
  /\ Len(requests) <= MaxExchanges
  /\ \A i \in 1..Len(stream) : stream[i].answers <= Len(requests)
  /\ ~Receiving => frame = Garbage
  /\ Exchanging => failures < Len(requests)

\* The lengths of a frame.
LEMMA FrameLengths == /\ FrameLen \in Nat /\ FrameLen >= 2
                      /\ HeaderLen \in 0..FrameLen /\ PayloadLen \in 0..FrameLen
  BY FrameAssumption DEF FrameLen

\* The lengths of the sequences, and what they hold.
LEMMA Lengths ==
  ASSUME TypeInv
  PROVE  /\ Len(requests) \in 0..MaxExchanges /\ Len(stream) \in Nat /\ Len(owed) \in Nat
         /\ \A i \in 1..Len(stream) : /\ stream[i] \in Units
                                      /\ stream[i].answers \in 1..Len(requests)
                                      /\ stream[i].pos \in 1..FrameLen
         /\ \A k \in 1..Len(owed) : owed[k] \in 1..Len(requests)
  <1>1. Len(requests) \in Nat /\ Len(stream) \in Nat /\ Len(owed) \in Nat
    BY LenProperties DEF TypeInv, TypeOK
  <1>2. \A k \in 1..Len(owed) : owed[k] \in 1..Len(requests)
    BY ElementOfSeq DEF TypeInv, TypeOK
  <1>3. ASSUME NEW i \in 1..Len(stream)
        PROVE  /\ stream[i] \in Units /\ stream[i].answers \in 1..Len(requests)
               /\ stream[i].pos \in 1..FrameLen
    <2>1. stream[i] \in Units
      BY ElementOfSeq DEF TypeInv, TypeOK
    <2>2. stream[i].answers \in 1..MaxExchanges /\ stream[i].pos \in 1..FrameLen
      BY <2>1 DEF Units
    <2>3. stream[i].answers <= Len(requests)
      BY DEF TypeInv
    <2>. QED
      BY <1>1, <2>1, <2>2, <2>3, BoundsAssumption
  <1>4. Len(requests) \in 0..MaxExchanges
    BY <1>1, BoundsAssumption DEF TypeInv
  <1>. QED
    BY <1>1, <1>2, <1>3, <1>4

\* The initial states are well typed.
LEMMA TypeInit == Init => TypeInv
  <1>. SUFFICES ASSUME Init
                PROVE  TypeInv
    OBVIOUS
  <1>1. /\ <<>> \in Seq(Kinds) /\ <<>> \in Seq({"good", "bad"}) /\ <<>> \in Seq(Units)
        /\ <<>> \in Seq(1..0) /\ Len(<<>>) = 0
    BY EmptySeq
  <1>2. /\ requests \in Seq(Kinds) /\ responses \in Seq({"good", "bad"}) /\ stream \in Seq(Units)
        /\ Len(requests) = 0 /\ Len(stream) = 0 /\ owed \in Seq(1..Len(requests))
    BY <1>1 DEF Init
  <1>3. /\ attempt \in 0..(MaxRetries + 1) /\ left \in 0..Timeout /\ need \in 0..FrameLen
        /\ got \in 0..need /\ sent \in 0..(FrameLen - 1) /\ connections \in 0..MaxConnections
        /\ elapsed \in Nat /\ frame \in 0..Len(requests) /\ failures \in 0..Len(requests)
    BY <1>2, TimesAssumption, BoundsAssumption, FrameLengths DEF Init, Garbage
  <1>4. handled \in [request : 0..Len(requests), answers : 0..Len(requests)]
    BY <1>2 DEF Init, Nothing
  <1>5. pc = "idle" /\ discovered = FALSE /\ fd = "none" /\ peer = "down" /\ frame = Garbage
    BY DEF Init
  <1>6. Len(requests) <= MaxExchanges /\ \A i \in 1..Len(stream) : stream[i].answers <= Len(requests)
    BY <1>2, BoundsAssumption
  <1>. QED
    BY <1>2, <1>3, <1>4, <1>5, <1>6 DEF TypeInv, TypeOK, Sending, Receiving, Exchanging

\* The discovery keeps the types.
LEMMA DiscoveryType ==
  ASSUME TypeInv, Discover \/ Datagram \/ Discovering
  PROVE  TypeInv'
  <1>1. responses' \in Seq({"good", "bad"})
    <2>1. CASE Datagram
      BY <2>1, Appended DEF Datagram, TypeInv, TypeOK
    <2>2. CASE Discover \/ SdpAccept
      BY <2>2, EmptySeq DEF Discover, SdpAccept
    <2>3. CASE SdpReject
      BY <2>3, Shortened DEF SdpReject, TypeInv, TypeOK
    <2>4. CASE SdpTimeout
      BY <2>4 DEF SdpTimeout, TypeInv, TypeOK
    <2>. QED
      BY <2>1, <2>2, <2>3, <2>4 DEF Discovering
  <1>2. /\ UNCHANGED <<requests, frame, need, got, left, stream, owed, sent, peer, fd,
                       connections, failures, elapsed, handled>>
    BY DEF Discover, Datagram, Discovering, SdpAccept, SdpReject, SdpTimeout, evccVars, peerVars,
      pastVars
  <1>3. /\ pc' \in {"idle", "sdp"} /\ pc \in {"idle", "sdp"} /\ discovered' \in BOOLEAN
        /\ attempt' \in 0..(MaxRetries + 1)
        /\ pc' = "sdp" => attempt' \in 1..MaxRetries /\ ~discovered'
    <2>0. /\ MaxRetries \in Nat \ {0} /\ discovered \in BOOLEAN /\ attempt \in 0..(MaxRetries + 1)
          /\ pc = "sdp" => attempt \in 1..MaxRetries /\ ~discovered
      BY TimesAssumption DEF TypeInv, TypeOK
    <2>1. CASE Discover
      BY <2>0, <2>1 DEF Discover
    <2>2. CASE Datagram
      BY <2>0, <2>2 DEF Datagram, evccVars
    <2>3. CASE SdpTimeout \/ SdpReject
      <3>1. /\ pc = "sdp" /\ discovered' = discovered /\ attempt' = attempt + 1
            /\ pc' = IF attempt < MaxRetries THEN "sdp" ELSE "idle"
        BY <2>3 DEF SdpTimeout, SdpReject, NextAttempt
      <3>. QED
        BY <2>0, <3>1
    <2>4. CASE SdpAccept
      BY <2>0, <2>4 DEF SdpAccept
    <2>. QED
      BY <2>1, <2>2, <2>3, <2>4 DEF Discovering
  <1>. QED
    BY <1>1, <1>2, <1>3 DEF TypeInv, TypeOK, Sending, Receiving, Exchanging

\* Connecting and closing keep the types.
LEMMA ConnectionType ==
  ASSUME TypeInv, Connect \/ ConnectFails \/ Close
  PROVE  TypeInv'
  <1>0. pc = "idle" /\ pc' = "idle" /\ frame = Garbage
    BY DEF Connect, ConnectFails, Close, TypeInv, Receiving
  <1>1. CASE Connect
    <2>1. /\ requests' \in Seq(Kinds) /\ stream' \in Seq(Units) /\ Len(requests') = 0
          /\ Len(stream') = 0 /\ owed' \in Seq(1..Len(requests'))
      BY <1>1, EmptySeq DEF Connect
    <2>2. /\ sent' \in 0..(FrameLen - 1) /\ connections' \in 0..MaxConnections
          /\ frame' \in 0..Len(requests') /\ failures' \in 0..Len(requests')
          /\ handled' \in [request : 0..Len(requests'), answers : 0..Len(requests')]
      BY <1>0, <1>1, <2>1, FrameLengths, BoundsAssumption DEF Connect, Nothing, Garbage, TypeInv,
        TypeOK
    <2>3. /\ Len(requests') <= MaxExchanges
          /\ \A i \in 1..Len(stream') : stream'[i].answers <= Len(requests')
      BY <2>1, BoundsAssumption
    <2>. QED
      BY <1>0, <1>1, <2>1, <2>2, <2>3 DEF Connect, TypeInv, TypeOK, Sending, Receiving, Exchanging
  <1>2. CASE ConnectFails
    BY <1>0, <1>2 DEF ConnectFails, peerVars, pastVars, TypeInv, TypeOK, Sending, Receiving,
      Exchanging
  <1>3. CASE Close
    <2>1. /\ stream' \in Seq(Units) /\ Len(stream') = 0 /\ owed' \in Seq(1..Len(requests))
          /\ sent' \in 0..(FrameLen - 1)
      BY <1>3, EmptySeq, FrameLengths DEF Close
    <2>2. \A i \in 1..Len(stream') : stream'[i].answers <= Len(requests')
      BY <2>1
    <2>. QED
      BY <1>0, <1>3, <2>1, <2>2 DEF Close, pastVars, TypeInv, TypeOK, Sending, Receiving, Exchanging
  <1>. QED
    BY <1>1, <1>2, <1>3

\* The failures of an exchange keep the types.
LEMMA FailType ==
  ASSUME TypeInv, Exchanging, Fail, UNCHANGED <<stream, owed, sent>>, peer' \in {"up", "down"}
  PROVE  TypeInv'
  <1>1. /\ pc' = "idle" /\ need' = 0 /\ got' = 0 /\ left' = 0 /\ frame' = Garbage
        /\ failures' = failures + 1
        /\ UNCHANGED <<attempt, discovered, fd, requests, responses, connections, elapsed, handled>>
    BY DEF Fail, Return
  <1>2. /\ frame' \in 0..Len(requests') /\ failures' \in 0..Len(requests')
        /\ need' \in 0..FrameLen /\ got' \in 0..need' /\ left' \in 0..Timeout
    BY <1>1, Lengths, FrameLengths, TimesAssumption DEF TypeInv, TypeOK, Garbage
  <1>. QED
    BY <1>1, <1>2 DEF TypeInv, TypeOK, Sending, Receiving, Exchanging

\* A part that is awaited has a length and a deadline.
LEMMA AwaitType ==
  ASSUME NEW part \in {"header", "payload"}, NEW length \in 0..FrameLen, Await(part, length)
  PROVE  need' \in 0..FrameLen /\ got' \in 0..need' /\ left' \in 0..Timeout /\ pc' = part
  BY FrameLengths, TimesAssumption DEF Await

\* One request more.
LEMMA RequestType ==
  ASSUME TypeInv, NEW kind \in Kinds, Exchange(kind)
  PROVE  /\ requests' \in Seq(Kinds) /\ Len(requests') = Len(requests) + 1
         /\ Len(requests') <= MaxExchanges /\ Len(requests) \in Nat /\ requests' # <<>>
         /\ owed \in Seq(1..Len(requests')) /\ frame \in 0..Len(requests')
         /\ failures \in 0..Len(requests) /\ frame = Garbage
         /\ handled \in [request : 0..Len(requests'), answers : 0..Len(requests')]
         /\ \A i \in 1..Len(stream) : stream[i].answers <= Len(requests')
  <1>1. /\ requests' = Append(requests, kind) /\ Len(requests) < MaxExchanges /\ pc = "idle"
    BY DEF Exchange
  <1>2. /\ requests' \in Seq(Kinds) /\ Len(requests') = Len(requests) + 1 /\ Len(requests) \in Nat
    BY <1>1, Appended DEF TypeInv, TypeOK
  <1>3. Len(requests') <= MaxExchanges
    BY <1>1, <1>2, BoundsAssumption
  <1>4. requests' # <<>>
    BY <1>2, EmptySeq
  <1>5. owed \in Seq(1..Len(requests'))
    <2>1. 1..Len(requests) \subseteq 1..Len(requests') /\ owed \in Seq(1..Len(requests))
      BY <1>2 DEF TypeInv, TypeOK
    <2>. QED
      BY <2>1, Widened
  <1>6. frame = Garbage /\ frame \in 0..Len(requests') /\ failures \in 0..Len(requests)
    BY <1>1, <1>2 DEF TypeInv, TypeOK, Sending, Receiving, Exchanging
  <1>7. handled \in [request : 0..Len(requests'), answers : 0..Len(requests')]
    <2>1. handled \in [request : 0..Len(requests), answers : 0..Len(requests)]
      BY DEF TypeInv, TypeOK
    <2>2. 0..Len(requests) \subseteq 0..Len(requests')
      BY <1>2
    <2>. QED
      BY <2>1, <2>2
  <1>8. ASSUME NEW i \in 1..Len(stream)
        PROVE  stream[i].answers <= Len(requests')
    BY <1>2, Lengths
  <1>. QED
    BY <1>1, <1>2, <1>3, <1>4, <1>5, <1>6, <1>7, <1>8

\* Building a request keeps the types.
LEMMA ExchangeType ==
  ASSUME TypeInv, NEW kind \in Kinds, Exchange(kind)
  PROVE  TypeInv'
  <1>1. /\ pc' = "send" /\ need' = FrameLen /\ got' = 0 /\ left' = SetupTimeout /\ fd = "open"
        /\ UNCHANGED <<attempt, discovered, fd, frame, responses, stream, owed, sent, peer,
                       connections, failures, elapsed, handled>>
    BY DEF Exchange, peerVars, pastVars
  <1>2. /\ need' \in 0..FrameLen /\ got' \in 0..need' /\ got' < need'
        /\ left' \in 0..SetupTimeout
    BY <1>1, FrameLengths, TimesAssumption
  <1>3. failures' \in 0..Len(requests') /\ failures' < Len(requests')
    BY <1>1, RequestType
  <1>. QED
    BY <1>1, <1>2, <1>3, RequestType DEF TypeInv, TypeOK, Sending, Receiving, Exchanging

\* Sending it keeps them.
LEMMA TransmittingType ==
  ASSUME TypeInv, Transmitting
  PROVE  TypeInv'
  <1>0. Sending /\ Exchanging
    BY DEF Transmitting, SendPart, SendWhole, SendFails, Exchanging
  <1>1. CASE SendPart
    <2>1. PICK n \in 1..(need - got - 1) : got' = got + n
      BY <1>1 DEF SendPart
    <2>2. need \in 0..FrameLen /\ got \in 0..need
      BY DEF TypeInv, TypeOK
    <2>3. got' \in 0..need /\ got' < need
      BY <2>1, <2>2, FrameLengths
    <2>. QED
      BY <1>1, <2>3 DEF SendPart, peerVars, pastVars, TypeInv, TypeOK, Sending, Receiving,
        Exchanging
  <1>2. CASE SendWhole
    <2>1. Len(requests) \in 1..Len(requests)
      BY <1>0, EmptySeq, LenProperties DEF TypeInv, TypeOK
    <2>2. owed' \in Seq(1..Len(requests))
      BY <1>2, <2>1, Appended DEF SendWhole, TypeInv, TypeOK
    <2>3. /\ need' \in 0..FrameLen /\ got' \in 0..need' /\ left' \in 0..Timeout
          /\ pc' = "header" /\ elapsed' = 0
      BY <1>2, AwaitType, FrameLengths DEF SendWhole
    <2>. QED
      BY <1>0, <1>2, <2>2, <2>3 DEF SendWhole, TypeInv, TypeOK, Sending, Receiving, Exchanging
  <1>3. CASE SendFails
    <2>1. peer' \in {"up", "down"}
      BY <1>3 DEF SendFails, TypeInv, TypeOK
    <2>. QED
      BY <1>0, <1>3, <2>1, FailType DEF SendFails
  <1>. QED
    BY <1>1, <1>2, <1>3 DEF Transmitting

\* What a piece takes from the stream, and what it leaves there.
LEMMA PieceTaken ==
  ASSUME TypeInv, Recv
  PROVE  \E n \in Nat \ {0} :
           /\ n <= Len(stream) /\ n <= need - got
           /\ stream' = SubSeq(stream, n + 1, Len(stream)) /\ stream' \in Seq(Units)
           /\ Len(stream') = Len(stream) - n
           /\ \A i \in 1..Len(stream') : i + n \in 1..Len(stream) /\ stream'[i] = stream[i + n]
           /\ got' = got + n /\ got' \in 0..need
  <1>. DEFINE n == Lesser(Len(stream), need - got)
  <1>1. /\ stream' = SubSeq(stream, n + 1, Len(stream)) /\ got' = got + n /\ got < need
        /\ stream # <<>>
    BY DEF Recv
  <1>2. Len(stream) \in Nat \ {0} /\ need \in 0..FrameLen /\ got \in 0..need /\ stream \in Seq(Units)
    BY <1>1, Lengths, EmptySeq DEF TypeInv, TypeOK
  <1>3. n \in Nat \ {0} /\ n <= Len(stream) /\ n <= need - got /\ got + n \in 0..need
    BY <1>1, <1>2, FrameLengths DEF Lesser
  <1>4. n \in 0..Len(stream)
    BY <1>2, <1>3
  <1>. HIDE DEF n
  <1>5. /\ SubSeq(stream, n + 1, Len(stream)) \in Seq(Units)
        /\ Len(SubSeq(stream, n + 1, Len(stream))) = Len(stream) - n
        /\ \A i \in 1..Len(SubSeq(stream, n + 1, Len(stream))) :
              /\ i + n \in 1..Len(stream)
              /\ SubSeq(stream, n + 1, Len(stream))[i] = stream[i + n]
    BY <1>2, <1>4, Remaining
  <1>. QED
    BY <1>1, <1>3, <1>5

\* Which frame is being read after a piece.
LEMMA FrameTaken ==
  ASSUME TypeInv, Recv
  PROVE  \/ frame' = frame
         \/ /\ pc = "header" /\ got = 0 /\ 1 \in 1..Len(stream)
            /\ frame' = IF stream[1].pos = 1 THEN stream[1].answers ELSE Garbage
  <1>1. stream # <<>> /\ stream \in Seq(Units)
    BY DEF Recv, TypeInv, TypeOK
  <1>2. 1 \in 1..Len(stream) /\ Head(stream) = stream[1]
    BY <1>1, Shortened
  <1>. QED
    BY <1>2 DEF Recv

\* A piece keeps the types.
LEMMA RecvType ==
  ASSUME TypeInv, Recv
  PROVE  TypeInv'
  <1>1. PICK n \in Nat \ {0} :
           /\ stream' \in Seq(Units)
           /\ \A i \in 1..Len(stream') : i + n \in 1..Len(stream) /\ stream'[i] = stream[i + n]
           /\ got' \in 0..need
    BY PieceTaken
  <1>2. \A i \in 1..Len(stream') : stream'[i].answers <= Len(requests)
    <2>1. TAKE i \in 1..Len(stream')
    <2>2. i + n \in 1..Len(stream) /\ stream'[i] = stream[i + n]
      BY <1>1
    <2>. QED
      BY <2>2 DEF TypeInv
  <1>3. frame' \in 0..Len(requests)
    <2>1. frame \in 0..Len(requests) /\ 0 \in 0..Len(requests)
      BY Lengths DEF TypeInv, TypeOK
    <2>2. 1 \in 1..Len(stream) => stream[1].answers \in 0..Len(requests)
      BY Lengths
    <2>. QED
      BY <2>1, <2>2, FrameTaken DEF Garbage
  <1>4. left' = left /\ Receiving
    BY DEF Recv, LeftAfter
  <1>. QED
    BY <1>1, <1>2, <1>3, <1>4 DEF Recv, pastVars, TypeInv, TypeOK, Sending, Receiving, Exchanging

\* Receiving keeps the types.
LEMMA ReadingType ==
  ASSUME TypeInv, Reading
  PROVE  TypeInv'
  <1>1. CASE Recv
    BY <1>1, RecvType
  <1>2. CASE RecvTimeout \/ RecvReset \/ HeaderTooLong \/ Refuse
    <2>1. Receiving /\ Fail /\ UNCHANGED peerVars
      BY <1>2 DEF RecvTimeout, RecvReset, HeaderTooLong, Refuse, Receiving
    <2>. QED
      BY <2>1, FailType DEF peerVars, TypeInv, TypeOK, Exchanging
  <1>3. CASE HeaderRead
    <2>1. PICK length \in 0..FrameLen : Await("payload", length)
      BY <1>3 DEF HeaderRead
    <2>2. /\ need' \in 0..FrameLen /\ got' \in 0..need' /\ left' \in 0..Timeout /\ pc' = "payload"
      BY <2>1, AwaitType
    <2>3. pc = "header" /\ Receiving
      BY <1>3 DEF HeaderRead, Receiving
    <2>. QED
      BY <1>3, <2>2, <2>3 DEF HeaderRead, peerVars, pastVars, TypeInv, TypeOK, Sending,
        Receiving, Exchanging
  <1>4. CASE Handle
    <2>1. /\ pc' = "idle" /\ need' = 0 /\ got' = 0 /\ left' = 0 /\ frame' = Garbage
          /\ handled' = [request |-> Len(requests), answers |-> frame]
          /\ UNCHANGED <<attempt, discovered, fd, requests, responses, connections, failures, elapsed,
                         stream, owed, sent, peer>>
      BY <1>4 DEF Handle, Return, peerVars
    <2>2. Len(requests) \in 0..Len(requests) /\ frame \in 0..Len(requests)
      BY Lengths DEF TypeInv, TypeOK
    <2>3. /\ frame' \in 0..Len(requests') /\ need' \in 0..FrameLen /\ got' \in 0..need'
          /\ left' \in 0..Timeout
          /\ handled' \in [request : 0..Len(requests'), answers : 0..Len(requests')]
      BY <2>1, <2>2, FrameLengths, TimesAssumption DEF Garbage
    <2>. QED
      BY <2>1, <2>3 DEF TypeInv, TypeOK, Sending, Receiving, Exchanging
  <1>. QED
    BY <1>1, <1>2, <1>3, <1>4 DEF Reading

\* So does time.
LEMMA TickType ==
  ASSUME TypeInv, Tick
  PROVE  TypeInv'
  <1>1. left' \in 0..(IF Sending THEN SetupTimeout ELSE Timeout) /\ elapsed' \in Nat
    BY TimesAssumption DEF Tick, TypeInv, TypeOK
  <1>. QED
    BY <1>1 DEF Tick, peerVars, TypeInv, TypeOK, Sending, Receiving, Exchanging

\* The unit the SECC sends next is one of the first answer it owes.
LEMMA UnitSent ==
  ASSUME TypeInv, PeerSends
  PROVE  /\ owed # <<>> /\ owed[1] \in 1..Len(requests) /\ Head(owed) = owed[1]
         /\ stream' = Append(stream, [answers |-> owed[1], pos |-> sent + 1])
         /\ [answers |-> owed[1], pos |-> sent + 1] \in Units
  <1>1. owed # <<>> /\ owed \in Seq(1..Len(requests))
    BY DEF PeerSends, TypeInv, TypeOK
  <1>2. Head(owed) = owed[1] /\ owed[1] \in 1..Len(requests)
    BY <1>1, Shortened
  <1>3. owed[1] \in 1..MaxExchanges /\ sent + 1 \in 1..FrameLen
    <2>1. sent \in 0..(FrameLen - 1)
      BY DEF TypeInv, TypeOK
    <2>2. Len(requests) \in 0..MaxExchanges
      BY Lengths
    <2>. QED
      BY <1>2, <2>1, <2>2, BoundsAssumption, FrameLengths
  <1>. QED
    BY <1>1, <1>2, <1>3 DEF PeerSends, Units

\* The SECC keeps the types.
LEMMA PeerType ==
  ASSUME TypeInv, PeerSends \/ PeerCloses
  PROVE  TypeInv'
  <1>1. CASE PeerSends
    <2>1. stream' \in Seq(Units) /\ \A i \in 1..Len(stream') : stream'[i].answers <= Len(requests)
      <3>. DEFINE unit == [answers |-> owed[1], pos |-> sent + 1]
      <3>1. stream' = Append(stream, unit) /\ unit \in Units /\ stream \in Seq(Units)
        BY <1>1, UnitSent DEF TypeInv, TypeOK
      <3>2. unit.answers <= Len(requests)
        BY <1>1, UnitSent, Lengths
      <3>. HIDE DEF unit
      <3>3. /\ stream' \in Seq(Units)
            /\ \A i \in 1..Len(stream') : \/ i \in 1..Len(stream) /\ stream'[i] = stream[i]
                                          \/ i = Len(stream) + 1 /\ stream'[i] = unit
        BY <3>1, Appended
      <3>. QED
        BY <3>2, <3>3 DEF TypeInv
    <2>2. sent' \in 0..(FrameLen - 1)
      BY <1>1, FrameLengths DEF PeerSends, TypeInv, TypeOK
    <2>3. owed' \in Seq(1..Len(requests))
      <3>1. owed \in Seq(1..Len(requests)) /\ owed # <<>>
        BY <1>1, UnitSent DEF TypeInv, TypeOK
      <3>2. Tail(owed) \in Seq(1..Len(requests))
        BY <3>1, Shortened
      <3>. QED
        BY <1>1, <3>1, <3>2 DEF PeerSends
    <2>. QED
      BY <1>1, <2>1, <2>2, <2>3 DEF PeerSends, evccVars, pastVars, TypeInv, TypeOK, Sending,
        Receiving, Exchanging
  <1>2. CASE PeerCloses
    BY <1>2 DEF PeerCloses, evccVars, pastVars, TypeInv, TypeOK, Sending, Receiving, Exchanging
  <1>. QED
    BY <1>1, <1>2

\* A step keeps the types.
LEMMA TypeStep == TypeInv /\ [Next]_vars => TypeInv'
  <1>. SUFFICES ASSUME TypeInv, [Next]_vars
                PROVE  TypeInv'
    OBVIOUS
  <1>1. CASE UNCHANGED vars
    BY <1>1 DEF vars, evccVars, peerVars, pastVars, TypeInv, TypeOK, Sending, Receiving, Exchanging
  <1>2. CASE Discover \/ Datagram \/ Discovering
    BY <1>2, DiscoveryType
  <1>3. CASE Connect \/ ConnectFails \/ Close
    BY <1>3, ConnectionType
  <1>4. CASE Transmitting \/ \E kind \in Kinds : Exchange(kind)
    BY <1>4, ExchangeType, TransmittingType
  <1>5. CASE Reading
    BY <1>5, ReadingType
  <1>6. CASE Tick
    BY <1>6, TickType
  <1>7. CASE PeerSends \/ PeerCloses
    BY <1>7, PeerType
  <1>. QED
    BY <1>1, <1>2, <1>3, <1>4, <1>5, <1>6, <1>7 DEF Next

\* The types hold in every reachable state, for any number of exchanges.
THEOREM TypeCorrect == Spec => []TypeOK
  <1>1. TypeInv => TypeOK
    BY DEF TypeInv
  <1>. QED
    BY <1>1, TypeInit, TypeStep, PTL DEF Spec

-------------------------------------------------------------------------------

(* How long a frame can take. *)

\* The time passed and the time left make up the deadlines given so far: one for
\* the header, two for the payload.
TimeInv ==
  /\ TypeInv
  /\ pc = "header" => elapsed + left = Timeout
  /\ pc = "payload" => elapsed + left <= 2 * Timeout
  /\ FrameIsBounded

\* No time has passed at first.
LEMMA TimeInit == Init => TimeInv
  <1>1. Init => pc = "idle" /\ elapsed = 0
    BY DEF Init
  <1>. QED
    BY <1>1, TypeInit, TimesAssumption DEF TimeInv, FrameIsBounded

\* A step keeps the time within the deadlines.
LEMMA TimeStep == TimeInv /\ [Next]_vars => TimeInv'
  <1>. SUFFICES ASSUME TimeInv, [Next]_vars
                PROVE  TimeInv'
    OBVIOUS
  <1>0. TypeInv /\ TypeInv'
    BY TypeStep DEF TimeInv
  <1>a. /\ Timeout \in Nat \ {0} /\ elapsed \in Nat /\ elapsed <= 2 * Timeout
        /\ Receiving => left \in 0..Timeout
        /\ pc = "header" => elapsed + left = Timeout
        /\ pc = "payload" => elapsed + left <= 2 * Timeout
    BY TimesAssumption DEF TimeInv, TypeInv, TypeOK, FrameIsBounded, Sending, Receiving
  <1>1. ASSUME pc' \in {"idle", "sdp", "send"}, elapsed' = elapsed
        PROVE  TimeInv'
    BY <1>0, <1>a, <1>1 DEF TimeInv, FrameIsBounded
  <1>2. ASSUME UNCHANGED <<pc, elapsed, left>>
        PROVE  TimeInv'
    BY <1>0, <1>a, <1>2 DEF TimeInv, FrameIsBounded
  <1>3. CASE UNCHANGED vars
    BY <1>2, <1>3 DEF vars, evccVars, pastVars
  <1>4. CASE Discover \/ Discovering
    <2>1. pc' \in {"idle", "sdp"}
      BY <1>4 DEF Discover, Discovering, SdpTimeout, SdpReject, SdpAccept, NextAttempt
    <2>. QED
      BY <1>1, <1>4, <2>1 DEF Discover, Discovering, SdpTimeout, SdpReject, SdpAccept, pastVars
  <1>5. CASE Datagram \/ PeerSends \/ PeerCloses
    BY <1>2, <1>5 DEF Datagram, PeerSends, PeerCloses, evccVars, pastVars
  <1>6. CASE Connect \/ ConnectFails \/ Close
    BY <1>1, <1>6 DEF Connect, ConnectFails, Close, pastVars
  <1>7. CASE \/ SendPart \/ SendFails
            \/ \E kind \in Kinds : Exchange(kind)
    BY <1>1, <1>7 DEF SendPart, SendFails, Exchange, Fail, Return, Sending, pastVars
  <1>8. CASE SendWhole
    <2>1. pc' = "header" /\ left' = Timeout /\ elapsed' = 0
      BY <1>8 DEF SendWhole, Await
    <2>. QED
      BY <1>0, <1>a, <2>1 DEF TimeInv, FrameIsBounded
  <1>9. CASE Recv
    BY <1>2, <1>9 DEF Recv, LeftAfter, pastVars
  <1>10. CASE RecvTimeout \/ RecvReset \/ HeaderTooLong \/ Refuse \/ Handle
    BY <1>1, <1>10 DEF RecvTimeout, RecvReset, HeaderTooLong, Refuse, Handle, Fail, Return
  <1>11. CASE HeaderRead
    <2>1. pc = "header" /\ pc' = "payload" /\ left' = Timeout /\ elapsed' = elapsed
      BY <1>11 DEF HeaderRead, Await, pastVars
    <2>. QED
      BY <1>0, <1>a, <2>1 DEF TimeInv, FrameIsBounded, Receiving
  <1>12. CASE Tick
    <2>1. CASE Sending
      BY <1>1, <1>12, <2>1 DEF Tick, Sending, Receiving
    <2>2. CASE Receiving
      <3>1. pc' = pc /\ left' = left - 1 /\ elapsed' = elapsed + 1 /\ left > 0
        BY <1>12, <2>2 DEF Tick
      <3>. QED
        BY <1>0, <1>a, <2>2, <3>1 DEF TimeInv, FrameIsBounded, Receiving
    <2>. QED
      BY <1>12, <2>1, <2>2 DEF Tick
  <1>. QED
    BY <1>3, <1>4, <1>5, <1>6, <1>7, <1>8, <1>9, <1>10, <1>11, <1>12
    DEF Next, Transmitting, Reading

\* A receive takes two timeouts at most, however the SECC's bytes come in
\* (jpv2g_evcc_recv_v2gtp).
THEOREM FrameBounded == Spec => []FrameIsBounded
  <1>1. TimeInv => FrameIsBounded
    BY DEF TimeInv
  <1>. QED
    BY <1>1, TimeInit, TimeStep, PTL DEF Spec

-------------------------------------------------------------------------------

(* How far a response can lag behind. *)

\* The frames that begin in the receive buffer, and the answers of which the
\* SECC has sent nothing yet.
Starts == {i \in 1..Len(stream) : stream[i].pos = 1}
Coming == {k \in 1..Len(owed) : k > 1 \/ sent = 0}

\* The SECC's answers come in the order of the requests.
InOrder ==
  /\ \A j, k \in 1..Len(owed) : j < k => owed[j] < owed[k]
  /\ \A i, j \in Starts : i < j => stream[i].answers < stream[j].answers
  /\ \A i \in Starts : \A k \in Coming : stream[i].answers < owed[k]

\* No frame still to be read answers a request before this one.
NoneBefore(request) ==
  /\ \A i \in Starts : request <= stream[i].answers
  /\ \A k \in Coming : request <= owed[k]

\* The request whose number is given has been built, and no frame answers it yet.
Unanswered(request) ==
  /\ \A i \in Starts : stream[i].answers < request
  /\ \A k \in 1..Len(owed) : owed[k] < request

\* As many requests have been answered as exchanges have not failed, and a frame
\* that was read is not read again.
Oldest ==
  IF ~Exchanging THEN Len(requests) + 1 - failures
  ELSE IF frame = Garbage THEN Len(requests) - failures ELSE frame + 1

\* The inductive invariant of the lag.
LagInv ==
  /\ TypeInv
  /\ InOrder
  /\ NoneBefore(Oldest)
  /\ Sending => Unanswered(Len(requests))
  /\ frame # Garbage => Len(requests) - failures <= frame
  /\ pc = "header" /\ got = 0 => frame = Garbage
  /\ LagIsBoundedByFailures

\* The numbers the lag is about.
LEMMA LagNumbers ==
  ASSUME LagInv
  PROVE  /\ Len(requests) \in Nat /\ failures \in 0..Len(requests) /\ frame \in 0..Len(requests)
         /\ Oldest \in Int
         /\ Exchanging => failures < Len(requests)
         /\ \A i \in Starts : i \in 1..Len(stream) /\ stream[i].answers \in 1..Len(requests)
         /\ \A k \in Coming : k \in 1..Len(owed) /\ owed[k] \in 1..Len(requests)
  <1>1. TypeInv
    BY DEF LagInv
  <1>2. /\ Len(requests) \in Nat /\ failures \in 0..Len(requests) /\ frame \in 0..Len(requests)
        /\ Exchanging => failures < Len(requests)
    BY <1>1, Lengths DEF TypeInv, TypeOK
  <1>3. Oldest \in Int
    BY <1>2 DEF Oldest, Garbage
  <1>. QED
    BY <1>1, <1>2, <1>3, Lengths DEF Starts, Coming

\* While the network is still, the answers to come are those there were.
LEMMA NetworkStill ==
  ASSUME LagInv, UNCHANGED <<stream, owed, sent>>, Oldest' \in Int, Oldest' <= Oldest
  PROVE  InOrder' /\ NoneBefore(Oldest)'
  <1>1. Starts' = Starts /\ Coming' = Coming
    BY DEF Starts, Coming
  <1>2. InOrder'
    BY <1>1 DEF LagInv, InOrder
  <1>3. ASSUME NEW i \in Starts
        PROVE  Oldest' <= stream[i].answers
    <2>1. Oldest <= stream[i].answers
      BY DEF LagInv, NoneBefore
    <2>2. stream[i].answers \in Int /\ Oldest \in Int
      BY LagNumbers
    <2>. QED
      BY <2>1, <2>2
  <1>4. ASSUME NEW k \in Coming
        PROVE  Oldest' <= owed[k]
    <2>1. Oldest <= owed[k]
      BY DEF LagInv, NoneBefore
    <2>2. owed[k] \in Int /\ Oldest \in Int
      BY LagNumbers
    <2>. QED
      BY <2>1, <2>2
  <1>. QED
    BY <1>1, <1>2, <1>3, <1>4 DEF NoneBefore

\* A step that moves neither the frames nor the calls.
LEMMA LagStill ==
  ASSUME LagInv, TypeInv',
         UNCHANGED <<requests, frame, failures, handled, stream, owed, sent, Sending, Receiving>>,
         pc' = "header" => pc = "header" /\ got' = got
  PROVE  LagInv'
  <1>1. Oldest' = Oldest /\ Oldest \in Int
    BY LagNumbers DEF Oldest, Exchanging
  <1>2. InOrder' /\ NoneBefore(Oldest)'
    BY <1>1, NetworkStill
  <1>3. (Sending => Unanswered(Len(requests)))'
    BY DEF LagInv, Unanswered, Starts
  <1>. QED
    BY <1>2, <1>3 DEF LagInv, LagIsBoundedByFailures

\* A new connection owes nothing.
LEMMA ConnectLag ==
  ASSUME LagInv, TypeInv', Connect \/ Close
  PROVE  LagInv'
  <1>1. /\ stream' = <<>> /\ owed' = <<>> /\ pc' = "idle" /\ ~Receiving /\ frame' = frame
        /\ ~Sending'
    BY DEF Connect, Close, Sending, Receiving
  <1>2. Starts' = {} /\ Coming' = {} /\ Len(owed') = 0
    BY <1>1, EmptySeq DEF Starts, Coming
  <1>3. InOrder' /\ NoneBefore(Oldest)'
    BY <1>2 DEF InOrder, NoneBefore
  <1>4. frame = Garbage
    BY <1>1 DEF LagInv, TypeInv
  <1>5. LagIsBoundedByFailures'
    <2>1. CASE Connect
      BY <2>1 DEF Connect, Nothing, LagIsBoundedByFailures
    <2>2. CASE Close
      BY <2>2 DEF Close, pastVars, LagInv, LagIsBoundedByFailures
    <2>. QED
      BY <2>1, <2>2
  <1>. QED
    BY <1>1, <1>3, <1>4, <1>5 DEF LagInv

\* No frame answers a request that was only built.
LEMMA ExchangeLag ==
  ASSUME LagInv, TypeInv', NEW kind \in Kinds, Exchange(kind)
  PROVE  LagInv'
  <1>0. TypeInv
    BY DEF LagInv
  <1>1. /\ pc' = "send" /\ ~Exchanging /\ Exchanging' /\ frame' = frame
        /\ UNCHANGED <<stream, owed, sent, failures, handled>>
    BY DEF Exchange, Sending, Receiving, Exchanging, peerVars, pastVars
  <1>2. Len(requests') = Len(requests) + 1 /\ frame = Garbage /\ Len(requests) \in Nat
    BY <1>0, RequestType
  <1>3. Oldest' = Oldest /\ Oldest \in Int
    BY <1>1, <1>2, LagNumbers DEF Oldest
  <1>4. LagIsBoundedByFailures'
    BY <1>1 DEF LagInv, LagIsBoundedByFailures
  <1>5. InOrder' /\ NoneBefore(Oldest)'
    BY <1>1, <1>3, NetworkStill
  <1>6. Unanswered(Len(requests))'
    <2>1. Starts' = Starts
      BY <1>1 DEF Starts
    <2>2. ASSUME NEW i \in Starts
          PROVE  stream[i].answers < Len(requests')
      BY <1>2, LagNumbers
    <2>3. ASSUME NEW k \in 1..Len(owed)
          PROVE  owed[k] < Len(requests')
      BY <1>0, <1>2, Lengths
    <2>. QED
      BY <1>1, <2>1, <2>2, <2>3 DEF Unanswered
  <1>. QED
    BY <1>1, <1>2, <1>4, <1>5, <1>6 DEF LagInv

\* A request sent is answered after all those before it.
LEMMA SendWholeLag ==
  ASSUME LagInv, TypeInv', SendWhole
  PROVE  LagInv'
  <1>0. TypeInv
    BY DEF LagInv
  <1>1. /\ pc' = "header" /\ pc = "send" /\ Exchanging /\ Exchanging' /\ ~Sending' /\ frame' = frame
        /\ UNCHANGED <<requests, stream, sent, failures, handled>>
    BY DEF SendWhole, Await, Sending, Receiving, Exchanging
  <1>2. frame = Garbage /\ Len(requests) \in Nat
    BY <1>0, <1>1, Lengths DEF TypeInv, Receiving
  <1>3. Oldest' = Oldest /\ Oldest \in Int /\ Oldest <= Len(requests)
    BY <1>1, <1>2, LagNumbers DEF Oldest
  <1>4. LagIsBoundedByFailures'
    BY <1>1 DEF LagInv, LagIsBoundedByFailures
  <1>5. CASE owed' = owed
    BY <1>1, <1>2, <1>3, <1>4, <1>5, NetworkStill DEF LagInv
  <1>6. CASE owed' = Append(owed, Len(requests))
    <2>1. /\ Len(owed) \in Nat /\ Len(owed') = Len(owed) + 1
          /\ \A k \in 1..Len(owed') : \/ k \in 1..Len(owed) /\ owed'[k] = owed[k]
                                      \/ k = Len(owed) + 1 /\ owed'[k] = Len(requests)
      <3>1. owed \in Seq(Nat)
        <4>1. owed \in Seq(1..Len(requests))
          BY <1>0 DEF TypeInv, TypeOK
        <4>2. 1..Len(requests) \subseteq Nat
          BY <1>2
        <4>. QED
          BY <4>1, <4>2, Widened
      <3>. QED
        BY <1>2, <1>6, <3>1, Appended
    <2>2. Unanswered(Len(requests))
      BY <1>1 DEF LagInv, Sending
    <2>3. \A j, k \in 1..Len(owed') : j < k => owed'[j] < owed'[k]
      <3>1. ASSUME NEW j \in 1..Len(owed'), NEW k \in 1..Len(owed'), j < k
            PROVE  owed'[j] < owed'[k]
        <4>1. j \in 1..Len(owed) /\ owed'[j] = owed[j]
          BY <2>1, <3>1
        <4>2. CASE k \in 1..Len(owed) /\ owed'[k] = owed[k]
          BY <3>1, <4>1, <4>2 DEF LagInv, InOrder
        <4>3. CASE owed'[k] = Len(requests)
          BY <2>2, <4>1, <4>3 DEF Unanswered
        <4>. QED
          BY <2>1, <4>2, <4>3
      <3>. QED
        BY <3>1
    <2>4. Starts' = Starts
      BY <1>1 DEF Starts
    <2>5. \A k \in Coming' : \/ k \in Coming /\ owed'[k] = owed[k]
                            \/ owed'[k] = Len(requests)
      BY <1>1, <2>1 DEF Coming
    <2>6. ASSUME NEW i \in Starts, NEW k \in Coming'
          PROVE  stream[i].answers < owed'[k]
      BY <2>2, <2>5 DEF Unanswered, LagInv, InOrder
    <2>7. ASSUME NEW k \in Coming'
          PROVE  Oldest <= owed'[k]
      BY <1>3, <2>5 DEF LagInv, NoneBefore
    <2>8. InOrder'
      BY <1>1, <2>3, <2>4, <2>6 DEF LagInv, InOrder
    <2>9. NoneBefore(Oldest)'
      BY <1>1, <1>3, <2>4, <2>7 DEF LagInv, NoneBefore
    <2>. QED
      BY <1>1, <1>2, <1>4, <2>8, <2>9 DEF LagInv
  <1>. QED
    BY <1>5, <1>6 DEF SendWhole

\* An exchange that fails has used up one answer at most, and none if its request
\* was not sent.
LEMMA FailLag ==
  ASSUME LagInv, TypeInv', Exchanging, Fail, UNCHANGED <<stream, owed, sent>>
  PROVE  LagInv'
  <1>1. /\ pc' = "idle" /\ ~Exchanging' /\ ~Sending' /\ frame' = Garbage
        /\ failures' = failures + 1
        /\ UNCHANGED <<requests, handled, stream, owed, sent>>
    BY DEF Fail, Return, Sending, Receiving, Exchanging
  <1>2. Oldest' \in Int /\ Oldest' <= Oldest
    <2>1. Oldest' = Len(requests) + 1 - (failures + 1)
      BY <1>1 DEF Oldest
    <2>2. Oldest = IF frame = Garbage THEN Len(requests) - failures ELSE frame + 1
      BY DEF Oldest
    <2>3. frame # Garbage => Len(requests) - failures <= frame
      BY DEF LagInv
    <2>4. Len(requests) \in Nat /\ failures \in 0..Len(requests) /\ frame \in 0..Len(requests)
      BY LagNumbers
    <2>. QED
      BY <2>1, <2>2, <2>3, <2>4
  <1>3. LagIsBoundedByFailures'
    <2>1. handled.request \in Nat /\ handled.answers \in Nat /\ failures \in Nat
      BY LagNumbers DEF LagInv, TypeInv, TypeOK
    <2>. QED
      BY <1>1, <2>1 DEF LagInv, LagIsBoundedByFailures
  <1>4. InOrder' /\ NoneBefore(Oldest)'
    BY <1>1, <1>2, NetworkStill
  <1>. QED
    BY <1>1, <1>3, <1>4 DEF LagInv

\* An answer handled is no older than the failures allow.
LEMMA HandleLag ==
  ASSUME LagInv, TypeInv', Handle
  PROVE  LagInv'
  <1>1. /\ pc' = "idle" /\ pc = "payload" /\ Exchanging /\ ~Exchanging' /\ ~Sending'
        /\ frame' = Garbage /\ frame # Garbage
        /\ handled' = [request |-> Len(requests), answers |-> frame]
        /\ UNCHANGED <<requests, failures, stream, owed, sent>>
    BY DEF Handle, Matches, Return, peerVars, Sending, Receiving, Exchanging
  <1>2. /\ Len(requests) \in Nat /\ failures \in 0..Len(requests) /\ frame \in 0..Len(requests)
        /\ Len(requests) - failures <= frame
    BY <1>1, LagNumbers DEF LagInv
  <1>3. Oldest' \in Int /\ Oldest' <= Oldest
    <2>1. Oldest' = Len(requests) + 1 - failures /\ Oldest = frame + 1
      BY <1>1 DEF Oldest
    <2>. QED
      BY <1>2, <2>1
  <1>4. LagIsBoundedByFailures'
    BY <1>1, <1>2 DEF LagIsBoundedByFailures
  <1>5. InOrder' /\ NoneBefore(Oldest)'
    BY <1>1, <1>3, NetworkStill
  <1>. QED
    BY <1>1, <1>4, <1>5 DEF LagInv

\* The frames that begin after a piece began before it.
LEMMA LaterStarts ==
  ASSUME LagInv, Recv
  PROVE  \E n \in Nat \ {0} :
           \A i \in Starts' : /\ i \in Nat \ {0} /\ i + n \in Starts
                            /\ stream'[i] = stream[i + n]
  <1>0. TypeInv
    BY DEF LagInv
  <1>1. PICK n \in Nat \ {0} :
           \A i \in 1..Len(stream') : i + n \in 1..Len(stream) /\ stream'[i] = stream[i + n]
    BY <1>0, PieceTaken
  <1>2. ASSUME NEW i \in Starts'
        PROVE  i \in Nat \ {0} /\ i + n \in Starts /\ stream'[i] = stream[i + n]
    <2>1. i \in 1..Len(stream') /\ stream'[i].pos = 1
      BY <1>2 DEF Starts
    <2>2. i + n \in 1..Len(stream) /\ stream'[i] = stream[i + n]
      BY <1>1, <2>1
    <2>3. i \in Nat \ {0}
      BY <2>1
    <2>. QED
      BY <2>1, <2>2, <2>3 DEF Starts
  <1>. QED
    BY <1>2

\* Reading a piece keeps what is left in order, and none of it answers a request
\* before the one answered by the frame the piece begins.
LEMMA RecvLag ==
  ASSUME LagInv, TypeInv', Recv
  PROVE  LagInv'
  <1>0. TypeInv
    BY DEF LagInv
  <1>1. /\ UNCHANGED <<pc, requests, failures, handled, owed, sent>>
        /\ Exchanging /\ Exchanging' /\ ~Sending' /\ Coming' = Coming
    BY DEF Recv, pastVars, Sending, Receiving, Exchanging, Coming
  <1>2. PICK n \in Nat \ {0} :
           \A i \in Starts' : /\ i \in Nat \ {0} /\ i + n \in Starts
                            /\ stream'[i] = stream[i + n]
    BY LaterStarts
  <1>3. InOrder'
    <2>1. ASSUME NEW i \in Starts', NEW j \in Starts', i < j
          PROVE  stream'[i].answers < stream'[j].answers
      <3>1. /\ i \in Nat /\ j \in Nat /\ i + n \in Starts /\ j + n \in Starts
            /\ stream'[i] = stream[i + n] /\ stream'[j] = stream[j + n]
        BY <1>2
      <3>2. i + n < j + n
        BY <2>1, <3>1
      <3>. QED
        BY <3>1, <3>2 DEF LagInv, InOrder
    <2>2. ASSUME NEW i \in Starts', NEW k \in Coming
          PROVE  stream'[i].answers < owed[k]
      BY <1>2 DEF LagInv, InOrder
    <2>. QED
      BY <1>1, <2>1, <2>2 DEF LagInv, InOrder
  <1>4. LagIsBoundedByFailures'
    BY <1>1 DEF LagInv, LagIsBoundedByFailures
  <1>5. ~(pc' = "header" /\ got' = 0)
    BY <1>0, PieceTaken DEF TypeInv, TypeOK
  <1>6. CASE frame' = frame \/ frame' = Garbage
    <2>1. Oldest' \in Int /\ Oldest' <= Oldest
      <3>1. /\ Oldest = IF frame = Garbage THEN Len(requests) - failures ELSE frame + 1
            /\ Oldest' = IF frame' = Garbage THEN Len(requests) - failures ELSE frame' + 1
        BY <1>1 DEF Oldest
      <3>2. /\ frame # Garbage => Len(requests) - failures <= frame
            /\ Len(requests) \in Nat /\ failures \in 0..Len(requests) /\ frame \in 0..Len(requests)
        BY LagNumbers DEF LagInv
      <3>. QED
        BY <1>6, <3>1, <3>2
    <2>2. ASSUME NEW i \in Starts'
          PROVE  Oldest' <= stream'[i].answers
      <3>1. i + n \in Starts /\ stream'[i] = stream[i + n]
        BY <1>2
      <3>2. Oldest <= stream[i + n].answers
        BY <3>1 DEF LagInv, NoneBefore
      <3>3. stream[i + n].answers \in Int /\ Oldest \in Int
        BY <3>1, LagNumbers
      <3>. QED
        BY <2>1, <3>1, <3>2, <3>3
    <2>3. ASSUME NEW k \in Coming
          PROVE  Oldest' <= owed[k]
      <3>1. Oldest <= owed[k]
        BY DEF LagInv, NoneBefore
      <3>2. owed[k] \in Int /\ Oldest \in Int
        BY LagNumbers
      <3>. QED
        BY <2>1, <3>1, <3>2
    <2>4. NoneBefore(Oldest)'
      BY <1>1, <2>2, <2>3 DEF NoneBefore
    <2>. QED
      BY <1>1, <1>3, <1>4, <1>5, <1>6, <2>4 DEF LagInv
  <1>7. CASE frame' # frame /\ frame' # Garbage
    <2>1. /\ pc = "header" /\ got = 0 /\ 1 \in Starts /\ frame' = stream[1].answers
      BY <1>0, <1>7, FrameTaken DEF Starts
    <2>2. frame = Garbage
      BY <2>1 DEF LagInv
    <2>3. Oldest = Len(requests) - failures /\ Oldest' = stream[1].answers + 1
      BY <1>1, <1>7, <2>1, <2>2 DEF Oldest
    <2>4. Len(requests) - failures <= frame'
      BY <2>1, <2>3 DEF LagInv, NoneBefore
    <2>5. ASSUME NEW i \in Starts'
          PROVE  Oldest' <= stream'[i].answers
      <3>1. i \in Nat \ {0} /\ i + n \in Starts /\ stream'[i] = stream[i + n]
        BY <1>2
      <3>2. 1 < i + n
        BY <3>1
      <3>3. stream[1].answers < stream[i + n].answers
        BY <2>1, <3>1, <3>2 DEF LagInv, InOrder
      <3>4. stream[1].answers \in Int /\ stream[i + n].answers \in Int
        BY <2>1, <3>1, LagNumbers
      <3>. QED
        BY <2>3, <3>1, <3>3, <3>4
    <2>6. ASSUME NEW k \in Coming
          PROVE  Oldest' <= owed[k]
      <3>1. stream[1].answers < owed[k]
        BY <2>1 DEF LagInv, InOrder
      <3>2. stream[1].answers \in Int /\ owed[k] \in Int
        BY <2>1, LagNumbers
      <3>. QED
        BY <2>3, <3>1, <3>2
    <2>7. NoneBefore(Oldest)'
      BY <1>1, <2>5, <2>6 DEF NoneBefore
    <2>. QED
      BY <1>1, <1>3, <1>4, <1>5, <2>4, <2>7 DEF LagInv
  <1>. QED
    BY <1>6, <1>7

\* The SECC sends the first answer it owes, and so keeps the order.
LEMMA PeerLag ==
  ASSUME LagInv, TypeInv', PeerSends
  PROVE  LagInv'
  <1>0. TypeInv
    BY DEF LagInv
  <1>1. UNCHANGED <<pc, requests, frame, failures, handled, got>> /\ Oldest' = Oldest
    BY DEF PeerSends, evccVars, pastVars, Oldest, Sending, Receiving, Exchanging
  <1>2. /\ Len(stream) \in Nat /\ Len(owed) \in Nat \ {0} /\ sent \in 0..(FrameLen - 1) /\ 1 \in 1..Len(owed)
        /\ \A i \in 1..Len(stream') :
             \/ i \in 1..Len(stream) /\ stream'[i] = stream[i]
             \/ i = Len(stream) + 1 /\ stream'[i] = [answers |-> owed[1], pos |-> sent + 1]
    <2>. DEFINE unit == [answers |-> owed[1], pos |-> sent + 1]
    <2>1. stream' = Append(stream, unit) /\ unit \in Units /\ owed # <<>>
      BY <1>0, UnitSent
    <2>2. stream \in Seq(Units) /\ owed \in Seq(1..Len(requests)) /\ sent \in 0..(FrameLen - 1)
      BY <1>0 DEF TypeInv, TypeOK
    <2>. HIDE DEF unit
    <2>3. /\ Len(stream) \in Nat /\ Len(stream') = Len(stream) + 1
          /\ \A i \in 1..Len(stream') : \/ i \in 1..Len(stream) /\ stream'[i] = stream[i]
                                        \/ i = Len(stream) + 1 /\ stream'[i] = unit
      BY <2>1, <2>2, Appended
    <2>4. Len(owed) \in Nat \ {0} /\ 1 \in 1..Len(owed)
      BY <2>1, <2>2, Shortened
    <2>. QED
      BY <2>2, <2>3, <2>4 DEF unit
  <1>3. \A i \in Starts' : \/ i \in Starts /\ i \in 1..Len(stream) /\ stream'[i] = stream[i]
                         \/ /\ i = Len(stream) + 1 /\ stream'[i].answers = owed[1]
                            /\ sent = 0 /\ 1 \in Coming
    <2>1. TAKE i \in Starts'
    <2>2. i \in 1..Len(stream') /\ stream'[i].pos = 1
      BY DEF Starts
    <2>3. CASE i \in 1..Len(stream) /\ stream'[i] = stream[i]
      BY <2>2, <2>3 DEF Starts
    <2>4. CASE i = Len(stream) + 1 /\ stream'[i] = [answers |-> owed[1], pos |-> sent + 1]
      <3>1. sent + 1 = 1 /\ stream'[i].answers = owed[1]
        BY <2>2, <2>4
      <3>2. sent = 0
        BY <1>2, <3>1
      <3>. QED
        BY <1>2, <2>4, <3>1, <3>2 DEF Coming
    <2>. QED
      BY <1>2, <2>2, <2>3, <2>4
  <1>4. \A k \in 1..Len(owed') :
          \/ sent' # 0 /\ k \in 1..Len(owed) /\ owed'[k] = owed[k]
          \/ sent' = 0 /\ k + 1 \in 1..Len(owed) /\ owed'[k] = owed[k + 1]
    <2>1. CASE sent + 1 = FrameLen
      <3>1. owed' = Tail(owed) /\ sent' = 0 /\ owed # <<>> /\ owed \in Seq(1..Len(requests))
        BY <1>0, <2>1 DEF PeerSends, TypeInv, TypeOK
      <3>. QED
        BY <3>1, Shortened
    <2>2. CASE sent + 1 # FrameLen
      BY <1>2, <2>2 DEF PeerSends
    <2>. QED
      BY <2>1, <2>2
  <1>5. \A k \in Coming' :
          \/ k \in Coming /\ k > 1 /\ owed'[k] = owed[k]
          \/ k + 1 \in Coming /\ k + 1 > 1 /\ owed'[k] = owed[k + 1]
    <2>1. TAKE k \in Coming'
    <2>2. k \in 1..Len(owed') /\ (k > 1 \/ sent' = 0)
      BY DEF Coming
    <2>3. CASE sent' # 0 /\ k \in 1..Len(owed) /\ owed'[k] = owed[k]
      BY <2>2, <2>3 DEF Coming
    <2>4. CASE sent' = 0 /\ k + 1 \in 1..Len(owed) /\ owed'[k] = owed[k + 1]
      <3>1. k + 1 > 1
        BY <2>2
      <3>. QED
        BY <2>4, <3>1 DEF Coming
    <2>. QED
      BY <1>4, <2>2, <2>3, <2>4
  <1>6. \A j, k \in 1..Len(owed') : j < k => owed'[j] < owed'[k]
    <2>1. ASSUME NEW j \in 1..Len(owed'), NEW k \in 1..Len(owed'), j < k
          PROVE  owed'[j] < owed'[k]
      <3>1. CASE sent' # 0
        <4>1. /\ j \in 1..Len(owed) /\ owed'[j] = owed[j]
              /\ k \in 1..Len(owed) /\ owed'[k] = owed[k]
          BY <1>4, <3>1
        <4>. QED
          BY <2>1, <4>1 DEF LagInv, InOrder
      <3>2. CASE sent' = 0
        <4>1. /\ j + 1 \in 1..Len(owed) /\ owed'[j] = owed[j + 1]
              /\ k + 1 \in 1..Len(owed) /\ owed'[k] = owed[k + 1]
          BY <1>4, <3>2
        <4>2. j + 1 < k + 1
          BY <2>1
        <4>. QED
          BY <4>1, <4>2 DEF LagInv, InOrder
      <3>. QED
        BY <3>1, <3>2
    <2>. QED
      BY <2>1
  <1>7. \A i, j \in Starts' : i < j => stream'[i].answers < stream'[j].answers
    <2>1. ASSUME NEW i \in Starts', NEW j \in Starts', i < j
          PROVE  stream'[i].answers < stream'[j].answers
      <3>1. j \in 1..Len(stream')
        BY DEF Starts
      <3>2. i \in Starts /\ stream'[i] = stream[i]
        <4>1. j <= Len(stream) + 1 /\ j \in Int
          BY <1>2, <3>1
        <4>. QED
          BY <1>2, <1>3, <2>1, <4>1
      <3>3. CASE j \in Starts /\ stream'[j] = stream[j]
        BY <2>1, <3>2, <3>3 DEF LagInv, InOrder
      <3>4. CASE stream'[j].answers = owed[1] /\ 1 \in Coming
        BY <3>2, <3>4 DEF LagInv, InOrder
      <3>. QED
        BY <1>3, <3>3, <3>4
    <2>. QED
      BY <2>1
  <1>8. ASSUME NEW k \in Coming, k > 1
        PROVE  owed[1] < owed[k]
    BY <1>2, <1>8 DEF LagInv, InOrder, Coming
  <1>9. ASSUME NEW i \in Starts', NEW k \in Coming'
        PROVE  stream'[i].answers < owed'[k]
    <2>1. PICK m \in Coming : m > 1 /\ owed'[k] = owed[m]
      BY <1>5
    <2>2. CASE i \in Starts /\ stream'[i] = stream[i]
      BY <2>1, <2>2 DEF LagInv, InOrder
    <2>3. CASE stream'[i].answers = owed[1]
      BY <1>8, <2>1, <2>3
    <2>. QED
      BY <1>3, <2>2, <2>3
  <1>10. NoneBefore(Oldest)'
    <2>1. ASSUME NEW i \in Starts'
          PROVE  Oldest <= stream'[i].answers
      BY <1>3 DEF LagInv, NoneBefore
    <2>2. ASSUME NEW k \in Coming'
          PROVE  Oldest <= owed'[k]
      <3>1. PICK m \in Coming : owed'[k] = owed[m]
        BY <1>5
      <3>. QED
        BY <3>1 DEF LagInv, NoneBefore
    <2>. QED
      BY <1>1, <2>1, <2>2 DEF NoneBefore
  <1>11. InOrder'
    BY <1>6, <1>7, <1>9 DEF InOrder
  <1>12. (Sending => Unanswered(Len(requests)))'
    <2>1. SUFFICES ASSUME Sending
                   PROVE  Unanswered(Len(requests))'
      BY <1>1 DEF Sending
    <2>2. Unanswered(Len(requests))
      BY <2>1 DEF LagInv
    <2>3. ASSUME NEW i \in Starts'
          PROVE  stream'[i].answers < Len(requests)
      BY <1>2, <1>3, <2>2 DEF Unanswered
    <2>4. ASSUME NEW k \in 1..Len(owed')
          PROVE  owed'[k] < Len(requests)
      BY <1>4, <2>2 DEF Unanswered
    <2>. QED
      BY <1>1, <2>3, <2>4 DEF Unanswered
  <1>. QED
    BY <1>1, <1>10, <1>11, <1>12 DEF LagInv, LagIsBoundedByFailures

\* Nothing lags at first.
LEMMA LagInit == Init => LagInv
  <1>. SUFFICES ASSUME Init
                PROVE  LagInv
    OBVIOUS
  <1>1. /\ Len(stream) = 0 /\ Len(owed) = 0 /\ frame = Garbage /\ failures = 0 /\ handled = Nothing
        /\ ~Sending
    BY EmptySeq DEF Init, Sending
  <1>2. Starts = {} /\ Coming = {}
    BY <1>1 DEF Starts, Coming
  <1>3. InOrder /\ NoneBefore(Oldest)
    BY <1>1, <1>2 DEF InOrder, NoneBefore
  <1>. QED
    BY <1>1, <1>3, TypeInit DEF LagInv, LagIsBoundedByFailures, Nothing

\* A step keeps the lag within the failures.
LEMMA LagStep == LagInv /\ [Next]_vars => LagInv'
  <1>. SUFFICES ASSUME LagInv, [Next]_vars
                PROVE  LagInv'
    OBVIOUS
  <1>0. TypeInv /\ TypeInv'
    BY TypeStep DEF LagInv
  <1>1. CASE UNCHANGED vars
    BY <1>0, <1>1, LagStill DEF vars, evccVars, peerVars, pastVars, Sending, Receiving
  <1>2. CASE Discover \/ Discovering
    <2>1. /\ pc' \in {"idle", "sdp"} /\ pc \in {"idle", "sdp"}
      BY <1>2 DEF Discover, Discovering, SdpTimeout, SdpReject, SdpAccept, NextAttempt
    <2>2. UNCHANGED <<requests, frame, failures, handled, stream, owed, sent>>
      BY <1>2 DEF Discover, Discovering, SdpTimeout, SdpReject, SdpAccept, peerVars, pastVars
    <2>. QED
      BY <1>0, <2>1, <2>2, LagStill DEF Sending, Receiving
  <1>3. CASE Datagram \/ PeerCloses
    BY <1>0, <1>3, LagStill DEF Datagram, PeerCloses, evccVars, peerVars, pastVars, Sending,
      Receiving
  <1>4. CASE Connect \/ Close
    BY <1>0, <1>4, ConnectLag
  <1>5. CASE ConnectFails
    BY <1>0, <1>5, LagStill DEF ConnectFails, peerVars, pastVars, Sending, Receiving
  <1>6. CASE Transmitting \/ \E kind \in Kinds : Exchange(kind)
    <2>1. CASE SendPart
      BY <1>0, <2>1, LagStill DEF SendPart, peerVars, pastVars, Sending, Receiving
    <2>2. CASE SendFails
      BY <1>0, <2>2, FailLag DEF SendFails, Exchanging
    <2>. QED
      BY <1>0, <1>6, <2>1, <2>2, ExchangeLag, SendWholeLag DEF Transmitting
  <1>7. CASE Recv
    BY <1>0, <1>7, RecvLag
  <1>8. CASE RecvTimeout \/ RecvReset \/ HeaderTooLong \/ Refuse
    <2>1. Receiving /\ Fail /\ UNCHANGED peerVars
      BY <1>8 DEF RecvTimeout, RecvReset, HeaderTooLong, Refuse, Receiving
    <2>. QED
      BY <1>0, <2>1, FailLag DEF peerVars, Exchanging
  <1>9. CASE HeaderRead
    <2>1. pc = "header" /\ pc' = "payload"
      BY <1>9 DEF HeaderRead, Await
    <2>. QED
      BY <1>0, <1>9, <2>1, LagStill DEF HeaderRead, peerVars, pastVars, Sending, Receiving
  <1>10. CASE Handle
    BY <1>0, <1>10, HandleLag
  <1>11. CASE Tick
    BY <1>0, <1>11, LagStill DEF Tick, peerVars, Sending, Receiving
  <1>12. CASE PeerSends
    BY <1>0, <1>12, PeerLag
  <1>. QED
    BY <1>1, <1>2, <1>3, <1>4, <1>5, <1>6, <1>7, <1>8, <1>9, <1>10, <1>11, <1>12 DEF Next, Reading

\* A response lags behind its request by at most as many requests as exchanges
\* have failed on the connection, however TCP cuts the stream up
\* (jpv2g_evcc_exchange).
THEOREM LagBounded == Spec => []LagIsBoundedByFailures
  <1>1. LagInv => LagIsBoundedByFailures
    BY DEF LagInv
  <1>. QED
    BY <1>1, LagInit, LagStep, PTL DEF Spec

-------------------------------------------------------------------------------

(* A call in progress comes back.  That it does in the end needs the fairness of
   its steps, which stays with TLC; what the steps themselves contribute is a
   count of those the call has left, which each of them lowers and nothing that
   the network, the SECC or the clock does can raise again. *)

StepsLeft ==
  CASE pc = "idle"    -> 0
    [] pc = "sdp"     -> (MaxRetries + 1) - attempt
    [] pc = "send"    -> (2 * (FrameLen + Timeout) + 3) + (need - got) + left
    [] pc = "header"  -> (FrameLen + Timeout + 2) + (need - got) + left
    [] pc = "payload" -> (need - got) + left + 1

\* The steps of a call.
CallSteps == Discovering \/ Transmitting \/ Reading \/ Tick

\* The count by the part of the call that is in progress.
LEMMA StepsLeftType ==
  ASSUME TypeInv
  PROVE  /\ StepsLeft \in 0..(MaxRetries + 3 * FrameLen + 2 * Timeout + SetupTimeout + 3)
         /\ StepsLeft = 0 <=> pc = "idle"
  <1>1. /\ MaxRetries \in Nat /\ Timeout \in Nat /\ SetupTimeout \in Nat /\ FrameLen \in Nat
        /\ need \in 0..FrameLen /\ got \in 0..need
        /\ left \in 0..(IF pc = "send" THEN SetupTimeout ELSE Timeout)
        /\ pc = "sdp" => attempt \in 1..MaxRetries
        /\ pc \in {"idle", "sdp", "send", "header", "payload"}
    BY TimesAssumption, FrameLengths DEF TypeInv, TypeOK, Sending
  <1>. QED
    BY <1>1 DEF StepsLeft

\* Every step of a call lowers the count.
LEMMA CallStepLowers ==
  ASSUME TypeInv, CallSteps
  PROVE  StepsLeft' < StepsLeft
  <1>1. /\ MaxRetries \in Nat /\ Timeout \in Nat /\ SetupTimeout \in Nat /\ FrameLen \in Nat
        /\ need \in 0..FrameLen /\ got \in 0..need
        /\ left \in 0..(IF pc = "send" THEN SetupTimeout ELSE Timeout)
        /\ pc = "sdp" => attempt \in 1..MaxRetries
    BY TimesAssumption, FrameLengths DEF TypeInv, TypeOK, Sending
  <1>2. StepsLeft \in Nat /\ (StepsLeft = 0 <=> pc = "idle")
    BY StepsLeftType, TimesAssumption, FrameLengths
  <1>3. ASSUME pc # "idle", pc' = "idle"
        PROVE  StepsLeft' < StepsLeft
    <2>1. StepsLeft' = 0
      BY <1>3 DEF StepsLeft
    <2>2. StepsLeft \in Nat /\ StepsLeft # 0
      BY <1>2, <1>3
    <2>. QED
      BY <2>1, <2>2
  <1>4. CASE SdpTimeout \/ SdpReject
    <2>1. /\ pc = "sdp" /\ attempt' = attempt + 1
          /\ pc' = IF attempt < MaxRetries THEN "sdp" ELSE "idle"
      BY <1>4 DEF SdpTimeout, SdpReject, NextAttempt
    <2>. QED
      BY <1>1, <1>3, <2>1 DEF StepsLeft
  <1>5. CASE SdpAccept
    BY <1>3, <1>5 DEF SdpAccept
  <1>6. CASE Recv
    <2>1. PICK n \in Nat \ {0} : n <= need - got /\ got' = got + n
      BY <1>6, PieceTaken
    <2>2. UNCHANGED <<pc, need, left>> /\ pc \in {"header", "payload"}
      BY <1>6 DEF Recv, LeftAfter, Receiving
    <2>. QED
      BY <1>1, <2>1, <2>2 DEF StepsLeft
  <1>7. CASE HeaderRead
    <2>1. PICK length \in 0..FrameLen : Await("payload", length)
      BY <1>7 DEF HeaderRead
    <2>2. pc = "header" /\ pc' = "payload" /\ need' = length /\ got' = 0 /\ left' = Timeout
      BY <1>7, <2>1 DEF HeaderRead, Await
    <2>. QED
      BY <1>1, <2>2 DEF StepsLeft
  <1>8. CASE RecvTimeout \/ RecvReset \/ HeaderTooLong \/ Handle \/ Refuse \/ SendFails
    BY <1>3, <1>8 DEF RecvTimeout, RecvReset, HeaderTooLong, Handle, Refuse, SendFails, Fail,
      Return, Sending, Receiving
  <1>9. CASE Tick
    <2>1. /\ pc \in {"send", "header", "payload"} /\ left > 0 /\ left' = left - 1
          /\ UNCHANGED <<pc, need, got>>
      BY <1>9 DEF Tick, Sending, Receiving
    <2>. QED
      BY <1>1, <2>1 DEF StepsLeft
  <1>10. CASE SendPart
    <2>1. PICK n \in 1..(need - got - 1) : got' = got + n
      BY <1>10 DEF SendPart
    <2>2. UNCHANGED <<pc, need, left>> /\ pc = "send"
      BY <1>10 DEF SendPart, Sending
    <2>. QED
      BY <1>1, <2>1, <2>2 DEF StepsLeft
  <1>11. CASE SendWhole
    <2>1. pc = "send" /\ got < need
      BY <1>11 DEF SendWhole, TypeInv, TypeOK, Sending
    <2>2. pc' = "header" /\ need' = HeaderLen /\ got' = 0 /\ left' = Timeout
      BY <1>11 DEF SendWhole, Await
    <2>. QED
      BY <1>1, <2>1, <2>2, FrameLengths DEF StepsLeft
  <1>. QED
    BY <1>4, <1>5, <1>6, <1>7, <1>8, <1>9, <1>10, <1>11
    DEF CallSteps, Discovering, Transmitting, Reading

\* Whatever else happens meanwhile leaves the count as it is.
LEMMA NothingElseRaises ==
  ASSUME Next, ~CallSteps, pc # "idle"
  PROVE  StepsLeft' = StepsLeft
  <1>1. Datagram \/ PeerSends \/ PeerCloses
    BY DEF Next, CallSteps, Discover, Connect, ConnectFails, Close, Exchange
  <1>2. evccVars' = evccVars
    BY <1>1 DEF Datagram, PeerSends, PeerCloses
  <1>. QED
    BY <1>2 DEF evccVars, StepsLeft

\* A call never has more than a bounded number of steps left, and is over exactly
\* when it has none.
CallIsBounded ==
  /\ StepsLeft \in 0..(MaxRetries + 3 * FrameLen + 2 * Timeout + SetupTimeout + 3)
  /\ StepsLeft = 0 <=> pc = "idle"

\* Each of its steps takes one off at least, and no step of anybody adds one.
CallComesNearer ==
  [][ pc # "idle" => IF CallSteps THEN StepsLeft' < StepsLeft
                                  ELSE StepsLeft' = StepsLeft ]_vars

\* A discovery is over after as many steps as it has attempts, and an exchange
\* after as many as its request and the two parts of its response have units and
\* ticks, whatever arrives and however the kernel takes and hands over what is
\* sent (jpv2g_discover_secc, evcc_send_bytes, jpv2g_evcc_recv_v2gtp): the
\* argument behind EveryCallReturns, but for the fairness that lets the steps
\* happen, which a SECC that reads nothing denies to those of a send.
THEOREM CallProgress == Spec => []CallIsBounded /\ CallComesNearer
  <1>1. TypeInv => CallIsBounded
    BY StepsLeftType DEF CallIsBounded
  <1>2. ASSUME TypeInv, [Next]_vars
        PROVE  [pc # "idle" => IF CallSteps THEN StepsLeft' < StepsLeft
                                            ELSE StepsLeft' = StepsLeft]_vars
    BY <1>2, CallStepLowers, NothingElseRaises
  <1>. QED
    BY <1>1, <1>2, TypeInit, TypeStep, PTL DEF Spec, CallComesNearer

=============================================================================
