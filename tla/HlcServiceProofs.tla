-------------------------- MODULE HlcServiceProofs --------------------------
(***************************************************************************)
(* Whoever closes a descriptor closes its own, for every number of         *)
(* vehicles, of sockets and of places in the queue: the firmware's two     *)
(* tasks keep each other's sockets apart as long as the worker has not     *)
(* closed a descriptor that the library had already closed.                *)
(***************************************************************************)
EXTENDS HlcService, SequenceTheorems, WellFoundedInduction, TLAPS

Entries == [fd : Fds, client : Clients]

-------------------------------------------------------------------------------

(* Descriptors and the queue. *)

BelowNat == {p \in Nat \X Nat : p[1] < p[2]}

\* The number that is handed out is a free one.
LEMMA LowestIsFree ==
  ASSUME NEW free \in SUBSET Fds, free # {}
  PROVE  LowestOf(free) \in free
  <1>1. free \subseteq Nat
    BY SocketsAssumption DEF Fds
  <1>2. IsWellFoundedOn(BelowNat, Nat)
    BY NatLessThanWellFounded DEF OpToRel, BelowNat
  <1>3. PICK fd \in free : \A other \in free : <<other, fd>> \notin BelowNat
    BY <1>1, <1>2, WFMin
  <1>4. \A other \in free : fd <= other
    <2>1. TAKE other \in free
    <2>2. <<other, fd>> \notin BelowNat
      BY <1>3
    <2>3. fd \in Nat /\ other \in Nat
      BY <1>1
    <2>. QED
      BY <2>2, <2>3 DEF BelowNat
  <1>. QED
    BY <1>3, <1>4 DEF LowestOf

\* The number that is handed out was closed.
LEMMA LowestWasClosed ==
  ASSUME Free # {}
  PROVE  LowestOf(Free) \in Fds /\ socket[LowestOf(Free)] = "closed"
  BY LowestIsFree DEF Free

\* Closing keeps what stands for something and touches only the numbers closed.
LEMMA ClosedType ==
  ASSUME NEW fds, socket \in [Fds -> {"closed", "udp", "tcp"} \cup Clients]
  PROVE  /\ Closed(fds) \in [Fds -> {"closed", "udp", "tcp"} \cup Clients]
         /\ \A fd \in Fds : Closed(fds)[fd] = IF fd \in fds THEN "closed" ELSE socket[fd]
  BY DEF Closed

\* The entries of a queue behind its first.
LEMMA TailOfQueue ==
  ASSUME NEW q \in Seq(Entries), q # <<>>
  PROVE  /\ 1 \in 1..Len(q) /\ Head(q) = q[1] /\ Head(q) \in Entries
         /\ Tail(q) \in Seq(Entries) /\ Len(Tail(q)) = Len(q) - 1
         /\ \A i \in 1..Len(Tail(q)) : i + 1 \in 1..Len(q) /\ Tail(q)[i] = q[i + 1]
  <1>1. Len(q) \in Nat \ {0}
    BY EmptySeq
  <1>. QED
    BY <1>1, HeadTailProperties, ElementOfSeq

\* The entries of a queue that has grown.
LEMMA GrownQueue ==
  ASSUME NEW q \in Seq(Entries), NEW e \in Entries
  PROVE  /\ Append(q, e) \in Seq(Entries) /\ Len(Append(q, e)) = Len(q) + 1
         /\ Len(q) \in Nat
         /\ \A i \in 1..Len(Append(q, e)) :
              \/ i \in 1..Len(q) /\ Append(q, e)[i] = q[i]
              \/ i = Len(q) + 1 /\ Append(q, e)[i] = e
  BY AppendProperties, LenProperties

-------------------------------------------------------------------------------

(* Type correctness. *)

\* The initial states are well typed.
LEMMA TypeInit == Init => TypeOK
  <1>1. <<>> \in Seq(Entries) /\ Len(<<>>) = 0
    BY EmptySeq
  <1>. SUFFICES ASSUME Init
                PROVE  TypeOK
    OBVIOUS
  <1>2. socket \in [Fds -> {"closed", "udp", "tcp"} \cup Clients]
    BY DEF Init
  <1>3. secc \in [udp : Fds \cup {None}, tcp : Fds \cup {None}] /\ lost \subseteq Fds
    BY DEF Init
  <1>4. queue \in Seq([fd : Fds, client : Clients]) /\ Len(queue) <= QueueDepth
    BY <1>1, DepthAssumption DEF Init, Entries
  <1>5. ready = FALSE /\ strayed = FALSE /\ main = "loop" /\ worker = Idle /\ toCome = Clients
        /\ gone = FALSE
    BY DEF Init
  <1>. QED
    BY <1>2, <1>3, <1>4, <1>5 DEF TypeOK

\* The main loop's steps that start and stop the stack keep the types.
LEMMA StackType ==
  ASSUME TypeOK, StartUdp \/ StartUdpFails \/ StartTcp \/ StartTcpFails
                   \/ Stop \/ CloseServers \/ Clear
  PROVE  TypeOK'
  <1>. USE DEF TypeOK
  <1>1. CASE StartUdp
    <2>1. LowestOf(Free) \in Fds
      BY <1>1, LowestWasClosed DEF StartUdp
    <2>. QED
      BY <1>1, <2>1, SocketsAssumption DEF StartUdp, Open, Forgotten, None, Fds
  <1>2. CASE StartUdpFails
    BY <1>2, SocketsAssumption DEF StartUdpFails, Forgotten, None, Fds
  <1>3. CASE StartTcp
    <2>1. LowestOf(Free) \in Fds
      BY <1>3, LowestWasClosed DEF StartTcp
    <2>. QED
      BY <1>3, <2>1, SocketsAssumption DEF StartTcp, Open, None, Fds
  <1>4. CASE StartTcpFails
    BY <1>4 DEF StartTcpFails
  <1>5. CASE Stop
    BY <1>5 DEF Stop
  <1>6. CASE CloseServers
    BY <1>6, ClosedType DEF CloseServers
  <1>7. CASE Clear
    BY <1>7 DEF Clear, None
  <1>. QED
    BY <1>1, <1>2, <1>3, <1>4, <1>5, <1>6, <1>7

\* The main loop's steps with connections keep the types.
LEMMA ConnectionType ==
  ASSUME TypeOK, Drain \/ \E client \in Clients : HandOff(client) \/ Drop(client)
  PROVE  TypeOK'
  <1>. USE DEF TypeOK
  <1>0. queue \in Seq(Entries)
    BY DEF Entries
  <1>1. ASSUME NEW client \in Clients, HandOff(client)
        PROVE  TypeOK'
    <2>1. LowestOf(Free) \in Fds
      BY <1>1, LowestWasClosed DEF HandOff
    <2> DEFINE entry == [fd |-> LowestOf(Free), client |-> client]
    <2>2. entry \in Entries
      BY <2>1 DEF Entries
    <2>3. queue' = Append(queue, entry)
      BY <1>1 DEF HandOff
    <2>. HIDE DEF entry
    <2>4. queue' \in Seq(Entries) /\ Len(queue') = Len(queue) + 1 /\ Len(queue) \in Nat
      BY <1>0, <2>2, <2>3, GrownQueue
    <2>5. Len(queue') <= QueueDepth
      BY <1>1, <2>4, DepthAssumption DEF HandOff
    <2>6. socket' \in [Fds -> {"closed", "udp", "tcp"} \cup Clients]
      BY <1>1, <2>1 DEF HandOff, Open
    <2>. QED
      BY <1>1, <2>4, <2>5, <2>6 DEF HandOff, Accepts, Entries
  <1>2. ASSUME NEW client \in Clients, Drop(client)
        PROVE  TypeOK'
    BY <1>2 DEF Drop, Accepts
  <1>3. CASE Drain
    <2>1. CASE queue = <<>>
      BY <1>3, <2>1 DEF Drain
    <2>2. CASE queue # <<>>
      <3>1. queue' \in Seq(Entries) /\ Len(queue') = Len(queue) - 1
        BY <1>0, <1>3, <2>2, TailOfQueue DEF Drain
      <3>2. Len(queue') <= QueueDepth
        BY <1>0, <3>1, DepthAssumption, LenProperties
      <3>3. socket' \in [Fds -> {"closed", "udp", "tcp"} \cup Clients]
        BY <1>3, <2>2, ClosedType DEF Drain
      <3>. QED
        BY <1>3, <2>2, <3>1, <3>2, <3>3 DEF Drain, Entries
    <2>. QED
      BY <2>1, <2>2
  <1>. QED
    BY <1>1, <1>2, <1>3

\* The steps of the worker and of the vehicle it serves keep the types.
LEMMA WorkerType ==
  ASSUME TypeOK, Worker \/ Leave
  PROVE  TypeOK'
  <1>. USE DEF TypeOK
  <1>0. queue \in Seq(Entries)
    BY DEF Entries
  <1>1. CASE Take
    <2>1. /\ queue' \in Seq(Entries) /\ Len(queue') = Len(queue) - 1
          /\ Head(queue) \in Entries
      BY <1>0, <1>1, TailOfQueue DEF Take
    <2>2. Len(queue') <= QueueDepth
      BY <1>0, <2>1, DepthAssumption, LenProperties
    <2>3. worker' \in [pc : {"check", "serve", "close"}, fd : Fds, client : Clients]
      BY <1>1, <2>1 DEF Take, Entries
    <2>. QED
      BY <1>1, <2>1, <2>2, <2>3 DEF Take, Entries
  <1>2. ASSUME Refuse \/ TlsEnds \/ CloseClient
        PROVE  socket' \in [Fds -> {"closed", "udp", "tcp"} \cup Clients] /\ strayed' \in BOOLEAN
    <2>1. WorkerCloses
      BY <1>2 DEF Refuse, TlsEnds, CloseClient
    <2>2. socket' \in [Fds -> {"closed", "udp", "tcp"} \cup Clients]
      BY <2>1, ClosedType DEF WorkerCloses
    <2>3. strayed' \in BOOLEAN
      BY <2>1, Zenon DEF WorkerCloses
    <2>. QED
      BY <2>2, <2>3
  <1>3. CASE Refuse
    BY <1>2, <1>3 DEF Refuse
  <1>4. CASE Serve
    BY <1>4 DEF Serve, Idle
  <1>5. CASE PlainEnds \/ TlsEnds
    <2>1. worker' \in [pc : {"check", "serve", "close"}, fd : Fds, client : Clients]
      BY <1>5 DEF PlainEnds, TlsEnds, Idle
    <2>2. gone' = FALSE
      BY <1>5 DEF PlainEnds, TlsEnds
    <2>3. CASE PlainEnds
      BY <2>1, <2>2, <2>3 DEF PlainEnds
    <2>4. CASE TlsEnds
      BY <1>2, <2>1, <2>2, <2>4 DEF TlsEnds
    <2>. QED
      BY <1>5, <2>3, <2>4
  <1>6. CASE CloseClient
    BY <1>2, <1>6 DEF CloseClient
  <1>7. CASE Leave
    BY <1>7 DEF Leave
  <1>. QED
    BY <1>1, <1>3, <1>4, <1>5, <1>6, <1>7 DEF Worker

\* The state of the two tasks and of the socket table keeps its type (main.cpp).
THEOREM TypeCorrect == Spec => []TypeOK
  <1>1. TypeOK /\ [Next]_vars => TypeOK'
    <2>1. ASSUME TypeOK, UNCHANGED vars
          PROVE  TypeOK'
      BY <2>1 DEF TypeOK, vars
    <2>. QED
      BY <2>1, StackType, ConnectionType, WorkerType DEF Next, Main
  <1>. QED
    BY <1>1, TypeInit, PTL DEF Spec

-------------------------------------------------------------------------------

(* The queue across a stop. *)

\* Types and the queue of a stack that is not there.
QueueInv == TypeOK /\ QueueDiesWithItsStack

\* Every step keeps the queue of a stack that is gone empty.
LEMMA QueueStep == QueueInv /\ [Next]_vars => QueueInv'
  <1>. SUFFICES ASSUME QueueInv, [Next]_vars
                PROVE  QueueDiesWithItsStack'
    BY StackType, ConnectionType, WorkerType DEF QueueInv, Next, Main, TypeOK, vars
  <1>. USE DEF QueueInv, QueueDiesWithItsStack
  <1>1. CASE StartUdp \/ StartUdpFails \/ StartTcp \/ StartTcpFails
    BY <1>1 DEF StartUdp, StartUdpFails, StartTcp, StartTcpFails, TypeOK
  <1>2. CASE Stop \/ CloseServers \/ Clear
    BY <1>2 DEF Stop, CloseServers, Clear
  <1>3. CASE \E client \in Clients : HandOff(client) \/ Drop(client)
    BY <1>3 DEF HandOff, Drop, Accepts
  <1>4. CASE Drain
    BY <1>4 DEF Drain, TypeOK
  <1>5. CASE Take
    BY <1>5 DEF Take
  <1>6. CASE Refuse \/ Serve \/ Leave \/ PlainEnds \/ TlsEnds \/ CloseClient
    BY <1>6 DEF Refuse, Serve, Leave, PlainEnds, TlsEnds, CloseClient
  <1>7. CASE UNCHANGED vars
    BY <1>7 DEF vars
  <1>. QED
    BY <1>1, <1>2, <1>3, <1>4, <1>5, <1>6, <1>7 DEF Next, Main, Worker

\* No descriptor waits in the queue once its stack has closed, whatever the
\* worker took from it meanwhile (main.cpp, stop_hlc_stack).
THEOREM QueueDies == Spec => []QueueDiesWithItsStack
  <1>1. Init => QueueInv
    BY TypeInit DEF Init, QueueInv, QueueDiesWithItsStack
  <1>2. QueueInv => QueueDiesWithItsStack
    BY DEF QueueInv
  <1>. QED
    BY <1>1, <1>2, QueueStep, PTL DEF Spec

-------------------------------------------------------------------------------

(* Who stands for what. *)

\* A vehicle is in one place: still to come, in the queue once, or served.
Distinct ==
  /\ \A i, j \in 1..Len(queue) : i # j => queue[i].client # queue[j].client
  /\ \A i \in 1..Len(queue) : /\ queue[i].client \notin toCome
                              /\ queue[i].client # worker.client
  /\ worker.client \notin toCome

\* What g_secc holds in which part of its life.
Servers ==
  /\ ready \/ main = "bound" => secc.udp \in Fds
  /\ ~ready => secc.tcp = None
  /\ main = "clear" => \A fd \in Fds : fd \in {secc.udp, secc.tcp} => socket[fd] = "closed"

\* Every number stands for what its user takes it for.
Owned ==
  /\ \A i \in 1..Len(queue) : socket[queue[i].fd] = queue[i].client
  /\ worker.pc \in {"check", "serve"} => socket[worker.fd] = worker.client
  /\ main = "bound" => socket[secc.udp] = "udp"
  /\ ready /\ main \in {"loop", "drain", "close"} =>
       socket[secc.tcp] = "tcp" /\ socket[secc.udp] = "udp"

IInv == QueueInv /\ Distinct /\ Servers /\ (~strayed => Owned)

\* No vehicle is called nobody.
LEMMA NobodyIsNoClient == Nobody \notin Clients
  BY ClientsAssumption DEF Nobody

\* The initial states satisfy the invariant.
LEMMA OwnerInit == Init => IInv
  <1>1. Len(<<>>) = 0
    BY EmptySeq
  <1>2. ASSUME Init
        PROVE  QueueInv
    BY <1>2, TypeInit DEF Init, QueueInv, QueueDiesWithItsStack
  <1>3. ASSUME Init
        PROVE  Distinct /\ Servers /\ Owned
    <2>1. 1..Len(queue) = {}
      BY <1>1, <1>3 DEF Init
    <2>2. Distinct
      BY <1>3, <2>1, NobodyIsNoClient DEF Init, Distinct, Idle
    <2>. QED
      BY <1>3, <2>1, <2>2 DEF Init, Servers, Owned, Idle
  <1>. QED
    BY <1>2, <1>3 DEF IInv

\* What is left of the queue stays apart, and apart from the entry it loses.
LEMMA TailApart ==
  ASSUME queue \in Seq(Entries), queue # <<>>, Distinct, queue' = Tail(queue)
  PROVE  /\ \A i, j \in 1..Len(queue') : i # j => queue'[i].client # queue'[j].client
         /\ \A i \in 1..Len(queue') : /\ queue'[i].client \notin toCome
                                      /\ queue'[i].client # worker.client
                                      /\ queue'[i].client # queue[1].client
         /\ queue[1].client \notin toCome
         /\ Head(queue) = queue[1]
  <1>1. /\ 1 \in 1..Len(queue) /\ Head(queue) = queue[1]
        /\ \A i \in 1..Len(queue') : i + 1 \in 1..Len(queue) /\ queue'[i] = queue[i + 1]
    BY TailOfQueue, LenProperties
  <1>2. Len(queue') \in Nat
    BY TailOfQueue, LenProperties
  <1>3. ASSUME NEW i \in 1..Len(queue'), NEW j \in 1..Len(queue'), i # j
        PROVE  queue'[i].client # queue'[j].client
    <2>1. i \in Int /\ j \in Int /\ i + 1 # j + 1
      BY <1>2, <1>3
    <2>2. i + 1 \in 1..Len(queue) /\ j + 1 \in 1..Len(queue)
      BY <1>1
    <2>3. queue[i + 1].client # queue[j + 1].client
      BY <2>1, <2>2 DEF Distinct
    <2>. QED
      BY <1>1, <2>3
  <1>4. ASSUME NEW i \in 1..Len(queue')
        PROVE  /\ queue'[i].client \notin toCome
               /\ queue'[i].client # worker.client
               /\ queue'[i].client # queue[1].client
    <2>1. i + 1 # 1
      BY <1>2
    <2>2. i + 1 \in 1..Len(queue) /\ queue'[i] = queue[i + 1]
      BY <1>1
    <2>. QED
      BY <1>1, <2>1, <2>2 DEF Distinct
  <1>. QED
    BY <1>1, <1>3, <1>4 DEF Distinct

\* The vehicles stay apart.
LEMMA DistinctStep ==
  ASSUME TypeOK, Distinct, Next
  PROVE  Distinct'
  <1>0. queue \in Seq(Entries)
    BY DEF TypeOK, Entries
  <1>1. CASE \/ StartUdp \/ StartUdpFails \/ StartTcp \/ StartTcpFails
             \/ Stop \/ CloseServers \/ Clear
    BY <1>1 DEF StartUdp, StartUdpFails, StartTcp, StartTcpFails, Stop, CloseServers,
                Clear, Distinct
  <1>2. ASSUME NEW client \in Clients, HandOff(client)
        PROVE  Distinct'
    <2>1. LowestOf(Free) \in Fds
      BY <1>2, LowestWasClosed DEF HandOff
    <2> DEFINE entry == [fd |-> LowestOf(Free), client |-> client]
    <2>2. entry \in Entries /\ entry.client = client
      BY <2>1 DEF Entries
    <2>3. queue' = Append(queue, entry)
      BY <1>2 DEF HandOff
    <2>. HIDE DEF entry
    <2>4. /\ Len(queue) \in Nat
          /\ \A i \in 1..Len(queue') : \/ i \in 1..Len(queue) /\ queue'[i] = queue[i]
                                       \/ i = Len(queue) + 1 /\ queue'[i] = entry
      BY <1>0, <2>2, <2>3, GrownQueue
    <2>5. client \in toCome /\ toCome' = toCome \ {client} /\ worker' = worker
      BY <1>2 DEF HandOff, Accepts
    <2>. QED
      BY <2>2, <2>4, <2>5 DEF Distinct
  <1>3. ASSUME NEW client \in Clients, Drop(client)
        PROVE  Distinct'
    BY <1>3 DEF Drop, Accepts, Distinct
  <1>4. CASE Drain
    <2>1. CASE queue = <<>>
      BY <1>4, <2>1 DEF Drain, Distinct
    <2>2. CASE queue # <<>>
      <3>1. toCome' = toCome /\ worker' = worker /\ queue' = Tail(queue)
        BY <1>4, <2>2 DEF Drain
      <3>2. worker.client \notin toCome
        BY DEF Distinct
      <3>. QED
        BY <1>0, <2>2, <3>1, <3>2, TailApart DEF Distinct
    <2>. QED
      BY <2>1, <2>2
  <1>5. CASE Take
    <2>1. toCome' = toCome /\ queue # <<>> /\ queue' = Tail(queue)
      BY <1>5 DEF Take
    <2>2. worker'.client = queue[1].client
      BY <1>0, <1>5, <2>1, TailApart DEF Take
    <2>. QED
      BY <1>0, <2>1, <2>2, TailApart DEF Distinct
  <1>6. CASE Refuse \/ CloseClient
    <2>1. worker'.client = Nobody /\ toCome' = toCome /\ queue' = queue
      BY <1>6 DEF Refuse, CloseClient, Idle
    <2>2. \A i \in 1..Len(queue) : queue[i].client \in Clients
      <3>1. TAKE i \in 1..Len(queue)
      <3>2. queue[i] \in Entries
        BY <1>0, ElementOfSeq
      <3>. QED
        BY <3>2 DEF Entries
    <2>3. toCome \subseteq Clients
      BY DEF TypeOK
    <2>. QED
      BY <2>1, <2>2, <2>3, NobodyIsNoClient DEF Distinct
  <1>7. CASE Serve \/ Leave \/ PlainEnds \/ TlsEnds
    <2>1. worker'.client = worker.client /\ toCome' = toCome /\ queue' = queue
      BY <1>7 DEF Serve, Leave, PlainEnds, TlsEnds, TypeOK, Idle
    <2>. QED
      BY <2>1 DEF Distinct
  <1>. QED
    BY <1>1, <1>2, <1>3, <1>4, <1>5, <1>6, <1>7 DEF Next, Main, Worker

\* What g_secc holds follows its life.
LEMMA ServersStep ==
  ASSUME TypeOK, Servers, Next
  PROVE  Servers'
  <1>. USE DEF TypeOK
  <1>1. CASE StartUdp
    BY <1>1, LowestWasClosed DEF StartUdp, Servers
  <1>2. CASE StartTcp \/ StartTcpFails \/ StartUdpFails \/ Stop
    BY <1>2 DEF StartTcp, StartTcpFails, StartUdpFails, Stop, Servers
  <1>3. CASE CloseServers
    BY <1>3, ClosedType DEF CloseServers, Servers
  <1>4. CASE Clear
    BY <1>4 DEF Clear, Servers
  <1>5. CASE \E client \in Clients : HandOff(client) \/ Drop(client)
    BY <1>5 DEF HandOff, Drop, Accepts, Servers
  <1>6. CASE Drain
    BY <1>6, ClosedType DEF Drain, Servers
  <1>7. CASE Take \/ Serve \/ Leave \/ PlainEnds
    BY <1>7 DEF Take, Serve, Leave, PlainEnds, Servers
  <1>8. CASE Refuse \/ TlsEnds \/ CloseClient
    <2>1. \A fd \in Fds : socket[fd] = "closed" => socket'[fd] = "closed"
      BY <1>8, ClosedType DEF Refuse, TlsEnds, CloseClient, WorkerCloses
    <2>. QED
      BY <1>8, <2>1 DEF Refuse, TlsEnds, CloseClient, Servers
  <1>. QED
    BY <1>1, <1>2, <1>3, <1>4, <1>5, <1>6, <1>7, <1>8 DEF Next, Main, Worker

\* What waits and what is served are vehicles.
LEMMA Vehicles ==
  ASSUME TypeOK
  PROVE  /\ \A i \in 1..Len(queue) : queue[i].fd \in Fds /\ queue[i].client \in Clients
         /\ worker.pc \in {"check", "serve", "close"} =>
              worker.fd \in Fds /\ worker.client \in Clients
         /\ \A client \in Clients : client \notin {"closed", "udp", "tcp"}
  <1>1. ASSUME NEW i \in 1..Len(queue)
        PROVE  queue[i].fd \in Fds /\ queue[i].client \in Clients
    <2>1. queue[i] \in Entries
      BY ElementOfSeq DEF TypeOK, Entries
    <2>. QED
      BY <2>1 DEF Entries
  <1>2. worker.pc \in {"check", "serve", "close"} =>
          worker.fd \in Fds /\ worker.client \in Clients
    BY DEF TypeOK, Idle
  <1>3. \A client \in Clients : client \notin {"closed", "udp", "tcp"}
    BY ClientsAssumption
  <1>. QED
    BY <1>1, <1>2, <1>3

\* Starting the stack takes numbers that nobody holds.
LEMMA OwnedStart ==
  ASSUME IInv, Owned, StartUdp \/ StartUdpFails \/ StartTcp \/ StartTcpFails
  PROVE  Owned'
  <1>. USE DEF IInv, QueueInv
  <1>1. ~ready /\ 1..Len(queue) = {} /\ queue' = queue /\ worker' = worker
    <2>1. ~ready /\ queue' = queue /\ worker' = worker
      BY DEF TypeOK, StartUdp, StartUdpFails, StartTcp, StartTcpFails
    <2>2. queue = <<>> /\ Len(<<>>) = 0
      BY <2>1, EmptySeq DEF QueueDiesWithItsStack
    <2>. QED
      BY <2>1, <2>2
  <1>2. worker.pc \in {"check", "serve"} =>
          worker.fd \in Fds /\ socket[worker.fd] \in Clients
    BY Vehicles DEF Owned
  <1>3. CASE StartUdp
    <2>1. LowestOf(Free) \in Fds /\ socket[LowestOf(Free)] = "closed"
      BY <1>3, LowestWasClosed DEF StartUdp
    <2>2. /\ socket' = [socket EXCEPT ![LowestOf(Free)] = "udp"]
          /\ secc'.udp = LowestOf(Free) /\ main' = "bound" /\ ready' = ready
      BY <1>3 DEF StartUdp, Open
    <2>. QED
      BY <1>1, <1>2, <2>1, <2>2, Vehicles DEF Owned, TypeOK
  <1>4. CASE StartTcp
    <2>1. LowestOf(Free) \in Fds /\ socket[LowestOf(Free)] = "closed"
      BY <1>4, LowestWasClosed DEF StartTcp
    <2>2. /\ socket' = [socket EXCEPT ![LowestOf(Free)] = "tcp"]
          /\ secc'.udp = secc.udp /\ secc'.tcp = LowestOf(Free)
          /\ main = "bound" /\ main' = "loop"
      BY <1>4 DEF StartTcp, Open, TypeOK
    <2>3. socket[secc.udp] = "udp" /\ secc.udp \in Fds
      BY <2>2 DEF Owned, Servers
    <2>. QED
      BY <1>1, <1>2, <2>1, <2>2, <2>3, Vehicles DEF Owned, TypeOK
  <1>5. CASE StartUdpFails \/ StartTcpFails
    BY <1>1, <1>5 DEF StartUdpFails, StartTcpFails, Owned
  <1>. QED
    BY <1>3, <1>4, <1>5

\* Stopping the stack closes its own two sockets.
LEMMA OwnedStop ==
  ASSUME IInv, Owned, Stop \/ CloseServers \/ Clear
  PROVE  Owned'
  <1>. USE DEF IInv, QueueInv
  <1>1. CASE Stop \/ Clear
    BY <1>1 DEF Stop, Clear, Owned
  <1>2. CASE CloseServers
    <2>1. queue' = queue /\ worker' = worker /\ main = "close" /\ main' = "clear"
      BY <1>2 DEF CloseServers
    <2>2. ready /\ socket[secc.tcp] = "tcp" /\ socket[secc.udp] = "udp"
      BY <2>1 DEF Owned, TypeOK
    <2>3. \A fd \in Fds : socket[fd] \in Clients => socket'[fd] = socket[fd]
      BY <1>2, <2>2, ClosedType, ClientsAssumption DEF CloseServers, TypeOK
    <2>4. \A i \in 1..Len(queue) : socket'[queue[i].fd] = queue[i].client
      BY <2>3, Vehicles DEF Owned
    <2>. QED
      BY <2>1, <2>3, <2>4, Vehicles DEF Owned
  <1>. QED
    BY <1>1, <1>2

\* Accepting a connection takes a number that nobody holds.
LEMMA OwnedAccept ==
  ASSUME IInv, Owned, NEW client \in Clients, HandOff(client)
  PROVE  Owned'
  <1>. USE DEF IInv, QueueInv
  <1>0. queue \in Seq(Entries)
    BY DEF TypeOK, Entries
  <1>1. LowestOf(Free) \in Fds /\ socket[LowestOf(Free)] = "closed"
    BY LowestWasClosed DEF HandOff
  <1> DEFINE entry == [fd |-> LowestOf(Free), client |-> client]
  <1>2. entry \in Entries /\ entry.client = client /\ entry.fd = LowestOf(Free)
    BY <1>1 DEF Entries
  <1>3. queue' = Append(queue, entry)
    BY DEF HandOff
  <1>. HIDE DEF entry
  <1>4. \A i \in 1..Len(queue') : \/ i \in 1..Len(queue) /\ queue'[i] = queue[i]
                                  \/ i = Len(queue) + 1 /\ queue'[i] = entry
    BY <1>0, <1>2, <1>3, GrownQueue
  <1>5. /\ socket' = [socket EXCEPT ![LowestOf(Free)] = client]
        /\ secc' = secc /\ ready' = ready /\ ready /\ main = "loop"
        /\ main' = main /\ worker' = worker
    BY DEF HandOff, Accepts, Open
  <1>6. \A fd \in Fds : socket[fd] # "closed" => socket'[fd] = socket[fd]
    BY <1>1, <1>5 DEF TypeOK
  <1>7. socket'[LowestOf(Free)] = client
    BY <1>1, <1>5 DEF TypeOK
  <1>8. ASSUME NEW i \in 1..Len(queue')
        PROVE  socket'[queue'[i].fd] = queue'[i].client
    <2>1. CASE i \in 1..Len(queue) /\ queue'[i] = queue[i]
      BY <1>6, <2>1, Vehicles DEF Owned
    <2>2. CASE queue'[i] = entry
      BY <1>2, <1>7, <2>2
    <2>. QED
      BY <1>4, <2>1, <2>2
  <1>9. worker.pc \in {"check", "serve"} => socket'[worker.fd] = worker.client
    BY <1>6, Vehicles DEF Owned
  <1>10. socket'[secc.tcp] = "tcp" /\ socket'[secc.udp] = "udp"
    <2>1. secc.tcp \in Fds /\ secc.udp \in Fds
      BY <1>5 DEF Servers, TypeOK
    <2>2. socket[secc.tcp] = "tcp" /\ socket[secc.udp] = "udp"
      BY <1>5 DEF Owned
    <2>. QED
      BY <1>6, <2>1, <2>2
  <1>. QED
    BY <1>5, <1>8, <1>9, <1>10 DEF Owned

\* Draining closes the number of the one vehicle that leaves the queue.
LEMMA OwnedDrain ==
  ASSUME IInv, Owned, Drain
  PROVE  Owned'
  <1>. USE DEF IInv, QueueInv
  <1>0. queue \in Seq(Entries)
    BY DEF TypeOK, Entries
  <1>1. CASE queue = <<>>
    BY <1>1, Vehicles DEF Drain, Owned
  <1>2. CASE queue # <<>>
    <2>1. /\ queue' = Tail(queue) /\ socket' = Closed({Head(queue).fd})
          /\ worker' = worker /\ secc' = secc /\ ready' = ready
          /\ main = "drain" /\ main' = main
      BY <1>2 DEF Drain
    <2>2. /\ 1 \in 1..Len(queue) /\ Head(queue) = queue[1]
          /\ \A i \in 1..Len(queue') : i + 1 \in 1..Len(queue) /\ queue'[i] = queue[i + 1]
      BY <1>0, <1>2, <2>1, TailOfQueue
    <2>3. /\ queue[1].fd \in Fds /\ queue[1].client \in Clients
          /\ socket[queue[1].fd] = queue[1].client
      BY <2>2, Vehicles DEF Owned
    <2>4. \A fd \in Fds : socket[fd] # queue[1].client => socket'[fd] = socket[fd]
      BY <2>1, <2>2, <2>3, ClosedType DEF TypeOK
    <2>5. ASSUME NEW i \in 1..Len(queue')
          PROVE  socket'[queue'[i].fd] = queue'[i].client
      <3>1. queue'[i].client # queue[1].client
        BY <1>0, <1>2, <2>1, TailApart
      <3>2. queue'[i].fd \in Fds /\ socket[queue'[i].fd] = queue'[i].client
        BY <2>2, Vehicles DEF Owned
      <3>. QED
        BY <2>4, <3>1, <3>2
    <2>6. worker.pc \in {"check", "serve"} => socket'[worker.fd] = worker.client
      BY <2>2, <2>4, Vehicles DEF Owned, Distinct
    <2>7. ready => socket'[secc.tcp] = "tcp" /\ socket'[secc.udp] = "udp"
      <3>1. ready => secc.tcp \in Fds /\ secc.udp \in Fds
        BY DEF Servers, TypeOK
      <3>2. ready => socket[secc.tcp] = "tcp" /\ socket[secc.udp] = "udp"
        BY <2>1 DEF Owned
      <3>. QED
        BY <2>3, <2>4, <3>1, <3>2, Vehicles
    <2>. QED
      BY <2>1, <2>5, <2>6, <2>7 DEF Owned
  <1>. QED
    BY <1>1, <1>2

\* The worker takes a vehicle with its number, and closes only that number
\* while it has not strayed.
LEMMA OwnedWorker ==
  ASSUME IInv, Owned, Worker, ~strayed'
  PROVE  Owned'
  <1>. USE DEF IInv, QueueInv
  <1>0. queue \in Seq(Entries)
    BY DEF TypeOK, Entries
  <1>1. CASE Take
    <2>1. /\ queue # <<>> /\ queue' = Tail(queue) /\ socket' = socket
          /\ worker' = [pc |-> "check", fd |-> Head(queue).fd, client |-> Head(queue).client]
          /\ secc' = secc /\ ready' = ready /\ main' = main
      BY <1>1 DEF Take
    <2>2. /\ 1 \in 1..Len(queue) /\ Head(queue) = queue[1]
          /\ \A i \in 1..Len(queue') : i + 1 \in 1..Len(queue) /\ queue'[i] = queue[i + 1]
      BY <1>0, <2>1, TailOfQueue
    <2>. QED
      BY <2>1, <2>2 DEF Owned
  <1>2. CASE Serve
    BY <1>2 DEF Serve, Owned, TypeOK, Idle
  <1>3. CASE PlainEnds
    BY <1>3 DEF PlainEnds, Owned, TypeOK, Idle
  <1>4. CASE Refuse \/ TlsEnds \/ CloseClient
    <2>1. /\ socket' = Closed({worker.fd}) /\ queue' = queue
          /\ secc' = secc /\ ready' = ready /\ main' = main
          /\ worker'.pc \notin {"check", "serve"}
      BY <1>4 DEF Refuse, TlsEnds, CloseClient, WorkerCloses, Idle, TypeOK
    <2>2. /\ socket[worker.fd] \in {"closed", worker.client}
          /\ worker.fd \in Fds /\ worker.client \in Clients
      BY <1>4, Vehicles DEF Refuse, TlsEnds, CloseClient, WorkerCloses
    <2>3. \A fd \in Fds : socket[fd] \notin {"closed", worker.client} => socket'[fd] = socket[fd]
      BY <2>1, <2>2, ClosedType DEF TypeOK
    <2>4. ASSUME NEW i \in 1..Len(queue)
          PROVE  socket'[queue[i].fd] = queue[i].client
      <3>1. queue[i].client # worker.client
        BY DEF Distinct
      <3>2. /\ queue[i].fd \in Fds /\ queue[i].client # "closed"
            /\ socket[queue[i].fd] = queue[i].client
        BY Vehicles DEF Owned
      <3>. QED
        BY <2>3, <3>1, <3>2
    <2>5. main = "bound" => socket'[secc.udp] = "udp"
      BY <2>2, <2>3, Vehicles DEF Owned, Servers
    <2>6. ready /\ main \in {"loop", "drain", "close"} =>
            socket'[secc.tcp] = "tcp" /\ socket'[secc.udp] = "udp"
      <3>1. ready => secc.tcp \in Fds /\ secc.udp \in Fds
        BY DEF Servers, TypeOK
      <3>. QED
        BY <2>2, <2>3, <3>1, Vehicles DEF Owned
    <2>. QED
      BY <2>1, <2>4, <2>5, <2>6 DEF Owned
  <1>. QED
    BY <1>1, <1>2, <1>3, <1>4 DEF Worker

\* Every step keeps the invariant; a worker that has strayed never repents.
LEMMA OwnerStep == IInv /\ [Next]_vars => IInv'
  <1>1. ASSUME IInv, UNCHANGED vars
        PROVE  IInv'
    BY <1>1 DEF IInv, QueueInv, TypeOK, QueueDiesWithItsStack, Distinct, Servers, Owned, vars
  <1>2. ASSUME IInv, Next
        PROVE  IInv'
    <2>1. QueueInv'
      BY <1>2, QueueStep DEF IInv
    <2>2. Distinct' /\ Servers'
      BY <1>2, DistinctStep, ServersStep DEF IInv, QueueInv
    <2>3. ASSUME ~strayed'
          PROVE  Owned'
      <3>1. ~strayed
        BY <1>2, <2>3 DEF Next, Main, Worker, StartUdp, StartUdpFails, StartTcp, StartTcpFails,
          HandOff, Drop, Stop, Drain, CloseServers, Clear, Take, Refuse, Serve, Leave,
          PlainEnds, TlsEnds, CloseClient, WorkerCloses
      <3>2. Owned
        BY <1>2, <3>1 DEF IInv
      <3>3. ASSUME NEW client \in Clients, Drop(client)
            PROVE  Owned'
        BY <3>2, <3>3 DEF Drop, Owned
      <3>4. CASE Leave
        BY <3>2, <3>4 DEF Leave, Owned
      <3>. QED
        BY <1>2, <2>3, <3>2, <3>3, <3>4, OwnedStart, OwnedStop, OwnedAccept, OwnedDrain, OwnedWorker
        DEF Next, Main
    <2>. QED
      BY <2>1, <2>2, <2>3 DEF IInv
  <1>. QED
    BY <1>1, <1>2

\* As long as the worker has closed no socket but its vehicle's, every number
\* that is waited with, served or listened on stands for what its user takes
\* it for (main.cpp; two tasks close and reuse numbers).
THEOREM SocketsKept == Spec => []SocketsStayTheirs
  <1>1. IInv => SocketsStayTheirs
    BY DEF IInv, Owned, SocketsStayTheirs
  <1>. QED
    BY <1>1, OwnerInit, OwnerStep, PTL DEF Spec

-------------------------------------------------------------------------------

(* Nothing open is forgotten. *)

HolderInv == TypeOK /\ Servers /\ EverySocketHasAHolder

\* The numbers of the queue before and behind its first entry.
LEMMA WaitingBehind ==
  ASSUME TypeOK, queue # <<>>, queue' = Tail(queue)
  PROVE  Waiting \subseteq {Head(queue).fd} \cup Waiting'
  <1>0. queue \in Seq(Entries)
    BY DEF TypeOK, Entries
  <1>1. SUFFICES ASSUME NEW i \in 1..Len(queue), queue[i].fd # Head(queue).fd
                 PROVE  \E j \in 1..Len(queue') : queue'[j].fd = queue[i].fd
    BY DEF Waiting
  <1>2. /\ 1 \in 1..Len(queue) /\ Head(queue) = queue[1]
        /\ Len(queue') = Len(queue) - 1 /\ Len(queue) \in Nat
        /\ \A j \in 1..Len(queue') : queue'[j] = queue[j + 1]
    BY <1>0, TailOfQueue, LenProperties
  <1>3. i # 1
    BY <1>1, <1>2
  <1>4. i - 1 \in 1..Len(queue') /\ (i - 1) + 1 = i
    BY <1>2, <1>3
  <1>5. queue'[i - 1] = queue[i]
    BY <1>2, <1>4
  <1>. QED
    BY <1>4, <1>5

\* An accepted connection is waited with.
LEMMA WaitingAfterAccept ==
  ASSUME TypeOK, NEW client \in Clients, HandOff(client)
  PROVE  Waiting \cup {LowestOf(Free)} \subseteq Waiting'
  <1>0. queue \in Seq(Entries)
    BY DEF TypeOK, Entries
  <1> DEFINE entry == [fd |-> LowestOf(Free), client |-> client]
  <1>1. entry \in Entries /\ entry.fd = LowestOf(Free) /\ queue' = Append(queue, entry)
    BY LowestWasClosed DEF HandOff, Entries
  <1>. HIDE DEF entry
  <1>2. /\ \A i \in 1..Len(queue) : i \in 1..Len(queue') /\ queue'[i] = queue[i]
        /\ Len(queue) + 1 \in 1..Len(queue') /\ queue'[Len(queue) + 1] = entry
    BY <1>0, <1>1, AppendProperties, LenProperties
  <1>. QED
    BY <1>1, <1>2 DEF Waiting

\* Every step leaves what is open with somebody.
LEMMA HolderStep == HolderInv /\ [Next]_vars => HolderInv'
  <1>0. ASSUME HolderInv, UNCHANGED vars
        PROVE  HolderInv'
    BY <1>0 DEF HolderInv, TypeOK, Servers, EverySocketHasAHolder, Waiting, vars
  <1>. SUFFICES ASSUME HolderInv, Next
                PROVE  HolderInv'
    BY <1>0
  <1>. USE DEF HolderInv
  <1>1. TypeOK' /\ Servers'
    BY StackType, ConnectionType, WorkerType, ServersStep DEF Next, Main
  <1>2. SUFFICES ASSUME NEW fd \in Fds, socket'[fd] # "closed"
                 PROVE  \/ fd \in {secc'.udp, secc'.tcp} \/ fd \in lost'
                        \/ fd \in Waiting' \/ fd = worker'.fd
    BY <1>1 DEF EverySocketHasAHolder
  <1>3. \/ socket[fd] = "closed"
        \/ fd \in {secc.udp, secc.tcp} \/ fd \in lost \/ fd \in Waiting \/ fd = worker.fd
    BY DEF EverySocketHasAHolder
  <1>4. fd # None
    BY SocketsAssumption DEF Fds, None
  <1>5. UNCHANGED queue => Waiting' = Waiting
    BY DEF Waiting
  <1>6. CASE StartUdp
    <2>1. secc.tcp = None /\ worker' = worker /\ Waiting' = Waiting /\ lost' = lost \cup Forgotten
      BY <1>5, <1>6 DEF StartUdp, Servers
    <2>2. secc'.udp = LowestOf(Free) /\ (socket[fd] # "closed" \/ fd = LowestOf(Free))
      BY <1>2, <1>6 DEF StartUdp, Open, TypeOK
    <2>. QED
      BY <1>3, <1>4, <2>1, <2>2 DEF Forgotten
  <1>7. CASE StartUdpFails
    BY <1>2, <1>3, <1>4, <1>5, <1>7 DEF StartUdpFails, Forgotten, Servers
  <1>8. CASE StartTcp
    <2>1. secc.tcp = None
      BY <1>8 DEF StartTcp, Servers, TypeOK
    <2>2. /\ secc'.udp = secc.udp /\ secc'.tcp = LowestOf(Free)
          /\ (socket[fd] # "closed" \/ fd = LowestOf(Free))
      BY <1>2, <1>8 DEF StartTcp, Open, TypeOK
    <2>. QED
      BY <1>3, <1>4, <1>5, <1>8, <2>1, <2>2 DEF StartTcp
  <1>9. CASE StartTcpFails \/ Stop
    BY <1>2, <1>3, <1>5, <1>9 DEF StartTcpFails, Stop
  <1>10. ASSUME NEW client \in Clients, HandOff(client) \/ Drop(client)
         PROVE  \/ fd \in {secc'.udp, secc'.tcp} \/ fd \in lost'
                \/ fd \in Waiting' \/ fd = worker'.fd
    <2>1. CASE HandOff(client)
      <3>1. socket[fd] # "closed" \/ fd = LowestOf(Free)
        BY <1>2, <2>1 DEF HandOff, Open, TypeOK
      <3>. QED
        BY <1>3, <2>1, <3>1, WaitingAfterAccept DEF HandOff
    <2>. QED
      BY <1>2, <1>3, <1>5, <1>10, <2>1 DEF Drop
  <1>11. CASE Drain
    <2>1. CASE queue = <<>>
      BY <1>2, <1>3, <1>5, <1>11, <2>1 DEF Drain
    <2>2. CASE queue # <<>>
      <3>1. fd # Head(queue).fd /\ socket[fd] # "closed"
        BY <1>2, <1>11, <2>2, ClosedType DEF Drain, TypeOK
      <3>2. Waiting \subseteq {Head(queue).fd} \cup Waiting'
        BY <1>11, <2>2, WaitingBehind DEF Drain
      <3>. QED
        BY <1>3, <1>11, <3>1, <3>2 DEF Drain
    <2>. QED
      BY <2>1, <2>2
  <1>12. CASE CloseServers
    <2>1. socket[fd] # "closed"
      BY <1>2, <1>12, ClosedType DEF CloseServers, TypeOK
    <2>. QED
      BY <1>3, <1>5, <1>12, <2>1 DEF CloseServers
  <1>13. CASE Clear
    BY <1>2, <1>3, <1>5, <1>13 DEF Clear, Servers
  <1>14. CASE Take
    <2>1. Waiting \subseteq {Head(queue).fd} \cup Waiting'
      BY <1>14, WaitingBehind DEF Take
    <2>2. worker.fd = None
      BY <1>14 DEF Take, TypeOK, Idle
    <2>3. worker'.fd = Head(queue).fd /\ secc' = secc /\ lost' = lost /\ socket' = socket
      BY <1>14 DEF Take
    <2>. QED
      BY <1>2, <1>3, <1>4, <2>1, <2>2, <2>3
  <1>15. CASE Serve \/ Leave \/ PlainEnds
    <2>1. worker'.fd = worker.fd
      BY <1>15 DEF Serve, Leave, PlainEnds, TypeOK, Idle
    <2>. QED
      BY <1>2, <1>3, <1>5, <1>15, <2>1 DEF Serve, Leave, PlainEnds
  <1>16. CASE Refuse \/ TlsEnds \/ CloseClient
    <2>1. fd # worker.fd /\ socket[fd] # "closed"
      BY <1>2, <1>16, ClosedType DEF Refuse, TlsEnds, CloseClient, WorkerCloses, TypeOK
    <2>. QED
      BY <1>3, <1>5, <1>16, <2>1 DEF Refuse, TlsEnds, CloseClient
  <1>. QED
    BY <1>6, <1>7, <1>8, <1>9, <1>10, <1>11, <1>12, <1>13, <1>14, <1>15, <1>16
    DEF Next, Main, Worker

\* Every open socket can still be closed by a stop, by the worker or through
\* the queue, whatever the worker did to sockets that were not its own; only
\* the SDP socket of a failed start is beyond reach (main.cpp).
THEOREM SocketsAreHeld == Spec => []EverySocketHasAHolder
  <1>1. Init => HolderInv
    BY TypeInit DEF Init, HolderInv, Servers, EverySocketHasAHolder
  <1>2. HolderInv => EverySocketHasAHolder
    BY DEF HolderInv
  <1>. QED
    BY <1>1, <1>2, HolderStep, PTL DEF Spec

-------------------------------------------------------------------------------

(* The cause of a stray close.  That the worker closes another's socket is what
   a run finds (CloseIsOfOwnSocket, over TLS); here is that nothing else than
   the descriptor closed twice on the TLS route leads to it. *)

\* No vehicle begins with a TLS ClientHello.
PlainStreams == [][~TlsEnds]_vars

\* No close has gone astray, and the worker's number is its vehicle's.
PlainInv ==
  /\ IInv
  /\ ~strayed
  /\ worker.pc # "idle" => socket[worker.fd] = worker.client

\* Nothing the main loop does touches the socket of the vehicle being served.
LEMMA ServedIsKept ==
  ASSUME IInv, Owned, Main, worker.pc # "idle", socket[worker.fd] = worker.client
  PROVE  worker' = worker /\ socket'[worker.fd] = worker.client
  <1>. USE DEF IInv, QueueInv
  <1>0. /\ worker.fd \in Fds /\ worker.client \in Clients
        /\ worker.client \notin {"closed", "udp", "tcp"}
    BY Vehicles DEF TypeOK, Idle
  <1>1. CASE StartUdp \/ StartTcp
    <2>1. LowestOf(Free) \in Fds /\ socket[LowestOf(Free)] = "closed"
      BY <1>1, LowestWasClosed DEF StartUdp, StartTcp
    <2>. QED
      BY <1>0, <1>1, <2>1 DEF StartUdp, StartTcp, Open, TypeOK
  <1>2. CASE StartUdpFails \/ StartTcpFails \/ Stop \/ Clear
    BY <1>2 DEF StartUdpFails, StartTcpFails, Stop, Clear
  <1>3. ASSUME NEW client \in Clients, HandOff(client) \/ Drop(client)
        PROVE  worker' = worker /\ socket'[worker.fd] = worker.client
    <2>1. CASE HandOff(client)
      <3>1. LowestOf(Free) \in Fds /\ socket[LowestOf(Free)] = "closed"
        BY <2>1, LowestWasClosed DEF HandOff
      <3>. QED
        BY <1>0, <2>1, <3>1 DEF HandOff, Open, TypeOK
    <2>. QED
      BY <1>3, <2>1 DEF Drop
  <1>4. CASE Drain
    <2>1. CASE queue = <<>>
      BY <1>4, <2>1 DEF Drain
    <2>2. CASE queue # <<>>
      <3>1. queue \in Seq(Entries)
        BY DEF TypeOK, Entries
      <3>2. 1 \in 1..Len(queue) /\ Head(queue) = queue[1]
        BY <2>2, <3>1, TailOfQueue
      <3>3. socket[Head(queue).fd] = Head(queue).client /\ Head(queue).client # worker.client
        BY <3>2 DEF Owned, Distinct
      <3>4. worker' = worker /\ socket' = Closed({Head(queue).fd})
        BY <1>4, <2>2 DEF Drain
      <3>. QED
        BY <1>0, <3>3, <3>4, ClosedType DEF TypeOK
    <2>. QED
      BY <2>1, <2>2
  <1>5. CASE CloseServers
    <2>1. socket[secc.tcp] = "tcp" /\ socket[secc.udp] = "udp"
      BY <1>5 DEF CloseServers, Owned, TypeOK
    <2>. QED
      BY <1>0, <1>5, <2>1, ClosedType DEF CloseServers, TypeOK
  <1>. QED
    BY <1>1, <1>2, <1>3, <1>4, <1>5 DEF Main

\* A worker that only runs plaintext streams closes its own vehicle's socket.
LEMMA PlainStep == PlainInv /\ [Next]_vars /\ [~TlsEnds]_vars => PlainInv'
  <1>1. ASSUME PlainInv, UNCHANGED vars
        PROVE  PlainInv'
    BY <1>1, OwnerStep DEF PlainInv, vars
  <1>2. ASSUME PlainInv, Next, ~TlsEnds
        PROVE  PlainInv'
    <2>1. IInv' /\ Owned
      BY <1>2, OwnerStep DEF PlainInv, IInv
    <2>2. CASE Main
      <3>1. worker' = worker /\ strayed' = strayed
        BY <2>2 DEF Main, StartUdp, StartUdpFails, StartTcp, StartTcpFails, HandOff, Drop,
          Stop, Drain, CloseServers, Clear
      <3>. QED
        BY <1>2, <2>1, <2>2, <3>1, ServedIsKept DEF PlainInv
    <2>3. CASE Take
      <3>1. queue \in Seq(Entries) /\ queue # <<>>
        BY <1>2, <2>3 DEF PlainInv, IInv, QueueInv, TypeOK, Entries, Take
      <3>2. 1 \in 1..Len(queue) /\ Head(queue) = queue[1]
        BY <3>1, TailOfQueue
      <3>3. socket[queue[1].fd] = queue[1].client
        BY <2>1, <3>2 DEF Owned
      <3>. QED
        BY <1>2, <2>1, <2>3, <3>2, <3>3 DEF PlainInv, Take
    <2>4. CASE Serve \/ Leave \/ PlainEnds
      BY <1>2, <2>1, <2>4 DEF PlainInv, IInv, QueueInv, TypeOK, Serve, Leave, PlainEnds, Idle
    <2>5. CASE Refuse \/ CloseClient
      <3>1. worker' = Idle /\ worker.pc # "idle"
        BY <2>5 DEF Refuse, CloseClient
      <3>2. ~strayed /\ socket[worker.fd] = worker.client
        BY <1>2, <3>1 DEF PlainInv
      <3>3. strayed' = (strayed \/ socket[worker.fd] \notin {"closed", worker.client})
        BY <2>5 DEF Refuse, CloseClient, WorkerCloses
      <3>4. ~strayed'
        BY <3>2, <3>3, Zenon
      <3>. QED
        BY <2>1, <3>1, <3>4 DEF PlainInv, Idle
    <2>. QED
      BY <1>2, <2>2, <2>3, <2>4, <2>5 DEF Next, Worker
  <1>. QED
    BY <1>1, <1>2

\* As long as every stream is a plaintext one, the worker only ever closes the
\* socket of the vehicle it serves, however the stack is stopped and started
\* meanwhile (main.cpp, hlc_worker_task_main).
THEOREM PlainClosesAreOwn == Spec /\ PlainStreams => []CloseIsOfOwnSocket
  <1>1. Init => PlainInv
    BY OwnerInit DEF Init, PlainInv, Idle
  <1>2. PlainInv => CloseIsOfOwnSocket
    BY DEF PlainInv, CloseIsOfOwnSocket
  <1>. QED
    BY <1>1, <1>2, PlainStep, PTL DEF Spec, PlainStreams

-------------------------------------------------------------------------------

(* An accepted connection is given back.  That it is in the end needs the
   fairness of the worker, which stays with TLC; the steps themselves contribute
   a count of what the worker still has to do until then, which each of its
   steps lowers and nothing the main loop or a vehicle does raises. *)

\* The worker's steps until it is idle.
Stage ==
  CASE worker.pc = "idle"  -> 0
    [] worker.pc = "close" -> 1
    [] worker.pc = "serve" -> 2
    [] worker.pc = "check" -> 3

\* The worker is done with the vehicle in n of its steps at most: it takes each
\* entry of the queue, and is done with it in three more.
Within(client, n) ==
  \/ worker.client = client /\ Stage <= n
  \/ \E i \in 1..Len(queue) : queue[i].client = client /\ Stage + 4 * i <= n

\* The steps a full queue and a worker at the start of its round can take.
Reach == 4 * QueueDepth + 3

\* Every open vehicle is so many of the worker's steps from its release.
ReleaseIsInReach ==
  \A client \in Clients :
    Connected(client) => Within(client, Reach) /\ ~Within(client, 0)

\* A step of the worker brings every vehicle nearer, any other keeps it there.
ReleaseComesNearer ==
  [][\A client \in Clients : \A n \in Nat :
       Connected(client) /\ Within(client, n) =>
         \/ ~Connected(client)'
         \/ Within(client, n)' /\ (Worker => Within(client, n - 1)')]_vars

\* A vehicle's number is with the entry that waits for it, or with the worker.
HeldFor(fd, client) ==
  \/ \E i \in 1..Len(queue) : queue[i].fd = fd /\ queue[i].client = client
  \/ worker.fd = fd /\ worker.client = client

\* Every open vehicle's number is held for that vehicle.
HoldersKnown == \A fd \in Fds : socket[fd] \in Clients => HeldFor(fd, socket[fd])

ReleaseInv == TypeOK /\ Distinct /\ HoldersKnown

\* The count by the part of the worker's round.
LEMMA StageType ==
  ASSUME TypeOK
  PROVE  /\ Stage \in 0..3
         /\ worker.pc = "idle" => Stage = 0 /\ worker.client \notin Clients
         /\ worker.pc = "close" => Stage = 1
         /\ worker.pc = "serve" => Stage = 2
         /\ worker.pc = "check" => Stage = 3
         /\ worker.pc \in {"idle", "close", "serve", "check"}
  BY NobodyIsNoClient DEF TypeOK, Stage, Idle

\* The entries of a queue that has lost its first keep their order.
LEMMA EntryMovesUp ==
  ASSUME TypeOK, queue # <<>>, queue' = Tail(queue), NEW i \in 1..Len(queue), i # 1
  PROVE  i - 1 \in 1..Len(queue') /\ queue'[i - 1] = queue[i]
  <1>1. queue \in Seq(Entries)
    BY DEF TypeOK, Entries
  <1>2. /\ Len(queue) \in Nat /\ Len(queue') = Len(queue) - 1
        /\ \A j \in 1..Len(queue') : queue'[j] = queue[j + 1]
    BY <1>1, TailOfQueue, LenProperties
  <1>3. i - 1 \in 1..Len(queue') /\ (i - 1) + 1 = i
    BY <1>2
  <1>. QED
    BY <1>2, <1>3

\* A number is still known when a step leaves its entry, its holder and what it
\* stands for as they are.
LEMMA HeldStill ==
  ASSUME NEW fd, NEW client, HeldFor(fd, client), worker' = worker,
         \A i \in 1..Len(queue) :
           queue[i].fd = fd /\ queue[i].client = client =>
             \E j \in 1..Len(queue') : queue'[j] = queue[i]
  PROVE  HeldFor(fd, client)'
  BY DEF HeldFor

\* Every step of the main loop leaves the holders of what is connected known.
LEMMA MainHolders ==
  ASSUME ReleaseInv, Main
  PROVE  HoldersKnown'
  <1>. USE DEF ReleaseInv
  <1>0. \A client \in Clients : client \notin {"closed", "udp", "tcp"}
    BY Vehicles
  <1>1. SUFFICES ASSUME NEW fd \in Fds, NEW vehicle \in Clients, socket'[fd] = vehicle
                 PROVE  HeldFor(fd, vehicle)'
    BY DEF HoldersKnown
  <1>2. socket[fd] = vehicle => HeldFor(fd, vehicle)
    BY DEF HoldersKnown
  <1>3. CASE StartUdp \/ StartTcp
    <2>1. LowestOf(Free) \in Fds /\ socket[LowestOf(Free)] = "closed"
      BY <1>3, LowestWasClosed DEF StartUdp, StartTcp
    <2>2. socket'[fd] = socket[fd] /\ queue' = queue /\ worker' = worker
      BY <1>0, <1>1, <1>3, <2>1 DEF StartUdp, StartTcp, Open, TypeOK
    <2>. QED
      BY <1>1, <1>2, <2>2 DEF HeldFor
  <1>4. CASE StartUdpFails \/ StartTcpFails \/ Stop \/ Clear
    BY <1>1, <1>2, <1>4 DEF StartUdpFails, StartTcpFails, Stop, Clear, HeldFor
  <1>5. ASSUME NEW client \in Clients, HandOff(client)
        PROVE  HeldFor(fd, vehicle)'
    <2> DEFINE entry == [fd |-> LowestOf(Free), client |-> client]
    <2>1. /\ LowestOf(Free) \in Fds /\ socket[LowestOf(Free)] = "closed"
          /\ entry \in Entries /\ entry.fd = LowestOf(Free) /\ entry.client = client
          /\ queue' = Append(queue, entry) /\ worker' = worker
          /\ socket' = [socket EXCEPT ![LowestOf(Free)] = client]
      BY <1>5, LowestWasClosed DEF HandOff, Entries, Open
    <2>. HIDE DEF entry
    <2>2. /\ \A i \in 1..Len(queue) : i \in 1..Len(queue') /\ queue'[i] = queue[i]
          /\ Len(queue) + 1 \in 1..Len(queue') /\ queue'[Len(queue) + 1] = entry
      BY <2>1, AppendProperties, LenProperties DEF TypeOK, Entries
    <2>3. CASE fd = LowestOf(Free)
      <3>1. vehicle = client
        BY <1>1, <2>1, <2>3 DEF TypeOK
      <3>. QED
        BY <2>1, <2>2, <2>3, <3>1 DEF HeldFor
    <2>4. CASE fd # LowestOf(Free)
      <3>1. socket'[fd] = socket[fd]
        BY <2>1, <2>4 DEF TypeOK
      <3>. QED
        BY <1>1, <1>2, <2>1, <2>2, <3>1 DEF HeldFor
    <2>. QED
      BY <2>3, <2>4
  <1>6. ASSUME NEW client \in Clients, Drop(client)
        PROVE  HeldFor(fd, vehicle)'
    BY <1>1, <1>2, <1>6 DEF Drop, HeldFor
  <1>7. CASE Drain
    <2>1. CASE queue = <<>>
      BY <1>1, <1>2, <1>7, <2>1 DEF Drain, HeldFor
    <2>2. CASE queue # <<>>
      <3>1. queue' = Tail(queue) /\ worker' = worker /\ socket' = Closed({Head(queue).fd})
        BY <1>7, <2>2 DEF Drain
      <3>2. Head(queue) = queue[1]
        BY <2>2, TailOfQueue DEF TypeOK, Entries
      <3>3. socket'[fd] = socket[fd] /\ fd # queue[1].fd
        BY <1>0, <1>1, <3>1, <3>2, ClosedType DEF TypeOK
      <3>4. \A i \in 1..Len(queue) : queue[i].fd = fd =>
              \E j \in 1..Len(queue') : queue'[j] = queue[i]
        BY <2>2, <3>1, <3>3, EntryMovesUp
      <3>. QED
        BY <1>1, <1>2, <3>1, <3>3, <3>4, HeldStill
    <2>. QED
      BY <2>1, <2>2
  <1>8. CASE CloseServers
    <2>1. socket'[fd] = socket[fd] /\ queue' = queue /\ worker' = worker
      BY <1>0, <1>1, <1>8, ClosedType DEF CloseServers, TypeOK
    <2>. QED
      BY <1>1, <1>2, <2>1 DEF HeldFor
  <1>. QED
    BY <1>3, <1>4, <1>5, <1>6, <1>7, <1>8 DEF Main

\* So does every step of the worker, also when it strays, and a vehicle's leaving.
LEMMA WorkerHolders ==
  ASSUME ReleaseInv, Worker \/ Leave
  PROVE  HoldersKnown'
  <1>. USE DEF ReleaseInv
  <1>0. \A client \in Clients : client \notin {"closed", "udp", "tcp"}
    BY Vehicles
  <1>1. SUFFICES ASSUME NEW fd \in Fds, NEW vehicle \in Clients, socket'[fd] = vehicle
                 PROVE  HeldFor(fd, vehicle)'
    BY DEF HoldersKnown
  <1>2. socket[fd] = vehicle => HeldFor(fd, vehicle)
    BY DEF HoldersKnown
  <1>3. CASE Take
    <2>1. /\ queue # <<>> /\ queue' = Tail(queue) /\ socket' = socket /\ worker.pc = "idle"
          /\ worker'.fd = Head(queue).fd /\ worker'.client = Head(queue).client
      BY <1>3 DEF Take
    <2>2. Head(queue) = queue[1]
      BY <2>1, TailOfQueue DEF TypeOK, Entries
    <2>3. worker.client \notin Clients
      BY <2>1, StageType
    <2>4. PICK i \in 1..Len(queue) : queue[i].fd = fd /\ queue[i].client = vehicle
      BY <1>1, <1>2, <2>1, <2>3 DEF HeldFor
    <2>5. CASE i = 1
      BY <2>1, <2>2, <2>4, <2>5 DEF HeldFor
    <2>6. CASE i # 1
      BY <2>1, <2>4, <2>6, EntryMovesUp DEF HeldFor
    <2>. QED
      BY <2>5, <2>6
  <1>4. CASE Serve \/ Leave \/ PlainEnds
    <2>1. /\ socket' = socket /\ queue' = queue
          /\ worker'.fd = worker.fd /\ worker'.client = worker.client
      BY <1>4 DEF Serve, Leave, PlainEnds, TypeOK, Idle
    <2>. QED
      BY <1>1, <1>2, <2>1 DEF HeldFor
  <1>5. CASE Refuse \/ TlsEnds \/ CloseClient
    <2>1. socket' = Closed({worker.fd}) /\ queue' = queue
      BY <1>5 DEF Refuse, TlsEnds, CloseClient, WorkerCloses
    <2>2. socket'[fd] = socket[fd] /\ fd # worker.fd
      BY <1>0, <1>1, <2>1, ClosedType DEF TypeOK
    <2>. QED
      BY <1>1, <1>2, <2>1, <2>2 DEF HeldFor
  <1>. QED
    BY <1>3, <1>4, <1>5 DEF Worker

\* The initial states satisfy the invariant, and every step keeps it.
LEMMA ReleaseInvariant == Spec => []ReleaseInv
  <1>1. Init => ReleaseInv
    BY TypeInit, OwnerInit, ClientsAssumption DEF Init, ReleaseInv, HoldersKnown, IInv
  <1>2. ReleaseInv /\ [Next]_vars => ReleaseInv'
    <2>1. ASSUME ReleaseInv, UNCHANGED vars
          PROVE  ReleaseInv'
      BY <2>1 DEF ReleaseInv, TypeOK, Distinct, HoldersKnown, HeldFor, vars
    <2>2. ASSUME ReleaseInv, Next
          PROVE  ReleaseInv'
      BY <2>2, StackType, ConnectionType, WorkerType, DistinctStep, MainHolders, WorkerHolders
      DEF ReleaseInv, Next, Main
    <2>. QED
      BY <2>1, <2>2
  <1>. QED
    BY <1>1, <1>2, PTL DEF Spec

\* What is connected is with an entry of the queue, or with a worker that is not
\* idle, and there it is for none of the others.
LEMMA ConnectedIsHeld ==
  ASSUME ReleaseInv, NEW client \in Clients, NEW fd \in Fds, socket[fd] = client
  PROVE  \/ /\ worker.client = client /\ worker.fd = fd /\ worker.pc # "idle"
            /\ \A i \in 1..Len(queue) : queue[i].client # client
         \/ /\ \E i \in 1..Len(queue) : queue[i].fd = fd /\ queue[i].client = client
            /\ worker.client # client
  BY NobodyIsNoClient DEF ReleaseInv, HoldersKnown, HeldFor, Distinct, TypeOK, Idle

\* An entry of the queue that stays keeps its vehicle within reach.
LEMMA ReachKept ==
  ASSUME ReleaseInv, NEW client \in Clients, NEW n \in Nat, Within(client, n), Main \/ Leave
  PROVE  Within(client, n)' \/ ~Connected(client)'
  <1>. USE DEF ReleaseInv
  <1>0. queue \in Seq(Entries) /\ Len(queue) \in Nat /\ worker' = worker /\ Stage' = Stage
    BY LenProperties DEF TypeOK, Entries, Main, StartUdp, StartUdpFails, StartTcp,
      StartTcpFails, HandOff, Drop, Stop, Drain, CloseServers, Clear, Leave, Stage
  <1>1. CASE worker.client = client /\ Stage <= n
    BY <1>0, <1>1 DEF Within
  <1>2. ASSUME NEW i \in 1..Len(queue), queue[i].client = client, Stage + 4 * i <= n
        PROVE  Within(client, n)' \/ ~Connected(client)'
    <2>1. CASE UNCHANGED queue
      BY <1>0, <1>2, <2>1 DEF Within
    <2>2. ASSUME NEW other \in Clients, HandOff(other)
          PROVE  Within(client, n)'
      <3> DEFINE entry == [fd |-> LowestOf(Free), client |-> other]
      <3>1. entry \in Entries /\ queue' = Append(queue, entry)
        BY <2>2, LowestWasClosed DEF HandOff, Entries
      <3>. HIDE DEF entry
      <3>2. i \in 1..Len(queue') /\ queue'[i] = queue[i]
        BY <1>0, <3>1, AppendProperties, LenProperties
      <3>. QED
        BY <1>0, <1>2, <3>2 DEF Within
    <2>3. CASE Drain /\ queue # <<>>
      <3>1. queue' = Tail(queue) /\ socket' = Closed({Head(queue).fd})
        BY <2>3 DEF Drain
      <3>2. CASE i # 1
        <4>1. i - 1 \in 1..Len(queue') /\ queue'[i - 1] = queue[i]
          BY <2>3, <3>1, <3>2, EntryMovesUp
        <4>2. Stage' + 4 * (i - 1) <= n
          BY <1>0, <1>2, StageType
        <4>. QED
          BY <1>2, <4>1, <4>2 DEF Within
      <3>3. CASE i = 1
        <4>1. Head(queue) = queue[1]
          BY <1>0, <2>3, TailOfQueue
        <4>2. SUFFICES ASSUME NEW fd \in Fds, socket'[fd] = client
                       PROVE  FALSE
          BY DEF Connected
        <4>3. client # "closed"
          BY Vehicles
        <4>4. socket[fd] = client /\ fd # queue[1].fd
          BY <3>1, <4>1, <4>2, <4>3, ClosedType DEF TypeOK
        <4>5. PICK j \in 1..Len(queue) : queue[j].fd = fd /\ queue[j].client = client
          BY <1>2, <4>4, ConnectedIsHeld
        <4>6. j # 1 /\ queue[j].client = queue[1].client
          BY <1>2, <3>3, <4>4, <4>5
        <4>. QED
          BY <1>2, <3>3, <4>6 DEF Distinct
      <3>. QED
        BY <3>2, <3>3
    <2>. QED
      BY <2>1, <2>2, <2>3 DEF Main, StartUdp, StartUdpFails, StartTcp, StartTcpFails, Drop,
        Stop, Drain, CloseServers, Clear, Leave
  <1>. QED
    BY <1>1, <1>2 DEF Within

\* A step of the worker brings every vehicle that waits or is served nearer.
LEMMA ReachLowered ==
  ASSUME ReleaseInv, NEW client \in Clients, NEW n \in Nat, Within(client, n), Worker
  PROVE  Within(client, n - 1)' \/ ~Connected(client)'
  <1>. USE DEF ReleaseInv
  <1>0. queue \in Seq(Entries) /\ Len(queue) \in Nat
    BY LenProperties DEF TypeOK, Entries
  <1>1. CASE Take
    <2>1. /\ queue # <<>> /\ queue' = Tail(queue) /\ worker.pc = "idle"
          /\ worker'.client = Head(queue).client /\ worker'.pc = "check"
      BY <1>1 DEF Take
    <2>2. Head(queue) = queue[1] /\ Stage = 0 /\ Stage' = 3 /\ worker.client # client
      BY <1>0, <2>1, TailOfQueue, StageType DEF Stage
    <2>3. PICK i \in 1..Len(queue) : queue[i].client = client /\ Stage + 4 * i <= n
      BY <2>2 DEF Within
    <2>4. CASE i = 1
      BY <2>1, <2>2, <2>3, <2>4 DEF Within
    <2>5. CASE i # 1
      <3>1. i - 1 \in 1..Len(queue') /\ queue'[i - 1] = queue[i]
        BY <2>1, <2>5, EntryMovesUp
      <3>2. Stage' + 4 * (i - 1) <= n - 1
        BY <2>2, <2>3
      <3>. QED
        BY <2>3, <3>1, <3>2 DEF Within
    <2>. QED
      BY <2>4, <2>5
  <1>2. CASE Serve \/ PlainEnds \/ TlsEnds
    <2>1. queue' = queue /\ worker'.client = worker.client /\ Stage' = Stage - 1 /\ Stage \in 1..3
      BY <1>2, StageType DEF Serve, PlainEnds, TlsEnds, TypeOK, Idle, Stage
    <2>. QED
      BY <1>0, <2>1 DEF Within
  <1>3. CASE Refuse \/ CloseClient
    <2>1. /\ queue' = queue /\ worker' = Idle /\ Stage' = 0 /\ Stage \in 1..3
          /\ socket' = Closed({worker.fd}) /\ worker.pc # "idle"
      BY <1>3, StageType DEF Refuse, CloseClient, WorkerCloses, Stage, Idle
    <2>2. CASE worker.client = client
      <3>1. SUFFICES ASSUME NEW fd \in Fds, socket'[fd] = client
                     PROVE  FALSE
        BY DEF Connected
      <3>2. client # "closed"
        BY Vehicles
      <3>3. socket[fd] = client /\ fd # worker.fd
        BY <2>1, <3>1, <3>2, ClosedType DEF TypeOK
      <3>. QED
        BY <2>2, <3>3, ConnectedIsHeld
    <2>3. CASE worker.client # client
      <3>1. PICK i \in 1..Len(queue) : queue[i].client = client /\ Stage + 4 * i <= n
        BY <2>3 DEF Within
      <3>2. Stage' + 4 * i <= n - 1
        BY <1>0, <2>1, <3>1
      <3>. QED
        BY <2>1, <3>1, <3>2 DEF Within
    <2>. QED
      BY <2>2, <2>3
  <1>. QED
    BY <1>1, <1>2, <1>3 DEF Worker

\* A reach that is granted is granted with more steps as well.
LEMMA ReachGrows ==
  TypeOK => \A client \in Clients : \A n \in Nat : Within(client, n - 1) => Within(client, n)
  <1>. SUFFICES ASSUME TypeOK, NEW client \in Clients, NEW n \in Nat, Within(client, n - 1)
                PROVE  Within(client, n)
    OBVIOUS
  <1>1. Stage \in 0..3 /\ Len(queue) \in Nat
    BY StageType, LenProperties DEF TypeOK
  <1>2. CASE worker.client = client /\ Stage <= n - 1
    BY <1>1, <1>2 DEF Within
  <1>3. ASSUME NEW i \in 1..Len(queue), queue[i].client = client, Stage + 4 * i <= n - 1
        PROVE  Within(client, n)
    <2>1. Stage + 4 * i <= n
      BY <1>1, <1>3
    <2>. QED
      BY <1>3, <2>1 DEF Within
  <1>. QED
    BY <1>2, <1>3 DEF Within

\* A connection is given back within four steps of the worker for every place of
\* the queue and the three of the vehicle it is at; each step it takes is one of
\* these, and neither a stop and start of the stack nor the vehicles that come
\* later add one (main.cpp, service_hlc_tcp_once and hlc_worker_task_main).
THEOREM ReleaseIsBounded == Spec => []ReleaseIsInReach /\ ReleaseComesNearer
  <1>1. ReleaseInv => ReleaseIsInReach
    <2>. SUFFICES ASSUME ReleaseInv, NEW client \in Clients, NEW fd \in Fds, socket[fd] = client
                  PROVE  Within(client, Reach) /\ ~Within(client, 0)
      BY DEF ReleaseIsInReach, Connected
    <2>1. /\ Stage \in 0..3 /\ QueueDepth \in Nat /\ Len(queue) \in Nat
          /\ Len(queue) <= QueueDepth
          /\ worker.pc # "idle" => Stage # 0
      BY StageType, DepthAssumption, LenProperties DEF ReleaseInv, TypeOK
    <2>2. Within(client, Reach)
      <3>1. CASE worker.client = client
        BY <2>1, <3>1 DEF Within, Reach
      <3>2. ASSUME NEW i \in 1..Len(queue), queue[i].client = client
            PROVE  Within(client, Reach)
        <4>1. Stage + 4 * i <= 4 * QueueDepth + 3
          BY <2>1
        <4>. QED
          BY <3>2, <4>1 DEF Within, Reach
      <3>. QED
        BY <3>1, <3>2, ConnectedIsHeld
    <2>3. ~Within(client, 0)
      <3>1. \A i \in 1..Len(queue) : ~(Stage + 4 * i <= 0)
        BY <2>1
      <3>2. worker.client = client => Stage # 0
        BY <2>1, ConnectedIsHeld
      <3>. QED
        BY <2>1, <3>1, <3>2 DEF Within
    <2>. QED
      BY <2>2, <2>3
  <1> DEFINE Nearer == \A client \in Clients : \A n \in Nat :
       Connected(client) /\ Within(client, n) =>
         \/ ~Connected(client)'
         \/ Within(client, n)' /\ (Worker => Within(client, n - 1)')
  <1>2. ReleaseInv /\ ReleaseInv' /\ [Next]_vars => [Nearer]_vars
    <2>. SUFFICES ASSUME ReleaseInv, ReleaseInv', Next,
                         NEW client \in Clients, NEW n \in Nat,
                         Within(client, n), Connected(client)'
                  PROVE  Within(client, n)' /\ (Worker => Within(client, n - 1)')
      OBVIOUS
    <2>1. CASE Worker
      <3>1. Within(client, n - 1)'
        BY <2>1, ReachLowered
      <3>2. Within(client, n)'
        <4>1. n + 1 \in Nat /\ (n + 1) - 1 = n
          OBVIOUS
        <4>2. Within(client, n + 1)
          BY <4>1, ReachGrows DEF ReleaseInv
        <4>3. Within(client, (n + 1) - 1)'
          BY <2>1, <4>1, <4>2, ReachLowered
        <4>. QED
          BY <4>1, <4>3
      <3>. QED
        BY <3>1, <3>2
    <2>2. CASE (Main \/ Leave) /\ ~Worker
      BY <2>2, ReachKept
    <2>. QED
      BY <2>1, <2>2 DEF Next
  <1>. QED
    BY <1>1, <1>2, ReleaseInvariant, PTL DEF Spec, ReleaseComesNearer

=============================================================================
