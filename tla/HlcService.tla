----------------------------- MODULE HlcService -----------------------------
(***************************************************************************)
(* How connections reach the SECC and how their sockets are given back     *)
(* (the SLAC/HLC example of src/platformio, main.cpp, with the client      *)
(* entry points of src/src/secc.c).  Two tasks share the process's         *)
(* descriptors: the main loop starts and stops the stack with the control  *)
(* pilot, accepts connections and queues their descriptors; the worker     *)
(* takes one at a time and runs jpv2g_secc_handle_client_detect on it.     *)
(*                                                                         *)
(* A descriptor is a number, and a number that was closed is handed out    *)
(* again: the socket table keeps what each number stands for now, while    *)
(* the queue and the worker also remember (history, not in the code) which *)
(* vehicle the number stood for when it was accepted.                      *)
(***************************************************************************)
EXTENDS Integers, Sequences, FiniteSets

CONSTANTS
  Clients,      \* vehicles, each of which connects at most once
  MaxFd,        \* sockets the network stack has
  QueueDepth    \* HLC_CLIENT_QUEUE_DEPTH

ASSUME SocketsAssumption == MaxFd \in Nat
ASSUME ClientsAssumption == Clients \cap {"closed", "udp", "tcp", "nobody"} = {}
ASSUME DepthAssumption   == QueueDepth \in Nat \ {0}

None   == 0                \* no descriptor (-1, or the zeroed structure)
Fds    == 1..MaxFd
Nobody == "nobody"

VARIABLES
  socket,    \* [Fds -> what the number stands for]
  secc,      \* the descriptors g_secc knows: [udp, tcp]
  ready,     \* g_hlc_ready
  queue,     \* g_hlc_client_queue
  main,      \* where the main loop is in init_hlc_stack and stop_hlc_stack
  worker,    \* [pc, fd, client] of hlc_worker_task_main
  gone,      \* the vehicle being served has closed its end
  toCome,    \* vehicles that have not connected yet
  lost,      \* history: descriptors g_secc forgot while they were open
  strayed    \* history: the worker has closed a socket not of its vehicle

vars == <<socket, secc, ready, queue, main, worker, gone, toCome, lost, strayed>>

-------------------------------------------------------------------------------

(* Descriptors. *)

Free == {fd \in Fds : socket[fd] = "closed"}

\* The lowest free number, which is what the network stack hands out.
LowestOf(free) == CHOOSE fd \in free : \A other \in free : fd <= other

Open(fd, as) == socket' = [socket EXCEPT ![fd] = as]

\* close() of numbers, whatever they stand for by now.
Closed(fds) == [fd \in Fds |-> IF fd \in fds THEN "closed" ELSE socket[fd]]

Waiting == {queue[i].fd : i \in 1..Len(queue)}

Idle == [pc |-> "idle", fd |-> None, client |-> Nobody]

Init ==
  /\ socket = [fd \in Fds |-> "closed"]
  /\ secc = [udp |-> None, tcp |-> None]
  /\ ready = FALSE
  /\ queue = <<>>
  /\ main = "loop"
  /\ worker = Idle
  /\ gone = FALSE
  /\ toCome = Clients
  /\ lost = {}
  /\ strayed = FALSE

-------------------------------------------------------------------------------

(* The main loop: starting the stack. *)

\* jpv2g_secc_init forgets what g_secc held.  After a TCP start that failed,
\* that is the socket of the SDP responder: stop_hlc_stack, called to undo the
\* start, returns at once because the stack is not ready yet.
Forgotten == IF secc.udp = None THEN {} ELSE {secc.udp}

StartUdp ==
  /\ main = "loop" /\ ~ready
  /\ Free # {}
  /\ LET fd == LowestOf(Free) IN
       /\ Open(fd, "udp")
       /\ secc' = [udp |-> fd, tcp |-> None]
  /\ lost' = lost \cup Forgotten
  /\ main' = "bound"
  /\ UNCHANGED <<ready, queue, worker, gone, toCome, strayed>>

\* No socket is left, or the bind fails and the socket is closed again.
StartUdpFails ==
  /\ main = "loop" /\ ~ready
  /\ secc' = [udp |-> None, tcp |-> None]
  /\ lost' = lost \cup Forgotten
  /\ UNCHANGED <<socket, ready, queue, main, worker, gone, toCome, strayed>>

StartTcp ==
  /\ main = "bound"
  /\ Free # {}
  /\ LET fd == LowestOf(Free) IN
       /\ Open(fd, "tcp")
       /\ secc' = [secc EXCEPT !.tcp = fd]
  /\ ready' = TRUE
  /\ main' = "loop"
  /\ UNCHANGED <<queue, worker, gone, toCome, lost, strayed>>

\* Mutation: the stack is taken for ready although its listener is missing.
StartTcpReady ==
  /\ main = "bound"
  /\ main' = "loop"
  /\ ready' = TRUE
  /\ UNCHANGED <<socket, secc, queue, worker, gone, toCome, lost, strayed>>

StartTcpFails ==
  /\ main = "bound"
  /\ main' = "loop"
  /\ UNCHANGED <<socket, secc, ready, queue, worker, gone, toCome, lost, strayed>>

-------------------------------------------------------------------------------

(* The main loop: a vehicle connects. *)

Accepts(client) ==
  /\ main = "loop" /\ ready
  /\ socket[secc.tcp] = "tcp"
  /\ client \in toCome
  /\ toCome' = toCome \ {client}

HandOff(client) ==
  /\ Accepts(client)
  /\ Free # {}
  /\ Len(queue) < QueueDepth
  /\ LET fd == LowestOf(Free) IN
       /\ Open(fd, client)
       /\ queue' = Append(queue, [fd |-> fd, client |-> client])
  /\ UNCHANGED <<secc, ready, main, worker, gone, lost, strayed>>

\* Mutation: the queue is full and the descriptor is not closed.
DropOpen(client) ==
  /\ Accepts(client)
  /\ Free # {}
  /\ Len(queue) = QueueDepth
  /\ Open(LowestOf(Free), client)
  /\ UNCHANGED <<secc, ready, queue, main, worker, gone, lost, strayed>>

\* The queue is full: the new descriptor is closed at once.  (With no socket
\* left the accept fails, and nothing changes.)
Drop(client) ==
  /\ Accepts(client)
  /\ Free # {}
  /\ Len(queue) = QueueDepth
  /\ UNCHANGED <<socket, secc, ready, queue, main, worker, gone, lost, strayed>>

-------------------------------------------------------------------------------

(* The main loop: the vehicle is unplugged, or its SLAC matching fails. *)

Stop ==
  /\ main = "loop" /\ ready
  /\ main' = "drain"
  /\ UNCHANGED <<socket, secc, ready, queue, worker, gone, toCome, lost, strayed>>

\* Mutation: the descriptors are closed, and stay in the queue.
DrainInPlace ==
  /\ main = "drain"
  /\ socket' = Closed(Waiting)
  /\ main' = "close"
  /\ UNCHANGED <<secc, ready, queue, worker, gone, toCome, lost, strayed>>

\* Mutation: the waiting connections are left to the next stack.
DrainNothing ==
  /\ main = "drain"
  /\ main' = "close"
  /\ UNCHANGED <<socket, secc, ready, queue, worker, gone, toCome, lost, strayed>>

Drain ==
  /\ main = "drain"
  /\ IF queue = <<>>
     THEN main' = "close" /\ UNCHANGED <<socket, queue>>
     ELSE /\ socket' = Closed({Head(queue).fd})
          /\ queue' = Tail(queue)
          /\ main' = main
  /\ UNCHANGED <<secc, ready, worker, gone, toCome, lost, strayed>>

\* Mutation: the SDP responder is left open.
CloseTcpOnly ==
  /\ main = "close"
  /\ socket' = Closed({secc.tcp})
  /\ main' = "clear"
  /\ UNCHANGED <<secc, ready, queue, worker, gone, toCome, lost, strayed>>

\* jpv2g_secc_stop; the worker may be inside a session all the while.
CloseServers ==
  /\ main = "close"
  /\ socket' = Closed({secc.udp, secc.tcp})
  /\ main' = "clear"
  /\ UNCHANGED <<secc, ready, queue, worker, gone, toCome, lost, strayed>>

Clear ==
  /\ main = "clear"
  /\ secc' = [udp |-> None, tcp |-> None]
  /\ ready' = FALSE
  /\ main' = "loop"
  /\ UNCHANGED <<socket, queue, worker, gone, toCome, lost, strayed>>

-------------------------------------------------------------------------------

(* The worker, and the vehicle it serves. *)

Take ==
  /\ worker.pc = "idle"
  /\ queue # <<>>
  /\ worker' = [pc |-> "check", fd |-> Head(queue).fd, client |-> Head(queue).client]
  /\ queue' = Tail(queue)
  /\ UNCHANGED <<socket, secc, ready, main, gone, toCome, lost, strayed>>

\* The worker closes its number.
WorkerCloses ==
  /\ socket' = Closed({worker.fd})
  /\ strayed' = (strayed \/ socket[worker.fd] \notin {"closed", worker.client})

\* Mutation: the worker waits for the next stack instead.
RefuseNever ==
  /\ worker.pc = "check" /\ ~ready
  /\ UNCHANGED vars

\* The stack was stopped after the descriptor was taken.
Refuse ==
  /\ worker.pc = "check" /\ ~ready
  /\ WorkerCloses
  /\ worker' = Idle
  /\ UNCHANGED <<secc, ready, queue, main, gone, toCome, lost>>

Serve ==
  /\ worker.pc = "check" /\ ready
  /\ worker' = [worker EXCEPT !.pc = "serve"]
  /\ UNCHANGED <<socket, secc, ready, queue, main, gone, toCome, lost, strayed>>

\* The vehicle closes its end, or its link goes down.
Leave ==
  /\ worker.pc = "serve" /\ ~gone
  /\ gone' = TRUE
  /\ UNCHANGED <<socket, secc, ready, queue, main, worker, toCome, lost, strayed>>

\* The plaintext stream is over, or the first bytes could not be read: the
\* descriptor is left to the caller.
PlainEnds ==
  /\ worker.pc = "serve"
  /\ worker' = [worker EXCEPT !.pc = "close"]
  /\ gone' = FALSE
  /\ UNCHANGED <<socket, secc, ready, queue, main, toCome, lost, strayed>>

\* The vehicle began with a TLS ClientHello.  jpv2g_secc_handle_client_tls
\* closes the descriptor itself, after a handshake that failed (as it always
\* does in a build without mbedTLS) as after a stream.
TlsEnds ==
  /\ worker.pc = "serve"
  /\ socket[worker.fd] \in Clients
  /\ WorkerCloses
  /\ worker' = [worker EXCEPT !.pc = "close"]
  /\ gone' = FALSE
  /\ UNCHANGED <<secc, ready, queue, main, toCome, lost>>

\* jpv2g_socket_close(client_fd) after the call, on either route.
CloseClient ==
  /\ worker.pc = "close"
  /\ WorkerCloses
  /\ worker' = Idle
  /\ UNCHANGED <<secc, ready, queue, main, gone, toCome, lost>>

-------------------------------------------------------------------------------

Main ==
  \/ StartUdp \/ StartUdpFails \/ StartTcp \/ StartTcpFails
  \/ \E client \in Clients : HandOff(client) \/ Drop(client)
  \/ Stop \/ Drain \/ CloseServers \/ Clear

Worker == Take \/ Refuse \/ Serve \/ PlainEnds \/ TlsEnds \/ CloseClient

Next == Main \/ Worker \/ Leave

Spec == Init /\ [][Next]_vars

\* The worker is a task of its own.  All its calls return but the one that
\* serves a vehicle: each frame gives the stream its whole timeout again, a
\* request of the charge loop can be repeated for ever, and neither send() nor
\* the TLS write has a deadline of its own.  Once the vehicle has left, what is
\* received or sent fails, and that call returns too.  Whether a vehicle comes
\* or leaves, and the stack is started or stopped, is up to the world.
FairSpec ==
  /\ Spec
  /\ WF_vars(Take \/ Refuse \/ Serve \/ CloseClient)
  /\ WF_vars(gone /\ (PlainEnds \/ TlsEnds))

-------------------------------------------------------------------------------

(* Properties. *)

\* Types, and what the tasks' positions say of the descriptors they hold: the
\* stack is ready in between a start and the end of a stop, and the worker
\* holds a number exactly while it is not idle (main.cpp, init_hlc_stack,
\* stop_hlc_stack, hlc_worker_task_main).
TypeOK ==
  /\ socket \in [Fds -> {"closed", "udp", "tcp"} \cup Clients]
  /\ secc \in [udp : Fds \cup {None}, tcp : Fds \cup {None}]
  /\ ready \in BOOLEAN
  /\ ready => secc.tcp # None
  /\ queue \in Seq([fd : Fds, client : Clients])
  /\ Len(queue) <= QueueDepth
  /\ main \in {"loop", "bound", "drain", "close", "clear"}
  /\ main = "bound" => ~ready
  /\ main \in {"drain", "close", "clear"} => ready
  /\ worker \in {Idle} \cup [pc : {"check", "serve", "close"}, fd : Fds, client : Clients]
  /\ gone \in BOOLEAN
  /\ gone => worker.pc = "serve"
  /\ toCome \subseteq Clients
  /\ lost \subseteq Fds
  /\ strayed \in BOOLEAN

\* The worker only ever closes the socket of the vehicle it serves.  It is what
\* the comment on jpv2g_socket_shutdown relies on (the worker "the sole owner
\* of the eventual close()"); after a TLS route the descriptor is closed by the
\* library and again by the worker, by when it may be another's.
CloseIsOfOwnSocket == ~strayed

\* As long as that has not happened, no socket is closed under its user: the
\* number a waiting vehicle is queued with, and the one the worker is about to
\* serve or serves, still stand for that vehicle, and a ready stack still
\* listens (main.cpp; the stop, the queue and the worker all close numbers).
SocketsStayTheirs ==
  ~strayed =>
    /\ \A i \in 1..Len(queue) : socket[queue[i].fd] = queue[i].client
    /\ worker.pc \in {"check", "serve"} => socket[worker.fd] = worker.client
    /\ ready /\ main \in {"loop", "drain", "close"} =>
         /\ socket[secc.tcp] = "tcp"
         /\ socket[secc.udp] = "udp"

\* A vehicle never waits in the queue across a stop: what the next stack serves
\* was accepted by it, except for the one connection the worker may hold
\* (stop_hlc_stack drains the queue while the worker takes from it).
QueueDiesWithItsStack == ~ready \/ main \in {"close", "clear"} => queue = <<>>

\* Whatever is open can still be closed by somebody: by a stop of the stack, by
\* the worker, or through the queue.  The one exception is the SDP socket of a
\* start whose TCP half failed (main.cpp, init_hlc_stack).
EverySocketHasAHolder ==
  {fd \in Fds : socket[fd] # "closed"}
     \subseteq {secc.udp, secc.tcp} \cup lost \cup Waiting \cup {worker.fd}

\* No vehicle stays for ever with the worker: the one thing the code leaves to
\* the vehicles.
VehiclesLeave == []<>(worker.pc = "serve" => gone)

Connected(client) == \E fd \in Fds : socket[fd] = client

\* If every vehicle leaves the worker sooner or later, every connection that was
\* accepted is given back in the end, the ones that wait behind it in the queue
\* too, whichever route they take and however often the stack is stopped
\* meanwhile (main.cpp, service_hlc_tcp_once and hlc_worker_task_main).
AcceptedIsReleased ==
  VehiclesLeave => \A client \in Clients : Connected(client) ~> ~Connected(client)

=============================================================================
