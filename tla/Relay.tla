------------------------------- MODULE Relay -------------------------------
(***************************************************************************)
(* tools/dns-tcp2udp.py, the tunnel of cases/20ixfr-udp.sh: it accepts one *)
(* TCP client at a time, sends what it reads as a datagram from a socket   *)
(* of its own, waits for an answer to it and passes that on.  A query may  *)
(* come in two segments; datagrams may be lost and doubled.                *)
(***************************************************************************)
EXTENDS Naturals, Sequences

CONSTANTS
  Clients,
  MaxQueue,       \* bound: connections that wait for accept
  MaxLost,        \* bound: datagrams lost
  MaxDoubled      \* bound: datagrams that arrive twice

ASSUME BoundsAssumption ==
  MaxQueue \in Nat /\ MaxLost \in Nat /\ MaxDoubled \in Nat

VARIABLES
  state,          \* of each client: new | open | left | reset | answered |
                  \* dropped
  sent,           \* segments of its query that it has sent, of two
  got,            \* the datagram whose answer it was passed, or NoAnswer
  queue,          \* connections that wait for accept
  pc,             \* the call that is next: accept | recv | recvfrom | exited
  conn,           \* the client that was accepted last
  run,            \* cleared by the signal handler
  socket,         \* number of the UDP socket, 0 before the first
  queries, answers,   \* datagrams in flight to the server and back
  lost, doubled,
  cut,            \* queries that were read in part
  after           \* clients accepted since the signal

clients == <<state, sent, got>>
network == <<queries, answers, lost, doubled>>
vars == <<clients, queue, pc, conn, run, socket, network, cut, after>>

NoAnswer == [socket |-> 0]
Datagrams == [socket : Nat \ {0}, of : Clients, whole : BOOLEAN]

Init ==
  /\ state = [c \in Clients |-> "new"]
  /\ sent = [c \in Clients |-> 0]
  /\ got = [c \in Clients |-> NoAnswer]
  /\ queue = <<>>
  /\ pc = "accept" /\ conn \in Clients /\ run = TRUE
  /\ socket = 0
  /\ queries = {} /\ answers = {}
  /\ lost = 0 /\ doubled = 0 /\ cut = 0 /\ after = 0

(* Mutant of Loop: run is not looked at. *)
LoopForever == pc' = "accept"
(* The end of an iteration: `while run`. *)
Loop == pc' = IF run THEN "accept" ELSE "exited"

(* The process ends and with it every connection; s is their state.        *)
Dropped(s) == [c \in Clients |-> IF s[c] = "open" THEN "dropped" ELSE s[c]]

-----------------------------------------------------------------------------
(* The clients. *)

(* Mutant of Connect: any number may wait. *)
ConnectMore(c) ==
  /\ state[c] = "new"
  /\ IF pc = "exited"
       THEN state' = [state EXCEPT ![c] = "dropped"] /\ queue' = queue
       ELSE /\ state' = [state EXCEPT ![c] = "open"]
            /\ queue' = Append(queue, c)
  /\ UNCHANGED <<sent, got, pc, conn, run, socket, network, cut, after>>
Connect(c) ==
  /\ state[c] = "new"
  /\ IF pc = "exited"
       THEN state' = [state EXCEPT ![c] = "dropped"] /\ queue' = queue
       ELSE /\ Len(queue) < MaxQueue
            /\ state' = [state EXCEPT ![c] = "open"]
            /\ queue' = Append(queue, c)
  /\ UNCHANGED <<sent, got, pc, conn, run, socket, network, cut, after>>

Send(c) ==
  /\ state[c] = "open"
  /\ \E n \in {1, 2} : n > sent[c] /\ sent' = [sent EXCEPT ![c] = n]
  /\ UNCHANGED <<state, got, queue, pc, conn, run, socket, network, cut, after>>

(* A client gives up; what it has sent can still be read. *)
Leave(c) ==
  /\ state[c] = "open"
  /\ state' = [state EXCEPT ![c] = "left"]
  /\ UNCHANGED <<sent, got, queue, pc, conn, run, socket, network, cut, after>>

(* Or its connection is reset. *)
Reset(c) ==
  /\ state[c] = "open"
  /\ state' = [state EXCEPT ![c] = "reset"]
  /\ UNCHANGED <<sent, got, queue, pc, conn, run, socket, network, cut, after>>

-----------------------------------------------------------------------------
(* The relay. *)

Accept ==
  /\ pc = "accept" /\ queue # <<>>
  /\ conn' = Head(queue) /\ queue' = Tail(queue)
  /\ pc' = "recv"
  /\ after' = IF run THEN after ELSE after + 1
  /\ UNCHANGED <<clients, run, socket, network, cut>>

(* Mutant of RecvNothing: nothing is sent on, and waited for. *)
SendNothing ==
  /\ pc = "recv"
  /\ sent[conn] = 0 /\ state[conn] = "left"
  /\ pc' = "recvfrom" /\ socket' = socket + 1
  /\ UNCHANGED <<clients, queue, conn, run, network, cut, after>>
(* recv returns nothing of a client that has left; close and continue.     *)
RecvNothing ==
  /\ pc = "recv"
  /\ sent[conn] = 0 /\ state[conn] = "left"
  /\ Loop
  /\ UNCHANGED <<clients, queue, conn, run, socket, network, cut, after>>

(* recv raises if the connection has been reset, even after a part of the   *)
(* query: the bare except breaks, and the relay ends.                      *)
RecvRaises ==
  /\ pc = "recv"
  /\ state[conn] = "reset"
  /\ pc' = "exited"
  /\ UNCHANGED <<clients, queue, conn, run, socket, network, cut, after>>

(* Mutant of RecvQuery: all queries are sent from one socket. *)
OneSocket ==
  /\ pc = "recv"
  /\ sent[conn] > 0
  /\ socket' = 1
  /\ queries' = queries \cup
       {[socket |-> socket', of |-> conn, whole |-> sent[conn] = 2]}
  /\ cut' = IF sent[conn] = 2 THEN cut ELSE cut + 1
  /\ pc' = "recvfrom"
  /\ UNCHANGED <<clients, queue, conn, run, answers, lost, doubled, after>>
(* recv returns what is there; the datagram is sent from a new socket.     *)
RecvQuery ==
  /\ pc = "recv"
  /\ sent[conn] > 0
  /\ socket' = socket + 1
  /\ queries' = queries \cup
       {[socket |-> socket', of |-> conn, whole |-> sent[conn] = 2]}
  /\ cut' = IF sent[conn] = 2 THEN cut ELSE cut + 1
  /\ pc' = "recvfrom"
  /\ UNCHANGED <<clients, queue, conn, run, answers, lost, doubled, after>>

(* A datagram d of the set net arrives, and may arrive again.              *)
Arrives(d, net) ==
  \/ net' = net \ {d} /\ doubled' = doubled
  \/ doubled < MaxDoubled /\ doubled' = doubled + 1 /\ net' = net

(* recvfrom waits without a timeout; then send, which raises if the client *)
(* has reset its connection, and close both sockets.                       *)
PassAnswer ==
  /\ pc = "recvfrom"
  /\ \E d \in answers :
       /\ d.socket = socket
       /\ Arrives(d, answers)
       /\ IF state[conn] = "open"
            THEN /\ state' = [state EXCEPT ![conn] = "answered"]
                 /\ got' = [got EXCEPT ![conn] = d]
            ELSE UNCHANGED <<state, got>>
  /\ IF state[conn] = "reset" THEN pc' = "exited" ELSE Loop
  /\ UNCHANGED <<sent, queue, conn, run, socket, queries, lost, cut, after>>

(* The call that is next would wait. *)
Waits ==
  \/ pc = "accept" /\ queue = <<>>
  \/ pc = "recv" /\ sent[conn] = 0 /\ state[conn] = "open"
  \/ pc = "recvfrom" /\ ~\E d \in answers : d.socket = socket

(* SIGINT or SIGTERM: a call that waits is interrupted, which raises and   *)
(* leaves the loop; before the call the signal only clears `run`.          *)
Interrupt ==
  /\ run /\ Waits
  /\ run' = FALSE
  /\ pc' = "exited"
  /\ state' = Dropped(state) /\ queue' = <<>>
  /\ UNCHANGED <<sent, got, conn, socket, network, cut, after>>

ClearRun ==
  /\ run /\ pc # "exited"
  /\ run' = FALSE
  /\ UNCHANGED <<clients, queue, pc, conn, socket, network, cut, after>>

(* Closing port; sys.exit. *)
Exit ==
  /\ pc = "exited" /\ (queue # <<>> \/ state # Dropped(state))
  /\ state' = Dropped(state) /\ queue' = <<>>
  /\ UNCHANGED <<sent, got, pc, conn, run, socket, network, cut, after>>

-----------------------------------------------------------------------------
(* The network and the server: an answer carries the number of the socket  *)
(* its query came from; what is left of a query may not be answered.       *)

Answer ==
  /\ \E d \in queries : Arrives(d, queries) /\ answers' = answers \cup {d}
  /\ UNCHANGED <<clients, queue, pc, conn, run, socket, lost, cut, after>>

Ignore ==
  /\ \E d \in queries : ~d.whole /\ queries' = queries \ {d}
  /\ UNCHANGED <<clients, queue, pc, conn, run, socket, answers, lost,
                 doubled, cut, after>>

Lose ==
  /\ lost < MaxLost /\ lost' = lost + 1
  /\ \/ \E d \in queries : queries' = queries \ {d} /\ answers' = answers
     \/ \E d \in answers : answers' = answers \ {d} /\ queries' = queries
  /\ UNCHANGED <<clients, queue, pc, conn, run, socket, doubled, cut, after>>

-----------------------------------------------------------------------------
RelayStep ==
  Accept \/ RecvNothing \/ RecvRaises \/ RecvQuery \/ PassAnswer \/ Exit
NetworkStep == Answer \/ Ignore

Next ==
  \/ RelayStep \/ Interrupt \/ ClearRun
  \/ NetworkStep \/ Lose
  \/ \E c \in Clients : Connect(c) \/ Send(c) \/ Leave(c) \/ Reset(c)

Spec == Init /\ [][Next]_vars

(* The relay and the server run, and a client sends the query it connected *)
(* for.                                                                    *)
FairSpec ==
  /\ Spec
  /\ WF_vars(RelayStep) /\ WF_vars(NetworkStep)
  /\ \A c \in Clients : WF_vars(Send(c))

-----------------------------------------------------------------------------
TypeOK ==
  /\ state \in [Clients ->
                 {"new", "open", "left", "reset", "answered", "dropped"}]
  /\ sent \in [Clients -> {0, 1, 2}]
  /\ got \in [Clients -> Datagrams \cup {NoAnswer}]
  /\ queue \in Seq(Clients) /\ Len(queue) <= MaxQueue
  /\ pc \in {"accept", "recv", "recvfrom", "exited"}
  /\ conn \in Clients /\ run \in BOOLEAN
  /\ socket \in Nat
  /\ queries \in SUBSET Datagrams /\ answers \in SUBSET Datagrams
  /\ lost \in 0..MaxLost /\ doubled \in 0..MaxDoubled
  /\ cut \in Nat /\ after \in Nat

(* A client is passed the answer to its own query, although an answer that *)
(* is late or comes twice may arrive while the next client is served.      *)
OwnAnswer ==
  \A c \in Clients : state[c] = "answered" => got[c] # NoAnswer /\ got[c].of = c

(* `while run`: the relay serves at most one client after the signal, the  *)
(* one that ends an accept which had not begun to wait.                    *)
OneAfterSignal == after <= 1

(* Every client that has sent its query is answered or leaves, also after  *)
(* clients that left early, unless a datagram was lost or a query was read *)
(* in part, and recvfrom waits for ever, or the relay ends, told to stop   *)
(* or because a connection was reset, and every client is dropped.         *)
Served ==
  \A c \in Clients :
    (state[c] = "open" /\ sent[c] = 2) ~>
      \/ state[c] \in {"answered", "left"}
      \/ lost > 0 \/ cut > 0 \/ ~run
      \/ \E r \in Clients : state[r] = "reset"
=============================================================================
