---------------------------- MODULE Relay_proofs ----------------------------
(***************************************************************************)
(* For any clients and any bounds: no client of the relay is passed the    *)
(* answer to a query of another, and the relay stops after a signal.       *)
(***************************************************************************)
EXTENDS Relay, SequenceTheorems, TLAPS

(* A datagram carries the number of the socket it was sent from, and while *)
(* the relay waits only the client that it serves has sent from the last.  *)
OwnSocket ==
  /\ \A d \in queries \cup answers : d.socket <= socket
  /\ pc = "recvfrom" =>
       \A d \in queries \cup answers : d.socket = socket => d.of = conn

(* The iteration that the signal may find is the last. *)
LastIteration ==
  /\ run => after = 0
  /\ after <= 1
  /\ ~run /\ after = 1 => pc # "accept"

IInv == TypeOK /\ OwnSocket /\ OwnAnswer /\ LastIteration

(* Initially no client has connected and no datagram is under way.         *)
LEMMA RelayInit == Init => IInv
BY EmptySeq, BoundsAssumption
  DEF Init, IInv, TypeOK, OwnSocket, OwnAnswer, LastIteration, NoAnswer

(* The types are kept by every step, one case per action.                  *)
LEMMA TypeStep == TypeOK /\ [Next]_vars => TypeOK'
<1> SUFFICES ASSUME TypeOK, [Next]_vars PROVE TypeOK'
  OBVIOUS
<1> USE BoundsAssumption DEF TypeOK, clients, network
<1>1. Dropped(state) \in
        [Clients -> {"new", "open", "left", "reset", "answered", "dropped"}]
  BY DEF Dropped
<1>2. CASE \E c \in Clients : Connect(c) \/ Send(c) \/ Leave(c) \/ Reset(c)
  <2>1. PICK c \in Clients : Connect(c) \/ Send(c) \/ Leave(c) \/ Reset(c)
    BY <1>2
  <2>2. CASE Connect(c)
    <3>0. \A s \in {"open", "dropped"} : [state EXCEPT ![c] = s] \in
            [Clients -> {"new", "open", "left", "reset", "answered", "dropped"}]
      OBVIOUS
    <3>1. CASE pc = "exited"
      <4>1. /\ state' = [state EXCEPT ![c] = "dropped"]
            /\ UNCHANGED <<sent, got, queue, pc, conn, run, socket, network, cut, after>>
        BY <2>2, <3>1 DEF Connect
      <4>2. state' \in [Clients ->
                         {"new", "open", "left", "reset", "answered", "dropped"}]
        BY <3>0, <4>1
      <4> QED
        BY <4>1, <4>2
    <3>2. CASE pc # "exited"
      <4>1. /\ Append(queue, c) \in Seq(Clients)
            /\ Len(Append(queue, c)) = Len(queue) + 1 /\ Len(queue) \in Nat
        BY AppendProperties, LenProperties
      <4>2. /\ state' = [state EXCEPT ![c] = "open"]
            /\ queue' = Append(queue, c) /\ Len(queue) < MaxQueue
            /\ UNCHANGED <<sent, got, pc, conn, run, socket, network, cut, after>>
        BY <2>2, <3>2 DEF Connect
      <4>3. state' \in [Clients ->
                         {"new", "open", "left", "reset", "answered", "dropped"}]
        BY <3>0, <4>2
      <4> QED
        BY <4>1, <4>2, <4>3
    <3> QED
      BY <3>1, <3>2
  <2>3. CASE Send(c) \/ Leave(c) \/ Reset(c)
    BY <2>3 DEF Send, Leave, Reset
  <2> QED
    BY <2>1, <2>2, <2>3
<1>3. CASE Accept
  <2>1. /\ Head(queue) \in Clients /\ Tail(queue) \in Seq(Clients)
        /\ Len(Tail(queue)) = Len(queue) - 1 /\ Len(queue) \in Nat
    BY <1>3, HeadTailProperties, LenProperties DEF Accept
  <2> QED
    BY <1>3, <2>1 DEF Accept
<1>4. CASE RecvNothing \/ RecvRaises
  BY <1>4 DEF RecvNothing, RecvRaises, Loop
<1>5. CASE RecvQuery
  <2>1. [socket |-> socket', of |-> conn, whole |-> sent[conn] = 2] \in Datagrams
    BY <1>5 DEF RecvQuery, Datagrams
  <2> QED
    BY <1>5, <2>1 DEF RecvQuery
<1>6. CASE PassAnswer
  BY <1>6 DEF PassAnswer, Loop, Arrives
<1>7. CASE Interrupt \/ ClearRun \/ Exit
  <2>1. queue' = queue \/ queue' = <<>>
    BY <1>7 DEF Interrupt, ClearRun, Exit
  <2>0. Len(<<>>) = 0 /\ <<>> \in Seq(Clients)
    BY EmptySeq
  <2>2. queue' \in Seq(Clients) /\ Len(queue') <= MaxQueue
    <3>1. CASE queue' = queue
      BY <3>1
    <3>2. CASE queue' = <<>>
      <4>1. 0 <= MaxQueue
        OBVIOUS
      <4> QED
        BY <2>0, <3>2, <4>1, Zenon
    <3> QED
      BY <2>1, <3>1, <3>2
  <2>3. CASE Interrupt
    BY <1>1, <2>2, <2>3 DEF Interrupt
  <2>4. CASE ClearRun
    BY <2>2, <2>4 DEF ClearRun
  <2>5. CASE Exit
    BY <1>1, <2>2, <2>5 DEF Exit
  <2> QED
    BY <1>7, <2>3, <2>4, <2>5
<1>8. CASE NetworkStep \/ Lose
  BY <1>8 DEF NetworkStep, Answer, Ignore, Lose, Arrives
<1>9. CASE UNCHANGED vars
  BY <1>9 DEF vars
<1> QED
  BY <1>2, <1>3, <1>4, <1>5, <1>6, <1>7, <1>8, <1>9 DEF Next, RelayStep

(* A socket is opened and sent from by RecvQuery alone, and for one        *)
(* client.                                                                 *)
LEMMA OwnSocketStep == TypeOK /\ OwnSocket /\ [Next]_vars => OwnSocket'
<1> SUFFICES ASSUME TypeOK, OwnSocket, [Next]_vars PROVE OwnSocket'
  OBVIOUS
<1>1. CASE RecvQuery
  <2>1. /\ socket \in Nat /\ socket' = socket + 1 /\ conn' = conn
        /\ \A d \in queries \cup answers : d.socket \in Nat /\ d.socket <= socket
    BY <1>1 DEF RecvQuery, TypeOK, Datagrams, OwnSocket
  <2>2. \A d \in queries' \cup answers' :
          d \in queries \cup answers \/ (d.socket = socket' /\ d.of = conn)
    BY <1>1 DEF RecvQuery
  <2> QED
    BY <2>1, <2>2 DEF OwnSocket
<1>2. ASSUME queries' \cup answers' \subseteq queries \cup answers,
             socket' = socket, conn' = conn, pc' \in {pc, "exited", "accept"}
      PROVE  OwnSocket'
  BY <1>2 DEF OwnSocket
<1>3. CASE RecvNothing \/ RecvRaises \/ PassAnswer \/ Interrupt \/ ClearRun \/ Exit
  BY <1>2, <1>3
    DEF RecvNothing, RecvRaises, PassAnswer, Interrupt, ClearRun, Exit, Loop,
        Arrives, network
<1>4. CASE NetworkStep \/ Lose
  BY <1>2, <1>4 DEF NetworkStep, Answer, Ignore, Lose, Arrives
<1>5. CASE \E c \in Clients : Connect(c) \/ Send(c) \/ Leave(c) \/ Reset(c)
  BY <1>2, <1>5 DEF Connect, Send, Leave, Reset, network
<1>6. CASE Accept
  BY <1>6 DEF Accept, OwnSocket, network
<1>7. CASE UNCHANGED vars
  BY <1>7 DEF vars, network, OwnSocket
<1> QED
  BY <1>1, <1>3, <1>4, <1>5, <1>6, <1>7 DEF Next, RelayStep

(* PassAnswer passes on what has come to the socket of its client.         *)
LEMMA OwnAnswerStep ==
  TypeOK /\ OwnSocket /\ OwnAnswer /\ [Next]_vars => OwnAnswer'
<1> SUFFICES ASSUME TypeOK, OwnSocket, OwnAnswer, [Next]_vars PROVE OwnAnswer'
  OBVIOUS
<1>1. CASE PassAnswer
  <2>1. PICK d \in answers :
          /\ d.socket = socket
          /\ IF state[conn] = "open"
               THEN /\ state' = [state EXCEPT ![conn] = "answered"]
                    /\ got' = [got EXCEPT ![conn] = d]
               ELSE UNCHANGED <<state, got>>
    BY <1>1 DEF PassAnswer
  <2>2. d.of = conn /\ d.socket # 0 /\ d # NoAnswer
    BY <1>1, <2>1 DEF PassAnswer, OwnSocket, TypeOK, Datagrams, NoAnswer
  <2>3. got \in [Clients -> Datagrams \cup {NoAnswer}] /\ DOMAIN state = Clients
    BY DEF TypeOK
  <2> QED
    BY <2>1, <2>2, <2>3 DEF OwnAnswer
<1>2. ASSUME got' = got,
             \A c \in Clients : state'[c] = "answered" => state[c] = "answered"
      PROVE  OwnAnswer'
  BY <1>2 DEF OwnAnswer
<1>3. CASE \E c \in Clients : Connect(c) \/ Send(c) \/ Leave(c) \/ Reset(c)
  BY <1>2, <1>3 DEF Connect, Send, Leave, Reset, TypeOK
<1>4. CASE Interrupt \/ Exit
  BY <1>2, <1>4 DEF Interrupt, Exit, Dropped
<1>5. CASE Accept \/ RecvNothing \/ RecvRaises \/ RecvQuery \/ ClearRun \/ NetworkStep \/ Lose
  BY <1>2, <1>5
    DEF Accept, RecvNothing, RecvRaises, RecvQuery, ClearRun, NetworkStep,
        Answer, Ignore, Lose, clients
<1>6. CASE UNCHANGED vars
  BY <1>2, <1>6 DEF vars, clients
<1> QED
  BY <1>1, <1>3, <1>4, <1>5, <1>6 DEF Next, RelayStep

(* After the signal the relay does not return to accept.                   *)
LEMMA LastIterationStep ==
  TypeOK /\ LastIteration /\ [Next]_vars => LastIteration'
<1> SUFFICES ASSUME TypeOK, LastIteration, [Next]_vars PROVE LastIteration'
  OBVIOUS
<1>1. CASE Accept
  BY <1>1 DEF Accept, LastIteration, TypeOK
<1>2. CASE RecvNothing \/ RecvRaises \/ RecvQuery \/ PassAnswer
  BY <1>2
    DEF RecvNothing, RecvRaises, RecvQuery, PassAnswer, Loop, LastIteration, TypeOK
<1>3. CASE Interrupt \/ ClearRun \/ Exit
  BY <1>3 DEF Interrupt, ClearRun, Exit, LastIteration, TypeOK
<1>4. CASE NetworkStep \/ Lose \/ (\E c \in Clients : Connect(c) \/ Send(c) \/ Leave(c) \/ Reset(c))
  BY <1>4
    DEF NetworkStep, Answer, Ignore, Lose, Connect, Send, Leave, Reset,
        LastIteration
<1>5. CASE UNCHANGED vars
  BY <1>5 DEF vars, LastIteration
<1> QED
  BY <1>1, <1>2, <1>3, <1>4, <1>5 DEF Next, RelayStep

(* The inductive invariant of the relay.                                   *)
LEMMA RelayInvariant == Spec => []IInv
<1>1. IInv /\ [Next]_vars => IInv'
  BY TypeStep, OwnSocketStep, OwnAnswerStep, LastIterationStep DEF IInv
<1> QED
  BY RelayInit, <1>1, PTL DEF Spec

(* TypeOK: the accept queue and the counters stay within their bounds.     *)
THEOREM RelayTypes == Spec => []TypeOK
<1>1. IInv => TypeOK
  BY DEF IInv
<1> QED
  BY <1>1, RelayInvariant, PTL

(* OwnAnswer, however many datagrams are lost, late or doubled: every      *)
(* query is sent from a socket of its own.                                 *)
THEOREM RelayOwnAnswer == Spec => []OwnAnswer
<1>1. IInv => OwnAnswer
  BY DEF IInv
<1> QED
  BY <1>1, RelayInvariant, PTL

(* OneAfterSignal: `while run` leaves the signal handler one more client.  *)
THEOREM RelayStops == Spec => []OneAfterSignal
<1>1. IInv => OneAfterSignal
  BY DEF IInv, LastIteration, OneAfterSignal
<1> QED
  BY <1>1, RelayInvariant, PTL
=============================================================================
