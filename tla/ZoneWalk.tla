------------------------------ MODULE ZoneWalk ------------------------------
(***************************************************************************)
(* pydig +walk: zonewalk follows the NSEC records of a zone from name to   *)
(* name and prints the records of each, one UDP exchange after the other,  *)
(* while datagrams get lost, are late or come twice, and the zone changes. *)
(* Names are numbered in the canonical order of the zone.                  *)
(***************************************************************************)
EXTENDS Integers, FiniteSets, FiniteSetsExt

CONSTANTS
  N,            \* names that are ever in the zone; 1 is its apex
  Types,        \* types of records at a name
  Retries,      \* RETRIES
  MaxUpdates    \* bound: names added or removed during the walk

ASSUME CountAssumption == N \in Nat \ {0} /\ Types \in Nat \ {0}
ASSUME BoundAssumption == Retries \in Nat \ {0} /\ MaxUpdates \in Nat

Names == 1..N

VARIABLES
  zone,         \* the names the server has now
  updates,      \* updates so far
  stable,       \* the names it has had all the time
  net,          \* datagrams between the server and the open socket
  start, qname, nextrr, \* locals of zonewalk
  first,        \* nsec_count is at most 1
  rest,         \* types at qname that are still to be asked for
  tries,        \* retries of send_request_udp, 0 between two exchanges
  phase,        \* nsec | types | done | error
  listed        \* how often each name's last type was printed, up to 2

server == <<zone, updates, stable>>
walk == <<start, qname, nextrr, first, rest, phase, listed>>
vars == <<server, net, tries, walk>>

Walking == phase \in {"nsec", "types"}

Init ==
  /\ zone \in {Z \in SUBSET Names : 1 \in Z}
  /\ updates = 0 /\ stable = zone
  /\ net = {} /\ tries = 0
  /\ start \in Names /\ qname = start /\ nextrr = start
  /\ first = TRUE /\ rest = 0
  /\ phase = "nsec"
  /\ listed = [n \in Names |-> 0]

-----------------------------------------------------------------------------
(* The server and the network. *)

Query(n) == [query |-> n]

(* The owner of the next NSEC record: that of the last name is the apex. *)
NextIn(Z, n) == IF \E x \in Z : x > n THEN Min({x \in Z : x > n}) ELSE Min(Z)

Answer(n) == [of |-> n, found |-> n \in zone, next |-> NextIn(zone, n)]

(* The server answers a query, which may be one of several copies. *)
Serve ==
  /\ Query(qname) \in net
  /\ \E rest_of_net \in {net, net \ {Query(qname)}} :
       net' = rest_of_net \cup {Answer(qname)}
  /\ UNCHANGED <<server, tries, walk>>

Lose ==
  /\ \E d \in net : net' = net \ {d}
  /\ UNCHANGED <<server, tries, walk>>

(* A name other than the apex comes or goes. *)
Change ==
  /\ Walking /\ updates < MaxUpdates
  /\ updates' = updates + 1
  /\ \E n \in Names \ {1} :
       zone' = IF n \in zone THEN zone \ {n} ELSE zone \cup {n}
  /\ stable' = stable \cap zone'
  /\ UNCHANGED <<net, tries, walk>>

-----------------------------------------------------------------------------
(* send_request_udp: a socket of its own for each exchange. *)

Ask ==
  /\ Walking /\ tries = 0
  /\ tries' = Retries
  /\ net' = {Query(qname)}
  /\ UNCHANGED <<server, walk>>

(* Mutant of TriesLeft: retries -= 1 is left out. *)
TriesUncounted == tries
TriesLeft == tries - 1

(* No answer in time: another try, or "No response from server". *)
Timeout ==
  /\ Walking /\ tries > 0
  /\ tries' = TriesLeft
  /\ IF tries' > 0
       THEN net' = net \cup {Query(qname)} /\ UNCHANGED walk
       ELSE /\ net' = {}
            /\ phase' = "error"
            /\ UNCHANGED <<start, qname, nextrr, first, rest, listed>>
  /\ UNCHANGED server

(* Mutant of Receive: the next exchange uses the same socket. *)
SocketKept(a) ==
  /\ tries > 0
  /\ a \in net \ {Query(qname)}
  /\ tries' = 0 /\ net' = net \ {a}
  /\ UNCHANGED server

(* The exchange ends with an answer; the socket is closed. *)
Receive(a) ==
  /\ tries > 0
  /\ a \in net \ {Query(qname)}
  /\ tries' = 0 /\ net' = {}
  /\ UNCHANGED server

-----------------------------------------------------------------------------
(* zonewalk and print_answer_rr. *)

(* Mutant of Back: the walk does not look for the name it started from. *)
BackAlone(n, next) == n = next
(* Mutant of Back: the walk ends one name early. *)
BackEarly(n, next) == n = next \/ next = start
(* The walk is back, or there is nothing else in the zone. *)
Back(n, next) == n = next \/ n = start

WalkNSEC ==
  /\ phase = "nsec"
  /\ \E a \in net :
       /\ Receive(a)
       /\ phase' = IF ~a.found THEN "error"
                   ELSE IF ~first /\ Back(qname, a.next) THEN "done"
                   ELSE "types"
       /\ nextrr' = IF a.found THEN a.next ELSE nextrr
  /\ first' = FALSE
  /\ rest' = IF phase' = "types" THEN Types ELSE 0
  /\ UNCHANGED <<start, qname, listed>>

Once(n) == [listed EXCEPT ![n] = IF @ = 0 THEN 1 ELSE 2]

(* The records of one type.  If the name has gone meanwhile the server says *)
(* NXDOMAIN, which is an error, or answers without a record if names below  *)
(* it are left, which print_answer_rr passes over.                          *)
PrintRRs ==
  /\ phase = "types"
  /\ \E a \in net :
       /\ Receive(a)
       /\ \/ /\ ~a.found
             /\ phase' = "error" /\ UNCHANGED <<rest, qname, listed>>
          \/ /\ rest > 1
             /\ rest' = rest - 1 /\ UNCHANGED <<phase, qname, listed>>
          \/ /\ rest = 1
             /\ rest' = 0 /\ phase' = "nsec" /\ qname' = nextrr
             /\ listed' = IF a.found THEN Once(qname) ELSE listed
  /\ UNCHANGED <<start, nextrr, first>>

Terminated == ~Walking /\ UNCHANGED vars

Client == Ask \/ Timeout \/ WalkNSEC \/ PrintRRs
Next == Client \/ Serve \/ Lose \/ Change \/ Terminated

Spec == Init /\ [][Next]_vars
Fairness == WF_vars(Client)
FairSpec == Spec /\ Fairness

-----------------------------------------------------------------------------

(* The values the variables take; between two exchanges the socket is      *)
(* closed, and nothing of an earlier one can arrive.                       *)
TypeOK ==
  /\ zone \subseteq Names /\ 1 \in zone /\ stable \subseteq zone
  /\ updates \in 0..MaxUpdates
  /\ net \subseteq {Query(qname)} \cup
                   [of : {qname}, found : BOOLEAN, next : Names]
  /\ tries \in 0..Retries /\ (tries = 0 => net = {})
  /\ start \in Names /\ qname \in Names /\ nextrr \in Names
  /\ first \in BOOLEAN
  /\ rest \in 0..Types /\ (phase = "types" <=> rest > 0 /\ Walking)
  /\ phase \in {"nsec", "types", "done", "error"}
  /\ listed \in [Names -> 0..2]

(* No name is listed twice if the name the walk started from stays in the  *)
(* zone, whatever else comes, goes, or answers late (zonewalk stops at     *)
(* start_qname).                                                           *)
ListedOnce == start \in stable => \A n \in Names : listed[n] <= 1

(* "walk (enumerate) a DNSSEC secured zone": a walk that ends without an   *)
(* error has listed every name that was in the zone all the time, if there *)
(* are at least two.  When the name the walk started from goes and only    *)
(* the apex is left, it ends without the records of the apex.              *)
EnumeratesStableOfTwo ==
  phase = "done" /\ Cardinality(stable) > 1 =>
    \A n \in stable : listed[n] > 0

(* The walk ends if the name it started from stays in the zone, even if no *)
(* datagram ever arrives: timeouts of send_request_udp, and the cycle of   *)
(* the NSEC records.                                                       *)
WalkEnds == <>(~Walking \/ start \notin stable)
=============================================================================
