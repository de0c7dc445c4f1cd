--------------------------- MODULE ZoneWalk_proofs ---------------------------
(***************************************************************************)
(* For zones, record types, tries and updates of any number: a walk lists  *)
(* no name twice, and none that stays in the zone is left out.             *)
(***************************************************************************)
EXTENDS ZoneWalk, FiniteSetTheorems, WellFoundedInduction, TLAPS

(* A walk from the name `start` comes to a before it comes to b. *)
Before(a, b) ==
  \/ start <= a /\ (b < start \/ a < b)
  \/ a < b /\ b < start

(* No lasting name lies between q and the name that follows it. *)
NoneBetween(q, next) ==
  \A n \in stable : IF q < next THEN ~(q < n /\ n < next)
                    ELSE next <= n /\ n <= q

AllListed == \A n \in stable : listed[n] > 0
ListedBefore == \A n \in stable : Before(n, qname) => listed[n] > 0

(* What an answer says, and zonewalk remembers, skips no lasting name, and  *)
(* that of a lasting name has its records.                                  *)
Steps ==
  /\ \A a \in net : a # Query(qname) =>
       NoneBetween(qname, a.next) /\ (qname \in stable => a.found)
  /\ phase = "types" => NoneBetween(qname, nextrr) /\ ~first

(* What has been listed lies behind, or the walk is back. *)
Behind ==
  start \in stable =>
    /\ \A n \in Names : listed[n] <= 1
    /\ phase = "types" => \A n \in Names : listed[n] = 0 \/ Before(n, qname)
    /\ phase = "nsec" => \A n \in Names :
         listed[n] = 0 \/ Before(n, qname) \/ (qname = start /\ ~first)

(* And what lies behind has been listed. *)
Covered ==
  /\ Walking =>
       \/ AllListed
       \/ ListedBefore /\ (phase = "nsec" /\ qname = start => first)
  /\ phase = "done" => AllListed \/ stable \subseteq {qname}

WInv == TypeOK /\ Steps /\ Behind /\ Covered

-----------------------------------------------------------------------------
(* Min is the smallest name, since numbers are well-founded.               *)
LEMMA MinIs ==
  ASSUME NEW S \in SUBSET Names, S # {}
  PROVE  Min(S) \in S /\ \A x \in S : Min(S) <= x
<1> DEFINE R == OpToRel(<, Nat)
<1>1. IsWellFoundedOn(R, Nat)
  BY NatLessThanWellFounded
<1>2. \A a, b \in Nat : a < b => <<a, b>> \in R
  BY DEF OpToRel
<1>3. S \subseteq Nat
  BY CountAssumption DEF Names
<1> HIDE DEF R
<1>4. PICK m \in S : \A k \in S : ~(<<k, m>> \in R)
  BY <1>1, <1>3, WFMin
<1>5. \A k \in S : m <= k
  <2> TAKE k \in S
  <2>1. m \in Nat /\ k \in Nat
    BY <1>3
  <2>2. ~(k < m)
    BY <1>2, <1>4, <2>1, Zenon
  <2> QED
    BY <2>1, <2>2
<1> QED
  BY <1>5 DEF Min

(* The name that the server finds next. *)
LEMMA NextInIs ==
  ASSUME NEW Z \in SUBSET Names, NEW q \in Names, Z # {}
  PROVE  /\ NextIn(Z, q) \in Names
         /\ \A n \in Z : IF q < NextIn(Z, q) THEN ~(q < n /\ n < NextIn(Z, q))
                         ELSE NextIn(Z, q) <= n /\ n <= q
<1> DEFINE A == {x \in Z : x > q}
           m == NextIn(Z, q)
<1>0. Names \subseteq Int
  BY DEF Names
<1>1. CASE A # {}
  <2>1. Min(A) \in A /\ \A x \in A : Min(A) <= x
    BY <1>1, MinIs
  <2>2. m = Min(A)
    BY <1>1 DEF NextIn
  <2> HIDE DEF m
  <2>3. m \in Z /\ m > q /\ \A x \in Z : x > q => m <= x
    BY <2>1, <2>2
  <2>4. m \in Names /\ \A n \in Z : ~(q < n /\ n < m)
    BY <1>0, <2>3
  <2> QED
    BY <1>0, <2>3, <2>4 DEF m
<1>2. CASE A = {}
  <2>1. Min(Z) \in Z /\ \A x \in Z : Min(Z) <= x
    BY MinIs
  <2>2. m = Min(Z)
    BY <1>2 DEF NextIn
  <2> HIDE DEF m
  <2>3. m \in Names /\ \A n \in Z : m <= n /\ n <= q
    <3>1. \A n \in Z : ~(n > q)
      BY <1>2
    <3>2. m \in Z
      BY <2>1, <2>2
    <3>3. \A n \in Z : m <= n
      BY <2>1, <2>2
    <3> HIDE DEF A
    <3>4. \A n \in Z : n <= q
      BY <1>0, <3>1
    <3> QED
      BY <3>2, <3>3, <3>4
  <2>4. ~(q < m)
    BY <1>0, <2>1, <2>2, <2>3
  <2> QED
    BY <2>3, <2>4 DEF m
<1> QED
  BY <1>1, <1>2

(* Initially no name is before the start, so that none has been missed.    *)
LEMMA WalkInit == Init => WInv
<1> SUFFICES ASSUME Init PROVE WInv
  OBVIOUS
<1>1. TypeOK
  BY CountAssumption, BoundAssumption DEF Init, TypeOK, Names, Walking
<1>2. \A n \in Names : ~Before(n, start)
  BY DEF Init, Before, Names
<1>3. stable \subseteq Names
  BY <1>1 DEF TypeOK
<1> QED
  BY <1>1, <1>2, <1>3
    DEF Init, WInv, Steps, Behind, Covered, ListedBefore, Walking

(* The walk goes from q to next, which no lasting name comes between: what *)
(* is behind next is behind q or q, and if the walk passes its start every *)
(* lasting name is.                                                        *)
LEMMA Forward ==
  ASSUME NEW q \in Names, NEW next \in Names, start \in Names,
         stable \subseteq Names, NoneBetween(q, next)
  PROVE  /\ \A n \in stable : Before(n, next) /\ Before(q, next) =>
                                Before(n, q) \/ n = q
         /\ ~Before(q, next) => \A n \in stable : Before(n, q) \/ n = q
         /\ start \in stable => next = start \/ Before(q, next)
BY DEF Before, NoneBetween, Names

(* The order of the walk, from its start around the zone ...               *)
LEMMA Transitive ==
  ASSUME start \in Names, NEW a \in Names, NEW b \in Names, NEW c \in Names,
         Before(a, b), Before(b, c)
  PROVE  Before(a, c)
BY DEF Before, Names

(* ... is one: no name is before itself, none before the start.            *)
LEMMA Irreflexive ==
  ASSUME start \in Names, NEW a \in Names
  PROVE  ~Before(a, a) /\ ~Before(a, start)
BY DEF Before, Names
-----------------------------------------------------------------------------
(* The steps of the walk. *)

(* The types are kept by every step, one case per action.                  *)
LEMMA TypeStep == TypeOK /\ [Next]_vars => TypeOK'
<1> SUFFICES ASSUME TypeOK, [Next]_vars PROVE TypeOK'
  OBVIOUS
<1> USE CountAssumption, BoundAssumption DEF TypeOK, server, walk, Walking
<1>1. CASE Serve
  <2>1. /\ Answer(qname) \in [of : {qname}, found : BOOLEAN, next : Names]
    <3>1. NextIn(zone, qname) \in Names
      BY NextInIs
    <3> QED
      BY <3>1 DEF Answer
  <2> QED
    BY <1>1, <2>1 DEF Serve
<1>2. CASE Lose
  BY <1>2 DEF Lose
<1>3. CASE Change
  BY <1>3 DEF Change
<1>4. CASE Ask
  BY <1>4 DEF Ask
<1>5. CASE Timeout
  BY <1>5 DEF Timeout, TriesLeft
<1>6. CASE WalkNSEC
  <2>1. PICK a \in net :
          /\ a # Query(qname) /\ net' = {} /\ tries' = 0
          /\ phase' \in {"error", "done", "types"}
          /\ nextrr' \in {a.next, nextrr} /\ zone' = zone
    BY <1>6 DEF WalkNSEC, Receive
  <2>2. a.next \in Names
    BY <2>1
  <2>3. /\ rest' = IF phase' = "types" THEN Types ELSE 0
        /\ first' = FALSE
        /\ UNCHANGED <<zone, updates, stable, start, qname, listed>>
    BY <1>6 DEF WalkNSEC, Receive
  <2>4. net' \subseteq {Query(qname)'} \cup
                       [of : {qname'}, found : BOOLEAN, next : Names]
    BY <2>1
  <2>5. nextrr' \in Names
    BY <2>1, <2>2, Zenon
  <2>8. /\ first' \in BOOLEAN
        /\ tries' \in 0..Retries /\ (tries' = 0 => net' = {})
    <3> HIDE DEF TypeOK
    <3>1. 0 \in 0..Retries
      OBVIOUS
    <3> QED
      BY <2>1, <2>3, <3>1
  <2>6. /\ rest' \in 0..Types
        /\ phase' \in {"nsec", "types", "done", "error"}
        /\ phase' = "types" <=> rest' > 0 /\ phase' \in {"nsec", "types"}
    BY <2>1, <2>3
  <2>7. /\ zone' \subseteq Names /\ 1 \in zone' /\ stable' \subseteq zone'
        /\ updates' \in 0..MaxUpdates
        /\ start' \in Names /\ qname' \in Names
        /\ listed' \in [Names -> 0..2]
    BY <2>1, <2>3
  <2> QED
    BY <2>4, <2>5, <2>6, <2>7, <2>8
<1>7. CASE PrintRRs
  BY <1>7 DEF PrintRRs, Receive, Once
<1>8. CASE Terminated
  BY <1>8 DEF Terminated, vars
<1>9. CASE UNCHANGED vars
  BY <1>9 DEF vars
<1> QED
  BY <1>1, <1>2, <1>3, <1>4, <1>5, <1>6, <1>7, <1>8, <1>9 DEF Next, Client

(* Every answer that arrives skips no lasting name. *)
LEMMA StepsStep == TypeOK /\ TypeOK' /\ Steps /\ [Next]_vars => Steps'
<1> SUFFICES ASSUME TypeOK, TypeOK', Steps, [Next]_vars PROVE Steps'
  OBVIOUS
<1> USE DEF server, walk, Walking
<1>1. CASE Serve
  <2>1. /\ NoneBetween(qname, Answer(qname).next)
        /\ qname \in stable => Answer(qname).found
    BY NextInIs DEF TypeOK, NoneBetween, Answer
  <2>2. net' \subseteq net \cup {Answer(qname)}
    BY <1>1 DEF Serve
  <2> QED
    BY <1>1, <2>1, <2>2 DEF Serve, Steps, NoneBetween, Query
<1>2. CASE Lose
  BY <1>2 DEF Lose, Steps, NoneBetween, Query
<1>3. CASE Change
  BY <1>3 DEF Change, Steps, NoneBetween, Query
<1>4. CASE Ask
  BY <1>4 DEF Ask, Steps, NoneBetween, Query
<1>5. CASE Timeout
  BY <1>5 DEF Timeout, Steps, NoneBetween, Query
<1>6. CASE WalkNSEC
  <2>1. PICK a \in net :
          /\ a # Query(qname) /\ net' = {}
          /\ phase' = "types" => nextrr' = a.next
    BY <1>6 DEF WalkNSEC, Receive
  <2>2. first' = FALSE /\ UNCHANGED <<stable, qname>>
    BY <1>6 DEF WalkNSEC, Receive
  <2> QED
    BY <2>1, <2>2 DEF Steps, NoneBetween
<1>7. CASE PrintRRs
  BY <1>7 DEF PrintRRs, Receive, Steps, NoneBetween
<1>8. CASE UNCHANGED vars
  BY <1>8 DEF vars, Steps, NoneBetween, Query
<1> QED
  BY <1>1, <1>2, <1>3, <1>4, <1>5, <1>6, <1>7, <1>8 DEF Next, Client, Terminated

(* zonewalk stops when it is back where it started. *)
LEMMA BehindStep ==
  TypeOK /\ TypeOK' /\ Steps /\ Behind /\ [Next]_vars => Behind'
<1> SUFFICES ASSUME TypeOK, TypeOK', Steps, Behind, [Next]_vars, (start \in stable)'
             PROVE  Behind'
  BY DEF Behind
<1> USE DEF server, walk, Walking
<1>0. start' = start /\ start \in stable
  BY DEF Next, Client, Serve, Lose, Change, Ask, Timeout, WalkNSEC, PrintRRs,
         Receive, Terminated, vars
<1>1. CASE UNCHANGED walk
  BY <1>0, <1>1 DEF Behind, Before
<1>2. CASE Timeout
  BY <1>0, <1>2 DEF Timeout, Behind, Before
<1>3. CASE WalkNSEC
  <2>1. /\ phase = "nsec" /\ UNCHANGED <<qname, listed>>
        /\ phase' = "types" => ~(~first /\ qname = start)
        /\ phase' # "nsec"
    BY <1>3 DEF WalkNSEC, Back
  <2> QED
    BY <1>0, <2>1 DEF Behind, Before
<1>4. CASE PrintRRs
  <2>1. CASE UNCHANGED <<qname, listed>> /\ phase' \in {"types", "error"}
    BY <1>0, <1>4, <2>1 DEF PrintRRs, Behind, Before
  <2>2. CASE /\ phase' = "nsec" /\ qname' = nextrr
             /\ listed' \in {Once(qname), listed}
    <3>1. /\ \A n \in Names : listed[n] <= 1
          /\ \A n \in Names : listed[n] = 0 \/ Before(n, qname)
          /\ ~first' /\ NoneBetween(qname, nextrr)
      BY <1>0, <1>4 DEF Behind, PrintRRs, Steps
    <3>2. nextrr = start \/ Before(qname, nextrr)
      BY <1>0, <3>1, Forward DEF TypeOK
    <3>3. listed[qname] = 0
      BY <3>1, Irreflexive DEF TypeOK
    <3>4. listed' \in {[listed EXCEPT ![qname] = 1], listed}
      BY <2>2, <3>3 DEF Once, TypeOK
    <3>5. \A n \in Names : listed'[n] <= 1
      BY <3>1, <3>4 DEF TypeOK
    <3>6. ASSUME NEW n \in Names, listed'[n] # 0, nextrr # start
          PROVE  Before(n, nextrr)
      <4>1. Before(n, qname) \/ n = qname
        BY <3>1, <3>4, <3>6 DEF TypeOK
      <4> QED
        BY <3>2, <3>6, <4>1, Transitive DEF TypeOK
    <3>7. \A n \in Names : listed'[n] = 0 \/ Before(n, nextrr) \/ nextrr = start
      BY <3>6
    <3> QED
      BY <1>0, <2>2, <3>1, <3>5, <3>7 DEF Behind, Before
  <2> QED
    BY <1>4, <2>1, <2>2 DEF PrintRRs
<1> QED
  BY <1>1, <1>2, <1>3, <1>4
    DEF Next, Client, Serve, Lose, Change, Ask, Terminated, vars

(* What lies behind the walk has been listed. *)
LEMMA CoveredStep ==
  TypeOK /\ TypeOK' /\ Steps /\ Covered /\ [Next]_vars => Covered'
<1> SUFFICES ASSUME TypeOK, TypeOK', Steps, Covered, [Next]_vars PROVE Covered'
  OBVIOUS
<1> USE DEF server, walk, Walking
<1>0. start' = start /\ stable' \subseteq stable
  BY DEF Next, Client, Serve, Lose, Change, Ask, Timeout, WalkNSEC, PrintRRs,
         Receive, Terminated, vars
<1>1. CASE UNCHANGED walk
  BY <1>0, <1>1 DEF Covered, AllListed, ListedBefore, Before
<1>2. CASE Timeout
  BY <1>0, <1>2 DEF Timeout, Covered, AllListed, ListedBefore, Before
<1>3. CASE WalkNSEC
  <2>1. PICK a \in net :
          /\ a # Query(qname)
          /\ phase' \in {"error", "done", "types"}
          /\ phase' = "done" => ~first /\ Back(qname, a.next)
    BY <1>3 DEF WalkNSEC, Receive
  <2>2. phase = "nsec" /\ UNCHANGED <<stable, start, qname, listed>>
    BY <1>3 DEF WalkNSEC, Receive
  <2>3. ASSUME phase' = "done"  PROVE AllListed \/ stable \subseteq {qname}
    <3>1. CASE a.next = qname
      <4>1. \A n \in stable : qname <= n /\ n <= qname
        BY <2>1, <3>1 DEF Steps, NoneBetween, TypeOK, Names
      <4>2. \A n \in stable : n = qname
        BY <4>1 DEF TypeOK, Names
      <4> QED
        BY <4>2
    <3>2. CASE qname = start
      BY <2>1, <2>2, <2>3, <3>2 DEF Covered
    <3> QED
      BY <2>1, <2>3, <3>1, <3>2 DEF Back
  <2> QED
    BY <2>1, <2>2, <2>3 DEF Covered, AllListed, ListedBefore, Before
<1>4. CASE PrintRRs
  <2>1. CASE UNCHANGED <<qname, listed>> /\ phase' \in {"types", "error"}
    BY <1>0, <1>4, <2>1 DEF PrintRRs, Covered, AllListed, ListedBefore, Before
  <2>2. CASE /\ phase' = "nsec" /\ qname' = nextrr
             /\ \E a \in net : /\ a # Query(qname)
                               /\ listed' = IF a.found THEN Once(qname) ELSE listed
    <3>1. /\ NoneBetween(qname, nextrr) /\ UNCHANGED <<stable, start>>
          /\ AllListed \/ ListedBefore
      BY <1>4 DEF Covered, PrintRRs, Receive, Steps
    <3>2. /\ \A n \in Names : listed[n] > 0 => listed'[n] > 0
          /\ qname \in stable => listed'[qname] > 0
      <4>1. listed' \in {Once(qname), listed}
        BY <2>2
      <4>2. qname \in stable => listed' = Once(qname)
        BY <2>2 DEF Steps
      <4> QED
        BY <4>1, <4>2 DEF Once, TypeOK
    <3>3. CASE AllListed
      BY <2>2, <3>1, <3>2, <3>3 DEF Covered, AllListed, TypeOK
    <3>4. CASE ListedBefore /\ Before(qname, nextrr)
      <4>1. \A n \in stable : Before(n, nextrr) => Before(n, qname) \/ n = qname
        BY <3>1, <3>4, Forward DEF TypeOK
      <4>2. \A n \in stable : Before(n, nextrr) => listed'[n] > 0
        BY <3>2, <3>4, <4>1 DEF ListedBefore, TypeOK
      <4>3. nextrr # start
        BY <3>4, Irreflexive DEF TypeOK
      <4> QED
        BY <2>2, <3>1, <4>2, <4>3 DEF Covered, ListedBefore, Before
    <3>5. CASE ListedBefore /\ ~Before(qname, nextrr)
      <4>1. \A n \in stable : Before(n, qname) \/ n = qname
        BY <3>1, <3>5, Forward DEF TypeOK
      <4>2. \A n \in stable : listed'[n] > 0
        BY <3>2, <3>5, <4>1 DEF ListedBefore, TypeOK
      <4> QED
        BY <2>2, <3>1, <4>2 DEF Covered, AllListed
    <3> QED
      BY <3>1, <3>3, <3>4, <3>5
  <2> QED
    BY <1>4, <2>1, <2>2 DEF PrintRRs, Receive
<1> QED
  BY <1>1, <1>2, <1>3, <1>4
    DEF Next, Client, Serve, Lose, Change, Ask, Terminated, vars

(* The inductive invariant of the walk.                                    *)
LEMMA WalkInvariant == Spec => []WInv
<1>1. WInv /\ [Next]_vars => WInv'
  BY TypeStep, StepsStep, BehindStep, CoveredStep DEF WInv
<1> QED
  BY <1>1, WalkInit, PTL DEF Spec

-----------------------------------------------------------------------------
(* The variables keep their types; between two exchanges nothing of the    *)
(* last one can arrive.                                                    *)
THEOREM TypeCorrect == Spec => []TypeOK
<1>1. WInv => TypeOK
  BY DEF WInv
<1> QED
  BY <1>1, WalkInvariant, PTL

(* zonewalk prints the records of no name twice, in a zone of any size and *)
(* however it changes, as long as the name it started from stays.          *)
THEOREM NoneTwice == Spec => []ListedOnce
<1>1. WInv => ListedOnce
  BY DEF WInv, Behind, ListedOnce
<1> QED
  BY <1>1, WalkInvariant, PTL

(* zonewalk leaves no name out that is in the zone all the time, whatever  *)
(* else changes, if it ends without an error and there are two of these.   *)
THEOREM NoneLeftOut == Spec => []EnumeratesStableOfTwo
<1>1. ASSUME WInv, phase = "done", Cardinality(stable) > 1
      PROVE  \A n \in stable : listed[n] > 0
  <2>1. AllListed \/ stable \subseteq {qname}
    BY <1>1 DEF WInv, Covered
  <2>2. ~(stable \subseteq {qname})
    <3> SUFFICES ASSUME stable \subseteq {qname} PROVE Cardinality(stable) \in {0, 1}
      BY <1>1
    <3>1. stable = {} \/ stable = {qname}
      OBVIOUS
    <3> QED
      BY <3>1, FS_EmptySet, FS_Singleton
  <2> QED
    BY <2>1, <2>2 DEF AllListed
<1>2. WInv => EnumeratesStableOfTwo
  BY <1>1 DEF EnumeratesStableOfTwo
<1> QED
  BY <1>2, WalkInvariant, PTL
=============================================================================
