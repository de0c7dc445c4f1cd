-------------------------- MODULE DigCompare_proofs --------------------------
(***************************************************************************)
(* Proofs about DigCompare, for any records, any rules and any number of   *)
(* changesets in an answer: the automaton of digcmp.py recognises the end  *)
(* of an answer however long, and of answers of one changeset or a whole   *)
(* zone the verdict of _dig_both is exact.                                 *)
(*                                                                         *)
(* The argument: the globals of digcmp.py are a function of the answer and *)
(* the number of its SOA lines read (Follows).  So the output is a function*)
(* of the answer and of what has been read of it (Outputs), in whichever   *)
(* order the records came, and no two changes of one changeset are tagged  *)
(* alike; two outputs then differ in excused lines only exactly when the   *)
(* answers are the same without the excused records (Agreement).           *)
(***************************************************************************)
EXTENDS DigCompare, TLAPS

-----------------------------------------------------------------------------
(* Answers and the lines they are printed as.                              *)

(* What an answer consists of: no, one zone, or up to Steps changesets.    *)
LEMMA Shape ==
  ASSUME NEW k \in {"AXFR", "IXFR"}, NEW a \in Answers(k)
  PROVE  \/ a.form = "none" /\ a = [form |-> "none"]
         \/ a.form = "full" /\ a \in [form : {"full"}, zone : SUBSET RRs]
         \/ /\ a.form = "steps" /\ k = "IXFR"
            /\ \E n \in 1..Steps :
                 /\ a.steps \in [1..n -> Changesets]
                 /\ Len(a.steps) = n
                 /\ DOMAIN a.steps = 1..n
                 /\ a = [form |-> "steps", steps |-> a.steps]
<1>1. CASE a \in [form : {"none"}]
  BY <1>1
<1>2. CASE a \in [form : {"full"}, zone : SUBSET RRs]
  BY <1>2
<1>3. CASE a \notin [form : {"none"}] \cup [form : {"full"}, zone : SUBSET RRs]
  <2>1. /\ k = "IXFR" /\ a.form = "steps"
        /\ a = [form |-> "steps", steps |-> a.steps]
        /\ a.steps \in UNION {[1..n -> Changesets] : n \in 1..Steps}
    BY <1>3 DEF Answers
  <2>2. PICK n \in 1..Steps : a.steps \in [1..n -> Changesets]
    BY <2>1
  <2>3. DOMAIN a.steps = 1..n
    BY <2>2
  <2>4. n \in Nat
    BY <2>2, StepsAssumption
  <2>5. Len(a.steps) = n
    BY <2>2, <2>3, <2>4
  <2> QED
    BY <2>1, <2>2, <2>3, <2>5
<1> QED
  BY <1>1, <1>2, <1>3

(* An answer begins and ends with the same SOA line, and no SOA line       *)
(* between has that serial in an even place.                               *)
LEMMA Framing ==
  ASSUME NEW k \in {"AXFR", "IXFR"}, NEW a \in Answers(k)
  PROVE  /\ Chunks(a) \in Nat /\ Chunks(a) % 2 = 0 /\ LastSerial(a) \in Serials
         /\ a.form = "none" => Chunks(a) = 0
         /\ a.form = "full" => Chunks(a) = 2
         /\ a.form = "steps" => Chunks(a) >= 4 /\ k = "IXFR"
         /\ a.form \in {"none", "full", "steps"}
         /\ \A c \in 1..Chunks(a) : Serial(a, c) \in Serials
         /\ a.form = "steps" =>
              \A c \in 2..Chunks(a) :
                c % 2 = 0 => (Serial(a, c) = LastSerial(a) <=> c = Chunks(a))
<1>1. CASE a.form = "none"
  BY <1>1, StepsAssumption DEF Chunks, Serials, LastSerial
<1>2. CASE a.form = "full"
  BY <1>2, StepsAssumption DEF Chunks, Serials, LastSerial, Serial
<1>3. CASE a.form = "steps"
  <2>1. PICK n \in 1..Steps : Len(a.steps) = n /\ k = "IXFR"
    BY <1>3, Shape
  <2>2. Chunks(a) = 2 * n + 2 /\ LastSerial(a) = n + 1
    BY <1>3, <2>1 DEF Chunks, LastSerial
  <2>3. n \in Nat /\ 1 <= n /\ n <= Steps /\ Steps \in Nat /\ Serials = 1..(Steps + 1)
    BY <2>1, StepsAssumption DEF Serials
  <2>4. ASSUME NEW c \in 1..Chunks(a)
        PROVE  /\ c \in {1, 2 * n + 2} => Serial(a, c) = n + 1
               /\ c \notin {1, 2 * n + 2} => Serial(a, c) = (c + 1) \div 2
    BY <2>2 DEF Serial
  <2>5. ASSUME NEW c \in 1..Chunks(a)
        PROVE  Serial(a, c) \in Serials
    <3>1. c \in 1..(2 * n + 2) /\ c \in Nat
      BY <2>2, <2>3
    <3>2. CASE c \in {1, 2 * n + 2}
      BY <2>3, <2>4, <3>2
    <3>3. CASE c \notin {1, 2 * n + 2}
      <4>1. (c + 1) \div 2 \in 1..(Steps + 1)
        BY <2>3, <3>1, <3>3
      <4> QED
        BY <2>3, <2>4, <3>3, <4>1
    <3> QED
      BY <3>2, <3>3
  <2>6. ASSUME NEW c \in 2..Chunks(a), c % 2 = 0
        PROVE  Serial(a, c) = LastSerial(a) <=> c = Chunks(a)
    <3>1. c \in 2..(2 * n + 2) /\ c \in Nat /\ c \in 1..Chunks(a)
      BY <2>2, <2>3
    <3>2. CASE c = 2 * n + 2
      BY <2>2, <2>4, <3>1, <3>2
    <3>3. CASE c # 2 * n + 2
      <4>1. (c + 1) \div 2 # n + 1
        BY <2>3, <2>6, <3>1, <3>3
      <4>2. c \notin {1, 2 * n + 2}
        BY <3>1, <3>3
      <4> QED
        BY <2>2, <2>4, <3>1, <3>3, <4>1, <4>2
    <3> QED
      BY <3>2, <3>3
  <2>7. (2 * n + 2) \in Nat /\ (2 * n + 2) % 2 = 0 /\ 2 * n + 2 >= 4 /\ n + 1 \in 1..(Steps + 1)
    BY <2>3
  <2> QED
    BY <1>3, <2>1, <2>2, <2>3, <2>5, <2>6, <2>7
<1> QED
  BY <1>1, <1>2, <1>3, Shape

-----------------------------------------------------------------------------
(* The automaton after c SOA lines of answer a.                            *)

Closed(a, c) == a.form = "steps" /\ c = Chunks(a)

StateAt(k, a, c) ==
  IF k = "AXFR" THEN "AXFR_BEGIN"
  ELSE IF c = 0 \/ Closed(a, c) THEN "IXFR_BEGIN"
  ELSE IF c = 1 THEN "IXFR_CHANGESET"
  ELSE IF c % 2 = 0 THEN "IXFR_REMOVE" ELSE "IXFR_ADD"

SectionAt(k, a, c) ==
  IF k = "AXFR" THEN [tag |-> "axfr", sn |-> 0]
  ELSE IF c = 0 THEN [tag |-> "ixfr", sn |-> 0]
  ELSE IF c = 1 \/ Closed(a, c) THEN [tag |-> "ixfr-soa", sn |-> 0]
  ELSE [tag |-> IF c = 2 THEN "ixfr-add" ELSE "ixfr-rem", sn |-> Serial(a, c)]

SerialAt(k, a, c) == IF k = "AXFR" \/ c = 0 THEN 0 ELSE LastSerial(a)

(* Values of the variables, and what is read belongs to the answer.        *)
Reading ==
  /\ kind \in {"AXFR", "IXFR"}
  /\ answer \in [Servers -> Answers(kind)]
  /\ turn \in Servers \cup {"diff", "done"}
  /\ turn \in Servers =>
       /\ at \in 0..Chunks(answer[turn])
       /\ rest \subseteq After(answer[turn], at)

(* The globals of digcmp.py tell how much of the output has been read, and *)
(* nothing of the output before it.                                        *)
Tracks ==
  turn \in Servers =>
    /\ g_state = StateAt(kind, answer[turn], at)
    /\ g_section = SectionAt(kind, answer[turn], at)
    /\ g_serial = SerialAt(kind, answer[turn], at)

(* The actions by which digcmp.py reads an SOA line. *)
ReadSOA ==
  ReadInAxfr \/ ReadInBegin \/ ReadInChangeset \/ ReadInRemove \/ ReadInAdd

(* A line digcmp.py prints, and the SOA lines it prints. *)
SoaLine(k, a, c) == <<SectionAt(k, a, c), [sn |-> Serial(a, c), rr |-> "SOA"]>>
RecordLine(k, a, c, r) == <<SectionAt(k, a, c), [sn |-> 0, rr |-> r]>>
Shown(k, a, c) == k = "AXFR" \/ (c # 1 /\ ~Closed(a, c))

(* Whatever the state of the automaton, an SOA line takes it to the place  *)
(* of that line, and the line is printed under the section it enters.      *)
LEMMA SOAStep ==
  ASSUME Reading, Tracks, ReadSOA
  PROVE  /\ turn \in Servers /\ rest = {} /\ at < Chunks(answer[turn])
         /\ UNCHANGED <<kind, answer, turn, ret>>
         /\ at' = at + 1 /\ rest' = After(answer[turn], at + 1)
         /\ g_state' = StateAt(kind, answer[turn], at + 1)
         /\ g_section' = SectionAt(kind, answer[turn], at + 1)
         /\ g_serial' = SerialAt(kind, answer[turn], at + 1)
         /\ out' = IF Shown(kind, answer[turn], at + 1)
                   THEN [out EXCEPT ![turn] = BagAdd(@, SoaLine(kind, answer[turn], at + 1))]
                   ELSE out
<1> DEFINE a == answer[turn]
           c == at + 1
<1>1. PICK sn \in Serials : TakeSOA(sn)
  BY DEF ReadSOA, ReadInAxfr, ReadInBegin, ReadInChangeset, ReadInRemove, ReadInAdd
<1>2. /\ turn \in Servers /\ rest = {} /\ at < Chunks(a)
      /\ UNCHANGED <<kind, answer, turn, ret>>
      /\ at' = c /\ rest' = After(a, c)
  BY <1>1 DEF TakeSOA
<1>3. /\ kind \in {"AXFR", "IXFR"} /\ a \in Answers(kind) /\ at \in 0..Chunks(a)
      /\ g_state = StateAt(kind, a, at) /\ g_section = SectionAt(kind, a, at)
      /\ g_serial = SerialAt(kind, a, at)
  BY <1>2 DEF Reading, Tracks
<1>4. /\ Chunks(a) \in Nat /\ Chunks(a) % 2 = 0
      /\ a.form \in {"none", "full", "steps"}
      /\ a.form = "full" => Chunks(a) = 2
      /\ a.form = "none" => Chunks(a) = 0
      /\ a.form = "steps" => Chunks(a) >= 4
      /\ a.form = "steps" => \A m \in 2..Chunks(a) :
            m % 2 = 0 => (Serial(a, m) = LastSerial(a) <=> m = Chunks(a))
  BY <1>3, Framing
<1>5. at \in Nat /\ c \in Nat /\ c # 0 /\ c <= Chunks(a)
  BY <1>2, <1>3, <1>4
<1> HIDE DEF a, c
<1> DEFINE Result ==
             /\ g_state' = StateAt(kind, a, c)
             /\ g_section' = SectionAt(kind, a, c)
             /\ g_serial' = SerialAt(kind, a, c)
             /\ out' = IF Shown(kind, a, c)
                       THEN [out EXCEPT ![turn] = BagAdd(@, SoaLine(kind, a, c))]
                       ELSE out
<1> SUFFICES Result
  BY <1>2 DEF a, c
<1>6. CASE ReadInAxfr
  <2>1. /\ g_state = "AXFR_BEGIN" /\ UNCHANGED glob
        /\ print_data(Serial(a, c), "SOA")
    BY <1>6 DEF ReadInAxfr, TakeSOA, a, c
  <2>2. kind = "AXFR"
    BY <1>3, <2>1 DEF StateAt
  <2> QED
    BY <1>3, <2>1, <2>2 DEF glob, print_data, StateAt, SectionAt, SerialAt, Shown, SoaLine
<1>7. CASE ReadInBegin
  <2>1. /\ g_state = "IXFR_BEGIN" /\ g_serial' = Serial(a, c)
        /\ g_state' = "IXFR_CHANGESET" /\ g_section' = [tag |-> "ixfr-soa", sn |-> 0]
        /\ out' = out
    BY <1>7 DEF ReadInBegin, TakeSOA, enter, Hide, a, c
  <2>2. kind # "AXFR" /\ at = 0
    BY <1>2, <1>3, <1>5, <2>1 DEF StateAt, Closed
  <2>3. c = 1 /\ Chunks(a) # 1
    BY <1>4, <2>2 DEF c
  <2>4. Serial(a, c) = LastSerial(a) /\ ~Closed(a, c)
    BY <2>3 DEF Serial, Closed
  <2> QED
    BY <2>1, <2>2, <2>3, <2>4 DEF StateAt, SectionAt, SerialAt, Shown
<1>8. CASE ReadInChangeset
  <2>1. /\ g_state = "IXFR_CHANGESET" /\ g_serial' = g_serial
        /\ g_state' = "IXFR_REMOVE" /\ g_section' = [tag |-> "ixfr-add", sn |-> Serial(a, c)]
        /\ print_data(Serial(a, c), "SOA")
    BY <1>8 DEF ReadInChangeset, TakeSOA, enter, a, c
  <2>2. kind # "AXFR" /\ at = 1
    BY <1>3, <2>1 DEF StateAt
  <2>3. c = 2 /\ ~Closed(a, c)
    BY <1>4, <2>2 DEF Closed, c
  <2>4. g_serial = LastSerial(a) /\ c % 2 = 0
    BY <1>3, <2>2, <2>3 DEF SerialAt
  <2> QED
    BY <2>1, <2>2, <2>3, <2>4
    DEF print_data, StateAt, SectionAt, SerialAt, Shown, SoaLine
<1>9. CASE ReadInRemove
  <2>1. /\ g_state = "IXFR_REMOVE" /\ g_serial' = g_serial
        /\ g_state' = "IXFR_ADD" /\ g_section' = [tag |-> "ixfr-rem", sn |-> Serial(a, c)]
        /\ print_data(Serial(a, c), "SOA")
    BY <1>9 DEF ReadInRemove, TakeSOA, enter, a, c
  <2>2. kind # "AXFR" /\ at # 0 /\ at # 1 /\ at % 2 = 0
    BY <1>3, <2>1 DEF StateAt
  <2>3. c > 2 /\ c % 2 = 1 /\ ~Closed(a, c)
    BY <1>4, <1>5, <2>2 DEF Closed, c
  <2>4. g_serial = LastSerial(a) /\ c # 0 /\ c # 1 /\ c # 2 /\ c % 2 # 0
    BY <1>3, <1>5, <2>2, <2>3 DEF SerialAt
  <2> QED
    BY <2>1, <2>2, <2>3, <2>4
    DEF print_data, StateAt, SectionAt, SerialAt, Shown, SoaLine
<1>10. CASE ReadInAdd
  <2>1. /\ g_state = "IXFR_ADD" /\ g_serial' = g_serial
        /\ Serial(a, c) = g_serial =>
             /\ g_state' = "IXFR_BEGIN" /\ g_section' = [tag |-> "ixfr-soa", sn |-> 0]
             /\ out' = out
        /\ Serial(a, c) # g_serial =>
             /\ g_state' = "IXFR_REMOVE"
             /\ g_section' = [tag |-> "ixfr-rem", sn |-> Serial(a, c)]
             /\ print_data(Serial(a, c), "SOA")
    BY <1>10 DEF ReadInAdd, TakeSOA, Closes, enter, Hide, a, c
  <2>2. kind # "AXFR" /\ at # 0 /\ at # 1 /\ at % 2 # 0
    BY <1>3, <2>1 DEF StateAt
  <2>3. c > 2 /\ c % 2 = 0 /\ a.form = "steps"
    BY <1>2, <1>4, <1>5, <2>2 DEF c
  <2>4. g_serial = LastSerial(a) /\ c # 0 /\ c # 1 /\ c # 2
    BY <1>3, <1>5, <2>2, <2>3 DEF SerialAt
  <2>5. Serial(a, c) = LastSerial(a) <=> Closed(a, c)
    BY <1>4, <1>5, <2>3 DEF Closed
  <2>6. CASE Closed(a, c)
    BY <2>1, <2>2, <2>4, <2>5, <2>6 DEF StateAt, SectionAt, SerialAt, Shown
  <2>7. CASE ~Closed(a, c)
    BY <2>1, <2>2, <2>3, <2>4, <2>5, <2>7
    DEF print_data, StateAt, SectionAt, SerialAt, Shown, SoaLine
  <2> QED
    BY <2>6, <2>7
<1> QED
  BY <1>6, <1>7, <1>8, <1>9, <1>10 DEF ReadSOA

(* Records come after an SOA line that neither opens an incremental answer *)
(* nor closes it, and are no SOA lines themselves.                         *)
LEMMA RecordPlace ==
  ASSUME NEW k \in {"AXFR", "IXFR"}, NEW a \in Answers(k),
         NEW c \in 0..Chunks(a), NEW r \in After(a, c)
  PROVE  /\ c # 0 /\ ~Closed(a, c) /\ r \in RRs
         /\ a.form = "full" => c = 1 /\ r \in a.zone
         /\ a.form # "full" => a.form = "steps" /\ c \in 2..(Chunks(a) - 1)
<1>1. CASE a.form = "full"
  BY <1>1, Shape DEF After, Closed
<1>2. CASE a.form # "full"
  <2>1. c \in 2..(Chunks(a) - 1) /\ Chunks(a) \in Nat
    BY <1>2, Framing DEF After
  <2>2. a.form = "steps"
    BY <1>2, <2>1, Framing
  <2>3. PICK n \in 1..Steps : a.steps \in [1..n -> Changesets] /\ Len(a.steps) = n
    BY <2>2, Shape
  <2>4. n \in Nat /\ n >= 1 /\ Chunks(a) = 2 * n + 2
    BY <2>2, <2>3, StepsAssumption DEF Chunks
  <2>5. c \div 2 \in 1..n
    BY <2>1, <2>4
  <2>6. a.steps[c \div 2] \in Changesets
    BY <2>3, <2>5
  <2>7. r \in RRs
    BY <1>2, <2>1, <2>6 DEF After, Changesets
  <2> QED
    BY <1>2, <2>1, <2>2, <2>7 DEF Closed
<1> QED
  BY <1>1, <1>2

(* A record is printed under the section of the SOA line before it.        *)
LEMMA RecordStep ==
  ASSUME Reading, Tracks, ReadRecord
  PROVE  /\ turn \in Servers /\ UNCHANGED <<kind, answer, turn, at, glob, ret>>
         /\ \E r \in rest :
              /\ r \in After(answer[turn], at)
              /\ rest' = rest \ {r}
              /\ out' = [out EXCEPT ![turn] =
                           BagAdd(@, RecordLine(kind, answer[turn], at, r))]
<1> DEFINE a == answer[turn]
<1>1. PICK r \in rest :
        /\ TakeRecord(r) /\ UNCHANGED glob
        /\ IF g_state = "IXFR_BEGIN" THEN Hide ELSE print_data(0, r)
  BY DEF ReadRecord
<1>2. turn \in Servers /\ rest' = rest \ {r} /\ UNCHANGED <<kind, answer, turn, at, ret>>
  BY <1>1 DEF TakeRecord
<1>3. /\ kind \in {"AXFR", "IXFR"} /\ a \in Answers(kind) /\ at \in 0..Chunks(a)
      /\ r \in After(a, at) /\ g_state = StateAt(kind, a, at)
      /\ g_section = SectionAt(kind, a, at)
  BY <1>2 DEF Reading, Tracks
<1>4. at # 0 /\ ~Closed(a, at)
  BY <1>3, RecordPlace
<1>5. g_state # "IXFR_BEGIN"
  BY <1>3, <1>4 DEF StateAt
<1>6. g_section' = SectionAt(kind, a, at)
  BY <1>1, <1>3 DEF glob
<1>7. out' = [out EXCEPT ![turn] = BagAdd(@, RecordLine(kind, a, at, r))]
  BY <1>1, <1>5, <1>6 DEF print_data, RecordLine
<1> QED
  BY <1>1, <1>2, <1>3, <1>7

-----------------------------------------------------------------------------
(* The automaton follows the answer.                                       *)

Follows == Reading /\ Tracks

(* An output begins where the command line that dig prints puts the        *)
(* automaton.                                                              *)
LEMMA Opening ==
  ASSUME kind \in {"AXFR", "IXFR"}, NEW a \in Answers(kind)
  PROVE  /\ 0 \in 0..Chunks(a)
         /\ FirstState = StateAt(kind, a, 0)
         /\ FirstSection = SectionAt(kind, a, 0)
         /\ SerialAt(kind, a, 0) = 0
BY Framing DEF FirstState, FirstSection, StateAt, SectionAt, SerialAt

(* It holds of the first output, and every step keeps it: the records of   *)
(* ReadRecord leave the automaton alone, an SOA line takes it one place on *)
(* (SOAStep), the next process of digcmp.py begins anew.                   *)
LEMMA InitFollows == Init => Follows
<1> SUFFICES ASSUME Init PROVE Follows
  OBVIOUS
<1>1. /\ kind \in {"AXFR", "IXFR"} /\ answer \in [Servers -> Answers(kind)]
      /\ turn = "named" /\ turn \in Servers /\ answer[turn] \in Answers(kind)
      /\ at = 0 /\ rest = {} /\ g_state = FirstState
      /\ g_section = FirstSection /\ g_serial = 0
  BY DEF Init, Servers
<1>2. /\ 0 \in 0..Chunks(answer[turn])
      /\ FirstState = StateAt(kind, answer[turn], 0)
      /\ FirstSection = SectionAt(kind, answer[turn], 0)
      /\ SerialAt(kind, answer[turn], 0) = 0
  BY <1>1, Opening
<1> QED
  BY <1>1, <1>2 DEF Follows, Reading, Tracks

(* The step of that induction. *)
LEMMA NextFollows == Follows /\ [Next]_vars => Follows'
<1> SUFFICES ASSUME Reading, Tracks, [Next]_vars PROVE Reading' /\ Tracks'
  BY DEF Follows
<1>1. CASE ReadRecord
  <2>1. /\ turn \in Servers /\ UNCHANGED <<kind, answer, turn, at, glob>>
        /\ rest' \subseteq rest
    BY <1>1, RecordStep
  <2> QED
    BY <2>1 DEF Reading, Tracks, glob
<1>2. CASE ReadSOA
  <2>1. /\ turn \in Servers /\ at < Chunks(answer[turn])
        /\ UNCHANGED <<kind, answer, turn>>
        /\ at' = at + 1 /\ rest' = After(answer[turn], at + 1)
        /\ g_state' = StateAt(kind, answer[turn], at + 1)
        /\ g_section' = SectionAt(kind, answer[turn], at + 1)
        /\ g_serial' = SerialAt(kind, answer[turn], at + 1)
    BY <1>2, SOAStep
  <2>2. at + 1 \in 0..Chunks(answer[turn])
    <3>1. at \in 0..Chunks(answer[turn]) /\ Chunks(answer[turn]) \in Nat
      BY <2>1, Framing DEF Reading
    <3> QED
      BY <2>1, <3>1
  <2> QED
    BY <2>1, <2>2 DEF Reading, Tracks
<1>3. CASE NextOutput
  <2>1. /\ turn' \in {"knotd", "diff"} /\ UNCHANGED <<kind, answer>>
        /\ at' = 0 /\ rest' = {}
        /\ g_state' = FirstState /\ g_section' = FirstSection /\ g_serial' = 0
    BY <1>3 DEF NextOutput
  <2>2. CASE turn' = "knotd"
    <3>1. /\ turn' \in Servers /\ kind \in {"AXFR", "IXFR"}
          /\ answer[turn'] \in Answers(kind)
      BY <2>2 DEF Servers, Reading
    <3>2. /\ 0 \in 0..Chunks(answer[turn'])
          /\ FirstState = StateAt(kind, answer[turn'], 0)
          /\ FirstSection = SectionAt(kind, answer[turn'], 0)
          /\ SerialAt(kind, answer[turn'], 0) = 0
      BY <3>1, Opening
    <3> QED
      BY <2>1, <3>1, <3>2 DEF Reading, Tracks
  <2>3. CASE turn' = "diff"
    BY <2>1, <2>3 DEF Reading, Tracks, Servers
  <2> QED
    BY <2>1, <2>2, <2>3
<1>4. CASE Compare
  BY <1>4 DEF Compare, Reading, Tracks, Servers
<1>5. CASE UNCHANGED vars
  BY <1>5 DEF vars, glob, Reading, Tracks
<1> QED
  BY <1>1, <1>2, <1>3, <1>4, <1>5 DEF Next, ReadSOA, Returned

(* At every line of every output parse_data is in the state, the section   *)
(* and with the g_serial that the answer calls for at that line.           *)
THEOREM AutomatonFollows == Spec => []Follows
<1>1. Follows /\ [Next]_vars => Follows'
  BY NextFollows
<1> QED
  BY <1>1, InitFollows, PTL DEF Spec

(* When the output of an incremental answer ends, parse_data has taken its *)
(* last SOA for the closing one, of however many changesets: no SOA before *)
(* it in state IXFR_ADD has the serial the answer began with.              *)
THEOREM EndRecognised == Spec => []ClosedAtEnd
<1>1. Follows => ClosedAtEnd
  <2> SUFFICES ASSUME Follows, turn \in Servers, at = Chunks(answer[turn]),
                      answer[turn].form = "steps"
               PROVE  g_state = "IXFR_BEGIN" /\ g_serial = LastSerial(answer[turn])
    BY DEF ClosedAtEnd
  <2>1. kind \in {"AXFR", "IXFR"} /\ answer[turn] \in Answers(kind)
    BY DEF Follows, Reading
  <2>2. kind = "IXFR" /\ Chunks(answer[turn]) # 0
    BY <2>1, Framing
  <2>3. Closed(answer[turn], at)
    BY DEF Closed
  <2> QED
    BY <2>2, <2>3 DEF Follows, Tracks, StateAt, SerialAt
<1> QED
  BY <1>1, AutomatonFollows, PTL

-----------------------------------------------------------------------------
(* What the output of digcmp.py holds, of an answer of one changeset.      *)

Single(a) == a.form = "steps" => Len(a.steps) = 1

(* The lines printed of an answer a when c SOA lines and all records but   *)
(* those of R have been read.                                              *)
Lines(k, a, c, R) ==
  {SoaLine(k, a, j) : j \in {i \in 1..c : Shown(k, a, i)}}
    \cup UNION {{RecordLine(k, a, j, r) : r \in After(a, j) \ (IF j = c THEN R ELSE {})}
                : j \in 1..c}

(* Each once, but for the SOA of a zone, which comes first and last.       *)
Printed(k, a, c, R) ==
  [x \in Lines(k, a, c, R) |-> IF k = "AXFR" /\ x[2].rr = "SOA" THEN c ELSE 1]

(* The two kinds of printed lines. *)
LEMMA LinesMembers ==
  ASSUME NEW k, NEW a, NEW c \in Nat, NEW R, NEW x
  PROVE  x \in Lines(k, a, c, R) <=>
           \/ \E j \in 1..c : Shown(k, a, j) /\ x = SoaLine(k, a, j)
           \/ \E j \in 1..c : \E r \in After(a, j) :
                (j = c => r \notin R) /\ x = RecordLine(k, a, j, r)
BY DEF Lines

(* A line shows its section, and its record or the SOA and its serial.     *)
LEMMA LineParts ==
  ASSUME NEW k, NEW a, NEW j, NEW r
  PROVE  /\ RecordLine(k, a, j, r)[1] = SectionAt(k, a, j)
         /\ RecordLine(k, a, j, r)[2].rr = r
         /\ SoaLine(k, a, j)[1] = SectionAt(k, a, j)
         /\ SoaLine(k, a, j)[2].rr = "SOA"
         /\ SoaLine(k, a, j)[2].sn = Serial(a, j)
BY DEF RecordLine, SoaLine

(* A bag with one more copy of x, of an x that it lacks. *)
LEMMA BagAddNew ==
  ASSUME NEW B, NEW C, NEW x, x \notin DOMAIN B,
         C = [e \in DOMAIN C |-> C[e]], DOMAIN C = DOMAIN B \cup {x},
         C[x] = 1, \A e \in DOMAIN B : C[e] = B[e]
  PROVE  C = BagAdd(B, x)
BY DEF BagAdd

(* The same of an x it has. *)
LEMMA BagAddOld ==
  ASSUME NEW B, NEW C, NEW x, x \in DOMAIN B,
         C = [e \in DOMAIN C |-> C[e]], DOMAIN C = DOMAIN B,
         C[x] = B[x] + 1, \A e \in DOMAIN B \ {x} : C[e] = B[e]
  PROVE  C = BagAdd(B, x)
BY DEF BagAdd

(* Of one changeset, no two SOA lines that records follow have the same    *)
(* section, and no two that an incremental answer prints.                  *)
LEMMA OwnSection ==
  ASSUME NEW k \in {"AXFR", "IXFR"}, NEW a \in Answers(k), Single(a),
         NEW i \in 1..Chunks(a), NEW j \in 1..Chunks(a),
         SectionAt(k, a, i) = SectionAt(k, a, j)
  PROVE  /\ After(a, i) # {} /\ After(a, j) # {} => i = j
         /\ k = "IXFR" /\ Shown(k, a, i) /\ Shown(k, a, j) => i = j
<1>1. Chunks(a) \in Nat /\ i \in Nat /\ j \in Nat
  BY Framing
<1>2. CASE a.form = "steps"
  <2>1. Chunks(a) = 4 /\ k = "IXFR"
    <3>1. Len(a.steps) = 1
      BY <1>2 DEF Single
    <3>2. Chunks(a) = 4
      BY <1>2, <3>1 DEF Chunks
    <3> QED
      BY <1>2, <3>2, Framing
  <2>2. i \in {1, 2, 3, 4} /\ j \in {1, 2, 3, 4}
    BY <2>1
  <2>3. /\ \A m \in 1..4 : Shown(k, a, m) => m \in {2, 3}
        /\ \A m \in 1..4 : After(a, m) # {} => m \in {2, 3}
    BY <1>2, <2>1 DEF Shown, Closed, After
  <2>4. SectionAt(k, a, 2).tag = "ixfr-add" /\ SectionAt(k, a, 3).tag = "ixfr-rem"
    BY <2>1 DEF SectionAt, Closed
  <2> QED
    BY <2>2, <2>3, <2>4
<1>3. CASE a.form = "full"
  <2>1. Chunks(a) = 2
    BY <1>3, Framing
  <2>2. \A m \in 1..2 : After(a, m) # {} => m = 1
    BY <1>3 DEF After
  <2>3. k = "IXFR" => \A m \in 1..2 : Shown(k, a, m) => m = 2
    BY DEF Shown
  <2> QED
    BY <2>1, <2>2, <2>3
<1>4. CASE a.form = "none"
  BY <1>4, Framing
<1> QED
  BY <1>2, <1>3, <1>4, Framing

(* Reading a record adds its line to what was printed.                     *)
LEMMA RecordAdds ==
  ASSUME NEW k \in {"AXFR", "IXFR"}, NEW a \in Answers(k), Single(a),
         NEW c \in 0..Chunks(a), NEW R \in SUBSET After(a, c), NEW r \in R
  PROVE  Printed(k, a, c, R \ {r}) = BagAdd(Printed(k, a, c, R), RecordLine(k, a, c, r))
<1> DEFINE l == RecordLine(k, a, c, r)
<1>1. c \in Nat /\ c \in 1..Chunks(a) /\ r \in RRs /\ Chunks(a) \in Nat
  BY Framing, RecordPlace
<1>2. ASSUME NEW j \in 1..c, NEW s \in After(a, j), RecordLine(k, a, j, s) = l
      PROVE  s = r /\ j = c
  <2>1. j \in 1..Chunks(a) /\ j \in 0..Chunks(a)
    BY <1>1
  <2>2. s \in RRs
    BY <2>1, RecordPlace
  <2>3. s = r /\ SectionAt(k, a, j) = SectionAt(k, a, c)
    BY <1>2, LineParts
  <2> QED
    BY <1>1, <2>1, <2>3, OwnSection
<1>3. l \notin Lines(k, a, c, R)
  <2>1. l[2].rr = r /\ r # "SOA"
    BY <1>1, LineParts, RecordAssumption
  <2>2. ASSUME NEW j PROVE l # SoaLine(k, a, j)
    BY <2>1, LineParts
  <2>3. SUFFICES ASSUME l \in Lines(k, a, c, R) PROVE FALSE
    OBVIOUS
  <2>4. PICK j \in 1..c : \E s \in After(a, j) :
          (j = c => s \notin R) /\ l = RecordLine(k, a, j, s)
    BY <1>1, <2>2, <2>3, LinesMembers
  <2> QED
    BY <1>2, <2>4
<1>4. ASSUME NEW x
      PROVE  x \in Lines(k, a, c, R \ {r}) <=> x \in Lines(k, a, c, R) \/ x = l
  <2>1. CASE x = l
    BY <1>1, <2>1, LinesMembers
  <2>2. CASE x # l
    BY <1>1, <2>2, LinesMembers
  <2> QED
    BY <2>1, <2>2
<1>5. Lines(k, a, c, R \ {r}) = Lines(k, a, c, R) \cup {l}
  BY <1>4
<1>6. l[2].rr # "SOA"
  BY <1>1, LineParts, RecordAssumption
<1> HIDE DEF l
<1> DEFINE B == Printed(k, a, c, R)
           C == Printed(k, a, c, R \ {r})
<1>7. DOMAIN B = Lines(k, a, c, R) /\ DOMAIN C = DOMAIN B \cup {l}
  BY <1>5 DEF Printed
<1>8. C = [e \in DOMAIN C |-> C[e]] /\ C[l] = 1
  BY <1>5, <1>6 DEF Printed
<1>9. \A e \in DOMAIN B : C[e] = B[e]
  BY <1>5 DEF Printed
<1> HIDE DEF B, C
<1>10. C = BagAdd(B, l)
  BY <1>3, <1>7, <1>8, <1>9, BagAddNew
<1> QED
  BY <1>10 DEF B, C, l

(* Reading an SOA line that is printed adds it, and one that is not adds   *)
(* nothing.                                                                *)
LEMMA SOAAdds ==
  ASSUME NEW k \in {"AXFR", "IXFR"}, NEW a \in Answers(k), Single(a),
         NEW c \in Nat, c < Chunks(a)
  PROVE  Printed(k, a, c + 1, After(a, c + 1)) =
           IF Shown(k, a, c + 1)
             THEN BagAdd(Printed(k, a, c, {}), SoaLine(k, a, c + 1))
             ELSE Printed(k, a, c, {})
<1> DEFINE d == c + 1
           l == SoaLine(k, a, d)
<1>1. /\ d \in Nat /\ d \in 1..Chunks(a) /\ Chunks(a) \in Nat /\ d # c
      /\ \A j : j \in 1..d <=> j \in 1..c \/ j = d
      /\ \A j \in 1..c : j # d
  BY Framing
<1> HIDE DEF d
<1>2. ASSUME NEW x
      PROVE  x \in Lines(k, a, d, After(a, d)) <=>
               x \in Lines(k, a, c, {}) \/ (Shown(k, a, d) /\ x = l)
  <2> DEFINE D == After(a, d)
  <2> HIDE DEF D
  <2>1. x \in Lines(k, a, d, D) <=>
          \/ \E j \in 1..d : Shown(k, a, j) /\ x = SoaLine(k, a, j)
          \/ \E j \in 1..d : \E r \in After(a, j) :
               (j = d => r \notin D) /\ x = RecordLine(k, a, j, r)
    BY <1>1, LinesMembers
  <2>2. x \in Lines(k, a, c, {}) <=>
          \/ \E j \in 1..c : Shown(k, a, j) /\ x = SoaLine(k, a, j)
          \/ \E j \in 1..c : \E r \in After(a, j) : x = RecordLine(k, a, j, r)
    BY LinesMembers
  <2>3. (\E j \in 1..d : Shown(k, a, j) /\ x = SoaLine(k, a, j)) <=>
          \/ \E j \in 1..c : Shown(k, a, j) /\ x = SoaLine(k, a, j)
          \/ Shown(k, a, d) /\ x = l
    <3>1. \A j : j \in 1..d <=> j \in 1..c \/ j = d
      BY <1>1
    <3> DEFINE P(j) == Shown(k, a, j) /\ x = SoaLine(k, a, j)
    <3> HIDE DEF P
    <3>2. (\E j \in 1..d : P(j)) <=> (\E j \in 1..c : P(j)) \/ P(d)
      BY <3>1
    <3> QED
      BY <3>2 DEF P
  <2>4. (\E j \in 1..d : \E r \in After(a, j) :
           (j = d => r \notin D) /\ x = RecordLine(k, a, j, r)) <=>
          \E j \in 1..c : \E r \in After(a, j) : x = RecordLine(k, a, j, r)
    BY <1>1 DEF D
  <2> QED
    BY <2>1, <2>2, <2>3, <2>4 DEF D
<1>3. l[1] = SectionAt(k, a, d) /\ l[2].rr = "SOA" /\ l[2].sn = Serial(a, d)
  BY LineParts
<1>7. ASSUME NEW j \in 1..c, NEW r \in After(a, j) PROVE l # RecordLine(k, a, j, r)
  <2>1. r \in RRs
    BY <1>1, RecordPlace
  <2>2. r # "SOA"
    BY <2>1, RecordAssumption
  <2> QED
    BY <1>3, <2>2, LineParts
<1> DEFINE B == Printed(k, a, c, {})
           C == Printed(k, a, d, After(a, d))
<1>8. /\ DOMAIN B = Lines(k, a, c, {}) /\ DOMAIN C = Lines(k, a, d, After(a, d))
      /\ C = [e \in DOMAIN C |-> C[e]] /\ B = [e \in DOMAIN B |-> B[e]]
      /\ \A e \in DOMAIN B : B[e] = IF k = "AXFR" /\ e[2].rr = "SOA" THEN c ELSE 1
      /\ \A e \in DOMAIN C : C[e] = IF k = "AXFR" /\ e[2].rr = "SOA" THEN d ELSE 1
  BY DEF Printed
<1>4. CASE k = "IXFR" /\ Shown(k, a, d)
  <2>1. ASSUME NEW j \in 1..c, Shown(k, a, j) PROVE l # SoaLine(k, a, j)
    <3>1. j \in 1..Chunks(a) /\ j # d
      BY <1>1
    <3>2. SectionAt(k, a, d) # SectionAt(k, a, j)
      BY <1>1, <1>4, <2>1, <3>1, OwnSection
    <3> QED
      BY <1>3, <3>2, LineParts
  <2>2. l \notin DOMAIN B
    <3>1. l \in Lines(k, a, c, {}) <=>
            \/ \E j \in 1..c : Shown(k, a, j) /\ l = SoaLine(k, a, j)
            \/ \E j \in 1..c : \E r \in After(a, j) :
                 (j = c => r \notin {}) /\ l = RecordLine(k, a, j, r)
      BY LinesMembers
    <3> QED
      BY <1>7, <1>8, <2>1, <3>1
  <2> HIDE DEF l, B, C
  <2>3. DOMAIN C = DOMAIN B \cup {l}
    BY <1>2, <1>4, <1>8
  <2>4. C[l] = 1 /\ \A e \in DOMAIN B : C[e] = B[e]
    BY <1>4, <1>8, <2>3
  <2>5. C = BagAdd(B, l)
    BY <1>8, <2>2, <2>3, <2>4, BagAddNew
  <2> QED
    BY <1>4, <2>5 DEF B, C, d, l
<1>5. CASE k = "AXFR"
  <2>1. Shown(k, a, d)
    BY <1>5 DEF Shown
  <2> HIDE DEF l, B, C
  <2>2. DOMAIN C = DOMAIN B \cup {l}
    BY <1>2, <1>8, <2>1
  <2>3. C = BagAdd(B, l)
    <3>1. CASE c = 0
      <4>1. DOMAIN B = {}
        BY <1>8, <3>1 DEF Lines
      <4>2. d = 1 /\ C[l] = 1
        BY <1>3, <1>5, <1>8, <2>2, <3>1 DEF d
      <4> QED
        BY <1>8, <2>2, <4>1, <4>2, BagAddNew
    <3>2. CASE c # 0
      <4>1. a.form # "steps"
        BY <1>5, Shape
      <4>2. Chunks(a) = 2 /\ c = 1 /\ d = 2
        BY <1>1, <3>2, <4>1, Framing DEF d
      <4>3. /\ SectionAt(k, a, c) = SectionAt(k, a, d)
            /\ Serial(a, c) = Serial(a, d)
        BY <1>5, <4>2 DEF SectionAt, Serial
      <4>4. l = SoaLine(k, a, c) /\ Shown(k, a, c)
        BY <1>5, <4>3 DEF SoaLine, l, Shown
      <4>5. l \in DOMAIN B
        BY <1>8, <4>2, <4>4, LinesMembers
      <4>6. ASSUME NEW e \in DOMAIN B \ {l} PROVE e[2].rr # "SOA"
        <5>1. \/ \E j \in 1..c : Shown(k, a, j) /\ e = SoaLine(k, a, j)
              \/ \E j \in 1..c : \E r \in After(a, j) :
                   (j = c => r \notin {}) /\ e = RecordLine(k, a, j, r)
          <6>1. e \in Lines(k, a, c, {})
            BY <1>8
          <6> HIDE <1>8
          <6> QED
            BY <6>1, LinesMembers
        <5>2. PICK r \in After(a, c) : e = RecordLine(k, a, c, r)
          BY <4>2, <4>4, <5>1
        <5>3. r \in RRs
          BY <1>1, <4>2, RecordPlace
        <5> QED
          BY <5>2, <5>3, LineParts, RecordAssumption
      <4>7. B[l] = 1 /\ C[l] = 2
        BY <1>3, <1>5, <1>8, <2>2, <4>2, <4>5
      <4>8. \A e \in DOMAIN B \ {l} : C[e] = B[e]
        BY <1>5, <1>8, <2>2, <4>6
      <4>9. DOMAIN C = DOMAIN B
        BY <2>2, <4>5
      <4> QED
        BY <1>8, <4>5, <4>7, <4>8, <4>9, BagAddOld
    <3> QED
      BY <3>1, <3>2
  <2> QED
    BY <2>1, <2>3 DEF B, C, d, l
<1>6. CASE k = "IXFR" /\ ~Shown(k, a, d)
  <2> HIDE DEF l, B, C
  <2>1. DOMAIN C = DOMAIN B
    BY <1>2, <1>6, <1>8
  <2>2. C = B
    BY <1>6, <1>8, <2>1
  <2> QED
    BY <1>6, <2>2 DEF B, C, d
<1> QED
  BY <1>4, <1>5, <1>6

-----------------------------------------------------------------------------
(* The outputs are what has been read of the answers.                      *)

Got(d) == IF turn = d THEN at ELSE IF turn = "named" THEN 0 ELSE Chunks(answer[d])
Left(d) == IF turn = d THEN rest ELSE {}
OfOne == \A d \in Servers : Single(answer[d])
Outputs ==
  OfOne => out = [d \in Servers |-> Printed(kind, answer[d], Got(d), Left(d))]

(* The verdict is that of diff and the rules on the outputs.               *)
Verdict ==
  turn = "done" => (ret = 0 <=> ~Silent /\ \A x \in Differences : Excused(x))

IInv == Follows /\ Outputs /\ Verdict

(* Before the first line nothing is printed. *)
LEMMA NothingPrinted ==
  ASSUME NEW k, NEW a
  PROVE  Printed(k, a, 0, {}) = EmptyBag
<1>1. Lines(k, a, 0, {}) = {}
  BY DEF Lines
<1> QED
  BY <1>1 DEF Printed, EmptyBag, SetToBag

(* Both outputs are empty at first. *)
LEMMA InitOutputs == Init => Outputs
<1> SUFFICES ASSUME Init PROVE out = [d \in Servers |-> Printed(kind, answer[d], Got(d), Left(d))]
  BY DEF Outputs
<1>1. turn = "named" /\ at = 0 /\ rest = {} /\ out = [d \in Servers |-> EmptyBag]
  BY DEF Init
<1>2. \A d \in Servers : Got(d) = 0 /\ Left(d) = {}
  BY <1>1 DEF Got, Left
<1> QED
  BY <1>1, <1>2, NothingPrinted

(* When only the output being read changes.                                *)
LEMMA OneOutput ==
  ASSUME Follows, Outputs, OfOne, turn \in Servers, UNCHANGED <<kind, answer, turn>>,
         out' = [out EXCEPT ![turn] =
                   Printed(kind, answer[turn], at', rest')]
  PROVE  Outputs'
<1>1. \A d \in Servers : d # turn => Got(d)' = Got(d) /\ Left(d)' = Left(d)
  BY DEF Got, Left
<1>2. Got(turn)' = at' /\ Left(turn)' = rest'
  BY DEF Got, Left
<1>3. out = [d \in Servers |-> Printed(kind, answer[d], Got(d), Left(d))]
  BY DEF Outputs
<1>4. out' = [d \in Servers |->
                IF d = turn THEN Printed(kind, answer[turn], at', rest')
                ELSE Printed(kind, answer[d], Got(d), Left(d))]
  BY <1>3
<1>5. out' = [d \in Servers |-> Printed(kind, answer[d], Got(d)', Left(d)')]
  BY <1>1, <1>2, <1>4
<1> QED
  BY <1>5 DEF Outputs

(* Every step keeps the outputs what has been read: a record or an SOA     *)
(* line adds itself, whichever record comes first.                         *)
LEMMA NextOutputs == Follows /\ Outputs /\ [Next]_vars => Outputs'
<1> SUFFICES ASSUME Follows, Outputs, [Next]_vars, OfOne' PROVE Outputs'
  BY DEF Outputs
<1> DEFINE a == answer[turn]
<1>1. OfOne
  <2>1. UNCHANGED answer
    BY DEF vars, glob, Next, ReadRecord, ReadInAxfr, ReadInBegin, ReadInChangeset,
           ReadInRemove, ReadInAdd, TakeRecord, TakeSOA, NextOutput, Compare, Returned
  <2> QED
    BY <2>1 DEF OfOne
<1>2. ASSUME turn \in Servers
      PROVE  /\ kind \in {"AXFR", "IXFR"} /\ a \in Answers(kind) /\ Single(a)
             /\ at \in 0..Chunks(a) /\ rest \in SUBSET After(a, at)
             /\ out = [out EXCEPT ![turn] = Printed(kind, a, at, rest)]
             /\ out[turn] = Printed(kind, a, at, rest)
             /\ Chunks(a) \in Nat
  <2>1. /\ kind \in {"AXFR", "IXFR"} /\ a \in Answers(kind) /\ Single(a)
        /\ at \in 0..Chunks(a) /\ rest \in SUBSET After(a, at)
    BY <1>1, <1>2 DEF Follows, Reading, OfOne
  <2>2. out = [d \in Servers |-> Printed(kind, answer[d], Got(d), Left(d))]
    BY <1>1 DEF Outputs
  <2>3. Got(turn) = at /\ Left(turn) = rest
    BY DEF Got, Left
  <2>4. out[turn] = Printed(kind, a, at, rest)
    BY <1>2, <2>2, <2>3
  <2>5. Chunks(a) \in Nat
    BY <2>1, Framing
  <2> QED
    BY <2>1, <2>2, <2>4, <2>5
<1>3. CASE ReadRecord
  <2>1. /\ turn \in Servers /\ UNCHANGED <<kind, answer, turn, at>>
    BY <1>3, RecordStep DEF Follows
  <2>2. PICK r \in rest :
          /\ rest' = rest \ {r}
          /\ out' = [out EXCEPT ![turn] = BagAdd(@, RecordLine(kind, a, at, r))]
    BY <1>3, RecordStep DEF Follows
  <2>3. Printed(kind, a, at, rest \ {r})
          = BagAdd(Printed(kind, a, at, rest), RecordLine(kind, a, at, r))
    BY <1>2, <2>1, RecordAdds
  <2>4. out' = [out EXCEPT ![turn] = Printed(kind, a, at', rest')]
    BY <1>2, <2>1, <2>2, <2>3
  <2> QED
    BY <1>1, <2>1, <2>4, OneOutput
<1>4. CASE ReadSOA
  <2>1. /\ turn \in Servers /\ rest = {} /\ at < Chunks(a)
        /\ UNCHANGED <<kind, answer, turn>>
        /\ at' = at + 1 /\ rest' = After(a, at + 1)
        /\ out' = IF Shown(kind, a, at + 1)
                  THEN [out EXCEPT ![turn] = BagAdd(@, SoaLine(kind, a, at + 1))]
                  ELSE out
    BY <1>4, SOAStep DEF Follows
  <2>2. at \in Nat
    BY <1>2, <2>1
  <2>3. Printed(kind, a, at + 1, After(a, at + 1)) =
          IF Shown(kind, a, at + 1)
            THEN BagAdd(Printed(kind, a, at, {}), SoaLine(kind, a, at + 1))
            ELSE Printed(kind, a, at, {})
    BY <1>2, <2>1, <2>2, SOAAdds
  <2>4. out' = [out EXCEPT ![turn] = Printed(kind, a, at', rest')]
    BY <1>2, <2>1, <2>3
  <2> QED
    BY <1>1, <2>1, <2>4, OneOutput
<1>5. CASE NextOutput
  <2>1. /\ turn \in Servers /\ at = Chunks(answer[turn]) /\ rest = {}
        /\ UNCHANGED <<kind, answer, out>> /\ at' = 0 /\ rest' = {}
        /\ turn' = IF turn = "named" THEN "knotd" ELSE "diff"
    BY <1>5 DEF NextOutput
  <2>2. \A d \in Servers : Got(d)' = Got(d) /\ Left(d)' = Left(d)
    BY <2>1 DEF Got, Left, Servers
  <2> QED
    BY <1>1, <2>1, <2>2 DEF Outputs
<1>6. CASE Compare
  <2>1. turn = "diff" /\ turn' = "done" /\ UNCHANGED <<kind, answer, at, rest, out>>
    BY <1>6 DEF Compare
  <2>2. \A d \in Servers : Got(d)' = Got(d) /\ Left(d)' = Left(d)
    BY <2>1 DEF Got, Left, Servers
  <2> QED
    BY <1>1, <2>1, <2>2 DEF Outputs
<1>7. CASE UNCHANGED vars
  BY <1>7 DEF vars, Outputs, OfOne, Got, Left
<1> QED
  BY <1>3, <1>4, <1>5, <1>6, <1>7 DEF Next, ReadSOA, Returned

(* Nothing changes the verdict after the comparison. *)
LEMMA NextVerdict == Verdict /\ [Next]_vars => Verdict'
<1> SUFFICES ASSUME Verdict, [Next]_vars, turn' = "done"
             PROVE  ret' = 0 <=> ~Silent' /\ \A x \in Differences' : Excused(x)
  BY DEF Verdict
<1>1. CASE Compare
  BY <1>1 DEF Compare, Silent, Differences
<1>2. CASE UNCHANGED vars
  BY <1>2 DEF vars, Verdict, Silent, Differences
<1>3. CASE ~Compare /\ ~UNCHANGED vars
  BY <1>3 DEF Next, ReadRecord, ReadInAxfr, ReadInBegin, ReadInChangeset, ReadInRemove,
              ReadInAdd, TakeRecord, TakeSOA, NextOutput, Returned, Servers
<1> QED
  BY <1>1, <1>2, <1>3

(* The invariant: parse_data follows the answer, the outputs are what it   *)
(* has read, and ret is the verdict on them.                               *)
THEOREM Invariant == Spec => []IInv
<1>1. Init => IInv
  BY InitFollows, InitOutputs DEF IInv, Init, Verdict
<1>2. IInv /\ [Next]_vars => IInv'
  BY NextFollows, NextOutputs, NextVerdict DEF IInv
<1> QED
  BY <1>1, <1>2, PTL DEF Spec

-----------------------------------------------------------------------------
(* Equal outputs are equal answers.                                        *)

All(k, a) == Lines(k, a, Chunks(a), {})
Whole(k, a) == Printed(k, a, Chunks(a), {})

(* The lines of a whole zone. *)
LEMMA FullLines ==
  ASSUME NEW k \in {"AXFR", "IXFR"}, NEW a \in Answers(k), a.form = "full", NEW x
  PROVE  /\ Chunks(a) = 2
         /\ Shown(k, a, 2) /\ SoaLine(k, a, 2) \in All(k, a)
         /\ SoaLine(k, a, 2)[2].sn = Steps + 1
         /\ x \in All(k, a) <=> \/ x = SoaLine(k, a, 2)
                                \/ \E r \in a.zone : x = RecordLine(k, a, 1, r)
         /\ SectionAt(k, a, 1) = [tag |-> IF k = "AXFR" THEN "axfr" ELSE "ixfr-soa", sn |-> 0]
<1>1. Chunks(a) = 2
  BY Framing
<1>2. Shown(k, a, 2) /\ ~Closed(a, 1) /\ ~Closed(a, 2)
  BY DEF Shown, Closed
<1>3. Serial(a, 1) = Steps + 1 /\ Serial(a, 2) = Steps + 1
  BY <1>1 DEF Serial, LastSerial
<1>4. After(a, 1) = a.zone /\ After(a, 2) = {}
  BY DEF After
<1>5. SectionAt(k, a, 1) = [tag |-> IF k = "AXFR" THEN "axfr" ELSE "ixfr-soa", sn |-> 0]
  BY DEF SectionAt
<1>6. Shown(k, a, 1) => SoaLine(k, a, 1) = SoaLine(k, a, 2)
  <2>1. Shown(k, a, 1) => k = "AXFR"
    BY DEF Shown
  <2>2. k = "AXFR" => SectionAt(k, a, 1) = SectionAt(k, a, 2)
    BY DEF SectionAt
  <2> QED
    BY <1>3, <2>1, <2>2 DEF SoaLine
<1>7. ASSUME NEW y
      PROVE  y \in All(k, a) <=> \/ y = SoaLine(k, a, 2)
                                 \/ \E r \in a.zone : y = RecordLine(k, a, 1, r)
  <2>1. y \in All(k, a) <=>
          \/ \E j \in 1..2 : Shown(k, a, j) /\ y = SoaLine(k, a, j)
          \/ \E j \in 1..2 : \E r \in After(a, j) :
               (j = 2 => r \notin {}) /\ y = RecordLine(k, a, j, r)
    <3> DEFINE n == 2
    <3>1. n \in Nat /\ All(k, a) = Lines(k, a, n, {})
      BY <1>1 DEF All
    <3> HIDE DEF n
    <3>2. y \in Lines(k, a, n, {}) <=>
            \/ \E j \in 1..n : Shown(k, a, j) /\ y = SoaLine(k, a, j)
            \/ \E j \in 1..n : \E r \in After(a, j) :
                 (j = n => r \notin {}) /\ y = RecordLine(k, a, j, r)
      BY <3>1, LinesMembers
    <3> QED
      BY <3>1, <3>2 DEF n
  <2>2. (\E j \in 1..2 : Shown(k, a, j) /\ y = SoaLine(k, a, j)) <=> y = SoaLine(k, a, 2)
    BY <1>2, <1>6
  <2>3. (\E j \in 1..2 : \E r \in After(a, j) :
           (j = 2 => r \notin {}) /\ y = RecordLine(k, a, j, r))
          <=> \E r \in a.zone : y = RecordLine(k, a, 1, r)
    BY <1>4
  <2> QED
    BY <2>1, <2>2, <2>3
<1>8. SoaLine(k, a, 2) \in All(k, a)
  BY <1>7
<1>9. SoaLine(k, a, 2)[2].sn = Steps + 1
  BY <1>3, LineParts
<1> QED
  BY <1>1, <1>2, <1>5, <1>7, <1>8, <1>9

(* The lines of one changeset. *)
LEMMA StepLines ==
  ASSUME NEW a \in Answers("IXFR"), a.form = "steps", Single(a), NEW x
  PROVE  /\ Chunks(a) = 4 /\ a.steps[1] \in Changesets
         /\ a = [form |-> "steps", steps |-> a.steps] /\ DOMAIN a.steps = {1}
         /\ SoaLine("IXFR", a, 2) \in All("IXFR", a)
         /\ SoaLine("IXFR", a, 2)[2].sn = 1
         /\ x \in All("IXFR", a) <=>
              \/ x = SoaLine("IXFR", a, 2) \/ x = SoaLine("IXFR", a, 3)
              \/ \E r \in a.steps[1].del : x = RecordLine("IXFR", a, 2, r)
              \/ \E r \in a.steps[1].add : x = RecordLine("IXFR", a, 3, r)
         /\ SectionAt("IXFR", a, 2) = [tag |-> "ixfr-add", sn |-> 1]
         /\ SectionAt("IXFR", a, 3) = [tag |-> "ixfr-rem", sn |-> 2]
         /\ Serial(a, 2) = 1 /\ Serial(a, 3) = 2
<1>1. Len(a.steps) = 1
  BY DEF Single
<1>2. Chunks(a) = 4
  BY <1>1 DEF Chunks
<1>3. /\ a = [form |-> "steps", steps |-> a.steps] /\ DOMAIN a.steps = {1}
      /\ a.steps[1] \in Changesets
  <2>1. PICK n \in 1..Steps : /\ a.steps \in [1..n -> Changesets] /\ Len(a.steps) = n
                              /\ DOMAIN a.steps = 1..n
                              /\ a = [form |-> "steps", steps |-> a.steps]
    BY Shape
  <2>2. n = 1
    BY <1>1, <2>1
  <2> QED
    BY <2>1, <2>2
<1>4. Serial(a, 2) = 1 /\ Serial(a, 3) = 2
  BY <1>2 DEF Serial
<1>5. /\ ~Closed(a, 2) /\ ~Closed(a, 3) /\ Closed(a, 4) /\ ~Shown("IXFR", a, 1)
      /\ Shown("IXFR", a, 2) /\ Shown("IXFR", a, 3) /\ ~Shown("IXFR", a, 4)
  BY <1>2 DEF Closed, Shown
<1>6. /\ SectionAt("IXFR", a, 2) = [tag |-> "ixfr-add", sn |-> 1]
      /\ SectionAt("IXFR", a, 3) = [tag |-> "ixfr-rem", sn |-> 2]
  BY <1>4, <1>5 DEF SectionAt
<1>7. /\ After(a, 1) = {} /\ After(a, 2) = a.steps[1].del
      /\ After(a, 3) = a.steps[1].add /\ After(a, 4) = {}
  <2>1. 2 \div 2 = 1 /\ 3 \div 2 = 1 /\ 2 % 2 = 0 /\ 3 % 2 = 1
    OBVIOUS
  <2> QED
    BY <1>2, <2>1 DEF After
<1>8. ASSUME NEW y
      PROVE  y \in All("IXFR", a) <=>
              \/ y = SoaLine("IXFR", a, 2) \/ y = SoaLine("IXFR", a, 3)
              \/ \E r \in a.steps[1].del : y = RecordLine("IXFR", a, 2, r)
              \/ \E r \in a.steps[1].add : y = RecordLine("IXFR", a, 3, r)
  <2>1. y \in All("IXFR", a) <=>
          \/ \E j \in 1..4 : Shown("IXFR", a, j) /\ y = SoaLine("IXFR", a, j)
          \/ \E j \in 1..4 : \E r \in After(a, j) :
               (j = 4 => r \notin {}) /\ y = RecordLine("IXFR", a, j, r)
    <3> DEFINE n == 4
    <3>1. n \in Nat /\ All("IXFR", a) = Lines("IXFR", a, n, {})
      BY <1>2 DEF All
    <3> HIDE DEF n
    <3>2. y \in Lines("IXFR", a, n, {}) <=>
            \/ \E j \in 1..n : Shown("IXFR", a, j) /\ y = SoaLine("IXFR", a, j)
            \/ \E j \in 1..n : \E r \in After(a, j) :
                 (j = n => r \notin {}) /\ y = RecordLine("IXFR", a, j, r)
      BY <3>1, LinesMembers
    <3> QED
      BY <3>1, <3>2 DEF n
  <2>2. \A j : j \in 1..4 <=> j \in {1, 2, 3, 4}
    OBVIOUS
  <2>3. (\E j \in 1..4 : Shown("IXFR", a, j) /\ y = SoaLine("IXFR", a, j))
          <=> y = SoaLine("IXFR", a, 2) \/ y = SoaLine("IXFR", a, 3)
    BY <1>5, <2>2
  <2>4. (\E j \in 1..4 : \E r \in After(a, j) :
           (j = 4 => r \notin {}) /\ y = RecordLine("IXFR", a, j, r))
          <=> \/ \E r \in a.steps[1].del : y = RecordLine("IXFR", a, 2, r)
              \/ \E r \in a.steps[1].add : y = RecordLine("IXFR", a, 3, r)
    BY <1>7, <2>2
  <2> QED
    BY <2>1, <2>3, <2>4
<1>9. SoaLine("IXFR", a, 2)[2].sn = 1
  BY <1>4, LineParts
<1> QED
  BY <1>2, <1>3, <1>4, <1>6, <1>8, <1>9

(* An answer prints nothing exactly when there is none. *)
LEMMA NoneLines ==
  ASSUME NEW k \in {"AXFR", "IXFR"}, NEW a \in Answers(k), Single(a)
  PROVE  (a.form = "none" <=> All(k, a) = {}) /\ (a.form = "none" <=> Whole(k, a) = EmptyBag)
<1>1. a.form = "none" <=> All(k, a) = {}
  <2>1. CASE a.form = "none"
    BY <2>1, Framing DEF All, Lines
  <2>2. CASE a.form = "full"
    BY <2>2, FullLines
  <2>3. CASE a.form = "steps"
    BY <2>3, StepLines, Framing
  <2> QED
    BY <2>1, <2>2, <2>3, Framing
<1>2. DOMAIN Whole(k, a) = All(k, a) /\ DOMAIN EmptyBag = {}
  BY DEF Whole, Printed, All, EmptyBag, SetToBag
<1>3. All(k, a) = {} => Whole(k, a) = EmptyBag
  BY DEF Whole, Printed, All, EmptyBag, SetToBag
<1> QED
  BY <1>1, <1>2, <1>3

(* The lines diff reports are those that one answer has and the other not. *)
LEMMA DiffLines ==
  ASSUME NEW k \in {"AXFR", "IXFR"}, NEW a \in Answers(k), NEW b \in Answers(k),
         Single(a), Single(b), NEW x
  PROVE  x \in DOMAIN (Whole(k, a) (-) Whole(k, b)) \cup DOMAIN (Whole(k, b) (-) Whole(k, a))
           <=> ~(x \in All(k, a) <=> x \in All(k, b))
<1> DEFINE A == Whole(k, a)
           B == Whole(k, b)
<1>1. DOMAIN A = All(k, a) /\ DOMAIN B = All(k, b)
  BY DEF Whole, Printed, All
<1>2. /\ \A e \in All(k, a) : A[e] = IF k = "AXFR" /\ e[2].rr = "SOA" THEN Chunks(a) ELSE 1
      /\ \A e \in All(k, b) : B[e] = IF k = "AXFR" /\ e[2].rr = "SOA" THEN Chunks(b) ELSE 1
  BY DEF Whole, Printed, All
<1>3. k = "AXFR" => /\ All(k, a) # {} => Chunks(a) = 2
                    /\ All(k, b) # {} => Chunks(b) = 2
  BY NoneLines, Framing
<1>4. \A e \in All(k, a) : A[e] \in {1, 2}
  BY <1>2, <1>3
<1>5. \A e \in All(k, b) : B[e] \in {1, 2}
  BY <1>2, <1>3
<1>6. \A e \in All(k, a) : e \in All(k, b) => A[e] = B[e]
  BY <1>2, <1>3
<1> HIDE DEF A, B
<1>7. x \in DOMAIN (A (-) B) <=> x \in All(k, a) /\ x \notin All(k, b)
  BY <1>1, <1>4, <1>5, <1>6 DEF (-)
<1>8. x \in DOMAIN (B (-) A) <=> x \in All(k, b) /\ x \notin All(k, a)
  BY <1>1, <1>4, <1>5, <1>6 DEF (-)
<1> QED
  BY <1>7, <1>8 DEF A, B

(* An answer without its excused records. *)
Kept(S) == S \ Excusable
KeptStep(s) == [del |-> Kept(s.del), add |-> Kept(s.add)]

(* Strict takes the excused records away and nothing else. *)
LEMMA StrictForm ==
  ASSUME NEW k \in {"AXFR", "IXFR"}, NEW a \in Answers(k), Single(a)
  PROVE  /\ Strict(a).form = a.form
         /\ a.form = "none" => Strict(a) = [form |-> "none"]
         /\ a.form = "full" => Strict(a) = [form |-> "full", zone |-> Kept(a.zone)]
         /\ a.form = "steps" =>
              Strict(a) = [form |-> "steps", steps |-> [n \in {1} |-> KeptStep(a.steps[1])]]
<1>1. CASE a.form = "none"
  BY <1>1, Shape DEF Strict
<1>2. CASE a.form = "full"
  <2>1. a = [form |-> "full", zone |-> a.zone]
    BY <1>2, Shape
  <2>2. Strict(a) = [a EXCEPT !.zone = Kept(@)]
    BY <1>2 DEF Strict, Kept
  <2>3. Strict(a) = [form |-> "full", zone |-> Kept(a.zone)]
    BY <2>1, <2>2
  <2> QED
    BY <1>2, <2>3
<1>3. CASE a.form = "steps"
  <2>1. a = [form |-> "steps", steps |-> a.steps] /\ DOMAIN a.steps = {1}
    BY <1>3, StepLines, Framing
  <2>2. Strict(a) = [a EXCEPT !.steps = [n \in DOMAIN @ |-> KeptStep(@[n])]]
    BY <1>3 DEF Strict, Kept, KeptStep
  <2>3. Strict(a) = [form |-> "steps", steps |-> [n \in {1} |-> KeptStep(a.steps[n])]]
    BY <2>1, <2>2
  <2>4. [n \in {1} |-> KeptStep(a.steps[n])] = [n \in {1} |-> KeptStep(a.steps[1])]
    OBVIOUS
  <2> QED
    BY <1>3, <2>3, <2>4
<1> QED
  BY <1>1, <1>2, <1>3, Framing

(* Answers of different forms differ in an SOA line. *)
LEMMA FormsTold ==
  ASSUME NEW k \in {"AXFR", "IXFR"}, NEW a \in Answers(k), NEW b \in Answers(k),
         Single(a), Single(b), a.form # b.form
  PROVE  \E x : x[2].rr = "SOA" /\ ~(x \in All(k, a) <=> x \in All(k, b))
<1>1. ASSUME NEW c \in Answers(k), NEW d \in Answers(k), Single(c), Single(d),
             c.form = "none", d.form # "none"
      PROVE  \E x : x[2].rr = "SOA" /\ x \notin All(k, c) /\ x \in All(k, d)
  <2>1. All(k, c) = {}
    BY <1>1, NoneLines
  <2>2. SoaLine(k, d, 2) \in All(k, d)
    BY <1>1, FullLines, StepLines, Framing
  <2> QED
    BY <2>1, <2>2, LineParts
<1>2. ASSUME NEW c \in Answers(k), NEW d \in Answers(k), Single(c), Single(d),
             c.form = "steps", d.form = "full"
      PROVE  \E x : x[2].rr = "SOA" /\ x \in All(k, c) /\ x \notin All(k, d)
  <2>1. k = "IXFR"
    BY <1>2, Framing
  <2> DEFINE l == SoaLine(k, c, 2)
  <2>2. l \in All(k, c) /\ l[2].sn = 1 /\ l[2].rr = "SOA"
    BY <1>2, <2>1, StepLines, LineParts
  <2>3. l # SoaLine(k, d, 2)
    <3>1. SoaLine(k, d, 2)[2].sn = Steps + 1
      BY <1>2, FullLines
    <3>2. Steps + 1 # 1
      BY StepsAssumption
    <3> QED
      BY <2>2, <3>1, <3>2
  <2>4. ASSUME NEW r \in d.zone PROVE l # RecordLine(k, d, 1, r)
    <3>1. r \in RRs
      BY <1>2, Shape
    <3> QED
      BY <2>2, <3>1, LineParts, RecordAssumption
  <2>5. l \notin All(k, d)
    BY <1>2, <2>3, <2>4, FullLines
  <2> QED
    BY <2>2, <2>5
<1>3. a.form \in {"none", "full", "steps"} /\ b.form \in {"none", "full", "steps"}
  BY Framing
<1>4. CASE a.form = "none"
  BY <1>1, <1>4
<1>5. CASE b.form = "none"
  BY <1>1, <1>5
<1>6. CASE a.form # "none" /\ b.form # "none"
  BY <1>2, <1>3, <1>6
<1> QED
  BY <1>4, <1>5, <1>6

(* Answers differ in no line but of excused records when they are the same *)
(* without those records.                                                  *)
Alike(k, a, b) ==
  \A x \in All(k, a) \cup All(k, b) :
    ~(x \in All(k, a) <=> x \in All(k, b)) => x[2].rr \in Excusable

(* By forms: answers of different forms differ in an SOA line, those of    *)
(* the same form in the line of each record only one of them has.          *)
LEMMA Agreement ==
  ASSUME NEW k \in {"AXFR", "IXFR"}, NEW a \in Answers(k), NEW b \in Answers(k),
         Single(a), Single(b)
  PROVE  Alike(k, a, b) <=> Strict(a) = Strict(b)
<1>1. CASE a.form # b.form
  <2>1. Strict(a) # Strict(b)
    BY <1>1, StrictForm
  <2>2. PICK x : x[2].rr = "SOA" /\ ~(x \in All(k, a) <=> x \in All(k, b))
    BY <1>1, FormsTold
  <2>3. x[2].rr \notin Excusable
    BY <2>2, RuleAssumption, RecordAssumption
  <2> QED
    BY <2>1, <2>2, <2>3 DEF Alike
<1>2. CASE a.form = "none" /\ b.form = "none"
  <2>1. All(k, a) = {} /\ All(k, b) = {}
    BY <1>2, NoneLines
  <2>2. Strict(a) = Strict(b)
    BY <1>2, StrictForm
  <2> QED
    BY <2>1, <2>2 DEF Alike
<1>3. CASE a.form = "full" /\ b.form = "full"
  <2> DEFINE soa == SoaLine(k, a, 2)
             line(r) == RecordLine(k, a, 1, r)
  <2>1. /\ a.zone \in SUBSET RRs /\ b.zone \in SUBSET RRs
    BY <1>3, Shape
  <2>2. SoaLine(k, b, 2) = soa
    <3>1. Serial(a, 2) = Serial(b, 2)
      BY <1>3 DEF Serial, Chunks, LastSerial
    <3>2. SectionAt(k, a, 2) = SectionAt(k, b, 2)
      BY <1>3, <3>1 DEF SectionAt, Closed
    <3> QED
      BY <3>1, <3>2 DEF SoaLine
  <2>3. \A r : RecordLine(k, b, 1, r) = line(r)
    BY <1>3, FullLines DEF RecordLine
  <2>4. /\ \A x : x \in All(k, a) <=> x = soa \/ \E r \in a.zone : x = line(r)
        /\ \A x : x \in All(k, b) <=> x = soa \/ \E r \in b.zone : x = line(r)
    BY <1>3, <2>2, <2>3, FullLines
  <2>5. \A r : line(r)[2].rr = r
    BY LineParts
  <2>6. \A r \in RRs : line(r) # soa
    BY <2>5, LineParts, RecordAssumption
  <2> HIDE DEF soa, line
  <2>7. \A r \in RRs : /\ line(r) \in All(k, a) <=> r \in a.zone
                       /\ line(r) \in All(k, b) <=> r \in b.zone
    BY <2>4, <2>5, <2>6
  <2>8. Alike(k, a, b) <=> \A r \in RRs : ~(r \in a.zone <=> r \in b.zone) => r \in Excusable
    BY <2>1, <2>4, <2>5, <2>7 DEF Alike
  <2>9. Kept(a.zone) = Kept(b.zone)
          <=> \A r \in RRs : ~(r \in a.zone <=> r \in b.zone) => r \in Excusable
    BY <2>1 DEF Kept
  <2>10. Strict(a) = Strict(b) <=> Kept(a.zone) = Kept(b.zone)
    <3>1. /\ Strict(a) = [form |-> "full", zone |-> Kept(a.zone)]
          /\ Strict(b) = [form |-> "full", zone |-> Kept(b.zone)]
      BY <1>3, StrictForm
    <3> QED
      BY <3>1
  <2> QED
    BY <2>8, <2>9, <2>10
<1>4. CASE a.form = "steps" /\ b.form = "steps"
  <2> DEFINE s2 == SoaLine(k, a, 2)
             s3 == SoaLine(k, a, 3)
             del(r) == RecordLine(k, a, 2, r)
             add(r) == RecordLine(k, a, 3, r)
             s == a.steps[1]
             t == b.steps[1]
  <2>1. k = "IXFR"
    BY <1>4, Framing
  <2>2. s \in Changesets /\ t \in Changesets
    BY <1>4, <2>1, StepLines
  <2>3. s.del \in SUBSET RRs /\ s.add \in SUBSET RRs /\ t.del \in SUBSET RRs /\ t.add \in SUBSET RRs
    BY <2>2 DEF Changesets
  <2>4. /\ SectionAt(k, a, 2) = [tag |-> "ixfr-add", sn |-> 1]
        /\ SectionAt(k, a, 3) = [tag |-> "ixfr-rem", sn |-> 2]
        /\ SectionAt(k, b, 2) = [tag |-> "ixfr-add", sn |-> 1]
        /\ SectionAt(k, b, 3) = [tag |-> "ixfr-rem", sn |-> 2]
        /\ Serial(a, 2) = 1 /\ Serial(a, 3) = 2 /\ Serial(b, 2) = 1 /\ Serial(b, 3) = 2
    BY <1>4, <2>1, StepLines
  <2>5. /\ SoaLine(k, b, 2) = s2 /\ SoaLine(k, b, 3) = s3
        /\ \A r : RecordLine(k, b, 2, r) = del(r) /\ RecordLine(k, b, 3, r) = add(r)
    BY <2>4 DEF SoaLine, RecordLine
  <2>6. \A x : x \in All(k, a) <=>
               \/ x = s2 \/ x = s3
               \/ \E r \in s.del : x = del(r)
               \/ \E r \in s.add : x = add(r)
    BY <1>4, <2>1, StepLines
  <2>7. \A x : x \in All(k, b) <=>
               \/ x = s2 \/ x = s3
               \/ \E r \in t.del : x = del(r)
               \/ \E r \in t.add : x = add(r)
    BY <1>4, <2>1, <2>5, StepLines
  <2>8. \A r : del(r)[2].rr = r /\ add(r)[2].rr = r /\ del(r)[1].sn = 1 /\ add(r)[1].sn = 2
    BY <2>4, LineParts
  <2>9. \A r \in RRs : del(r) \notin {s2, s3} /\ add(r) \notin {s2, s3}
    BY <2>8, LineParts, RecordAssumption
  <2> HIDE DEF s2, s3, del, add, s, t
  <2>10. \A r, q : del(r) # add(q) /\ (del(r) = del(q) => r = q) /\ (add(r) = add(q) => r = q)
    BY <2>8
  <2>11. \A r \in RRs : /\ del(r) \in All(k, a) <=> r \in s.del
                        /\ del(r) \in All(k, b) <=> r \in t.del
                        /\ add(r) \in All(k, a) <=> r \in s.add
                        /\ add(r) \in All(k, b) <=> r \in t.add
    BY <2>6, <2>7, <2>9, <2>10
  <2> DEFINE Eq == \A r \in RRs : /\ ~(r \in s.del <=> r \in t.del) => r \in Excusable
                                  /\ ~(r \in s.add <=> r \in t.add) => r \in Excusable
  <2>12. Alike(k, a, b) => Eq
    <3> SUFFICES ASSUME Alike(k, a, b), NEW r \in RRs
                 PROVE  /\ ~(r \in s.del <=> r \in t.del) => r \in Excusable
                        /\ ~(r \in s.add <=> r \in t.add) => r \in Excusable
      OBVIOUS
    <3> QED
      BY <2>8, <2>11 DEF Alike
  <2>13. Eq => Alike(k, a, b)
    <3> SUFFICES ASSUME Eq, NEW x \in All(k, a) \cup All(k, b),
                        ~(x \in All(k, a) <=> x \in All(k, b))
                 PROVE  x[2].rr \in Excusable
      BY DEF Alike
    <3>1. x # s2 /\ x # s3
      BY <2>6, <2>7
    <3>2. \E r \in RRs : x = del(r) \/ x = add(r)
      BY <2>3, <2>6, <2>7, <3>1
    <3> QED
      BY <2>8, <2>11, <3>2
  <2>14. KeptStep(s) = KeptStep(t) <=> Eq
    <3>1. KeptStep(s) = KeptStep(t) <=> Kept(s.del) = Kept(t.del) /\ Kept(s.add) = Kept(t.add)
      BY DEF KeptStep
    <3> QED
      BY <2>3, <3>1 DEF Kept
  <2>15. Strict(a) = Strict(b) <=> KeptStep(s) = KeptStep(t)
    <3>1. /\ Strict(a) = [form |-> "steps", steps |-> [n \in {1} |-> KeptStep(s)]]
          /\ Strict(b) = [form |-> "steps", steps |-> [n \in {1} |-> KeptStep(t)]]
      BY <1>4, StrictForm DEF s, t
    <3> DEFINE f == [n \in {1} |-> KeptStep(s)]
               g == [n \in {1} |-> KeptStep(t)]
    <3>2. f[1] = KeptStep(s) /\ g[1] = KeptStep(t)
      OBVIOUS
    <3>3. Strict(a).steps = f /\ Strict(b).steps = g
      BY <3>1
    <3> HIDE DEF f, g
    <3>4. Strict(a) = Strict(b) => KeptStep(s) = KeptStep(t)
      BY <3>2, <3>3
    <3> QED
      BY <3>1, <3>4
  <2> QED
    BY <2>12, <2>13, <2>14, <2>15
<1> QED
  BY <1>1, <1>2, <1>3, <1>4, Framing

-----------------------------------------------------------------------------
(* _dig_both returns 0 exactly when knotd answered and answered what named *)
(* did but for excused records, of answers of a whole zone or of one       *)
(* changeset, with any records, any rules and records in any order.        *)
THEOREM VerdictIsExact == Spec => []VerdictExactOfOne
<1>1. IInv => VerdictExactOfOne
  <2> SUFFICES ASSUME IInv, OfOne, turn = "done"
               PROVE  ret = 0 <=> /\ answer["knotd"].form # "none"
                                  /\ Strict(answer["named"]) = Strict(answer["knotd"])
    BY DEF VerdictExactOfOne, VerdictExact, OfOne, Single
  <2> DEFINE a == answer["named"]
             b == answer["knotd"]
  <2>1. /\ kind \in {"AXFR", "IXFR"} /\ a \in Answers(kind) /\ b \in Answers(kind)
        /\ Single(a) /\ Single(b)
    BY DEF IInv, Follows, Reading, OfOne, Servers
  <2>2. out["named"] = Whole(kind, a) /\ out["knotd"] = Whole(kind, b)
    BY DEF IInv, Outputs, Got, Left, Servers, Whole
  <2>3. Silent <=> b.form = "none"
    BY <2>1, <2>2, NoneLines DEF Silent
  <2>4. \A x : x \in Differences <=> ~(x \in All(kind, a) <=> x \in All(kind, b))
    BY <2>1, <2>2, DiffLines DEF Differences, BagToSet
  <2>5. (\A x \in Differences : Excused(x)) <=> Alike(kind, a, b)
    BY <2>4 DEF Excused, Alike
  <2>6. (\A x \in Differences : Excused(x)) <=> Strict(a) = Strict(b)
    BY <2>1, <2>5, Agreement
  <2> QED
    BY <2>3, <2>6 DEF IInv, Verdict
<1> QED
  BY <1>1, Invariant, PTL
=============================================================================
