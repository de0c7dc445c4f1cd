------------------------------ MODULE DigCompare ------------------------------
(***************************************************************************)
(* _dig_both of cases/test.case: named and knotd are asked for the same    *)
(* transfer, the output of dig goes through tools/digcmp.py, which tags    *)
(* every record with its context, and the sorted outputs are compared,     *)
(* with the rules of digcmp.py -r hiding or excusing differences.          *)
(***************************************************************************)
EXTENDS Integers, Sequences, FiniteSets, Bags, BagsExt

CONSTANTS
  RRs,      \* records a transfer may carry, other than SOA
  Steps,    \* bound: changesets in one incremental answer
  Excusable \* records a mask or warning rule matches

ASSUME StepsAssumption == Steps \in Nat \ {0}
ASSUME RuleAssumption == Excusable \subseteq RRs
ASSUME RecordAssumption == "SOA" \notin RRs

VARIABLES
  kind,      \* the transfer asked for: AXFR | IXFR
  answer,    \* what each server answers
  turn,      \* the server whose output is read, then diff, then done
  at,        \* SOA lines read of that output
  rest,      \* records still to be read before the next SOA line
  g_state, g_section, g_serial,   \* the globals of digcmp.py
  out,       \* named.dig and knotd.dig, as bags of tagged lines
  ret        \* 0 if the answers are found alike

glob == <<g_state, g_section, g_serial>>
vars == <<kind, answer, turn, at, rest, glob, out, ret>>

Servers == {"named", "knotd"}

-----------------------------------------------------------------------------
(* Answers: none, the whole zone, or changesets, the n-th of which leads   *)
(* from serial n to serial n + 1.                                          *)

Changesets == [del : SUBSET RRs, add : SUBSET RRs]
Answers(k) ==
  [form : {"none"}]
    \cup [form : {"full"}, zone : SUBSET RRs]
    \cup [form : IF k = "IXFR" THEN {"steps"} ELSE {},
          steps : {s \in UNION {[1..n -> Changesets] : n \in 1..Steps} :
                     \A n \in DOMAIN s : s[n].del \cap s[n].add = {}}]

LastSerial(a) == IF a.form = "steps" THEN Len(a.steps) + 1 ELSE Steps + 1

(* What dig prints: the SOA of the server frames the answer, each changeset *)
(* is two SOA, each with records after it, in any order.                   *)
Chunks(a) == IF a.form = "none" THEN 0
             ELSE IF a.form = "full" THEN 2 ELSE 2 * Len(a.steps) + 2

(* The serial of the c-th SOA line. *)
Serial(a, c) == IF c \in {1, Chunks(a)} THEN LastSerial(a) ELSE (c + 1) \div 2

(* The records printed after it. *)
After(a, c) ==
  IF a.form = "full" THEN IF c = 1 THEN a.zone ELSE {}
  ELSE IF c \in 2..(Chunks(a) - 1)
    THEN IF c % 2 = 0 THEN a.steps[c \div 2].del ELSE a.steps[c \div 2].add
    ELSE {}

-----------------------------------------------------------------------------
(* digcmp.py: parse_data, one action per state of its automaton.           *)

(* parse_opts: the command line that dig prints selects the mode. *)
FirstState == IF kind = "AXFR" THEN "AXFR_BEGIN" ELSE "IXFR_BEGIN"
FirstSection == [tag |-> IF kind = "AXFR" THEN "axfr" ELSE "ixfr", sn |-> 0]

Init ==
  /\ kind \in {"AXFR", "IXFR"}
  /\ answer \in [Servers -> Answers(kind)]
  /\ turn = "named"
  /\ at = 0 /\ rest = {}
  /\ g_state = FirstState /\ g_section = FirstSection /\ g_serial = 0
  /\ out = [d \in Servers |-> EmptyBag]
  /\ ret = 0

(* The next line is a record, or the SOA with serial sn. *)
TakeRecord(r) ==
  /\ turn \in Servers /\ r \in rest
  /\ rest' = rest \ {r}
  /\ UNCHANGED <<kind, answer, turn, at, ret>>
TakeSOA(sn) ==
  /\ turn \in Servers /\ rest = {} /\ at < Chunks(answer[turn])
  /\ sn = Serial(answer[turn], at + 1)
  /\ at' = at + 1 /\ rest' = After(answer[turn], at + 1)
  /\ UNCHANGED <<kind, answer, turn, ret>>
Serials == 1..(Steps + 1)

(* Mutant of enter: the section stays the same. *)
enter_state(s, tag, sn) == g_state' = s /\ UNCHANGED g_section
enter(s, tag, sn) == g_state' = s /\ g_section' = [tag |-> tag, sn |-> sn]

(* print_data: under the section that the line itself may have entered. *)
print_data(sn, rr) ==
  out' = [out EXCEPT ![turn] = BagAdd(@, <<g_section', [sn |-> sn, rr |-> rr]>>)]
Hide == UNCHANGED out

ReadRecord ==
  \E r \in rest :
    /\ TakeRecord(r) /\ UNCHANGED glob
    /\ IF g_state = "IXFR_BEGIN" THEN Hide ELSE print_data(0, r)

ReadInAxfr ==
  \E sn \in Serials :
    /\ g_state = "AXFR_BEGIN"
    /\ TakeSOA(sn) /\ UNCHANGED glob /\ print_data(sn, "SOA")

ReadInBegin ==
  \E sn \in Serials :
    /\ g_state = "IXFR_BEGIN"
    /\ TakeSOA(sn) /\ g_serial' = sn
    /\ enter("IXFR_CHANGESET", "ixfr-soa", 0)
    /\ Hide

ReadInChangeset ==
  \E sn \in Serials :
    /\ g_state = "IXFR_CHANGESET"
    /\ TakeSOA(sn) /\ UNCHANGED g_serial
    /\ enter("IXFR_REMOVE", "ixfr-add", sn)
    /\ print_data(sn, "SOA")

ReadInRemove ==
  \E sn \in Serials :
    /\ g_state = "IXFR_REMOVE"
    /\ TakeSOA(sn) /\ UNCHANGED g_serial
    /\ enter("IXFR_ADD", "ixfr-rem", sn)
    /\ print_data(sn, "SOA")

(* Mutant of Closes: every SOA ends the answer. *)
ClosesAny(sn) == sn = sn
Closes(sn) == sn = g_serial

ReadInAdd ==
  \E sn \in Serials :
    /\ g_state = "IXFR_ADD"
    /\ TakeSOA(sn) /\ UNCHANGED g_serial
    /\ IF Closes(sn)
         THEN enter("IXFR_BEGIN", "ixfr-soa", 0) /\ Hide
         ELSE enter("IXFR_REMOVE", "ixfr-rem", sn) /\ print_data(sn, "SOA")

-----------------------------------------------------------------------------
(* _dig_both. *)

(* The next process of digcmp.py reads the output of the other server. *)
NextOutput ==
  /\ turn \in Servers /\ rest = {} /\ at = Chunks(answer[turn])
  /\ turn' = IF turn = "named" THEN "knotd" ELSE "diff"
  /\ at' = 0 /\ rest' = {}
  /\ g_state' = FirstState /\ g_section' = FirstSection /\ g_serial' = 0
  /\ UNCHANGED <<kind, answer, out, ret>>

(* diff: tagged lines one output has more often than the other. *)
Differences ==
  BagToSet(out["named"] (-) out["knotd"]) \cup BagToSet(out["knotd"] (-) out["named"])

(* digcmp.py -r: a masked difference is not printed, a warning not counted. *)
Excused(x) == x[2].rr \in Excusable

(* "no response from knotd": nothing printed and no header with NOERROR,   *)
(* which dig leaves out of transfers.                                      *)
Silent == out["knotd"] = EmptyBag

Compare ==
  /\ turn = "diff"
  /\ turn' = "done"
  /\ ret' = IF Silent \/ \E x \in Differences : ~Excused(x) THEN 1 ELSE 0
  /\ UNCHANGED <<kind, answer, at, rest, glob, out>>

Returned == turn = "done" /\ UNCHANGED vars

Next ==
  \/ ReadRecord \/ ReadInAxfr \/ ReadInBegin \/ ReadInChangeset
  \/ ReadInRemove \/ ReadInAdd
  \/ NextOutput \/ Compare \/ Returned

Spec == Init /\ [][Next]_vars

-----------------------------------------------------------------------------

(* An answer without the records the rules excuse. *)
Strict(a) ==
  LET keep(S) == S \ Excusable
  IN  CASE a.form = "none" -> a
        [] a.form = "full" -> [a EXCEPT !.zone = keep(@)]
        [] a.form = "steps" ->
             [a EXCEPT !.steps = [n \in DOMAIN @ |->
                [del |-> keep(@[n].del), add |-> keep(@[n].add)]]]

(* The verdict is about the answers and nothing else: knotd answered, and  *)
(* but for excused records it answered what named did, whatever the order  *)
(* of the records ("normalized form for later comparison", tools/README).  *)
VerdictExact ==
  turn = "done" =>
    (ret = 0 <=> /\ answer["knotd"].form # "none"
                 /\ Strict(answer["named"]) = Strict(answer["knotd"]))

(* It is as long as no answer has two changesets, the additions of one and *)
(* the removals of the next being tagged alike (IXFR_ADD in parse_data).   *)
VerdictExactOfOne ==
  (\A d \in Servers : answer[d].form = "steps" => Len(answer[d].steps) = 1) =>
    VerdictExact

(* Between two outputs of an incremental answer the automaton is back      *)
(* where it began, so that the closing SOA of a changeset is recognised    *)
(* whatever number of changesets came before (State and g_serial).         *)
ClosedAtEnd ==
  /\ turn \in Servers /\ rest = {} /\ at = Chunks(answer[turn])
  /\ answer[turn].form = "steps"
  => g_state = "IXFR_BEGIN" /\ g_serial = LastSerial(answer[turn])
=============================================================================
