---------------------------- MODULE PcatAnalyze ----------------------------
(***************************************************************************)
(* tools/pcat-analyze.py: the main loop, which lines up two captures of    *)
(* pcat by query id and compares the replies.  An entry of a capture is    *)
(* three lines: the id, the query and the reply.                           *)
(***************************************************************************)
EXTENDS PcatReplies

CONSTANTS
  Records,      \* the RRs of the replies
  Replies,      \* what an entry may hold
  Captures,     \* pairs of captures: sequences of entries [id, reply]
  Inspects      \* values of -i, 0 if it is not given

Ascending(file) ==
  \A i, j \in DOMAIN file : i < j => file[i].id < file[j].id

ASSUME CapturesAssumption ==
  \A c \in Captures : c = <<c[1], c[2]>> /\ \A i \in {1, 2} :
    /\ c[i] \in Seq([id : Nat \ {0}, reply : Replies])
    /\ Ascending(c[i])
ASSUME InspectsAssumption == Inspects \subseteq Nat
ASSUME RepliesAssumption ==
  \A r \in Replies : r.kind \in Kinds /\ (IsMessage(r) =>
    /\ r.question \in Seq({r.question[i] : i \in DOMAIN r.question})
    /\ \A s \in {r.answer, r.authority, r.additional} :
         s \in Seq(Records) /\ IsSection(s))

VARIABLES
  base, target,   \* the two captures
  inspect_id,
  pc,             \* base | target | compare | report | reported | inspected
                  \*   | crashed
  bl, tl,         \* number of the next entry of each
  pkt, t_different

files == <<base, target, inspect_id>>
vars == <<files, pc, bl, tl, pkt, t_different>>

Init ==
  /\ \E c \in Captures : base = c[1] /\ target = c[2]
  /\ inspect_id \in Inspects
  /\ pc = "base"
  /\ bl = 1 /\ tl = 1
  /\ pkt = 1 /\ t_different = 0

(* Mutant of ReadBase: an entry is skipped. *)
ReadBaseTwice ==
  /\ pc = "base" /\ bl <= Len(base)
  /\ IF base[bl].id = pkt
       THEN pc' = "target" /\ bl' = bl
       ELSE pc' = "base" /\ bl' = bl + 2
  /\ UNCHANGED <<files, tl, pkt, t_different>>
(* Find the next packet id in the base capture. *)
ReadBase ==
  /\ pc = "base" /\ bl <= Len(base)
  /\ IF base[bl].id = pkt
       THEN pc' = "target" /\ bl' = bl
       ELSE pc' = "base" /\ bl' = bl + 1
  /\ UNCHANGED <<files, tl, pkt, t_different>>

(* Mutant of ReadTarget: an id that is missing is passed over. *)
ReadTargetBeyond ==
  /\ pc = "target" /\ tl <= Len(target)
  /\ IF target[tl].id >= pkt
       THEN pc' = "compare" /\ tl' = tl
       ELSE pc' = "target" /\ tl' = tl + 1
  /\ UNCHANGED <<files, bl, pkt, t_different>>
(* Find it in the target capture. *)
ReadTarget ==
  /\ pc = "target" /\ tl <= Len(target)
  /\ IF target[tl].id = pkt
       THEN pc' = "compare" /\ tl' = tl
       ELSE pc' = "target" /\ tl' = tl + 1
  /\ UNCHANGED <<files, bl, pkt, t_different>>

(* Mutant of FileEnds: the loop over the target does not end with it. *)
BaseEnds ==
  /\ pc = "base" /\ bl > Len(base)
  /\ pc' = "report"
  /\ UNCHANGED <<files, bl, tl, pkt, t_different>>
FileEnds ==
  /\ \/ pc = "base" /\ bl > Len(base)
     \/ pc = "target" /\ tl > Len(target)
  /\ pc' = "report"
  /\ UNCHANGED <<files, bl, tl, pkt, t_different>>

Outcome ==
  IF inspect_id \in {0, pkt}
    THEN Analyze(base[bl].reply, target[tl].reply, inspect_id = pkt)
    ELSE "same"

Count(outcome) ==
  t_different' = t_different + (IF outcome = "different" THEN 1 ELSE 0)

(* Skip the questions, read the replies and evaluate them. *)
Compare ==
  /\ pc = "compare"
  /\ inspect_id # pkt
  /\ Outcome # "crash"
  /\ Count(Outcome)
  /\ pc' = "base"
  /\ bl' = bl + 1 /\ tl' = tl + 1 /\ pkt' = pkt + 1
  /\ UNCHANGED files

Inspect ==
  /\ pc = "compare"
  /\ inspect_id = pkt
  /\ Outcome # "crash"
  /\ Count(Outcome)
  /\ pc' = "report"
  /\ bl' = bl + 1 /\ tl' = tl + 1
  /\ UNCHANGED <<files, pkt>>

(* An exception that nothing catches ends the tool without a report.       *)
Crash ==
  /\ \/ pc = "compare" /\ Outcome = "crash"
     \/ pc = "report" /\ inspect_id = 0 /\ pkt = 1     \* division by zero
  /\ pc' = "crashed"
  /\ UNCHANGED <<files, bl, tl, pkt, t_different>>

Report ==
  /\ pc = "report"
  /\ inspect_id = 0 => pkt > 1
  /\ pc' = IF inspect_id = 0 THEN "reported" ELSE "inspected"
  /\ UNCHANGED <<files, bl, tl, pkt, t_different>>

Next ==
  \/ ReadBase \/ ReadTarget \/ FileEnds
  \/ Compare \/ Inspect \/ Crash \/ Report

Spec == Init /\ [][Next]_vars

FairSpec == Spec /\ WF_vars(Next)

-----------------------------------------------------------------------------
Entries(file) == {file[k] : k \in DOMAIN file}
Ids(file) == {e.id : e \in Entries(file)}
ReplyOf(file, i) == (CHOOSE e \in Entries(file) : e.id = i).reply

TypeOK ==
  /\ <<base, target>> \in Captures /\ inspect_id \in Inspects
  /\ pc \in {"base", "target", "compare", "report",
             "reported", "inspected", "crashed"}
  /\ bl \in 1..(Len(base) + 1) /\ tl \in 1..(Len(target) + 1)
  /\ pkt \in Nat \ {0} /\ t_different \in Nat

(* The captures stay lined up (main loop): what is compared are the        *)
(* replies to one query, and every query before it has been found in both. *)
LinedUp ==
  /\ pc = "compare" => base[bl].id = pkt /\ target[tl].id = pkt
  /\ \A i \in 1..(pkt - 1) : i \in Ids(base) \cap Ids(target)

(* The analysis implements CaptureDiff: it stops at the first query that   *)
(* one of the captures lacks and not before, and counts the replies that   *)
(* differ by more than case, rotation and time, if no reply of the base    *)
(* has a record twice.  With -i a single reply is compared and none counted. *)
All == inspect_id = 0
DiffersInMeaning(b, t) == ~SameReply(b, t)

Diff == INSTANCE CaptureDiff WITH
  base <- [i \in Ids(base) |-> ReplyOf(base, i)],
  target <- [i \in Ids(target) |-> ReplyOf(target, i)],
  compared <- IF All THEN 1..(pkt - 1) ELSE {},
  different <- IF All THEN t_different ELSE 0,
  status <- IF pc \in {"inspected", "crashed"} THEN "aborted"
            ELSE IF pc = "reported" THEN "finished"
            ELSE "running",
  Differs <- DiffersInMeaning

Refines == Diff!Spec

(* Every analysis ends. *)
Terminates == <>(pc \in {"reported", "inspected", "crashed"})

(* README: "case of domain names and RR rotation is ignored".  If no two   *)
(* replies to one query differ in more than that, and there are any, the   *)
(* tool gets to its report and has no difference to report.                *)
CaseIsIgnored ==
  LET both == Ids(base) \cap Ids(target)
  IN /\ All
     /\ 1 \in both
     /\ \A i \in both : SameButCase(ReplyOf(base, i), ReplyOf(target, i))
     => pc # "crashed" /\ t_different = 0
=============================================================================
