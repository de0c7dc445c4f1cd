------------------------- MODULE PcatAnalyze_proofs -------------------------
(***************************************************************************)
(* For any captures: the pairing of records finds exactly the sections     *)
(* that differ, if the base has no record twice, and the main loop         *)
(* implements CaptureDiff.                                                 *)
(***************************************************************************)
EXTENDS PcatAnalyze, FiniteSetTheorems, SequenceTheorems,
        WellFoundedInduction, TLAPS

(* FirstOf picks an element. *)
LEMMA FirstOfIn ==
  ASSUME NEW I \in SUBSET Nat, I # {}
  PROVE  FirstOf(I) \in I
<1> DEFINE R == OpToRel(<, Nat)
<1>1. IsWellFoundedOn(R, Nat)
  BY NatLessThanWellFounded
<1>2. \A a, b \in Nat : a < b => <<a, b>> \in R
  BY DEF OpToRel
<1> HIDE DEF R
<1>3. PICK i \in I : \A k \in I : ~(<<k, i>> \in R)
  BY <1>1, WFMin
<1>4. \A k \in I : i <= k
  <2> TAKE k \in I
  <2>1. i \in Nat /\ k \in Nat
    OBVIOUS
  <2>2. ~(k < i)
    BY <1>2, <1>3, <2>1, Zenon
  <2> QED
    BY <2>1, <2>2
<1> QED
  BY <1>4 DEF FirstOf

-----------------------------------------------------------------------------
(* An RR as it stands in a section. *)
Proper(r) ==
  r.type = "TSIG" =>
    /\ r.rd.fields \in Seq(Texts) /\ Len(r.rd.fields) = 7
    /\ r.rd.other \in Seq(Texts) /\ r.rd.other # <<>>

Outcomes == {"same", "different", "crash"}

(* Two decoded TSIG compare the same if SameTsig says so, if the other_data *)
(* of the base is one word.                                                *)
LEMMA TsigExact ==
  ASSUME NEW b, NEW t,
         b.fields \in Seq(Texts), Len(b.fields) = 7,
         b.other \in Seq(Texts), Len(b.other) = 1,
         t.fields \in Seq(Texts), Len(t.fields) = 7,
         t.other \in Seq(Texts), t.other # <<>>
  PROVE  /\ TsigOutcome(b, t) \in Outcomes
         /\ TsigOutcome(b, t) = "same" => SameTsig(b, t)
         /\ TsigOutcome(b, t) = "different" => ~SameTsig(b, t)
<1> DEFINE x == TsigFields(b)
           y == TsigFields(t)
           D == {k \in (1..(Len(x) - 1)) \ {2, 5} :
                   ~(BothBadtime(x, y) /\ k = 9)
                     /\ ~(k \in DOMAIN y /\ x[k] = y[k])}
<1>1. ASSUME NEW f \in Seq(Texts), Len(f) = 7, NEW o \in Seq(Texts)
      PROVE  /\ f \o o \in Seq(Texts)
             /\ Len(f \o o) = 7 + Len(o)
             /\ \A k \in 1..7 : (f \o o)[k] = f[k]
  <2>1. Len(o) \in Nat
    BY LenProperties
  <2>2. \A k \in 1..7 : k \in 1..(Len(f) + Len(o)) /\ k <= Len(f)
    BY <1>1, <2>1
  <2>3. /\ f \o o \in Seq(Texts)
        /\ Len(f \o o) = Len(f) + Len(o)
        /\ \A k \in 1..(Len(f) + Len(o)) :
             (f \o o)[k] = IF k <= Len(f) THEN f[k] ELSE o[k - Len(f)]
    BY <1>1, ConcatProperties, Zenon
  <2>4. \A k \in 1..7 : (f \o o)[k] = f[k]
    BY <2>2, <2>3, Zenon
  <2> QED
    BY <1>1, <2>3, <2>4, Zenon
<1>2. /\ Len(x) = 8 /\ \A k \in 1..7 : x[k] = b.fields[k]
      /\ Len(y) \in Nat /\ Len(y) >= 8 /\ DOMAIN y = 1..Len(y)
      /\ \A k \in 1..7 : y[k] = t.fields[k]
  <2>1. Len(x) = 7 + Len(b.other) /\ \A k \in 1..7 : x[k] = b.fields[k]
    BY <1>1, Zenon DEF TsigFields
  <2>2. Len(t.other) \in Nat /\ Len(t.other) >= 1
    BY EmptySeq
  <2>3. /\ y \in Seq(Texts) /\ Len(y) = 7 + Len(t.other)
        /\ \A k \in 1..7 : y[k] = t.fields[k]
    BY <1>1, Zenon DEF TsigFields
  <2>4. DOMAIN y = 1..Len(y)
    BY <2>3, LenProperties
  <2> HIDE DEF x, y
  <2> QED
    BY <2>1, <2>2, <2>3, <2>4
<1> HIDE DEF x, y
<1>3. D = {k \in {1, 3, 4, 6, 7} : b.fields[k] # t.fields[k]}
  <2>1. (1..(Len(x) - 1)) \ {2, 5} = {1, 3, 4, 6, 7}
    BY <1>2
  <2>2. \A k \in {1, 3, 4, 6, 7} :
          k # 9 /\ k \in DOMAIN y /\ x[k] = b.fields[k] /\ y[k] = t.fields[k]
    BY <1>2
  <2> QED
    BY <2>1, <2>2, Zenon
<1>4. TsigOutcome(b, t) =
        IF BothBadtime(x, y) THEN "crash"
        ELSE IF D = {} THEN "same"
        ELSE IF FirstOf(D) \in DOMAIN y THEN "different" ELSE "crash"
  <2>1. Len(x) < 9
    BY <1>2
  <2> QED
    BY <2>1, Zenon DEF TsigOutcome, x, y
<1> HIDE DEF D
<1>5. SameTsig(b, t) <=> D = {}
  BY <1>3 DEF SameTsig
<1> QED
  BY <1>4, <1>5 DEF Outcomes

(* analyze_rr finds two RRs the same exactly if they are, unless it raises. *)
LEMMA RrExact ==
  ASSUME NEW b, NEW t, Proper(b), Proper(t),
         b.type = "TSIG" => Len(b.rd.other) = 1
  PROVE  /\ RrOutcome(b, t) \in Outcomes
         /\ RrOutcome(b, t) = "same" => SameRR(b, t)
         /\ RrOutcome(b, t) = "different" => ~SameRR(b, t)
<1>1. CASE ~(SameKey(b, t) /\ b.class = t.class /\ b.ttl = t.ttl)
  BY <1>1 DEF RrOutcome, SameRR, Outcomes
<1>2. CASE b.rd = t.rd
  BY <1>2 DEF RrOutcome, SameRR, SameRdata, Outcomes
<1>3. CASE /\ SameKey(b, t) /\ b.class = t.class /\ b.ttl = t.ttl
           /\ b.rd # t.rd
  <2>1. /\ RrOutcome(b, t) = RdataOutcome(b, t)
        /\ SameRR(b, t) <=> SameRdata(b, t)
    BY <1>3 DEF RrOutcome, SameRR
  <2>2. CASE b.type = "TSIG"
    <3>1. t.type = "TSIG"
      BY <1>3, <2>2 DEF SameKey
    <3>2. /\ RdataOutcome(b, t) = TsigOutcome(b.rd, t.rd)
          /\ SameRdata(b, t) <=> SameTsig(b.rd, t.rd)
      BY <1>3, <2>2 DEF RdataOutcome, SameRdata, NameTypes, BrokenTypes
    <3> QED
      BY <2>1, <2>2, <3>1, <3>2, TsigExact DEF Proper
  <2>3. CASE b.type \in NameTypes
    BY <1>3, <2>1, <2>3 DEF RdataOutcome, SameRdata, Outcomes, NameTypes
  <2>4. CASE b.type \in BrokenTypes
    BY <1>3, <2>1, <2>4 DEF RdataOutcome, Outcomes, NameTypes, BrokenTypes
  <2>5. CASE b.type \notin {"TSIG"} \cup NameTypes \cup BrokenTypes
    BY <1>3, <2>1, <2>5 DEF RdataOutcome, SameRdata, Outcomes
  <2> QED
    BY <2>2, <2>3, <2>4, <2>5
<1> QED
  BY <1>1, <1>2, <1>3

(* Two RRs that are the same as a third are the same.                      *)
LEMMA SameRRJoins ==
  ASSUME NEW a, NEW b, NEW t, SameRR(a, t), SameRR(b, t)
  PROVE  SameRR(a, b)
<1>1. SameKey(a, b) /\ a.class = b.class /\ a.ttl = b.ttl
      /\ a.type = t.type /\ b.type = t.type
  BY DEF SameRR, SameKey
<1>2. SameRdata(a, b)
  BY <1>1 DEF SameRR, SameRdata, SameTsig, NameTypes, BrokenTypes
<1> QED
  BY <1>1, <1>2 DEF SameRR

Section(s) == s \in Seq(Records) /\ IsSection(s)

(* A section consists of records as dnspython makes them.                  *)
LEMMA SectionRecords ==
  ASSUME NEW s, Section(s), NEW i \in DOMAIN s
  PROVE  Proper(s[i])
BY DEF Section, IsSection, Proper

(* The search for a partner: unless it raises, it finds one exactly if     *)
(* there is one.                                                           *)
LEMMA BestExact ==
  ASSUME NEW b, NEW t, Section(b), Section(t), PlainSection(b),
         Len(b) = Len(t), NEW j \in DOMAIN b
  PROVE  /\ BestOutcome(b, t, j) \in Outcomes
         /\ BestOutcome(b, t, j) = "same" =>
              \E k \in DOMAIN t : SameRR(b[j], t[k])
         /\ BestOutcome(b, t, j) = "different" =>
              \A k \in DOMAIN t : ~SameRR(b[j], t[k])
<1> DEFINE C == Candidates(b, t, j)
           stops == {k \in C : RrOutcome(b[j], t[k]) # "different"}
<1>1. /\ Len(b) \in Nat
      /\ DOMAIN b = 1..Len(b) /\ DOMAIN t = 1..Len(b)
  BY LenProperties DEF Section
<1>2. /\ C \subseteq DOMAIN t
      /\ \A k \in DOMAIN t : SameRR(b[j], t[k]) => k \in C
  BY <1>1, Zenon DEF Candidates, SameRR
<1>3. \A k \in C : /\ RrOutcome(b[j], t[k]) \in Outcomes
                   /\ RrOutcome(b[j], t[k]) = "same" => SameRR(b[j], t[k])
                   /\ RrOutcome(b[j], t[k]) = "different" => ~SameRR(b[j], t[k])
  <2>1. Proper(b[j]) /\ (b[j].type = "TSIG" => Len(b[j].rd.other) = 1)
    BY SectionRecords DEF PlainSection
  <2>2. \A k \in C : Proper(t[k])
    BY <1>2, SectionRecords
  <2> QED
    BY <2>1, <2>2, RrExact
<1> HIDE DEF C
<1>4. BestOutcome(b, t, j) =
        IF stops = {} THEN "different" ELSE RrOutcome(b[j], t[FirstOf(stops)])
  BY DEF BestOutcome, C
<1>5. CASE stops = {}
  BY <1>2, <1>3, <1>4, <1>5 DEF Outcomes
<1>6. CASE stops # {}
  <2>1. stops \in SUBSET Nat
    BY <1>1, <1>2
  <2>2. FirstOf(stops) \in stops
    <3> HIDE DEF stops
    <3> QED
      BY <1>6, <2>1, FirstOfIn
  <2> QED
    BY <1>2, <1>3, <1>4, <1>6, <2>2
<1> QED
  BY <1>5, <1>6

(* "autoselects best RR pairing" (analyze_rrs): unless it raises, the      *)
(* comparison of two sections is right, if the base has no record twice.   *)
THEOREM PairingExact ==
  ASSUME NEW b, NEW t, Section(b), Section(t), PlainSection(b),
         Len(b) = Len(t)
  PROVE  /\ RrsOutcome(b, t) \in Outcomes
         /\ RrsOutcome(b, t) = "same" => SameSection(b, t)
         /\ RrsOutcome(b, t) = "different" => ~SameSection(b, t)
<1> DEFINE stops == {j \in DOMAIN b : BestOutcome(b, t, j) # "same"}
<1>1. /\ Len(b) \in Nat
      /\ DOMAIN b = 1..Len(b) /\ DOMAIN t = 1..Len(b)
  BY LenProperties DEF Section
<1>2. RrsOutcome(b, t) =
        IF stops = {} THEN "same" ELSE BestOutcome(b, t, FirstOf(stops))
  BY DEF RrsOutcome
<1>3. CASE stops = {}
  <2> DEFINE f == [j \in 1..Len(b) |->
                     CHOOSE k \in 1..Len(b) : SameRR(b[j], t[k])]
  <2>1. \A j \in 1..Len(b) : \E k \in 1..Len(b) : SameRR(b[j], t[k])
    BY <1>1, <1>3, BestExact
  <2>2. \A j \in 1..Len(b) : f[j] \in 1..Len(b) /\ SameRR(b[j], t[f[j]])
    BY <2>1
  <2>3. ASSUME NEW i \in 1..Len(b), NEW j \in 1..Len(b), f[i] = f[j]
        PROVE  i = j
    <3>1. SameRR(b[i], t[f[i]]) /\ SameRR(b[j], t[f[i]])
      BY <2>2, <2>3
    <3>2. SameRR(b[i], b[j])
      BY <3>1, SameRRJoins
    <3> QED
      BY <1>1, <3>2 DEF PlainSection
  <2>4. f \in [1..Len(b) -> 1..Len(b)]
    BY <2>2
  <2> HIDE DEF f
  <2>5. SameSection(b, t)
    BY <2>2, <2>3, <2>4, Zenon DEF SameSection
  <2> QED
    BY <1>2, <1>3, <2>5 DEF Outcomes
<1>4. CASE stops # {}
  <2> DEFINE j == FirstOf(stops)
  <2>1. j \in stops
    <3>1. stops \in SUBSET Nat
      BY <1>1
    <3> HIDE DEF stops
    <3> QED
      BY <1>4, <3>1, FirstOfIn
  <2>2. /\ j \in DOMAIN b
        /\ BestOutcome(b, t, j) \in Outcomes \ {"same"}
        /\ BestOutcome(b, t, j) = "different" =>
             \A k \in DOMAIN t : ~SameRR(b[j], t[k])
    BY <2>1, BestExact
  <2> HIDE DEF j
  <2>3. BestOutcome(b, t, j) = "different" => ~SameSection(b, t)
    BY <1>1, <2>2, Zenon DEF SameSection
  <2> QED
    BY <1>2, <1>4, <2>2, <2>3 DEF j
<1> QED
  BY <1>3, <1>4

(* What the tool says of two sections is so, unless the comparison raises: *)
(* the same if they have the same records, else different.                 *)
LEMMA SectionOutcomeExact ==
  ASSUME NEW b, NEW t, Section(b), Section(t), PlainSection(b)
  PROVE  /\ SectionOutcome(b, t) \in Outcomes
         /\ SectionOutcome(b, t) = "same" => SameSection(b, t)
         /\ SectionOutcome(b, t) = "different" => ~SameSection(b, t)
BY PairingExact DEF SectionOutcome, SameSection, Outcomes

(* The same holds of two replies: header, question and three sections.     *)
LEMMA MessageExact ==
  ASSUME NEW b \in Replies, NEW t \in Replies,
         IsMessage(b), IsMessage(t), b # t, PlainReply(b)
  PROVE  /\ MessageOutcome(b, t) \in Outcomes
         /\ MessageOutcome(b, t) = "same" => SameReply(b, t)
         /\ MessageOutcome(b, t) = "different" => ~SameReply(b, t)
<1> DEFINE h == IF b.header = t.header THEN "same" ELSE "different"
           q == QuestionOutcome(b.question, t.question)
           an == SectionOutcome(b.answer, t.answer)
           ns == SectionOutcome(b.authority, t.authority)
           ar == SectionOutcome(b.additional, t.additional)
           s == <<h, q, an, ns, ar>>
           stops == {i \in DOMAIN s : s[i] # "same"}
           sameQ == /\ Len(b.question) = Len(t.question)
                    /\ \A i \in DOMAIN b.question :
                         SameQuestion(b.question[i], t.question[i])
<1>1. /\ h \in Outcomes
      /\ h = "same" <=> b.header = t.header
  BY DEF Outcomes
<1>2. /\ q \in Outcomes
      /\ q = "same" => sameQ
      /\ q = "different" => ~sameQ
  <2>1. /\ Len(b.question) \in Nat /\ Len(b.question) <= 1
        /\ DOMAIN b.question = 1..Len(b.question)
    BY RepliesAssumption, LenProperties DEF PlainReply
  <2>3. CASE Len(b.question) = 1
    <3>1. DOMAIN b.question = {1}
      BY <2>1, <2>3
    <3> QED
      BY <2>3, <3>1, Zenon DEF QuestionOutcome, Outcomes
  <2>4. CASE Len(b.question) # 1
    <3>1. DOMAIN b.question = {}
      <4>1. \A n \in Nat : n <= 1 /\ n # 1 => 1..n = {}
        OBVIOUS
      <4> QED
        BY <2>1, <2>4, <4>1, Zenon
    <3> QED
      BY <2>4, <3>1, Zenon DEF QuestionOutcome, Outcomes
  <2> QED
    BY <2>3, <2>4
<1>3. \A x \in {b.answer, b.authority, b.additional} : Section(x) /\ PlainSection(x)
  BY RepliesAssumption DEF Section, PlainReply
<1>4. \A x \in {t.answer, t.authority, t.additional} : Section(x)
  BY RepliesAssumption DEF Section
<1>5. /\ an \in Outcomes
      /\ an = "same" => SameSection(b.answer, t.answer)
      /\ an = "different" => ~SameSection(b.answer, t.answer)
  BY <1>3, <1>4, SectionOutcomeExact
<1>6. /\ ns \in Outcomes
      /\ ns = "same" => SameSection(b.authority, t.authority)
      /\ ns = "different" => ~SameSection(b.authority, t.authority)
  BY <1>3, <1>4, SectionOutcomeExact
<1>7. /\ ar \in Outcomes
      /\ ar = "same" => SameSection(b.additional, t.additional)
      /\ ar = "different" => ~SameSection(b.additional, t.additional)
  BY <1>3, <1>4, SectionOutcomeExact
<1>8. SameReply(b, t) <=>
        /\ b.header = t.header /\ sameQ
        /\ SameSection(b.answer, t.answer)
        /\ SameSection(b.authority, t.authority)
        /\ SameSection(b.additional, t.additional)
  BY DEF SameReply
<1>9. MessageOutcome(b, t) =
        IF stops = {} THEN "same" ELSE s[FirstOf(stops)]
  BY Zenon DEF MessageOutcome, FirstNotSame
<1> HIDE DEF h, q, an, ns, ar
<1>10. DOMAIN s = 1..5 /\ s[1] = h /\ s[2] = q /\ s[3] = an /\ s[4] = ns /\ s[5] = ar
  OBVIOUS
<1> HIDE DEF s, sameQ
<1>11. CASE stops = {}
  <2>1. h = "same" /\ q = "same" /\ an = "same" /\ ns = "same" /\ ar = "same"
    BY <1>10, <1>11
  <2> QED
    BY <1>1, <1>2, <1>5, <1>6, <1>7, <1>8, <1>9, <1>11, <2>1 DEF Outcomes
<1>12. CASE stops # {}
  <2>1. FirstOf(stops) \in stops
    <3>1. stops \in SUBSET Nat
      BY <1>10
    <3> HIDE DEF stops
    <3> QED
      BY <1>12, <3>1, FirstOfIn
  <2>2. /\ FirstOf(stops) \in 1..5
        /\ MessageOutcome(b, t) = s[FirstOf(stops)]
        /\ s[FirstOf(stops)] # "same"
    BY <1>9, <1>10, <1>12, <2>1
  <2>3. MessageOutcome(b, t) \in {h, q, an, ns, ar} \ {"same"}
    BY <1>10, <2>2
  <2> QED
    BY <1>1, <1>2, <1>5, <1>6, <1>7, <1>8, <2>3
<1> QED
  BY <1>11, <1>12

(* Two replies: the verdict of analyze without --inspect. *)
LEMMA AnalyzeExact ==
  ASSUME NEW b \in Replies, NEW t \in Replies, PlainReply(b)
  PROVE  /\ Analyze(b, t, FALSE) \in Outcomes
         /\ Analyze(b, t, FALSE) = "same" => SameReply(b, t)
         /\ Analyze(b, t, FALSE) = "different" => ~SameReply(b, t)
<1>1. CASE b = t
  BY <1>1 DEF Analyze, SameReply, Outcomes
<1>2. CASE b # t /\ ~(IsMessage(b) /\ IsMessage(t))
  <2>1. b.kind \in Kinds /\ t.kind \in Kinds
    BY RepliesAssumption
  <2>2. {b.kind, t.kind} \cap {"none", "unparsable", "odd"} # {}
    BY <1>2, <2>1 DEF IsMessage, Kinds
  <2>3. "none" \notin {b.kind, t.kind} =>
          "odd" \in {b.kind, t.kind} \/ "unparsable" \in {b.kind, t.kind}
    BY <2>2, Zenon
  <2>4. Analyze(b, t, FALSE) \in {"different", "crash"}
    BY <1>2, <2>3, Zenon DEF Analyze
  <2> QED
    BY <1>2, <2>4, Zenon DEF SameReply, Outcomes
<1>3. CASE b # t /\ IsMessage(b) /\ IsMessage(t)
  <2>1. Analyze(b, t, FALSE) = MessageOutcome(b, t)
    <3>1. {b.kind, t.kind} = {"msg"}
      BY <1>3 DEF IsMessage
    <3>2. /\ "odd" \notin {b.kind, t.kind} /\ "none" \notin {b.kind, t.kind}
          /\ "unparsable" \notin {b.kind, t.kind}
          /\ {b.kind, t.kind} # {"none"}
      BY <3>1
    <3> QED
      BY <1>3, <3>2, Zenon DEF Analyze
  <2> QED
    BY <1>3, <2>1, MessageExact
<1> QED
  BY <1>1, <1>2, <1>3

-----------------------------------------------------------------------------
(* The main loop. *)

Files == [id : Nat \ {0}, reply : Replies]

(* What the files of a capture are, stated once for the provers.           *)
LEMMA CaptureFacts ==
  ASSUME <<base, target>> \in Captures
  PROVE  /\ base \in Seq(Files) /\ Ascending(base)
         /\ target \in Seq(Files) /\ Ascending(target)
         /\ Len(base) \in Nat /\ DOMAIN base = 1..Len(base)
         /\ Len(target) \in Nat /\ DOMAIN target = 1..Len(target)
<1> DEFINE c == <<base, target>>
<1>1. c[1] = base /\ c[2] = target
  OBVIOUS
<1>2. /\ base \in Seq(Files) /\ Ascending(base)
      /\ target \in Seq(Files) /\ Ascending(target)
  BY <1>1, CapturesAssumption, Zenon DEF Files
<1> QED
  BY <1>2, LenProperties

(* What has been read of a file does not hold the id that is looked for,   *)
(* and every id before it has been found in both files.                    *)
Passed(file, n) == \A k \in 1..(n - 1) : file[k].id # pkt

LInv ==
  /\ TypeOK
  /\ pc \in {"target", "compare"} => bl <= Len(base) /\ base[bl].id = pkt
  /\ pc = "compare" => tl <= Len(target) /\ target[tl].id = pkt
  /\ pc \in {"base", "target", "compare"} => Passed(base, bl) /\ Passed(target, tl)
  /\ \A i \in 1..(pkt - 1) : i \in Ids(base) \cap Ids(target)
  /\ (pc \in {"report", "reported"} /\ All) =>
       pkt \notin Ids(base) \cap Ids(target)

(* The ids of a capture are those of its entries.                          *)
LEMMA IdsFacts ==
  ASSUME NEW file \in Seq(Files)
  PROVE  \A i : i \in Ids(file) <=> \E k \in 1..Len(file) : file[k].id = i
BY LenProperties, Zenon DEF Ids, Entries

(* Behind an entry with the id n there is none with a smaller or the same. *)
LEMMA AfterMatch ==
  ASSUME NEW file \in Seq(Files), Ascending(file),
         NEW n \in 1..Len(file)
  PROVE  \A k \in 1..((n + 1) - 1) : file[k].id # file[n].id + 1
<1>1. Len(file) \in Nat /\ DOMAIN file = 1..Len(file)
  BY LenProperties
<1>2. \A k \in 1..Len(file) : file[k].id \in Nat
  <2>1. \A k \in 1..Len(file) : file[k] \in Files
    BY ElementOfSeq
  <2> QED
    BY <2>1 DEF Files
<1>3. \A k \in 1..n : k \in 1..Len(file) /\ (k < n \/ k = n)
  BY <1>1
<1>4. \A k \in 1..n : file[k].id < file[n].id \/ file[k].id = file[n].id
  BY <1>1, <1>3, Zenon DEF Ascending
<1> QED
  BY <1>1, <1>2, <1>3, <1>4

(* Initially no id has been looked for.                                    *)
LEMMA LInvInit == Init => LInv
<1> SUFFICES ASSUME Init PROVE LInv
  OBVIOUS
<1>1. PICK c \in Captures : base = c[1] /\ target = c[2]
  BY DEF Init
<1>2. <<base, target>> \in Captures
  BY <1>1, CapturesAssumption, Zenon
<1> QED
  BY <1>2, CaptureFacts DEF Init, LInv, TypeOK, Passed

(* Whatever is read, the two files stay at entries with the same id, all   *)
(* smaller ids having been found in both.                                  *)
LEMMA LInvStep == LInv /\ [Next]_vars => LInv'
<1> SUFFICES ASSUME LInv, [Next]_vars PROVE LInv'
  OBVIOUS
<1>1. /\ base \in Seq(Files) /\ Ascending(base)
      /\ target \in Seq(Files) /\ Ascending(target)
      /\ Len(base) \in Nat /\ Len(target) \in Nat
  BY CaptureFacts DEF LInv, TypeOK
<1>2. /\ \A i : i \in Ids(base) <=> \E k \in 1..Len(base) : base[k].id = i
      /\ \A i : i \in Ids(target) <=> \E k \in 1..Len(target) : target[k].id = i
  BY <1>1, IdsFacts
<1>3. CASE ReadBase
  BY <1>1, <1>3 DEF ReadBase, LInv, TypeOK, Passed, files, All, Ids, Entries
<1>4. CASE ReadTarget
  BY <1>1, <1>4 DEF ReadTarget, LInv, TypeOK, Passed, files, All, Ids, Entries
<1>5. CASE FileEnds
  <2>1. pkt \notin Ids(base) \cap Ids(target)
    <3>1. CASE pc = "base" /\ bl > Len(base)
      <4>1. \A k \in 1..Len(base) : k \in 1..(bl - 1)
        BY <1>1, <3>1 DEF LInv, TypeOK
      <4>2. \A k \in 1..Len(base) : base[k].id # pkt
        BY <3>1, <4>1 DEF LInv, Passed
      <4> QED
        BY <1>2, <4>2, Zenon
    <3>2. CASE pc = "target" /\ tl > Len(target)
      <4>1. \A k \in 1..Len(target) : k \in 1..(tl - 1)
        BY <1>1, <3>2 DEF LInv, TypeOK
      <4>2. \A k \in 1..Len(target) : target[k].id # pkt
        BY <3>2, <4>1 DEF LInv, Passed
      <4> QED
        BY <1>2, <4>2, Zenon
    <3> QED
      BY <1>5, <3>1, <3>2, Zenon DEF FileEnds
  <2> QED
    BY <1>5, <2>1 DEF FileEnds, LInv, TypeOK, files, All, Ids, Entries
<1>6. CASE Compare \/ Inspect
  <2>1. /\ bl \in 1..Len(base) /\ tl \in 1..Len(target)
        /\ base[bl].id = pkt /\ target[tl].id = pkt /\ pkt \in Nat \ {0}
    BY <1>1, <1>6 DEF Compare, Inspect, LInv, TypeOK
  <2>2. pkt \in Ids(base) \cap Ids(target)
    BY <1>2, <2>1
  <2>3. t_different' \in Nat
    BY <1>6 DEF Compare, Inspect, Count, LInv, TypeOK
  <2>4. /\ \A k \in 1..((bl + 1) - 1) : base[k].id # pkt + 1
        /\ \A k \in 1..((tl + 1) - 1) : target[k].id # pkt + 1
    BY <1>1, <2>1, AfterMatch
  <2>5. CASE Compare
    <3>1. /\ pkt' = pkt + 1 /\ pc' = "base"
          /\ base' = base /\ target' = target /\ inspect_id' = inspect_id
          /\ bl' = bl + 1 /\ tl' = tl + 1
      BY <2>5 DEF Compare, files
    <3>2. TypeOK'
      BY <1>1, <2>1, <2>3, <3>1 DEF LInv, TypeOK
    <3>3. Passed(base, bl)' /\ Passed(target, tl)'
      BY <2>4, <3>1, Zenon DEF Passed
    <3>4. \A i \in 1..(pkt' - 1) : i \in 1..(pkt - 1) \/ i = pkt
      BY <2>1, <3>1
    <3>5. \A i \in 1..(pkt' - 1) : i \in Ids(base) \cap Ids(target)
      BY <2>2, <3>4, Zenon DEF LInv
    <3> QED
      BY <3>1, <3>2, <3>3, <3>5 DEF LInv, Ids, Entries
  <2>6. CASE Inspect
    BY <1>1, <2>1, <2>3, <2>6
      DEF Inspect, LInv, TypeOK, Passed, files, All, Ids, Entries
  <2> QED
    BY <1>6, <2>5, <2>6
<1>7. CASE Crash \/ Report
  BY <1>7 DEF Crash, Report, LInv, TypeOK, files, All, Ids, Entries
<1>8. CASE UNCHANGED vars
  BY <1>8 DEF vars, files, LInv, TypeOK, Passed, All, Ids, Entries
<1> QED
  BY <1>3, <1>4, <1>5, <1>6, <1>7, <1>8 DEF Next

(* The inductive invariant of the main loop.                               *)
LEMMA LInvAlways == Spec => []LInv
BY LInvInit, LInvStep, PTL DEF Spec

(* TypeOK holds of every run (the variables of the main loop). *)
THEOREM TypeCorrect == Spec => []TypeOK
<1>1. LInv => TypeOK
  BY DEF LInv
<1> QED
  BY <1>1, LInvAlways, PTL

(* LinedUp, for any captures: only replies to one query are compared       *)
(* (main loop), and none before the missing id is left out.                *)
THEOREM AlwaysLinedUp == Spec => []LinedUp
<1>1. LInv => LinedUp
  BY DEF LInv, LinedUp
<1> QED
  BY <1>1, LInvAlways, PTL

-----------------------------------------------------------------------------
(* The reply to a query is that of the entry with its id. *)
LEMMA ReplyOfIs ==
  ASSUME NEW file \in Seq(Files), Ascending(file), NEW n \in 1..Len(file)
  PROVE  ReplyOf(file, file[n].id) = file[n].reply
<1>1. Len(file) \in Nat /\ DOMAIN file = 1..Len(file)
  BY LenProperties
<1>2. \A k \in 1..Len(file) : file[k].id \in Nat
  <2>1. \A k \in 1..Len(file) : file[k] \in Files
    BY ElementOfSeq
  <2> QED
    BY <2>1 DEF Files
<1>3. ASSUME NEW k \in 1..Len(file), file[k].id = file[n].id
      PROVE  k = n
  <2>1. k < n \/ n < k \/ k = n
    BY <1>1
  <2>2. k < n => file[k].id < file[n].id
    BY <1>1, Zenon DEF Ascending
  <2>3. n < k => file[n].id < file[k].id
    BY <1>1, Zenon DEF Ascending
  <2> QED
    BY <1>2, <1>3, <2>1, <2>2, <2>3
<1>4. PICK e \in Entries(file) :
        e = (CHOOSE x \in Entries(file) : x.id = file[n].id)
          /\ e.id = file[n].id
  BY <1>1, Zenon DEF Entries
<1>5. e = file[n]
  BY <1>1, <1>3, <1>4, Zenon DEF Entries
<1> QED
  BY <1>4, <1>5, Zenon DEF ReplyOf

(* A query that is compared is the next one of the abstract analysis, and  *)
(* the verdict of the tool is that of CaptureDiff.                         *)
LEMMA CompareIsNext ==
  ASSUME LInv, pc = "compare", All,
         \A i \in DOMAIN base : PlainReply(base[i].reply)
  PROVE  /\ pkt \in Ids(base) \cap Ids(target)
         /\ Outcome \in Outcomes
         /\ Outcome = "same" => ~DiffersInMeaning(ReplyOf(base, pkt), ReplyOf(target, pkt))
         /\ Outcome = "different" => DiffersInMeaning(ReplyOf(base, pkt), ReplyOf(target, pkt))
<1>1. /\ base \in Seq(Files) /\ Ascending(base)
      /\ target \in Seq(Files) /\ Ascending(target)
      /\ Len(base) \in Nat /\ DOMAIN base = 1..Len(base) /\ Len(target) \in Nat
  BY CaptureFacts DEF LInv, TypeOK
<1>2. /\ bl \in 1..Len(base) /\ tl \in 1..Len(target)
      /\ base[bl].id = pkt /\ target[tl].id = pkt
      /\ inspect_id = 0 /\ pkt \in Nat \ {0}
  BY <1>1 DEF LInv, TypeOK, All
<1>3. pkt \in Ids(base) \cap Ids(target)
  BY <1>1, <1>2, IdsFacts
<1>4. /\ ReplyOf(base, pkt) = base[bl].reply
      /\ ReplyOf(target, pkt) = target[tl].reply
  BY <1>1, <1>2, ReplyOfIs
<1>5. base[bl].reply \in Replies /\ target[tl].reply \in Replies
  <2>1. base[bl] \in Files /\ target[tl] \in Files
    BY <1>1, <1>2, ElementOfSeq
  <2> QED
    BY <2>1 DEF Files
<1>6. Outcome = Analyze(base[bl].reply, target[tl].reply, FALSE)
  <2>1. inspect_id \in {0, pkt} /\ (inspect_id = pkt) = FALSE
    BY <1>2
  <2> QED
    BY <2>1 DEF Outcome
<1>7. PlainReply(base[bl].reply)
  BY <1>1, <1>2
<1> QED
  BY <1>3, <1>4, <1>5, <1>6, <1>7, AnalyzeExact, Zenon DEF DiffersInMeaning

(* The main loop implements CaptureDiff for any captures, if no reply of   *)
(* the base has a record twice: one comparison of the tool is one of the   *)
(* abstract analysis with the same verdict, and it finishes only if the    *)
(* next id is in one of the captures alone.                                *)
THEOREM Refinement ==
  ASSUME \A c \in Captures : \A i \in DOMAIN c[1] : PlainReply(c[1][i].reply)
  PROVE  Spec => Refines
<1> DEFINE B == [i \in Ids(base) |-> ReplyOf(base, i)]
           T == [i \in Ids(target) |-> ReplyOf(target, i)]
           compared == IF All THEN 1..(pkt - 1) ELSE {}
           different == IF All THEN t_different ELSE 0
           status == IF pc \in {"inspected", "crashed"} THEN "aborted"
                     ELSE IF pc = "reported" THEN "finished"
                     ELSE "running"
           abs == <<B, T, compared, different, status>>
<1>1. Init => Diff!Init
  <2>1. ASSUME Init PROVE compared = {} /\ different = 0 /\ status = "running"
    BY <2>1 DEF Init
  <2> QED
    BY <2>1 DEF Diff!Init
<1>2. LInv /\ [Next]_vars => [Diff!Next]_(Diff!vars)
  <2> SUFFICES ASSUME LInv, [Next]_vars
               PROVE  Diff!Next \/ abs' = abs
    BY Zenon DEF Diff!vars
  <2>0. /\ base' = base /\ target' = target /\ inspect_id' = inspect_id
        /\ <<base, target>> \in Captures
    BY DEF Next, vars, files, ReadBase, ReadTarget, FileEnds, Compare, Inspect,
           Crash, Report, LInv, TypeOK
  <2>1. B' = B /\ T' = T /\ All' = All
    BY <2>0 DEF Ids, Entries, ReplyOf, All
  <2>2. /\ \A i \in DOMAIN base : PlainReply(base[i].reply)
        /\ DOMAIN B = Ids(base) /\ DOMAIN T = Ids(target)
    <3>1. <<base, target>>[1] = base
      OBVIOUS
    <3> QED
      BY <2>0, <3>1, Zenon
  <2>3. CASE ReadBase \/ ReadTarget \/ FileEnds \/ UNCHANGED vars
    <3>1. pkt' = pkt /\ t_different' = t_different /\ status' = status
      BY <2>3 DEF ReadBase, ReadTarget, FileEnds, vars
    <3> QED
      BY <2>1, <3>1
  <2>4. CASE Compare /\ All
    <3>1. /\ pc = "compare" /\ Outcome # "crash" /\ pc' = "base"
          /\ pkt' = pkt + 1 /\ pkt \in Nat \ {0}
          /\ t_different' = t_different + (IF Outcome = "different" THEN 1 ELSE 0)
      BY <2>4 DEF Compare, Count, LInv, TypeOK
    <3>2. /\ pkt \in Ids(base) \cap Ids(target)
          /\ Outcome \in Outcomes
          /\ Outcome = "same" =>
               ~DiffersInMeaning(ReplyOf(base, pkt), ReplyOf(target, pkt))
          /\ Outcome = "different" =>
               DiffersInMeaning(ReplyOf(base, pkt), ReplyOf(target, pkt))
      BY <2>2, <2>4, <3>1, CompareIsNext, Zenon
    <3>3. B[pkt] = ReplyOf(base, pkt) /\ T[pkt] = ReplyOf(target, pkt)
      BY <3>2
    <3>4. /\ compared = 1..(pkt - 1) /\ compared' = 1..((pkt + 1) - 1)
          /\ different = t_different /\ different' = t_different'
          /\ status = "running" /\ status' = "running"
      BY <2>1, <2>4, <3>1
    <3> HIDE DEF B, T, compared, different, status
    <3>5. compared' = compared \cup {pkt}
      BY <3>1, <3>4
    <3>6. pkt \notin compared /\ 1..(pkt - 1) \subseteq compared
      BY <3>1, <3>4
    <3>7. different' = different
            + (IF DiffersInMeaning(B[pkt], T[pkt]) THEN 1 ELSE 0)
      BY <3>1, <3>2, <3>3, <3>4, Zenon DEF Outcomes
    <3>8. Diff!CompareNext
      BY <2>1, <2>2, <3>2, <3>4, <3>5, <3>6, <3>7, Zenon
        DEF Diff!CompareNext, Diff!Common, Diff!IsNext,
            B, T, compared, different, status
    <3> QED
      BY <3>8 DEF Diff!Next
  <2>5. CASE (Compare \/ Inspect) /\ ~All
    <3>1. pc = "compare" /\ pc' \in {"base", "report"}
      BY <2>5 DEF Compare, Inspect
    <3> QED
      BY <2>1, <2>5, <3>1
  <2>6. CASE Crash \/ (Report /\ ~All)
    <3>1. /\ pc \in {"compare", "report"} /\ pc' \in {"crashed", "inspected"}
          /\ pkt' = pkt /\ t_different' = t_different
      BY <2>6 DEF Crash, Report, All
    <3>2. status = "running" /\ status' = "aborted"
      BY <3>1
    <3>3. compared' = compared /\ different' = different
      BY <2>1, <3>1
    <3> HIDE DEF B, T, compared, different, status
    <3>4. Diff!Abort
      BY <2>1, <3>2, <3>3, Zenon
        DEF Diff!Abort, B, T, compared, different, status
    <3> QED
      BY <3>4 DEF Diff!Next
  <2>7. CASE Report /\ All
    <3>1. /\ pc = "report" /\ pc' = "reported"
          /\ pkt' = pkt /\ t_different' = t_different
      BY <2>7 DEF Report, All
    <3>2. status = "running" /\ status' = "finished"
      BY <3>1
    <3>3. compared' = compared /\ different' = different
      BY <2>1, <3>1
    <3>4. ASSUME NEW id \in DOMAIN B \cap DOMAIN T
          PROVE  ~(id \notin compared /\ 1..(id - 1) \subseteq compared)
      <4>1. /\ pkt \notin Ids(base) \cap Ids(target) /\ pkt \in Nat \ {0}
            /\ id \in Ids(base) \cap Ids(target)
        BY <2>2, <2>7, <3>1 DEF LInv, TypeOK
      <4>2. id \in Nat \ {0}
        <5>1. base \in Seq(Files)
          BY <2>0, CaptureFacts
        <5>2. \A k \in DOMAIN base : base[k] \in Files
          BY <5>1, ElementOfSeq, LenProperties
        <5>3. \A k \in DOMAIN base : base[k].id \in Nat \ {0}
          BY <5>2 DEF Files
        <5> QED
          BY <4>1, <5>3, Zenon DEF Ids, Entries
      <4>3. compared = 1..(pkt - 1)
        BY <2>7
      <4>4. CASE id < pkt
        BY <4>1, <4>2, <4>3, <4>4
      <4>5. CASE id > pkt
        <5>1. pkt \in 1..(id - 1) /\ pkt \notin 1..(pkt - 1)
          BY <4>1, <4>2, <4>5
        <5> QED
          BY <4>3, <5>1
      <4> QED
        BY <4>1, <4>2, <4>4, <4>5
    <3> HIDE DEF B, T, compared, different, status
    <3>5. Diff!Finish
      BY <2>1, <3>2, <3>3, <3>4, Zenon
        DEF Diff!Finish, Diff!Common, Diff!IsNext,
            B, T, compared, different, status
    <3> QED
      BY <3>5 DEF Diff!Next
  <2>8. ~(Inspect /\ All)
    BY DEF Inspect, All, LInv, TypeOK
  <2> QED
    BY <2>3, <2>4, <2>5, <2>6, <2>7, <2>8, Zenon DEF Next
<1>3. QED
  BY <1>1, <1>2, LInvAlways, PTL DEF Spec, Refines, Diff!Spec
=============================================================================
