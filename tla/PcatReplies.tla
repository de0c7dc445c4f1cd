---------------------------- MODULE PcatReplies ----------------------------
(***************************************************************************)
(* How tools/pcat-analyze.py compares two replies to one query.  A domain  *)
(* name is [lower, case], an RR has an owner, a type, a class, a TTL and   *)
(* rdata.  Rdata is [text, spelling], where the spelling is the case of    *)
(* its names; that of a TSIG is [fields, other], where other is the text   *)
(* after the seven fields, split at its spaces.                            *)
(* A comparison is "same", "different", or "crash" if Python raises.       *)
(***************************************************************************)
EXTENDS Naturals, Sequences, FiniteSets

CONSTANTS
  KnownClasses,    \* the classes that dnsclasses has a name for
  Texts            \* what a field of a decoded TSIG may be

(* What a capture holds instead of a message: an empty line, some octets   *)
(* that scapy cannot parse, and some odd number of hexadecimal digits.     *)
NoReply == [kind |-> "none"]
Unparsable(text) == [kind |-> "unparsable", text |-> text]
OddLine(text) == [kind |-> "odd", text |-> text]
Kinds == {"msg", "none", "unparsable", "odd"}

NameTypes == {"NS", "CNAME", "PTR", "DNAME"}
(* decode_mx_rdata, decode_rp_rdata and decode_opt_rdata do not exist, and *)
(* decode_soa_rdata is given an argument too many.                         *)
BrokenTypes == {"MX", "AFSDB", "RP", "OPT", "SOA"}

(* A section; a decoded TSIG has at least eight fields. *)
IsSection(s) ==
  \A i \in DOMAIN s : s[i].type = "TSIG" =>
    /\ s[i].rd.fields \in Seq(Texts) /\ Len(s[i].rd.fields) = 7
    /\ s[i].rd.other \in Seq(Texts) /\ s[i].rd.other # <<>>

(* The smallest element of a set of numbers: the first index of a loop.    *)
FirstOf(I) == CHOOSE i \in I : \A k \in I : i <= k

-----------------------------------------------------------------------------
(* Tsig.decode_tsig_rdata(...).split(' '): algorithm, time, fudge, size of *)
(* the MAC, MAC, id, rcode, and the length of other_data with the data.    *)
TsigFields(rd) == rd.fields \o rd.other

BothBadtime(x, y) == x[7] = "BADTIME" /\ y[7] = "BADTIME"

(* The last field is never compared, the time and the MAC are ignored, and *)
(* other_data is cleared in a ninth field, which there may not be.         *)
TsigOutcome(b, t) ==
  LET x == TsigFields(b)
      y == TsigFields(t)
      Differing == {k \in (1..(Len(x) - 1)) \ {2, 5} :
                      ~(BothBadtime(x, y) /\ k = 9)
                        /\ ~(k \in DOMAIN y /\ x[k] = y[k])}
  IN IF BothBadtime(x, y) /\ (Len(x) < 9 \/ Len(y) < 9) THEN "crash"
     ELSE IF Differing = {} THEN "same"
     ELSE IF FirstOf(Differing) \in DOMAIN y THEN "different" ELSE "crash"

(* analyze_rdata: the rdata are known to differ. *)
RdataOutcome(b, t) ==
  CASE b.type = "TSIG" -> TsigOutcome(b.rd, t.rd)
    [] b.type \in NameTypes ->
         IF b.rd.text = t.rd.text THEN "same" ELSE "different"
    [] b.type \in BrokenTypes -> "crash"
    [] OTHER -> "different"

SameKey(b, t) == b.name.lower = t.name.lower /\ b.type = t.type

(* analyze_rr *)
RrOutcome(b, t) ==
  IF ~SameKey(b, t) THEN "different"
  ELSE IF b.class # t.class
         THEN IF {b.class, t.class} \subseteq KnownClasses
                THEN "different" ELSE "crash"
  ELSE IF b.ttl # t.ttl THEN "different"
  ELSE IF b.rd # t.rd THEN RdataOutcome(b, t)
  ELSE "same"

-----------------------------------------------------------------------------
(* analyze_rrs: each base RR is tried with the target RRs of its name and  *)
(* type, until one is the same; one that raises ends everything.           *)
(* Mutant of Candidates: the records are compared in their order. *)
InOrder(b, t, j) == {j}
Candidates(b, t, j) ==
  LET matches == {k \in DOMAIN t : SameKey(b[j], t[k])}
  IN IF matches = {} THEN {j} ELSE matches

BestOutcome(b, t, j) ==
  LET stops == {k \in Candidates(b, t, j) : RrOutcome(b[j], t[k]) # "different"}
  IN IF stops = {} THEN "different" ELSE RrOutcome(b[j], t[FirstOf(stops)])

RrsOutcome(b, t) ==
  LET stops == {j \in DOMAIN b : BestOutcome(b, t, j) # "same"}
  IN IF stops = {} THEN "same" ELSE BestOutcome(b, t, FirstOf(stops))

(* A section, after its count. *)
SectionOutcome(b, t) ==
  IF Len(b) # Len(t) THEN "different" ELSE RrsOutcome(b, t)

SameQuestion(b, t) ==
  /\ b.name.lower = t.name.lower
  /\ b.type = t.type
  /\ b.class = t.class

(* analyze_qd: a single question; a difference is printed with an          *)
(* undefined index.                                                        *)
QuestionOutcome(b, t) ==
  IF Len(b) # Len(t) THEN "different"
  ELSE IF Len(b) = 1 /\ ~SameQuestion(b[1], t[1]) THEN "crash"
  ELSE "same"

(* Of the outcomes of several steps, the first that ends the comparison.   *)
FirstNotSame(s) ==
  LET stops == {i \in DOMAIN s : s[i] # "same"}
  IN IF stops = {} THEN "same" ELSE s[FirstOf(stops)]

MessageOutcome(b, t) ==
  FirstNotSame(<<IF b.header = t.header THEN "same" ELSE "different",
                 QuestionOutcome(b.question, t.question),
                 SectionOutcome(b.answer, t.answer),
                 SectionOutcome(b.authority, t.authority),
                 SectionOutcome(b.additional, t.additional)>>)

(* analyze; scapy makes a message without any counts of an empty line.     *)
Analyze(b, t, verb) ==
  LET kinds == {b.kind, t.kind}
  IN IF b = t /\ ~verb THEN "same"
     ELSE IF "odd" \in kinds THEN "crash"
     ELSE IF "unparsable" \in kinds THEN "different"
     ELSE IF kinds = {"none"} THEN "crash"
     ELSE IF "none" \in kinds THEN "different"
     ELSE MessageOutcome(b, t)

-----------------------------------------------------------------------------
(* What the comparison is for, "case of domain names and RR rotation is    *)
(* ignored" (tools/README), as are times, MACs and other_data of a TSIG.   *)

SameTsig(b, t) == \A k \in {1, 3, 4, 6, 7} : b.fields[k] = t.fields[k]

SameRdata(b, t) ==
  \/ b.rd = t.rd
  \/ b.type = "TSIG" /\ SameTsig(b.rd, t.rd)
  \/ b.type \in NameTypes \cup BrokenTypes /\ b.rd.text = t.rd.text

SameRR(b, t) ==
  /\ SameKey(b, t)
  /\ b.class = t.class
  /\ b.ttl = t.ttl
  /\ SameRdata(b, t)

(* The records of the one are those of the other in some order. *)
SameSection(b, t) ==
  /\ Len(b) = Len(t)
  /\ \E f \in [1..Len(b) -> 1..Len(b)] :
       /\ \A i, j \in 1..Len(b) : f[i] = f[j] => i = j
       /\ \A j \in 1..Len(b) : SameRR(b[j], t[f[j]])

IsMessage(r) == r.kind = "msg"

SameReply(b, t) ==
  \/ b = t
  \/ /\ IsMessage(b) /\ IsMessage(t)
     /\ b.header = t.header
     /\ Len(b.question) = Len(t.question)
     /\ \A i \in DOMAIN b.question : SameQuestion(b.question[i], t.question[i])
     /\ SameSection(b.answer, t.answer)
     /\ SameSection(b.authority, t.authority)
     /\ SameSection(b.additional, t.additional)

(* Replies that differ at most in case and rotation: TSIG records, which    *)
(* are no domain names, are the same.                                      *)
TsigRdata(r) ==
  UNION {{s[i].rd : i \in {k \in DOMAIN s : s[k].type = "TSIG"}} :
           s \in {r.answer, r.authority, r.additional}}

SameButCase(b, t) ==
  SameReply(b, t) /\ (IsMessage(b) => TsigRdata(b) = TsigRdata(t))

(* No record twice, and no TSIG whose other_data has a space in it. *)
PlainSection(s) ==
  /\ \A i, j \in DOMAIN s : SameRR(s[i], s[j]) => i = j
  /\ \A i \in DOMAIN s : s[i].type = "TSIG" => Len(s[i].rd.other) = 1

PlainReply(r) ==
  IsMessage(r) => /\ Len(r.question) <= 1
                  /\ PlainSection(r.answer)
                  /\ PlainSection(r.authority)
                  /\ PlainSection(r.additional)
=============================================================================
