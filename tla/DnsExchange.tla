---------------------------- MODULE DnsExchange ----------------------------
(***************************************************************************)
(* A query of tools/pydig.py: the command line, the request, the exchange  *)
(* over UDP with retries, over TCP if asked for or truncated, and the      *)
(* answer decoded and printed record by record.  The server reads the      *)
(* request with a parser of its own and answers what it has read.          *)
(***************************************************************************)
EXTENDS DnsWire

CONSTANTS
  CommandLines,   \* sequences of arguments: see Argument
  Ids,            \* what random.randint may return
  Retries,        \* RETRIES
  Answers,        \* the server's [rcode, sections, minimal]
  Strays,         \* answers to earlier queries from the same port
  OptionNames     \* the options of the usage string

(* An argument as an option ("" if it is none), as a name in text, and as  *)
(* a type or class (0 if get_val knows none of that name).                 *)
IsArgument(a) ==
  /\ a.opt \in OptionNames \cup {""} /\ a.val \in Short
  /\ a.text \in Seq(Seq(Octet)) /\ a.text # <<>>
  /\ \A i \in DOMAIN a.text : Len(a.text[i]) < 192

ASSUME ArgumentsAssumption ==
  \A line \in CommandLines : /\ line \in Seq(Range(line))
                             /\ \A i \in DOMAIN line : IsArgument(line[i])
ASSUME RetriesAssumption == Retries \in Nat \ {0}
ASSUME IdsAssumption == Ids \subseteq Short \ {0}

VARIABLES
  options, qname, qtype, qclass,     \* the command line
  id, request,
  phase,          \* udp | wait | connect | recv | question | records | done
                  \*   | axfr | walk | usage | error | traceback
  retries,        \* left in send_request_udp
  asked,          \* requests on their way to the server
  replies,        \* datagrams on their way back
  responsepkt,    \* what was received, and the message it is of
  sent, cut,      \*   ... and whether a part of it is missing
  offset, left,   \* of print: octet, records of each section
  printed, warned

query == <<options, qname, qtype, qclass, id, request>>
network == <<asked, replies>>
received == <<responsepkt, sent, cut>>
output == <<offset, left, printed, warned>>
vars == <<query, phase, retries, network, received, output>>

Final == {"done", "axfr", "walk", "usage", "error", "traceback"}

-----------------------------------------------------------------------------
(* parse_args: options come first; if nothing else follows, the last one   *)
(* is taken for the name as well.                                          *)

NameAt(line) ==
  LET words == {i \in DOMAIN line : line[i].opt = ""}
  IN IF words = {} THEN Len(line) ELSE CHOOSE i \in words : \A k \in words : i <= k

OptionsOf(line) == {line[i].opt : i \in 1..NameAt(line)} \ {""}

(* The value of a type or class after the name, or its default.            *)
ValueAt(line, i, default) == IF i \in DOMAIN line THEN line[i].val ELSE default

Dotted(text) ==
  IF Len(text) > 1 /\ Last(text) = <<>> THEN text ELSE Append(text, <<>>)

(* randomize_case: any letter may change its case. *)
Cased(text) ==
  LET flips == {x \in (DOMAIN text) \X (1..3) :
                  x[2] \in DOMAIN text[x[1]] /\ IsLetter(text[x[1]][x[2]])}
      flip(c) == IF c < 97 THEN c + 32 ELSE c - 32
  IN {[i \in DOMAIN text |->
         [k \in DOMAIN text[i] |-> IF <<i, k>> \in F THEN flip(text[i][k])
                                   ELSE text[i][k]]] : F \in SUBSET flips}

Init ==
  /\ \E line \in CommandLines :
       LET n == NameAt(line)
           walk == "+walk" \in OptionsOf(line)
           bad == line = <<>> \/ "-h" \in OptionsOf(line)
           text == IF bad THEN Root ELSE Dotted(line[n].text)
       IN /\ options = OptionsOf(line)
          /\ qname \in IF "+0x20" \in options THEN Cased(text) ELSE {text}
          /\ qtype = IF walk THEN 1 ELSE ValueAt(line, n + 1, 1)
          /\ qclass = IF walk THEN 1 ELSE ValueAt(line, n + 2, 1)
          /\ phase = IF bad \/ qtype = 0 \/ qclass = 0 THEN "usage"
                     ELSE IF walk THEN "walk"
                     ELSE IF qtype = 252 THEN "axfr"
                     ELSE IF "+tcp" \in options THEN "connect"
                     ELSE "udp"
  /\ id \in Ids
  /\ request = mk_request(qname, qtype, qclass, id, options)
  /\ retries = Retries
  /\ asked = 0 /\ replies = {}
  /\ responsepkt = <<>> /\ sent = <<>> /\ cut = FALSE
  /\ offset = 0 /\ left = <<0, 0, 0, 0>> /\ printed = <<>> /\ warned = FALSE

-----------------------------------------------------------------------------
(* The server and the network. *)

(* What the server has been asked. *)
Question(pkt) ==
  LET q == decode_question(pkt, 12)
  IN IF q.ok THEN <<[q.val EXCEPT !.name = pdomainname(@)]>> ELSE <<>>

(* The records of an answer and its flags; a minimal one has no question,  *)
(* a server may change the case of the question.                           *)
Message(a, name, tc, msgid) ==
  [id |-> msgid, tc |-> tc, rcode |-> a.rcode,
   question |-> IF a.minimal THEN <<>> ELSE name,
   sections |-> IF tc THEN <<<<>>, <<>>, <<>>>> ELSE a.sections]

EncodeField(kind, v) ==
  CASE kind \in {"1", "2", "4"} -> Pack(Octets(kind), v)
    [] kind = "name" -> txt2domainname(v)
    [] kind = "text" -> <<Len(v)>> \o v
    [] kind = "texts" -> FlattenSeq([i \in DOMAIN v |-> <<Len(v[i])>> \o v[i]])
    [] kind = "types" ->                  \* all in the first window
         LET bit(k) == IF Contains(v, k) THEN 2^(7 - (k % 8)) ELSE 0
             octet(k) == bit(k) + bit(k + 1) + bit(k + 2) + bit(k + 3)
                           + bit(k + 4) + bit(k + 5) + bit(k + 6) + bit(k + 7)
             n == (Last(v) \div 8) + 1
         IN  <<0, n>> \o [i \in 1..n |-> octet(8 * (i - 1))]
    [] kind = "gateway" -> <<v[1], v[2]>> \o txt2domainname(v[3]) \o v[4]
    [] OTHER -> v

EncodeFields(layout, values) ==
  FlattenSeq([i \in DOMAIN values |-> EncodeField(layout[i], values[i])])

(* A name that is that of the question is a pointer to it. *)
EncodeName(name, question) ==
  IF question # <<>> /\ name = question[1].name /\ name # Root
    THEN <<192, 12>> ELSE txt2domainname(name)

EncodeRR(rr, question) ==
  LET rdata == IF rr.type = 2 THEN EncodeName(rr.rdata[1], question)
               ELSE EncodeFields(Layout[rr.type], rr.rdata)
  IN EncodeName(rr.name, question)
       \o Pack(2, rr.type) \o Pack(2, rr.class) \o Pack(4, rr.ttl)
       \o Pack(2, Len(rdata)) \o rdata

Encode(m) ==
  LET rrs == FlattenSeq(m.sections)
  IN Pack(2, m.id) \o Pack(2, 32768 + (IF m.tc THEN 512 ELSE 0) + m.rcode)
       \o Pack(2, Len(m.question))
       \o FlattenSeq([i \in 1..3 |-> Pack(2, Len(m.sections[i]))])
       \o FlattenSeq([i \in DOMAIN m.question |->
            txt2domainname(m.question[i].name)
              \o Pack(2, m.question[i].type) \o Pack(2, m.question[i].class)])
       \o FlattenSeq([i \in DOMAIN rrs |-> EncodeRR(rrs[i], m.question)])

(* What servers answer with can be written as octets, and an answer to an  *)
(* earlier query has its question.                                         *)
Records ==
  UNION {UNION {Range(a.sections[k]) : k \in 1..3} : a \in Answers \cup Strays}

IsRecord(rr) ==
  /\ IsName(rr.name) /\ rr.type \in Nat /\ rr.class \in Nat /\ rr.ttl \in Nat
  /\ IF rr.type = 2 THEN IsName(rr.rdata[1])
     ELSE EncodeFields(Layout[rr.type], rr.rdata) \in Seq(Octet)

IsQuestion(q) ==
  IsName(q.name) /\ q.type \in Short /\ q.class \in Short

IsMessage(m) ==
  /\ m.id \in Short /\ m.tc \in BOOLEAN /\ m.rcode \in 0..15
  /\ \/ m.question = <<>>
     \/ m.question = <<m.question[1]>> /\ IsQuestion(m.question[1])
  /\ m.sections \in [1..3 -> Seq(Records)]

ASSUME RecordsAssumption == \A rr \in Records : IsRecord(rr)
ASSUME AnswersAssumption ==
  \A a \in Answers : /\ a.rcode \in 0..15 /\ a.minimal \in BOOLEAN
                     /\ a.sections \in [1..3 -> Seq(Records)]
ASSUME StraysAssumption == \A m \in Strays : IsMessage(m)

Messages(tcs) ==
  LET q == Question(request)
      lower == [i \in DOMAIN q |-> [q[i] EXCEPT !.name = Lower(@)]]
  IN {Message(a, name, tc, id) : a \in Answers, name \in {q, lower}, tc \in tcs}

(* A request is answered, perhaps after the client has stopped waiting.    *)
Serve ==
  /\ phase \in {"udp", "wait"} /\ asked > 0
  /\ asked' = asked - 1
  /\ \E m \in Messages({TRUE, FALSE}) : replies' = replies \cup {m}
  /\ UNCHANGED <<query, phase, retries, received, output>>

Stray ==
  /\ phase = "wait" /\ replies = {}
  /\ \E m \in Strays : replies' = {m}
  /\ UNCHANGED <<query, phase, retries, asked, received, output>>

-----------------------------------------------------------------------------
(* send_request_udp: sendto before every wait, closed at the end. *)

SendUdp ==
  /\ phase = "udp"
  /\ phase' = "wait"
  /\ asked' = asked + 1
  /\ UNCHANGED <<query, retries, replies, received, output>>

Closed == retries' = 0 /\ asked' = 0 /\ replies' = {}

(* Mutant of Timeout: retries -= 1 is missing. *)
TimeoutAgain ==
  /\ phase = "wait"
  /\ phase' = "udp"
  /\ UNCHANGED <<query, retries, network, received, output>>
Timeout ==
  /\ phase = "wait" /\ retries > 1
  /\ phase' = "udp" /\ retries' = retries - 1
  /\ UNCHANGED <<query, network, received, output>>

(* Mutant of NoResponse: the last wait has no timeout. *)
LastWait == FALSE /\ UNCHANGED vars
(* No response from server *)
NoResponse ==
  /\ phase = "wait" /\ retries = 1
  /\ phase' = "error" /\ Closed
  /\ UNCHANGED <<query, received, output>>

(* decode_header of the octets pkt of the message m. *)
Got(m, pkt, missing) ==
  \E h \in {decode_header(pkt)} :
     /\ sent' = m /\ responsepkt' = pkt /\ cut' = missing
     /\ phase' = IF ~h.ok THEN "traceback"
                 ELSE IF h.val.id # id THEN "error"
                 ELSE IF phase = "wait" /\ h.val.tc THEN "connect"
                 ELSE "question"
     /\ IF phase' = "question"
          THEN offset' = h.next /\ left' = <<h.val.qdcount>> \o h.val.counts
          ELSE UNCHANGED <<offset, left>>
     /\ UNCHANGED <<printed, warned>>

Receive ==
  /\ phase = "wait"
  /\ \E m \in replies : \E pkt \in {Encode(m)} : Got(m, pkt, FALSE)
  /\ Closed
  /\ UNCHANGED query

(* send_request_tcp: a socket.error is an ErrorMessage, and a single recv  *)
(* returns what has come, nothing if the server has closed.                *)
Connect ==
  /\ phase = "connect"
  /\ phase' \in {"recv", "error"}
  /\ UNCHANGED <<query, retries, network, received, output>>

RecvTcp ==
  /\ phase = "recv"
  /\ \E m \in Messages({FALSE}) : \E pkt \in {Encode(m)} :
       \/ Got(m, pkt, FALSE)
       \/ \E k \in 0..(Len(pkt) - 1) : \E part \in {Slice(pkt, 0, k)} :
            Got(m, part, TRUE)
  /\ UNCHANGED <<query, retries, network>>

ResetTcp ==
  /\ phase = "recv"
  /\ phase' = "error"
  /\ UNCHANGED <<query, retries, network, received, output>>

-----------------------------------------------------------------------------
(* The output.  Without a question the check of the last one raises.       *)

(* Mutant of Matches: the type and the class are not looked at. *)
NameMatches(q) ==
  domain_name_match(pdomainname(q.name), qname, "+0x20" \in options)
Matches(q) ==
  /\ domain_name_match(pdomainname(q.name), qname, "+0x20" \in options)
  /\ q.type = qtype
  /\ q.class = qclass

PrintQuestion ==
  /\ phase = "question"
  /\ \E q \in {decode_question(responsepkt, offset)} :
        IF left[1] = 0 \/ ~q.ok
          THEN phase' = "traceback" /\ UNCHANGED output
          ELSE /\ offset' = q.next
               /\ left' = [left EXCEPT ![1] = @ - 1]
               /\ IF left[1] > 1
                    THEN UNCHANGED <<phase, warned>>
                    ELSE phase' = "records" /\ warned' = ~Matches(q.val)
               /\ printed' = printed
  /\ UNCHANGED <<query, retries, network, received>>

PrintRecord ==
  /\ phase = "records"
  /\ \E section \in 2..4 :
       /\ left[section] > 0 /\ \A k \in 2..(section - 1) : left[k] = 0
       /\ \E rr \in {decode_rr(responsepkt, offset, "+hex" \in options)} :
             IF rr.ok
               THEN /\ printed' = Append(printed, rr.val)
                    /\ offset' = rr.next
                    /\ left' = [left EXCEPT ![section] = @ - 1]
                    /\ UNCHANGED <<phase, warned>>
               ELSE phase' = "traceback" /\ UNCHANGED output
  /\ UNCHANGED <<query, retries, network, received>>

Exit ==
  /\ phase = "records" /\ \A k \in 2..4 : left[k] = 0
  /\ phase' = "done"
  /\ UNCHANGED <<query, retries, network, received, output>>

-----------------------------------------------------------------------------
Client ==
  \/ SendUdp \/ Timeout \/ NoResponse \/ Receive
  \/ Connect \/ PrintQuestion \/ PrintRecord \/ Exit

Next == Client \/ RecvTcp \/ ResetTcp \/ Serve \/ Stray

Spec == Init /\ [][Next]_vars

(* Every wait for a datagram ends; a read of TCP has no timeout. *)
FairSpec == Spec /\ WF_vars(Client)

-----------------------------------------------------------------------------
TypeOK ==
  /\ options \subseteq OptionNames
  /\ phase \in Final \cup {"udp", "wait", "connect", "recv", "question", "records"}
  /\ retries \in 0..Retries
  /\ asked \in 0..Retries /\ Cardinality(replies) <= Retries + 1
  /\ cut \in BOOLEAN /\ warned \in BOOLEAN
  /\ offset \in Nat
  /\ \A k \in 1..4 : left[k] \in Nat

(* mk_request: the reader of the tool reads of a request what the command  *)
(* line says, up to its end, unless there is an empty label in the name.   *)
RequestReadBack ==
  phase \notin {"usage", "walk"} =>
    LET h == decode_header(request)
        q == decode_question(request, 12)
        opt == decode_rr(request, q.next, FALSE)
        edns == {"+edns0", "+dnssec"} \cap options # {}
    IN \/ \E i \in 1..(Len(qname) - 1) : qname[i] = <<>> /\ qname # Root
       \/ /\ h.val.id = id /\ ~h.val.tc /\ h.val.qdcount = 1
          /\ q.ok /\ pdomainname(q.val.name) = qname
          /\ q.val.type = qtype /\ q.val.class = qclass
          /\ IF edns
               THEN /\ h.val.counts = <<0, 0, 1>>
                    /\ opt.ok /\ opt.val.type = 41 /\ opt.next = Len(request)
               ELSE h.val.counts = <<0, 0, 0>> /\ q.next = Len(request)

(* "make sure answered question matches posed question": an answer that is *)
(* printed without the warning is to what was typed, even if the name was  *)
(* written wrongly or the answer is to an earlier query with the same id.  *)
NoSilentMismatch ==
  (phase = "done" /\ ~warned) =>
    /\ Len(sent.question) = 1
    /\ domain_name_match(sent.question[1].name, qname, "+0x20" \in options)
    /\ sent.question[1].type = qtype /\ sent.question[1].class = qclass

(* The records printed are those of the message, in order; all of them if  *)
(* the tool exits well.  Of a message that one recv did not return whole,  *)
(* the last record printed may have lost the end of its rdata.             *)
PrintedIsSent ==
  phase \in {"records", "done", "traceback"} =>
    LET rrs == FlattenSeq(sent.sections)
    IN /\ Len(printed) <= Len(rrs)
       /\ \A i \in DOMAIN printed :
            /\ [printed[i] EXCEPT !.rdata = 0] = [rrs[i] EXCEPT !.rdata = 0]
            /\ \/ "+hex" \in options
               \/ printed[i].rdata = rrs[i].rdata
               \/ cut /\ i = Len(printed)
       /\ phase = "done" => Len(printed) = Len(rrs)

(* The tool ends, or waits for an answer over TCP. *)
Ends == <>(phase \in Final \cup {"recv"})
=============================================================================
