------------------------------ MODULE DnsWire ------------------------------
(***************************************************************************)
(* How tools/pydig.py writes a query and reads a message, octet by octet.  *)
(* Octets are numbers, offsets count from 0 as in the code.  A name in     *)
(* text is the sequence of what is between its dots, so that of a.b. is    *)
(* <<a, b, <<>>>> and that of the root <<<<>>, <<>>>>; a label is a        *)
(* sequence of octets.  A decoder that raises returns ok = FALSE.          *)
(***************************************************************************)
EXTENDS Naturals, Sequences, FiniteSets, SequencesExt

Octet == 0..255
Short == {n \in Nat : n < 65536}      \* what two octets hold

(* pkt[from:to], which Python cuts at the end of the packet. *)
Slice(pkt, from, to) ==
  SubSeq(pkt, from + 1, IF to < Len(pkt) THEN to ELSE Len(pkt))

(* struct.unpack of n octets, and struct.pack into n octets. *)
Unpack(s) ==
  CASE Len(s) = 1 -> s[1]
    [] Len(s) = 2 -> 256 * s[1] + s[2]
    [] Len(s) = 4 -> 256 * (256 * (256 * s[1] + s[2]) + s[3]) + s[4]
Pack(n, v) ==
  CASE n = 1 -> <<v % 256>>
    [] n = 2 -> <<(v \div 256) % 256, v % 256>>
    [] n = 4 -> <<(v \div 16777216) % 256, (v \div 65536) % 256,
                  (v \div 256) % 256, v % 256>>

Holds(pkt, offset, n) == offset + n <= Len(pkt)
(* The bit of a weight. *)
Bit(flags, weight) == (flags \div weight) % 2

Raised == [ok |-> FALSE, val |-> <<>>, next |-> 0]
Read(val, next) == [ok |-> TRUE, val |-> val, next |-> next]

-----------------------------------------------------------------------------
(* Names. *)

Root == <<<<>>, <<>>>>

(* Names that a message can hold: an octet of 192 or more is no length.    *)
IsName(name) ==
  /\ name \in Seq(Seq(Octet)) /\ Len(name) > 1 /\ name[Len(name)] = <<>>
  /\ name = Root \/ \A i \in 1..(Len(name) - 1) : Len(name[i]) \in 1..191

(* Mutant of txt2domainname: the root is split like other names. *)
SplitRoot(pieces) ==
  FlattenSeq([i \in DOMAIN pieces |-> <<Len(pieces[i])>> \o pieces[i]])
txt2domainname(pieces) ==
  IF pieces = Root THEN <<0>>
  ELSE FlattenSeq([i \in DOMAIN pieces |-> <<Len(pieces[i])>> \o pieces[i]])

(* Labels from an offset on; fuel is what Python has left of its stack, of *)
(* which a name without a loop of pointers uses less than it has octets.   *)
get_domainname(pkt, offset) ==
  LET llen(at) == pkt[at + 1]
      labels[fuel \in Nat] == [at \in Nat |->
        IF ~Holds(pkt, at, 1) \/ fuel = 0 THEN Raised
        ELSE IF llen(at) = 0 THEN Read(<<<<>>>>, at + 1)
        ELSE IF llen(at) \div 64 = 3
          THEN IF ~Holds(pkt, at, 2) THEN Raised
               ELSE [labels[fuel - 1][Unpack(Slice(pkt, at, at + 2)) % 16384]
                       EXCEPT !.next = at + 2]
        ELSE [labels[fuel - 1][at + 1 + llen(at)] EXCEPT
                !.val = <<Slice(pkt, at + 1, at + 1 + llen(at))>> \o @]]
  IN labels[Len(pkt) + 1][offset]

pdomainname(labels) == IF Len(labels) = 1 THEN Root ELSE labels

(* Letters have the bit 0x20 in lower case. *)
IsLetter(c) == c \in (65..90) \cup (97..122)
Lower(pieces) ==
  [i \in DOMAIN pieces |->
     [k \in DOMAIN pieces[i] |->
        IF pieces[i][k] \in 65..90 THEN pieces[i][k] + 32 ELSE pieces[i][k]]]

domain_name_match(s1, s2, case_sensitive) ==
  IF case_sensitive THEN s1 = s2 ELSE Lower(s1) = Lower(s2)

-----------------------------------------------------------------------------
(* Rdata.  Every decoder reads its fields one after the other: numbers of  *)
(* some octets, names, strings with a length octet; what comes last is     *)
(* bounded by rdlen.  A type that has no decoder is hexadecimal; numbers   *)
(* are below 2^31.  A TSIG is what AxfrClient is about.                    *)

Layout[rrtype \in Nat] ==
  CASE rrtype \in {2, 5, 12, 39}  -> <<"name">>              \* NS, CNAME, PTR
    [] rrtype = 6 -> <<"name", "name", "4", "4", "4", "4", "4">>      \* SOA
    [] rrtype = 15                -> <<"2", "name">>         \* MX
    [] rrtype \in {16, 99}        -> <<"texts">>             \* TXT, SPF
    [] rrtype = 1                 -> <<"address4">>          \* A
    [] rrtype = 28                -> <<"address16">>         \* AAAA
    [] rrtype = 33                -> <<"2", "2", "2", "name">>        \* SRV
    [] rrtype = 35 -> <<"2", "2", "text", "text", "text", "name">>    \* NAPTR
    [] rrtype \in {43, 32769, 48, 25} -> <<"2", "1", "1", "rest">>  \* DS, DNSKEY
    [] rrtype = 44                -> <<"1", "1", "rest">>    \* SSHFP
    [] rrtype \in {46, 24} ->                                \* RRSIG
         <<"2", "1", "1", "4", "4", "4", "2", "name", "rest">>
    [] rrtype = 45                -> <<"1", "gateway">>      \* IPSECKEY
    [] rrtype = 47                -> <<"name", "types">>     \* NSEC
    [] rrtype = 50 -> <<"1", "1", "2", "text", "text", "types">>      \* NSEC3
    [] rrtype = 51                -> <<"1", "1", "2", "text">>   \* NSEC3PARAM
    [] OTHER                      -> <<"rest">>

Octets(kind) == CASE kind = "1" -> 1 [] kind = "2" -> 2 [] kind = "4" -> 4

(* Mutant of decode_typebitmap: the bits of an octet from the lowest. *)
LowestFirst(windownum, bitmap) ==
  SetToSortSeq({256 * windownum + 8 * (x[1] - 1) + x[2] :
                  x \in {y \in (DOMAIN bitmap) \X (0..7) :
                           Bit(bitmap[y[1]], 2^y[2]) = 1}}, <)
(* The types of one window, in order. *)
decode_typebitmap(windownum, bitmap) ==
  SetToSortSeq({256 * windownum + 8 * (x[1] - 1) + x[2] :
                  x \in {y \in (DOMAIN bitmap) \X (0..7) :
                           Bit(bitmap[y[1]], 2^(7 - y[2])) = 1}}, <)

Windows(p) ==
  LET windows[at \in Nat] ==
        IF at >= Len(p) THEN Read(<<>>, 0)
        ELSE IF ~Holds(p, at, 2) THEN Raised
        ELSE [windows[at + 2 + p[at + 2]] EXCEPT
                !.val = decode_typebitmap(p[at + 1],
                          Slice(p, at + 2, at + 2 + p[at + 2])) \o @]
  IN windows[0]

(* decode_txt_rdata: strings up to rdlen; the last one may be cut.         *)
decode_txt_rdata(rdata, rdlen) ==
  LET texts[at \in Nat] ==
        IF at >= rdlen THEN Read(<<>>, rdlen)
        ELSE IF ~Holds(rdata, at, 1) THEN Raised
        ELSE [texts[at + 1 + rdata[at + 1]] EXCEPT
                !.val = <<Slice(rdata, at + 1, at + 1 + rdata[at + 1])>> \o @]
  IN texts[0]

(* The rest of an IPSECKEY: gateway type, algorithm, gateway and key.      *)
Gateway(pkt, offset, end_rdata) ==
  LET at == offset + 2
      address(n) == IF Holds(pkt, at, n) THEN Read(Slice(pkt, at, at + n), at + n)
                    ELSE Raised
      gw == CASE pkt[offset + 1] = 0 -> Read(Root, at)
              [] pkt[offset + 1] = 1 -> address(4)
              [] pkt[offset + 1] = 2 -> address(16)
              [] pkt[offset + 1] = 3 -> [get_domainname(pkt, at)
                                           EXCEPT !.val = pdomainname(@)]
              [] OTHER -> Raised
      pubkey == IF pkt[offset + 2] = 0 THEN <<>> ELSE Slice(pkt, gw.next, end_rdata)
  IN IF gw.ok
       THEN Read(<<pkt[offset + 1], pkt[offset + 2], gw.val, pubkey>>, end_rdata)
       ELSE Raised

(* One field at an offset of the packet; the rdata end at end_rdata.       *)
Field(kind, pkt, offset, end_rdata) ==
  LET rdata == Slice(pkt, offset, end_rdata)
  IN
  CASE kind \in {"1", "2", "4"} ->
         IF Holds(pkt, offset, Octets(kind))
           THEN Read(Unpack(Slice(pkt, offset, offset + Octets(kind))),
                     offset + Octets(kind))
           ELSE Raised
    [] kind = "name" ->
         LET name == get_domainname(pkt, offset)
         IN  [name EXCEPT !.val = pdomainname(@)]
    [] kind = "text" ->
         IF Holds(pkt, offset, 1)
           THEN LET behind == offset + 1 + pkt[offset + 1]
                IN  Read(Slice(pkt, offset + 1, behind), behind)
           ELSE Raised
    [] kind = "texts" -> decode_txt_rdata(rdata, end_rdata - offset)
    [] kind = "types" -> Windows(rdata)
    [] kind = "address4" -> IF Len(rdata) = 4 THEN Read(rdata, end_rdata) ELSE Raised
    [] kind = "address16" -> IF Len(rdata) = 16 THEN Read(rdata, end_rdata) ELSE Raised
    [] kind = "gateway" ->
         IF Holds(pkt, offset, 2) THEN Gateway(pkt, offset, end_rdata) ELSE Raised
    [] kind = "rest" -> Read(rdata, end_rdata)

Fields(layout, pkt, offset, end_rdata) ==
  LET n == Len(layout)
      fields[k \in 1..(n + 1)] == [at \in Nat |->
        IF k > n THEN Read(<<>>, at)
        ELSE LET field == Field(layout[k], pkt, at, end_rdata)
             IN IF field.ok
                  THEN [fields[k + 1][field.next] EXCEPT
                          !.val = <<field.val>> \o @]
                  ELSE Raised]
  IN fields[1][offset]

-----------------------------------------------------------------------------
(* A question, and a resource record; the next one is behind rdlen,        *)
(* wherever the fields of the rdata end.                                   *)

decode_question(pkt, offset) ==
  LET name == get_domainname(pkt, offset)
  IN IF ~name.ok \/ ~Holds(pkt, name.next, 4) THEN Raised
     ELSE Read([name |-> name.val,
                type |-> Unpack(Slice(pkt, name.next, name.next + 2)),
                class |-> Unpack(Slice(pkt, name.next + 2, name.next + 4))],
               name.next + 4)

decode_rr(pkt, offset, hexrdata) ==
  LET name == get_domainname(pkt, offset)
      U(from, to) == Unpack(Slice(pkt, name.next + from, name.next + to))
      start == name.next + 10
      rdata == Fields(IF hexrdata THEN <<"rest">> ELSE Layout[U(0, 2)],
                      pkt, start, start + U(8, 10))
  IN IF ~name.ok \/ ~Holds(pkt, name.next, 10) THEN Raised
     ELSE IF ~rdata.ok THEN Raised
     ELSE Read([name |-> pdomainname(name.val), type |-> U(0, 2),
                class |-> U(2, 4), ttl |-> U(4, 8), rdata |-> rdata.val],
               start + U(8, 10))

(* The header: id, flags and four counts. *)
decode_header(pkt) ==
  IF ~Holds(pkt, 0, 12) THEN Raised
  ELSE LET U(k) == Unpack(Slice(pkt, 2 * k, 2 * k + 2))
       IN Read([id |-> U(0), tc |-> Bit(U(1), 512) = 1, rcode |-> U(1) % 16,
                qdcount |-> U(2),
                counts |-> <<U(3), U(4), U(5)>>], 12)

-----------------------------------------------------------------------------
(* mk_request without a key, from the options that set a bit or the OPT RR. *)

Flag(options, o) == IF o \in options THEN 1 ELSE 0

mk_optrr(udp_payload, dnssec_ok) ==
  <<0>> \o Pack(2, 41) \o Pack(2, udp_payload)
        \o Pack(4, dnssec_ok * 32768) \o Pack(2, 0)

mk_request(qname, qtype, qclass, id, options) ==
  LET edns == {"+edns0", "+dnssec"} \cap options # {}
      flags == Flag(options, "+aaonly") * 1024
                 + (1 - Flag(options, "+norecurse")) * 256
                 + Flag(options, "+cdflag") * 16
  IN  Pack(2, id) \o Pack(2, flags)
        \o Pack(2, 1) \o Pack(2, 0) \o Pack(2, 0) \o Pack(2, IF edns THEN 1 ELSE 0)
        \o txt2domainname(qname) \o Pack(2, qtype) \o Pack(2, qclass)
        \o IF edns THEN mk_optrr(4096, Flag(options, "+dnssec")) ELSE <<>>
=============================================================================
