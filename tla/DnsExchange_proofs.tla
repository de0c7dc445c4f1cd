-------------------------- MODULE DnsExchange_proofs --------------------------
(***************************************************************************)
(* Theorems about a query of pydig, for any command line, names of any     *)
(* length, any answers that can be written as octets, any number of tries  *)
(* and datagrams that are late, left over or cut.  First what the readers  *)
(* of DnsWire read of what the writers write: names, which are read by a   *)
(* recursion over octets and offsets, then questions, headers and whole    *)
(* requests; then the inductive invariant of the exchange.                 *)
(***************************************************************************)
EXTENDS DnsExchange, FiniteSetTheorems, SequenceTheorems, WellFoundedInduction, TLAPS

(* A set of numbers that has 0, and with every number the next. *)
LEMMA Induction ==
  ASSUME NEW P \in SUBSET Nat, 0 \in P, \A n \in P : n + 1 \in P
  PROVE  P = Nat
<1> DEFINE R == OpToRel(<, Nat)
           Q == Nat \ P
<1>1. IsWellFoundedOn(R, Nat)
  BY NatLessThanWellFounded
<1>2. \A a, b \in Nat : a < b => <<a, b>> \in R
  BY DEF OpToRel
<1> HIDE DEF R
<1> SUFFICES ASSUME Q # {} PROVE FALSE
  OBVIOUS
<1>3. PICK m \in Q : \A k \in Q : ~(<<k, m>> \in R)
  BY <1>1, WFMin
<1>4. m \in Nat /\ m # 0 /\ m - 1 \in Nat
  BY <1>3
<1>5. m - 1 \notin Q
  <2>1. <<m - 1, m>> \in R
    BY <1>2, <1>4
  <2> QED
    BY <1>3, <2>1
<1>6. m - 1 \in P
  BY <1>4, <1>5
<1>7. m - 1 + 1 = m
  BY <1>4
<1> QED
  BY <1>3, <1>6, <1>7

(* The values that a step leads to, one after the other. *)
Chain(f, n, S, first, step) ==
  /\ f \in [0..n -> S]
  /\ f[0] = first
  /\ \A i \in 0..n : i < n => f[i + 1] = step[i][f[i]]

(* Two chains of the same steps agree as far as both go. *)
LEMMA ChainUnique ==
  ASSUME NEW S, NEW first \in S, NEW step \in [Nat -> [S -> S]],
         NEW n \in Nat, NEW m \in Nat, n <= m, NEW f, NEW g,
         Chain(f, n, S, first, step), Chain(g, m, S, first, step)
  PROVE  f[n] = g[n]
<1> DEFINE P == {i \in Nat : i <= n => f[i] = g[i]}
<1>1. 0 \in P
  BY DEF Chain
<1>2. ASSUME NEW i \in P
      PROVE  i + 1 \in P
  <2> SUFFICES ASSUME i + 1 <= n PROVE f[i + 1] = g[i + 1]
    OBVIOUS
  <2>1. i \in 0..n /\ i \in 0..m /\ i < n /\ i < m
    OBVIOUS
  <2>2. f[i] = g[i]
    BY <2>1
  <2> QED
    BY <2>1, <2>2 DEF Chain
<1> HIDE DEF P
<1>3. P = Nat
  <2>1. P \in SUBSET Nat
    BY DEF P
  <2> QED
    BY <1>1, <1>2, <2>1, Induction
<1> QED
  BY <1>3 DEF P

(* What primitive recursion defines: there is one such function. *)
Steps(S) == [Nat -> [S -> S]]
Iterates(f, S, first, step) ==
  /\ f \in [Nat -> S]
  /\ f[0] = first /\ \A n \in Nat : f[n + 1] = step[n][f[n]]

(* A function defined by primitive recursion exists for any steps: the     *)
(* chains of all lengths, put together.                                    *)
LEMMA Recursion ==
  ASSUME NEW S, NEW first \in S, NEW step \in Steps(S)
  PROVE  \E f : Iterates(f, S, first, step)
<1>0. step \in [Nat -> [S -> S]]
  BY DEF Steps
<1> DEFINE P == {n \in Nat : \E f : Chain(f, n, S, first, step)}
<1>1. 0 \in P
  <2>1. Chain([i \in 0..0 |-> first], 0, S, first, step)
    BY DEF Chain
  <2> QED
    BY <2>1
<1>2. ASSUME NEW n \in P
      PROVE  n + 1 \in P
  <2>1. PICK f : Chain(f, n, S, first, step)
    OBVIOUS
  <2> DEFINE g == [i \in 0..(n + 1) |-> IF i <= n THEN f[i] ELSE step[n][f[n]]]
  <2>2. n \in Nat /\ f[n] \in S /\ step[n][f[n]] \in S
    BY <1>0, <2>1 DEF Chain
  <2>3. g \in [0..(n + 1) -> S] /\ g[0] = first
    BY <2>1, <2>2 DEF Chain
  <2>4. ASSUME NEW i \in 0..(n + 1), i < n + 1
        PROVE  g[i + 1] = step[i][g[i]]
    <3>1. CASE i = n
      <4>1. n + 1 \in 0..(n + 1) /\ ~(n + 1 <= n)
        BY <2>2
      <4>2. g[n + 1] = step[n][f[n]] /\ g[n] = f[n]
        BY <4>1, <2>2
      <4> QED
        BY <3>1, <4>2
    <3>2. CASE i # n
      <4>1. i < n /\ i \in 0..n /\ i + 1 \in 0..(n + 1) /\ i + 1 <= n /\ i <= n
        BY <2>2, <2>4, <3>2
      <4>2. g[i + 1] = f[i + 1] /\ g[i] = f[i]
        BY <4>1
      <4> QED
        BY <2>1, <4>1, <4>2 DEF Chain
    <3> QED
      BY <3>1, <3>2
  <2> HIDE DEF g
  <2>5. Chain(g, n + 1, S, first, step)
    BY <2>3, <2>4 DEF Chain
  <2> QED
    BY <2>2, <2>5
<1> HIDE DEF P
<1>3. P = Nat
  <2>1. P \in SUBSET Nat
    BY DEF P
  <2> QED
    BY <1>1, <1>2, <2>1, Induction
<1> DEFINE c == [n \in Nat |-> CHOOSE f : Chain(f, n, S, first, step)]
           F == [n \in Nat |-> c[n][n]]
<1>4. ASSUME NEW n \in Nat
      PROVE  Chain(c[n], n, S, first, step)
  BY <1>3 DEF P
<1> HIDE DEF c
<1>5. F \in [Nat -> S]
  <2> SUFFICES ASSUME NEW n \in Nat PROVE c[n][n] \in S
    OBVIOUS
  <2>1. n \in 0..n
    OBVIOUS
  <2> QED
    BY <1>4, <2>1 DEF Chain
<1>6. F[0] = first
  BY <1>4 DEF Chain
<1>7. ASSUME NEW n \in Nat
      PROVE  F[n + 1] = step[n][F[n]]
  <2>1. n + 1 \in Nat /\ n <= n + 1 /\ n \in 0..(n + 1) /\ n < n + 1
    OBVIOUS
  <2>2. c[n][n] = c[n + 1][n]
    BY <1>0, <1>4, <2>1, ChainUnique
  <2>3. c[n + 1][n + 1] = step[n][c[n + 1][n]]
    BY <1>4, <2>1 DEF Chain
  <2> QED
    BY <2>1, <2>2, <2>3
<1> HIDE DEF F
<1>8. Iterates(F, S, first, step)
  BY <1>5, <1>6, <1>7 DEF Iterates
<1> QED
  BY <1>8

-----------------------------------------------------------------------------
(* Octets of a packet. *)

(* Octet and Short, as bounds that the provers can work with. *)
LEMMA OctetIs ==
  /\ \A x : x \in Octet <=> x \in Nat /\ x < 256
  /\ \A x : x \in Short <=> x \in Nat /\ x < 65536
<1>1. ASSUME NEW x
      PROVE  x \in 0..255 <=> x \in Nat /\ x < 256
  OBVIOUS
<1> QED
  BY <1>1 DEF Octet, Short

(* pkt[from:to] of Python: what it has where the packet is long enough. *)
LEMMA SliceIs ==
  ASSUME NEW pkt \in Seq(Octet), NEW from \in Nat, NEW to \in Nat
  PROVE  /\ Slice(pkt, from, to) \in Seq(Octet)
         /\ from <= to /\ to <= Len(pkt) =>
              /\ Len(Slice(pkt, from, to)) = to - from
              /\ \A i \in 1..(to - from) : Slice(pkt, from, to)[i] = pkt[from + i]
<1> DEFINE end == IF to < Len(pkt) THEN to ELSE Len(pkt)
<1>1. Len(pkt) \in Nat /\ end \in Int /\ from + 1 \in Int /\ end <= Len(pkt)
  BY LenProperties
<1>2. \A i \in (from + 1)..end : pkt[i] \in Octet
  <2> SUFFICES ASSUME NEW i \in (from + 1)..end PROVE pkt[i] \in Octet
    OBVIOUS
  <2>1. i \in 1..Len(pkt)
    BY <1>1
  <2> QED
    BY <2>1, ElementOfSeq
<1>3. Slice(pkt, from, to) = SubSeq(pkt, from + 1, end)
  BY DEF Slice
<1> HIDE DEF end
<1>4. /\ SubSeq(pkt, from + 1, end) \in Seq(Octet)
      /\ Len(SubSeq(pkt, from + 1, end)) =
           IF from + 1 <= end THEN end - (from + 1) + 1 ELSE 0
      /\ \A i \in 1..(end - (from + 1) + 1) :
           SubSeq(pkt, from + 1, end)[i] = pkt[from + 1 + i - 1]
  BY <1>1, <1>2, SubSeqProperties
<1>5. ASSUME from <= to, to <= Len(pkt)
      PROVE  /\ Len(Slice(pkt, from, to)) = to - from
             /\ \A i \in 1..(to - from) : Slice(pkt, from, to)[i] = pkt[from + i]
  <2>1. end = to
    BY <1>1, <1>5 DEF end
  <2>2. Len(Slice(pkt, from, to)) = to - from
    BY <1>3, <1>4, <1>5, <2>1
  <2>3. ASSUME NEW i \in 1..(to - from)
        PROVE  Slice(pkt, from, to)[i] = pkt[from + i]
    <3>1. i \in 1..(end - (from + 1) + 1) /\ from + 1 + i - 1 = from + i
      BY <2>1
    <3> QED
      BY <1>3, <1>4, <3>1
  <2> QED
    BY <2>2, <2>3
<1> QED
  BY <1>3, <1>4, <1>5

(* struct.unpack of what struct.pack has written. *)
LEMMA PackIs ==
  ASSUME NEW v \in Nat
  PROVE  /\ Pack(1, v) \in Seq(Octet) /\ Len(Pack(1, v)) = 1
         /\ Pack(2, v) \in Seq(Octet) /\ Len(Pack(2, v)) = 2
         /\ Pack(4, v) \in Seq(Octet) /\ Len(Pack(4, v)) = 4
         /\ v \in Short => 256 * Pack(2, v)[1] + Pack(2, v)[2] = v
<1> DEFINE a == (v \div 16777216) % 256
           b == (v \div 65536) % 256
           c == (v \div 256) % 256
           d == v % 256
<1>1. a \in Octet /\ b \in Octet /\ c \in Octet /\ d \in Octet
  BY OctetIs
<1>2. v \in Short => 256 * c + d = v
  <2>1. v < 65536 => 256 * c + d = v
    OBVIOUS
  <2> HIDE DEF c, d
  <2> QED
    BY <2>1, OctetIs
<1>3. Pack(1, v) = <<d>> /\ Pack(2, v) = <<c, d>> /\ Pack(4, v) = <<a, b, c, d>>
  BY DEF Pack
<1> HIDE DEF a, b, c, d
<1>4. /\ <<d>> \in Seq(Octet) /\ Len(<<d>>) = 1
      /\ <<c, d>> \in Seq(Octet) /\ Len(<<c, d>>) = 2
      /\ <<a, b, c, d>> \in Seq(Octet) /\ Len(<<a, b, c, d>>) = 4
      /\ <<c, d>>[1] = c /\ <<c, d>>[2] = d
  BY <1>1
<1> QED
  BY <1>2, <1>3, <1>4

(* Two octets are unpacked as a number of two octets. *)
LEMMA UnpackIs ==
  ASSUME NEW pkt \in Seq(Octet), NEW at \in Nat, at + 2 <= Len(pkt)
  PROVE  /\ Unpack(Slice(pkt, at, at + 2)) = 256 * pkt[at + 1] + pkt[at + 2]
         /\ Unpack(Slice(pkt, at, at + 2)) \in Short
<1>1. at + 2 \in Nat /\ at <= at + 2 /\ (at + 2) - at = 2 /\ 1 \in 1..2 /\ 2 \in 1..2
  OBVIOUS
<1> DEFINE s == Slice(pkt, at, at + 2)
<1>2. /\ s \in Seq(Octet) /\ Len(s) = (at + 2) - at
      /\ \A i \in 1..((at + 2) - at) : s[i] = pkt[at + i]
  BY <1>1, SliceIs
<1> HIDE DEF s
<1>3. s \in Seq(Octet) /\ Len(s) = 2 /\ s[1] = pkt[at + 1] /\ s[2] = pkt[at + 2]
  BY <1>1, <1>2
<1>4. Unpack(s) = 256 * s[1] + s[2]
  BY <1>3 DEF Unpack
<1>5. s[1] \in Octet /\ s[2] \in Octet
  BY <1>3, ElementOfSeq
<1>6. Unpack(s) \in Nat /\ Unpack(s) < 65536
  BY <1>4, <1>5, OctetIs
<1>7. Unpack(s) \in Short
  BY <1>6, OctetIs
<1> QED
  BY <1>3, <1>4, <1>7 DEF s

-----------------------------------------------------------------------------
(* Sequences one behind the other. *)

(* FlattenSeq puts one sequence behind the other, from the first on. *)
LEMMA FlattenIs ==
  ASSUME NEW S, NEW seqs \in Seq(Seq(S))
  PROVE  \E f \in [Nat -> Seq(S)] :
           /\ f[0] = <<>>
           /\ \A i \in 0..(Len(seqs) - 1) : f[i + 1] = f[i] \o seqs[i + 1]
           /\ FlattenSeq(seqs) = f[Len(seqs)]
<1> DEFINE n == Len(seqs)
           step == [i \in Nat |-> [g \in Seq(S) |->
                      IF i + 1 \in 1..n THEN g \o seqs[i + 1] ELSE g]]
<1>1. n \in Nat /\ \A i \in 1..n : seqs[i] \in Seq(S)
  BY LenProperties, ElementOfSeq
<1>2. \A g \in Seq(S), i \in 1..n : g \o seqs[i] \in Seq(S)
  BY <1>1, ConcatProperties
<1> HIDE DEF n
<1>3. step \in [Nat -> [Seq(S) -> Seq(S)]]
  BY <1>2
<1>4. <<>> \in Seq(S)
  OBVIOUS
<1>5. \A i \in Nat, g \in Seq(S) :
        i + 1 \in 1..n => step[i][g] = g \o seqs[i + 1]
  OBVIOUS
<1> HIDE DEF step
<1>6. PICK f : /\ f \in [Nat -> Seq(S)]
               /\ f[0] = <<>> /\ \A i \in Nat : f[i + 1] = step[i][f[i]]
  <2>1. step \in Steps(Seq(S))
    BY <1>3 DEF Steps
  <2>2. PICK f : Iterates(f, Seq(S), <<>>, step)
    BY <1>4, <2>1, Recursion
  <2> QED
    BY <2>2 DEF Iterates
<1>7. ASSUME NEW i \in 0..(n - 1)
      PROVE  f[i + 1] = f[i] \o seqs[i + 1]
  <2>1. i \in Nat /\ i + 1 \in 1..n
    <3>1. n \in Nat
      BY <1>1
    <3> QED
      BY <3>1
  <2>2. f[i] \in Seq(S)
    <3> DEFINE T == Seq(S)
    <3>1. f \in [Nat -> T]
      BY <1>6
    <3> HIDE DEF T
    <3>2. f[i] \in T
      BY <2>1, <3>1
    <3> QED
      BY <3>2 DEF T
  <2>3. f[i + 1] = step[i][f[i]]
    BY <1>6, <2>1
  <2> QED
    BY <1>5, <2>1, <2>2, <2>3
<1>8. FlattenSeq(seqs) = f[n]
  <2>1. CASE n = 0
    <3>1. FlattenSeq(seqs) = seqs /\ seqs = <<>>
      BY <2>1, EmptySeq DEF FlattenSeq, n
    <3> QED
      BY <1>6, <2>1, <3>1
  <2>2. CASE n # 0
    <3> DEFINE Eq(flatten) ==
                 flatten = [i \in 1..n |->
                   IF i = 1 THEN seqs[i] ELSE flatten[i - 1] \o seqs[i]]
               c == CHOOSE flatten : Eq(flatten)
               h == [i \in 1..n |-> f[i]]
    <3>1. FlattenSeq(seqs) = c[n]
      BY <2>2 DEF FlattenSeq, n
    <3>2. Eq(h)
      <4>1. ASSUME NEW i \in 1..n
            PROVE  h[i] = IF i = 1 THEN seqs[i] ELSE h[i - 1] \o seqs[i]
        <5>1. i - 1 \in 0..(n - 1) /\ i - 1 + 1 = i
          BY <1>1
        <5>2. f[i] = f[i - 1] \o seqs[i]
          BY <1>7, <5>1
        <5>3. CASE i = 1
          <6>0. 1 \in 1..n /\ 0 \in 0..(n - 1) /\ 0 + 1 = 1
            BY <1>1, <5>3
          <6>1. f[1] = <<>> \o seqs[1] /\ seqs[1] \in Seq(S)
            BY <1>1, <1>6, <1>7, <6>0
          <6>2. f[1] = seqs[1]
            BY <6>1, ConcatEmptySeq
          <6> QED
            BY <5>3, <6>2
        <5>4. CASE i # 1
          <6>1. i - 1 \in 1..n
            BY <1>1, <5>4
          <6> QED
            BY <5>2, <5>4, <6>1
        <5> QED
          BY <5>3, <5>4
      <4> QED
        BY <4>1
    <3>3. Eq(c)
      <4> HIDE DEF Eq, h
      <4> QED
        BY <3>2
    <3> HIDE DEF c
    <3>4. \A i \in 1..n : c[i] = IF i = 1 THEN seqs[i] ELSE c[i - 1] \o seqs[i]
      BY <3>3
    <3>5. \A i \in 1..n : h[i] = IF i = 1 THEN seqs[i] ELSE h[i - 1] \o seqs[i]
      BY <3>2
    <3> DEFINE P == {i \in Nat : i + 1 <= n => c[i + 1] = h[i + 1]}
    <3> HIDE DEF Eq, h
    <3>6. 0 \in P
      BY <1>1, <2>2, <3>4, <3>5
    <3>7. ASSUME NEW i \in P
          PROVE  i + 1 \in P
      <4> SUFFICES ASSUME i + 2 <= n PROVE c[i + 2] = h[i + 2]
        BY <1>1
      <4>1. i \in Nat /\ i + 2 \in 1..n /\ i + 2 # 1 /\ i + 2 - 1 = i + 1
        BY <1>1
      <4>2. c[i + 1] = h[i + 1]
        BY <1>1, <4>1
      <4> QED
        BY <3>4, <3>5, <4>1, <4>2
    <3>8. P \in SUBSET Nat
      OBVIOUS
    <3> HIDE DEF P
    <3>9. P = Nat
      BY <3>6, <3>7, <3>8, Induction
    <3>10. c[n] = h[n]
      <4>1. n - 1 \in P /\ n - 1 + 1 = n
        BY <1>1, <2>2, <3>9
      <4> QED
        BY <1>1, <4>1 DEF P
    <3>11. h[n] = f[n]
      BY <1>1, <2>2 DEF h
    <3> QED
      BY <3>1, <3>10, <3>11
  <2> QED
    BY <2>1, <2>2
<1> QED
  BY <1>6, <1>7, <1>8 DEF n

-----------------------------------------------------------------------------
(* The labels of a name: what get_domainname does at one place, given what *)
(* it does with less of the stack left.                                    *)

Results == [ok : BOOLEAN, val : Seq(Seq(Octet)), next : Nat]

LabelsAt(pkt, g, at) ==
  IF ~Holds(pkt, at, 1) THEN Raised
  ELSE IF pkt[at + 1] = 0 THEN Read(<<<<>>>>, at + 1)
  ELSE IF pkt[at + 1] \div 64 = 3
    THEN IF ~Holds(pkt, at, 2) THEN Raised
         ELSE [g[Unpack(Slice(pkt, at, at + 2)) % 16384] EXCEPT !.next = at + 2]
  ELSE [g[at + 1 + pkt[at + 1]] EXCEPT
          !.val = <<Slice(pkt, at + 1, at + 1 + pkt[at + 1])>> \o @]

Descent(f, pkt) ==
  /\ f \in [Nat -> [Nat -> Results]]
  /\ \A at \in Nat : f[0][at] = Raised
  /\ \A n \in Nat, at \in Nat : f[n + 1][at] = LabelsAt(pkt, f[n], at)

(* What EXCEPT does to what a reader of names returns. *)
LEMMA ResultsOf ==
  ASSUME NEW r \in Results
  PROVE  /\ r.ok \in BOOLEAN /\ r.val \in Seq(Seq(Octet)) /\ r.next \in Nat
         /\ \A x \in Nat : /\ [r EXCEPT !.next = x] \in Results
                           /\ [r EXCEPT !.next = x].ok = r.ok
                           /\ [r EXCEPT !.next = x].val = r.val
                           /\ [r EXCEPT !.next = x].next = x
         /\ \A x \in Seq(Octet) :
              /\ [r EXCEPT !.val = <<x>> \o @] \in Results
              /\ [r EXCEPT !.val = <<x>> \o @].ok = r.ok
              /\ [r EXCEPT !.val = <<x>> \o @].val = <<x>> \o r.val
              /\ [r EXCEPT !.val = <<x>> \o @].next = r.next
<1>1. \A x \in Seq(Octet) : <<x>> \o r.val \in Seq(Seq(Octet))
  BY ConcatProperties DEF Results
<1>2. ASSUME NEW x \in Seq(Octet)
      PROVE  /\ [r EXCEPT !.val = <<x>> \o @] \in Results
             /\ [r EXCEPT !.val = <<x>> \o @].ok = r.ok
             /\ [r EXCEPT !.val = <<x>> \o @].val = <<x>> \o r.val
             /\ [r EXCEPT !.val = <<x>> \o @].next = r.next
  BY <1>1 DEF Results
<1>3. ASSUME NEW x \in Nat
      PROVE  /\ [r EXCEPT !.next = x] \in Results
             /\ [r EXCEPT !.next = x].ok = r.ok
             /\ [r EXCEPT !.next = x].val = r.val
             /\ [r EXCEPT !.next = x].next = x
  BY DEF Results
<1>4. r.ok \in BOOLEAN /\ r.val \in Seq(Seq(Octet)) /\ r.next \in Nat
  BY DEF Results
<1> QED
  BY <1>2, <1>3, <1>4

(* What a reader that raises and one that does not return. *)
LEMMA RaisedIs ==
  /\ Raised \in Results /\ ~Raised.ok
  /\ \A v \in Seq(Seq(Octet)), x \in Nat : Read(v, x) \in Results
  /\ \A v, x : Read(v, x).ok /\ Read(v, x).val = v /\ Read(v, x).next = x
BY DEF Results, Raised, Read

(* What is at a place that a packet has. *)
LEMMA OctetAt ==
  ASSUME NEW pkt \in Seq(Octet), NEW at \in Nat, Holds(pkt, at, 1)
  PROVE  /\ pkt[at + 1] \in Octet /\ pkt[at + 1] \in Nat
         /\ at + 1 + pkt[at + 1] \in Nat
<1>1. at + 1 \in 1..Len(pkt)
  BY LenProperties DEF Holds
<1>2. pkt[at + 1] \in Octet
  BY <1>1, ElementOfSeq
<1> QED
  BY <1>2, OctetIs

(* One level of get_domainname returns labels, or raises. *)
LEMMA LabelsAtType ==
  ASSUME NEW pkt \in Seq(Octet), NEW g \in [Nat -> Results], NEW at \in Nat
  PROVE  LabelsAt(pkt, g, at) \in Results
<1>1. CASE ~Holds(pkt, at, 1)
  BY <1>1, RaisedIs DEF LabelsAt
<1>2. CASE Holds(pkt, at, 1) /\ pkt[at + 1] = 0
  <2>1. <<<<>>>> \in Seq(Seq(Octet)) /\ at + 1 \in Nat
    OBVIOUS
  <2> QED
    BY <1>2, <2>1, RaisedIs DEF LabelsAt
<1>3. CASE Holds(pkt, at, 1) /\ pkt[at + 1] # 0 /\ pkt[at + 1] \div 64 = 3
  <2>1. CASE ~Holds(pkt, at, 2)
    BY <1>3, <2>1, RaisedIs DEF LabelsAt
  <2>2. CASE Holds(pkt, at, 2)
    <3> DEFINE to == Unpack(Slice(pkt, at, at + 2)) % 16384
    <3>1. Unpack(Slice(pkt, at, at + 2)) \in Nat
      BY <2>2, UnpackIs, OctetIs DEF Holds
    <3>2. to \in Nat /\ at + 2 \in Nat
      BY <3>1
    <3> HIDE DEF to
    <3>3. [g[to] EXCEPT !.next = at + 2] \in Results
      BY <3>2, ResultsOf
    <3>4. LabelsAt(pkt, g, at) = [g[to] EXCEPT !.next = at + 2]
      BY <1>3, <2>2 DEF LabelsAt, to
    <3> QED
      BY <3>3, <3>4
  <2> QED
    BY <2>1, <2>2
<1>4. CASE Holds(pkt, at, 1) /\ pkt[at + 1] # 0 /\ pkt[at + 1] \div 64 # 3
  <2> DEFINE to == at + 1 + pkt[at + 1]
             label == Slice(pkt, at + 1, at + 1 + pkt[at + 1])
  <2>1. to \in Nat /\ at + 1 \in Nat
    BY <1>4, OctetAt
  <2>2. label \in Seq(Octet)
    BY <2>1, SliceIs
  <2>3. LabelsAt(pkt, g, at) = [g[to] EXCEPT !.val = <<label>> \o @]
    BY <1>4 DEF LabelsAt
  <2> HIDE DEF to, label
  <2>4. g[to] \in Results
    BY <2>1
  <2> DEFINE r == g[to]
  <2> HIDE DEF r
  <2>5. [r EXCEPT !.val = <<label>> \o @] \in Results
    BY <2>2, <2>4, ResultsOf DEF r
  <2> QED
    BY <2>3, <2>5 DEF r
<1> QED
  BY <1>1, <1>2, <1>3, <1>4

(* get_domainname is a recursion over what is left of the stack; there is  *)
(* a function that satisfies it.                                           *)
LEMMA LabelsIs ==
  ASSUME NEW pkt \in Seq(Octet)
  PROVE  \E f : /\ Descent(f, pkt)
                /\ \A place \in Nat :
                     get_domainname(pkt, place) = f[Len(pkt) + 1][place]
<1> DEFINE T == [Nat -> Results]
           first == [at \in Nat |-> Raised]
           step == [n \in Nat |-> [g \in T |-> [at \in Nat |-> LabelsAt(pkt, g, at)]]]
<1>1. first \in T
  BY RaisedIs
<1>2. step \in Steps(T)
  BY LabelsAtType DEF Steps
<1>3. /\ \A at \in Nat : first[at] = Raised
      /\ \A n \in Nat, g \in T, at \in Nat : step[n][g][at] = LabelsAt(pkt, g, at)
  OBVIOUS
<1> HIDE DEF first, step, T
<1>4. PICK f : Iterates(f, T, first, step)
  BY <1>1, <1>2, Recursion
<1>5. Descent(f, pkt)
  <2>1. f \in [Nat -> T] /\ f[0] = first /\ \A n \in Nat : f[n + 1] = step[n][f[n]]
    BY <1>4 DEF Iterates
  <2>2. \A at \in Nat : f[0][at] = Raised
    BY <1>3, <2>1
  <2>3. ASSUME NEW n \in Nat, NEW at \in Nat
        PROVE  f[n + 1][at] = LabelsAt(pkt, f[n], at)
    <3>1. f[n] \in T
      BY <2>1
    <3>2. step[n][f[n]][at] = LabelsAt(pkt, f[n], at)
      BY <1>3, <3>1
    <3>3. f[n + 1] = step[n][f[n]]
      BY <2>1
    <3> QED
      BY <3>2, <3>3
  <2> QED
    BY <2>1, <2>2, <2>3 DEF Descent, T
<1> DEFINE Body(labels, fuel, at) ==
             IF ~Holds(pkt, at, 1) \/ fuel = 0 THEN Raised
             ELSE IF pkt[at + 1] = 0 THEN Read(<<<<>>>>, at + 1)
             ELSE IF pkt[at + 1] \div 64 = 3
               THEN IF ~Holds(pkt, at, 2) THEN Raised
                    ELSE [labels[fuel - 1][Unpack(Slice(pkt, at, at + 2)) % 16384]
                            EXCEPT !.next = at + 2]
             ELSE [labels[fuel - 1][at + 1 + pkt[at + 1]] EXCEPT
                     !.val = <<Slice(pkt, at + 1, at + 1 + pkt[at + 1])>> \o @]
           Eq(labels) == labels = [fuel \in Nat |-> [at \in Nat |->
                                     Body(labels, fuel, at)]]
           c == CHOOSE labels : Eq(labels)
<1>6. \A place : get_domainname(pkt, place) = c[Len(pkt) + 1][place]
  BY DEF get_domainname
<1>7. \A labels, at : Body(labels, 0, at) = Raised
  OBVIOUS
<1>8. \A labels, at : \A n \in Nat :
        Body(labels, n + 1, at) = LabelsAt(pkt, labels[n], at)
  <2>1. ASSUME NEW labels, NEW at, NEW fuel, fuel # 0
        PROVE  Body(labels, fuel, at) = LabelsAt(pkt, labels[fuel - 1], at)
    BY <2>1 DEF LabelsAt
  <2> HIDE DEF Body
  <2>2. \A n \in Nat : n + 1 # 0 /\ n + 1 - 1 = n
    OBVIOUS
  <2> QED
    BY <2>1, <2>2
<1> HIDE DEF Body
<1>9. Eq(f)
  <2>1. f = [fuel \in Nat |-> [at \in Nat |-> f[fuel][at]]]
    BY <1>5 DEF Descent
  <2>2. ASSUME NEW fuel \in Nat, NEW at \in Nat
        PROVE  f[fuel][at] = Body(f, fuel, at)
    <3>1. CASE fuel = 0
      BY <1>5, <1>7, <3>1 DEF Descent
    <3>2. CASE fuel # 0
      <4> DEFINE n == fuel - 1
      <4>1. n \in Nat /\ n + 1 = fuel
        BY <3>2
      <4> HIDE DEF n
      <4>2. f[n + 1][at] = LabelsAt(pkt, f[n], at)
        BY <1>5, <4>1 DEF Descent
      <4>3. Body(f, n + 1, at) = LabelsAt(pkt, f[n], at)
        BY <1>8, <4>1
      <4> QED
        BY <4>1, <4>2, <4>3
    <3> QED
      BY <3>1, <3>2
  <2> QED
    BY <2>1, <2>2
<1>10. Eq(c)
  <2> HIDE DEF Eq
  <2> QED
    BY <1>9
<1> HIDE DEF c
<1>12. /\ DOMAIN c = Nat
       /\ c = [fuel \in Nat |-> [at \in Nat |-> Body(c, fuel, at)]]
  BY <1>10
<1> HIDE DEF Eq
<1> DEFINE P == {n \in Nat : c[n] = f[n]}
<1>13. \A n \in Nat : c[n] = [at \in Nat |-> Body(c, n, at)]
  BY <1>12
<1>14. \A n \in Nat : f[n] = [at \in Nat |-> f[n][at]]
  BY <1>5 DEF Descent
<1>15. 0 \in P
  BY <1>5, <1>7, <1>13, <1>14 DEF Descent
<1>16. ASSUME NEW n \in P
       PROVE  n + 1 \in P
  <2>1. c[n] = f[n] /\ n \in Nat /\ n + 1 \in Nat
    OBVIOUS
  <2>2. ASSUME NEW at \in Nat
        PROVE  Body(c, n + 1, at) = f[n + 1][at]
    <3>1. f[n + 1][at] = LabelsAt(pkt, f[n], at)
      BY <1>5, <2>1 DEF Descent
    <3>2. Body(c, n + 1, at) = LabelsAt(pkt, c[n], at)
      BY <1>8, <2>1
    <3> QED
      BY <2>1, <3>1, <3>2
  <2> QED
    BY <1>13, <1>14, <2>1, <2>2
<1>17. P \in SUBSET Nat
  OBVIOUS
<1> HIDE DEF P
<1>18. P = Nat
  BY <1>15, <1>16, <1>17, Induction
<1>19. Len(pkt) + 1 \in Nat
  BY LenProperties
<1>20. c[Len(pkt) + 1] = f[Len(pkt) + 1]
  BY <1>18, <1>19 DEF P
<1> QED
  BY <1>5, <1>6, <1>20

(* A name is only read where the packet has it: its labels are whole.      *)
LEMMA LabelsOk ==
  ASSUME NEW pkt \in Seq(Octet), NEW g \in [Nat -> Results], NEW at \in Nat,
         LabelsAt(pkt, g, at).ok
  PROVE  /\ Holds(pkt, at, 1)
         /\ \/ LabelsAt(pkt, g, at) = Read(<<<<>>>>, at + 1)
            \/ \E to \in Nat : /\ g[to].ok
                               /\ LabelsAt(pkt, g, at).val = g[to].val
            \/ /\ pkt[at + 1] \in 1..191 /\ g[at + 1 + pkt[at + 1]].ok
               /\ LabelsAt(pkt, g, at).val =
                    <<Slice(pkt, at + 1, at + 1 + pkt[at + 1])>>
                      \o g[at + 1 + pkt[at + 1]].val
<1>1. Holds(pkt, at, 1)
  BY RaisedIs DEF LabelsAt
<1>2. pkt[at + 1] = 0 => LabelsAt(pkt, g, at) = Read(<<<<>>>>, at + 1)
  BY <1>1 DEF LabelsAt
<1>3. ASSUME pkt[at + 1] # 0, pkt[at + 1] \div 64 = 3
      PROVE  \E to \in Nat : g[to].ok /\ LabelsAt(pkt, g, at).val = g[to].val
  <2>1. Holds(pkt, at, 2)
    BY <1>1, <1>3, RaisedIs DEF LabelsAt
  <2> DEFINE to == Unpack(Slice(pkt, at, at + 2)) % 16384
             r == g[to]
  <2>2. Unpack(Slice(pkt, at, at + 2)) \in Nat
    BY <2>1, UnpackIs, OctetIs DEF Holds
  <2>3. to \in Nat /\ at + 2 \in Nat
    BY <2>2
  <2>4. LabelsAt(pkt, g, at) = [r EXCEPT !.next = at + 2]
    BY <1>1, <1>3, <2>1 DEF LabelsAt
  <2>5. r \in Results
    BY <2>3
  <2> HIDE DEF r
  <2>6. PICK x \in Nat : LabelsAt(pkt, g, at) = [r EXCEPT !.next = x]
    BY <2>3, <2>4
  <2>7. [r EXCEPT !.next = x].ok = r.ok /\ [r EXCEPT !.next = x].val = r.val
    BY <2>5, <2>6, ResultsOf
  <2>8. LabelsAt(pkt, g, at).ok = r.ok /\ LabelsAt(pkt, g, at).val = r.val
    BY <2>6, <2>7
  <2> QED
    BY <2>3, <2>8 DEF r
<1>4. ASSUME pkt[at + 1] # 0, pkt[at + 1] \div 64 # 3
      PROVE  /\ pkt[at + 1] \in 1..191 /\ g[at + 1 + pkt[at + 1]].ok
             /\ LabelsAt(pkt, g, at).val =
                  <<Slice(pkt, at + 1, at + 1 + pkt[at + 1])>>
                    \o g[at + 1 + pkt[at + 1]].val
  <2> DEFINE to == at + 1 + pkt[at + 1]
             label == Slice(pkt, at + 1, at + 1 + pkt[at + 1])
             r == g[to]
  <2>1. pkt[at + 1] \in Nat /\ pkt[at + 1] < 256
    BY <1>1, OctetAt, OctetIs
  <2>2. pkt[at + 1] \in 1..191
    <3>1. \A l \in Nat : l # 0 /\ l < 256 /\ l \div 64 # 3 => l \in 1..191
      OBVIOUS
    <3> QED
      BY <1>4, <2>1, <3>1
  <2>3. to \in Nat /\ at + 1 \in Nat
    BY <2>1
  <2>4. label \in Seq(Octet)
    BY <2>3, SliceIs
  <2>5. LabelsAt(pkt, g, at) = [r EXCEPT !.val = <<label>> \o @]
    BY <1>1, <1>4 DEF LabelsAt
  <2>6. r \in Results
    BY <2>3
  <2> HIDE DEF r, label
  <2>7. /\ LabelsAt(pkt, g, at).ok = r.ok
        /\ LabelsAt(pkt, g, at).val = <<label>> \o r.val
    <3>1. /\ [r EXCEPT !.val = <<label>> \o @].ok = r.ok
          /\ [r EXCEPT !.val = <<label>> \o @].val = <<label>> \o r.val
      BY <2>4, <2>6, ResultsOf
    <3> QED
      BY <2>5, <3>1
  <2>8. r.ok
    BY <2>7
  <2> QED
    BY <2>2, <2>7, <2>8 DEF r, label
<1> QED
  BY <1>1, <1>2, <1>3, <1>4

(* Labels as they come from a message: the last one is the empty one.      *)
Labelled(v) ==
  /\ v \in Seq(Seq(Octet)) /\ Len(v) > 0 /\ v[Len(v)] = <<>>
  /\ \A i \in 1..(Len(v) - 1) : Len(v[i]) \in 1..191

(* A label in front of labels. *)
LEMMA LabelBefore ==
  ASSUME NEW v, Labelled(v), NEW label \in Seq(Octet), Len(label) \in 1..191
  PROVE  Labelled(<<label>> \o v)
<1> DEFINE u == <<label>> \o v
<1>1. v \in Seq(Seq(Octet)) /\ <<label>> \in Seq(Seq(Octet)) /\ Len(<<label>>) = 1
  BY DEF Labelled
<1>2. /\ u \in Seq(Seq(Octet)) /\ Len(u) = 1 + Len(v)
      /\ \A i \in 1..(1 + Len(v)) : u[i] = IF i <= 1 THEN <<label>>[i] ELSE v[i - 1]
  BY <1>1, ConcatProperties
<1>3. Len(v) \in Nat /\ Len(v) > 0
  BY <1>1, LenProperties DEF Labelled
<1> HIDE DEF u
<1>4. u[Len(u)] = <<>>
  <2>1. 1 + Len(v) \in 1..(1 + Len(v)) /\ ~(1 + Len(v) <= 1) /\ 1 + Len(v) - 1 = Len(v)
    BY <1>3
  <2>2. u[1 + Len(v)] = v[Len(v)]
    BY <1>2, <2>1
  <2> QED
    BY <1>2, <2>2 DEF Labelled
<1>5. ASSUME NEW i \in 1..(Len(u) - 1)
      PROVE  Len(u[i]) \in 1..191
  <2>1. CASE i = 1
    <3>1. 1 \in 1..(1 + Len(v))
      BY <1>3
    <3>2. u[1] = label
      BY <1>2, <3>1
    <3> QED
      BY <2>1, <3>2
  <2>2. CASE i # 1
    <3>1. i \in 1..(1 + Len(v)) /\ ~(i <= 1) /\ i - 1 \in 1..(Len(v) - 1)
      BY <1>2, <1>3, <2>2
    <3>2. u[i] = v[i - 1]
      BY <1>2, <3>1
    <3> QED
      BY <3>1, <3>2 DEF Labelled
  <2> QED
    BY <2>1, <2>2
<1> QED
  BY <1>2, <1>3, <1>4, <1>5 DEF u, Labelled

(* What get_domainname returns for any packet and place. *)
LEMMA NameRead ==
  ASSUME NEW pkt \in Seq(Octet), NEW place \in Nat
  PROVE  /\ get_domainname(pkt, place) \in Results
         /\ get_domainname(pkt, place).ok => Labelled(get_domainname(pkt, place).val)
<1>1. PICK f : /\ Descent(f, pkt)
               /\ get_domainname(pkt, place) = f[Len(pkt) + 1][place]
  BY LabelsIs
<1>2. \A n \in Nat : f[n] \in [Nat -> Results]
  BY <1>1 DEF Descent
<1> DEFINE P == {n \in Nat : \A at \in Nat : f[n][at].ok => Labelled(f[n][at].val)}
<1>3. 0 \in P
  BY <1>1, RaisedIs DEF Descent
<1>4. ASSUME NEW n \in P
      PROVE  n + 1 \in P
  <2> SUFFICES ASSUME NEW at \in Nat, f[n + 1][at].ok
               PROVE  Labelled(f[n + 1][at].val)
    OBVIOUS
  <2> DEFINE g == f[n]
             l == pkt[at + 1]
             to == at + 1 + l
             label == Slice(pkt, at + 1, at + 1 + l)
  <2>1. /\ g \in [Nat -> Results]
        /\ \A a \in Nat : g[a].ok => Labelled(g[a].val) /\ Holds(pkt, a, 1)
    <3>1. n \in Nat
      OBVIOUS
    <3>2. ASSUME NEW a \in Nat, g[a].ok
          PROVE  Holds(pkt, a, 1)
      <4>1. CASE n = 0
        BY <1>1, <3>2, <4>1, RaisedIs DEF Descent
      <4>2. CASE n # 0
        <5> DEFINE m == n - 1
        <5>1. m \in Nat /\ m + 1 = n
          BY <4>2
        <5> HIDE DEF m
        <5>2. f[m + 1][a] = LabelsAt(pkt, f[m], a)
          BY <1>1, <5>1 DEF Descent
        <5> QED
          BY <1>2, <3>2, <5>1, <5>2, LabelsOk
      <4> QED
        BY <4>1, <4>2
    <3> QED
      BY <1>2, <3>1, <3>2
  <2>2. f[n + 1][at] = LabelsAt(pkt, g, at)
    BY <1>1 DEF Descent
  <2> HIDE DEF P, g
  <2>3. LabelsAt(pkt, g, at).ok
    BY <2>2
  <2>4. /\ Holds(pkt, at, 1)
        /\ \/ LabelsAt(pkt, g, at) = Read(<<<<>>>>, at + 1)
           \/ \E a \in Nat : g[a].ok /\ LabelsAt(pkt, g, at).val = g[a].val
           \/ /\ l \in 1..191 /\ g[to].ok
              /\ LabelsAt(pkt, g, at).val = <<label>> \o g[to].val
    BY <2>1, <2>3, LabelsOk
  <2>5. CASE LabelsAt(pkt, g, at) = Read(<<<<>>>>, at + 1)
    <3>1. Labelled(<<<<>>>>)
      BY DEF Labelled
    <3> QED
      BY <2>2, <2>5, <3>1, RaisedIs
  <2>6. CASE \E a \in Nat : g[a].ok /\ LabelsAt(pkt, g, at).val = g[a].val
    BY <2>1, <2>2, <2>6
  <2>7. CASE /\ l \in 1..191 /\ g[to].ok
             /\ LabelsAt(pkt, g, at).val = <<label>> \o g[to].val
    <3> HIDE DEF l
    <3>1. to \in Nat /\ at + 1 \in Nat /\ at + 1 <= to /\ to - (at + 1) = l
      BY <2>7
    <3>2. Labelled(g[to].val) /\ to + 1 <= Len(pkt)
      BY <2>1, <2>7, <3>1 DEF Holds
    <3>3. label \in Seq(Octet) /\ Len(label) = l
      <4>1. to <= Len(pkt)
        BY <3>1, <3>2, LenProperties
      <4> QED
        BY <3>1, <4>1, SliceIs
    <3> HIDE DEF label, to
    <3> QED
      BY <2>2, <2>7, <3>2, <3>3, LabelBefore
  <2> QED
    BY <2>4, <2>5, <2>6, <2>7
<1>5. P \in SUBSET Nat
  OBVIOUS
<1> HIDE DEF P
<1>6. P = Nat
  BY <1>3, <1>4, <1>5, Induction
<1>7. Len(pkt) + 1 \in Nat
  BY LenProperties
<1> QED
  BY <1>1, <1>2, <1>6, <1>7 DEF P

(* Where the elements of two sequences are in the one behind the other. *)
LEMMA Behind ==
  ASSUME NEW S, NEW u \in Seq(S), NEW s \in Seq(S)
  PROVE  /\ u \o s \in Seq(S) /\ Len(u \o s) = Len(u) + Len(s)
         /\ Len(u) \in Nat /\ Len(s) \in Nat
         /\ \A k \in 1..Len(u) : (u \o s)[k] = u[k]
         /\ \A k \in 1..Len(s) : (u \o s)[Len(u) + k] = s[k]
<1>1. Len(u) \in Nat /\ Len(s) \in Nat
  BY LenProperties
<1>2. /\ u \o s \in Seq(S) /\ Len(u \o s) = Len(u) + Len(s)
      /\ \A k \in 1..(Len(u) + Len(s)) :
           (u \o s)[k] = IF k <= Len(u) THEN u[k] ELSE s[k - Len(u)]
  BY ConcatProperties
<1> DEFINE a == Len(u)
           b == Len(s)
<1> HIDE DEF a, b
<1>3. a \in Nat /\ b \in Nat
  BY <1>1 DEF a, b
<1>4. \A k \in 1..a : k \in 1..(a + b) /\ k <= a
  BY <1>3
<1> DEFINE w == u \o s
<1>6. \A k \in 1..(a + b) : w[k] = IF k <= a THEN u[k] ELSE s[k - a]
  BY <1>2 DEF a, b
<1> HIDE DEF w
<1>7. \A k \in 1..a : w[k] = u[k]
  BY <1>4, <1>6
<1>8. ASSUME NEW k \in 1..b
      PROVE  w[a + k] = s[k]
  <2> DEFINE j == a + k
  <2>1. j \in 1..(a + b) /\ ~(j <= a) /\ j - a = k
    BY <1>3
  <2> HIDE DEF j
  <2>2. w[j] = IF j <= a THEN u[j] ELSE s[j - a]
    BY <1>6, <2>1
  <2>3. w[j] = s[j - a]
    BY <2>1, <2>2
  <2> QED
    BY <2>1, <2>3 DEF j
<1> QED
  BY <1>1, <1>2, <1>7, <1>8 DEF a, b, w

(* Where each of the first m sequences is in the whole. *)
Placed(D, seqs, whole, m) ==
  \A i \in 1..m :
    /\ D[i] = D[i - 1] + Len(seqs[i]) /\ D[i] <= Len(whole)
    /\ \A k \in 1..Len(seqs[i]) : whole[D[i - 1] + k] = seqs[i][k]

(* If some sequences are placed in u, they and one more are placed in u    *)
(* and that one behind it.                                                 *)
LEMMA OneMore ==
  ASSUME NEW S, NEW u \in Seq(S), NEW s \in Seq(S), NEW m \in Nat,
         NEW D \in [Nat -> Nat], NEW seqs, seqs[m + 1] = s,
         \A i \in 1..m : Len(seqs[i]) \in Nat,
         D[m] = Len(u), D[m + 1] = Len(u) + Len(s), Placed(D, seqs, u, m)
  PROVE  Placed(D, seqs, u \o s, m + 1)
<1>1. /\ Len(u \o s) = Len(u) + Len(s)
      /\ Len(u) \in Nat /\ Len(s) \in Nat
      /\ \A k \in 1..Len(u) : (u \o s)[k] = u[k]
      /\ \A k \in 1..Len(s) : (u \o s)[Len(u) + k] = s[k]
  BY Behind
<1> DEFINE w == u \o s
<1> HIDE DEF w
<1>2. ASSUME NEW i \in 1..(m + 1)
      PROVE  /\ D[i] = D[i - 1] + Len(seqs[i]) /\ D[i] <= Len(w)
             /\ \A k \in 1..Len(seqs[i]) : w[D[i - 1] + k] = seqs[i][k]
  <2>1. CASE i = m + 1
    <3>1. i - 1 = m /\ seqs[i] = s /\ D[i - 1] = Len(u) /\ D[i] = Len(u) + Len(s)
      BY <2>1
    <3>2. D[i] = D[i - 1] + Len(seqs[i])
      BY <3>1
    <3>3. D[i] = Len(w) /\ D[i] <= Len(w)
      BY <1>1, <3>1 DEF w
    <3>4. \A k \in 1..Len(s) : w[Len(u) + k] = s[k]
      BY <1>1 DEF w
    <3>5. \A k \in 1..Len(seqs[i]) : w[D[i - 1] + k] = seqs[i][k]
      BY <3>1, <3>4
    <3> QED
      BY <3>2, <3>3, <3>5
  <2>2. CASE i # m + 1
    <3>1. i \in 1..m /\ i \in Nat /\ i - 1 \in Nat
      BY <2>2
    <3> DEFINE d == D[i - 1]
               l == Len(seqs[i])
               a == Len(u)
    <3>2. d \in Nat /\ l \in Nat /\ a \in Nat /\ D[i] = d + l /\ d + l <= a
      BY <1>1, <3>1 DEF Placed
    <3>3. \A k \in 1..l : u[d + k] = seqs[i][k]
      BY <3>1 DEF Placed
    <3>4. \A k \in 1..a : w[k] = u[k]
      BY <1>1 DEF w
    <3>5. D[i] <= Len(w)
      <4>1. Len(w) = a + Len(s) /\ Len(s) \in Nat
        BY <1>1 DEF w
      <4> HIDE DEF d, l, a
      <4> QED
        BY <3>2, <4>1
    <3> HIDE DEF d, l, a
    <3>6. ASSUME NEW k \in 1..l
          PROVE  w[d + k] = seqs[i][k]
      <4>1. d + k \in 1..a
        BY <3>2
      <4> QED
        BY <3>3, <3>4, <4>1
    <3> QED
      BY <3>2, <3>5, <3>6 DEF d, l
  <2> QED
    BY <2>1, <2>2
<1> QED
  BY <1>2 DEF Placed, w

(* FlattenSeq keeps every one of its sequences, each behind the one before. *)
LEMMA FlattenParts ==
  ASSUME NEW S, NEW seqs \in Seq(Seq(S))
  PROVE  /\ FlattenSeq(seqs) \in Seq(S)
         /\ \E D \in [Nat -> Nat] :
              /\ D[0] = 0 /\ D[Len(seqs)] = Len(FlattenSeq(seqs))
              /\ Placed(D, seqs, FlattenSeq(seqs), Len(seqs))
<1> DEFINE n == Len(seqs)
<1>1. PICK f \in [Nat -> Seq(S)] :
        /\ f[0] = <<>>
        /\ \A i \in 0..(n - 1) : f[i + 1] = f[i] \o seqs[i + 1]
        /\ FlattenSeq(seqs) = f[n]
  BY FlattenIs
<1>2. n \in Nat /\ \A i \in 1..n : seqs[i] \in Seq(S) /\ Len(seqs[i]) \in Nat
  BY LenProperties, ElementOfSeq
<1> DEFINE D == [i \in Nat |-> Len(f[i])]
<1> HIDE DEF n
<1>3. \A i \in Nat : f[i] \in Seq(S) /\ D[i] = Len(f[i]) /\ D[i] \in Nat
  BY LenProperties
<1>4. D \in [Nat -> Nat]
  BY <1>3
<1> HIDE DEF D
<1> DEFINE P == {m \in Nat : m <= n => Placed(D, seqs, f[m], m)}
<1>5. 0 \in P
  BY DEF Placed
<1>6. ASSUME NEW m \in P
      PROVE  m + 1 \in P
  <2>1. m \in Nat /\ m + 1 \in Nat
    OBVIOUS
  <2>2. ASSUME m + 1 <= n
        PROVE  Placed(D, seqs, f[m + 1], m + 1)
    <3>1. m <= n /\ m \in 0..(n - 1) /\ m + 1 \in 1..n
      BY <1>2, <2>1, <2>2
    <3>2. Placed(D, seqs, f[m], m)
      BY <3>1
    <3> HIDE DEF P
    <3> DEFINE u == f[m]
               s == seqs[m + 1]
    <3>3. f[m + 1] = u \o s
      BY <1>1, <3>1
    <3>4. u \in Seq(S) /\ s \in Seq(S)
      BY <1>2, <1>3, <2>1, <3>1
    <3>5. \A i \in 1..m : Len(seqs[i]) \in Nat
      BY <1>2, <2>1, <3>1
    <3>6. D[m] = Len(u) /\ D[m + 1] = Len(f[m + 1])
      BY <1>3, <2>1
    <3> HIDE DEF u, s
    <3>7. D[m + 1] = Len(u) + Len(s)
      BY <3>3, <3>4, <3>6, Behind
    <3>8. seqs[m + 1] = s /\ Placed(D, seqs, u, m)
      BY <3>2 DEF s, u
    <3>9. Placed(D, seqs, u \o s, m + 1)
      BY <1>4, <2>1, <3>4, <3>5, <3>6, <3>7, <3>8, OneMore
    <3> QED
      BY <3>3, <3>9
  <2> QED
    BY <2>1, <2>2
<1>7. P \in SUBSET Nat
  OBVIOUS
<1> HIDE DEF P
<1>8. P = Nat
  BY <1>5, <1>6, <1>7, Induction
<1>9. Placed(D, seqs, f[n], n)
  <2>1. n \in P /\ n <= n
    BY <1>2, <1>8
  <2> QED
    BY <2>1 DEF P
<1>10. D[0] = 0 /\ D[n] = Len(f[n]) /\ f[n] \in Seq(S)
  BY <1>1, <1>2, <1>3
<1> QED
  BY <1>1, <1>4, <1>9, <1>10 DEF n

-----------------------------------------------------------------------------
(* A name that has been written is read back. *)

(* A label that has been written in a packet is read, and what is read     *)
(* behind it follows.                                                      *)
LEMMA OneLabel ==
  ASSUME NEW pkt \in Seq(Octet), NEW g \in [Nat -> Results], NEW a \in Nat,
         NEW label \in Seq(Octet), Len(label) \in 1..191, NEW to \in Nat,
         to = a + 1 + Len(label), g[to].ok => Holds(pkt, to, 1),
         Holds(pkt, a, 1) => pkt[a + 1] = Len(label),
         \A k \in 1..Len(label) : a + 1 + k <= Len(pkt) => pkt[a + 1 + k] = label[k]
  PROVE  /\ LabelsAt(pkt, g, a).ok =>
              /\ g[to].ok /\ Holds(pkt, a, 1)
              /\ LabelsAt(pkt, g, a).val = <<label>> \o g[to].val
              /\ LabelsAt(pkt, g, a).next = g[to].next
         /\ Holds(pkt, a, 1) /\ g[to].ok => LabelsAt(pkt, g, a).ok
<1>1. CASE ~Holds(pkt, a, 1)
  BY <1>1, RaisedIs DEF LabelsAt
<1>2. CASE Holds(pkt, a, 1)
  <2> DEFINE l == Len(label)
             cutout == Slice(pkt, a + 1, to)
             r == g[to]
  <2>1. l \in Nat /\ l # 0 /\ l \div 64 # 3
    <3>1. \A n \in 1..191 : n \in Nat /\ n # 0 /\ n \div 64 # 3
      OBVIOUS
    <3> QED
      BY <3>1
  <2>2. pkt[a + 1] = l /\ a + 1 \in Nat /\ a + 1 <= to /\ to - (a + 1) = l
    BY <1>2, <2>1
  <2>3. cutout \in Seq(Octet) /\ r \in Results
    BY <2>2, SliceIs
  <2>4. LabelsAt(pkt, g, a) = [r EXCEPT !.val = <<cutout>> \o @]
    BY <1>2, <2>1, <2>2 DEF LabelsAt
  <2> HIDE DEF r
  <2>5. r.ok => cutout = label
    <3> SUFFICES ASSUME r.ok PROVE cutout = label
      OBVIOUS
    <3>1. to <= Len(pkt)
      <4>1. to + 1 <= Len(pkt) /\ Len(pkt) \in Nat
        BY LenProperties DEF Holds, r
      <4> QED
        BY <4>1
    <3> DEFINE from == a + 1
    <3> HIDE DEF from
    <3>2. from \in Nat /\ from <= to /\ to - from = l
      BY <2>2 DEF from
    <3>3. /\ Len(Slice(pkt, from, to)) = to - from
          /\ \A i \in 1..(to - from) : Slice(pkt, from, to)[i] = pkt[from + i]
      BY <3>1, <3>2, SliceIs
    <3>4. Len(cutout) = l /\ \A k \in 1..l : cutout[k] = pkt[a + 1 + k]
      BY <3>2, <3>3 DEF from
    <3>5. \A k \in 1..l : a + 1 + k <= Len(pkt)
      <4> DEFINE n == Len(pkt)
      <4>1. n \in Nat /\ to = a + 1 + l /\ to <= n
        BY <3>1, LenProperties
      <4> HIDE DEF l, n
      <4>2. \A k \in 1..l : a + 1 + k <= n
        BY <2>1, <4>1
      <4> QED
        BY <4>2 DEF n
    <3>6. \A k \in 1..l : cutout[k] = label[k]
      BY <3>4, <3>5
    <3> HIDE DEF cutout
    <3> QED
      BY <2>3, <3>4, <3>6, SeqEqual
  <2> HIDE DEF cutout
  <2>6. /\ [r EXCEPT !.val = <<cutout>> \o @].ok = r.ok
        /\ [r EXCEPT !.val = <<cutout>> \o @].val = <<cutout>> \o r.val
        /\ [r EXCEPT !.val = <<cutout>> \o @].next = r.next
    BY <2>3, ResultsOf
  <2>7. /\ LabelsAt(pkt, g, a).ok = r.ok /\ LabelsAt(pkt, g, a).next = r.next
        /\ LabelsAt(pkt, g, a).val = <<cutout>> \o r.val
    BY <2>4, <2>6
  <2> QED
    BY <1>2, <2>5, <2>7 DEF r
<1> QED
  BY <1>1, <1>2

(* The octet 0 ends a name. *)
LEMMA LastLabel ==
  ASSUME NEW pkt, NEW g, NEW a \in Nat, Holds(pkt, a, 1) => pkt[a + 1] = 0
  PROVE  LabelsAt(pkt, g, a) = IF Holds(pkt, a, 1) THEN Read(<<<<>>>>, a + 1) ELSE Raised
BY DEF LabelsAt

(* The labels p are written as enc, each ending where D says. *)
Written(p, enc, D) ==
  /\ D \in [Nat -> Nat] /\ D[0] = 0 /\ D[Len(p)] = Len(enc)
  /\ \A i \in 1..Len(p) :
       /\ D[i] = D[i - 1] + 1 + Len(p[i]) /\ D[i] <= Len(enc)
       /\ enc[D[i - 1] + 1] = Len(p[i])
       /\ \A k \in 1..Len(p[i]) : enc[D[i - 1] + 1 + k] = p[i][k]

(* The labels of p behind the first i. *)
RestOf(v, p, i) ==
  /\ v \in Seq(Seq(Octet)) /\ Len(v) = Len(p) - i
  /\ \A k \in 1..(Len(p) - i) : v[k] = p[i + k]

(* The labels behind the first i are the next one and those behind it. *)
LEMMA RestBefore ==
  ASSUME NEW p \in Seq(Seq(Octet)), NEW i \in Nat, i + 1 <= Len(p), NEW v,
         RestOf(v, p, i + 1)
  PROVE  RestOf(<<p[i + 1]>> \o v, p, i)
<1> DEFINE n == Len(p)
           label == p[i + 1]
           u == <<label>> \o v
<1>1. n \in Nat /\ i + 1 \in 1..n /\ label \in Seq(Octet)
  BY LenProperties, ElementOfSeq
<1>2. /\ v \in Seq(Seq(Octet)) /\ Len(v) = n - (i + 1)
      /\ \A k \in 1..(n - (i + 1)) : v[k] = p[i + 1 + k]
  BY DEF RestOf
<1> HIDE DEF n, label
<1>3. /\ <<label>> \in Seq(Seq(Octet)) /\ Len(<<label>>) = 1 /\ <<label>>[1] = label
  BY <1>1
<1> DEFINE t == <<label>>
           b == Len(v)
<1>4. /\ u \in Seq(Seq(Octet)) /\ Len(u) = 1 + b
      /\ \A k \in 1..1 : u[k] = t[k]
      /\ \A k \in 1..b : u[1 + k] = v[k]
  BY <1>2, <1>3, Behind
<1> HIDE DEF u, t, b
<1>5. b = n - (i + 1) /\ 1 + b = n - i /\ b \in Nat
  BY <1>1, <1>2 DEF b
<1>6. ASSUME NEW k \in 1..(n - i)
      PROVE  u[k] = p[i + k]
  <2>1. CASE k = 1
    <3>1. u[1] = label
      BY <1>3, <1>4 DEF t
    <3> QED
      BY <2>1, <3>1 DEF label
  <2>2. CASE k # 1
    <3> DEFINE j == k - 1
    <3>1. j \in 1..b /\ k = 1 + j /\ i + 1 + j = i + k
      BY <1>1, <1>5, <2>2
    <3> HIDE DEF j
    <3>2. u[1 + j] = v[j]
      BY <1>4, <3>1
    <3>3. v[j] = p[i + 1 + j]
      BY <1>2, <1>5, <3>1
    <3> QED
      BY <3>1, <3>2, <3>3
  <2> QED
    BY <2>1, <2>2
<1> QED
  BY <1>4, <1>5, <1>6 DEF RestOf, u, n, label

(* What is read of a place, with the octets of enc from at on, when the    *)
(* first i labels are behind it.                                           *)
ReadRest(r, pkt, p, enc, D, at, i, m) ==
  /\ r.ok => /\ RestOf(r.val, p, i) /\ r.next = at + Len(enc)
             /\ Holds(pkt, at + D[i], 1)
  /\ at + Len(enc) <= Len(pkt) /\ Len(p) - i <= m => r.ok

(* If the labels behind the next one are read of a packet, so are those    *)
(* from the next one on.                                                   *)
LEMMA ReadMore ==
  ASSUME NEW pkt \in Seq(Octet), NEW at \in Nat, NEW p, Labelled(p),
         NEW enc \in Seq(Octet), NEW D, Written(p, enc, D),
         \A k \in 1..Len(enc) : at + k <= Len(pkt) => pkt[at + k] = enc[k],
         NEW g \in [Nat -> Results], NEW m \in Nat, NEW i \in Nat, i + 1 < Len(p),
         ReadRest(g[at + D[i + 1]], pkt, p, enc, D, at, i + 1, m)
  PROVE  ReadRest(LabelsAt(pkt, g, at + D[i]), pkt, p, enc, D, at, i, m + 1)
<1> DEFINE n == Len(p)
           e == Len(enc)
           label == p[i + 1]
           l == Len(label)
           d == D[i]
           a == at + d
           to == at + D[i + 1]
<1>1. p \in Seq(Seq(Octet)) /\ n \in Nat /\ e \in Nat /\ Len(pkt) \in Nat
  BY LenProperties DEF Labelled
<1>2. i + 1 \in 1..n /\ i + 1 \in 1..(n - 1) /\ i + 1 - 1 = i /\ i + 1 \in Nat
  BY <1>1
<1>3. label \in Seq(Octet) /\ l \in 1..191
  BY <1>1, <1>2, ElementOfSeq DEF Labelled
<1>4. d \in Nat /\ D[i + 1] \in Nat
  BY <1>2 DEF Written
<1>5. /\ D[i + 1] = d + 1 + l /\ d + 1 + l <= e
      /\ enc[d + 1] = l /\ \A k \in 1..l : enc[d + 1 + k] = label[k]
  BY <1>2 DEF Written
<1> HIDE DEF n, e, label, l, d
<1>6. a \in Nat /\ to \in Nat /\ to = a + 1 + l
  BY <1>3, <1>4, <1>5
<1>7. Holds(pkt, a, 1) => pkt[a + 1] = l
  <2>1. d + 1 \in 1..e /\ at + (d + 1) = a + 1
    BY <1>1, <1>3, <1>4, <1>5
  <2> QED
    BY <1>5, <2>1 DEF Holds, e
<1>8. ASSUME NEW k \in 1..l, a + 1 + k <= Len(pkt)
      PROVE  pkt[a + 1 + k] = label[k]
  <2>1. d + 1 + k \in 1..e /\ at + (d + 1 + k) = a + 1 + k
    BY <1>1, <1>3, <1>4, <1>5
  <2>2. pkt[a + 1 + k] = enc[d + 1 + k]
    BY <1>8, <2>1 DEF e
  <2> QED
    BY <1>5, <2>2
<1> DEFINE r == LabelsAt(pkt, g, a)
<1>9. g[to].ok => Holds(pkt, to, 1)
  BY DEF ReadRest
<1> HIDE DEF a, to
<1>10. /\ r.ok => /\ g[to].ok /\ Holds(pkt, a, 1)
                  /\ r.val = <<label>> \o g[to].val /\ r.next = g[to].next
       /\ Holds(pkt, a, 1) /\ g[to].ok => r.ok
  <2>1. Len(label) \in 1..191 /\ to = a + 1 + Len(label)
    BY <1>3, <1>6 DEF l
  <2>2. Holds(pkt, a, 1) => pkt[a + 1] = Len(label)
    BY <1>7 DEF l
  <2>3. \A k \in 1..Len(label) : a + 1 + k <= Len(pkt) => pkt[a + 1 + k] = label[k]
    BY <1>8 DEF l
  <2> QED
    BY <1>3, <1>6, <1>9, <2>1, <2>2, <2>3, OneLabel
<1> HIDE DEF r
<1>11. ASSUME r.ok
       PROVE  RestOf(r.val, p, i) /\ r.next = at + e /\ Holds(pkt, a, 1)
  <2>1. RestOf(g[to].val, p, i + 1) /\ g[to].next = at + e
    BY <1>10, <1>11 DEF ReadRest, to, e
  <2>2. RestOf(<<label>> \o g[to].val, p, i)
    BY <1>1, <1>2, <2>1, RestBefore DEF label, n
  <2> QED
    BY <1>10, <1>11, <2>1, <2>2
<1>12. ASSUME at + e <= Len(pkt), n - i <= m + 1
       PROVE  r.ok
  <2>1. n - (i + 1) <= m
    BY <1>1, <1>12
  <2>2. g[to].ok
    BY <1>12, <2>1 DEF ReadRest, to, e, n
  <2>3. Holds(pkt, a, 1)
    <3>1. a + 1 <= Len(pkt)
      BY <1>1, <1>3, <1>4, <1>5, <1>12 DEF a
    <3> QED
      BY <3>1 DEF Holds
  <2> QED
    BY <1>10, <2>2, <2>3
<1> QED
  BY <1>11, <1>12 DEF ReadRest, r, e, n, a, d

(* The last label of a name is read of a packet that has its octet. *)
LEMMA ReadLast ==
  ASSUME NEW pkt \in Seq(Octet), NEW at \in Nat, NEW p, Labelled(p),
         NEW enc \in Seq(Octet), NEW D, Written(p, enc, D),
         \A k \in 1..Len(enc) : at + k <= Len(pkt) => pkt[at + k] = enc[k],
         NEW g, NEW m \in Nat, NEW i \in Nat, i + 1 = Len(p)
  PROVE  ReadRest(LabelsAt(pkt, g, at + D[i]), pkt, p, enc, D, at, i, m + 1)
<1> DEFINE n == Len(p)
           e == Len(enc)
           d == D[i]
           a == at + d
<1>1. p \in Seq(Seq(Octet)) /\ n \in Nat /\ e \in Nat /\ Len(pkt) \in Nat
  BY LenProperties DEF Labelled
<1>2. n = i + 1 /\ p[i + 1] = <<>>
  BY <1>1 DEF Labelled
<1>3. d \in Nat /\ i + 1 \in 1..n /\ i + 1 - 1 = i
  <2>1. D \in [Nat -> Nat]
    BY DEF Written
  <2>2. i + 1 \in 1..(i + 1) /\ i + 1 - 1 = i
    OBVIOUS
  <2> QED
    BY <2>1, <2>2
<1>4. Len(p[i + 1]) = 0
  BY <1>2
<1>5. D[i + 1] = d + 1 /\ D[i + 1] = e /\ enc[d + 1] = 0
  <2>0. \A j \in 1..n : D[j] = D[j - 1] + 1 + Len(p[j]) /\ enc[D[j - 1] + 1] = Len(p[j])
    BY DEF Written
  <2>1. D[i + 1] = d + 1 + Len(p[i + 1]) /\ enc[d + 1] = Len(p[i + 1])
    BY <1>3, <2>0
  <2>2. D[n] = e
    BY DEF Written
  <2> HIDE DEF d, e, n
  <2> QED
    BY <1>2, <1>3, <1>4, <2>1, <2>2
<1> HIDE DEF n, e, d
<1>6. a \in Nat /\ a + 1 = at + e /\ e = d + 1
  BY <1>3, <1>5
<1>7. Holds(pkt, a, 1) => pkt[a + 1] = 0
  <2>1. e \in 1..e /\ e \in Nat /\ enc[e] = 0
    BY <1>1, <1>3, <1>5, <1>6
  <2>2. at + e <= Len(pkt) => pkt[at + e] = enc[e]
    BY <2>1 DEF e
  <2> QED
    BY <1>6, <2>1, <2>2 DEF Holds
<1> HIDE DEF a
<1>8. LabelsAt(pkt, g, a) = IF Holds(pkt, a, 1) THEN Read(<<<<>>>>, a + 1) ELSE Raised
  BY <1>6, <1>7, LastLabel
<1> DEFINE r == LabelsAt(pkt, g, a)
<1>9. ASSUME r.ok
      PROVE  RestOf(r.val, p, i) /\ r.next = at + e /\ Holds(pkt, a, 1)
  <2>1. Holds(pkt, a, 1) /\ r.val = <<<<>>>> /\ r.next = a + 1
    BY <1>8, <1>9, RaisedIs
  <2>2. <<<<>>>> \in Seq(Seq(Octet)) /\ Len(<<<<>>>>) = 1 /\ <<<<>>>>[1] = <<>>
    OBVIOUS
  <2>3. n - i = 1
    BY <1>2
  <2>4. \A k \in 1..1 : <<<<>>>>[k] = p[i + k]
    BY <1>2, <2>2
  <2>5. RestOf(<<<<>>>>, p, i)
    BY <2>2, <2>3, <2>4 DEF RestOf, n
  <2> QED
    BY <1>6, <2>1, <2>5
<1>10. at + e <= Len(pkt) => r.ok
  <2>1. at + e <= Len(pkt) => Holds(pkt, a, 1)
    BY <1>6 DEF Holds
  <2> QED
    BY <1>8, <2>1, RaisedIs
<1> QED
  BY <1>9, <1>10 DEF ReadRest, r, e, a, d

(* Of a packet that has what was written of a name, as far as it goes,     *)
(* nothing but that name is read.                                          *)
LEMMA NameThere ==
  ASSUME NEW pkt \in Seq(Octet), NEW at \in Nat, NEW p, Labelled(p),
         NEW enc \in Seq(Octet), NEW D, Written(p, enc, D), Len(p) <= Len(enc),
         \A k \in 1..Len(enc) : at + k <= Len(pkt) => pkt[at + k] = enc[k]
  PROVE  /\ get_domainname(pkt, at).ok =>
              /\ get_domainname(pkt, at).val = p
              /\ get_domainname(pkt, at).next = at + Len(enc)
         /\ at + Len(enc) <= Len(pkt) => get_domainname(pkt, at).ok
<1>1. PICK f : /\ Descent(f, pkt)
               /\ get_domainname(pkt, at) = f[Len(pkt) + 1][at]
  BY LabelsIs
<1>2. /\ \A m \in Nat : f[m] \in [Nat -> Results]
      /\ \A m \in Nat, a \in Nat : f[m + 1][a] = LabelsAt(pkt, f[m], a)
      /\ \A a \in Nat : f[0][a] = Raised
  BY <1>1 DEF Descent
<1> DEFINE n == Len(p)
<1>3. p \in Seq(Seq(Octet)) /\ n \in Nat /\ n > 0 /\ Len(enc) \in Nat /\ Len(pkt) \in Nat
  BY LenProperties DEF Labelled
<1>4. ASSUME NEW i \in Nat
      PROVE  D[i] \in Nat /\ at + D[i] \in Nat
  <2>1. D[i] \in Nat
    BY DEF Written
  <2> QED
    BY <2>1
<1> DEFINE P == {m \in Nat : \A i \in 0..(n - 1) :
                   ReadRest(f[m][at + D[i]], pkt, p, enc, D, at, i, m)}
<1>5. 0 \in P
  <2>1. ASSUME NEW i \in 0..(n - 1)
        PROVE  ReadRest(f[0][at + D[i]], pkt, p, enc, D, at, i, 0)
    <3>1. i \in Nat /\ ~(n - i <= 0)
      BY <1>3
    <3>2. f[0][at + D[i]] = Raised
      BY <1>2, <1>4, <3>1
    <3> QED
      BY <3>1, <3>2, RaisedIs DEF ReadRest
  <2> QED
    BY <2>1
<1>6. ASSUME NEW m \in P
      PROVE  m + 1 \in P
  <2>1. m \in Nat /\ m + 1 \in Nat
    OBVIOUS
  <2>2. ASSUME NEW i \in 0..(n - 1)
        PROVE  ReadRest(f[m + 1][at + D[i]], pkt, p, enc, D, at, i, m + 1)
    <3> DEFINE g == f[m]
    <3>1. i \in Nat /\ at + D[i] \in Nat
      BY <1>4
    <3>2. f[m + 1][at + D[i]] = LabelsAt(pkt, g, at + D[i])
      BY <1>2, <2>1, <3>1
    <3>3. CASE i + 1 = n
      <4> HIDE DEF g, P
      <4>1. ReadRest(LabelsAt(pkt, g, at + D[i]), pkt, p, enc, D, at, i, m + 1)
        BY <2>1, <3>1, <3>3, ReadLast
      <4> QED
        BY <3>2, <4>1
    <3>4. CASE i + 1 # n
      <4>1. i + 1 \in 0..(n - 1) /\ i + 1 < n
        BY <1>3, <3>4
      <4>2. ReadRest(g[at + D[i + 1]], pkt, p, enc, D, at, i + 1, m)
        BY <4>1
      <4>3. g \in [Nat -> Results]
        BY <1>2, <2>1
      <4> HIDE DEF g, P
      <4>4. ReadRest(LabelsAt(pkt, g, at + D[i]), pkt, p, enc, D, at, i, m + 1)
        BY <2>1, <3>1, <4>1, <4>2, <4>3, ReadMore
      <4> QED
        BY <3>2, <4>4
    <3> QED
      BY <3>3, <3>4
  <2> QED
    BY <2>1, <2>2
<1>7. P \in SUBSET Nat
  OBVIOUS
<1> HIDE DEF P
<1>8. P = Nat
  BY <1>5, <1>6, <1>7, Induction
<1> DEFINE q == Len(pkt) + 1
           r == f[q][at]
<1>9. ReadRest(r, pkt, p, enc, D, at, 0, q)
  <2>1. q \in P /\ 0 \in 0..(n - 1)
    BY <1>3, <1>8
  <2>2. at + D[0] = at
    BY DEF Written
  <2>3. ReadRest(f[q][at + D[0]], pkt, p, enc, D, at, 0, q)
    BY <2>1 DEF P
  <2> QED
    BY <2>2, <2>3
<1> HIDE DEF r
<1>10. r.ok => r.val = p /\ r.next = at + Len(enc)
  <2> SUFFICES ASSUME r.ok PROVE r.val = p /\ r.next = at + Len(enc)
    OBVIOUS
  <2> DEFINE v == r.val
  <2>1. RestOf(v, p, 0) /\ r.next = at + Len(enc)
    BY <1>9 DEF ReadRest
  <2>2. v \in Seq(Seq(Octet)) /\ Len(v) = n - 0 /\ \A k \in 1..(n - 0) : v[k] = p[0 + k]
    BY <2>1 DEF RestOf
  <2> HIDE DEF v, n
  <2>3. Len(v) = n /\ \A k \in 1..n : v[k] = p[k]
    BY <1>3, <2>2
  <2>4. v = p
    BY <1>3, <2>2, <2>3, SeqEqual DEF n
  <2> QED
    BY <2>1, <2>4 DEF v
<1>11. at + Len(enc) <= Len(pkt) => r.ok
  <2>1. at + Len(enc) <= Len(pkt) => n - 0 <= q
    BY <1>3
  <2> QED
    BY <1>9, <2>1 DEF ReadRest
<1> QED
  BY <1>1, <1>10, <1>11 DEF r

(* Labels that can be written: their lengths are octets. *)
Pieces(p) ==
  p \in Seq(Seq(Octet)) /\ \A i \in 1..Len(p) : Len(p[i]) < 192

(* Labels as they come from a message can be written. *)
LEMMA LabelledPieces ==
  ASSUME NEW p, Labelled(p)
  PROVE  Pieces(p)
<1> DEFINE n == Len(p)
<1>1. p \in Seq(Seq(Octet)) /\ n \in Nat
  BY LenProperties DEF Labelled
<1>2. ASSUME NEW i \in 1..n
      PROVE  Len(p[i]) < 192
  <2>1. CASE i = n
    <3>1. p[i] = <<>> /\ Len(<<>>) = 0
      BY <2>1 DEF Labelled
    <3> QED
      BY <3>1
  <2>2. CASE i # n
    <3> DEFINE l == Len(p[i])
    <3>1. l \in 1..191
      BY <1>1, <2>2 DEF Labelled
    <3> HIDE DEF l
    <3>2. l < 192
      BY <3>1
    <3> QED
      BY <3>2 DEF l
  <2> QED
    BY <2>1, <2>2
<1> QED
  BY <1>1, <1>2 DEF Pieces

(* Each label is written as its length and itself, one behind the other. *)
LEMMA LabelsWritten ==
  ASSUME NEW p, Pieces(p)
  PROVE  /\ FlattenSeq([i \in DOMAIN p |-> <<Len(p[i])>> \o p[i]]) \in Seq(Octet)
         /\ \E D : Written(p, FlattenSeq([i \in DOMAIN p |-> <<Len(p[i])>> \o p[i]]), D)
<1> DEFINE n == Len(p)
           seqs == [i \in DOMAIN p |-> <<Len(p[i])>> \o p[i]]
           enc == FlattenSeq(seqs)
<1>1. /\ n \in Nat /\ DOMAIN p = 1..n /\ p \in Seq(Seq(Octet))
      /\ \A i \in 1..n : p[i] \in Seq(Octet) /\ Len(p[i]) \in Nat
  BY LenProperties, ElementOfSeq DEF Pieces
<1>2. ASSUME NEW i \in 1..n
      PROVE  /\ seqs[i] \in Seq(Octet) /\ Len(seqs[i]) = 1 + Len(p[i])
             /\ seqs[i][1] = Len(p[i])
             /\ \A k \in 1..Len(p[i]) : seqs[i][1 + k] = p[i][k]
  <2> DEFINE label == p[i]
             l == Len(label)
             t == <<l>>
  <2>1. label \in Seq(Octet) /\ l \in Nat /\ l < 192
    BY <1>1 DEF Pieces
  <2> HIDE DEF label, l
  <2>2. l \in Octet
    BY <2>1, OctetIs
  <2>3. t \in Seq(Octet) /\ Len(t) = 1 /\ t[1] = l
    BY <2>2
  <2>4. seqs[i] = t \o label
    BY <1>1 DEF label, l
  <2> HIDE DEF t, seqs
  <2>5. /\ t \o label \in Seq(Octet) /\ Len(t \o label) = 1 + l
        /\ \A k \in 1..1 : (t \o label)[k] = t[k]
        /\ \A k \in 1..l : (t \o label)[1 + k] = label[k]
    <3>1. /\ t \o label \in Seq(Octet) /\ Len(t \o label) = Len(t) + Len(label)
          /\ \A k \in 1..Len(t) : (t \o label)[k] = t[k]
          /\ \A k \in 1..Len(label) : (t \o label)[Len(t) + k] = label[k]
      <4>1. \A u \in Seq(Octet), v \in Seq(Octet) :
              /\ u \o v \in Seq(Octet) /\ Len(u \o v) = Len(u) + Len(v)
              /\ \A k \in 1..Len(u) : (u \o v)[k] = u[k]
              /\ \A k \in 1..Len(v) : (u \o v)[Len(u) + k] = v[k]
        BY Behind
      <4> QED
        BY <2>1, <2>3, <4>1
    <3> QED
      BY <2>3, <3>1 DEF l
  <2> QED
    BY <2>3, <2>4, <2>5 DEF label, l
<1>3. seqs \in Seq(Seq(Octet)) /\ Len(seqs) = n
  <2>1. seqs \in [1..n -> Seq(Octet)]
    BY <1>1, <1>2
  <2> QED
    BY <1>1, <2>1, SeqDef, LenProperties
<1> HIDE DEF seqs, n
<1>4. PICK D \in [Nat -> Nat] :
        /\ enc \in Seq(Octet)
        /\ D[0] = 0 /\ D[n] = Len(enc) /\ Placed(D, seqs, enc, n)
  BY <1>3, FlattenParts
<1> HIDE DEF enc
<1>5. ASSUME NEW i \in 1..n
      PROVE  /\ D[i] = D[i - 1] + 1 + Len(p[i]) /\ D[i] <= Len(enc)
             /\ enc[D[i - 1] + 1] = Len(p[i])
             /\ \A k \in 1..Len(p[i]) : enc[D[i - 1] + 1 + k] = p[i][k]
  <2> DEFINE l == Len(p[i])
             d == D[i - 1]
             s == seqs[i]
  <2>1. l \in Nat /\ d \in Nat
    BY <1>1
  <2>2. /\ D[i] = d + Len(s) /\ D[i] <= Len(enc)
        /\ \A k \in 1..Len(s) : enc[d + k] = s[k]
    BY <1>4 DEF Placed
  <2>3. Len(s) = 1 + l /\ s[1] = l /\ \A k \in 1..l : s[1 + k] = p[i][k]
    BY <1>2
  <2> HIDE DEF l, d, s
  <2>4. D[i] = d + 1 + l
    BY <2>1, <2>2, <2>3
  <2>5. enc[d + 1] = l
    <3>1. 1 \in 1..(1 + l)
      BY <2>1
    <3>2. enc[d + 1] = s[1]
      BY <2>2, <2>3, <3>1
    <3> QED
      BY <2>3, <3>2
  <2>6. ASSUME NEW k \in 1..l
        PROVE  enc[d + 1 + k] = p[i][k]
    <3> DEFINE j == 1 + k
    <3>1. j \in 1..(1 + l) /\ d + j = d + 1 + k
      BY <2>1
    <3>2. s[j] = p[i][k]
      BY <2>3
    <3> HIDE DEF j
    <3>3. enc[d + j] = s[j]
      BY <2>2, <2>3, <3>1
    <3> QED
      BY <3>1, <3>2, <3>3
  <2> QED
    BY <2>2, <2>4, <2>5, <2>6 DEF l, d
<1>6. Written(p, enc, D)
  BY <1>4, <1>5 DEF Written, n
<1> QED
  BY <1>4, <1>6 DEF enc, seqs

(* A name has no more labels than octets, so that its reader's stack is    *)
(* enough.                                                                 *)
LEMMA WrittenLong ==
  ASSUME NEW p, Labelled(p), NEW enc, NEW D, Written(p, enc, D)
  PROVE  Len(p) <= Len(enc)
<1> DEFINE n == Len(p)
           P == {i \in Nat : i <= n => i <= D[i]}
<1>1. n \in Nat /\ \A i \in 1..n : p[i] \in Seq(Octet) /\ Len(p[i]) \in Nat
  BY LenProperties, ElementOfSeq DEF Labelled
<1>2. 0 \in P
  BY DEF Written
<1>3. ASSUME NEW i \in P
      PROVE  i + 1 \in P
  <2>1. i \in Nat /\ i + 1 \in Nat
    OBVIOUS
  <2>2. ASSUME i + 1 <= n
        PROVE  i + 1 <= D[i + 1]
    <3> DEFINE j == i + 1
               d == D[i]
               l == Len(p[j])
    <3>1. j \in 1..n /\ j - 1 = i /\ i <= n
      BY <1>1, <2>1, <2>2
    <3>2. D[j] = d + 1 + l
      BY <3>1 DEF Written
    <3>3. d \in Nat /\ l \in Nat /\ i <= d
      <4>1. D \in [Nat -> Nat]
        BY DEF Written
      <4> QED
        BY <1>1, <2>1, <3>1, <4>1
    <3> HIDE DEF d, l, P
    <3> QED
      BY <2>1, <3>2, <3>3
  <2> QED
    BY <2>1, <2>2
<1>4. P \in SUBSET Nat
  OBVIOUS
<1> HIDE DEF P
<1>5. P = Nat
  BY <1>2, <1>3, <1>4, Induction
<1>6. n <= D[n]
  <2>1. n \in P /\ n <= n
    BY <1>1, <1>5
  <2> QED
    BY <2>1 DEF P
<1> QED
  BY <1>6 DEF Written

(* What txt2domainname writes: the labels of the name, or those of the root. *)
LEMMA NameWritten ==
  ASSUME NEW name, IsName(name)
  PROVE  /\ txt2domainname(name) \in Seq(Octet)
         /\ \E p, D : /\ Labelled(p) /\ pdomainname(p) = name
                      /\ Written(p, txt2domainname(name), D)
<1>1. CASE name = Root
  <2> DEFINE p == <<<<>>>>
             D == [i \in Nat |-> i]
  <2>1. Labelled(p) /\ Len(p) = 1 /\ Len(p[1]) = 0
    BY DEF Labelled
  <2>2. pdomainname(p) = name
    BY <1>1, <2>1 DEF pdomainname
  <2>3. txt2domainname(name) = <<0>>
    BY <1>1 DEF txt2domainname
  <2>4. 0 \in Octet /\ <<0>> \in Seq(Octet) /\ Len(<<0>>) = 1 /\ <<0>>[1] = 0
    BY OctetIs
  <2>5. D \in [Nat -> Nat] /\ D[0] = 0 /\ D[1] = 1
    OBVIOUS
  <2> HIDE DEF p, D
  <2>6. Written(p, <<0>>, D)
    <3>1. /\ D[1] = D[1 - 1] + 1 + Len(p[1]) /\ D[1] <= Len(<<0>>)
          /\ <<0>>[D[1 - 1] + 1] = Len(p[1])
          /\ \A k \in 1..Len(p[1]) : <<0>>[D[1 - 1] + 1 + k] = p[1][k]
      BY <2>1, <2>4, <2>5
    <3>2. \A i \in 1..Len(p) : i = 1
      BY <2>1
    <3> QED
      BY <2>1, <2>4, <2>5, <3>1, <3>2 DEF Written
  <2> QED
    BY <2>1, <2>2, <2>3, <2>4, <2>6
<1>2. CASE name # Root
  <2>1. Labelled(name) /\ Len(name) # 1
    BY <1>2, LenProperties DEF IsName, Labelled
  <2>2. pdomainname(name) = name
    BY <2>1 DEF pdomainname
  <2>3. txt2domainname(name) =
          FlattenSeq([i \in DOMAIN name |-> <<Len(name[i])>> \o name[i]])
    BY <1>2 DEF txt2domainname
  <2> QED
    BY <2>1, <2>2, <2>3, LabelledPieces, LabelsWritten
<1> QED
  BY <1>1, <1>2

(* What get_domainname reads where a name has been written: that name, or  *)
(* nothing if the packet is cut within it.                                 *)
THEOREM NameRoundTrip ==
  ASSUME NEW name, IsName(name), NEW pkt \in Seq(Octet), NEW at \in Nat,
         \A k \in 1..Len(txt2domainname(name)) :
           at + k <= Len(pkt) => pkt[at + k] = txt2domainname(name)[k]
  PROVE  /\ get_domainname(pkt, at).ok =>
              /\ pdomainname(get_domainname(pkt, at).val) = name
              /\ get_domainname(pkt, at).next = at + Len(txt2domainname(name))
         /\ at + Len(txt2domainname(name)) <= Len(pkt) => get_domainname(pkt, at).ok
<1> DEFINE enc == txt2domainname(name)
<1>1. PICK p, D : Labelled(p) /\ pdomainname(p) = name /\ Written(p, enc, D)
  BY NameWritten
<1>2. enc \in Seq(Octet)
  BY NameWritten
<1> HIDE DEF enc
<1>3. Len(p) <= Len(enc)
  BY <1>1, WrittenLong
<1>4. \A k \in 1..Len(enc) : at + k <= Len(pkt) => pkt[at + k] = enc[k]
  BY DEF enc
<1>5. /\ get_domainname(pkt, at).ok =>
           /\ get_domainname(pkt, at).val = p
           /\ get_domainname(pkt, at).next = at + Len(enc)
      /\ at + Len(enc) <= Len(pkt) => get_domainname(pkt, at).ok
  BY <1>1, <1>2, <1>3, <1>4, NameThere
<1> QED
  BY <1>1, <1>5 DEF enc

-----------------------------------------------------------------------------
(* What a packet, perhaps cut, has from a place on. *)

Has(pkt, at, s) ==
  /\ s \in Seq(Octet)
  /\ \A k \in 1..Len(s) : at + k <= Len(pkt) => pkt[at + k] = s[k]

(* The type and the length of octets behind octets. *)
LEMMA Joined ==
  \A a \in Seq(Octet), b \in Seq(Octet) :
    a \o b \in Seq(Octet) /\ Len(a \o b) = Len(a) + Len(b)
BY Behind

(* A packet that has a and b behind it has each where it is. *)
LEMMA HasBoth ==
  ASSUME NEW pkt, NEW at \in Nat, NEW a \in Seq(Octet), NEW b \in Seq(Octet),
         Has(pkt, at, a \o b)
  PROVE  Has(pkt, at, a) /\ Has(pkt, at + Len(a), b)
<1> DEFINE w == a \o b
           l == Len(a)
           n == Len(b)
<1>1. /\ Len(w) = l + n /\ l \in Nat /\ n \in Nat
      /\ \A k \in 1..l : w[k] = a[k]
      /\ \A k \in 1..n : w[l + k] = b[k]
  BY Behind
<1> HIDE DEF w, l, n
<1>2. \A k \in 1..(l + n) : at + k <= Len(pkt) => pkt[at + k] = w[k]
  BY <1>1 DEF Has, w
<1>3. ASSUME NEW k \in 1..l, at + k <= Len(pkt)
      PROVE  pkt[at + k] = a[k]
  <2>1. k \in 1..(l + n)
    BY <1>1
  <2> QED
    BY <1>1, <1>2, <1>3, <2>1
<1>4. ASSUME NEW k \in 1..n, at + l + k <= Len(pkt)
      PROVE  pkt[at + l + k] = b[k]
  <2> DEFINE j == l + k
  <2>1. j \in 1..(l + n) /\ at + l + k = at + j
    BY <1>1
  <2>2. w[j] = b[k]
    BY <1>1
  <2> HIDE DEF j
  <2>3. pkt[at + j] = w[j]
    BY <1>2, <1>4, <2>1
  <2> QED
    BY <2>1, <2>2, <2>3
<1> QED
  BY <1>3, <1>4 DEF Has, l, n

(* A number of two octets that has been packed is unpacked again. *)
LEMMA ShortBack ==
  ASSUME NEW pkt \in Seq(Octet), NEW at \in Nat, NEW v \in Short,
         Has(pkt, at, Pack(2, v)), at + 2 <= Len(pkt)
  PROVE  Unpack(Slice(pkt, at, at + 2)) = v
<1> DEFINE s == Pack(2, v)
<1>1. v \in Nat
  BY OctetIs
<1>2. Len(s) = 2 /\ 256 * s[1] + s[2] = v
  BY <1>1, PackIs
<1>3. Unpack(Slice(pkt, at, at + 2)) = 256 * pkt[at + 1] + pkt[at + 2]
  BY UnpackIs
<1> HIDE DEF s
<1>4. \A k \in 1..2 : at + k <= Len(pkt) => pkt[at + k] = s[k]
  BY <1>2 DEF Has, s
<1>5. 1 \in 1..2 /\ 2 \in 1..2 /\ at + 1 <= Len(pkt)
  BY LenProperties
<1>6. pkt[at + 1] = s[1] /\ pkt[at + 2] = s[2]
  BY <1>4, <1>5
<1> QED
  BY <1>2, <1>3, <1>6

(* A number of two octets is packed into two octets. *)
LEMMA ShortPacked ==
  ASSUME NEW v \in Short
  PROVE  v \in Nat /\ Pack(2, v) \in Seq(Octet) /\ Len(Pack(2, v)) = 2
<1>1. v \in Nat
  BY OctetIs
<1> QED
  BY <1>1, PackIs

-----------------------------------------------------------------------------
(* The header of a packet. *)

(* decode_header of twelve octets or more: six numbers of two octets. *)
LEMMA Header ==
  ASSUME NEW pkt \in Seq(Octet), Holds(pkt, 0, 12)
  PROVE  /\ decode_header(pkt).ok /\ decode_header(pkt).next = 12
         /\ decode_header(pkt).val.id = Unpack(Slice(pkt, 0, 2))
         /\ decode_header(pkt).val.tc = (Bit(Unpack(Slice(pkt, 2, 4)), 512) = 1)
         /\ decode_header(pkt).val.qdcount = Unpack(Slice(pkt, 4, 6))
         /\ decode_header(pkt).val.counts =
              <<Unpack(Slice(pkt, 6, 8)), Unpack(Slice(pkt, 8, 10)),
                Unpack(Slice(pkt, 10, 12))>>
         /\ \A at \in {0, 2, 4, 6, 8, 10} : Unpack(Slice(pkt, at, at + 2)) \in Short
<1> DEFINE U(k) == Unpack(Slice(pkt, 2 * k, 2 * k + 2))
<1>1. decode_header(pkt) =
        Read([id |-> U(0), tc |-> Bit(U(1), 512) = 1, rcode |-> U(1) % 16,
              qdcount |-> U(2), counts |-> <<U(3), U(4), U(5)>>], 12)
  BY DEF decode_header
<1>2. /\ 2 * 0 = 0 /\ 2 * 1 = 2 /\ 2 * 2 = 4 /\ 2 * 3 = 6 /\ 2 * 4 = 8 /\ 2 * 5 = 10
      /\ 0 + 2 = 2 /\ 2 + 2 = 4 /\ 4 + 2 = 6 /\ 6 + 2 = 8 /\ 8 + 2 = 10 /\ 10 + 2 = 12
  OBVIOUS
<1>3. /\ U(0) = Unpack(Slice(pkt, 0, 2)) /\ U(1) = Unpack(Slice(pkt, 2, 4))
      /\ U(2) = Unpack(Slice(pkt, 4, 6)) /\ U(3) = Unpack(Slice(pkt, 6, 8))
      /\ U(4) = Unpack(Slice(pkt, 8, 10)) /\ U(5) = Unpack(Slice(pkt, 10, 12))
  BY <1>2
<1> HIDE DEF U
<1>4. \A at \in {0, 2, 4, 6, 8, 10} : Unpack(Slice(pkt, at, at + 2)) \in Short
  <2>1. \A at \in {0, 2, 4, 6, 8, 10} : at \in Nat /\ at + 2 <= Len(pkt)
    BY LenProperties DEF Holds
  <2> QED
    BY <2>1, UnpackIs
<1>5. /\ decode_header(pkt).ok /\ decode_header(pkt).next = 12
      /\ decode_header(pkt).val =
           [id |-> U(0), tc |-> Bit(U(1), 512) = 1, rcode |-> U(1) % 16,
            qdcount |-> U(2), counts |-> <<U(3), U(4), U(5)>>]
  BY <1>1, RaisedIs
<1> QED
  BY <1>3, <1>4, <1>5

(* The six numbers of a header are two octets apart. *)
LEMMA SixPairs ==
  ASSUME NEW a \in Seq(Octet), NEW b \in Seq(Octet), NEW c \in Seq(Octet),
         NEW d \in Seq(Octet), NEW e \in Seq(Octet), NEW f \in Seq(Octet),
         Len(a) = 2, Len(b) = 2, Len(c) = 2, Len(d) = 2, Len(e) = 2, Len(f) = 2
  PROVE  /\ a \o b \o c \o d \o e \o f \in Seq(Octet)
         /\ Len(a \o b \o c \o d \o e \o f) = 12
         /\ \A pkt : Has(pkt, 0, a \o b \o c \o d \o e \o f) =>
              /\ Has(pkt, 0, a) /\ Has(pkt, 2, b) /\ Has(pkt, 4, c)
              /\ Has(pkt, 6, d) /\ Has(pkt, 8, e) /\ Has(pkt, 10, f)
<1> DEFINE ab == a \o b
           abc == ab \o c
           abcd == abc \o d
           abcde == abcd \o e
           all == abcde \o f
<1>1. ab \in Seq(Octet) /\ Len(ab) = 4
  <2>1. ab \in Seq(Octet) /\ Len(ab) = Len(a) + Len(b)
    BY Joined
  <2> QED
    BY <2>1
<1> HIDE DEF ab
<1>2. abc \in Seq(Octet) /\ Len(abc) = 6
  <2>1. abc \in Seq(Octet) /\ Len(abc) = Len(ab) + Len(c)
    BY <1>1, Joined
  <2> QED
    BY <1>1, <2>1
<1> HIDE DEF abc
<1>3. abcd \in Seq(Octet) /\ Len(abcd) = 8
  <2>1. abcd \in Seq(Octet) /\ Len(abcd) = Len(abc) + Len(d)
    BY <1>2, Joined
  <2> QED
    BY <1>2, <2>1
<1> HIDE DEF abcd
<1>4. abcde \in Seq(Octet) /\ Len(abcde) = 10
  <2>1. abcde \in Seq(Octet) /\ Len(abcde) = Len(abcd) + Len(e)
    BY <1>3, Joined
  <2> QED
    BY <1>3, <2>1
<1> HIDE DEF abcde
<1>5. all \in Seq(Octet) /\ Len(all) = 12
  <2>1. all \in Seq(Octet) /\ Len(all) = Len(abcde) + Len(f)
    BY <1>4, Joined
  <2> QED
    BY <1>4, <2>1
<1>6. ASSUME NEW pkt, Has(pkt, 0, all)
      PROVE  /\ Has(pkt, 0, a) /\ Has(pkt, 2, b) /\ Has(pkt, 4, c)
             /\ Has(pkt, 6, d) /\ Has(pkt, 8, e) /\ Has(pkt, 10, f)
  <2>1. Has(pkt, 0, abcde) /\ Has(pkt, 0 + Len(abcde), f)
    BY <1>4, <1>6, HasBoth
  <2>2. Has(pkt, 0, abcd) /\ Has(pkt, 0 + Len(abcd), e)
    BY <1>3, <2>1, HasBoth DEF abcde
  <2>3. Has(pkt, 0, abc) /\ Has(pkt, 0 + Len(abc), d)
    BY <1>2, <2>2, HasBoth DEF abcd
  <2>4. Has(pkt, 0, ab) /\ Has(pkt, 0 + Len(ab), c)
    BY <1>1, <2>3, HasBoth DEF abc
  <2>5. Has(pkt, 0, a) /\ Has(pkt, 0 + Len(a), b)
    BY <2>4, HasBoth DEF ab
  <2>6. /\ 0 + Len(abcde) = 10 /\ 0 + Len(abcd) = 8 /\ 0 + Len(abc) = 6
        /\ 0 + Len(ab) = 4 /\ 0 + Len(a) = 2
    BY <1>1, <1>2, <1>3, <1>4
  <2> QED
    BY <2>1, <2>2, <2>3, <2>4, <2>5, <2>6
<1>7. all = a \o b \o c \o d \o e \o f
  BY DEF abcde, abcd, abc, ab
<1> HIDE DEF all
<1> QED
  BY <1>5, <1>6, <1>7

(* The question of a packet: a name, a type and a class. *)
LEMMA QuestionBack ==
  ASSUME NEW pkt \in Seq(Octet), NEW at \in Nat, NEW name, IsName(name),
         NEW t \in Short, NEW c \in Short,
         Has(pkt, at, txt2domainname(name)),
         Has(pkt, at + Len(txt2domainname(name)), Pack(2, t)),
         Has(pkt, at + Len(txt2domainname(name)) + 2, Pack(2, c))
  PROVE  LET q == decode_question(pkt, at)
             end == at + Len(txt2domainname(name)) + 4
         IN /\ q.ok => /\ pdomainname(q.val.name) = name
                       /\ q.val.type = t /\ q.val.class = c /\ q.next = end
            /\ end <= Len(pkt) => q.ok
<1> DEFINE enc == txt2domainname(name)
           x == Pack(2, t)
           y == Pack(2, c)
           l == Len(enc)
           r == get_domainname(pkt, at)
           q == decode_question(pkt, at)
<1>1. enc \in Seq(Octet) /\ l \in Nat
  BY NameWritten, LenProperties
<1>2. x \in Seq(Octet) /\ Len(x) = 2 /\ y \in Seq(Octet) /\ Len(y) = 2
  BY ShortPacked
<1> HIDE DEF x, y, enc
<1>3. Has(pkt, at, enc) /\ Has(pkt, at + l, x) /\ Has(pkt, at + l + 2, y)
  BY DEF enc, x, y
<1>4. /\ r.ok => pdomainname(r.val) = name /\ r.next = at + l
      /\ at + l <= Len(pkt) => r.ok
  <2>1. \A k \in 1..Len(enc) : at + k <= Len(pkt) => pkt[at + k] = enc[k]
    BY <1>3 DEF Has
  <2> QED
    BY <2>1, NameRoundTrip DEF enc
<1>5. q = IF ~r.ok \/ ~Holds(pkt, r.next, 4) THEN Raised
          ELSE Read([name |-> r.val,
                     type |-> Unpack(Slice(pkt, r.next, r.next + 2)),
                     class |-> Unpack(Slice(pkt, r.next + 2, r.next + 4))],
                    r.next + 4)
  BY DEF decode_question
<1> HIDE DEF r, q, l
<1>6. Len(pkt) \in Nat
  BY LenProperties
<1>7. ASSUME q.ok
      PROVE  /\ pdomainname(q.val.name) = name
             /\ q.val.type = t /\ q.val.class = c /\ q.next = at + l + 4
  <2>1. r.ok /\ Holds(pkt, r.next, 4)
    BY <1>5, <1>7, RaisedIs
  <2>2. r.next = at + l /\ at + l + 4 <= Len(pkt) /\ pdomainname(r.val) = name
    BY <1>4, <2>1 DEF Holds
  <2> DEFINE u == at + l
             w == u + 2
  <2>3. /\ u \in Nat /\ w \in Nat /\ u + 2 <= Len(pkt) /\ w + 2 <= Len(pkt)
        /\ u + 4 = w + 2
    BY <1>1, <1>6, <2>2
  <2>4. Has(pkt, u, Pack(2, t)) /\ Has(pkt, w, Pack(2, c))
    BY <1>3 DEF x, y
  <2>5. r.next = u /\ u + 4 = at + l + 4
    BY <2>2
  <2> HIDE DEF u, w
  <2>6. Unpack(Slice(pkt, u, u + 2)) = t /\ Unpack(Slice(pkt, w, w + 2)) = c
    BY <2>3, <2>4, ShortBack
  <2>7. q = Read([name |-> r.val, type |-> t, class |-> c], u + 4)
    BY <1>5, <2>1, <2>3, <2>5, <2>6 DEF w
  <2> QED
    BY <2>2, <2>5, <2>7, RaisedIs
<1>8. at + l + 4 <= Len(pkt) => q.ok
  <2> SUFFICES ASSUME at + l + 4 <= Len(pkt) PROVE q.ok
    OBVIOUS
  <2>1. r.ok /\ r.next = at + l
    BY <1>1, <1>4, <1>6
  <2>2. Holds(pkt, r.next, 4)
    BY <2>1 DEF Holds
  <2> QED
    BY <1>5, <2>1, <2>2, RaisedIs
<1> QED
  BY <1>7, <1>8 DEF q, enc, l

-----------------------------------------------------------------------------
(* Rdata that end at rdlen whatever is in it. *)

(* Fields that are the rest of the rdata never raise. *)
LEMMA RestRead ==
  ASSUME NEW pkt, NEW place \in Nat, NEW end_rdata \in Nat
  PROVE  Fields(<<"rest">>, pkt, place, end_rdata).ok
<1> DEFINE layout == <<"rest">>
           n == Len(layout)
           Body(fields, k, at) ==
             IF k > n THEN Read(<<>>, at)
             ELSE LET field == Field(layout[k], pkt, at, end_rdata)
                  IN IF field.ok
                       THEN [fields[k + 1][field.next] EXCEPT
                               !.val = <<field.val>> \o @]
                       ELSE Raised
           Eq(fields) == fields = [k \in 1..(n + 1) |-> [at \in Nat |->
                                     Body(fields, k, at)]]
           c == CHOOSE fields : Eq(fields)
<1>1. Fields(layout, pkt, place, end_rdata) = c[1][place]
  BY DEF Fields
<1>2. n = 1 /\ layout[1] = "rest"
  OBVIOUS
<1>3. \A at : Field("rest", pkt, at, end_rdata) = Read(Slice(pkt, at, end_rdata), end_rdata)
  BY DEF Field
<1> DEFINE last == [at \in Nat |-> Read(<<>>, at)]
           first == [at \in Nat |->
                       [last[end_rdata] EXCEPT !.val = <<Slice(pkt, at, end_rdata)>> \o @]]
           w == [k \in 1..2 |-> IF k = 1 THEN first ELSE last]
<1>4. \A fields, at : Body(fields, 2, at) = Read(<<>>, at)
  BY <1>2
<1>5. \A fields, at :
        Body(fields, 1, at) =
          [fields[2][end_rdata] EXCEPT !.val = <<Slice(pkt, at, end_rdata)>> \o @]
  <2> TAKE fields, at
  <2> DEFINE field == Field("rest", pkt, at, end_rdata)
  <2>1. field.ok /\ field.next = end_rdata /\ field.val = Slice(pkt, at, end_rdata)
    BY <1>3, RaisedIs
  <2> HIDE DEF field
  <2>2. Body(fields, 1, at) =
          [fields[1 + 1][field.next] EXCEPT !.val = <<field.val>> \o @]
    <3>1. ~(1 > n) /\ layout[1] = "rest"
      BY <1>2
    <3> HIDE DEF n, layout
    <3>2. Field(layout[1], pkt, at, end_rdata) = field
      BY <3>1 DEF field
    <3> QED
      BY <2>1, <3>1, <3>2
  <2> QED
    BY <2>1, <2>2
<1> HIDE DEF Body, layout, n
<1>6. Eq(w)
  <2>1. w[1] = first /\ w[2] = last
    OBVIOUS
  <2> HIDE DEF w
  <2>2. first = [at \in Nat |-> Body(w, 1, at)]
    BY <1>5, <2>1
  <2>3. last = [at \in Nat |-> Body(w, 2, at)]
    BY <1>4
  <2> HIDE DEF first, last
  <2>4. w = [k \in 1..2 |-> [at \in Nat |-> Body(w, k, at)]]
    <3>1. DOMAIN w = 1..2 /\ w = [k \in DOMAIN w |-> w[k]]
      BY DEF w
    <3>2. ASSUME NEW k \in 1..2
          PROVE  w[k] = [at \in Nat |-> Body(w, k, at)]
      <4>1. k = 1 \/ k = 2
        OBVIOUS
      <4> QED
        BY <2>1, <2>2, <2>3, <4>1
    <3> QED
      BY <3>1, <3>2
  <2> QED
    BY <1>2, <2>4
<1>7. Eq(c)
  <2> HIDE DEF Eq, w
  <2> QED
    BY <1>6
<1> HIDE DEF c
<1>8. \A k \in 1..2 : c[k] = [at \in Nat |-> Body(c, k, at)]
  BY <1>2, <1>7
<1> HIDE DEF Eq
<1>9. c[2][end_rdata] = Read(<<>>, end_rdata)
  BY <1>4, <1>8
<1>10. c[1][place] = Body(c, 1, place)
  BY <1>8
<1>11. Body(c, 1, place) =
         [c[2][end_rdata] EXCEPT !.val = <<Slice(pkt, place, end_rdata)>> \o @]
  BY <1>5
<1>12. c[1][place].ok
  BY <1>9, <1>10, <1>11 DEF Read
<1> QED
  BY <1>1, <1>12 DEF layout

(* The OPT RR of a request: what it says of itself, and where it is. *)
LEMMA OptParts ==
  ASSUME NEW u \in Nat, NEW v \in Nat
  PROVE  /\ mk_optrr(u, v) \in Seq(Octet) /\ Len(mk_optrr(u, v)) = 11
         /\ \A pkt, at : at \in Nat /\ Has(pkt, at, mk_optrr(u, v)) =>
              /\ Has(pkt, at, txt2domainname(Root)) /\ Has(pkt, at + 1, Pack(2, 41))
              /\ Has(pkt, at + 9, Pack(2, 0))
<1> DEFINE z == <<0>>
           a == Pack(2, 41)
           b == Pack(2, u)
           c == Pack(4, v * 32768)
           d == Pack(2, 0)
           za == z \o a
           zab == za \o b
           zabc == zab \o c
           all == zabc \o d
<1>1. v * 32768 \in Nat /\ 41 \in Nat /\ 0 \in Nat /\ 0 \in Octet
  BY OctetIs
<1>2. z \in Seq(Octet) /\ Len(z) = 1
  BY <1>1
<1>3. /\ a \in Seq(Octet) /\ Len(a) = 2 /\ b \in Seq(Octet) /\ Len(b) = 2
      /\ c \in Seq(Octet) /\ Len(c) = 4 /\ d \in Seq(Octet) /\ Len(d) = 2
  BY <1>1, PackIs
<1>4. z = txt2domainname(Root)
  BY DEF txt2domainname
<1>5. all = mk_optrr(u, v)
  BY DEF mk_optrr
<1> HIDE DEF a, b, c, d, z
<1>6. za \in Seq(Octet) /\ Len(za) = 3
  <2>1. za \in Seq(Octet) /\ Len(za) = Len(z) + Len(a)
    BY <1>2, <1>3, Joined
  <2> QED
    BY <1>2, <1>3, <2>1
<1> HIDE DEF za
<1>7. zab \in Seq(Octet) /\ Len(zab) = 5
  <2>1. zab \in Seq(Octet) /\ Len(zab) = Len(za) + Len(b)
    BY <1>3, <1>6, Joined
  <2> QED
    BY <1>3, <1>6, <2>1
<1> HIDE DEF zab
<1>8. zabc \in Seq(Octet) /\ Len(zabc) = 9
  <2>1. zabc \in Seq(Octet) /\ Len(zabc) = Len(zab) + Len(c)
    BY <1>3, <1>7, Joined
  <2> QED
    BY <1>3, <1>7, <2>1
<1> HIDE DEF zabc
<1>9. all \in Seq(Octet) /\ Len(all) = 11
  <2>1. all \in Seq(Octet) /\ Len(all) = Len(zabc) + Len(d)
    BY <1>3, <1>8, Joined
  <2> QED
    BY <1>3, <1>8, <2>1
<1>10. ASSUME NEW pkt, NEW at \in Nat, Has(pkt, at, all)
       PROVE  Has(pkt, at, z) /\ Has(pkt, at + 1, a) /\ Has(pkt, at + 9, d)
  <2>1. Has(pkt, at, zabc) /\ Has(pkt, at + Len(zabc), d)
    BY <1>3, <1>8, <1>10, HasBoth
  <2>2. Has(pkt, at, zab)
    BY <1>3, <1>7, <2>1, HasBoth DEF zabc
  <2>3. Has(pkt, at, za)
    BY <1>3, <1>6, <2>2, HasBoth DEF zab
  <2>4. Has(pkt, at, z) /\ Has(pkt, at + Len(z), a)
    BY <1>2, <1>3, <2>3, HasBoth DEF za
  <2> QED
    BY <1>2, <1>8, <2>1, <2>4
<1> HIDE DEF all
<1> QED
  BY <1>4, <1>5, <1>9, <1>10 DEF a, d

(* decode_rr reads the OPT RR that mk_optrr writes, to its end. *)
LEMMA OptBack ==
  ASSUME NEW pkt \in Seq(Octet), NEW at \in Nat, NEW u \in Nat, NEW v \in Nat,
         Has(pkt, at, mk_optrr(u, v)), at + 11 <= Len(pkt)
  PROVE  /\ decode_rr(pkt, at, FALSE).ok
         /\ decode_rr(pkt, at, FALSE).val.type = 41
         /\ decode_rr(pkt, at, FALSE).next = at + 11
<1> DEFINE r == get_domainname(pkt, at)
           U(from, to) == Unpack(Slice(pkt, r.next + from, r.next + to))
           start == r.next + 10
           rdata == Fields(Layout[U(0, 2)], pkt, start, start + U(8, 10))
           rr == decode_rr(pkt, at, FALSE)
<1>1. /\ Has(pkt, at, txt2domainname(Root)) /\ Has(pkt, at + 1, Pack(2, 41))
      /\ Has(pkt, at + 9, Pack(2, 0))
  BY OptParts
<1>2. Len(pkt) \in Nat
  BY LenProperties
<1>3. r.ok /\ r.next = at + 1
  <2>1. IsName(Root)
    <3>1. Root \in Seq(Seq(Octet)) /\ Len(Root) = 2 /\ Root[2] = <<>>
      BY DEF Root
    <3> QED
      BY <3>1 DEF IsName
  <2>2. txt2domainname(Root) = <<0>> /\ Len(<<0>>) = 1
    BY DEF txt2domainname
  <2> DEFINE enc == txt2domainname(Root)
  <2>3. \A k \in 1..Len(enc) : at + k <= Len(pkt) => pkt[at + k] = enc[k]
    BY <1>1 DEF Has
  <2>4. /\ r.ok => r.next = at + Len(enc)
        /\ at + Len(enc) <= Len(pkt) => r.ok
    BY <2>1, <2>3, NameRoundTrip
  <2>5. Len(enc) = 1 /\ at + 1 <= Len(pkt)
    BY <1>2, <2>2
  <2> QED
    BY <2>4, <2>5
<1>4. rr = IF ~r.ok \/ ~Holds(pkt, r.next, 10) THEN Raised
           ELSE IF ~rdata.ok THEN Raised
           ELSE Read([name |-> pdomainname(r.val), type |-> U(0, 2),
                      class |-> U(2, 4), ttl |-> U(4, 8), rdata |-> rdata.val],
                     start + U(8, 10))
  BY DEF decode_rr
<1> DEFINE x == at + 1
           y == at + 9
<1>5. /\ x \in Nat /\ y \in Nat /\ x + 2 <= Len(pkt) /\ y + 2 <= Len(pkt)
      /\ x + 0 = x /\ x + 8 = y /\ x + 10 = y + 2 /\ x + 10 \in Nat
      /\ x + 10 = at + 11 /\ x + 10 <= Len(pkt)
  BY <1>2
<1>6. r.next = x
  BY <1>3
<1>7. Has(pkt, x, Pack(2, 41)) /\ Has(pkt, y, Pack(2, 0))
  BY <1>1
<1> HIDE DEF x, y, r
<1>8. 41 \in Short /\ 0 \in Short
  BY DEF Short
<1>9. U(0, 2) = 41 /\ U(8, 10) = 0
  <2>1. Unpack(Slice(pkt, x, x + 2)) = 41 /\ Unpack(Slice(pkt, y, y + 2)) = 0
    BY <1>5, <1>7, <1>8, ShortBack
  <2> QED
    BY <1>5, <1>6, <2>1
<1>10. Layout[41] = <<"rest">>
  BY DEF Layout
<1>11. start = at + 11 /\ start \in Nat /\ start + 0 = start
  BY <1>5, <1>6
<1> HIDE DEF U, start
<1>12. rdata.ok
  BY <1>9, <1>10, <1>11, RestRead
<1> HIDE DEF rdata
<1>13. Holds(pkt, r.next, 10)
  BY <1>5, <1>6 DEF Holds
<1>14. rr = Read([name |-> pdomainname(r.val), type |-> 41,
                  class |-> U(2, 4), ttl |-> U(4, 8), rdata |-> rdata.val],
                 start)
  BY <1>3, <1>4, <1>9, <1>11, <1>12, <1>13
<1> HIDE DEF rr
<1>15. rr.ok /\ rr.next = start /\ rr.val.type = 41
  BY <1>14, RaisedIs
<1> QED
  BY <1>11, <1>15 DEF rr

-----------------------------------------------------------------------------
(* The request. *)

(* Where the parts of a request are: its header, name, type, class and OPT *)
(* RR.                                                                     *)
LEMMA RequestParts ==
  ASSUME NEW six \in Seq(Octet), Len(six) = 12, NEW enc \in Seq(Octet),
         NEW x \in Seq(Octet), Len(x) = 2, NEW y \in Seq(Octet), Len(y) = 2,
         NEW o \in Seq(Octet)
  PROVE  LET all == six \o enc \o x \o y \o o
             end == 12 + Len(enc) + 4
         IN /\ all \in Seq(Octet) /\ Len(all) = end + Len(o)
            /\ Has(all, 0, six) /\ Has(all, 12, enc)
            /\ Has(all, 12 + Len(enc), x) /\ Has(all, 12 + Len(enc) + 2, y)
            /\ Has(all, end, o)
<1> DEFINE l == Len(enc)
           n == Len(o)
           se == six \o enc
           sex == se \o x
           sexy == sex \o y
           all == sexy \o o
<1>1. l \in Nat /\ n \in Nat
  BY LenProperties
<1>2. se \in Seq(Octet) /\ Len(se) = 12 + l
  BY Joined
<1> HIDE DEF se
<1>3. sex \in Seq(Octet) /\ Len(sex) = 12 + l + 2
  <2>1. sex \in Seq(Octet) /\ Len(sex) = Len(se) + Len(x)
    BY <1>2, Joined
  <2> QED
    BY <1>2, <2>1
<1> HIDE DEF sex
<1>4. sexy \in Seq(Octet) /\ Len(sexy) = 12 + l + 4
  <2>1. sexy \in Seq(Octet) /\ Len(sexy) = Len(sex) + Len(y)
    BY <1>3, Joined
  <2> HIDE DEF sexy, l
  <2> QED
    BY <1>1, <1>3, <2>1
<1> HIDE DEF sexy
<1>5. all \in Seq(Octet) /\ Len(all) = 12 + l + 4 + n
  <2>1. all \in Seq(Octet) /\ Len(all) = Len(sexy) + Len(o)
    BY <1>4, Joined
  <2> QED
    BY <1>4, <2>1
<1> DEFINE pkt == all
<1>6. Has(pkt, 0, all)
  BY <1>5 DEF Has
<1> HIDE DEF pkt
<1>7. Has(pkt, 0, sexy) /\ Has(pkt, 0 + Len(sexy), o)
  BY <1>4, <1>6, HasBoth
<1>8. Has(pkt, 0, sex) /\ Has(pkt, 0 + Len(sex), y)
  BY <1>3, <1>7, HasBoth DEF sexy
<1>9. Has(pkt, 0, se) /\ Has(pkt, 0 + Len(se), x)
  BY <1>2, <1>8, HasBoth DEF sex
<1>10. Has(pkt, 0, six) /\ Has(pkt, 0 + Len(six), enc)
  BY <1>9, HasBoth DEF se
<1> HIDE DEF l
<1>11. /\ 0 + Len(sexy) = 12 + l + 4 /\ 0 + Len(sex) = 12 + l + 2
       /\ 0 + Len(se) = 12 + l /\ 0 + Len(six) = 12
  BY <1>1, <1>2, <1>3, <1>4
<1>12. all = six \o enc \o x \o y \o o
  BY DEF sexy, sex, se
<1> HIDE DEF all
<1> QED
  BY <1>5, <1>7, <1>8, <1>9, <1>10, <1>11, <1>12 DEF pkt, l

(* The flags of a request are two octets without the bit of truncation. *)
LEMMA FlagsAre ==
  ASSUME NEW opts
  PROVE  LET flags == Flag(opts, "+aaonly") * 1024
                        + (1 - Flag(opts, "+norecurse")) * 256
                        + Flag(opts, "+cdflag") * 16
         IN flags \in Short /\ Bit(flags, 512) = 0
<1>1. /\ Flag(opts, "+aaonly") \in {0, 1} /\ Flag(opts, "+norecurse") \in {0, 1}
      /\ Flag(opts, "+cdflag") \in {0, 1}
  BY DEF Flag
<1>2. ASSUME NEW a \in {0, 1}, NEW b \in {0, 1}, NEW c \in {0, 1}
      PROVE  LET flags == a * 1024 + (1 - b) * 256 + c * 16
             IN /\ flags \in Nat /\ flags < 65536
                /\ (flags \div 512) % 2 = 0
  OBVIOUS
<1>3. \A a, b, c \in {0, 1} :
        LET flags == a * 1024 + (1 - b) * 256 + c * 16
        IN flags \in Short /\ Bit(flags, 512) = 0
  BY <1>2, OctetIs DEF Bit
<1> QED
  BY <1>1, <1>3

(* Any name that is typed is written as octets. *)
LEMMA NameOctets ==
  ASSUME NEW name, Pieces(name)
  PROVE  txt2domainname(name) \in Seq(Octet)
<1>1. 0 \in Octet /\ <<0>> \in Seq(Octet)
  BY OctetIs
<1>2. CASE name = Root
  BY <1>1, <1>2 DEF txt2domainname
<1>3. CASE name # Root
  BY <1>3, LabelsWritten DEF txt2domainname
<1> QED
  BY <1>2, <1>3

(* What is where in a request, for any name, with an empty label too: its  *)
(* header is read back.                                                    *)
LEMMA RequestHas ==
  ASSUME NEW name, Pieces(name), NEW t \in Short, NEW c \in Short, NEW i \in Short,
         NEW opts
  PROVE  LET pkt == mk_request(name, t, c, i, opts)
             edns == {"+edns0", "+dnssec"} \cap opts # {}
             end == 12 + Len(txt2domainname(name)) + 4
         IN /\ pkt \in Seq(Octet)
            /\ Len(pkt) = end + (IF edns THEN 11 ELSE 0)
            /\ Has(pkt, 12, txt2domainname(name))
            /\ Has(pkt, 12 + Len(txt2domainname(name)), Pack(2, t))
            /\ Has(pkt, 12 + Len(txt2domainname(name)) + 2, Pack(2, c))
            /\ edns => Has(pkt, end, mk_optrr(4096, Flag(opts, "+dnssec")))
            /\ decode_header(pkt).val.id = i /\ ~decode_header(pkt).val.tc
            /\ decode_header(pkt).val.qdcount = 1
            /\ decode_header(pkt).val.counts = <<0, 0, IF edns THEN 1 ELSE 0>>
<1> DEFINE edns == {"+edns0", "+dnssec"} \cap opts # {}
           flags == Flag(opts, "+aaonly") * 1024
                      + (1 - Flag(opts, "+norecurse")) * 256
                      + Flag(opts, "+cdflag") * 16
           n == IF edns THEN 1 ELSE 0
           six == Pack(2, i) \o Pack(2, flags) \o Pack(2, 1) \o Pack(2, 0)
                    \o Pack(2, 0) \o Pack(2, n)
           enc == txt2domainname(name)
           o == IF edns THEN mk_optrr(4096, Flag(opts, "+dnssec")) ELSE <<>>
           pkt == mk_request(name, t, c, i, opts)
           x == Pack(2, t)
           y == Pack(2, c)
<1>1. pkt = six \o enc \o x \o y \o o
  BY DEF mk_request
<1>2. enc \in Seq(Octet) /\ Len(enc) \in Nat
  BY NameOctets, LenProperties
<1>3. /\ x \in Seq(Octet) /\ Len(x) = 2 /\ y \in Seq(Octet) /\ Len(y) = 2
  BY ShortPacked
<1>4. flags \in Short /\ Bit(flags, 512) = 0
  BY FlagsAre
<1> HIDE DEF flags
<1>5. 1 \in Short /\ 0 \in Short /\ n \in Short
  BY OctetIs
<1> DEFINE a == Pack(2, i)
           b == Pack(2, flags)
           p == Pack(2, 1)
           z == Pack(2, 0)
           m == Pack(2, n)
<1>6. /\ a \in Seq(Octet) /\ Len(a) = 2 /\ b \in Seq(Octet) /\ Len(b) = 2
      /\ p \in Seq(Octet) /\ Len(p) = 2 /\ z \in Seq(Octet) /\ Len(z) = 2
      /\ m \in Seq(Octet) /\ Len(m) = 2
  BY <1>4, <1>5, ShortPacked
<1>7. six = a \o b \o p \o z \o z \o m
  OBVIOUS
<1> HIDE DEF six, a, b, p, z, m
<1>8. /\ six \in Seq(Octet) /\ Len(six) = 12
      /\ \A packet : Has(packet, 0, six) =>
           /\ Has(packet, 0, a) /\ Has(packet, 2, b) /\ Has(packet, 4, p)
           /\ Has(packet, 6, z) /\ Has(packet, 8, z) /\ Has(packet, 10, m)
  <2> DEFINE s == a \o b \o p \o z \o z \o m
  <2>1. /\ s \in Seq(Octet) /\ Len(s) = 12
        /\ \A packet : Has(packet, 0, s) =>
             /\ Has(packet, 0, a) /\ Has(packet, 2, b) /\ Has(packet, 4, p)
             /\ Has(packet, 6, z) /\ Has(packet, 8, z) /\ Has(packet, 10, m)
    BY <1>6, SixPairs
  <2> HIDE DEF s
  <2>2. six = s
    BY <1>7 DEF s
  <2> QED
    BY <2>1, <2>2
<1>9. o \in Seq(Octet) /\ Len(o) = IF edns THEN 11 ELSE 0
  <2>1. Flag(opts, "+dnssec") \in Nat /\ 4096 \in Nat
    BY DEF Flag
  <2>2. /\ mk_optrr(4096, Flag(opts, "+dnssec")) \in Seq(Octet)
        /\ Len(mk_optrr(4096, Flag(opts, "+dnssec"))) = 11
    BY <2>1, OptParts
  <2>3. <<>> \in Seq(Octet) /\ Len(<<>>) = 0
    OBVIOUS
  <2>4. CASE edns
    <3>1. o = mk_optrr(4096, Flag(opts, "+dnssec"))
      BY <2>4
    <3> HIDE DEF o, edns
    <3> QED
      BY <2>2, <2>4, <3>1
  <2>5. CASE ~edns
    <3>1. o = <<>>
      BY <2>5
    <3> HIDE DEF o, edns
    <3> QED
      BY <2>3, <2>5, <3>1
  <2> QED
    BY <2>4, <2>5
<1> HIDE DEF o, enc, x, y, pkt, edns
<1>10. /\ pkt \in Seq(Octet) /\ Len(pkt) = 12 + Len(enc) + 4 + Len(o)
       /\ Has(pkt, 0, six) /\ Has(pkt, 12, enc)
       /\ Has(pkt, 12 + Len(enc), x) /\ Has(pkt, 12 + Len(enc) + 2, y)
       /\ Has(pkt, 12 + Len(enc) + 4, o)
  <2> DEFINE s == six \o enc \o x \o y \o o
  <2>1. /\ s \in Seq(Octet) /\ Len(s) = 12 + Len(enc) + 4 + Len(o)
        /\ Has(s, 0, six) /\ Has(s, 12, enc)
        /\ Has(s, 12 + Len(enc), x) /\ Has(s, 12 + Len(enc) + 2, y)
        /\ Has(s, 12 + Len(enc) + 4, o)
    BY <1>2, <1>3, <1>8, <1>9, RequestParts
  <2> HIDE DEF s
  <2>2. pkt = s
    BY <1>1 DEF s
  <2> QED
    BY <2>1, <2>2
<1>11. \A at \in {0, 2, 4, 6, 8, 10} : at \in Nat /\ at + 2 <= Len(pkt)
  BY <1>2, <1>9, <1>10
<1>12. /\ Has(pkt, 0, Pack(2, i)) /\ Has(pkt, 2, Pack(2, flags))
       /\ Has(pkt, 4, Pack(2, 1)) /\ Has(pkt, 6, Pack(2, 0))
       /\ Has(pkt, 8, Pack(2, 0)) /\ Has(pkt, 10, Pack(2, n))
  BY <1>8, <1>10 DEF a, b, p, z, m
<1> HIDE DEF n
<1>13. /\ Unpack(Slice(pkt, 0, 0 + 2)) = i /\ Unpack(Slice(pkt, 2, 2 + 2)) = flags
       /\ Unpack(Slice(pkt, 4, 4 + 2)) = 1 /\ Unpack(Slice(pkt, 6, 6 + 2)) = 0
       /\ Unpack(Slice(pkt, 8, 8 + 2)) = 0 /\ Unpack(Slice(pkt, 10, 10 + 2)) = n
  <2>1. \A at \in {0, 2, 4, 6, 8, 10}, v \in Short :
          Has(pkt, at, Pack(2, v)) => Unpack(Slice(pkt, at, at + 2)) = v
    BY <1>10, <1>11, ShortBack
  <2> QED
    BY <1>4, <1>5, <1>12, <2>1
<1>14. Holds(pkt, 0, 12)
  BY <1>2, <1>9, <1>10 DEF Holds
<1>15. /\ decode_header(pkt).val.id = i
       /\ decode_header(pkt).val.tc = (Bit(flags, 512) = 1)
       /\ decode_header(pkt).val.qdcount = 1
       /\ decode_header(pkt).val.counts = <<0, 0, n>>
  <2>1. /\ 0 + 2 = 2 /\ 2 + 2 = 4 /\ 4 + 2 = 6 /\ 6 + 2 = 8 /\ 8 + 2 = 10
        /\ 10 + 2 = 12
    OBVIOUS
  <2>2. /\ Unpack(Slice(pkt, 0, 2)) = i /\ Unpack(Slice(pkt, 2, 4)) = flags
        /\ Unpack(Slice(pkt, 4, 6)) = 1 /\ Unpack(Slice(pkt, 6, 8)) = 0
        /\ Unpack(Slice(pkt, 8, 10)) = 0 /\ Unpack(Slice(pkt, 10, 12)) = n
    BY <1>13, <2>1
  <2> QED
    BY <1>10, <1>14, <2>2, Header
<1>16. ~decode_header(pkt).val.tc
  <2>1. Bit(flags, 512) # 1
    BY <1>4
  <2> QED
    BY <1>15, <2>1
<1>17. edns => Has(pkt, 12 + Len(enc) + 4, mk_optrr(4096, Flag(opts, "+dnssec")))
  BY <1>10 DEF o
<1> QED
  BY <1>9, <1>10, <1>15, <1>16, <1>17 DEF pkt, enc, x, y, n, edns

(* A name that a message can hold can be written. *)
LEMMA NamePieces ==
  ASSUME NEW name, IsName(name)
  PROVE  Pieces(name)
<1>1. CASE name = Root
  <2>1. Root \in Seq(Seq(Octet)) /\ Len(Root) = 2 /\ \A i \in 1..2 : Len(Root[i]) = 0
    BY DEF Root
  <2> QED
    BY <1>1, <2>1 DEF Pieces
<1>2. CASE name # Root
  <2>1. Labelled(name)
    BY <1>2, LenProperties DEF IsName, Labelled
  <2> QED
    BY <2>1, LabelledPieces
<1> QED
  BY <1>1, <1>2

Edns(opts) == {"+edns0", "+dnssec"} \cap opts # {}
ReadBack(pkt, name, t, c, opts) ==
  LET q == decode_question(pkt, 12)
      opt == decode_rr(pkt, q.next, FALSE)
  IN /\ q.ok /\ pdomainname(q.val.name) = name
     /\ q.val.type = t /\ q.val.class = c
     /\ Edns(opts) => opt.ok /\ opt.val.type = 41 /\ opt.next = Len(pkt)
     /\ ~Edns(opts) => q.next = Len(pkt)

(* A request is read back if a message can hold its name. *)
LEMMA RequestBack ==
  ASSUME NEW name, IsName(name), NEW t \in Short, NEW c \in Short, NEW i \in Short,
         NEW opts, NEW pkt, pkt = mk_request(name, t, c, i, opts)
  PROVE  ReadBack(pkt, name, t, c, opts)
<1> DEFINE edns == {"+edns0", "+dnssec"} \cap opts # {}
           q == decode_question(pkt, 12)
           l == Len(txt2domainname(name))
           v == Flag(opts, "+dnssec")
<1>1. Pieces(name)
  BY NamePieces
<1>2. l \in Nat
  BY <1>1, NameOctets, LenProperties
<1>3. /\ pkt \in Seq(Octet)
      /\ Len(pkt) = 12 + l + 4 + (IF edns THEN 11 ELSE 0)
      /\ Has(pkt, 12, txt2domainname(name))
      /\ Has(pkt, 12 + l, Pack(2, t))
      /\ Has(pkt, 12 + l + 2, Pack(2, c))
      /\ edns => Has(pkt, 12 + l + 4, mk_optrr(4096, v))
  BY <1>1, RequestHas
<1> HIDE DEF edns
<1>4. /\ q.ok => /\ pdomainname(q.val.name) = name
                 /\ q.val.type = t /\ q.val.class = c /\ q.next = 12 + l + 4
      /\ 12 + l + 4 <= Len(pkt) => q.ok
  BY <1>3, QuestionBack
<1> HIDE DEF q, l
<1>5. 12 + l + 4 <= Len(pkt)
  BY <1>2, <1>3
<1> DEFINE end == 12 + l + 4
<1>6. q.ok /\ q.next = end /\ end \in Nat
  BY <1>2, <1>4, <1>5
<1>7. ~edns => q.next = Len(pkt)
  BY <1>2, <1>3, <1>6
<1>8. edns => /\ Len(pkt) = end + 11 /\ end + 11 <= Len(pkt)
              /\ Has(pkt, end, mk_optrr(4096, v))
  BY <1>2, <1>3
<1>9. v \in Nat /\ pkt \in Seq(Octet) /\ end + 11 \in Nat
  BY <1>3, <1>6 DEF Flag
<1> DEFINE u == 4096
           rr == decode_rr(pkt, end, FALSE)
           n == end + 11
<1>10. u \in Nat /\ (edns => Has(pkt, end, mk_optrr(u, v)))
  BY <1>8
<1> HIDE DEF end, u, v, n
<1>11. edns => rr.ok /\ rr.val.type = 41 /\ rr.next = n
  <2> SUFFICES ASSUME edns PROVE rr.ok /\ rr.val.type = 41 /\ rr.next = end + 11
    BY DEF n
  <2>1. Has(pkt, end, mk_optrr(u, v)) /\ end + 11 <= Len(pkt)
    BY <1>8, <1>10
  <2>2. end \in Nat /\ v \in Nat /\ u \in Nat /\ pkt \in Seq(Octet)
    BY <1>6, <1>9, <1>10
  <2> QED
    BY <2>1, <2>2, OptBack
<1>12. edns => Len(pkt) = n
  BY <1>8 DEF n
<1> HIDE DEF rr
<1>13. edns => rr.ok /\ rr.val.type = 41 /\ rr.next = Len(pkt)
  BY <1>11, <1>12
<1> QED
  BY <1>4, <1>6, <1>7, <1>13 DEF edns, q, rr, Edns, ReadBack

-----------------------------------------------------------------------------
(* The messages of the server. *)

(* FlattenSeq of one sequence is that sequence. *)
LEMMA FlattenOne ==
  ASSUME NEW S, NEW s \in Seq(S)
  PROVE  FlattenSeq(<<s>>) = s
<1> DEFINE seqs == <<s>>
<1>1. seqs \in Seq(Seq(S)) /\ Len(seqs) = 1 /\ seqs[1] = s
  OBVIOUS
<1> HIDE DEF seqs
<1>2. PICK f \in [Nat -> Seq(S)] :
        /\ f[0] = <<>>
        /\ \A i \in 0..(Len(seqs) - 1) : f[i + 1] = f[i] \o seqs[i + 1]
        /\ FlattenSeq(seqs) = f[Len(seqs)]
  BY <1>1, FlattenIs
<1>3. 0 \in 0..(Len(seqs) - 1) /\ 0 + 1 = 1
  BY <1>1
<1>4. f[1] = <<>> \o s
  BY <1>1, <1>2, <1>3
<1>5. f[1] = s
  BY <1>4, ConcatEmptySeq
<1> QED
  BY <1>1, <1>2, <1>5 DEF seqs

(* A function of 1..3 is a sequence of three. *)
LEMMA ThreeAre ==
  ASSUME NEW S, NEW seqs \in [1..3 -> S]
  PROVE  seqs \in Seq(S) /\ Len(seqs) = 3
<1>1. 3 \in Nat
  OBVIOUS
<1>2. seqs \in Seq(S)
  BY <1>1, SeqDef
<1>3. DOMAIN seqs = 1..3 /\ DOMAIN seqs = 1..Len(seqs) /\ Len(seqs) \in Nat
  BY <1>2, LenProperties
<1>4. \A n \in Nat : 1..n = 1..3 => n = 3
  <2>1. ASSUME NEW n \in Nat, 1..n = 1..3
        PROVE  n = 3
    <3>1. 3 \in 1..n /\ ~(4 \in 1..n)
      BY <2>1
    <3> QED
      BY <3>1
  <2> QED
    BY <2>1
<1> QED
  BY <1>2, <1>3, <1>4

(* The three counts of a header are six octets. *)
LEMMA FlattenThree ==
  ASSUME NEW seqs \in [1..3 -> Seq(Octet)], \A i \in 1..3 : Len(seqs[i]) = 2
  PROVE  FlattenSeq(seqs) \in Seq(Octet) /\ Len(FlattenSeq(seqs)) = 6
<1>1. seqs \in Seq(Seq(Octet)) /\ Len(seqs) = 3
  BY ThreeAre
<1> DEFINE all == FlattenSeq(seqs)
<1>2. PICK D \in [Nat -> Nat] :
        /\ all \in Seq(Octet)
        /\ D[0] = 0 /\ D[3] = Len(all) /\ Placed(D, seqs, all, 3)
  BY <1>1, FlattenParts
<1> HIDE DEF all
<1>3. \A i \in 1..3 : D[i] = D[i - 1] + 2
  BY <1>2 DEF Placed
<1>4. 1 - 1 = 0 /\ 2 - 1 = 1 /\ 3 - 1 = 2 /\ 1 \in 1..3 /\ 2 \in 1..3 /\ 3 \in 1..3
  OBVIOUS
<1>5. D[1] = D[0] + 2 /\ D[2] = D[1] + 2 /\ D[3] = D[2] + 2
  BY <1>3, <1>4
<1>6. D[3] = 6
  BY <1>2, <1>5
<1> QED
  BY <1>2, <1>6 DEF all

(* Where the number of questions and the question of an answer are. *)
LEMMA MessageParts ==
  ASSUME NEW a \in Seq(Octet), NEW b \in Seq(Octet), NEW c \in Seq(Octet),
         Len(a) = 2, Len(b) = 2, Len(c) = 2, NEW d \in Seq(Octet), Len(d) = 6,
         NEW e \in Seq(Octet), NEW f \in Seq(Octet)
  PROVE  /\ a \o b \o c \o d \o e \o f \in Seq(Octet)
         /\ \A pkt : Has(pkt, 0, a \o b \o c \o d \o e \o f) =>
              Has(pkt, 4, c) /\ Has(pkt, 12, e)
<1> DEFINE ab == a \o b
           abc == ab \o c
           abcd == abc \o d
           abcde == abcd \o e
           all == abcde \o f
<1>1. ab \in Seq(Octet) /\ Len(ab) = 4
  <2>1. ab \in Seq(Octet) /\ Len(ab) = Len(a) + Len(b)
    BY Joined
  <2> QED
    BY <2>1
<1> HIDE DEF ab
<1>2. abc \in Seq(Octet) /\ Len(abc) = 6
  <2>1. abc \in Seq(Octet) /\ Len(abc) = Len(ab) + Len(c)
    BY <1>1, Joined
  <2> QED
    BY <1>1, <2>1
<1> HIDE DEF abc
<1>3. abcd \in Seq(Octet) /\ Len(abcd) = 12
  <2>1. abcd \in Seq(Octet) /\ Len(abcd) = Len(abc) + Len(d)
    BY <1>2, Joined
  <2> QED
    BY <1>2, <2>1
<1> HIDE DEF abcd
<1>4. abcde \in Seq(Octet)
  BY <1>3, Joined
<1> HIDE DEF abcde
<1>5. all \in Seq(Octet)
  BY <1>4, Joined
<1>6. ASSUME NEW pkt, Has(pkt, 0, all)
      PROVE  Has(pkt, 4, c) /\ Has(pkt, 12, e)
  <2>1. Has(pkt, 0, abcde)
    BY <1>4, <1>6, HasBoth
  <2>2. Has(pkt, 0, abcd) /\ Has(pkt, 0 + Len(abcd), e)
    BY <1>3, <2>1, HasBoth DEF abcde
  <2>3. Has(pkt, 0, abc)
    BY <1>2, <2>2, HasBoth DEF abcd
  <2>4. Has(pkt, 0 + Len(ab), c)
    BY <1>1, <2>3, HasBoth DEF abc
  <2>5. 0 + Len(abcd) = 12 /\ 0 + Len(ab) = 4
    BY <1>1, <1>3
  <2> QED
    BY <2>2, <2>4, <2>5
<1>7. all = a \o b \o c \o d \o e \o f
  BY DEF abcde, abcd, abc, ab
<1> HIDE DEF all
<1> QED
  BY <1>5, <1>6, <1>7

(* A record of an answer is written as octets. *)
LEMMA RecordOctets ==
  ASSUME NEW rr \in Records, NEW question
  PROVE  EncodeRR(rr, question) \in Seq(Octet)
<1>1. IsRecord(rr)
  BY RecordsAssumption
<1>2. ASSUME NEW name, IsName(name)
      PROVE  EncodeName(name, question) \in Seq(Octet)
  <2>1. 192 \in Octet /\ 12 \in Octet
    BY OctetIs
  <2>2. <<192, 12>> \in Seq(Octet)
    BY <2>1
  <2>3. txt2domainname(name) \in Seq(Octet)
    BY <1>2, NamePieces, NameOctets
  <2> QED
    BY <2>2, <2>3 DEF EncodeName
<1> DEFINE rdata == IF rr.type = 2 THEN EncodeName(rr.rdata[1], question)
                    ELSE EncodeFields(Layout[rr.type], rr.rdata)
           n == EncodeName(rr.name, question)
           t == Pack(2, rr.type)
           c == Pack(2, rr.class)
           l == Pack(4, rr.ttl)
           r == Pack(2, Len(rdata))
<1>3. rdata \in Seq(Octet)
  <2>1. CASE rr.type = 2
    BY <1>1, <1>2, <2>1 DEF IsRecord
  <2>2. CASE rr.type # 2
    BY <1>1, <2>2 DEF IsRecord
  <2> QED
    BY <2>1, <2>2
<1>4. n \in Seq(Octet)
  BY <1>1, <1>2 DEF IsRecord
<1>5. EncodeRR(rr, question) = n \o t \o c \o l \o r \o rdata
  BY DEF EncodeRR
<1> HIDE DEF rdata
<1>6. rr.type \in Nat /\ rr.class \in Nat /\ rr.ttl \in Nat /\ Len(rdata) \in Nat
  BY <1>1, <1>3, LenProperties DEF IsRecord
<1>7. t \in Seq(Octet) /\ c \in Seq(Octet) /\ l \in Seq(Octet) /\ r \in Seq(Octet)
  BY <1>6, PackIs
<1> HIDE DEF n, t, c, l, r
<1> DEFINE nt == n \o t
           ntc == nt \o c
           ntcl == ntc \o l
           ntclr == ntcl \o r
<1>8. nt \in Seq(Octet)
  BY <1>4, <1>7, Joined
<1> HIDE DEF nt
<1>9. ntc \in Seq(Octet)
  BY <1>7, <1>8, Joined
<1> HIDE DEF ntc
<1>10. ntcl \in Seq(Octet)
  BY <1>7, <1>9, Joined
<1> HIDE DEF ntcl
<1>11. ntclr \in Seq(Octet)
  BY <1>7, <1>10, Joined
<1> HIDE DEF ntclr
<1>12. ntclr \o rdata \in Seq(Octet)
  BY <1>3, <1>11, Joined
<1> QED
  BY <1>5, <1>12 DEF ntclr, ntcl, ntc, nt

(* All records of an answer are written as octets. *)
LEMMA RecordsOctets ==
  ASSUME NEW sections \in [1..3 -> Seq(Records)], NEW question
  PROVE  LET rrs == FlattenSeq(sections)
         IN FlattenSeq([i \in DOMAIN rrs |-> EncodeRR(rrs[i], question)]) \in Seq(Octet)
<1> DEFINE rrs == FlattenSeq(sections)
           seqs == [i \in DOMAIN rrs |-> EncodeRR(rrs[i], question)]
<1>1. sections \in Seq(Seq(Records))
  BY ThreeAre
<1>2. rrs \in Seq(Records)
  BY <1>1, FlattenParts
<1> HIDE DEF rrs
<1>3. Len(rrs) \in Nat /\ DOMAIN rrs = 1..Len(rrs) /\ \A i \in 1..Len(rrs) : rrs[i] \in Records
  BY <1>2, LenProperties, ElementOfSeq
<1>4. seqs \in [1..Len(rrs) -> Seq(Octet)]
  BY <1>3, RecordOctets
<1> HIDE DEF seqs
<1>5. seqs \in Seq(Seq(Octet))
  <2> DEFINE n == Len(rrs)
             S == Seq(Octet)
  <2>1. n \in Nat /\ seqs \in [1..n -> S]
    BY <1>3, <1>4
  <2> HIDE DEF n, S
  <2>2. seqs \in Seq(S)
    BY <2>1, SeqDef
  <2> QED
    BY <2>2 DEF S
<1>6. FlattenSeq(seqs) \in Seq(Octet)
  BY <1>5, FlattenParts
<1> QED
  BY <1>6 DEF seqs, rrs

(* A question is written as a name, a type and a class. *)
LEMMA QuestionOctets ==
  ASSUME NEW q, IsQuestion(q)
  PROVE  LET enc == txt2domainname(q.name)
             x == Pack(2, q.type)
             y == Pack(2, q.class)
         IN /\ enc \o x \o y \in Seq(Octet)
            /\ FlattenSeq(<<enc \o x \o y>>) = enc \o x \o y
            /\ \A pkt, at : at \in Nat /\ Has(pkt, at, enc \o x \o y) =>
                 /\ Has(pkt, at, enc) /\ Has(pkt, at + Len(enc), x)
                 /\ Has(pkt, at + Len(enc) + 2, y)
<1> DEFINE enc == txt2domainname(q.name)
           x == Pack(2, q.type)
           y == Pack(2, q.class)
           ex == enc \o x
           exy == ex \o y
<1>1. enc \in Seq(Octet) /\ Len(enc) \in Nat
  BY NamePieces, NameOctets, LenProperties DEF IsQuestion
<1>2. x \in Seq(Octet) /\ Len(x) = 2 /\ y \in Seq(Octet)
  BY ShortPacked DEF IsQuestion
<1> HIDE DEF enc, x, y
<1>3. ex \in Seq(Octet) /\ Len(ex) = Len(enc) + 2
  <2>1. ex \in Seq(Octet) /\ Len(ex) = Len(enc) + Len(x)
    BY <1>1, <1>2, Joined
  <2> QED
    BY <1>2, <2>1
<1> HIDE DEF ex
<1>4. exy \in Seq(Octet)
  BY <1>2, <1>3, Joined
<1>5. ASSUME NEW pkt, NEW at \in Nat, Has(pkt, at, exy)
      PROVE  /\ Has(pkt, at, enc) /\ Has(pkt, at + Len(enc), x)
             /\ Has(pkt, at + Len(enc) + 2, y)
  <2>1. Has(pkt, at, ex) /\ Has(pkt, at + Len(ex), y)
    BY <1>2, <1>3, <1>5, HasBoth
  <2>2. Has(pkt, at, enc) /\ Has(pkt, at + Len(enc), x)
    BY <1>1, <1>2, <2>1, HasBoth DEF ex
  <2>3. at + Len(ex) = at + Len(enc) + 2
    BY <1>1, <1>3
  <2> QED
    BY <2>1, <2>2, <2>3
<1> HIDE DEF exy
<1>6. FlattenSeq(<<exy>>) = exy
  BY <1>4, FlattenOne
<1>7. exy = enc \o x \o y
  BY DEF exy, ex
<1> QED
  BY <1>4, <1>5, <1>6, <1>7 DEF enc, x, y

(* What servers send: octets that say how many questions there are, and    *)
(* begin with the question behind the header.                              *)
LEMMA EncodeHas ==
  ASSUME NEW m, IsMessage(m)
  PROVE  /\ Encode(m) \in Seq(Octet)
         /\ Len(m.question) \in {0, 1}
         /\ Len(m.question) = 1 => IsQuestion(m.question[1])
         /\ \A pkt : Has(pkt, 0, Encode(m)) =>
              /\ Has(pkt, 4, Pack(2, Len(m.question)))
              /\ Len(m.question) = 1 =>
                   LET q == m.question[1]
                       enc == txt2domainname(q.name)
                   IN /\ Has(pkt, 12, enc) /\ Has(pkt, 12 + Len(enc), Pack(2, q.type))
                      /\ Has(pkt, 12 + Len(enc) + 2, Pack(2, q.class))
<1> DEFINE rrs == FlattenSeq(m.sections)
           Q(i) == txt2domainname(m.question[i].name)
                     \o Pack(2, m.question[i].type) \o Pack(2, m.question[i].class)
           qs == [i \in DOMAIN m.question |-> Q(i)]
           counts == [i \in 1..3 |-> Pack(2, Len(m.sections[i]))]
           flags == 32768 + (IF m.tc THEN 512 ELSE 0) + m.rcode
           a == Pack(2, m.id)
           b == Pack(2, flags)
           c == Pack(2, Len(m.question))
           d == FlattenSeq(counts)
           e == FlattenSeq(qs)
           f == FlattenSeq([i \in DOMAIN rrs |-> EncodeRR(rrs[i], m.question)])
<1>1. Encode(m) = a \o b \o c \o d \o e \o f
  BY DEF Encode
<1>2. m.sections \in [1..3 -> Seq(Records)]
  BY DEF IsMessage
<1>3. f \in Seq(Octet)
  BY <1>2, RecordsOctets
<1>4. d \in Seq(Octet) /\ Len(d) = 6
  <2>1. ASSUME NEW i \in 1..3
        PROVE  Pack(2, Len(m.sections[i])) \in Seq(Octet) /\ Len(Pack(2, Len(m.sections[i]))) = 2
    <3>1. Len(m.sections[i]) \in Nat
      BY <1>2, LenProperties
    <3> QED
      BY <3>1, PackIs
  <2>2. counts \in [1..3 -> Seq(Octet)] /\ \A i \in 1..3 : Len(counts[i]) = 2
    BY <2>1
  <2> HIDE DEF counts
  <2> QED
    BY <2>2, FlattenThree
<1>5. /\ Len(m.question) \in {0, 1}
      /\ Len(m.question) = 0 => qs = <<>>
      /\ Len(m.question) = 1 => qs = <<Q(1)>> /\ IsQuestion(m.question[1])
  <2>1. CASE m.question = <<>>
    BY <2>1
  <2>2. CASE m.question = <<m.question[1]>> /\ IsQuestion(m.question[1])
    <3> DEFINE question == m.question
    <3>1. Len(question) = 1 /\ DOMAIN question = 1..1
      <4> DEFINE q == question[1]
      <4>1. question = <<q>>
        BY <2>2
      <4> HIDE DEF q
      <4> QED
        BY <4>1
    <3> HIDE DEF Q
    <3>2. qs = <<Q(1)>>
      BY <3>1
    <3> QED
      BY <2>2, <3>1, <3>2
  <2> QED
    BY <2>1, <2>2 DEF IsMessage
<1> HIDE DEF Q, qs
<1>6. /\ e \in Seq(Octet)
      /\ Len(m.question) = 1 =>
           LET q == m.question[1]
               enc == txt2domainname(q.name)
           IN \A pkt : Has(pkt, 12, e) =>
                /\ Has(pkt, 12, enc) /\ Has(pkt, 12 + Len(enc), Pack(2, q.type))
                /\ Has(pkt, 12 + Len(enc) + 2, Pack(2, q.class))
  <2>1. CASE Len(m.question) = 0
    <3>1. <<>> \in Seq(Seq(Octet))
      OBVIOUS
    <3>2. FlattenSeq(<<>>) \in Seq(Octet)
      BY <3>1, FlattenParts
    <3> QED
      BY <1>5, <2>1, <3>2
  <2>2. CASE Len(m.question) = 1
    <3> DEFINE q == m.question[1]
               enc == txt2domainname(q.name)
               x == Pack(2, q.type)
               y == Pack(2, q.class)
    <3>1. IsQuestion(q) /\ e = FlattenSeq(<<enc \o x \o y>>)
      BY <1>5, <2>2 DEF Q
    <3> HIDE DEF q, e
    <3>2. /\ e \in Seq(Octet)
          /\ \A pkt, at : at \in Nat /\ Has(pkt, at, e) =>
               /\ Has(pkt, at, enc) /\ Has(pkt, at + Len(enc), x)
               /\ Has(pkt, at + Len(enc) + 2, y)
      BY <3>1, QuestionOctets
    <3>3. 12 \in Nat
      OBVIOUS
    <3>4. \A pkt : Has(pkt, 12, e) =>
            /\ Has(pkt, 12, enc) /\ Has(pkt, 12 + Len(enc), x)
            /\ Has(pkt, 12 + Len(enc) + 2, y)
      BY <3>2, <3>3
    <3> QED
      BY <3>2, <3>4 DEF q
  <2> QED
    BY <1>5, <2>1, <2>2
<1>7. /\ a \in Seq(Octet) /\ Len(a) = 2 /\ b \in Seq(Octet) /\ Len(b) = 2
      /\ c \in Seq(Octet) /\ Len(c) = 2
  <2>1. m.id \in Nat /\ flags \in Nat /\ Len(m.question) \in Nat
    BY <1>5, OctetIs DEF IsMessage
  <2> HIDE DEF flags
  <2> QED
    BY <2>1, PackIs
<1> HIDE DEF a, b, d, e, f, flags, counts, rrs
<1>8. c = Pack(2, Len(m.question))
  OBVIOUS
<1> HIDE DEF c
<1> DEFINE s == a \o b \o c \o d \o e \o f
<1>9. /\ s \in Seq(Octet)
      /\ \A pkt : Has(pkt, 0, s) => Has(pkt, 4, c) /\ Has(pkt, 12, e)
  BY <1>3, <1>4, <1>6, <1>7, MessageParts
<1> HIDE DEF s
<1>10. Encode(m) = s
  BY <1>1 DEF s
<1> QED
  BY <1>5, <1>6, <1>8, <1>9, <1>10

-----------------------------------------------------------------------------
(* What is decoded, and what the server answers. *)

(* Labels that have been read are a name that can be written again. *)
LEMMA LabelsName ==
  ASSUME NEW v, Labelled(v)
  PROVE  IsName(pdomainname(v))
<1>1. CASE Len(v) = 1
  <2>1. Root \in Seq(Seq(Octet)) /\ Len(Root) = 2 /\ Root[2] = <<>>
    BY DEF Root
  <2>2. IsName(Root)
    BY <2>1 DEF IsName
  <2> QED
    BY <1>1, <2>2 DEF pdomainname
<1>2. CASE Len(v) # 1
  <2> DEFINE n == Len(v)
  <2>3. n \in Nat /\ n > 0 /\ n # 1
    BY <1>2, LenProperties DEF Labelled
  <2> HIDE DEF n
  <2>4. n > 1
    BY <2>3
  <2>2. IsName(v)
    BY <2>4 DEF IsName, Labelled, n
  <2> QED
    BY <1>2, <2>2 DEF pdomainname
<1> QED
  BY <1>1, <1>2

(* A label in lower case is one of the same length. *)
LEMMA LowerOctets ==
  ASSUME NEW s \in Seq(Octet)
  PROVE  LET lower == [k \in DOMAIN s |-> IF s[k] \in 65..90 THEN s[k] + 32 ELSE s[k]]
         IN lower \in Seq(Octet) /\ Len(lower) = Len(s)
<1> DEFINE n == Len(s)
           lower == [k \in DOMAIN s |-> IF s[k] \in 65..90 THEN s[k] + 32 ELSE s[k]]
<1>1. n \in Nat /\ DOMAIN s = 1..n /\ \A k \in 1..n : s[k] \in Octet
  BY LenProperties, ElementOfSeq
<1>2. \A x \in Octet : (IF x \in 65..90 THEN x + 32 ELSE x) \in Octet
  <2>1. ASSUME NEW x \in Octet
        PROVE  (IF x \in 65..90 THEN x + 32 ELSE x) \in Octet
    <3>1. x \in Nat /\ x < 256
      BY OctetIs
    <3>2. CASE x \in 65..90
      <4>1. x + 32 \in Nat /\ x + 32 < 256
        BY <3>1, <3>2
      <4> QED
        BY <3>2, <4>1, OctetIs
    <3>3. CASE x \notin 65..90
      BY <3>3
    <3> QED
      BY <3>2, <3>3
  <2> QED
    BY <2>1
<1> HIDE DEF n
<1>3. lower \in [1..n -> Octet]
  BY <1>1, <1>2
<1> HIDE DEF lower
<1>4. lower \in Seq(Octet)
  BY <1>1, <1>3, SeqDef
<1>5. Len(lower) = n
  BY <1>1, <1>3, <1>4, LenProperties
<1> QED
  BY <1>4, <1>5 DEF n, lower

(* A name in lower case is one that a message can hold. *)
LEMMA LowerName ==
  ASSUME NEW name, IsName(name)
  PROVE  IsName(Lower(name))
<1> DEFINE n == Len(name)
           lower == Lower(name)
<1>1. /\ n \in Nat /\ n > 1 /\ name \in Seq(Seq(Octet)) /\ DOMAIN name = 1..n
      /\ \A i \in 1..n : name[i] \in Seq(Octet)
  BY LenProperties, ElementOfSeq DEF IsName
<1>2. ASSUME NEW i \in 1..n
      PROVE  lower[i] \in Seq(Octet) /\ Len(lower[i]) = Len(name[i])
  <2> DEFINE s == name[i]
             t == [k \in DOMAIN s |-> IF s[k] \in 65..90 THEN s[k] + 32 ELSE s[k]]
  <2>1. lower[i] = t
    BY <1>1 DEF Lower
  <2>2. s \in Seq(Octet)
    BY <1>1
  <2> HIDE DEF s
  <2>3. t \in Seq(Octet) /\ Len(t) = Len(s)
    BY <2>2, LowerOctets
  <2> QED
    BY <2>1, <2>3 DEF s
<1>3. lower \in [1..n -> Seq(Octet)]
  <2>1. DOMAIN lower = 1..n /\ lower = [i \in DOMAIN lower |-> lower[i]]
    BY <1>1 DEF Lower
  <2> HIDE DEF lower, n
  <2> QED
    BY <1>2, <2>1
<1>4. lower \in Seq(Seq(Octet)) /\ Len(lower) = n
  <2> DEFINE S == Seq(Octet)
  <2> HIDE DEF lower, n, S
  <2>1. lower \in Seq(S)
    BY <1>1, <1>3, SeqDef DEF S
  <2>2. Len(lower) = n
    BY <1>1, <1>3, <2>1, LenProperties
  <2> QED
    BY <2>1, <2>2 DEF S
<1> HIDE DEF lower
<1>5. \A i \in 1..n : name[i] = <<>> => lower[i] = <<>>
  <2>1. ASSUME NEW i \in 1..n, name[i] = <<>>
        PROVE  lower[i] = <<>>
    <3>1. Len(lower[i]) = 0
      BY <1>2, <2>1
    <3> QED
      BY <1>2, <3>1, EmptySeq
  <2> QED
    BY <2>1
<1>6. lower[Len(lower)] = <<>>
  BY <1>1, <1>4, <1>5 DEF IsName
<1>7. CASE name = Root
  <2>1. n = 2 /\ name[1] = <<>> /\ name[2] = <<>>
    BY <1>7 DEF Root
  <2>2. lower[1] = <<>> /\ lower[2] = <<>> /\ Len(lower) = 2
    BY <1>4, <1>5, <2>1
  <2>3. Root \in Seq(Seq(Octet)) /\ Len(Root) = 2 /\ \A i \in 1..2 : Root[i] = <<>>
    BY DEF Root
  <2>4. \A i \in 1..2 : lower[i] = Root[i]
    BY <2>2, <2>3
  <2>5. lower = Root
    BY <1>4, <2>2, <2>3, <2>4, SeqEqual
  <2> QED
    BY <1>1, <1>4, <1>6, <2>5 DEF IsName, lower
<1>8. CASE name # Root
  <2>1. \A i \in 1..(n - 1) : Len(name[i]) \in 1..191
    BY <1>8 DEF IsName
  <2>2. \A i \in 1..(n - 1) : Len(lower[i]) \in 1..191
    BY <1>1, <1>2, <2>1
  <2> QED
    BY <1>1, <1>4, <1>6, <2>2 DEF IsName, lower
<1> QED
  BY <1>7, <1>8

(* Whatever is in a packet, a question that is read of it can be written   *)
(* again.                                                                  *)
LEMMA QuestionRead ==
  ASSUME NEW pkt \in Seq(Octet), NEW at \in Nat, decode_question(pkt, at).ok
  PROVE  LET q == decode_question(pkt, at)
         IN /\ IsName(pdomainname(q.val.name)) /\ q.val.type \in Short
            /\ q.val.class \in Short /\ q.next \in Nat
            /\ q.val = [name |-> q.val.name, type |-> q.val.type, class |-> q.val.class]
<1> DEFINE r == get_domainname(pkt, at)
           q == decode_question(pkt, at)
           x == r.next
           t == Unpack(Slice(pkt, x, x + 2))
           c == Unpack(Slice(pkt, x + 2, x + 4))
<1>1. q = IF ~r.ok \/ ~Holds(pkt, x, 4) THEN Raised
          ELSE Read([name |-> r.val, type |-> t, class |-> c], x + 4)
  BY DEF decode_question
<1>2. r.ok /\ Holds(pkt, x, 4)
  BY <1>1, RaisedIs
<1>3. q.val = [name |-> r.val, type |-> t, class |-> c] /\ q.next = x + 4
  BY <1>1, <1>2, RaisedIs
<1>4. x \in Nat /\ Labelled(r.val)
  BY <1>2, NameRead DEF Results
<1> HIDE DEF r, x, q
<1> DEFINE y == x + 2
<1>5. y \in Nat /\ x + 2 <= Len(pkt) /\ y + 2 <= Len(pkt) /\ x + 4 = y + 2
  BY <1>2, <1>4, LenProperties DEF Holds
<1> HIDE DEF y
<1>6. t \in Short /\ Unpack(Slice(pkt, y, y + 2)) \in Short
  BY <1>4, <1>5, UnpackIs
<1>7. c \in Short
  BY <1>5, <1>6 DEF y
<1> HIDE DEF t, c
<1>8. IsName(pdomainname(r.val))
  BY <1>4, LabelsName
<1> QED
  BY <1>3, <1>4, <1>6, <1>7, <1>8 DEF q

(* Whatever is in a packet, reading a record of it moves to some place. *)
LEMMA RecordRead ==
  ASSUME NEW pkt \in Seq(Octet), NEW at \in Nat, NEW hex, decode_rr(pkt, at, hex).ok
  PROVE  decode_rr(pkt, at, hex).next \in Nat
<1> DEFINE r == get_domainname(pkt, at)
           U(from, to) == Unpack(Slice(pkt, r.next + from, r.next + to))
           start == r.next + 10
           rdata == Fields(IF hex THEN <<"rest">> ELSE Layout[U(0, 2)],
                           pkt, start, start + U(8, 10))
           rr == decode_rr(pkt, at, hex)
<1>1. rr = IF ~r.ok \/ ~Holds(pkt, r.next, 10) THEN Raised
           ELSE IF ~rdata.ok THEN Raised
           ELSE Read([name |-> pdomainname(r.val), type |-> U(0, 2),
                      class |-> U(2, 4), ttl |-> U(4, 8), rdata |-> rdata.val],
                     start + U(8, 10))
  BY DEF decode_rr
<1> HIDE DEF rdata
<1>2. r.ok /\ Holds(pkt, r.next, 10) /\ rdata.ok
  BY <1>1, RaisedIs
<1>3. rr.next = start + U(8, 10)
  BY <1>1, <1>2, RaisedIs
<1>4. r.next \in Nat
  BY NameRead DEF Results
<1> DEFINE y == r.next + 8
<1>5. y \in Nat /\ y + 2 <= Len(pkt) /\ y + 2 = r.next + 10
  BY <1>2, <1>4, LenProperties DEF Holds
<1>6. Unpack(Slice(pkt, y, y + 2)) \in Nat
  <2> HIDE DEF y
  <2>1. Unpack(Slice(pkt, y, y + 2)) \in Short
    BY <1>5, UnpackIs
  <2> QED
    BY <2>1, OctetIs
<1>7. U(8, 10) \in Nat
  BY <1>5, <1>6
<1> HIDE DEF U, r, rr
<1>8. rr.next \in Nat
  BY <1>3, <1>4, <1>7
<1> QED
  BY <1>8 DEF rr

(* A question, or none. *)
Asked(s) ==
  \/ s = <<>>
  \/ \E n, t, c : /\ IsName(n) /\ t \in Short /\ c \in Short
                  /\ s = <<[name |-> n, type |-> t, class |-> c]>>

(* Asked in the form of IsMessage. *)
LEMMA AskedIs ==
  ASSUME NEW s, Asked(s)
  PROVE  \/ s = <<>>
         \/ s = <<s[1]>> /\ IsQuestion(s[1])
<1> SUFFICES ASSUME s # <<>> PROVE s = <<s[1]>> /\ IsQuestion(s[1])
  OBVIOUS
<1>1. PICK n, t, c : /\ IsName(n) /\ t \in Short /\ c \in Short
                     /\ s = <<[name |-> n, type |-> t, class |-> c]>>
  BY DEF Asked
<1> DEFINE q == [name |-> n, type |-> t, class |-> c]
<1>2. q.name = n /\ q.type = t /\ q.class = c
  OBVIOUS
<1>3. IsQuestion(q)
  BY <1>1, <1>2 DEF IsQuestion
<1> HIDE DEF q
<1>4. s = <<q>>
  BY <1>1 DEF q
<1>5. s[1] = q
  BY <1>4
<1> QED
  BY <1>3, <1>4, <1>5

(* What a server reads of any request is a question or none. *)
LEMMA QuestionAsked ==
  ASSUME NEW pkt \in Seq(Octet)
  PROVE  Asked(Question(pkt))
<1> DEFINE q == decode_question(pkt, 12)
           n == pdomainname(q.val.name)
           t == q.val.type
           c == q.val.class
<1>1. CASE ~q.ok
  <2>1. Question(pkt) = <<>>
    BY <1>1 DEF Question
  <2> QED
    BY <2>1 DEF Asked
<1>2. CASE q.ok
  <2>1. 12 \in Nat
    OBVIOUS
  <2>2. /\ IsName(n) /\ t \in Short /\ c \in Short
        /\ q.val = [name |-> q.val.name, type |-> t, class |-> c]
    BY <1>2, <2>1, QuestionRead
  <2>3. Question(pkt) = <<[q.val EXCEPT !.name = pdomainname(@)]>>
    BY <1>2 DEF Question
  <2> HIDE DEF q
  <2>4. [q.val EXCEPT !.name = pdomainname(@)] = [name |-> n, type |-> t, class |-> c]
    <3> DEFINE v == q.val
               m == v.name
    <3>1. v = [name |-> m, type |-> t, class |-> c]
      BY <2>2
    <3> HIDE DEF t, c, m, v
    <3>2. [v EXCEPT !.name = pdomainname(@)] = [name |-> pdomainname(m), type |-> t, class |-> c]
      BY <3>1
    <3> QED
      BY <3>2 DEF v, m
  <2> QED
    BY <2>2, <2>3, <2>4 DEF Asked
<1> QED
  BY <1>1, <1>2

(* A server may change the case of a question. *)
LEMMA LowerAsked ==
  ASSUME NEW s, Asked(s)
  PROVE  Asked([i \in DOMAIN s |-> [s[i] EXCEPT !.name = Lower(@)]])
<1> DEFINE lower == [i \in DOMAIN s |-> [s[i] EXCEPT !.name = Lower(@)]]
<1>1. CASE s = <<>>
  <2>1. lower = <<>>
    BY <1>1
  <2> QED
    BY <2>1 DEF Asked
<1>2. CASE s # <<>>
  <2>1. PICK n, t, c : /\ IsName(n) /\ t \in Short /\ c \in Short
                       /\ s = <<[name |-> n, type |-> t, class |-> c]>>
    BY <1>2 DEF Asked
  <2> DEFINE l == Lower(n)
             q == [name |-> n, type |-> t, class |-> c]
             p == [name |-> l, type |-> t, class |-> c]
  <2>2. IsName(l)
    BY <2>1, LowerName
  <2>3. [q EXCEPT !.name = Lower(@)] = p
    OBVIOUS
  <2>4. lower = <<p>>
    <3>1. s = <<q>>
      BY <2>1
    <3> HIDE DEF p, q
    <3>2. DOMAIN s = 1..1 /\ s[1] = q
      BY <3>1
    <3> QED
      BY <2>3, <3>2
  <2> QED
    BY <2>1, <2>2, <2>4 DEF Asked
<1> QED
  BY <1>1, <1>2

(* What a server answers to a question can be written. *)
LEMMA MessageIs ==
  ASSUME NEW a \in Answers, NEW s, Asked(s), NEW tc \in BOOLEAN, NEW i \in Short
  PROVE  IsMessage(Message(a, s, tc, i))
<1> DEFINE m == Message(a, s, tc, i)
           question == IF a.minimal THEN <<>> ELSE s
           sections == IF tc THEN <<<<>>, <<>>, <<>>>> ELSE a.sections
<1>1. a.rcode \in 0..15 /\ a.sections \in [1..3 -> Seq(Records)]
  BY AnswersAssumption
<1>2. \/ question = <<>>
      \/ question = <<question[1]>> /\ IsQuestion(question[1])
  BY AskedIs
<1>3. sections \in [1..3 -> Seq(Records)]
  <2> DEFINE S == Seq(Records)
  <2>1. <<>> \in S
    OBVIOUS
  <2> HIDE DEF S
  <2>2. <<<<>>, <<>>, <<>>>> \in [1..3 -> S]
    BY <2>1
  <2> QED
    BY <1>1, <2>2 DEF S
<1>4. m = [id |-> i, tc |-> tc, rcode |-> a.rcode, question |-> question,
           sections |-> sections]
  BY DEF Message
<1> HIDE DEF m, question, sections
<1>5. /\ m.id = i /\ m.tc = tc /\ m.rcode = a.rcode
      /\ m.question = question /\ m.sections = sections
  BY <1>4
<1>6. IsMessage(m)
  BY <1>1, <1>2, <1>3, <1>5 DEF IsMessage
<1> QED
  BY <1>6 DEF m

(* Whatever the request, what the server sends can be written. *)
LEMMA MessagesAre ==
  ASSUME request \in Seq(Octet), id \in Short, NEW tcs \in SUBSET BOOLEAN,
         NEW m \in Messages(tcs)
  PROVE  IsMessage(m)
<1> DEFINE q == Question(request)
           lower == [i \in DOMAIN q |-> [q[i] EXCEPT !.name = Lower(@)]]
<1>1. Asked(q)
  BY QuestionAsked
<1> HIDE DEF q
<1>2. Asked(lower)
  BY <1>1, LowerAsked
<1>3. PICK a \in Answers, name \in {q, lower}, tc \in tcs : m = Message(a, name, tc, id)
  BY DEF Messages, q
<1>4. Asked(name) /\ tc \in BOOLEAN
  BY <1>1, <1>2
<1> QED
  BY <1>3, <1>4, MessageIs

-----------------------------------------------------------------------------
(* The command line. *)

(* A set of numbers has a least one. *)
LEMMA Least ==
  ASSUME NEW S \in SUBSET Nat, S # {}
  PROVE  /\ (CHOOSE i \in S : \A k \in S : i <= k) \in S
         /\ \A k \in S : (CHOOSE i \in S : \A j \in S : i <= j) <= k
<1> DEFINE R == OpToRel(<, Nat)
<1>1. IsWellFoundedOn(R, Nat)
  BY NatLessThanWellFounded
<1>2. \A a, b \in Nat : a < b => <<a, b>> \in R
  BY DEF OpToRel
<1> HIDE DEF R
<1>3. PICK m \in S : \A k \in S : ~(<<k, m>> \in R)
  BY <1>1, WFMin
<1>4. ASSUME NEW k \in S
      PROVE  m <= k
  <2>1. m \in Nat /\ k \in Nat
    OBVIOUS
  <2>2. ~(k < m)
    BY <1>2, <1>3, <2>1
  <2> QED
    BY <2>1, <2>2
<1> QED
  BY <1>3, <1>4

(* A name as qname holds it, which may have an empty label. *)
Typed(name) ==
  Pieces(name) /\ Len(name) > 1 /\ name[Len(name)] = <<>>

(* parse_args ends a name with a dot if it has none. *)
LEMMA DottedIs ==
  ASSUME NEW text \in Seq(Seq(Octet)), text # <<>>,
         \A i \in DOMAIN text : Len(text[i]) < 192
  PROVE  Typed(Dotted(text))
<1> DEFINE n == Len(text)
           last == Last(text)
           longer == Append(text, <<>>)
<1>1. /\ n \in Nat /\ n > 0 /\ DOMAIN text = 1..n
      /\ \A i \in 1..n : text[i] \in Seq(Octet)
  BY LenProperties, ElementOfSeq, EmptySeq
<1>2. last = text[n]
  BY DEF Last
<1> HIDE DEF n
<1>3. \A i \in 1..n : Len(text[i]) < 192
  BY <1>1
<1>4. CASE n > 1 /\ last = <<>>
  <2>1. Dotted(text) = text
    BY <1>4 DEF Dotted, n
  <2> QED
    BY <1>2, <1>3, <1>4, <2>1 DEF Typed, Pieces, n
<1>5. CASE ~(n > 1 /\ last = <<>>)
  <2>1. Dotted(text) = longer
    BY <1>5 DEF Dotted, n
  <2>2. /\ longer \in Seq(Seq(Octet)) /\ Len(longer) = n + 1
        /\ \A i \in 1..n : longer[i] = text[i]
        /\ longer[n + 1] = <<>>
    <3> DEFINE S == Seq(Octet)
               e == <<>>
    <3>1. e \in S
      OBVIOUS
    <3> HIDE DEF S, e
    <3>2. /\ Append(text, e) \in Seq(S) /\ Len(Append(text, e)) = Len(text) + 1
          /\ \A i \in 1..Len(text) : Append(text, e)[i] = text[i]
          /\ Append(text, e)[Len(text) + 1] = e
      BY <3>1, AppendProperties DEF S
    <3> QED
      BY <3>2 DEF S, e, n
  <2> HIDE DEF longer
  <2>3. \A i \in 1..(n + 1) : Len(longer[i]) < 192
    <3>1. ASSUME NEW i \in 1..(n + 1)
          PROVE  Len(longer[i]) < 192
      <4>1. i \in 1..n \/ i = n + 1
        BY <1>1
      <4>2. Len(<<>>) = 0
        OBVIOUS
      <4>3. CASE i \in 1..n
        BY <1>3, <2>2, <4>3
      <4>4. CASE i = n + 1
        BY <2>2, <4>2, <4>4
      <4> QED
        BY <4>1, <4>3, <4>4
    <3> QED
      BY <3>1
  <2>4. n + 1 > 1
    BY <1>1
  <2>5. Len(longer) > 1 /\ longer[Len(longer)] = <<>>
    BY <2>2, <2>4
  <2>6. Pieces(longer)
    BY <2>2, <2>3 DEF Pieces
  <2> QED
    BY <2>1, <2>5, <2>6 DEF Typed
<1> QED
  BY <1>4, <1>5

(* Labels of the same lengths as those of a name are a name. *)
LEMMA SameShape ==
  ASSUME NEW p, Typed(p), NEW q, DOMAIN q = DOMAIN p, q = [i \in DOMAIN q |-> q[i]],
         \A i \in DOMAIN p : q[i] \in Seq(Octet) /\ Len(q[i]) = Len(p[i])
  PROVE  Typed(q)
<1> DEFINE n == Len(p)
           S == Seq(Octet)
<1>1. /\ n \in Nat /\ n > 1 /\ DOMAIN p = 1..n
      /\ \A i \in 1..n : Len(p[i]) < 192
      /\ p[n] = <<>>
  BY LenProperties DEF Typed, Pieces
<1> HIDE DEF n, S
<1>2. q \in [1..n -> S]
  BY <1>1 DEF S
<1>3. q \in Seq(S)
  BY <1>1, <1>2, SeqDef
<1>4. Len(q) = n
  BY <1>1, <1>2, <1>3, LenProperties
<1>5. n \in 1..n
  BY <1>1
<1>6. q[n] \in Seq(Octet) /\ Len(q[n]) = 0
  BY <1>1, <1>5
<1>7. q[n] = <<>>
  BY <1>6, EmptySeq
<1>8. Pieces(q)
  BY <1>1, <1>3, <1>4 DEF Pieces, S
<1> QED
  BY <1>1, <1>4, <1>7, <1>8 DEF Typed

(* randomize_case keeps the lengths of the labels. *)
LEMMA CasedIs ==
  ASSUME NEW text, Typed(text), NEW q \in Cased(text)
  PROVE  Typed(q)
<1> DEFINE flips == {x \in (DOMAIN text) \X (1..3) :
                       x[2] \in DOMAIN text[x[1]] /\ IsLetter(text[x[1]][x[2]])}
           flip(c) == IF c < 97 THEN c + 32 ELSE c - 32
<1>1. PICK F \in SUBSET flips :
        q = [i \in DOMAIN text |->
               [k \in DOMAIN text[i] |-> IF <<i, k>> \in F THEN flip(text[i][k])
                                         ELSE text[i][k]]]
  BY DEF Cased
<1>2. \A i, k : <<i, k>> \in F => IsLetter(text[i][k])
  OBVIOUS
<1>3. \A c : IsLetter(c) => flip(c) \in Octet
  <2>1. ASSUME NEW c, IsLetter(c)
        PROVE  flip(c) \in Octet
    <3>1. CASE c \in 65..90
      <4>1. c + 32 \in Nat /\ c + 32 < 256 /\ c < 97
        BY <3>1
      <4> QED
        BY <4>1, OctetIs
    <3>2. CASE c \in 97..122
      <4>1. c - 32 \in Nat /\ c - 32 < 256 /\ ~(c < 97)
        BY <3>2
      <4> QED
        BY <4>1, OctetIs
    <3> QED
      BY <2>1, <3>1, <3>2 DEF IsLetter
  <2> QED
    BY <2>1
<1> HIDE DEF flips, flip
<1>4. /\ DOMAIN text = 1..Len(text) /\ Len(text) \in Nat
      /\ \A i \in DOMAIN text : text[i] \in Seq(Octet)
  BY LenProperties, ElementOfSeq DEF Typed, Pieces
<1>5. ASSUME NEW i \in DOMAIN text
      PROVE  q[i] \in Seq(Octet) /\ Len(q[i]) = Len(text[i])
  <2> DEFINE s == text[i]
             t == [k \in DOMAIN s |-> IF <<i, k>> \in F THEN flip(s[k]) ELSE s[k]]
             n == Len(s)
  <2>1. q[i] = t
    BY <1>1
  <2>2. s \in Seq(Octet)
    BY <1>4
  <2>3. n \in Nat /\ DOMAIN s = 1..n /\ \A k \in 1..n : s[k] \in Octet
    BY <2>2, LenProperties, ElementOfSeq
  <2>4. \A k : <<i, k>> \in F => flip(s[k]) \in Octet
    BY <1>2, <1>3
  <2> HIDE DEF s, n
  <2>5. t \in [1..n -> Octet]
    BY <2>3, <2>4
  <2> HIDE DEF t
  <2>6. t \in Seq(Octet)
    BY <2>3, <2>5, SeqDef
  <2>7. Len(t) = n
    BY <2>3, <2>5, <2>6, LenProperties
  <2> QED
    BY <2>1, <2>6, <2>7 DEF n, s
<1>6. DOMAIN q = DOMAIN text /\ q = [i \in DOMAIN q |-> q[i]]
  <2> DEFINE row(i) == [k \in DOMAIN text[i] |-> IF <<i, k>> \in F THEN flip(text[i][k])
                                                 ELSE text[i][k]]
  <2>1. q = [i \in DOMAIN text |-> row(i)]
    BY <1>1
  <2> HIDE DEF row
  <2> QED
    BY <2>1
<1> QED
  BY <1>5, <1>6, SameShape

(* What parse_args makes of any command line has its type. *)
LEMMA LineIs ==
  ASSUME NEW line \in CommandLines
  PROVE  /\ OptionsOf(line) \subseteq OptionNames
         /\ line # <<>> => Typed(Dotted(line[NameAt(line)].text))
         /\ \A i : ValueAt(line, i, 1) \in Short
<1> DEFINE n == Len(line)
           words == {i \in DOMAIN line : line[i].opt = ""}
           at == NameAt(line)
<1>1. /\ n \in Nat /\ DOMAIN line = 1..n
      /\ \A i \in 1..n : IsArgument(line[i])
  BY ArgumentsAssumption, LenProperties
<1>2. line # <<>> => n > 0
  <2> DEFINE S == Range(line)
  <2>1. line \in Seq(S)
    BY ArgumentsAssumption
  <2> HIDE DEF S
  <2> QED
    BY <1>1, <2>1, EmptySeq
<1> HIDE DEF n, at
<1>3. at \in 0..n /\ (n > 0 => at \in 1..n)
  <2>1. CASE words = {}
    <3>1. at = n
      BY <2>1 DEF NameAt, at, n
    <3> QED
      BY <1>1, <3>1
  <2>2. CASE words # {}
    <3>1. at = CHOOSE i \in words : \A k \in words : i <= k
      BY <2>2 DEF NameAt, at
    <3>2. words \in SUBSET Nat /\ words \subseteq 1..n
      <4>1. DOMAIN line = 1..n /\ 1..n \subseteq Nat
        BY <1>1
      <4>2. words \subseteq DOMAIN line
        OBVIOUS
      <4> HIDE DEF words
      <4> QED
        BY <4>1, <4>2
    <3> HIDE DEF words
    <3>3. at \in words
      BY <2>2, <3>1, <3>2, Least
    <3> QED
      BY <1>1, <3>2, <3>3
  <2> QED
    BY <2>1, <2>2
<1>4. OptionsOf(line) \subseteq OptionNames
  <2>1. \A i \in 1..at : i \in 1..n
    BY <1>1, <1>3
  <2>2. \A i \in 1..at : line[i].opt \in OptionNames \cup {""}
    BY <1>1, <2>1 DEF IsArgument
  <2> QED
    BY <2>2 DEF OptionsOf, at
<1>5. line # <<>> => Typed(Dotted(line[at].text))
  <2> SUFFICES ASSUME line # <<>> PROVE Typed(Dotted(line[at].text))
    OBVIOUS
  <2>1. IsArgument(line[at])
    BY <1>1, <1>2, <1>3 DEF n
  <2> DEFINE text == line[at].text
  <2>2. text \in Seq(Seq(Octet)) /\ text # <<>> /\ \A i \in DOMAIN text : Len(text[i]) < 192
    BY <2>1 DEF IsArgument
  <2> HIDE DEF text
  <2>3. Typed(Dotted(text))
    BY <2>2, DottedIs
  <2> QED
    BY <2>3 DEF text
<1>6. \A i : ValueAt(line, i, 1) \in Short
  <2>1. ASSUME NEW i
        PROVE  ValueAt(line, i, 1) \in Short
    <3>1. CASE i \in DOMAIN line
      <4>1. IsArgument(line[i])
        BY <1>1, <3>1
      <4> QED
        BY <3>1, <4>1 DEF ValueAt, IsArgument
    <3>2. CASE i \notin DOMAIN line
      <4>1. 1 \in Short
        BY OctetIs
      <4> QED
        BY <3>2, <4>1 DEF ValueAt
    <3> QED
      BY <3>1, <3>2
  <2> QED
    BY <2>1
<1> QED
  BY <1>4, <1>5, <1>6 DEF at

-----------------------------------------------------------------------------
(* The inductive invariant.  A query is what the command line says; no     *)
(* more requests and answers are on their way than there were waits; what  *)
(* is about to be printed is a message, or the beginning of one; and what  *)
(* has been compared without a warning is the question of that message.    *)

QueryInv ==
  /\ options \subseteq OptionNames /\ Typed(qname)
  /\ qtype \in Short /\ qclass \in Short /\ id \in Short
  /\ request = mk_request(qname, qtype, qclass, id, options)

Sends == (Retries - retries) + (IF phase = "wait" THEN 1 ELSE 0)

NetworkInv ==
  /\ retries \in 0..Retries /\ asked \in Nat
  /\ IsFiniteSet(replies) /\ \A m \in replies : IsMessage(m)
  /\ IF phase \in {"udp", "wait"}
       THEN /\ retries > 0 /\ asked <= Sends
            /\ asked + Cardinality(replies) <= Sends + 1
       ELSE asked = 0 /\ replies = {}

AnswerInv ==
  /\ phase \in Final \cup {"udp", "wait", "connect", "recv", "question", "records"}
  /\ cut \in BOOLEAN /\ warned \in BOOLEAN
  /\ offset \in Nat /\ left \in [1..4 -> Nat]
  /\ phase \in {"question", "records"} => responsepkt \in Seq(Octet)
  /\ phase = "question" =>
       /\ IsMessage(sent) /\ Has(responsepkt, 0, Encode(sent))
       /\ offset = 12 /\ left[1] = Len(sent.question)

Answered ==
  (phase \in {"records", "done"} /\ ~warned) =>
    /\ Len(sent.question) = 1
    /\ domain_name_match(sent.question[1].name, qname, "+0x20" \in options)
    /\ sent.question[1].type = qtype /\ sent.question[1].class = qclass

Inv == QueryInv /\ NetworkInv /\ AnswerInv /\ Answered

(* The root is the name of a command line without one. *)
LEMMA RootTyped == Typed(Root)
<1>1. Root \in Seq(Seq(Octet)) /\ Len(Root) = 2 /\ Root[1] = <<>> /\ Root[2] = <<>>
  BY DEF Root
<1>2. Len(<<>>) = 0 /\ \A i \in 1..2 : i = 1 \/ i = 2
  OBVIOUS
<1>3. \A i \in 1..2 : Len(Root[i]) < 192
  BY <1>1, <1>2
<1> QED
  BY <1>1, <1>3 DEF Typed, Pieces

(* What the command line says is a query, and nothing is on its way. *)
LEMMA InitInv == Init => Inv
<1> SUFFICES ASSUME Init PROVE Inv
  OBVIOUS
<1>1. PICK line \in CommandLines :
        LET n == NameAt(line)
            walk == "+walk" \in OptionsOf(line)
            bad == line = <<>> \/ "-h" \in OptionsOf(line)
            text == IF bad THEN Root ELSE Dotted(line[n].text)
        IN /\ options = OptionsOf(line)
           /\ qname \in IF "+0x20" \in options THEN Cased(text) ELSE {text}
           /\ qtype = IF walk THEN 1 ELSE ValueAt(line, n + 1, 1)
           /\ qclass = IF walk THEN 1 ELSE ValueAt(line, n + 2, 1)
           /\ phase = IF bad \/ qtype = 0 \/ qclass = 0 THEN "usage"
                      ELSE IF walk THEN "walk"
                      ELSE IF qtype = 252 THEN "axfr"
                      ELSE IF "+tcp" \in options THEN "connect"
                      ELSE "udp"
  BY DEF Init
<1> DEFINE n == NameAt(line)
           bad == line = <<>> \/ "-h" \in OptionsOf(line)
           text == IF bad THEN Root ELSE Dotted(line[n].text)
<1>2. /\ OptionsOf(line) \subseteq OptionNames
      /\ line # <<>> => Typed(Dotted(line[n].text))
      /\ \A i : ValueAt(line, i, 1) \in Short
  BY LineIs
<1>3. Typed(text)
  BY <1>2, RootTyped
<1>4. qname \in Cased(text) \/ qname = text
  BY <1>1
<1>5. phase \in {"usage", "walk", "axfr", "connect", "udp"}
  BY <1>1
<1>6. options \subseteq OptionNames
  BY <1>1, <1>2
<1>7. qtype \in Short /\ qclass \in Short
  <2>1. 1 \in Short
    BY OctetIs
  <2> QED
    BY <1>1, <1>2, <2>1
<1> HIDE DEF text
<1>8. Typed(qname)
  BY <1>3, <1>4, CasedIs
<1>9. QueryInv
  BY <1>6, <1>7, <1>8, IdsAssumption DEF QueryInv, Init
<1>10. NetworkInv
  <2>1. /\ retries = Retries /\ asked = 0 /\ replies = {}
        /\ Retries \in Nat /\ Retries > 0
    BY RetriesAssumption DEF Init
  <2>2. IsFiniteSet(replies) /\ Cardinality(replies) = 0
    BY <2>1, FS_EmptySet
  <2>3. phase # "wait"
    BY <1>5
  <2> QED
    BY <2>1, <2>2, <2>3 DEF NetworkInv, Sends
<1>11. AnswerInv
  <2>1. left = <<0, 0, 0, 0>> /\ offset = 0 /\ cut = FALSE /\ warned = FALSE
    BY DEF Init
  <2>2. left \in [1..4 -> Nat]
    BY <2>1
  <2>3. /\ phase \in Final \cup {"udp", "wait", "connect", "recv", "question", "records"}
        /\ phase \notin {"question", "records"}
    BY <1>5 DEF Final
  <2> QED
    BY <2>1, <2>2, <2>3 DEF AnswerInv
<1>12. Answered
  BY <1>5 DEF Answered
<1> QED
  BY <1>9, <1>10, <1>11, <1>12 DEF Inv

-----------------------------------------------------------------------------
(* The steps. *)

(* The query does not change. *)
LEMMA QueryStep == QueryInv /\ UNCHANGED query => QueryInv'
BY DEF QueryInv, query

(* A request is a sequence of octets. *)
LEMMA RequestOctets == QueryInv => request \in Seq(Octet)
<1> SUFFICES ASSUME QueryInv PROVE request \in Seq(Octet)
  OBVIOUS
<1>1. /\ Pieces(qname) /\ qtype \in Short /\ qclass \in Short /\ id \in Short
      /\ request = mk_request(qname, qtype, qclass, id, options)
  BY DEF QueryInv, Typed
<1>2. mk_request(qname, qtype, qclass, id, options) \in Seq(Octet)
  BY <1>1, RequestHas
<1> QED
  BY <1>1, <1>2

(* What the server may send at any time can be written. *)
LEMMA SentIs ==
  ASSUME QueryInv, NEW tcs \in SUBSET BOOLEAN, NEW m \in Messages(tcs)
  PROVE  IsMessage(m)
<1>1. request \in Seq(Octet) /\ id \in Short
  BY RequestOctets DEF QueryInv
<1> QED
  BY <1>1, MessagesAre

(* The four counts of a header. *)
LEMMA Four ==
  ASSUME NEW x \in Nat, NEW a \in Nat, NEW b \in Nat, NEW c \in Nat
  PROVE  <<x>> \o <<a, b, c>> \in [1..4 -> Nat] /\ (<<x>> \o <<a, b, c>>)[1] = x
<1> DEFINE s == <<x>>
           t == <<a, b, c>>
           w == s \o t
<1>1. s \in Seq(Nat) /\ Len(s) = 1 /\ s[1] = x /\ t \in Seq(Nat) /\ Len(t) = 3
  OBVIOUS
<1> HIDE DEF s, t
<1>2. /\ w \in Seq(Nat) /\ Len(w) = Len(s) + Len(t)
      /\ \A i \in 1..(Len(s) + Len(t)) :
           w[i] = IF i <= Len(s) THEN s[i] ELSE t[i - Len(s)]
  BY <1>1, ConcatProperties
<1>3. Len(w) = 4 /\ w[1] = x
  BY <1>1, <1>2
<1> HIDE DEF w
<1>4. w \in [1..4 -> Nat]
  <2>1. DOMAIN w = 1..4 /\ w = [i \in 1..4 |-> w[i]] /\ \A i \in 1..4 : w[i] \in Nat
    BY <1>2, <1>3, LenProperties, ElementOfSeq
  <2> QED
    BY <2>1
<1> QED
  BY <1>3, <1>4 DEF w, s, t

(* What has come is the message, or the beginning of one. *)
LEMMA Whole ==
  ASSUME NEW s \in Seq(Octet)
  PROVE  Has(s, 0, s)
<1>1. \A k \in 1..Len(s) : 0 + k = k
  BY LenProperties
<1> QED
  BY <1>1 DEF Has

(* What a recv returns is the beginning of what was sent. *)
LEMMA Part ==
  ASSUME NEW s \in Seq(Octet), NEW k \in 0..(Len(s) - 1)
  PROVE  Slice(s, 0, k) \in Seq(Octet) /\ Has(Slice(s, 0, k), 0, s)
<1> DEFINE p == Slice(s, 0, k)
           n == Len(s)
<1>1. n \in Nat /\ k \in Nat /\ 0 \in Nat /\ 0 <= k /\ k <= n
  BY LenProperties
<1>2. p \in Seq(Octet) /\ Len(p) = k - 0 /\ \A i \in 1..(k - 0) : p[i] = s[0 + i]
  BY <1>1, SliceIs
<1> HIDE DEF p, n
<1>3. ASSUME NEW j \in 1..n, 0 + j <= Len(p)
      PROVE  p[0 + j] = s[j]
  <2>1. j \in 1..(k - 0) /\ 0 + j = j
    BY <1>1, <1>2, <1>3
  <2> QED
    BY <1>2, <2>1
<1>4. Has(p, 0, s)
  BY <1>3 DEF Has, n
<1> QED
  BY <1>2, <1>4 DEF p

(* Once a header has been read, what is to be printed is a message, or the *)
(* beginning of one, from its question on.                                 *)
LEMMA GotIs ==
  ASSUME AnswerInv, NEW m, IsMessage(m), NEW pkt \in Seq(Octet),
         Has(pkt, 0, Encode(m)), NEW missing \in BOOLEAN,
         Got(m, pkt, missing)
  PROVE  AnswerInv' /\ phase' \in {"traceback", "error", "connect", "question"}
<1> DEFINE h == decode_header(pkt)
           l == Len(m.question)
<1>1. /\ sent' = m /\ responsepkt' = pkt /\ cut' = missing
      /\ phase' = IF ~h.ok THEN "traceback"
                  ELSE IF h.val.id # id THEN "error"
                  ELSE IF phase = "wait" /\ h.val.tc THEN "connect"
                  ELSE "question"
      /\ IF phase' = "question"
           THEN offset' = h.next /\ left' = <<h.val.qdcount>> \o h.val.counts
           ELSE UNCHANGED <<offset, left>>
      /\ UNCHANGED <<printed, warned>>
  BY DEF Got
<1>2. phase' \in {"traceback", "error", "connect", "question"}
  BY <1>1
<1>3. phase' = "question" => h.ok
  BY <1>1
<1>4. phase' = "question" =>
        offset' = 12 /\ left' \in [1..4 -> Nat] /\ left'[1] = l
  <2> SUFFICES ASSUME phase' = "question"
               PROVE  offset' = 12 /\ left' \in [1..4 -> Nat] /\ left'[1] = l
    OBVIOUS
  <2>1. Holds(pkt, 0, 12)
    BY <1>3, RaisedIs DEF decode_header
  <2> DEFINE x == Unpack(Slice(pkt, 4, 6))
             a == Unpack(Slice(pkt, 6, 8))
             b == Unpack(Slice(pkt, 8, 10))
             c == Unpack(Slice(pkt, 10, 12))
  <2>2. h.next = 12 /\ h.val.qdcount = x /\ h.val.counts = <<a, b, c>>
    BY <2>1, Header
  <2>3. \A at \in {0, 2, 4, 6, 8, 10} : Unpack(Slice(pkt, at, at + 2)) \in Short
    BY <2>1, Header
  <2>4. x \in Short /\ a \in Short /\ b \in Short /\ c \in Short
    <3>1. 4 + 2 = 6 /\ 6 + 2 = 8 /\ 8 + 2 = 10 /\ 10 + 2 = 12
      OBVIOUS
    <3>2. /\ Unpack(Slice(pkt, 4, 4 + 2)) \in Short
          /\ Unpack(Slice(pkt, 6, 6 + 2)) \in Short
          /\ Unpack(Slice(pkt, 8, 8 + 2)) \in Short
          /\ Unpack(Slice(pkt, 10, 10 + 2)) \in Short
      BY <2>3
    <3> QED
      BY <3>1, <3>2
  <2>5. l \in {0, 1} /\ Has(pkt, 4, Pack(2, l))
    BY EncodeHas
  <2>6. x = l
    <3> HIDE DEF l
    <3>1. l \in Short /\ 4 \in Nat
      BY <2>5, OctetIs
    <3>2. 4 + 2 <= Len(pkt) /\ 4 + 2 = 6
      BY <2>1, LenProperties DEF Holds
    <3>3. Unpack(Slice(pkt, 4, 4 + 2)) = l
      BY <2>5, <3>1, <3>2, ShortBack
    <3> QED
      BY <3>2, <3>3
  <2> HIDE DEF h, x, a, b, c, l
  <2>7. left' = <<x>> \o <<a, b, c>> /\ offset' = 12
    BY <1>1, <2>2
  <2>8. x \in Nat /\ a \in Nat /\ b \in Nat /\ c \in Nat
    BY <2>4, OctetIs
  <2>9. <<x>> \o <<a, b, c>> \in [1..4 -> Nat] /\ (<<x>> \o <<a, b, c>>)[1] = x
    BY <2>8, Four
  <2> QED
    BY <2>6, <2>7, <2>9
<1> HIDE DEF h, l
<1>5. offset' \in Nat /\ left' \in [1..4 -> Nat]
  <2>1. CASE phase' = "question"
    BY <1>4, <2>1
  <2>2. CASE phase' # "question"
    BY <1>1, <2>2 DEF AnswerInv
  <2> QED
    BY <2>1, <2>2
<1>6. cut' \in BOOLEAN /\ warned' \in BOOLEAN
  BY <1>1 DEF AnswerInv
<1>7. phase' = "question" =>
        /\ IsMessage(sent') /\ Has(responsepkt', 0, Encode(sent'))
        /\ offset' = 12 /\ left'[1] = Len(sent'.question)
  BY <1>1, <1>4 DEF l
<1>8. phase' \in Final \cup {"udp", "wait", "connect", "recv", "question", "records"}
  BY <1>2 DEF Final
<1>9. responsepkt' \in Seq(Octet)
  BY <1>1
<1>10. AnswerInv'
  BY <1>5, <1>6, <1>7, <1>8, <1>9 DEF AnswerInv
<1> QED
  BY <1>2, <1>10

(* With the socket closed nothing is on its way. *)
LEMMA ClosedIs ==
  ASSUME Closed, phase' \notin {"udp", "wait"}
  PROVE  NetworkInv'
<1>1. /\ retries' = 0 /\ asked' = 0 /\ replies' = {}
      /\ Retries \in Nat /\ Retries > 0
  BY RetriesAssumption DEF Closed
<1>2. IsFiniteSet(replies')
  BY <1>1, FS_EmptySet
<1> QED
  BY <1>1, <1>2 DEF NetworkInv

(* A request more for the wait that begins. *)
LEMMA SendUdpInv ==
  ASSUME Inv, SendUdp
  PROVE  Inv'
<1>1. /\ phase = "udp" /\ phase' = "wait" /\ asked' = asked + 1
      /\ UNCHANGED <<query, retries, replies, received, output>>
  BY DEF SendUdp
<1>2. QueryInv'
  BY <1>1, QueryStep DEF Inv
<1>3. NetworkInv'
  <2>1. /\ retries \in 0..Retries /\ asked \in Nat /\ retries > 0
        /\ IsFiniteSet(replies) /\ \A m \in replies : IsMessage(m)
        /\ asked <= Retries - retries
        /\ asked + Cardinality(replies) <= Retries - retries + 1
    <3>1. /\ retries \in 0..Retries /\ asked \in Nat /\ retries > 0
          /\ IsFiniteSet(replies) /\ \A m \in replies : IsMessage(m)
          /\ asked <= Sends /\ asked + Cardinality(replies) <= Sends + 1
      BY <1>1 DEF Inv, NetworkInv
    <3>2. Sends = Retries - retries
      BY <1>1, <3>1, RetriesAssumption DEF Sends
    <3> QED
      BY <3>1, <3>2
  <2>2. Cardinality(replies) \in Nat /\ Retries \in Nat
    BY <2>1, FS_CardinalityType, RetriesAssumption
  <2> DEFINE c == Cardinality(replies)
  <2>3. Cardinality(replies)' = c
    BY <1>1
  <2> HIDE DEF c
  <2>4. /\ asked' \in Nat /\ asked' <= (Retries - retries) + 1
        /\ asked' + c <= (Retries - retries) + 1 + 1
    BY <1>1, <2>1, <2>2 DEF c
  <2> QED
    BY <1>1, <2>1, <2>3, <2>4 DEF NetworkInv, Sends
<1>4. AnswerInv'
  BY <1>1 DEF Inv, AnswerInv, received, output
<1>5. Answered'
  BY <1>1 DEF Answered
<1> QED
  BY <1>2, <1>3, <1>4, <1>5 DEF Inv

(* The wait that ends is counted by retries. *)
LEMMA TimeoutInv ==
  ASSUME Inv, Timeout
  PROVE  Inv'
<1>1. /\ phase = "wait" /\ phase' = "udp" /\ retries > 1 /\ retries' = retries - 1
      /\ UNCHANGED <<query, network, received, output>>
  BY DEF Timeout
<1>2. QueryInv'
  BY <1>1, QueryStep DEF Inv
<1>3. NetworkInv'
  <2>1. /\ retries \in 0..Retries /\ asked \in Nat
        /\ IsFiniteSet(replies) /\ \A m \in replies : IsMessage(m)
        /\ asked <= Sends
        /\ asked + Cardinality(replies) <= Sends + 1
    BY <1>1 DEF Inv, NetworkInv
  <2>2. Retries \in Nat
    BY RetriesAssumption
  <2>3. /\ retries' \in 0..Retries /\ retries' > 0
        /\ (Retries - retries) + 1 = (Retries - retries') + 0
    BY <1>1, <2>1, <2>2
  <2>4. Sends' = Sends
    BY <1>1, <2>3 DEF Sends
  <2>5. asked' = asked /\ replies' = replies
    BY <1>1 DEF network
  <2> HIDE DEF Sends
  <2> QED
    BY <1>1, <2>1, <2>3, <2>4, <2>5 DEF NetworkInv
<1>4. AnswerInv'
  BY <1>1 DEF Inv, AnswerInv, received, output
<1>5. Answered'
  BY <1>1 DEF Answered
<1> QED
  BY <1>2, <1>3, <1>4, <1>5 DEF Inv

(* The last wait ends: the socket is closed. *)
LEMMA NoResponseInv ==
  ASSUME Inv, NoResponse
  PROVE  Inv'
<1>1. /\ phase' = "error" /\ Closed
      /\ UNCHANGED <<query, received, output>>
  BY DEF NoResponse
<1>2. QueryInv'
  BY <1>1, QueryStep DEF Inv
<1>3. NetworkInv'
  BY <1>1, ClosedIs
<1>4. AnswerInv'
  BY <1>1 DEF Inv, AnswerInv, received, output, Final
<1>5. Answered'
  BY <1>1 DEF Answered
<1> QED
  BY <1>2, <1>3, <1>4, <1>5 DEF Inv

(* A datagram that is received is the octets of its message. *)
LEMMA ReceiveInv ==
  ASSUME Inv, Receive
  PROVE  Inv'
<1>1. phase = "wait" /\ Closed /\ UNCHANGED query
  BY DEF Receive
<1>2. PICK m \in replies : \E pkt \in {Encode(m)} : Got(m, pkt, FALSE)
  BY DEF Receive
<1> DEFINE pkt == Encode(m)
<1>3. Got(m, pkt, FALSE)
  BY <1>2
<1>4. IsMessage(m)
  BY DEF Inv, NetworkInv
<1>5. pkt \in Seq(Octet)
  BY <1>4, EncodeHas
<1>6. Has(pkt, 0, pkt)
  <2> HIDE DEF pkt
  <2> QED
    BY <1>5, Whole
<1>7. AnswerInv' /\ phase' \in {"traceback", "error", "connect", "question"}
  BY <1>3, <1>4, <1>5, <1>6, GotIs DEF Inv
<1>8. QueryInv'
  BY <1>1, QueryStep DEF Inv
<1>9. NetworkInv'
  BY <1>1, <1>7, ClosedIs
<1>10. Answered'
  BY <1>7 DEF Answered
<1> QED
  BY <1>7, <1>8, <1>9, <1>10 DEF Inv

(* Outside of send_request_udp nothing is on its way. *)
LEMMA QuietInv ==
  ASSUME Inv, phase \notin {"udp", "wait"}, phase' \notin {"udp", "wait"},
         UNCHANGED <<retries, network>>
  PROVE  NetworkInv'
BY DEF Inv, NetworkInv, network

(* connect of TCP, which may fail. *)
LEMMA ConnectInv ==
  ASSUME Inv, Connect
  PROVE  Inv'
<1>1. /\ phase = "connect" /\ phase' \in {"recv", "error"}
      /\ UNCHANGED <<query, retries, network, received, output>>
  BY DEF Connect
<1>2. QueryInv'
  BY <1>1, QueryStep DEF Inv
<1>3. NetworkInv'
  BY <1>1, QuietInv
<1>4. AnswerInv'
  BY <1>1 DEF Inv, AnswerInv, received, output, Final
<1>5. Answered'
  BY <1>1 DEF Answered
<1> QED
  BY <1>2, <1>3, <1>4, <1>5 DEF Inv

(* A connection that is reset while recv waits. *)
LEMMA ResetTcpInv ==
  ASSUME Inv, ResetTcp
  PROVE  Inv'
<1>1. /\ phase = "recv" /\ phase' = "error"
      /\ UNCHANGED <<query, retries, network, received, output>>
  BY DEF ResetTcp
<1>2. QueryInv'
  BY <1>1, QueryStep DEF Inv
<1>3. NetworkInv'
  BY <1>1, QuietInv
<1>4. AnswerInv'
  BY <1>1 DEF Inv, AnswerInv, received, output, Final
<1>5. Answered'
  BY <1>1 DEF Answered
<1> QED
  BY <1>2, <1>3, <1>4, <1>5 DEF Inv

(* What one recv returns is the message or a part of it. *)
LEMMA RecvTcpInv ==
  ASSUME Inv, RecvTcp
  PROVE  Inv'
<1>1. phase = "recv" /\ UNCHANGED <<query, retries, network>>
  BY DEF RecvTcp
<1>2. PICK m \in Messages({FALSE}) : \E pkt \in {Encode(m)} :
        \/ Got(m, pkt, FALSE)
        \/ \E k \in 0..(Len(pkt) - 1) : \E part \in {Slice(pkt, 0, k)} :
             Got(m, part, TRUE)
  BY DEF RecvTcp
<1> DEFINE pkt == Encode(m)
<1>3. \/ Got(m, pkt, FALSE)
      \/ \E k \in 0..(Len(pkt) - 1) : Got(m, Slice(pkt, 0, k), TRUE)
  BY <1>2
<1>4. {FALSE} \in SUBSET BOOLEAN
  OBVIOUS
<1>5. IsMessage(m)
  BY <1>4, SentIs DEF Inv
<1>6. pkt \in Seq(Octet)
  BY <1>5, EncodeHas
<1>7. AnswerInv' /\ phase' \in {"traceback", "error", "connect", "question"}
  <2>1. CASE Got(m, pkt, FALSE)
    <3>1. Has(pkt, 0, pkt)
      <4> HIDE DEF pkt
      <4> QED
        BY <1>6, Whole
    <3> QED
      BY <1>5, <1>6, <2>1, <3>1, GotIs DEF Inv
  <2>2. CASE \E k \in 0..(Len(pkt) - 1) : Got(m, Slice(pkt, 0, k), TRUE)
    <3>1. PICK k \in 0..(Len(pkt) - 1) : Got(m, Slice(pkt, 0, k), TRUE)
      BY <2>2
    <3> DEFINE part == Slice(pkt, 0, k)
    <3>2. part \in Seq(Octet) /\ Has(part, 0, pkt)
      <4> HIDE DEF pkt
      <4> QED
        BY <1>6, Part
    <3>3. Got(m, part, TRUE)
      BY <3>1
    <3> HIDE DEF part
    <3> QED
      BY <1>5, <3>2, <3>3, GotIs DEF Inv
  <2> QED
    BY <1>3, <2>1, <2>2
<1>8. QueryInv'
  BY <1>1, QueryStep DEF Inv
<1>9. NetworkInv'
  BY <1>1, <1>7, QuietInv
<1>10. Answered'
  BY <1>7 DEF Answered
<1> QED
  BY <1>7, <1>8, <1>9, <1>10 DEF Inv

(* An answer takes the place of the request on its way. *)
LEMMA ServeInv ==
  ASSUME Inv, Serve
  PROVE  Inv'
<1>1. /\ phase \in {"udp", "wait"} /\ asked > 0 /\ asked' = asked - 1
      /\ UNCHANGED <<query, phase, retries, received, output>>
  BY DEF Serve
<1>2. PICK m \in Messages({TRUE, FALSE}) : replies' = replies \cup {m}
  BY DEF Serve
<1>3. {TRUE, FALSE} \in SUBSET BOOLEAN
  OBVIOUS
<1>4. IsMessage(m)
  BY <1>3, SentIs DEF Inv
<1>5. QueryInv'
  BY <1>1, QueryStep DEF Inv
<1>6. NetworkInv'
  <2> DEFINE c == Cardinality(replies)
             d == Cardinality(replies \cup {m})
             s == Sends
  <2>1. /\ retries \in 0..Retries /\ asked \in Nat /\ retries > 0
        /\ IsFiniteSet(replies) /\ \A x \in replies : IsMessage(x)
        /\ asked <= s /\ asked + c <= s + 1
    BY <1>1 DEF Inv, NetworkInv
  <2>2. IsFiniteSet(replies \cup {m}) /\ (d = c \/ d = c + 1) /\ c \in Nat
    BY <2>1, FS_AddElement, FS_CardinalityType
  <2>3. s \in Int /\ Sends' = s
    BY <1>1, <2>1, RetriesAssumption DEF Sends
  <2>4. \A x \in replies' : IsMessage(x)
    BY <1>2, <1>4, <2>1
  <2>5. Cardinality(replies)' = d /\ IsFiniteSet(replies')
    BY <1>2, <2>2
  <2> HIDE DEF c, d, s
  <2>6. asked' \in Nat /\ asked' <= s /\ asked' + d <= s + 1
    BY <1>1, <2>1, <2>2, <2>3
  <2> HIDE DEF Sends
  <2> QED
    BY <1>1, <2>1, <2>3, <2>4, <2>5, <2>6 DEF NetworkInv
<1>7. AnswerInv'
  BY <1>1 DEF Inv, AnswerInv, received, output
<1>8. Answered'
  BY <1>1 DEF Answered
<1> QED
  BY <1>5, <1>6, <1>7, <1>8 DEF Inv

(* An answer to an earlier query is the one datagram more than there are   *)
(* requests.                                                               *)
LEMMA StrayInv ==
  ASSUME Inv, Stray
  PROVE  Inv'
<1>1. /\ phase = "wait" /\ replies = {}
      /\ UNCHANGED <<query, phase, retries, asked, received, output>>
  BY DEF Stray
<1>2. PICK m \in Strays : replies' = {m}
  BY DEF Stray
<1>3. IsMessage(m)
  BY StraysAssumption
<1>4. QueryInv'
  BY <1>1, QueryStep DEF Inv
<1>5. NetworkInv'
  <2> DEFINE s == Sends
  <2>1. retries \in 0..Retries /\ asked \in Nat /\ retries > 0 /\ asked <= s
    BY <1>1 DEF Inv, NetworkInv
  <2>2. s \in Int /\ Sends' = s
    BY <1>1, <2>1, RetriesAssumption DEF Sends
  <2>3. Cardinality(replies)' = 1 /\ IsFiniteSet(replies')
    BY <1>2, FS_Singleton
  <2>4. \A x \in replies' : IsMessage(x)
    BY <1>2, <1>3
  <2> HIDE DEF s
  <2>5. asked' = asked /\ asked <= s /\ asked + 1 <= s + 1
    BY <1>1, <2>1, <2>2
  <2> HIDE DEF Sends
  <2> QED
    BY <1>1, <2>1, <2>2, <2>3, <2>4, <2>5 DEF NetworkInv
<1>6. AnswerInv'
  BY <1>1 DEF Inv, AnswerInv, received, output
<1>7. Answered'
  BY <1>1 DEF Answered
<1> QED
  BY <1>4, <1>5, <1>6, <1>7 DEF Inv

(* The last question has been read: it is that of the message, and what is *)
(* not warned of is a match.                                               *)
LEMMA PrintQuestionInv ==
  ASSUME Inv, PrintQuestion
  PROVE  Inv'
<1> DEFINE q == decode_question(responsepkt, offset)
<1>1. phase = "question" /\ UNCHANGED <<query, retries, network, received>>
  BY DEF PrintQuestion
<1>2. IF left[1] = 0 \/ ~q.ok
        THEN phase' = "traceback" /\ UNCHANGED output
        ELSE /\ offset' = q.next
             /\ left' = [left EXCEPT ![1] = @ - 1]
             /\ IF left[1] > 1
                  THEN UNCHANGED <<phase, warned>>
                  ELSE phase' = "records" /\ warned' = ~Matches(q.val)
             /\ printed' = printed
  BY DEF PrintQuestion
<1>3. QueryInv'
  BY <1>1, QueryStep DEF Inv
<1>4. /\ IsMessage(sent) /\ Has(responsepkt, 0, Encode(sent)) /\ offset = 12
      /\ left[1] = Len(sent.question) /\ responsepkt \in Seq(Octet)
      /\ left \in [1..4 -> Nat]
  BY <1>1 DEF Inv, AnswerInv
<1>5. left[1] \in {0, 1}
  BY <1>4, EncodeHas
<1>6. CASE left[1] = 0 \/ ~q.ok
  <2>1. phase' = "traceback" /\ UNCHANGED output
    BY <1>2, <1>6
  <2>2. NetworkInv'
    BY <1>1, <2>1, QuietInv
  <2>3. AnswerInv'
    BY <1>1, <2>1 DEF Inv, AnswerInv, received, output, Final
  <2>4. Answered'
    BY <2>1 DEF Answered
  <2> QED
    BY <1>3, <2>2, <2>3, <2>4 DEF Inv
<1>7. CASE left[1] # 0 /\ q.ok
  <2>1. left[1] = 1 /\ ~(left[1] > 1)
    BY <1>5, <1>7
  <2>2. /\ offset' = q.next /\ left' = [left EXCEPT ![1] = @ - 1]
        /\ phase' = "records" /\ warned' = ~Matches(q.val)
    BY <1>2, <1>7, <2>1
  <2>3. NetworkInv'
    BY <1>1, <2>2, QuietInv
  <2>4. offset' \in Nat
    <3>1. offset \in Nat
      BY <1>4
    <3> QED
      BY <1>4, <1>7, <2>2, <3>1, QuestionRead
  <2>5. left' \in [1..4 -> Nat]
    BY <1>4, <2>1, <2>2
  <2>6. warned' \in BOOLEAN
    <3>1. Matches(q.val) \in BOOLEAN
      BY DEF Matches
    <3> HIDE DEF q
    <3> QED
      BY <2>2, <3>1
  <2>7. AnswerInv'
    <3>1. phase' \in Final \cup {"udp", "wait", "connect", "recv", "question", "records"}
      BY <2>2
    <3>2. cut' \in BOOLEAN /\ responsepkt' \in Seq(Octet)
      BY <1>1, <1>4 DEF Inv, AnswerInv, received
    <3> QED
      BY <2>2, <2>4, <2>5, <2>6, <3>1, <3>2 DEF AnswerInv
  <2>8. Answered'
    <3> SUFFICES ASSUME ~warned'
                 PROVE  /\ Len(sent.question) = 1
                        /\ domain_name_match(sent.question[1].name, qname, "+0x20" \in options)
                        /\ sent.question[1].type = qtype /\ sent.question[1].class = qclass
      <4>1. sent' = sent /\ qname' = qname /\ options' = options
            /\ qtype' = qtype /\ qclass' = qclass
        BY <1>1 DEF received, query
      <4> QED
        BY <4>1 DEF Answered
    <3> DEFINE s == sent.question[1]
               pkt == responsepkt
               n == s.name
               t == s.type
               c == s.class
               enc == txt2domainname(n)
    <3>1. Matches(q.val)
      BY <2>2
    <3>2. /\ Len(sent.question) = 1 /\ IsQuestion(s)
          /\ Has(pkt, 12, enc) /\ Has(pkt, 12 + Len(enc), Pack(2, t))
          /\ Has(pkt, 12 + Len(enc) + 2, Pack(2, c))
      BY <1>4, <2>1, EncodeHas
    <3>3. IsName(n) /\ t \in Short /\ c \in Short
      BY <3>2 DEF IsQuestion
    <3>4. pkt \in Seq(Octet) /\ 12 \in Nat
      BY <1>4
    <3>5. q = decode_question(pkt, 12)
      BY <1>4
    <3> HIDE DEF q, n, t, c, pkt
    <3>6. decode_question(pkt, 12).ok =>
            /\ pdomainname(decode_question(pkt, 12).val.name) = n
            /\ decode_question(pkt, 12).val.type = t
            /\ decode_question(pkt, 12).val.class = c
      BY <3>2, <3>3, <3>4, QuestionBack
    <3>7. pdomainname(q.val.name) = n /\ q.val.type = t /\ q.val.class = c
      BY <1>7, <3>5, <3>6
    <3>8. domain_name_match(n, qname, "+0x20" \in options) /\ t = qtype /\ c = qclass
      BY <3>1, <3>7 DEF Matches
    <3> QED
      BY <3>2, <3>8 DEF n, t, c
  <2> QED
    BY <1>3, <2>3, <2>7, <2>8 DEF Inv
<1> QED
  BY <1>6, <1>7

(* A record that is printed, or does not decode, leaves the question as it *)
(* was compared.                                                           *)
LEMMA PrintRecordInv ==
  ASSUME Inv, PrintRecord
  PROVE  Inv'
<1> DEFINE rr == decode_rr(responsepkt, offset, "+hex" \in options)
<1>1. phase = "records" /\ UNCHANGED <<query, retries, network, received>>
  BY DEF PrintRecord
<1>2. PICK section \in 2..4 :
        /\ left[section] > 0
        /\ IF rr.ok
             THEN /\ printed' = Append(printed, rr.val)
                  /\ offset' = rr.next
                  /\ left' = [left EXCEPT ![section] = @ - 1]
                  /\ UNCHANGED <<phase, warned>>
             ELSE phase' = "traceback" /\ UNCHANGED output
  BY DEF PrintRecord
<1>3. QueryInv'
  BY <1>1, QueryStep DEF Inv
<1>4. /\ responsepkt \in Seq(Octet) /\ offset \in Nat /\ left \in [1..4 -> Nat]
      /\ warned \in BOOLEAN /\ cut \in BOOLEAN
  BY <1>1 DEF Inv, AnswerInv
<1>5. UNCHANGED <<responsepkt, sent, cut, qname, qtype, qclass, options>>
  BY <1>1 DEF received, query
<1>6. CASE rr.ok
  <2>1. /\ offset' = rr.next /\ left' = [left EXCEPT ![section] = @ - 1]
        /\ phase' = "records" /\ warned' = warned
    BY <1>1, <1>2, <1>6
  <2>2. NetworkInv'
    BY <1>1, <2>1, QuietInv
  <2>3. offset' \in Nat
    BY <1>4, <1>6, <2>1, RecordRead
  <2>4. left' \in [1..4 -> Nat]
    BY <1>2, <1>4, <2>1
  <2>5. phase' \in Final \cup {"udp", "wait", "connect", "recv", "question", "records"}
    BY <2>1
  <2>6. AnswerInv'
    BY <1>4, <1>5, <2>1, <2>3, <2>4, <2>5 DEF AnswerInv
  <2>7. Answered'
    BY <1>1, <1>5, <2>1 DEF Inv, Answered
  <2> QED
    BY <1>3, <2>2, <2>6, <2>7 DEF Inv
<1>7. CASE ~rr.ok
  <2>1. phase' = "traceback" /\ UNCHANGED output
    BY <1>2, <1>7
  <2>2. NetworkInv'
    BY <1>1, <2>1, QuietInv
  <2>3. AnswerInv'
    BY <1>4, <1>5, <2>1 DEF AnswerInv, output, Final
  <2>4. Answered'
    BY <2>1 DEF Answered
  <2> QED
    BY <1>3, <2>2, <2>3, <2>4 DEF Inv
<1> QED
  BY <1>6, <1>7

(* The tool ends with the question as it was compared. *)
LEMMA ExitInv ==
  ASSUME Inv, Exit
  PROVE  Inv'
<1>1. /\ phase = "records" /\ phase' = "done"
      /\ UNCHANGED <<query, retries, network, received, output>>
  BY DEF Exit
<1>2. QueryInv'
  BY <1>1, QueryStep DEF Inv
<1>3. NetworkInv'
  BY <1>1, QuietInv
<1>4. AnswerInv'
  BY <1>1 DEF Inv, AnswerInv, received, output, Final
<1>5. Answered'
  <2>1. UNCHANGED <<sent, qname, qtype, qclass, options, warned>>
    BY <1>1 DEF received, query, output
  <2> QED
    BY <1>1, <2>1 DEF Inv, Answered
<1> QED
  BY <1>2, <1>3, <1>4, <1>5 DEF Inv

(* Inv is inductive. *)
THEOREM Invariance == Spec => []Inv
<1>1. Init => Inv
  BY InitInv
<1>2. Inv /\ [Next]_vars => Inv'
  <2> SUFFICES ASSUME Inv, [Next]_vars PROVE Inv'
    OBVIOUS
  <2>1. CASE SendUdp
    BY <2>1, SendUdpInv
  <2>2. CASE Timeout
    BY <2>2, TimeoutInv
  <2>3. CASE NoResponse
    BY <2>3, NoResponseInv
  <2>4. CASE Receive
    BY <2>4, ReceiveInv
  <2>5. CASE Connect
    BY <2>5, ConnectInv
  <2>6. CASE PrintQuestion
    BY <2>6, PrintQuestionInv
  <2>7. CASE PrintRecord
    BY <2>7, PrintRecordInv
  <2>8. CASE Exit
    BY <2>8, ExitInv
  <2>9. CASE RecvTcp
    BY <2>9, RecvTcpInv
  <2>10. CASE ResetTcp
    BY <2>10, ResetTcpInv
  <2>11. CASE Serve
    BY <2>11, ServeInv
  <2>12. CASE Stray
    BY <2>12, StrayInv
  <2>13. CASE UNCHANGED vars
    BY <2>13 DEF vars, query, network, received, output, Inv, QueryInv,
                 NetworkInv, Sends, AnswerInv, Answered
  <2> QED
    BY <2>1, <2>2, <2>3, <2>4, <2>5, <2>6, <2>7, <2>8, <2>9, <2>10, <2>11,
       <2>12, <2>13 DEF Next, Client
<1> QED
  BY <1>1, <1>2, PTL DEF Spec

-----------------------------------------------------------------------------
(* The properties. *)

(* However requests, answers and timeouts interleave, no more requests and *)
(* answers are on their way than the client has sent, and the counts of    *)
(* what is left to print do not fall below zero.                           *)
THEOREM TypeCorrect == Spec => []TypeOK
<1>1. Inv => TypeOK
  <2> SUFFICES ASSUME Inv PROVE TypeOK
    OBVIOUS
  <2>1. options \subseteq OptionNames
    BY DEF Inv, QueryInv
  <2>2. /\ phase \in Final \cup {"udp", "wait", "connect", "recv", "question", "records"}
        /\ cut \in BOOLEAN /\ warned \in BOOLEAN /\ offset \in Nat
        /\ \A k \in 1..4 : left[k] \in Nat
    BY DEF Inv, AnswerInv
  <2>3. /\ retries \in 0..Retries /\ asked \in 0..Retries
        /\ Cardinality(replies) <= Retries + 1
    <3> DEFINE c == Cardinality(replies)
               s == Sends
    <3>1. /\ retries \in 0..Retries /\ asked \in Nat /\ IsFiniteSet(replies)
          /\ Retries \in Nat
      BY RetriesAssumption DEF Inv, NetworkInv
    <3>2. c \in Nat
      BY <3>1, FS_CardinalityType
    <3>3. CASE phase \in {"udp", "wait"}
      <4>1. retries > 0 /\ asked <= s /\ asked + c <= s + 1
        BY <3>3 DEF Inv, NetworkInv
      <4>2. s \in Int /\ s <= Retries
        BY <3>1, <4>1 DEF Sends
      <4> HIDE DEF c, s
      <4> QED
        BY <3>1, <3>2, <4>1, <4>2 DEF c
    <3>4. CASE phase \notin {"udp", "wait"}
      <4>1. asked = 0 /\ c = 0
        BY <3>4, FS_EmptySet DEF Inv, NetworkInv
      <4> HIDE DEF c
      <4> QED
        BY <3>1, <4>1 DEF c
    <3> QED
      BY <3>3, <3>4
  <2> QED
    BY <2>1, <2>2, <2>3 DEF TypeOK
<1> QED
  BY <1>1, Invariance, PTL

(* mk_request and the decoders are each other's inverse: whatever is typed,*)
(* the tool's own reader reads it of the request, to the last octet, with  *)
(* an OPT record exactly if one was asked for.                             *)
THEOREM RequestIsReadBack == Spec => []RequestReadBack
<1>1. Inv => RequestReadBack
  <2> SUFFICES ASSUME Inv PROVE RequestReadBack
    OBVIOUS
  <2> DEFINE n == Len(qname)
  <2>1. /\ Typed(qname) /\ qtype \in Short /\ qclass \in Short /\ id \in Short
        /\ request = mk_request(qname, qtype, qclass, id, options)
    BY DEF Inv, QueryInv
  <2>2. CASE \E i \in 1..(n - 1) : qname[i] = <<>> /\ qname # Root
    BY <2>2 DEF RequestReadBack
  <2>3. CASE ~ \E i \in 1..(n - 1) : qname[i] = <<>> /\ qname # Root
    <3>1. IsName(qname)
      <4>1. /\ qname \in Seq(Seq(Octet)) /\ n \in Nat /\ n > 1 /\ qname[n] = <<>>
            /\ \A i \in 1..n : Len(qname[i]) < 192 /\ qname[i] \in Seq(Octet)
        BY <2>1, LenProperties, ElementOfSeq DEF Typed, Pieces
      <4>2. ASSUME qname # Root, NEW i \in 1..(n - 1)
            PROVE  Len(qname[i]) \in 1..191
        <5> DEFINE s == qname[i]
                   l == Len(s)
        <5>1. i \in 1..n
          BY <4>1
        <5>2. s \in Seq(Octet) /\ l < 192 /\ s # <<>>
          BY <2>3, <4>1, <4>2, <5>1
        <5> HIDE DEF s
        <5>3. l \in Nat /\ l # 0
          BY <5>2, LenProperties, EmptySeq
        <5> HIDE DEF l
        <5>4. l \in 1..191
          BY <5>2, <5>3
        <5> QED
          BY <5>4 DEF l, s
      <4> QED
        BY <4>1, <4>2 DEF IsName
    <3> DEFINE h == decode_header(request)
               q == decode_question(request, 12)
               opt == decode_rr(request, q.next, FALSE)
               edns == {"+edns0", "+dnssec"} \cap options # {}
    <3>2. /\ h.val.id = id /\ ~h.val.tc /\ h.val.qdcount = 1
          /\ h.val.counts = <<0, 0, IF edns THEN 1 ELSE 0>>
      <4>1. Pieces(qname)
        BY <3>1, NamePieces
      <4> QED
        BY <2>1, <4>1, RequestHas
    <3>3. /\ q.ok /\ pdomainname(q.val.name) = qname
          /\ q.val.type = qtype /\ q.val.class = qclass
          /\ edns => opt.ok /\ opt.val.type = 41 /\ opt.next = Len(request)
          /\ ~edns => q.next = Len(request)
      <4>1. ReadBack(request, qname, qtype, qclass, options)
        BY <2>1, <3>1, RequestBack
      <4> QED
        BY <4>1 DEF ReadBack, Edns
    <3> HIDE DEF h, q, opt, edns
    <3>4. IF edns
            THEN /\ h.val.counts = <<0, 0, 1>>
                 /\ opt.ok /\ opt.val.type = 41 /\ opt.next = Len(request)
            ELSE h.val.counts = <<0, 0, 0>> /\ q.next = Len(request)
      BY <3>2, <3>3
    <3> QED
      BY <3>2, <3>3, <3>4 DEF RequestReadBack, h, q, opt, edns
  <2> QED
    BY <2>2, <2>3
<1> QED
  BY <1>1, Invariance, PTL

(* Whatever the server sends, late, truncated, cut by TCP or left from an  *)
(* earlier query, is printed without the warning only if it answers what   *)
(* was typed.                                                              *)
THEOREM NoneSilent == Spec => []NoSilentMismatch
<1>1. Inv => NoSilentMismatch
  BY DEF Inv, Answered, NoSilentMismatch
<1> QED
  BY <1>1, Invariance, PTL
=============================================================================
