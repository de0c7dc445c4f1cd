-------------------------- MODULE AxfrClient_proofs --------------------------
(***************************************************************************)
(* Theorems about the AXFR client, for answers of any length, any spread   *)
(* of signatures over them and any number of changed messages.             *)
(***************************************************************************)
EXTENDS AxfrClient, TLAPS

(* A signature covers at least its own message. *)
CoversItself == \A k \in DOMAIN inbox : inbox[k].since < k

(* As long as no verification has failed, prior is the last message with a *)
(* signature, all messages up to it are genuine ...                        *)
GenuineToPrior ==
  /\ prior \in 0..(p - 1)
  /\ \A j \in 1..prior : inbox[j].body = j
  /\ \A j \in (prior + 1)..(p - 1) : ~inbox[j].signed

(* ... and the data collected from unsigned messages end with those since. *)
CollectedSincePrior ==
  LET before == Len(unsigned) - (p - 1)
  IN  /\ before + prior >= 0
      /\ \A j \in (prior + 1)..(p - 1) : unsigned[before + j] = inbox[j].body

IInv ==
  /\ TypeOK
  /\ CoversItself
  /\ last <= Len(inbox)
  /\ failure = 0 => GenuineToPrior
  /\ failure = 0 /\ phase # "done" => CollectedSincePrior

USE NAssumption, DamageAssumption DEF NAssumption, DamageAssumption

(* Initially nothing has arrived. *)
LEMMA InitIInv == Init => IInv
  <1> SUFFICES ASSUME Init PROVE IInv
      OBVIOUS
  <1> USE DEF Init
  <1>1. inbox = <<>> /\ Len(inbox) = 0 /\ inbox \in Seq(Messages) /\ DOMAIN inbox = {}
        OBVIOUS
  <1>2. unsigned = <<>> /\ Len(unsigned) = 0 /\ unsigned \in Seq(0..N)
        OBVIOUS
  <1>3. TypeOK
    <2>1. over \in BOOLEAN /\ half \in BOOLEAN
          OBVIOUS
    <2>2. /\ last \in 0..N /\ damages \in 0..MaxDamage
          /\ phase \in {"connect", "recv", "decode", "done", "error"}
          /\ inbox \in Seq(Messages) /\ Len(inbox) \in 0..N
          /\ p \in 1..(Len(inbox) + 1)
          /\ prior \in 0..(N + 1) /\ unsigned \in Seq(0..N)
          /\ success \in 0..N /\ failure \in 0..N /\ success + failure < p
          BY <1>1, <1>2
    <2> QED BY <2>1, <2>2 DEF TypeOK
  <1>4. GenuineToPrior /\ CollectedSincePrior
        BY <1>1, <1>2 DEF GenuineToPrior, CollectedSincePrior
  <1> QED BY <1>1, <1>3, <1>4 DEF IInv, CoversItself

(* An initial stretch of the numbers determines its length. *)
LEMMA UpToInjective ==
  ASSUME NEW a \in Nat, NEW b \in Nat, 1..a = 1..b
  PROVE  a = b
  <1>1. CASE a < b
        BY <1>1, b \in 1..b
  <1>2. CASE b < a
        BY <1>2, a \in 1..a
  <1> QED BY <1>1, <1>2

(* A signature that is found right is one over exactly the messages since  *)
(* the digest before it, each as it was sent.                              *)
LEMMA VerifiedData ==
  ASSUME IInv, Decoding, Verified, failure = 0
  PROVE  \A j \in 1..p : inbox[j].body = j
  <1>0. /\ inbox \in Seq(Messages) /\ p \in 1..Len(inbox)
        /\ prior \in 0..(p - 1)
        BY DEF IInv, TypeOK, Decoding, GenuineToPrior
  <1>1. /\ p \in DOMAIN inbox /\ p \in Nat /\ p > 0
        /\ inbox[p] \in Messages
        /\ prior \in 0..(p - 1) /\ prior = inbox[p].since
        BY <1>0 DEF Verified, m
  <1>2. \A j \in 1..prior : inbox[j].body = j
        BY DEF IInv, GenuineToPrior
  <1>3. InputData = [i \in 1..(p - prior) |-> prior + i]
        BY <1>1 DEF Verified, Covered, m
  <1>4. CASE prior = 0
    <2>1. InputData = <<inbox[p].body>>
          BY <1>4 DEF InputData, m
    <2>2. DOMAIN <<inbox[p].body>> = 1..1
          OBVIOUS
    <2>3. DOMAIN InputData = 1..1 /\ DOMAIN InputData = 1..p
      <3>1. DOMAIN [i \in 1..(p - prior) |-> prior + i] = 1..p
            BY <1>1, <1>4
      <3> QED BY <1>3, <2>1, <2>2, <3>1
    <2>4. p = 1
          BY <1>1, <2>3, UpToInjective
    <2>5. inbox[1].body = 1
          BY <1>3, <1>4, <2>1, <2>4
    <2> QED BY <2>4, <2>5
  <1>5. CASE prior # 0
    <2>1. InputData = Append(unsigned, inbox[p].body)
          BY <1>5 DEF InputData, m
    <2>2. unsigned \in Seq(0..N) /\ inbox[p].body \in 0..N
          BY <1>1 DEF IInv, TypeOK, Messages
    <2>3. /\ DOMAIN Append(unsigned, inbox[p].body) = 1..(Len(unsigned) + 1)
          /\ Append(unsigned, inbox[p].body)[Len(unsigned) + 1] = inbox[p].body
          /\ \A i \in 1..Len(unsigned) :
               Append(unsigned, inbox[p].body)[i] = unsigned[i]
          BY <2>2
    <2>4. 1..(Len(unsigned) + 1) = 1..(p - prior)
          BY <1>3, <2>1, <2>3
    <2>5. Len(unsigned) + 1 = p - prior
          BY <1>1, <2>2, <2>4, UpToInjective
    <2>6. inbox[p].body = p
          BY <1>1, <1>3, <2>1, <2>3, <2>5
    <2>7. ASSUME NEW j \in (prior + 1)..(p - 1)
          PROVE  inbox[j].body = j
      <3>1. unsigned[j - prior] = inbox[j].body
        <4> DEFINE before == Len(unsigned) - (p - 1)
        <4>0. CollectedSincePrior
              BY DEF IInv, Decoding
        <4>1. unsigned[before + j] = inbox[j].body
              BY <4>0 DEF CollectedSincePrior
        <4>2. Len(unsigned) \in Nat
              BY <2>2
        <4>3. p \in Int /\ prior \in Int /\ j \in Int
              BY <1>1
        <4>4. before + j = j - prior
              BY <2>5, <4>2, <4>3
        <4> QED BY <4>1, <4>4
      <3>2. j - prior \in 1..Len(unsigned)
            BY <1>1, <2>2, <2>5
      <3>3. unsigned[j - prior] = prior + (j - prior)
            BY <1>1, <1>3, <2>1, <2>3, <2>5, <3>2
      <3> QED BY <1>1, <3>1, <3>3
    <2> QED BY <1>1, <1>2, <2>6, <2>7
  <1> QED BY <1>4, <1>5

(* The steps that neither decode nor receive a message. *)
LEMMA QuietStep ==
  ASSUME IInv, UNCHANGED <<master, inbox, p, tsig>>,
         phase' \in {"connect", "recv", "decode", "done", "error"},
         half' \in BOOLEAN, phase' # "done" => phase # "done"
  PROVE  IInv'
  <1>1. UNCHANGED <<last, over, damages, inbox, p, prior, unsigned, success, failure>>
        BY DEF master, tsig
  <1>2. TypeOK'
        BY <1>1 DEF IInv, TypeOK
  <1>3. CoversItself' /\ last' <= Len(inbox')
        BY <1>1 DEF IInv, CoversItself
  <1>4. (failure = 0 => GenuineToPrior)'
        BY <1>1 DEF IInv, GenuineToPrior
  <1>5. (failure = 0 /\ phase # "done" => CollectedSincePrior)'
        BY <1>1 DEF IInv, CollectedSincePrior
  <1> QED BY <1>2, <1>3, <1>4, <1>5 DEF IInv

(* What a message can be when it has arrived. *)
LEMMA ArrivesTyped ==
  ASSUME NEW sent \in Messages, NEW arrived \in Arrives(sent)
  PROVE  arrived \in Messages /\ arrived.since = sent.since
  <1>1. CASE arrived = sent
        BY <1>1
  <1>2. CASE arrived = [sent EXCEPT !.body = 0]
        BY <1>2 DEF Messages
  <1>3. CASE arrived = [sent EXCEPT !.intact = FALSE]
        BY <1>3 DEF Messages
  <1>4. CASE arrived = [sent EXCEPT !.known = FALSE]
        BY <1>4 DEF Messages
  <1> QED BY <1>1, <1>2, <1>3, <1>4 DEF Arrives

(* A message arrives behind all that have. *)
LEMMA ReceiveStep ==
  ASSUME IInv, Receive
  PROVE  IInv'
  <1> DEFINE k == Len(inbox) + 1
  <1> USE DEF TypeOK
  <1>1. /\ inbox \in Seq(Messages) /\ k \in 1..N /\ p \in 1..k
        /\ last \in 0..N
        BY DEF IInv, Receive
  <1>2. PICK signed, final, rcode \in BOOLEAN :
          LET sent == [body |-> k, signed |-> signed, since |-> last,
                       intact |-> TRUE, known |-> TRUE, rcode |-> rcode]
          IN  /\ \E arrived \in Arrives(sent) :
                   /\ inbox' = Append(inbox, arrived)
                   /\ damages' = IF arrived = sent THEN damages ELSE damages + 1
              /\ last' = IF signed THEN k ELSE last
              /\ over' = final
        BY DEF Receive
  <1> DEFINE sent == [body |-> k, signed |-> signed, since |-> last,
                      intact |-> TRUE, known |-> TRUE, rcode |-> rcode]
  <1>3. sent \in Messages
        BY <1>1 DEF Messages
  <1>4. PICK arrived \in Arrives(sent) :
          /\ inbox' = Append(inbox, arrived)
          /\ damages' = IF arrived = sent THEN damages ELSE damages + 1
        BY <1>2
  <1>5. arrived \in Messages /\ arrived.since = last
        BY <1>3, <1>4, ArrivesTyped
  <1>6. /\ inbox' \in Seq(Messages) /\ Len(inbox') = k
        /\ inbox'[k] = arrived
        /\ \A j \in 1..Len(inbox) : inbox'[j] = inbox[j]
        BY <1>1, <1>4, <1>5
  <1>7. /\ phase' = phase /\ p' = p /\ prior' = prior /\ unsigned' = unsigned
        /\ success' = success /\ failure' = failure /\ half' = FALSE
        BY DEF Receive, tsig
  <1>8. damages' \in 0..MaxDamage
    <2>1. CASE arrived = sent
          BY <1>4, <2>1 DEF IInv
    <2>2. CASE arrived # sent
      <3>1. damages # MaxDamage
            BY <2>2 DEF Arrives
      <3> QED BY <1>4, <2>2, <3>1 DEF IInv
    <2> QED BY <2>1, <2>2
  <1>9. last' \in 0..k
    <2>1. last' = k \/ last' = last
          BY <1>2
    <2> QED BY <1>1, <2>1 DEF IInv
  <1>10. TypeOK'
    <2>0. half' \in BOOLEAN
          BY <1>7
    <2>1. over' \in BOOLEAN
      <3>1. over' = final /\ final \in BOOLEAN
            BY <1>2
      <3> QED BY <3>1, Zenon
    <2>2. /\ phase' \in {"connect", "recv", "decode", "done", "error"}
          /\ p' \in 1..(Len(inbox') + 1)
          /\ last' \in 0..N
          BY <1>1, <1>6, <1>7, <1>9 DEF IInv
    <2>3. /\ inbox' \in Seq(Messages) /\ Len(inbox') \in 0..N
          /\ prior' \in 0..(N + 1) /\ unsigned' \in Seq(0..N)
          BY <1>1, <1>6, <1>7 DEF IInv
    <2>4. /\ success' \in 0..N /\ failure' \in 0..N
          /\ success' + failure' < p'
          BY <1>7 DEF IInv
    <2> QED BY <1>8, <2>0, <2>1, <2>2, <2>3, <2>4
  <1>11. CoversItself'
    <2>1. \A j \in 1..Len(inbox) : inbox[j].since < j
          BY <1>1 DEF IInv, CoversItself
    <2>2. arrived.since < k
          BY <1>1, <1>5 DEF IInv
    <2>3. DOMAIN inbox' = 1..k
          BY <1>1, <1>6
    <2> QED BY <1>1, <1>6, <2>1, <2>2, <2>3 DEF CoversItself
  <1>12. failure = 0 /\ GenuineToPrior => GenuineToPrior'
    <2>1. SUFFICES ASSUME failure = 0, GenuineToPrior PROVE GenuineToPrior'
          OBVIOUS
    <2>2. \A j \in 1..(p - 1) : inbox'[j] = inbox[j]
          BY <1>1, <1>6
    <2> QED BY <1>1, <1>7, <2>1, <2>2 DEF GenuineToPrior
  <1>13. failure = 0 /\ CollectedSincePrior => CollectedSincePrior'
    <2>1. SUFFICES ASSUME CollectedSincePrior PROVE CollectedSincePrior'
          OBVIOUS
    <2>2. prior \in Nat /\ \A j \in 1..(p - 1) : inbox'[j] = inbox[j]
          BY <1>1, <1>6 DEF IInv
    <2> QED BY <1>1, <1>7, <2>1, <2>2 DEF CollectedSincePrior
  <1> QED BY <1>6, <1>7, <1>9, <1>10, <1>11, <1>12, <1>13 DEF IInv

(* The types after a message that was decoded. *)
LEMMA DecodedTyped ==
  ASSUME IInv, Decoding, UNCHANGED <<master, connection>>,
         p' = p + 1, prior' \in 0..(N + 1), unsigned' \in Seq(0..N),
         \/ success' = success /\ failure' \in {failure, failure + 1}
         \/ success' = success + 1 /\ failure' = failure
  PROVE  /\ TypeOK' /\ CoversItself' /\ last' <= Len(inbox')
         /\ phase' # "done" /\ phase # "done"
  <1>1. UNCHANGED <<last, over, damages, phase, inbox, half>>
        BY DEF master, connection
  <1>2. /\ p \in 1..Len(inbox) /\ Len(inbox) \in 0..N
        /\ success \in 0..N /\ failure \in 0..N /\ success + failure < p
        BY DEF IInv, TypeOK, Decoding
  <1>3. /\ p' \in 1..(Len(inbox) + 1)
        /\ success' \in 0..N /\ failure' \in 0..N /\ success' + failure' < p'
        BY <1>2
  <1>4. TypeOK'
        BY <1>1, <1>3 DEF IInv, TypeOK
  <1>5. CoversItself' /\ last' <= Len(inbox')
        BY <1>1 DEF IInv, CoversItself
  <1> QED BY <1>1, <1>4, <1>5 DEF Decoding

(* A signed message is decoded: if its verification succeeds, the genuine  *)
(* messages reach as far as it does; if not, nothing is claimed any more.  *)
LEMMA SignedStep ==
  ASSUME IInv, DecodeSigned
  PROVE  IInv'
  <1>1. /\ p \in 1..Len(inbox) /\ Len(inbox) \in 0..N /\ p \in Nat
        /\ unsigned \in Seq(0..N) /\ failure \in Nat
        /\ inbox' = inbox /\ p' = p + 1 /\ unsigned' = unsigned /\ Decoding
        BY DEF IInv, TypeOK, DecodeSigned, Decoding, connection
  <1>2. prior' \in 0..(N + 1)
        BY <1>1 DEF DecodeSigned, NextDigest
  <1>3. /\ TypeOK' /\ CoversItself' /\ last' <= Len(inbox')
        /\ phase' # "done" /\ phase # "done"
        BY <1>1, <1>2, DecodedTyped DEF DecodeSigned
  <1>4. ASSUME failure' = 0
        PROVE  GenuineToPrior' /\ CollectedSincePrior'
    <2>1. Verified /\ failure = 0
          BY <1>1, <1>4 DEF DecodeSigned
    <2>2. prior' = p
          BY <2>1 DEF DecodeSigned, NextDigest, Verified
    <2>3. \A j \in 1..p : inbox[j].body = j
          BY <1>1, <2>1, VerifiedData
    <2>4. GenuineToPrior'
          BY <1>1, <2>2, <2>3 DEF GenuineToPrior
    <2>5. Len(unsigned) \in Nat
          BY <1>1
    <2>6. CollectedSincePrior'
          BY <1>1, <2>2, <2>5 DEF CollectedSincePrior
    <2> QED BY <2>4, <2>6
  <1> QED BY <1>3, <1>4 DEF IInv

(* An unsigned message is decoded: it joins the collected data. *)
LEMMA UnsignedStep ==
  ASSUME IInv, DecodeUnsigned
  PROVE  IInv'
  <1>1. /\ p \in 1..Len(inbox) /\ Len(inbox) \in 0..N /\ p \in Nat
        /\ inbox \in Seq(Messages) /\ unsigned \in Seq(0..N)
        /\ inbox' = inbox /\ p' = p + 1 /\ prior' = prior
        /\ success' = success /\ failure' = failure /\ Decoding
        /\ prior \in 0..(N + 1)
        BY DEF IInv, TypeOK, DecodeUnsigned, Decoding, connection
  <1>2. ~inbox[p].signed /\ unsigned' = Append(unsigned, inbox[p].body)
        BY DEF DecodeUnsigned, m
  <1>3. inbox[p].body \in 0..N
    <2>1. inbox[p] \in Messages
          BY <1>1
    <2> QED BY <2>1 DEF Messages
  <1>4. /\ unsigned' \in Seq(0..N) /\ Len(unsigned) \in Nat
        /\ Len(unsigned') = Len(unsigned) + 1
        /\ unsigned'[Len(unsigned) + 1] = inbox[p].body
        /\ \A i \in 1..Len(unsigned) : unsigned'[i] = unsigned[i]
        BY <1>1, <1>2, <1>3
  <1>5. /\ TypeOK' /\ CoversItself' /\ last' <= Len(inbox')
        /\ phase' # "done" /\ phase # "done"
        BY <1>1, <1>4, DecodedTyped DEF DecodeUnsigned
  <1>6. ASSUME failure = 0
        PROVE  GenuineToPrior' /\ CollectedSincePrior'
    <2>1. GenuineToPrior /\ CollectedSincePrior
          BY <1>5, <1>6 DEF IInv
    <2>2. GenuineToPrior'
          BY <1>1, <1>2, <2>1 DEF GenuineToPrior
    <2> DEFINE before == Len(unsigned) - (p - 1)
    <2>3. before \in Int /\ Len(unsigned') - (p' - 1) = before
          BY <1>1, <1>4
    <2>4. before + prior >= 0
          BY <2>1 DEF CollectedSincePrior
    <2>5. ASSUME NEW j \in (prior + 1)..p
          PROVE  unsigned'[before + j] = inbox[j].body
      <3>1. CASE j = p
        <4>1. before + j = Len(unsigned) + 1
              BY <1>1, <1>4, <3>1
        <4> QED BY <1>4, <3>1, <4>1
      <3>2. CASE j # p
        <4>1. j \in (prior + 1)..(p - 1) /\ before + j \in 1..Len(unsigned)
              BY <1>1, <1>4, <2>3, <2>4, <3>2
        <4>2. unsigned[before + j] = inbox[j].body
              BY <2>1, <4>1 DEF CollectedSincePrior
        <4> QED BY <1>4, <4>1, <4>2
      <3> QED BY <3>1, <3>2
    <2>6. CollectedSincePrior'
          BY <1>1, <2>3, <2>4, <2>5 DEF CollectedSincePrior
    <2> QED BY <2>2, <2>6
  <1> QED BY <1>1, <1>5, <1>6 DEF IInv

(* The cut message at the end only adds data that nothing covers. *)
LEMMA HalfStep ==
  ASSUME IInv, DecodeHalf
  PROVE  IInv'
  <1>1. CASE phase' = "error"
    <2>1. UNCHANGED <<master, inbox, p, tsig>> /\ half' = half
          BY <1>1 DEF DecodeHalf, tsig
    <2>2. half' \in BOOLEAN
          BY <2>1 DEF IInv, TypeOK
    <2>3. /\ phase' \in {"connect", "recv", "decode", "done", "error"}
          /\ phase # "done"
          BY <1>1 DEF DecodeHalf
    <2> QED BY <2>1, <2>2, <2>3, QuietStep
  <1>2. CASE phase' # "error"
    <2>1. /\ UNCHANGED <<last, over, damages, inbox, p, prior, success, failure>>
          /\ phase' = "done" /\ half' = FALSE /\ unsigned' = Append(unsigned, 0)
          BY <1>2 DEF DecodeHalf, master
    <2>2. unsigned' \in Seq(0..N)
          BY <2>1 DEF IInv, TypeOK
    <2>3. TypeOK'
          BY <2>1, <2>2 DEF IInv, TypeOK
    <2>4. CoversItself' /\ last' <= Len(inbox')
          BY <2>1 DEF IInv, CoversItself
    <2>5. (failure = 0 => GenuineToPrior)'
          BY <2>1 DEF IInv, GenuineToPrior
    <2> QED BY <2>1, <2>3, <2>4, <2>5 DEF IInv
  <1> QED BY <1>1, <1>2

(* Every step keeps the invariant. *)
LEMMA NextIInv == IInv /\ [Next]_vars => IInv'
  <1> SUFFICES ASSUME IInv, [Next]_vars PROVE IInv'
      OBVIOUS
  <1>1. CASE Connect
        BY <1>1, QuietStep DEF Connect, IInv, TypeOK
  <1>2. CASE Idle
        BY <1>2, QuietStep DEF Idle, IInv, TypeOK
  <1>3. CASE ReceivePart
        BY <1>3, QuietStep DEF ReceivePart, IInv, TypeOK
  <1>4. CASE Receive
        BY <1>4, ReceiveStep
  <1>5. CASE Close
        BY <1>5, QuietStep DEF Close, IInv, TypeOK
  <1>6. CASE DecodeSigned
        BY <1>6, SignedStep
  <1>7. CASE DecodeUnsigned
        BY <1>7, UnsignedStep
  <1>8. CASE DecodeError
        BY <1>8, QuietStep DEF DecodeError, Decoding, IInv, TypeOK
  <1>9. CASE DecodeHalf
        BY <1>9, HalfStep
  <1>10. CASE Report
         BY <1>10, QuietStep DEF Report, IInv, TypeOK
  <1>11. CASE UNCHANGED vars
    <2>1. UNCHANGED <<master, inbox, p, tsig>> /\ phase' = phase /\ half' = half
          BY <1>11 DEF vars, connection
    <2> QED BY <2>1, QuietStep DEF IInv, TypeOK
  <1> QED BY <1>1, <1>2, <1>3, <1>4, <1>5, <1>6, <1>7, <1>8, <1>9, <1>10, <1>11
          DEF Next, Client, Decode, Terminated

(* The invariant holds in every behaviour of the client. *)
LEMMA Invariance == Spec => []IInv
  BY InitIInv, NextIInv, PTL DEF Spec

(* Type correctness of the client, and that every decoded signature has    *)
(* been counted at most once, for answers of any length.                   *)
THEOREM TypeCorrect == Spec => []TypeOK
  <1>1. IInv => TypeOK
        BY DEF IInv
  <1> QED BY <1>1, Invariance, PTL

(* Whatever was changed on the way, and however the master spread its      *)
(* signatures: as long as no verification of verify_tsig has failed, all   *)
(* that the decoded signatures cover is what the master sent.              *)
THEOREM ChangesAreNoticed == Spec => []VerifiedIsGenuine
  <1>1. ASSUME IInv PROVE VerifiedIsGenuine
    <2> SUFFICES ASSUME failure = 0, NEW k \in 1..(p - 1), inbox[k].signed,
                        NEW j \in 1..k
                 PROVE  inbox[j].body = j
        BY DEF VerifiedIsGenuine
    <2>1. GenuineToPrior
          BY <1>1 DEF IInv
    <2>2. p \in Nat /\ prior \in Nat
          BY <1>1 DEF IInv, TypeOK
    <2>3. k <= prior
          BY <2>1, <2>2 DEF GenuineToPrior
    <2> QED BY <2>1, <2>2, <2>3 DEF GenuineToPrior
  <1> QED BY <1>1, Invariance, PTL

-----------------------------------------------------------------------------
(* The other direction: what arrives as it was sent.                       *)

(* The l-th message of s is the last one before the k-th that is signed.   *)
LastSigned(s, l, k) ==
  /\ l \in 0..(k - 1)
  /\ l # 0 => s[l].signed
  /\ \A j \in (l + 1)..(k - 1) : ~s[j].signed

(* The messages are as they were sent, each signature covers what follows  *)
(* the one before, and the first message has one.                          *)
AsSent ==
  /\ \A k \in 1..Len(inbox) : /\ inbox[k].body = k /\ inbox[k].intact
                              /\ LastSigned(inbox, inbox[k].since, k)
  /\ LastSigned(inbox, last, Len(inbox) + 1)
  /\ Len(inbox) > 0 => inbox[1].signed

(* Until a signed message follows an unsigned one, unsigned holds the data *)
(* since the digest before and no others.                                  *)
NothingLeft ==
  (\A j \in 1..prior : inbox[j].signed) =>
    /\ Len(unsigned) = p - 1 - prior
    /\ \A i \in 1..Len(unsigned) : unsigned[i] = prior + i

GInv ==
  damages = 0 =>
    /\ AsSent
    /\ LastSigned(inbox, prior, p)
    /\ phase # "done" => NothingLeft
    /\ NoFalseAlarmOfOne

(* There is one such message. *)
LEMMA LastSignedUnique ==
  ASSUME NEW s, NEW k \in Nat, NEW a, NEW b,
         LastSigned(s, a, k), LastSigned(s, b, k)
  PROVE  a = b
  <1>1. a \in 0..(k - 1) /\ b \in 0..(k - 1)
        BY DEF LastSigned
  <1>2. ~(a < b)
        BY <1>1 DEF LastSigned
  <1>3. ~(b < a)
        BY <1>1 DEF LastSigned
  <1> QED BY <1>1, <1>2, <1>3

(* Initially nothing has been decoded, so that nothing is misjudged.       *)
LEMMA InitGInv == Init => GInv
  BY DEF Init, GInv, AsSent, LastSigned, NothingLeft, NoFalseAlarmOfOne

(* The steps that neither decode a message nor receive one. *)
LEMMA QuietGStep ==
  ASSUME GInv, UNCHANGED <<last, damages, inbox, p, prior, failure>>,
         phase' # "done" => phase # "done" /\ UNCHANGED unsigned
  PROVE  GInv'
  BY DEF GInv, AsSent, LastSigned, NothingLeft, NoFalseAlarmOfOne

(* The master signs the first message. *)
LEMMA ReceiveGStep ==
  ASSUME IInv, GInv, Receive
  PROVE  GInv'
  <1> DEFINE k == Len(inbox) + 1
  <1>1. /\ inbox \in Seq(Messages) /\ k \in 1..N /\ p \in 1..k
        /\ last \in 0..N /\ damages \in Nat /\ prior \in 0..(N + 1)
        BY DEF IInv, Receive, TypeOK
  <1>2. UNCHANGED <<phase, p, prior, unsigned, failure>>
        BY DEF Receive, tsig
  <1> SUFFICES ASSUME damages' = 0 PROVE GInv'
      BY DEF GInv
  <1>3. PICK signed, final, rcode \in BOOLEAN :
          LET sent == [body |-> k, signed |-> signed, since |-> last,
                       intact |-> TRUE, known |-> TRUE, rcode |-> rcode]
          IN  /\ k = 1 => signed
              /\ last' = IF signed THEN k ELSE last
              /\ \E arrived \in Arrives(sent) :
                   /\ inbox' = Append(inbox, arrived)
                   /\ damages' = IF arrived = sent THEN damages ELSE damages + 1
        BY DEF Receive
  <1> DEFINE sent == [body |-> k, signed |-> signed, since |-> last,
                      intact |-> TRUE, known |-> TRUE, rcode |-> rcode]
  <1>4. damages = 0 /\ inbox' = Append(inbox, sent)
    <2>1. PICK arrived \in Arrives(sent) :
            /\ inbox' = Append(inbox, arrived)
            /\ damages' = IF arrived = sent THEN damages ELSE damages + 1
          BY <1>3
    <2> HIDE DEF sent
    <2> QED BY <1>1, <2>1
  <1>5. sent \in Messages
        BY <1>1 DEF Messages
  <1> HIDE DEF sent
  <1>6. /\ Len(inbox') = k /\ inbox'[k] = sent
        /\ \A j \in 1..(k - 1) : inbox'[j] = inbox[j]
        BY <1>1, <1>4, <1>5
  <1>7. /\ sent.body = k /\ sent.intact /\ sent.since = last
        /\ sent.signed = signed
        BY DEF sent
  <1>8. AsSent /\ LastSigned(inbox, prior, p) /\ NoFalseAlarmOfOne
        BY <1>4 DEF GInv
  <1>9. \A l, n \in 0..k : LastSigned(inbox, l, n) => LastSigned(inbox', l, n)
        BY <1>1, <1>6 DEF LastSigned
  <1>10. AsSent'
    <2>1. \A j \in 1..(k - 1) : LastSigned(inbox', inbox'[j].since, j)
      <3> TAKE j \in 1..(k - 1)
      <3>1. LastSigned(inbox, inbox[j].since, j) /\ inbox'[j] = inbox[j]
            BY <1>1, <1>6, <1>8 DEF AsSent
      <3>2. inbox[j].since \in 0..k /\ j \in 0..k
            BY <1>1, <3>1 DEF LastSigned
      <3>3. LastSigned(inbox', inbox[j].since, j)
            BY <1>9, <3>1, <3>2
      <3> QED BY <3>1, <3>3
    <2>2. LastSigned(inbox, last, k)
          BY <1>8 DEF AsSent
    <2>3. LastSigned(inbox', inbox'[k].since, k)
          BY <1>1, <1>6, <1>7, <2>2 DEF LastSigned
    <2>4. LastSigned(inbox', last', k + 1)
      <3>1. CASE signed
            BY <1>1, <1>3, <1>6, <1>7, <3>1 DEF LastSigned
      <3>2. CASE ~signed
            BY <1>1, <1>3, <1>6, <1>7, <2>2, <3>2 DEF LastSigned
      <3> QED BY <3>1, <3>2
    <2>5. inbox'[1].signed
          BY <1>1, <1>3, <1>6, <1>7, <1>8 DEF AsSent
    <2>6. \A j \in 1..k : inbox'[j].body = j /\ inbox'[j].intact
          BY <1>1, <1>6, <1>7, <1>8 DEF AsSent
    <2> QED BY <1>1, <1>6, <2>1, <2>3, <2>4, <2>5, <2>6 DEF AsSent
  <1>11. LastSigned(inbox', prior', p')
         BY <1>1, <1>2, <1>6, <1>8 DEF LastSigned
  <1>12. phase' # "done" => NothingLeft'
         BY <1>1, <1>2, <1>4, <1>6, <1>8 DEF GInv, NothingLeft, LastSigned
  <1>13. NoFalseAlarmOfOne'
         BY <1>1, <1>2, <1>4, <1>6, <1>8 DEF NoFalseAlarmOfOne
  <1> QED BY <1>10, <1>11, <1>12, <1>13 DEF GInv

(* A signature that fails, although nothing was changed, covers an         *)
(* unsigned message from before the digest before it.                      *)
LEMMA SignedGStep ==
  ASSUME IInv, GInv, DecodeSigned
  PROVE  GInv'
  <1> SUFFICES ASSUME damages = 0 PROVE GInv'
      BY DEF GInv, DecodeSigned, master
  <1>1. /\ p \in 1..Len(inbox) /\ Len(inbox) \in 0..N /\ p \in Nat
        /\ unsigned \in Seq(0..N) /\ failure \in Nat
        /\ UNCHANGED <<last, damages, inbox, unsigned, phase>>
        /\ p' = p + 1 /\ phase # "done"
        BY DEF IInv, TypeOK, DecodeSigned, Decoding, connection, master
  <1>2. /\ AsSent /\ LastSigned(inbox, prior, p) /\ NothingLeft /\ NoFalseAlarmOfOne
        /\ prior \in 0..(p - 1)
        BY <1>1 DEF GInv, LastSigned
  <1>3. /\ inbox[p].signed /\ inbox[p].intact /\ inbox[p].body = p
        /\ LastSigned(inbox, inbox[p].since, p) /\ prior' = p
        BY <1>1, <1>2 DEF DecodeSigned, m, AsSent, NextDigest
  <1>4. inbox[p].since = prior
        BY <1>1, <1>2, <1>3, LastSignedUnique
  <1>5. AsSent' /\ LastSigned(inbox', prior', p')
        BY <1>1, <1>2, <1>3 DEF AsSent, LastSigned
  <1>6. NothingLeft'
    <2> SUFFICES ASSUME \A j \in 1..p : inbox[j].signed
                 PROVE  Len(unsigned) = 0
        BY <1>1, <1>3 DEF NothingLeft
    <2>1. prior = p - 1
      <3>1. ~(prior < p - 1)
            BY <1>1, <1>2 DEF LastSigned
      <3> QED BY <1>1, <1>2, <3>1
    <2> QED BY <1>1, <1>2, <2>1 DEF NothingLeft
  <1>7. ASSUME \A j \in 1..prior : inbox[j].signed
        PROVE  Verified
    <2>1. Covered(inbox[p].since, p) = [i \in 1..(p - prior) |-> prior + i]
          BY <1>4 DEF Covered
    <2>2. CASE prior = 0
      <3>1. p = 1
        <4>1. inbox[1].signed
              BY <1>1, <1>2 DEF AsSent
        <4> QED BY <1>1, <1>2, <2>2, <4>1 DEF LastSigned
      <3>2. InputData = <<1>>
            BY <1>3, <2>2, <3>1 DEF InputData, m
      <3>3. [i \in 1..(p - prior) |-> prior + i] = <<1>>
            BY <2>2, <3>1
      <3> QED BY <1>3, <1>4, <2>1, <3>2, <3>3 DEF Verified, m
    <2>3. CASE prior # 0
      <3>1. /\ Len(unsigned) = p - 1 - prior
            /\ \A i \in 1..Len(unsigned) : unsigned[i] = prior + i
            BY <1>2, <1>7 DEF NothingLeft
      <3>2. InputData = Append(unsigned, p)
            BY <1>3, <2>3 DEF InputData, m
      <3>3. p \in 0..N
            BY <1>1
      <3>4. Append(unsigned, p) = [i \in 1..(p - prior) |-> prior + i]
        <4> DEFINE f == Append(unsigned, p)
        <4>1. f \in Seq(0..N) /\ Len(f) = p - prior
              BY <1>1, <1>2, <3>1, <3>3
        <4>2. \A i \in 1..(p - prior) : f[i] = prior + i
              BY <1>1, <1>2, <3>1, <3>3
        <4> HIDE DEF f
        <4>3. DOMAIN f = 1..(p - prior) /\ f = [i \in DOMAIN f |-> f[i]]
              BY <4>1
        <4>4. f = [i \in 1..(p - prior) |-> prior + i]
              BY <4>2, <4>3
        <4> QED BY <4>4 DEF f
      <3> QED BY <1>3, <1>4, <2>1, <3>2, <3>4 DEF Verified, m
    <2> QED BY <2>2, <2>3
  <1>8. NoFalseAlarmOfOne'
    <2>1. CASE Verified
      <3>1. failure' = failure
            BY <2>1 DEF DecodeSigned
      <3> QED BY <1>1, <1>2, <3>1 DEF NoFalseAlarmOfOne
    <2>2. CASE ~Verified
      <3>1. PICK i \in 1..prior : ~inbox[i].signed
            BY <1>7, <2>2
      <3>2. i < prior /\ prior < p /\ inbox[prior].signed
            BY <1>1, <1>2, <3>1 DEF LastSigned
      <3>3. i \in 1..p /\ prior \in 1..p /\ p \in 1..p
            BY <1>1, <1>2, <3>1, <3>2
      <3> QED BY <1>1, <1>3, <3>1, <3>2, <3>3 DEF NoFalseAlarmOfOne
    <2> QED BY <2>1, <2>2
  <1> QED BY <1>5, <1>6, <1>8 DEF GInv

(* An unsigned message joins what has been collected. *)
LEMMA UnsignedGStep ==
  ASSUME IInv, GInv, DecodeUnsigned
  PROVE  GInv'
  <1> SUFFICES ASSUME damages = 0 PROVE GInv'
      BY DEF GInv, DecodeUnsigned, master
  <1>1. /\ p \in 1..Len(inbox) /\ Len(inbox) \in 0..N /\ p \in Nat
        /\ unsigned \in Seq(0..N)
        /\ UNCHANGED <<last, damages, inbox, prior, failure, phase>>
        /\ p' = p + 1 /\ phase # "done"
        BY DEF IInv, TypeOK, DecodeUnsigned, Decoding, connection, master
  <1>2. /\ AsSent /\ LastSigned(inbox, prior, p) /\ NothingLeft /\ NoFalseAlarmOfOne
        /\ prior \in 0..(p - 1)
        BY <1>1 DEF GInv, LastSigned
  <1>3. ~inbox[p].signed /\ unsigned' = Append(unsigned, p)
        BY <1>1, <1>2 DEF DecodeUnsigned, m, AsSent
  <1>4. /\ Len(unsigned') = Len(unsigned) + 1 /\ Len(unsigned) \in Nat
        /\ unsigned'[Len(unsigned) + 1] = p
        /\ \A i \in 1..Len(unsigned) : unsigned'[i] = unsigned[i]
        BY <1>1, <1>3
  <1>5. AsSent' /\ LastSigned(inbox', prior', p')
        BY <1>1, <1>2, <1>3 DEF AsSent, LastSigned
  <1>6. NothingLeft'
    <2> SUFFICES ASSUME \A j \in 1..prior : inbox[j].signed
                 PROVE  /\ Len(unsigned') = p - prior
                        /\ \A i \in 1..Len(unsigned') : unsigned'[i] = prior + i
        BY <1>1, <1>2 DEF NothingLeft
    <2>1. /\ Len(unsigned) = p - 1 - prior
          /\ \A i \in 1..Len(unsigned) : unsigned[i] = prior + i
          BY <1>2 DEF NothingLeft
    <2>2. Len(unsigned') = p - prior
          BY <1>1, <1>2, <1>4, <2>1
    <2>3. ASSUME NEW i \in 1..Len(unsigned')
          PROVE  unsigned'[i] = prior + i
      <3>1. CASE i \in 1..Len(unsigned)
            BY <1>4, <2>1, <3>1
      <3>2. CASE i = Len(unsigned) + 1
            BY <1>1, <1>2, <1>4, <2>1, <3>2
      <3> QED BY <1>4, <3>1, <3>2
    <2> QED BY <2>2, <2>3
  <1>7. NoFalseAlarmOfOne'
        BY <1>1, <1>2 DEF NoFalseAlarmOfOne
  <1> QED BY <1>5, <1>6, <1>7 DEF GInv

(* Every step keeps what is known of the answer: those that decode or      *)
(* receive have a lemma each, the others change nothing of it.             *)
LEMMA NextGInv == IInv /\ GInv /\ [Next]_vars => GInv'
  <1> SUFFICES ASSUME IInv, GInv, [Next]_vars PROVE GInv'
      OBVIOUS
  <1> USE DEF master, tsig, connection
  <1>1. CASE Connect \/ Idle \/ ReceivePart \/ Close \/ DecodeError \/ Report
        BY <1>1, QuietGStep
           DEF Connect, Idle, ReceivePart, Close, DecodeError, Decoding, Report
  <1>2. CASE DecodeHalf
        BY <1>2, QuietGStep DEF DecodeHalf
  <1>3. CASE Receive
        BY <1>3, ReceiveGStep
  <1>4. CASE DecodeSigned
        BY <1>4, SignedGStep
  <1>5. CASE DecodeUnsigned
        BY <1>5, UnsignedGStep
  <1>6. CASE UNCHANGED vars
        BY <1>6, QuietGStep DEF vars
  <1> QED BY <1>1, <1>2, <1>3, <1>4, <1>5, <1>6
          DEF Next, Client, Decode, Terminated

(* If nothing was changed on the way, verify_tsig fails only for a signed  *)
(* message that follows the end of a stretch of unsigned ones, for answers *)
(* of any length and signatures spread over them in any way.               *)
THEOREM AlarmsAreLate == Spec => []NoFalseAlarmOfOne
  <1>1. GInv => NoFalseAlarmOfOne
        BY DEF GInv, NoFalseAlarmOfOne
  <1>2. Init => IInv /\ GInv
        BY InitIInv, InitGInv
  <1>3. (IInv /\ GInv) /\ [Next]_vars => (IInv /\ GInv)'
        BY NextIInv, NextGInv
  <1> QED BY <1>1, <1>2, <1>3, PTL DEF Spec
=============================================================================
