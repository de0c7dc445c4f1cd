----------------------------- MODULE AxfrClient -----------------------------
(***************************************************************************)
(* The AXFR of tools/pydig.py with a TSIG key: do_axfr collects what the   *)
(* master sends on one TCP connection, decode_axfr then prints the answers *)
(* and verifies the signatures.  A signature may cover several messages.   *)
(*                                                                         *)
(* The k-th message carries the data k; 0 is any data that was not sent.   *)
(* A signature is what its holder of the key computed it over: the message *)
(* signed before (0: the request) and the data of all messages since.      *)
(***************************************************************************)
EXTENDS Integers, Sequences

CONSTANTS
  N,            \* bound: messages of an answer
  MaxDamage     \* bound: messages that are changed on their way

ASSUME NAssumption == N \in Nat \ {0}
ASSUME DamageAssumption == MaxDamage \in Nat

VARIABLES
  last,         \* number of the message the master signed last, 0 if none
  over,         \* the master has sent its last message
  damages,      \* messages changed so far
  phase,        \* connect | recv | decode | done | error
  inbox,        \* response: the complete messages received ...
  half,         \* ... and whether a part of another one follows
  p,            \* the message decoded next
  prior,        \* tsig.prior_digest: 0 none, k that of message k, N + 1 other
  unsigned,     \* options["unsigned_messages"], as the data of its messages
  success, failure \* tsig.verify_success, tsig.verify_failure

master == <<last, over, damages>>
connection == <<phase, inbox, half>>
tsig == <<prior, unsigned, success, failure>>
vars == <<master, connection, p, tsig>>

Messages == [body : 0..N,        \* the records, 0 if they were changed
             signed : BOOLEAN,   \* a TSIG record follows
             since : 0..N,       \* it covers the messages after this one
             intact : BOOLEAN,   \* its MAC is as sent
             known : BOOLEAN,    \* its key name and algorithm are the client's
             rcode : BOOLEAN]    \* the header has a non-zero rcode

Init ==
  /\ last = 0 /\ over = FALSE /\ damages = 0
  /\ phase = "connect" /\ inbox = <<>> /\ half = FALSE
  /\ p = 1
  /\ prior = 0 /\ unsigned = <<>>
  /\ success = 0 /\ failure = 0

-----------------------------------------------------------------------------
(* do_axfr. *)

Connect ==
  /\ phase = "connect"
  /\ phase' \in {"recv", "error"}
  /\ UNCHANGED <<master, inbox, half, p, tsig>>

(* A chunk ends within a message. *)
ReceivePart ==
  /\ phase = "recv" /\ ~half
  /\ ~over /\ Len(inbox) < N
  /\ half' = TRUE
  /\ UNCHANGED <<master, phase, inbox, p, tsig>>

(* What becomes of a message on its way. *)
Arrives(sent) ==
  {sent} \cup
    IF damages = MaxDamage THEN {}
      ELSE {[sent EXCEPT !.body = 0]}
             \cup IF ~sent.signed THEN {}
                    ELSE {[sent EXCEPT !.intact = FALSE],
                          [sent EXCEPT !.known = FALSE]}

(* A chunk ends a message.  The master signs the first and the last one    *)
(* and any between; an error is a message of its own.                      *)
Receive ==
  /\ phase = "recv"
  /\ ~over /\ Len(inbox) < N
  /\ LET k == Len(inbox) + 1
     IN  \E signed, final, rcode \in BOOLEAN :
           /\ k = 1 \/ final => signed
           /\ rcode => final
           /\ k = N => final
           /\ LET sent == [body |-> k, signed |-> signed, since |-> last,
                        intact |-> TRUE, known |-> TRUE, rcode |-> rcode]
              IN  \E arrived \in Arrives(sent) :
                    /\ inbox' = Append(inbox, arrived)
                    /\ damages' =
                         IF arrived = sent THEN damages ELSE damages + 1
           /\ last' = IF signed THEN k ELSE last
           /\ over' = final
  /\ half' = FALSE
  /\ UNCHANGED <<phase, p, tsig>>

(* Mutant of Idle: the socket has no timeout. *)
NeverIdle == FALSE /\ UNCHANGED vars
(* Nothing has arrived for a second, which is taken for the end of data. *)
Idle ==
  /\ phase = "recv"
  /\ phase' = "decode"
  /\ UNCHANGED <<master, inbox, half, p, tsig>>

(* The master closes the connection, or resets it. *)
Close ==
  /\ phase = "recv"
  /\ phase' \in {"decode", "error"}
  /\ UNCHANGED <<master, inbox, half, p, tsig>>

-----------------------------------------------------------------------------
(* decode_axfr. *)

m == inbox[p]
Decoding == phase = "decode" /\ p <= Len(inbox)

(* The data a signature of the k-th message covers. *)
Covered(since, k) == [i \in 1..(k - since) |-> since + i]

(* What verify_tsig computes the digest over, besides the prior digest. *)
InputData == IF prior = 0 THEN <<m.body>> ELSE Append(unsigned, m.body)

(* verify_tsig: the computed MAC is the received one if what both were     *)
(* computed over is the same.                                              *)
Verified == /\ m.intact
            /\ prior = m.since
            /\ InputData = Covered(m.since, p)

(* Mutant of NextDigest: the digest of the request stays. *)
DigestKept == prior
NextDigest == IF m.intact THEN p ELSE N + 1

(* Mutant of DecodeSigned: an alarm is printed and not counted. *)
DecodeUncounted ==
  /\ Decoding /\ ~m.rcode
  /\ m.signed /\ m.known
  /\ success' = IF Verified THEN success + 1 ELSE success
  /\ prior' = NextDigest
  /\ p' = p + 1
  /\ UNCHANGED <<master, connection, unsigned, failure>>

(* Mutant of DecodeSigned: a failure is also a success. *)
DecodeBoth ==
  /\ Decoding /\ ~m.rcode
  /\ m.signed /\ m.known
  /\ success' = success + 1
  /\ failure' = IF Verified THEN failure ELSE failure + 1
  /\ prior' = NextDigest
  /\ p' = p + 1
  /\ UNCHANGED <<master, connection, unsigned>>

(* The answers are printed and the TSIG record is verified, at once.  Only *)
(* a local name is reset to "": options["unsigned_messages"] stays.        *)
DecodeSigned ==
  /\ Decoding /\ ~m.rcode
  /\ m.signed /\ m.known
  /\ success' = IF Verified THEN success + 1 ELSE success
  /\ failure' = IF Verified THEN failure ELSE failure + 1
  /\ prior' = NextDigest
  /\ p' = p + 1
  /\ UNCHANGED <<master, connection, unsigned>>

DecodeUnsigned ==
  /\ Decoding /\ ~m.rcode
  /\ ~m.signed
  /\ unsigned' = Append(unsigned, m.body)
  /\ p' = p + 1
  /\ UNCHANGED <<master, connection, prior, success, failure>>

(* "Zone transfer failed", "unknown TSIG key name", "unexpected TSIG       *)
(* algorithm", or data that do not decode.                                 *)
DecodeError ==
  /\ Decoding
  /\ m.rcode \/ (m.signed /\ ~m.known) \/ m.body = 0
  /\ phase' = "error"
  /\ UNCHANGED <<master, inbox, half, p, tsig>>

(* At the end of a response that stops within a message: most decoders     *)
(* want what is missing and raise, but a slice of a string may be short,   *)
(* if nothing follows it as a TSIG record would.                           *)
DecodeHalf ==
  /\ phase = "decode" /\ half /\ p = Len(inbox) + 1
  /\ \/ /\ phase' = "error"
        /\ UNCHANGED <<half, unsigned>>
     \/ /\ inbox # <<>>
        /\ half' = FALSE
        /\ unsigned' = Append(unsigned, 0)
        /\ phase' = "done"
  /\ UNCHANGED <<master, inbox, p, prior, success, failure>>

(* The totals are printed; the average size of no messages is an error. *)
Report ==
  /\ phase = "decode" /\ ~half /\ p = Len(inbox) + 1
  /\ phase' = IF inbox = <<>> THEN "error" ELSE "done"
  /\ UNCHANGED <<master, inbox, half, p, tsig>>

Terminated == phase \in {"done", "error"} /\ UNCHANGED vars

Decode == DecodeSigned \/ DecodeUnsigned \/ DecodeError \/ DecodeHalf \/ Report
Client == Connect \/ Idle \/ Decode
Next == Client \/ ReceivePart \/ Receive \/ Close \/ Terminated

Spec == Init /\ [][Next]_vars

-----------------------------------------------------------------------------

(* The values the variables take; every signed message that was decoded    *)
(* has been verified, once (";; TSIG records: %d, success: %d, ...").      *)
TypeOK ==
  /\ last \in 0..N /\ over \in BOOLEAN /\ damages \in 0..MaxDamage
  /\ phase \in {"connect", "recv", "decode", "done", "error"}
  /\ inbox \in Seq(Messages) /\ Len(inbox) \in 0..N
  /\ half \in BOOLEAN
  /\ p \in 1..(Len(inbox) + 1)
  /\ prior \in 0..(N + 1)
  /\ unsigned \in Seq(0..N)
  /\ success \in 0..N /\ failure \in 0..N
  /\ success + failure < p

(* When no verification has failed, every record that a decoded signature  *)
(* covers is what the master sent, in its place, however the signatures    *)
(* were spread over the messages: no change on the way goes unnoticed      *)
(* (verify_tsig, "TSIG record verification failed").                       *)
VerifiedIsGenuine ==
  failure = 0 =>
    \A k \in 1..(p - 1) : inbox[k].signed => \A j \in 1..k : inbox[j].body = j

(* A transfer that arrives as it was sent raises no alarm (verify_tsig:    *)
(* "Reconstruct packet before TSIG record was added ...; compute digest    *)
(* and compare it with received digest").                                  *)
NoFalseAlarm == damages = 0 => failure = 0

(* It raises none as long as no signed message follows the one that ends   *)
(* the first stretch of unsigned messages.                                 *)
NoFalseAlarmOfOne ==
  damages = 0 /\ failure > 0 =>
    \E i, j, k \in 1..(p - 1) : /\ i < j /\ j < k
                                /\ ~inbox[i].signed
                                /\ inbox[j].signed /\ inbox[k].signed

(* Receiving and decoding take place while there is something to do. *)
Fairness == WF_vars(Client)
FairSpec == Spec /\ Fairness

(* The client ends, even if the master stops in the middle of a message    *)
(* and keeps the connection open (settimeout(1.0) in do_axfr).             *)
Termination == <>(phase \in {"done", "error"})
=============================================================================
