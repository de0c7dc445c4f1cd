------------------------------- MODULE MCPcat -------------------------------
(* Captures of up to three queries.  The records differ in case, in        *)
(* spelling, in content and in order; one reply at a time is odd.          *)
EXTENDS PcatAnalyze

Classes == {"IN"}
low == [lower |-> "a", case |-> 0]
up == [lower |-> "a", case |-> 1]
rr(name, type, class, text, spelling) ==
  [name |-> name, type |-> type, class |-> class, ttl |-> 1,
   rd |-> [text |-> text, spelling |-> spelling]]
tsig(time, rcode, other) ==
  [name |-> low, type |-> "TSIG", class |-> "ANY", ttl |-> 0,
   rd |-> [fields |-> <<"md5", time, "300", "16", time, "7", rcode>>,
           other |-> other]]

A1 == rr(low, "A", "IN", 1, 0)
A2 == rr(low, "A", "IN", 2, 0)
Up1 == rr(up, "A", "IN", 1, 0)
NS1 == rr(low, "NS", "IN", 1, 0)
NSup == rr(low, "NS", "IN", 1, 1)
MX1 == rr(low, "MX", "IN", 1, 0)
MXup == rr(low, "MX", "IN", 1, 1)
Opt1 == rr(low, "OPT", "4096", 1, 0)
Opt2 == rr(low, "OPT", "1232", 1, 0)
Sig1 == tsig("t1", "NOERROR", <<"0">>)
Sig2 == tsig("t2", "NOERROR", <<"0">>)
Bad1 == tsig("t1", "BADTIME", <<"6+">>)
Bad2 == tsig("t2", "BADTIME", <<"6-">>)

MCTexts == {"md5", "t1", "t2", "300", "16", "7", "NOERROR", "BADTIME",
            "0", "6+", "6-"}
MCRecords == {A1, A2, Up1, NS1, NSup, MX1, MXup, Opt1, Opt2,
              Sig1, Sig2, Bad1, Bad2}

msg(header, question, answer, additional) ==
  [kind |-> "msg", header |-> header,
   question |-> <<[name |-> question, type |-> "A", class |-> "IN"]>>,
   answer |-> answer, authority |-> <<>>, additional |-> additional]
other == [lower |-> "b", case |-> 0]

MCReplies ==
  {NoReply, Unparsable("1"), Unparsable("2"), OddLine("1"), OddLine("2"),
   msg("ok", low, <<A1, A2, NS1>>, <<Sig1>>),
   msg("ok", up, <<NSup, A2, Up1>>, <<Sig2>>),
   msg("ok", low, <<A1, NS1, MX1>>, <<Sig1>>),
   msg("ok", low, <<A1, NS1, A1>>, <<Sig1>>),
   msg("ok", low, <<A1>>, <<Opt1>>), msg("ok", low, <<A1>>, <<Opt2>>),
   msg("ok", low, <<MX1>>, <<Bad1>>), msg("ok", low, <<MXup>>, <<Bad1>>),
   msg("ok", low, <<MX1>>, <<Bad2>>),
   msg("no", other, <<>>, <<>>), msg("ok", other, <<>>, <<>>),
   msg("ok", low, <<>>, <<>>)}

(* The entry for each of the ids of a capture, in ascending order.         *)
file(S, reply) ==
  LET f[n \in 0..3] == IF n = 0 THEN <<>>
                       ELSE IF n \in S
                         THEN Append(f[n - 1], [id |-> n, reply |-> reply[n]])
                       ELSE f[n - 1]
  IN f[3]

plain == msg("ok", low, <<A1, A2, NS1>>, <<Sig1>>)
rotated == msg("ok", up, <<NSup, A2, Up1>>, <<Sig2>>)

\* Any two replies to the second of three queries, and any two sets of ids.
MCCaptures ==
  {<<file(1..3, <<plain, b, NoReply>>), file(1..3, <<plain, t, NoReply>>)>> :
     b \in {r \in MCReplies : PlainReply(r)}, t \in MCReplies}
  \cup
  {<<file(S, <<b, plain, b>>), file(T, <<t, plain, plain>>)>> :
     S, T \in SUBSET (1..3), b \in {NoReply, plain}, t \in {plain, rotated}}
=============================================================================
