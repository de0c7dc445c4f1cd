----------------------------- MODULE MCExchange -----------------------------
(* Command lines of every kind, and answers with every kind of rdata.      *)
EXTENDS DnsExchange

opt(o) == [opt |-> o, text |-> <<<<43>>>>, val |-> 0]
word(pieces) == [opt |-> "", text |-> pieces, val |-> 0]
value(n) == [opt |-> "", text |-> <<<<78, 83>>>>, val |-> n]
a == <<97>>
B == <<66>>

MCOptionNames == {"@", "-h", "+tcp", "+aaonly", "+cdflag", "+norecurse",
                  "+edns0", "+dnssec", "+hex", "+walk", "+0x20"}

MCCommandLines ==
  {<<opt("@"), word(<<a, B>>)>>,
   <<opt("@"), opt("+tcp"), opt("+hex"), word(<<a>>), value(2), value(3)>>,
   <<opt("@"), opt("+dnssec"), opt("+norecurse"), word(Root), value(2)>>,
   <<opt("@"), opt("+0x20"), word(<<B, <<>>>>), value(2)>>,
   <<opt("@"), word(<<a, <<>>, B>>), value(1)>>,
   <<opt("@"), opt("+tcp"), word(<<a, <<>>>>), value(1)>>,
   <<opt("@"), opt("+edns0"), opt("+tcp"), word(<<a, B>>), value(0)>>,
   <<opt("@"), opt("+walk"), word(<<a>>)>>,
   <<opt("@"), word(<<a>>), value(252)>>,
   <<opt("@"), opt("+cdflag"), opt("+aaonly")>>,      \* no name
   <<>>}

rr(name, type, rdata) ==
  [name |-> name, type |-> type, class |-> 1, ttl |-> 70000, rdata |-> rdata]
ab == <<a, B, <<>>>>
b == <<<<98>>, <<>>>>

answer(rcode, an, ns, ar) ==
  [rcode |-> rcode, minimal |-> FALSE, sections |-> <<an, ns, ar>>]

MCAnswers ==
  {[rcode |-> 1, minimal |-> TRUE, sections |-> <<<<>>, <<>>, <<>>>>],
   answer(3, <<>>, <<rr(b, 6, <<b, Root, 1, 2, 300, 4, 5>>)>>, <<>>),
   answer(0, <<rr(ab, 2, <<ab>>), rr(ab, 1, <<<<192, 0, 2, 1>>>>)>>, <<>>,
          <<rr(Root, 41, <<<<>>>>)>>),
   answer(0, <<rr(b, 35, <<1, 256, <<115>>, <<>>, <<33>>, b>>)>>,
          <<rr(ab, 16, <<<<<<7, 8>>, <<9>>>>>>)>>, <<>>),
   answer(0, <<rr(b, 45, <<10, <<3, 2, b, <<5, 6>>>>>>),
               rr(b, 50, <<1, 0, 5, <<170>>, <<1, 2>>, <<1, 2, 6, 15, 46>>>>)>>,
          <<>>, <<>>),
   answer(0, <<rr(b, 46, <<2, 5, 2, 300, 9, 8, 700, b, <<1, 2, 3>>>>)>>,
          <<rr(b, 47, <<ab, <<1, 2, 47>>>>)>>,
          <<rr(b, 33, <<1, 2, 53, b>>)>>)}

q(name, type, class) == [name |-> name, type |-> type, class |-> class]
MCStrays ==
  {[id |-> i, tc |-> FALSE, rcode |-> 0, question |-> <<x>>,
    sections |-> <<<<>>, <<>>, <<>>>>] :
     i \in {7, 300}, x \in {q(b, 1, 1), q(ab, 2, 1), q(ab, 1, 1), q(ab, 1, 3)}}
=============================================================================
