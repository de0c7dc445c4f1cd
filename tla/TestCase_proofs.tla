--------------------------- MODULE TestCase_proofs ---------------------------
(***************************************************************************)
(* For any set of balanced scripts, any limits and any number of crashes:  *)
(* a script refuses to start only because of a knotd that another run left *)
(* behind, reports each crash of its own and leaves no server running.     *)
(***************************************************************************)
EXTENDS TestCaseProps, WellFoundedInduction, SequenceTheorems, TLAPS

-----------------------------------------------------------------------------

(* The script waits in _watch, and does so to start server d, whose PID it *)
(* does not know yet.                                                      *)
Waiting(then) == pc \in {"probe", "grep"} /\ w.then = then
Starting(d) ==
  /\ Waiting("started") \/ pc = "started"
  /\ call.op = "start" /\ call.d = d

(* The call that each place of the script is in. *)
Places ==
  /\ pc \notin {"call", "done", "exit1"} => ip \in DOMAIN test.calls
  /\ pc \in {"probe", "grep"} => w.then # "call"
  /\ pc \in {"compile", "compiled"} =>
       call.op = "compile" \/ (call.op = "start" /\ call.d = "knotd")
  /\ pc = "compile" => tmout >= 1
  /\ pc = "poll" => tmout >= 1
  /\ Waiting("started") \/ pc = "started" => call.op = "start"
  /\ pc \in {"term", "poll"} => call.op = "stop" /\ pid[call.d]
  /\ Waiting("seen") \/ pc \in {"zone", "seen"} => call.op = "wait"
  /\ Waiting("seen") \/ pc = "seen" => todo # {}
  /\ Waiting("reloaded") \/ pc = "reloaded" => call.op = "kreload"
  /\ pc = "dig" => call.op = "dig"

(* A process that runs was started by this script, which knows its PID or  *)
(* is about to; a knotd of another run is none of these.                   *)
Owned ==
  \A d \in Servers :
    /\ proc[d] \in {"booting", "up", "stopping"} => pid[d] \/ Starting(d)
    /\ proc[d] = "stray" => d = "knotd" /\ ~pid[d] /\ ~Starting(d)

(* The script knows the PID of a server only where the server may run, no  *)
(* longer where a start of it has failed, and at its end only of a server  *)
(* that it never stops.                                                    *)
Known ==
  \A d \in Servers :
    /\ pc # "done" /\ pid[d] => MayRun(test, d, ip)
    /\ AtCall /\ IfStartFailed(test, d, ip) /\ ret # 0 => ~pid[d]
    /\ pc = "done" /\ pid[d] => ~Stops(test, d) /\ (rcode \/ d # "knotd")

(* A crash of knotd that is not reported yet will be when it is stopped. *)
CrashPending ==
  crashed["knotd"] > 0 /\ ~rcode =>
    /\ proc["knotd"] = "off" /\ ~clean["knotd"]
    /\ pid["knotd"] \/ Starting("knotd")

IInv ==
  TypeOK /\ Places /\ Owned /\ Known /\ CrashPending /\ RefusesOnlyStray

-----------------------------------------------------------------------------

(* The types of the servers' variables, and of the script's. *)
EnvOK ==
  /\ test \in Tests
  /\ proc \in [Servers -> {"off", "stray", "booting", "up", "stopping"}]
  /\ clean \in [Servers -> BOOLEAN]
  /\ log \in [Servers -> Seq(Lines)]
  /\ ser \in [Servers -> [Zones -> Nat]]
  /\ file \in [Zones -> Nat] /\ db \in [Zones -> Nat]
  /\ latest \in [Zones -> Nat]
  /\ pending \subseteq Zones
  /\ slaves \subseteq Servers
  /\ crashed \in [Servers -> 0..MaxCrash]
  /\ knotc \in {"none", "running", "ok", "failed"}
ShOK ==
  /\ ip \in 1..(Len(test.calls) + 1)
  /\ pc \in {"call", "probe", "grep", "compile", "compiled", "started", "term",
             "poll", "zone", "seen", "reloaded", "dig", "done", "exit1"}
  /\ ret \in 0..2 /\ rcode \in BOOLEAN
  /\ pid \in [Servers -> BOOLEAN]
  /\ ll \in [Servers -> Nat]
  /\ w \in WatchFrames
  /\ tmout \in Nat
  /\ todo \subseteq Zones /\ xfered \subseteq Zones
  /\ updated \subseteq Zones

FlagsOK == reloads \in BOOLEAN /\ ftsig \in BOOLEAN

(* A server that is started boots, and the script waits for it. *)
LEMMA SpawnDoes ==
  ASSUME NEW d, Spawn(d)
  PROVE  /\ proc' = [proc EXCEPT ![d] = "booting"]
         /\ pc' = "probe" /\ w'.then = "started"
BY DEF Spawn, Watch

(* A start gives up, compiles the zones first or starts the server. *)
LEMMA StartDoes ==
  ASSUME NEW d, Start(d)
  PROVE  \/ pc' = "exit1" /\ proc' = proc
         \/ /\ d = "knotd" /\ proc' = proc
            /\ pc' = "compile" /\ tmout' = CompileLimit
         \/ Spawn(d)
BY DEF Start, Compile, env

(* What follows a compilation ends the call or starts knotd. *)
LEMMA CompiledDoes ==
  ASSUME Compiled
  PROVE  \/ Return /\ proc' = proc
         \/ Spawn("knotd") /\ call.op # "compile" /\ ip' = ip
BY DEF Compiled

(* The type invariant is that of the parts. *)
LEMMA TypeParts == TypeOK <=> EnvOK /\ ShOK /\ FlagsOK
BY DEF TypeOK, EnvOK, ShOK, FlagsOK

(* What TestAssumption says of a script. *)
LEMMA ScriptTypes ==
  ASSUME NEW t \in Tests
  PROVE  /\ Len(t.calls) \in Nat /\ DOMAIN t.calls = 1..Len(t.calls)
         /\ DOMAIN t.zones = 1..Len(t.zones) /\ Len(t.zones) \in Nat
         /\ 1 \in DOMAIN t.zones
         /\ \A i \in DOMAIN t.calls :
              /\ t.calls[i] \in Calls
              /\ t.calls[i].skip \in Nat
              /\ t.calls[i].skip > 0
              /\ i + t.calls[i].skip <= Len(t.calls) + 1
<1>1. /\ t.calls \in Seq(Calls)
      /\ t.zones \in Seq(STRING) /\ Len(t.zones) > 0
      /\ \A i \in DOMAIN t.calls :
           t.calls[i].skip \in 1..(Len(t.calls) + 1 - i)
  BY TestAssumption
<1>2. /\ Len(t.calls) \in Nat /\ DOMAIN t.calls = 1..Len(t.calls)
      /\ DOMAIN t.zones = 1..Len(t.zones) /\ Len(t.zones) \in Nat
      /\ \A i \in DOMAIN t.calls : t.calls[i] \in Calls
  BY <1>1, LenProperties, ElementOfSeq
<1>3. 1 \in DOMAIN t.zones
  BY <1>1, <1>2
<1>4. \A i \in DOMAIN t.calls :
        /\ t.calls[i].skip \in Nat
        /\ t.calls[i].skip > 0
        /\ i + t.calls[i].skip <= Len(t.calls) + 1
  BY <1>1, <1>2
<1> QED
  BY <1>2, <1>3, <1>4

(* The same of the script that runs. *)
LEMMA TestTypes ==
  ASSUME test \in Tests
  PROVE  /\ Len(test.calls) \in Nat /\ DOMAIN test.calls = 1..Len(test.calls)
         /\ DOMAIN test.zones = 1..Len(test.zones) /\ Len(test.zones) \in Nat
         /\ test.zones[1] \in Zones
         /\ test.slaves \subseteq Servers
         /\ \A i \in DOMAIN test.calls :
              /\ test.calls[i] \in Calls
              /\ test.calls[i].skip \in Nat
              /\ test.calls[i].skip > 0
              /\ i + test.calls[i].skip <= Len(test.calls) + 1
<1>1. 1 \in DOMAIN test.zones /\ test.slaves \subseteq Servers
  BY ScriptTypes, TestAssumption
<1>2. test.zones[1] \in Zones
  BY <1>1 DEF Zones
<1> QED
  BY <1>1, <1>2, ScriptTypes

(* The call that is being made, and where the script may go from it. *)
LEMMA CallTypes ==
  ASSUME test \in Tests, ip \in DOMAIN test.calls
  PROVE  /\ call \in Calls /\ call.d \in Servers /\ call.op \in Ops
         /\ ip \in Nat /\ ip <= Len(test.calls) /\ ip > 0
         /\ ip + 1 \in 1..(Len(test.calls) + 1)
         /\ ip + call.skip \in 1..(Len(test.calls) + 1)
<1>1. call \in Calls /\ ip \in 1..Len(test.calls) /\ Len(test.calls) \in Nat
      /\ call.skip \in Nat /\ call.skip > 0
      /\ ip + call.skip <= Len(test.calls) + 1
  BY TestTypes DEF call
<1>2. call.d \in Servers /\ call.op \in Ops
  BY <1>1 DEF Calls
<1> QED
  BY <1>1, <1>2

(* Where a call is to be made there is one. *)
LEMMA AtCallInDomain ==
  ASSUME TypeOK, AtCall
  PROVE  ip \in DOMAIN test.calls
BY TestTypes DEF TypeOK, AtCall

(* The loops over zones come to one of the zones that are left. *)
LEMMA NextZoneIsLeft ==
  ASSUME TypeOK, todo # {}
  PROVE  NextZone \in todo
<1> DEFINE left == {i \in DOMAIN test.zones : test.zones[i] \in todo}
           R == OpToRel(<, Nat)
<1>1. left # {} /\ left \subseteq Nat
  BY TestTypes DEF TypeOK, Zones
<1>2. IsWellFoundedOn(R, Nat)
  BY NatLessThanWellFounded
<1>3. \A a, b \in Nat : a < b => <<a, b>> \in R
  BY DEF OpToRel
<1>4. NextZone = test.zones[CHOOSE i \in left : \A k \in left : i <= k]
  BY DEF NextZone
<1>0. \A i \in left : test.zones[i] \in todo
  OBVIOUS
<1> HIDE DEF R, left
<1>5. PICK m \in left : \A k \in left : ~(<<k, m>> \in R)
  BY <1>1, <1>2, WFMin
<1>6. \A k \in left : m <= k
  <2> TAKE k \in left
  <2>1. m \in Nat /\ k \in Nat
    BY <1>1
  <2>2. ~(k < m)
    BY <1>3, <1>5, <2>1, Zenon
  <2> QED
    BY <2>1, <2>2
<1>7. (CHOOSE i \in left : \A k \in left : i <= k) \in left
  BY <1>6
<1> QED
  BY <1>0, <1>4, <1>7

-----------------------------------------------------------------------------

(* The script that runs stays the same, and so do its zones. *)
LEMMA SameZones ==
  ASSUME test' = test
  PROVE  Zones' = Zones /\ Lines' = Lines /\ WatchFrames' = WatchFrames
<1>1. Zones' = Zones
  BY DEF Zones
<1>2. Lines' = Lines
  BY <1>1 DEF Lines
<1> QED
  BY <1>1, <1>2 DEF WatchFrames

(* A log stays a sequence of lines. *)
LEMMA LoggedType ==
  ASSUME log \in [Servers -> Seq(Lines)], NEW d \in Servers,
         NEW line \in Lines, Logged(d, line)
  PROVE  log' \in [Servers -> Seq(Lines)]
<1>1. Append(log[d], line) \in Seq(Lines)
  BY AppendProperties
<1> QED
  BY <1>1 DEF Logged

(* A reload that was asked for, and a fault that the filter has found. *)
LEMMA FlagTypes ==
  ASSUME FlagsOK, [Next]_vars
  PROVE  FlagsOK'
<1>1. CASE UNCHANGED vars
  BY <1>1 DEF FlagsOK, vars, env, sh
<1>2. CASE External
  <2>1. reloads' \in {reloads, FALSE} /\ ftsig' = ftsig
    BY <1>2 DEF External, KnotcExits, KnotdReloads, Boot, Crash, Exit, LoadZone,
      Transfer, sh
  <2> QED
    BY <2>1 DEF FlagsOK
<1>3. CASE Shell
  <2>1. CASE \/ Skip \/ WatchProbe \/ WatchGrep \/ CompilePoll
             \/ CallCompile \/ Started \/ StopTerm \/ StopPoll \/ KillNamed
             \/ \E d \in Servers : Stop(d)
    BY <2>1 DEF FlagsOK, Skip, WatchProbe, WatchGrep, CompilePoll, CallCompile,
      Started, StopTerm, StopPoll, KillNamed, Stop, env
  <2>2. CASE \/ Update \/ Rndc \/ Transit \/ KnotdReloaded
             \/ Wait \/ WaitZone \/ WaitSeen \/ WaitEnd \/ Dig
             \/ DigKnot \/ DigName \/ DigFile \/ SetRet \/ CheckCrash
             \/ GiveUp \/ Finish
    BY <2>2 DEF FlagsOK, Update, Rndc, Transit, KnotdReloaded, Wait, WaitZone,
      WaitSeen, WaitEnd, Dig, DigKnot, DigName, DigFile, SetRet, CheckCrash,
      GiveUp, Finish, env
  <2>3. CASE KnotdReload \/ Compiled \/ \E d \in Servers : Start(d)
    <3>1. reloads' \in {reloads, TRUE, FALSE} /\ ftsig' = ftsig
      BY <2>3 DEF KnotdReload, Compiled, Start, Spawn, env
    <3> QED
      BY <3>1 DEF FlagsOK
  <2>4. CASE DigZone \/ DigEnd
    <3>1. reloads' = reloads
      BY <2>4 DEF DigZone, DigEnd, env
    <3>2. ftsig' \in BOOLEAN
      BY <2>4, Zenon DEF DigZone, DigEnd
    <3> QED
      BY <3>1, <3>2 DEF FlagsOK
  <2> QED
    BY <1>3, <2>1, <2>2, <2>3, <2>4 DEF Shell
<1> QED
  BY <1>1, <1>2, <1>3 DEF Next, Terminated

(* The servers keep all variables well-typed. *)
LEMMA ExternalType ==
  ASSUME TypeOK, External
  PROVE  TypeOK'
<1>1. EnvOK /\ ShOK
  BY TypeParts
<1>2. sh' = sh /\ test' = test
  BY DEF External, KnotcExits, KnotdReloads, Boot, Crash, Exit, LoadZone,
         Transfer
<1>3. Zones' = Zones /\ Lines' = Lines /\ WatchFrames' = WatchFrames
  BY <1>2, SameZones
<1>4. ShOK' /\ FlagsOK'
  <2>1. FlagsOK'
    BY TypeParts, FlagTypes DEF Next
  <2> QED
    BY <1>1, <1>2, <1>3, <2>1 DEF ShOK, sh
<1>5. /\ Line("up", "-") \in Lines /\ Line("reloaded", "-") \in Lines
      /\ \A k \in {"AXFR", "IXFR"}, z \in Zones : Line(k, z) \in Lines
  BY DEF Line, Lines
<1>6. EnvOK'
  <2> USE <1>1 DEF EnvOK
  <2>1. CASE KnotcExits
    BY <1>3, <2>1 DEF KnotcExits
  <2>2. CASE KnotdReloads
    <3>1. log' \in [Servers -> Seq(Lines)]
      BY <1>5, <2>2, LoggedType DEF KnotdReloads, Servers
    <3>2. ser' \in [Servers -> [Zones -> Nat]]
      BY <2>2 DEF KnotdReloads
    <3> QED
      BY <1>3, <2>2, <3>1, <3>2 DEF KnotdReloads
  <2>3. ASSUME NEW d \in Servers, Boot(d)
        PROVE  EnvOK'
    <3>1. log' \in [Servers -> Seq(Lines)]
      BY <1>5, <2>3, LoggedType DEF Boot
    <3>2. ser' \in [Servers -> [Zones -> Nat]]
      BY <2>3 DEF Boot, Stored
    <3> QED
      BY <1>3, <2>3, <3>1, <3>2 DEF Boot
  <2>4. ASSUME NEW d \in Servers, Crash(d)
        PROVE  EnvOK'
    <3>1. crashed["knotd"] \in 0..MaxCrash /\ crashed["named"] \in 0..MaxCrash
      BY DEF Servers
    <3>2. crashed[d] + 1 \in 0..MaxCrash
      BY <2>4, <3>1, BoundAssumption DEF Crash, Servers
    <3> QED
      BY <1>3, <2>4, <3>2 DEF Crash
  <2>5. ASSUME NEW d \in Servers, Exit(d)
        PROVE  EnvOK'
    BY <1>3, <2>5 DEF Exit
  <2>6. ASSUME NEW z \in Zones, LoadZone(z)
        PROVE  EnvOK'
    <3>1. ser' \in [Servers -> [Zones -> Nat]]
      BY <2>6 DEF LoadZone
    <3>2. pending' \subseteq Zones
      BY <2>6 DEF LoadZone
    <3> QED
      BY <1>3, <2>6, <3>1, <3>2 DEF LoadZone
  <2>7. ASSUME NEW d \in Servers, NEW z \in Zones,
               NEW kind \in {"AXFR", "IXFR"}, Transfer(d, z, kind)
        PROVE  EnvOK'
    <3>1. log' \in [Servers -> Seq(Lines)]
      BY <1>5, <2>7, LoggedType DEF Transfer
    <3>2. Other(d) \in Servers
      BY DEF Other, Servers
    <3>3. ser' \in [Servers -> [Zones -> Nat]]
      BY <2>7, <3>2 DEF Transfer
    <3> QED
      BY <1>3, <2>7, <3>1, <3>3 DEF Transfer
  <2> QED
    BY <2>1, <2>2, <2>3, <2>4, <2>5, <2>6, <2>7 DEF External
<1> QED
  BY <1>4, <1>6, TypeParts, PTL

(* What _watch is called with. *)
LEMMA WatchType ==
  ASSUME NEW must \in SUBSET Servers, NEW d \in Servers,
         NEW pat \in SUBSET Lines, NEW from \in Nat, NEW lim \in {0, Limit},
         NEW then \in {"call", "started", "seen", "reloaded"},
         Watch(must, d, pat, from, lim, then)
  PROVE  w' \in WatchFrames /\ w'.then = then /\ pc' = "probe"
BY BoundAssumption DEF Watch, WatchFrames

(* The zones of a call are zones of the script. *)
LEMMA ArgsType ==
  ASSUME TypeOK, ip \in DOMAIN test.calls, call.op # "update"
  PROVE  Args \subseteq Zones
<1>1. call.zs \in {"all", "first", "updated"} /\ test.zones[1] \in Zones
  <2>1. call \in Calls /\ call.zs # "some" /\ test.zones[1] \in Zones
    BY CallTypes, TestTypes, TestAssumption DEF TypeOK, call
  <2> QED
    BY <2>1 DEF Calls
<1> QED
  BY <1>1 DEF Args, TypeOK

(* A wait looks for log lines. *)
LEMMA XferPatternType ==
  ASSUME NEW d \in Servers, NEW kind \in {"AXFR", "IXFR"}, NEW z \in Zones
  PROVE  XferPattern(d, kind, z) \subseteq Lines
BY DEF XferPattern, Line, Lines

(* A turn of _watch ends with a status and goes on where its caller       *)
(* wants.                                                                 *)
LEMMA WatchGrepType ==
  ASSUME TypeOK, WatchGrep
  PROVE  w' \in WatchFrames /\ ret' \in 0..2 /\ w'.then = w.then
         /\ pc' \in {"probe", w.then}
<1> DEFINE hit == \E i \in DOMAIN log[w.log] :
                     i >= w.from /\ log[w.log][i] \in w.pat
<1>1. w \in WatchFrames /\ ret \in 0..2 /\ Limit \in Nat \ {0}
  BY BoundAssumption DEF TypeOK
<1>2. CASE hit \/ w.dead \/ TimedOut
  <2>1. /\ w' = [w EXCEPT !.res = WatchStatus(hit)]
        /\ ret' = WatchStatus(hit) /\ pc' = w.then
    BY <1>2 DEF WatchGrep
  <2> HIDE DEF hit
  <2>2. WatchStatus(hit) \in 0..2
    BY DEF WatchStatus
  <2> QED
    BY <1>1, <2>1, <2>2 DEF WatchFrames
<1>3. CASE ~(hit \/ w.dead \/ TimedOut)
  <2>1. /\ w' = [w EXCEPT !.ctr = IF w.lim = 0 THEN 0 ELSE w.ctr + 1]
        /\ ret' = ret /\ pc' = "probe"
    BY <1>3 DEF WatchGrep
  <2>2. w.lim \in {0, Limit} /\ w.ctr \in 0..(Limit - 1)
    BY <1>1 DEF WatchFrames
  <2>3. w.lim = 0 \/ ~(w.ctr + 1 >= w.lim)
    BY <1>3 DEF TimedOut
  <2>4. (IF w.lim = 0 THEN 0 ELSE w.ctr + 1) \in 0..(Limit - 1)
    BY <1>1, <2>2, <2>3
  <2> QED
    BY <1>1, <2>1, <2>4 DEF WatchFrames
<1> QED
  BY <1>2, <1>3

(* A server that starts has a new, empty log. *)
LEMMA SpawnType ==
  ASSUME EnvOK, NEW d \in Servers, Spawn(d)
  PROVE  /\ proc' \in [Servers -> {"off", "stray", "booting", "up", "stopping"}]
         /\ log' \in [Servers -> Seq(Lines)]
         /\ pending' \subseteq Zones
BY EmptySeq DEF EnvOK, Spawn

(* A step of the script keeps the servers' values well-typed ... *)
LEMMA ShellEnvType ==
  ASSUME TypeOK, Places, Shell
  PROVE  EnvOK'
<1> USE DEF EnvOK
<1>0. EnvOK /\ ShOK
  BY TypeParts
<1>1. ASSUME test' = test
      PROVE  Zones' = Zones /\ Lines' = Lines
  BY <1>1, SameZones
<1>2. CASE UNCHANGED env
  BY <1>0, <1>1, <1>2 DEF env
<1>4. ASSUME NEW d \in Servers, Start(d)
      PROVE  EnvOK'
  <2>1. \/ UNCHANGED env
        \/ /\ UNCHANGED <<proc, clean, log, ser, file, db, latest, pending,
                          reloads, test, slaves, crashed>>
           /\ knotc' = "running"
        \/ /\ UNCHANGED <<clean, ser, file, db, latest, test, slaves, crashed,
                          knotc>>
           /\ Spawn(d)
    BY <1>4 DEF Start, Compile
  <2>2. CASE UNCHANGED env
    BY <1>2, <2>2
  <2>3. CASE knotc' = "running" /\ ~Spawn(d)
    BY <1>0, <1>1, <2>1, <2>3 DEF env
  <2>4. CASE Spawn(d) /\ ~UNCHANGED env
    BY <1>0, <1>1, <2>1, <2>4, SpawnType
  <2> QED
    BY <2>1, <2>2, <2>3, <2>4
<1>5. CASE CallCompile
  BY <1>0, <1>1, <1>5 DEF CallCompile, Compile
<1>6. CASE Compiled
  <2>1. /\ UNCHANGED <<clean, ser, file, db, latest, test, slaves, crashed>>
        /\ knotc' = "none"
        /\ UNCHANGED <<proc, log, pending>> \/ Spawn("knotd")
    BY <1>6 DEF Compiled
  <2>2. CASE UNCHANGED <<proc, log, pending>>
    BY <1>0, <1>1, <2>1, <2>2
  <2>3. CASE Spawn("knotd")
    <3>1. "knotd" \in Servers
      BY DEF Servers
    <3> QED
      BY <1>0, <1>1, <2>1, <2>3, <3>1, SpawnType
  <2> QED
    BY <2>1, <2>2, <2>3
<1>7. CASE Started
  BY <1>0, <1>1, <1>7 DEF Started, Kill9
<1>8. CASE StopTerm
  BY <1>0, <1>1, <1>8 DEF StopTerm
<1>9. CASE StopPoll
  BY <1>0, <1>1, <1>9 DEF StopPoll, Kill9
<1>10. CASE KillNamed
  BY <1>0, <1>1, <1>10 DEF KillNamed, Kill9
<1>11. CASE Update
  <2>1. file' \in [Zones -> Nat]
    <3>1. PICK S \in SUBSET updated' : file' = [z \in Zones |-> IF z \in S THEN file[z] + 1 ELSE file[z]]
      BY <1>11 DEF Update
    <3> QED
      BY <1>0, <3>1
  <2> QED
    BY <1>0, <1>1, <1>11, <2>1 DEF Update
<1>12. CASE Rndc
  BY <1>0, <1>1, <1>12 DEF Rndc
<1>13. CASE Transit
  BY <1>0, <1>1, <1>13 DEF Transit, Servers
<1>14. CASE \/ Skip \/ WatchProbe \/ WatchGrep \/ CompilePoll \/ KnotdReload
            \/ \E d \in Servers : Stop(d)
  BY <1>0, <1>1, <1>2, <1>14 DEF Skip, WatchProbe, WatchGrep, CompilePoll, Stop,
    KnotdReload
<1>15. CASE \/ KnotdReloaded
            \/ Wait \/ WaitZone \/ WaitSeen \/ WaitEnd
            \/ Dig \/ DigZone \/ DigEnd \/ DigKnot \/ DigName \/ DigFile
            \/ SetRet \/ CheckCrash \/ GiveUp \/ Finish
  BY <1>2, <1>15 DEF KnotdReloaded, Wait, WaitZone, WaitSeen,
    WaitEnd, Dig, DigZone, DigEnd, DigKnot, DigName, DigFile, SetRet,
    CheckCrash, GiveUp, Finish
<1> QED
  BY <1>4, <1>5, <1>6, <1>7, <1>8, <1>9, <1>10, <1>11, <1>12, <1>13, <1>14,
     <1>15 DEF Shell

(* A PID is forgotten, and RCODE stays a truth value. *)
LEMMA StoppedType ==
  ASSUME TypeOK, NEW d \in Servers, NEW bad, Stopped(d, bad)
  PROVE  pid' \in [Servers -> BOOLEAN] /\ rcode' \in BOOLEAN
<1>1. pid' \in [Servers -> BOOLEAN]
  BY DEF TypeOK, Stopped
<1>2. rcode' \in BOOLEAN
  BY Zenon DEF Stopped
<1> QED
  BY <1>1, <1>2

(* RCODE stays a truth value. *)
LEMMA RcType == \A v : Rc(v) => rcode' \in BOOLEAN
BY Zenon DEF Rc

(* ... and those of the script. *)
LEMMA ShellShType ==
  ASSUME TypeOK, Places, Shell
  PROVE  ShOK'
<1>0. ShOK /\ test \in Tests /\ w \in WatchFrames /\ Limit \in Nat
  BY TypeParts, BoundAssumption DEF TypeOK
<1>1. test' = test
  BY DEF Shell, env, Start, Compile, Spawn, CallCompile, Compiled, Started,
    StopTerm, StopPoll, KillNamed, Update, Rndc, Transit, Skip, WatchProbe,
    WatchGrep, CompilePoll, Stop, KnotdReload, KnotdReloaded, Wait, WaitZone,
    WaitSeen, WaitEnd, Dig, DigZone, DigEnd, DigKnot, DigName, DigFile,
    SetRet, CheckCrash, GiveUp, Finish
<1>2. Zones' = Zones /\ WatchFrames' = WatchFrames
  BY <1>1, SameZones
<1>3. ASSUME pc \notin {"call", "done", "exit1"} \/ AtCall
      PROVE  /\ ip \in DOMAIN test.calls /\ ip \in 1..(Len(test.calls) + 1)
             /\ call.d \in Servers
             /\ ip + 1 \in 1..(Len(test.calls) + 1)
             /\ ip + call.skip \in 1..(Len(test.calls) + 1)
  BY <1>0, <1>3, CallTypes, AtCallInDomain DEF Places, ShOK
<1>4. /\ Line("up", "-") \in Lines /\ Line("reloaded", "-") \in Lines
      /\ Running \subseteq Servers
  BY DEF Line, Lines, Running
<1> USE <1>0, <1>2, RcType DEF ShOK, Return
<1>5. CASE Skip
  BY <1>1, <1>3, <1>5 DEF Skip
<1>6. CASE WatchProbe
  <2>1. [w EXCEPT !.dead = SomeDead] \in WatchFrames
    BY DEF WatchFrames, SomeDead
  <2> QED
    BY <1>1, <1>6, <2>1 DEF WatchProbe
<1>7. CASE WatchGrep
  <2>1. w.then \in {"call", "started", "seen", "reloaded"}
    BY DEF WatchFrames
  <2> QED
    BY <1>1, <1>7, <2>1, WatchGrepType DEF WatchGrep
<1>8. ASSUME NEW d \in Servers, Start(d)
      PROVE  ShOK'
  <2>1. /\ pc' \in {"exit1", "compile", "probe"}
        /\ ret' = ret \/ ret' = 0
        /\ tmout' = tmout \/ tmout' = CompileLimit
        /\ UNCHANGED <<ip, rcode, pid, ll, todo, xfered, updated>>
    BY <1>8 DEF Start, Compile, Spawn, Watch
  <2>2. w' \in WatchFrames
    <3>1. CASE w' = w
      BY <3>1
    <3>2. CASE w' # w
      BY <1>4, <1>8, <3>2, WatchType DEF Start, Spawn
    <3> QED
      BY <3>1, <3>2
  <2> QED
    BY <1>1, <2>1, <2>2, BoundAssumption
<1>9. ASSUME NEW d \in Servers, Stop(d)
      PROVE  ShOK'
  <2>1. /\ ll' \in [Servers -> Nat]
        /\ UNCHANGED <<ret, w, tmout, todo, xfered, updated>>
        /\ AtCall
    BY <1>9 DEF Stop, Calling
  <2>2. \/ pc' = "term" /\ UNCHANGED <<ip, rcode, pid>>
        \/ Stopped(d, TRUE)
    BY <1>9 DEF Stop
  <2>3. CASE pc' = "term" /\ UNCHANGED <<ip, rcode, pid>>
    BY <1>1, <2>1, <2>3
  <2>4. CASE Stopped(d, TRUE)
    <3>1. pc' = "call" /\ ip' = ip + 1
      BY <2>4 DEF Stopped
    <3> QED
      BY <1>1, <1>3, <2>1, <2>4, <3>1, StoppedType
  <2> QED
    BY <2>2, <2>3, <2>4
<1>10. CASE CallCompile
  BY <1>1, <1>10, BoundAssumption DEF CallCompile, Compile
<1>11. CASE CompilePoll
  <2>1. tmout' \in Nat
    BY <1>11 DEF CompilePoll, Countdown, Places
  <2> QED
    BY <1>1, <1>11, <2>1 DEF CompilePoll
<1>12. CASE Compiled
  <2>1. UNCHANGED <<rcode, pid, ll, tmout, todo, xfered, updated>>
        /\ ret' \in 0..2 /\ pc = "compiled"
    BY <1>12 DEF Compiled
  <2>2. \/ ip' = ip + 1 /\ pc' = "call" /\ w' = w
        \/ Spawn("knotd") /\ ip' = ip
    BY <1>12 DEF Compiled
  <2>3. CASE Spawn("knotd") /\ ip' = ip
    <3>1. w' \in WatchFrames /\ pc' = "probe"
      BY <1>4, <2>3, WatchType DEF Spawn, Servers
    <3> QED
      BY <1>1, <2>1, <2>3, <3>1
  <2> QED
    BY <1>1, <1>3, <2>1, <2>2, <2>3
<1>13. CASE Started
  <2>1. /\ pc = "started" /\ Rc(w.res)
        /\ UNCHANGED <<w, tmout, todo, xfered, updated>>
        /\ ip' = ip + 1 /\ pc' = "call"
    BY <1>13 DEF Started
  <2>2. /\ ret' = ret \/ ret' = 0
        /\ pid' = pid \/ pid' = [pid EXCEPT ![call.d] = TRUE]
        /\ ll' = ll \/ ll' = [ll EXCEPT !["knotd"] = 0]
    BY <1>13 DEF Started
  <2>3. [pid EXCEPT ![call.d] = TRUE] \in [Servers -> BOOLEAN]
    BY <1>3, <2>1
  <2>4. [ll EXCEPT !["knotd"] = 0] \in [Servers -> Nat]
    OBVIOUS
  <2> QED
    <3>1. pid' \in [Servers -> BOOLEAN]
      BY <2>2, <2>3
    <3>2. ll' \in [Servers -> Nat] /\ ret' \in 0..2
      BY <2>2, <2>4
    <3>3. rcode' \in BOOLEAN
      BY <2>1
    <3> QED
      BY <1>1, <1>3, <2>1, <3>1, <3>2, <3>3
<1>14. CASE StopTerm
  <2>1. \/ Stopped(call.d, TRUE) /\ tmout' = tmout
        \/ tmout' = Grace /\ pc' = "poll" /\ UNCHANGED <<ip, rcode, pid>>
    BY <1>14 DEF StopTerm
  <2>2. UNCHANGED <<ret, ll, w, todo, xfered, updated>> /\ pc = "term"
    BY <1>14 DEF StopTerm
  <2>3. CASE Stopped(call.d, TRUE) /\ tmout' = tmout
    <3>1. pc' = "call" /\ ip' = ip + 1
      BY <2>3 DEF Stopped
    <3> QED
      BY <1>1, <1>3, <2>2, <2>3, <3>1, StoppedType
  <2> QED
    BY <1>1, <2>1, <2>2, <2>3, BoundAssumption
<1>15. CASE StopPoll
  <2>1. \/ Stopped(call.d, ~clean[call.d]) /\ tmout' = tmout
        \/ Stopped(call.d, TRUE) /\ tmout' = tmout
        \/ /\ tmout > 1 /\ tmout' = tmout - 1
           /\ UNCHANGED <<ip, pc, rcode, pid>>
    BY <1>15 DEF StopPoll, Countdown
  <2>2. UNCHANGED <<ret, ll, w, todo, xfered, updated>> /\ pc = "poll"
    BY <1>15 DEF StopPoll
  <2>3. ASSUME NEW bad, Stopped(call.d, bad), tmout' = tmout
        PROVE  ShOK'
    <3>1. pc' = "call" /\ ip' = ip + 1
      BY <2>3 DEF Stopped
    <3> QED
      BY <1>1, <1>3, <2>2, <2>3, <3>1, StoppedType
  <2>4. CASE tmout > 1 /\ tmout' = tmout - 1 /\ UNCHANGED <<ip, pc, rcode, pid>>
    <3>1. tmout' \in Nat
      BY <2>4
    <3> QED
      BY <1>1, <2>2, <2>4, <3>1
  <2> QED
    BY <2>1, <2>3, <2>4
<1>16. CASE KillNamed \/ Rndc \/ Transit
  <2>1. /\ AtCall /\ ip' = ip + 1 /\ pc' = "call"
        /\ UNCHANGED <<ret, rcode, pid, ll, w, tmout, todo, xfered, updated>>
    BY <1>16 DEF KillNamed, Rndc, Transit, Calling
  <2> QED
    BY <1>1, <1>3, <2>1
<1>17. CASE Update
  <2>1. updated' \subseteq Zones
    <3>1. call.zs \in {"all", "first", "some"}
      <4>1. call \in Calls /\ call.op = "update"
        BY <1>3, <1>17, CallTypes DEF Update, Calling
      <4>2. call.op = "update" => call.zs # "updated"
        BY <1>3, <1>17, TestAssumption DEF Update, Calling, call
      <4> QED
        BY <4>1, <4>2 DEF Calls
    <3> QED
      BY <1>17, <3>1, TestTypes DEF Update
  <2> QED
    BY <1>1, <1>3, <1>17, <2>1 DEF Update, Calling
<1>18. CASE KnotdReload
  <2>1. w' \in WatchFrames /\ pc' = "probe"
    BY <1>4, <1>18, WatchType DEF KnotdReload, Servers
  <2> QED
    BY <1>1, <1>18, <2>1 DEF KnotdReload
<1>19. CASE KnotdReloaded
  BY <1>1, <1>3, <1>19 DEF KnotdReloaded
<1>20. CASE Wait \/ Dig
  <2>1. Args \subseteq Zones
    BY <1>3, <1>20, ArgsType DEF Wait, Dig, Calling
  <2> QED
    BY <1>1, <1>20, <2>1 DEF Wait, Dig
<1>21. CASE WaitZone
  <2>1. NextZone \in Zones /\ call.kind \in {"AXFR", "IXFR"} /\ ll[call.d] \in Nat
    BY <1>3, <1>21, NextZoneIsLeft, CallTypes DEF WaitZone, Calls
  <2>2. w' \in WatchFrames /\ pc' = "probe"
    BY <1>3, <1>4, <1>21, <2>1, XferPatternType, WatchType DEF WaitZone
  <2> QED
    BY <1>1, <1>21, <2>2 DEF WaitZone
<1>22. CASE WaitSeen \/ DigZone
  <2>1. NextZone \in Zones
    BY <1>22, NextZoneIsLeft DEF WaitSeen, DigZone, Places
  <2> QED
    BY <1>1, <1>22, <2>1 DEF WaitSeen, DigZone
<1>23. CASE WaitEnd
  <2>1. /\ pc = "zone" /\ Rc(ret') /\ ip' = ip + 1 /\ pc' = "call"
        /\ ret' \in 0..2
        /\ UNCHANGED <<pid, w, tmout, todo, xfered, updated>>
        /\ ll' = [ll EXCEPT ![call.d] = NextLine(call.d)]
    BY <1>23 DEF WaitEnd, TsigTest
  <2>2. NextLine(call.d) \in Nat
    BY <1>3, <2>1, LenProperties DEF NextLine, TypeOK
  <2> QED
    BY <1>1, <1>3, <2>1, <2>2
<1>24. CASE DigEnd
  BY <1>1, <1>3, <1>24 DEF DigEnd
<1>25. CASE DigKnot \/ DigName
  BY <1>1, <1>3, <1>25 DEF DigKnot, DigName, Calling
<1>26. CASE DigFile \/ SetRet
  BY <1>1, <1>3, <1>26 DEF DigFile, SetRet, SomeName, Calling
<1>27. CASE CheckCrash
  <2>1. /\ AtCall /\ rcode' \in BOOLEAN
        /\ ip' = ip + 1 \/ ip' = ip + call.skip
        /\ UNCHANGED <<pc, ret, pid, ll, w, tmout, todo, xfered, updated>>
    BY <1>27 DEF CheckCrash, Calling
  <2> QED
    BY <1>1, <1>3, <2>1
<1>28. CASE GiveUp \/ Finish
  BY <1>1, <1>28 DEF GiveUp, Finish
<1> QED
  BY <1>5, <1>6, <1>7, <1>8, <1>9, <1>10, <1>11, <1>12, <1>13, <1>14, <1>15,
     <1>16, <1>17, <1>18, <1>19, <1>20, <1>21, <1>22, <1>23, <1>24, <1>25,
     <1>26, <1>27, <1>28 DEF Shell

-----------------------------------------------------------------------------

(* The servers leave the script's own state alone. *)
LEMMA ExternalKeepsScript ==
  ASSUME External
  PROVE  sh' = sh /\ test' = test
BY DEF External, KnotcExits, KnotdReloads, Boot, Crash, Exit, LoadZone, Transfer

(* Between calls Places says nothing. *)
LEMMA OutsideCall ==
  ASSUME pc' \in {"call", "done", "exit1"}
  PROVE  Places'
BY DEF Places, Waiting

(* Each step of the script stays in its call or leaves it. *)
LEMMA ShellPlaces ==
  ASSUME TypeOK, Places, Shell
  PROVE  Places'
<1>1. ASSUME AtCall
      PROVE  ip \in DOMAIN test.calls
  BY <1>1, AtCallInDomain
<1>2. ASSUME ip' = ip, test' = test
      PROVE  call' = call
  BY <1>2 DEF call
<1>3. CASE Skip
  BY <1>3, OutsideCall DEF Skip, AtCall
<1>4. CASE WatchProbe
  <2>1. w'.then = w.then
    BY <1>4 DEF WatchProbe, TypeOK, WatchFrames
  <2>2. UNCHANGED <<test, ip, pid, tmout, todo>> /\ pc = "probe" /\ pc' = "grep"
    BY <1>4 DEF WatchProbe, env
  <2> QED
    BY <1>2, <2>1, <2>2 DEF Places, Waiting
<1>5. CASE WatchGrep
  <2>1. w'.then = w.then /\ pc' \in {"probe", w.then}
    BY <1>5, WatchGrepType
  <2>2. UNCHANGED <<test, ip, pid, tmout, todo>> /\ pc = "grep"
    BY <1>5 DEF WatchGrep, env
  <2>3. w.then \in {"started", "seen", "reloaded"}
    BY <2>2 DEF Places, TypeOK, WatchFrames
  <2> QED
    BY <1>2, <2>1, <2>2, <2>3 DEF Places, Waiting
<1>6. ASSUME NEW d \in Servers, Start(d)
      PROVE  Places'
  <2>1. AtCall /\ call.op = "start" /\ call.d = d /\ ip' = ip /\ test' = test
    BY <1>6 DEF Start, Calling, env
  <2>2. \/ pc' = "exit1"
        \/ d = "knotd" /\ pc' = "compile" /\ tmout' = CompileLimit
        \/ pc' = "probe" /\ w'.then = "started"
    BY <1>6, StartDoes, SpawnDoes
  <2> QED
    BY <1>1, <1>2, <2>1, <2>2, OutsideCall, BoundAssumption DEF Places, Waiting
<1>7. CASE CallCompile
  <2>1. AtCall /\ call.op = "compile" /\ ip' = ip /\ test' = test
        /\ pc' = "compile" /\ tmout' = CompileLimit
    BY <1>7 DEF CallCompile, Calling, Compile
  <2> QED
    BY <1>1, <1>2, <2>1, BoundAssumption DEF Places, Waiting
<1>8. CASE CompilePoll
  <2>1. /\ ip' = ip /\ test' = test /\ pc = "compile"
        /\ \/ pc' = "compile" /\ tmout' = tmout - 1 /\ tmout > 1
           \/ pc' = "compiled"
    BY <1>8 DEF CompilePoll, env, Countdown
  <2>2. pc' = "compile" => tmout' >= 1
    BY <2>1 DEF TypeOK
  <2> QED
    BY <1>2, <2>1, <2>2 DEF Places, Waiting
<1>9. CASE Compiled
  <2>1. test' = test /\ pc = "compiled"
    BY <1>9 DEF Compiled
  <2>2. \/ pc' = "call"
        \/ /\ call.op # "compile" /\ ip' = ip
           /\ pc' = "probe" /\ w'.then = "started"
    BY <1>9, CompiledDoes, SpawnDoes DEF Return
  <2> QED
    BY <1>2, <2>1, <2>2, OutsideCall DEF Places, Waiting
<1>10. ASSUME NEW d \in Servers, Stop(d)
       PROVE  Places'
  <2>1. AtCall /\ call.op = "stop" /\ call.d = d /\ test' = test
    BY <1>10 DEF Stop, Calling, env
  <2>2. \/ pc' = "call"
        \/ pc' = "term" /\ ip' = ip /\ pid' = pid /\ pid[d]
    BY <1>10 DEF Stop, Stopped, Return
  <2> QED
    BY <1>1, <1>2, <2>1, <2>2, OutsideCall DEF Places, Waiting
<1>11. CASE StopTerm
  <2>1. /\ test' = test /\ pc = "term"
        /\ \/ pc' = "call"
           \/ pc' = "poll" /\ ip' = ip /\ pid' = pid /\ tmout' = Grace
    BY <1>11 DEF StopTerm, Stopped, Return
  <2> QED
    BY <1>2, <2>1, OutsideCall, BoundAssumption DEF Places, Waiting
<1>12. CASE StopPoll
  <2>1. /\ test' = test /\ pc = "poll"
        /\ \/ pc' = "call"
           \/ /\ pc' = "poll" /\ ip' = ip /\ pid' = pid
              /\ tmout > 1 /\ tmout' = tmout - 1
    BY <1>12 DEF StopPoll, Stopped, Return, Countdown
  <2>2. pc' = "poll" => tmout' >= 1
    BY <2>1 DEF TypeOK
  <2> QED
    BY <1>2, <2>1, <2>2, OutsideCall DEF Places, Waiting
<1>13. CASE Started \/ KillNamed \/ Update \/ Rndc \/ Transit
  BY <1>13, OutsideCall DEF Started, KillNamed, Update, Rndc, Transit, Return
<1>14. CASE KnotdReloaded \/ WaitEnd \/ DigEnd \/ DigKnot \/ DigName \/ DigFile
            \/ SetRet \/ GiveUp \/ Finish
  <2>1. pc' \in {"call", "done"}
    BY <1>14 DEF KnotdReloaded, WaitEnd, DigEnd, DigKnot, DigName, DigFile,
      SetRet, GiveUp, Finish, Return
  <2> QED
    BY <2>1, OutsideCall
<1>15. CASE CheckCrash
  BY <1>15, OutsideCall DEF CheckCrash, Calling, AtCall
<1>16. CASE KnotdReload
  <2>1. AtCall /\ call.op = "kreload" /\ ip' = ip /\ test' = test
        /\ pc' = "probe" /\ w'.then = "reloaded"
    BY <1>16 DEF KnotdReload, Calling, Watch, env
  <2> QED
    BY <1>1, <1>2, <2>1 DEF Places, Waiting
<1>17. CASE Wait \/ Dig
  <2>1. AtCall /\ ip' = ip /\ test' = test
        /\ \/ call.op = "wait" /\ pc' = "zone"
           \/ call.op = "dig" /\ pc' = "dig"
    BY <1>17 DEF Wait, Dig, Calling, env
  <2> QED
    BY <1>1, <1>2, <2>1 DEF Places, Waiting
<1>18. CASE WaitZone
  <2>1. pc = "zone" /\ todo # {} /\ UNCHANGED <<ip, test, todo>>
        /\ pc' = "probe" /\ w'.then = "seen"
    BY <1>18 DEF WaitZone, Watch, env
  <2> QED
    BY <1>2, <2>1 DEF Places, Waiting
<1>19. CASE WaitSeen \/ DigZone
  <2>1. CASE WaitSeen
    <3>1. UNCHANGED <<ip, test>> /\ pc = "seen" /\ pc' = "zone"
      BY <2>1 DEF WaitSeen, env
    <3> QED
      BY <1>2, <3>1 DEF Places, Waiting
  <2>2. CASE DigZone
    <3>1. UNCHANGED <<ip, test>> /\ pc = "dig" /\ pc' = "dig"
      BY <2>2 DEF DigZone, env
    <3> QED
      BY <1>2, <3>1 DEF Places, Waiting
  <2> QED
    BY <1>19, <2>1, <2>2
<1> QED
  BY <1>3, <1>4, <1>5, <1>6, <1>7, <1>8, <1>9, <1>10, <1>11, <1>12, <1>13,
     <1>14, <1>15, <1>16, <1>17, <1>18, <1>19 DEF Shell

(* So does every step. *)
LEMMA PlacesStep == TypeOK /\ Places /\ [Next]_vars => Places'
<1> SUFFICES ASSUME TypeOK, Places, [Next]_vars PROVE Places'
  OBVIOUS
<1>1. CASE External \/ UNCHANGED vars
  <2>1. sh' = sh /\ test' = test
    BY <1>1, ExternalKeepsScript DEF vars, env
  <2>2. call' = call
    BY <2>1 DEF call, sh
  <2> QED
    BY <2>1, <2>2 DEF Places, Waiting, sh
<1> QED
  BY <1>1, ShellPlaces DEF Next, Terminated

-----------------------------------------------------------------------------

(* Most steps of the script are within a call, go on to the next call or   *)
(* leap over some, and neither start nor stop a server.                    *)
Kept == UNCHANGED <<test, proc, clean, crashed, pid>>

Inside ==
  /\ Kept /\ UNCHANGED <<ip, rcode>>
  /\ pc # "done" /\ pc' \notin {"call", "done", "exit1"}
  /\ \A d \in Servers : Starting(d)' <=> Starting(d)

Advance ==
  /\ Kept /\ (rcode => rcode')
  /\ ip \in DOMAIN test.calls /\ call.op \notin {"start", "stop"}
  /\ pc # "done" /\ pc' = "call" /\ ip' = ip + 1

Leap ==
  /\ Kept /\ (rcode => rcode')
  /\ AtCall /\ Leaps(call)
  /\ pc' = "call" /\ ip' = ip + call.skip

(* RCODE is never reset. *)
LEMMA RcKeeps == \A v : Rc(v) => (rcode => rcode')
BY Zenon DEF Rc

(* The steps within a call. *)
LEMMA InsideSteps ==
  ASSUME TypeOK, Places,
         \/ WatchProbe \/ WatchGrep \/ CallCompile \/ CompilePoll
         \/ KnotdReload \/ Wait \/ WaitZone \/ WaitSeen \/ Dig \/ DigZone
  PROVE  Inside
<1>1. /\ Kept /\ UNCHANGED <<ip, rcode>>
  BY DEF Kept, WatchProbe, WatchGrep, CallCompile, Compile, CompilePoll,
    KnotdReload, Wait, WaitZone, WaitSeen, Dig, DigZone, env
<1>2. call' = call
  BY <1>1 DEF call, Kept
<1>3. CASE WatchProbe
  <2>1. w'.then = w.then /\ pc = "probe" /\ pc' = "grep"
    BY <1>3 DEF WatchProbe, TypeOK, WatchFrames
  <2> QED
    BY <1>1, <1>2, <2>1 DEF Inside, Starting, Waiting
<1>4. CASE WatchGrep
  <2>1. w'.then = w.then /\ pc' \in {"probe", w.then} /\ pc = "grep"
    BY <1>4, WatchGrepType DEF WatchGrep
  <2>2. w.then \in {"started", "seen", "reloaded"}
    BY <2>1 DEF Places, TypeOK, WatchFrames
  <2>3. pc' = "seen" \/ pc' = "reloaded" => call.op # "start"
    BY <2>1, <2>2 DEF Places, Waiting
  <2> QED
    BY <1>1, <1>2, <2>1, <2>2, <2>3 DEF Inside, Starting, Waiting
<1>5. CASE CallCompile \/ CompilePoll
  <2>1. pc \in {"call", "compile"} /\ pc' \in {"compile", "compiled"}
    BY <1>5 DEF CallCompile, CompilePoll, Compile, Calling, AtCall
  <2> QED
    BY <1>1, <1>2, <2>1 DEF Inside, Starting, Waiting
<1>6. CASE KnotdReload
  <2>1. pc = "call" /\ pc' = "probe" /\ call.op = "kreload"
    BY <1>6 DEF KnotdReload, Calling, AtCall, Watch
  <2> QED
    BY <1>1, <1>2, <2>1 DEF Inside, Starting, Waiting
<1>7. CASE Wait \/ Dig
  <2>1. pc = "call" /\ pc' \in {"zone", "dig"}
    BY <1>7 DEF Wait, Dig, Calling, AtCall
  <2> QED
    BY <1>1, <1>2, <2>1 DEF Inside, Starting, Waiting
<1>8. CASE WaitZone
  <2>1. pc = "zone" /\ pc' = "probe" /\ call.op = "wait"
    BY <1>8 DEF WaitZone, Watch, Places
  <2> QED
    BY <1>1, <1>2, <2>1 DEF Inside, Starting, Waiting
<1>9. CASE WaitSeen
  <2>1. pc = "seen" /\ pc' = "zone"
    BY <1>9 DEF WaitSeen
  <2> QED
    BY <1>1, <1>2, <2>1 DEF Inside, Starting, Waiting
<1>10. CASE DigZone
  <2>1. pc = "dig" /\ pc' = "dig"
    BY <1>10 DEF DigZone
  <2> QED
    BY <1>1, <1>2, <2>1 DEF Inside, Starting, Waiting
<1> QED
  BY <1>3, <1>4, <1>5, <1>6, <1>7, <1>8, <1>9, <1>10

(* The steps to the next call. *)
LEMMA AdvanceSteps ==
  ASSUME TypeOK, Places,
         \/ Update \/ Rndc \/ Transit \/ KnotdReloaded \/ WaitEnd \/ DigEnd
         \/ DigKnot \/ DigName \/ DigFile \/ SetRet
  PROVE  Advance
<1>1. AtCall => ip \in DOMAIN test.calls /\ pc = "call"
  BY AtCallInDomain DEF AtCall
<1>2. CASE Update \/ Rndc \/ Transit \/ DigFile \/ SetRet
  <2>1. /\ Kept /\ rcode' = rcode /\ AtCall /\ pc' = "call" /\ ip' = ip + 1
        /\ call.op \notin {"start", "stop"}
    BY <1>2 DEF Update, Rndc, Transit, DigFile, SetRet, Kept, env, Return,
      Calling
  <2> QED
    BY <1>1, <2>1 DEF Advance
<1>3. CASE DigKnot \/ DigName
  <2>1. /\ Kept /\ AtCall /\ pc' = "call" /\ ip' = ip + 1
        /\ call.op \notin {"start", "stop"} /\ \E v : Rc(v)
    BY <1>3 DEF DigKnot, DigName, Kept, env, Return, Calling
  <2> QED
    BY <1>1, <2>1, RcKeeps DEF Advance
<1>4. CASE KnotdReloaded \/ WaitEnd \/ DigEnd
  <2>1. /\ Kept /\ pc \in {"reloaded", "zone", "dig"}
        /\ pc' = "call" /\ ip' = ip + 1 /\ \E v : Rc(v)
    BY <1>4 DEF KnotdReloaded, WaitEnd, DigEnd, Kept, env, Return
  <2>2. ip \in DOMAIN test.calls /\ call.op \notin {"start", "stop"}
    BY <2>1 DEF Places
  <2> QED
    BY <2>1, <2>2, RcKeeps DEF Advance
<1> QED
  BY <1>2, <1>3, <1>4

(* The steps that leap over calls, or need not. *)
LEMMA LeapSteps ==
  ASSUME TypeOK, Places, Skip \/ CheckCrash
  PROVE  Advance \/ Leap
<1>1. CASE Skip
  <2>1. Leaps(call)
    BY <1>1 DEF Skip, Guarded, Leaps
  <2>2. Kept /\ rcode' = rcode /\ AtCall /\ pc' = "call" /\ ip' = ip + call.skip
    BY <1>1 DEF Skip, Kept, env, AtCall
  <2> QED
    BY <2>1, <2>2 DEF Leap
<1>2. CASE CheckCrash
  <2>1. /\ Kept /\ AtCall /\ pc = "call" /\ pc' = "call"
        /\ call.op = "crashed" /\ \E v : Rc(v)
        /\ ip' = ip + 1 \/ ip' = ip + call.skip
    BY <1>2 DEF CheckCrash, Kept, env, Calling, AtCall
  <2>2. Leaps(call) /\ ip \in DOMAIN test.calls
    BY <2>1, AtCallInDomain DEF Leaps
  <2> QED
    BY <2>1, <2>2, RcKeeps DEF Leap, Advance
<1> QED
  BY <1>1, <1>2

(* The others start, stop or kill a server, or end the script. *)
LEMMA ShellClasses ==
  ASSUME TypeOK, Places, Shell
  PROVE  \/ Inside \/ Advance \/ Leap
         \/ \E d \in Servers : Start(d) \/ Stop(d)
         \/ Compiled \/ Started \/ StopTerm \/ StopPoll \/ KillNamed
         \/ GiveUp \/ Finish
BY InsideSteps, AdvanceSteps, LeapSteps DEF Shell

(* A step that neither starts nor stops a server keeps its owner. *)
LEMMA KeptOwned ==
  ASSUME Owned, Kept, NEW d \in Servers, Starting(d)' <=> Starting(d)
  PROVE  /\ proc'[d] \in {"booting", "up", "stopping"} => pid'[d] \/ Starting(d)'
         /\ proc'[d] = "stray" => d = "knotd" /\ ~pid'[d] /\ ~Starting(d)'
<1>1. proc'[d] = proc[d] /\ pid'[d] = pid[d]
  BY DEF Kept
<1>2. /\ proc[d] \in {"booting", "up", "stopping"} => pid[d] \/ Starting(d)
      /\ proc[d] = "stray" => d = "knotd" /\ ~pid[d] /\ ~Starting(d)
  BY DEF Owned
<1>3. pid'[d] <=> pid[d]
  BY <1>1
<1> QED
  BY <1>1, <1>2, <1>3

(* What the servers do keeps their owners. *)
LEMMA ExternalOwned ==
  ASSUME TypeOK, Owned, External
  PROVE  Owned'
<1>1. sh' = sh /\ test' = test
  BY ExternalKeepsScript
<1>2. \A d \in Servers : pid'[d] = pid[d] /\ (Starting(d)' <=> Starting(d))
  BY <1>1 DEF sh, Starting, Waiting, call
<1>3. \A d \in Servers :
        \/ proc'[d] = proc[d] \/ proc'[d] = "off"
        \/ (proc[d] = "booting" /\ proc'[d] = "up")
  <2>1. \/ proc' = proc
        \/ \E e \in Servers : proc' = [proc EXCEPT ![e] = "off"]
        \/ \E e \in Servers : /\ proc[e] = "booting"
                              /\ proc' = [proc EXCEPT ![e] = "up"]
    BY DEF External, KnotcExits, KnotdReloads, LoadZone, Transfer, Boot, Crash,
      Exit
  <2>2. proc \in [Servers -> {"off", "stray", "booting", "up", "stopping"}]
    BY DEF TypeOK
  <2> QED
    BY <2>1, <2>2
<1> QED
  BY <1>2, <1>3 DEF Owned

(* Every process stays the script's own, or another run's. *)
LEMMA OwnedStep == TypeOK /\ Places /\ Owned /\ [Next]_vars => Owned'
<1> SUFFICES ASSUME TypeOK, Places, Owned, [Next]_vars PROVE Owned'
  OBVIOUS
<1> DEFINE Own(d) ==
      /\ proc[d] \in {"booting", "up", "stopping"} => pid[d] \/ Starting(d)
      /\ proc[d] = "stray" => d = "knotd" /\ ~pid[d] /\ ~Starting(d)
<1>0. \A d \in Servers : Own(d)
  BY DEF Owned
<1>1. ASSUME NEW d \in Servers, pc \notin {"probe", "grep", "started"}
      PROVE  ~Starting(d)
  BY <1>1 DEF Starting, Waiting
<1>2. ASSUME NEW d \in Servers, pc' \notin {"probe", "grep", "started"}
      PROVE  ~Starting(d)'
  BY <1>2 DEF Starting, Waiting
<1>3. CASE External
  BY <1>3, ExternalOwned
<1>4. CASE UNCHANGED vars
  BY <1>4 DEF Owned, vars, env, sh, Starting, Waiting, call
<1>5. CASE Inside
  BY <1>5, KeptOwned DEF Owned, Inside
<1>6. CASE Advance \/ Leap
  <2>1. /\ Kept /\ pc' = "call"
        /\ pc = "call" \/ call.op # "start"
    BY <1>6 DEF Advance, Leap, AtCall
  <2>2. \A d \in Servers : ~Starting(d) /\ ~Starting(d)'
    BY <1>1, <1>2, <2>1 DEF Starting
  <2> QED
    BY <2>1, <2>2, KeptOwned DEF Owned
<1>7. CASE GiveUp \/ Finish
  <2>1. Kept /\ pc = "call" /\ pc' = "done"
    BY <1>7 DEF GiveUp, Finish, Kept, env, Calling, AtCall
  <2>2. \A d \in Servers : ~Starting(d) /\ ~Starting(d)'
    BY <1>1, <1>2, <2>1
  <2> QED
    BY <2>1, <2>2, KeptOwned DEF Owned
<1>8. ASSUME NEW e \in Servers, Start(e)
      PROVE  Owned'
  <2>1. pc = "call" /\ call.op = "start" /\ call.d = e
        /\ ip' = ip /\ test' = test /\ pid' = pid
    BY <1>8 DEF Start, Calling, AtCall, env, Compile, Spawn
  <2>2. call' = call
    BY <2>1 DEF call
  <2>3. \/ proc' = proc /\ pc' \in {"exit1", "compile"}
        \/ /\ proc' = [proc EXCEPT ![e] = "booting"]
           /\ pc' = "probe" /\ w'.then = "started"
    BY <1>8, StartDoes, SpawnDoes
  <2>4. CASE proc' = proc /\ pc' \in {"exit1", "compile"}
    BY <1>1, <1>2, <2>1, <2>4 DEF Owned
  <2>5. CASE /\ proc' = [proc EXCEPT ![e] = "booting"]
             /\ pc' = "probe" /\ w'.then = "started"
    <3>1. proc'[e] = "booting" /\ \A d \in Servers : d # e => proc'[d] = proc[d]
      BY <2>5 DEF TypeOK
    <3>2. Starting(e)' /\ \A d \in Servers : d # e => ~Starting(d)'
      BY <2>1, <2>2, <2>5 DEF Starting, Waiting
    <3> QED
      BY <1>1, <2>1, <3>1, <3>2 DEF Owned
  <2> QED
    BY <2>3, <2>4, <2>5
<1>9. CASE Compiled
  <2>1. pc = "compiled" /\ test' = test /\ pid' = pid
    BY <1>9 DEF Compiled
  <2>2. \/ proc' = proc /\ pc' = "call"
        \/ /\ proc' = [proc EXCEPT !["knotd"] = "booting"] /\ ip' = ip
           /\ pc' = "probe" /\ w'.then = "started" /\ call.op # "compile"
    BY <1>9, CompiledDoes, SpawnDoes DEF Return
  <2>3. CASE proc' = proc /\ pc' = "call"
    BY <1>1, <1>2, <2>1, <2>3 DEF Owned
  <2>4. CASE /\ proc' = [proc EXCEPT !["knotd"] = "booting"] /\ ip' = ip
             /\ pc' = "probe" /\ w'.then = "started" /\ call.op # "compile"
    <3>0. call' = call /\ call.op = "start" /\ call.d = "knotd"
      BY <2>1, <2>4 DEF Places, call
    <3>1. proc'["knotd"] = "booting"
          /\ \A d \in Servers : d # "knotd" => proc'[d] = proc[d]
      BY <2>4 DEF TypeOK, Servers
    <3>2. Starting("knotd")' /\ \A d \in Servers : d # "knotd" => ~Starting(d)'
      BY <2>4, <3>0 DEF Starting, Waiting
    <3> QED
      BY <1>1, <2>1, <3>1, <3>2 DEF Owned
  <2> QED
    BY <2>2, <2>3, <2>4
<1>10. CASE Started
  <2>1. /\ pc = "started" /\ pc' = "call" /\ call.op = "start"
        /\ call.d \in Servers
    BY <1>10, CallTypes DEF Started, Return, Places, TypeOK
  <2>2. Starting(call.d) /\ \A d \in Servers : d # call.d => ~Starting(d)
    BY <2>1 DEF Starting
  <2>3. \A d \in Servers : ~Starting(d)'
    BY <1>2, <2>1
  <2>4. \/ proc' = [proc EXCEPT ![call.d] = "off"] /\ pid' = pid
        \/ proc' = proc /\ pid' = [pid EXCEPT ![call.d] = TRUE]
    BY <1>10 DEF Started, Kill9
  <2>5. /\ \A d \in Servers : d # call.d => proc'[d] = proc[d] /\ pid'[d] = pid[d]
        /\ \/ proc'[call.d] = "off"
           \/ proc'[call.d] = proc[call.d] /\ pid'[call.d]
    BY <2>1, <2>4 DEF TypeOK
  <2> HIDE DEF Starting
  <2> QED
    BY <2>1, <2>2, <2>3, <2>5 DEF Owned
<1>11. ASSUME NEW e \in Servers, Stop(e)
       PROVE  Owned'
  <2>1. pc = "call" /\ pc' \in {"call", "term"} /\ proc' = proc
    BY <1>11 DEF Stop, Calling, AtCall, env, Stopped, Return
  <2>2. \/ pid' = pid
        \/ pid' = [pid EXCEPT ![e] = FALSE] /\ (~pid[e] \/ proc[e] = "off")
    BY <1>11 DEF Stop, Stopped
  <2>3. \A d \in Servers : pid'[d] = pid[d] \/ (~pid'[d] /\ proc[d] = "off")
    BY <2>2 DEF TypeOK
  <2>4. \A d \in Servers : ~Starting(d) /\ ~Starting(d)'
    BY <1>1, <1>2, <2>1
  <2> QED
    BY <2>1, <2>3, <2>4 DEF Owned
<1>12. CASE StopTerm \/ StopPoll
  <2>1. /\ pc \in {"term", "poll"} /\ pc' \in {"call", "poll"}
        /\ call.d \in Servers /\ pid[call.d]
    BY <1>12, CallTypes DEF StopTerm, StopPoll, Places, TypeOK, Stopped, Return
  <2>2. \A d \in Servers : ~Starting(d) /\ ~Starting(d)'
    BY <1>1, <1>2, <2>1
  <2>3. \/ /\ pid' = [pid EXCEPT ![call.d] = FALSE]
           /\ \/ proc' = proc /\ proc[call.d] = "off"
              \/ proc' = [proc EXCEPT ![call.d] = "off"]
        \/ /\ pid' = pid
           /\ proc' = proc \/ proc' = [proc EXCEPT ![call.d] = "stopping"]
    BY <1>12 DEF StopTerm, StopPoll, Stopped, Kill9
  <2>4. /\ \A d \in Servers : d # call.d => proc'[d] = proc[d] /\ pid'[d] = pid[d]
        /\ \/ proc'[call.d] = "off"
           \/ pid'[call.d] /\ proc'[call.d] # "stray"
    BY <2>1, <2>3 DEF TypeOK, Owned
  <2> QED
    BY <2>2, <2>4 DEF Owned
<1>13. CASE KillNamed
  <2>1. /\ proc' = [proc EXCEPT !["named"] = "off"] /\ pid' = pid
        /\ pc = "call" /\ pc' = "call"
    BY <1>13 DEF KillNamed, Kill9, Calling, AtCall, Return
  <2>2. \A d \in Servers : proc'[d] = proc[d] \/ proc'[d] = "off"
    BY <2>1 DEF TypeOK
  <2> QED
    BY <1>1, <1>2, <2>1, <2>2 DEF Owned
<1> QED
  BY <1>3, <1>4, <1>5, <1>6, <1>7, <1>8, <1>9, <1>10, <1>11, <1>12, <1>13,
     ShellClasses DEF Next, Terminated

-----------------------------------------------------------------------------

(* A witness of MayRun. *)
LEMMA MayRunIntro ==
  ASSUME NEW t, NEW d, NEW m, NEW h \in 1..(m - 1),
         t.calls[h].op = "start", t.calls[h].d = d,
         \A k \in (h + 1)..(m - 1) :
           t.calls[k].op = "stop" /\ t.calls[k].d = d =>
             \E g \in (h + 1)..k : /\ Leaps(t.calls[g])
                                   /\ k < g + t.calls[g].skip
                                   /\ g + t.calls[g].skip <= m
  PROVE  MayRun(t, d, m)
BY Zenon DEF MayRun

(* A server that may run at a call may still run after it, unless the call *)
(* stops it.                                                               *)
LEMMA MayRunNext ==
  ASSUME NEW t \in Tests, NEW d \in Servers, NEW i \in DOMAIN t.calls,
         MayRun(t, d, i), ~(t.calls[i].op = "stop" /\ t.calls[i].d = d)
  PROVE  MayRun(t, d, i + 1)
<1> DEFINE m == i + 1
<1>1. i \in Nat /\ m = i + 1
  BY ScriptTypes
<1> HIDE DEF m
<1>2. PICK j \in 1..(i - 1) :
        /\ t.calls[j].op = "start" /\ t.calls[j].d = d
        /\ \A k \in (j + 1)..(i - 1) :
             t.calls[k].op = "stop" /\ t.calls[k].d = d =>
               \E g \in (j + 1)..k : /\ Leaps(t.calls[g])
                                     /\ k < g + t.calls[g].skip
                                     /\ g + t.calls[g].skip <= i
  BY DEF MayRun
<1>3. ASSUME NEW k \in (j + 1)..(m - 1),
             t.calls[k].op = "stop" /\ t.calls[k].d = d
      PROVE  \E g \in (j + 1)..k : /\ Leaps(t.calls[g])
                                   /\ k < g + t.calls[g].skip
                                   /\ g + t.calls[g].skip <= m
  <2>1. k \in (j + 1)..(i - 1)
    BY <1>1, <1>3
  <2>2. PICK g \in (j + 1)..k : /\ Leaps(t.calls[g])
                                /\ k < g + t.calls[g].skip
                                /\ g + t.calls[g].skip <= i
    BY <1>2, <1>3, <2>1
  <2>3. t.calls[g].skip \in Nat
    BY <1>1, <2>1, <2>2, ScriptTypes
  <2> QED
    BY <1>1, <2>1, <2>2, <2>3
<1>4. j \in 1..(m - 1)
  BY <1>1, <1>2
<1>5. \A k \in (j + 1)..(m - 1) :
        t.calls[k].op = "stop" /\ t.calls[k].d = d =>
          \E g \in (j + 1)..k : /\ Leaps(t.calls[g])
                                /\ k < g + t.calls[g].skip
                                /\ g + t.calls[g].skip <= m
  BY <1>3
<1> QED
  <2>1. MayRun(t, d, m)
    BY <1>2, <1>4, <1>5, MayRunIntro, Zenon
  <2> QED
    BY <1>1, <2>1

(* After a leap it may still run in any case. *)
LEMMA MayRunLeap ==
  ASSUME NEW t \in Tests, NEW d \in Servers, NEW i \in DOMAIN t.calls,
         MayRun(t, d, i), Leaps(t.calls[i])
  PROVE  MayRun(t, d, i + t.calls[i].skip)
<1> DEFINE m == i + t.calls[i].skip
<1>1. i \in Nat /\ t.calls[i].skip \in Nat /\ m \in Nat /\ m > i
      /\ m = i + t.calls[i].skip
  BY ScriptTypes
<1> HIDE DEF m
<1>2. PICK j \in 1..(i - 1) :
        /\ t.calls[j].op = "start" /\ t.calls[j].d = d
        /\ \A k \in (j + 1)..(i - 1) :
             t.calls[k].op = "stop" /\ t.calls[k].d = d =>
               \E g \in (j + 1)..k : /\ Leaps(t.calls[g])
                                     /\ k < g + t.calls[g].skip
                                     /\ g + t.calls[g].skip <= i
  BY DEF MayRun
<1>3. ASSUME NEW k \in (j + 1)..(m - 1),
             t.calls[k].op = "stop" /\ t.calls[k].d = d
      PROVE  \E g \in (j + 1)..k : /\ Leaps(t.calls[g])
                                   /\ k < g + t.calls[g].skip
                                   /\ g + t.calls[g].skip <= m
  <2>1. CASE k \in (j + 1)..(i - 1)
    <3>1. PICK g \in (j + 1)..k : /\ Leaps(t.calls[g])
                                  /\ k < g + t.calls[g].skip
                                  /\ g + t.calls[g].skip <= i
      BY <1>2, <1>3, <2>1
    <3>2. t.calls[g].skip \in Nat
      BY <1>1, <2>1, <3>1, ScriptTypes
    <3> QED
      BY <1>1, <2>1, <3>1, <3>2
  <2>2. CASE k >= i
    <3>1. i \in (j + 1)..k /\ k < m
      BY <1>1, <1>2, <2>2
    <3>2. Leaps(t.calls[i]) /\ i + t.calls[i].skip = m /\ m <= m
      BY <1>1
    <3> QED
      BY <3>1, <3>2
  <2> QED
    BY <1>1, <2>1, <2>2
<1>4. j \in 1..(m - 1)
  BY <1>1, <1>2
<1>5. \A k \in (j + 1)..(m - 1) :
        t.calls[k].op = "stop" /\ t.calls[k].d = d =>
          \E g \in (j + 1)..k : /\ Leaps(t.calls[g])
                                /\ k < g + t.calls[g].skip
                                /\ g + t.calls[g].skip <= m
  BY <1>3
<1> QED
  <2>1. MayRun(t, d, m)
    BY <1>2, <1>4, <1>5, MayRunIntro, Zenon
  <2> QED
    BY <1>1, <2>1

(* A server that is started may run. *)
LEMMA MayRunStart ==
  ASSUME NEW t \in Tests, NEW d \in Servers, NEW i \in DOMAIN t.calls,
         t.calls[i].op = "start", t.calls[i].d = d
  PROVE  MayRun(t, d, i + 1)
<1>1. i \in 1..(i + 1 - 1) /\ (i + 1)..(i + 1 - 1) = {}
  BY ScriptTypes
<1> QED
  BY <1>1 DEF MayRun

(* A call after one that starts no server is not made because a start      *)
(* failed.                                                                 *)
LEMMA StartFailedAfter ==
  ASSUME NEW t \in Tests, NEW d \in Servers, NEW i \in DOMAIN t.calls,
         ~(t.calls[i].op = "start" /\ t.calls[i].d = d)
  PROVE  ~IfStartFailed(t, d, i + 1)
<1>1. (i + 1) - 1 = i
  BY ScriptTypes
<1> QED
  BY <1>1 DEF IfStartFailed

(* Nor is one that a leap comes to. *)
LEMMA StartFailedLeap ==
  ASSUME NEW t \in Tests, NEW d \in Servers, NEW i \in DOMAIN t.calls,
         Leaps(t.calls[i])
  PROVE  ~IfStartFailed(t, d, i + t.calls[i].skip)
<1>1. i \in 1..((i + t.calls[i].skip) - 1)
  BY ScriptTypes
<1> QED
  BY <1>1 DEF IfStartFailed

(* A script starts a server only while none of its own can run. *)
LEMMA NoPidAtStart ==
  ASSUME TypeOK, Known, pc # "done", ip \in DOMAIN test.calls,
         call.op = "start"
  PROVE  ~pid[call.d]
<1>1. test \in Tests /\ call.d \in Servers
  BY CallTypes DEF TypeOK
<1>2. ~MayRun(test, call.d, ip)
  BY <1>1, BalancedAssumption DEF Balanced, call
<1> QED
  BY <1>1, <1>2 DEF Known

(* The PIDs stay those of servers that may run. *)
LEMMA KnownStep == TypeOK /\ Places /\ Known /\ [Next]_vars => Known'
<1> SUFFICES ASSUME TypeOK, Places, Known, [Next]_vars PROVE Known'
  OBVIOUS
<1>0. test \in Tests /\ pid \in [Servers -> BOOLEAN]
  BY DEF TypeOK
<1>1. ASSUME NEW d \in Servers, pc # "done", pid[d]
      PROVE  MayRun(test, d, ip)
  BY <1>1 DEF Known
<1>2. AtCall => ip \in DOMAIN test.calls /\ pc = "call"
  BY AtCallInDomain DEF AtCall
<1>3. ASSUME ip \in DOMAIN test.calls, pc # "done", pc' = "call",
             test' = test, ip' = ip + 1, call.op # "stop",
             \A d \in Servers :
               /\ pid'[d] => pid[d] \/ (call.op = "start" /\ call.d = d)
               /\ pid'[d] /\ call.op = "start" /\ call.d = d => ret' = 0
      PROVE  Known'
  <2>1. ASSUME NEW d \in Servers, pid'[d]
        PROVE  MayRun(test, d, ip + 1)
    <3>1. CASE call.op = "start" /\ call.d = d
      BY <1>0, <1>3, <3>1, MayRunStart DEF call
    <3>2. CASE pid[d]
      BY <1>0, <1>1, <1>3, <3>2, MayRunNext DEF call
    <3> QED
      BY <1>3, <2>1, <3>1, <3>2
  <2>2. ASSUME NEW d \in Servers, IfStartFailed(test, d, ip + 1), pid'[d]
        PROVE  ret' = 0
    <3>1. call.op = "start" /\ call.d = d
      BY <1>0, <1>3, <2>2, StartFailedAfter DEF call
    <3> QED
      BY <1>3, <2>2, <3>1
  <2> QED
    BY <1>3, <2>1, <2>2 DEF Known
<1>4. ASSUME UNCHANGED <<test, ip, pid>>, pc # "done",
             pc' \notin {"call", "done"}
      PROVE  Known'
  BY <1>1, <1>4 DEF Known, AtCall
<1>5. CASE External \/ UNCHANGED vars
  <2>1. UNCHANGED <<test, ip, pid, pc, ret, rcode>>
    BY <1>5, ExternalKeepsScript DEF vars, env, sh
  <2> QED
    BY <2>1 DEF Known, AtCall
<1>6. CASE Inside
  BY <1>4, <1>6 DEF Inside, Kept
<1>7. CASE Advance
  BY <1>3, <1>7 DEF Advance, Kept
<1>8. CASE Leap
  <2>1. /\ ip \in DOMAIN test.calls /\ pc = "call" /\ pc' = "call"
        /\ test' = test /\ pid' = pid /\ ip' = ip + test.calls[ip].skip
        /\ Leaps(test.calls[ip])
    BY <1>2, <1>8 DEF Leap, Kept, call
  <2>2. \A d \in Servers : pid[d] => MayRun(test, d, ip + test.calls[ip].skip)
    BY <1>0, <1>1, <2>1, MayRunLeap
  <2>3. \A d \in Servers : ~IfStartFailed(test, d, ip + test.calls[ip].skip)
    BY <1>0, <2>1, StartFailedLeap
  <2> QED
    BY <2>1, <2>2, <2>3 DEF Known
<1>9. ASSUME NEW e \in Servers, Start(e)
      PROVE  Known'
  <2>1. /\ pc = "call" /\ pc' \in {"exit1", "compile", "probe"}
        /\ UNCHANGED <<test, ip, pid>>
    BY <1>9 DEF Start, Calling, AtCall, env, Compile, Spawn, Watch
  <2> QED
    BY <1>4, <2>1
<1>10. CASE Compiled
  <2>1. /\ pc = "compiled" /\ test' = test /\ pid' = pid
        /\ \/ pc' = "call" /\ ip' = ip + 1
           \/ pc' = "probe" /\ ip' = ip
    BY <1>10 DEF Compiled, Return, Spawn, Watch
  <2>2. ip \in DOMAIN test.calls /\ call.op # "stop"
    BY <2>1 DEF Places
  <2>3. call.op = "start" => ~pid[call.d]
    BY <2>1, <2>2, NoPidAtStart
  <2>4. CASE pc' = "call" /\ ip' = ip + 1
    BY <1>3, <2>1, <2>2, <2>3, <2>4
  <2> QED
    BY <1>4, <2>1, <2>4
<1>11. CASE Started
  <2>1. pc = "started" /\ pc' = "call" /\ test' = test /\ ip' = ip + 1
    BY <1>11 DEF Started, Return
  <2>2. ip \in DOMAIN test.calls /\ call.op = "start" /\ ~pid[call.d]
    <3>1. ip \in DOMAIN test.calls /\ call.op = "start" /\ pc # "done"
      BY <2>1 DEF Places
    <3> QED
      BY <3>1, NoPidAtStart
  <2>3. \/ pid' = pid
        \/ pid' = [pid EXCEPT ![call.d] = TRUE] /\ ret' = 0
    BY <1>11 DEF Started
  <2>4. \A d \in Servers :
          /\ pid'[d] => pid[d] \/ call.d = d
          /\ pid'[d] /\ call.d = d => ret' = 0
    BY <1>0, <2>2, <2>3
  <2> QED
    BY <1>3, <2>1, <2>2, <2>4
<1>12. ASSUME NEW e \in Servers, pc # "done", ip \in DOMAIN test.calls,
              test' = test, call.op = "stop", call.d = e,
              NEW bad, Stopped(e, bad)
       PROVE  Known'
  <2>1. pc' = "call" /\ ip' = ip + 1 /\ pid' = [pid EXCEPT ![e] = FALSE]
    BY <1>12 DEF Stopped, Return
  <2>2. \A d \in Servers : pid'[d] => pid[d] /\ d # e
    BY <1>0, <2>1
  <2>3. \A d \in Servers : pid'[d] => MayRun(test, d, ip + 1)
    BY <1>0, <1>1, <1>12, <2>2, MayRunNext DEF call
  <2>4. \A d \in Servers : ~IfStartFailed(test, d, ip + 1)
    BY <1>0, <1>12, StartFailedAfter DEF call
  <2> QED
    BY <1>12, <2>1, <2>3, <2>4 DEF Known
<1>13. ASSUME NEW e \in Servers, Stop(e)
       PROVE  Known'
  <2>1. AtCall /\ call.op = "stop" /\ call.d = e /\ test' = test
    BY <1>13 DEF Stop, Calling, env
  <2>2. \/ pc' = "term" /\ UNCHANGED <<ip, pid>>
        \/ Stopped(e, TRUE)
    BY <1>13 DEF Stop
  <2> QED
    BY <1>2, <1>4, <1>12, <2>1, <2>2
<1>14. CASE StopTerm \/ StopPoll
  <2>1. /\ pc \in {"term", "poll"} /\ test' = test
        /\ \/ pc' = "poll" /\ UNCHANGED <<ip, pid>>
           \/ Stopped(call.d, TRUE)
           \/ Stopped(call.d, ~clean[call.d])
    BY <1>14 DEF StopTerm, StopPoll
  <2>2. ip \in DOMAIN test.calls /\ call.op = "stop" /\ call.d \in Servers
    BY <1>0, <2>1, CallTypes DEF Places
  <2> QED
    BY <1>4, <1>12, <2>1, <2>2
<1>15. CASE KillNamed
  <2>1. /\ AtCall /\ call.op = "kill9" /\ pc' = "call" /\ ip' = ip + 1
        /\ pid' = pid /\ test' = test
    BY <1>15 DEF KillNamed, Calling, Return
  <2> QED
    BY <1>2, <1>3, <2>1
<1>16. CASE GiveUp
  <2>1. AtCall /\ call.op = "exit" /\ Guarded /\ pc' = "done"
        /\ UNCHANGED <<test, pid>> /\ Rc(1)
    BY <1>16 DEF GiveUp, Calling, env
  <2>2. rcode'
    <3>1. 1 # 0
      OBVIOUS
    <3> QED
      BY <2>1, <3>1, Zenon DEF Rc
  <2>3. ASSUME NEW d \in Servers, pid[d]
        PROVE  ~Stops(test, d)
    <3>1. MayRun(test, d, ip)
      BY <1>1, <1>2, <2>1, <2>3
    <3>2. ~IfStartFailed(test, d, ip)
      <4>1. call.when = "failed" => ret # 0
        BY <2>1 DEF Guarded
      <4>2. IfStartFailed(test, d, ip) => call.when = "failed"
        BY DEF IfStartFailed, call
      <4> QED
        BY <2>1, <2>3, <4>1, <4>2 DEF Known
    <3> QED
      BY <1>0, <1>2, <2>1, <3>1, <3>2, BalancedAssumption DEF Balanced, call
  <2> QED
    BY <2>1, <2>2, <2>3 DEF Known, AtCall
<1>17. CASE Finish
  <2>1. pc = "call" /\ pc' = "done" /\ ip = Len(test.calls) + 1
        /\ UNCHANGED <<test, pid>>
    BY <1>17, TestTypes DEF Finish, TypeOK, env
  <2>2. ASSUME NEW d \in Servers, pid[d]
        PROVE  ~Stops(test, d) /\ d # "knotd"
    <3>1. MayRun(test, d, Len(test.calls) + 1)
      BY <1>1, <2>1, <2>2
    <3> QED
      BY <1>0, <3>1, BalancedAssumption DEF Balanced
  <2> QED
    BY <2>1, <2>2 DEF Known, AtCall
<1> QED
  BY <1>5, <1>6, <1>7, <1>8, <1>9, <1>10, <1>11, <1>13, <1>14, <1>15, <1>16,
     <1>17, ShellClasses DEF Next, Terminated

(* A crash of knotd stays reported, or to be reported. *)
LEMMA CrashStep ==
  TypeOK /\ Places /\ Owned /\ Known /\ CrashPending /\ [Next]_vars
    => CrashPending'
<1> SUFFICES ASSUME TypeOK, Places, Owned, Known, CrashPending, [Next]_vars,
                    crashed'["knotd"] > 0, ~rcode'
             PROVE  /\ proc'["knotd"] = "off" /\ ~clean'["knotd"]
                    /\ pid'["knotd"] \/ Starting("knotd")'
  BY DEF CrashPending
<1> DEFINE Pending ==
      /\ proc["knotd"] = "off" /\ ~clean["knotd"]
      /\ pid["knotd"] \/ Starting("knotd")
<1>0. /\ proc \in [Servers -> {"off", "stray", "booting", "up", "stopping"}]
      /\ clean \in [Servers -> BOOLEAN] /\ pid \in [Servers -> BOOLEAN]
      /\ crashed \in [Servers -> 0..MaxCrash] /\ w.res \in 0..2
      /\ "knotd" \in Servers /\ "named" \in Servers
  BY DEF TypeOK, Servers, WatchFrames
<1>1. AtCall => ip \in DOMAIN test.calls /\ pc = "call"
  BY AtCallInDomain DEF AtCall
<1>2. ASSUME crashed' = crashed, ~rcode
      PROVE  Pending
  BY <1>2 DEF CrashPending
<1>3. ASSUME Pending, UNCHANGED <<proc, clean, pid>>,
             pc \notin {"probe", "grep", "started"} \/ call.op # "start"
      PROVE  Pending'
  <2>1. ~Starting("knotd")
    BY <1>3 DEF Starting, Waiting
  <2> QED
    BY <1>3, <2>1
<1>4. ASSUME NEW e \in Servers, AtCall \/ pc \in {"term", "poll"},
             ip \in DOMAIN test.calls, crashed' = crashed, clean' = clean,
             proc' = proc, NEW bad, e = "knotd" /\ ~clean["knotd"] => bad,
             Stopped(e, bad)
      PROVE  Pending'
  <2>1. ~rcode
    BY <1>4, Zenon DEF Stopped
  <2>2. Pending
    BY <1>2, <1>4, <2>1
  <2>3. e # "knotd"
    BY <1>4, <2>2, Zenon DEF Stopped
  <2>4. pid'["knotd"] = pid["knotd"]
    BY <1>0, <1>4, <2>3 DEF Stopped
  <2>5. ~Starting("knotd")
    BY <1>4 DEF Starting, Waiting, AtCall
  <2> QED
    BY <1>4, <2>2, <2>4, <2>5
<1> SUFFICES Pending'
  OBVIOUS
<1>5. CASE External
  <2>1. sh' = sh /\ test' = test
    BY <1>5, ExternalKeepsScript
  <2>2. /\ pid' = pid /\ rcode' = rcode
        /\ (Starting("knotd")' <=> Starting("knotd"))
    BY <2>1 DEF sh, Starting, Waiting, call
  <2>3. CASE Crash("knotd")
    <3>1. /\ proc["knotd"] \in {"booting", "up", "stopping"}
          /\ proc' = [proc EXCEPT !["knotd"] = "off"]
          /\ clean' = [clean EXCEPT !["knotd"] = FALSE]
      BY <2>3 DEF Crash
    <3>2. proc'["knotd"] = "off" /\ ~clean'["knotd"]
      BY <1>0, <3>1
    <3>3. pid["knotd"] \/ Starting("knotd")
      BY <1>0, <3>1 DEF Owned
    <3> QED
      BY <2>2, <3>2, <3>3
  <2>4. ASSUME NEW e \in Servers, e # "knotd", Crash(e)
        PROVE  Pending'
    <3>1. /\ crashed'["knotd"] = crashed["knotd"]
          /\ proc'["knotd"] = proc["knotd"] /\ clean'["knotd"] = clean["knotd"]
      BY <1>0, <2>4 DEF Crash
    <3>2. Pending
      BY <2>2, <3>1 DEF CrashPending
    <3> QED
      BY <2>2, <3>1, <3>2
  <2>5. ASSUME NEW e \in Servers, Boot(e) \/ Exit(e)
        PROVE  Pending'
    <3>1. crashed' = crashed
      BY <2>5 DEF Boot, Exit
    <3>2. Pending
      BY <1>2, <2>2, <3>1
    <3>3. e # "knotd"
      BY <2>5, <3>2 DEF Boot, Exit
    <3>4. proc'["knotd"] = proc["knotd"] /\ clean'["knotd"] = clean["knotd"]
      <4>1. CASE Boot(e)
        BY <1>0, <3>3, <4>1 DEF Boot
      <4>2. CASE Exit(e)
        BY <1>0, <3>3, <4>2 DEF Exit
      <4> QED
        BY <2>5, <4>1, <4>2
    <3> QED
      BY <2>2, <3>2, <3>4
  <2>6. CASE UNCHANGED <<proc, clean, crashed>>
    <3>1. Pending
      BY <1>2, <2>2, <2>6
    <3> QED
      BY <2>2, <2>6, <3>1
  <2>7. \/ UNCHANGED <<proc, clean, crashed>>
        \/ \E e \in Servers : Crash(e) \/ Boot(e) \/ Exit(e)
    BY <1>5 DEF External, KnotcExits, KnotdReloads, LoadZone, Transfer
  <2> QED
    BY <2>3, <2>4, <2>5, <2>6, <2>7
<1>6. CASE UNCHANGED vars
  <2>1. UNCHANGED <<proc, clean, pid, crashed, rcode, pc, w, ip, test>>
    BY <1>6 DEF vars, env, sh
  <2>2. Starting("knotd")' <=> Starting("knotd")
    BY <2>1 DEF Starting, Waiting, call
  <2>3. Pending
    BY <1>2, <2>1
  <2> QED
    BY <2>1, <2>2, <2>3
<1>7. CASE Inside
  <2>1. /\ UNCHANGED <<proc, clean, pid, crashed, rcode>>
        /\ (Starting("knotd")' <=> Starting("knotd"))
    BY <1>0, <1>7 DEF Inside, Kept
  <2>2. Pending
    BY <1>2, <2>1
  <2> QED
    BY <2>1, <2>2
<1>8. CASE Advance \/ Leap \/ Finish
  <2>1. UNCHANGED <<proc, clean, pid, crashed>> /\ ~rcode
    BY <1>8 DEF Advance, Leap, Finish, Kept, env
  <2>2. pc = "call" \/ call.op # "start"
    BY <1>8 DEF Advance, Leap, Finish, AtCall
  <2> QED
    BY <1>2, <1>3, <2>1, <2>2
<1>9. ASSUME NEW e \in Servers, Start(e)
      PROVE  Pending'
  <2>1. /\ AtCall /\ call.op = "start" /\ call.d = e
        /\ UNCHANGED <<clean, pid, crashed, rcode>>
        /\ proc' = proc \/ proc' = [proc EXCEPT ![e] = "booting"]
    BY <1>9 DEF Start, Calling, env, Compile, Spawn
  <2>2. Pending /\ ~Starting("knotd")
    BY <1>1, <1>2, <2>1 DEF Starting, Waiting
  <2>3. ~pid[e]
    BY <1>1, <2>1, NoPidAtStart
  <2>4. proc'["knotd"] = proc["knotd"]
    BY <1>0, <2>1, <2>2, <2>3
  <2> QED
    BY <2>1, <2>2, <2>4
<1>10. CASE Compiled
  <2>1. /\ pc = "compiled" /\ UNCHANGED <<clean, pid, crashed, rcode>>
        /\ proc' = proc \/ call.op # "compile"
    BY <1>10 DEF Compiled
  <2>2. Pending /\ ~Starting("knotd")
    BY <1>2, <2>1 DEF Starting, Waiting
  <2>3. ip \in DOMAIN test.calls /\ pc # "done"
        /\ (call.op = "compile" \/ (call.op = "start" /\ call.d = "knotd"))
    BY <2>1 DEF Places
  <2>4. call.op = "compile"
    BY <2>2, <2>3, NoPidAtStart
  <2> QED
    BY <2>1, <2>2, <2>4
<1>11. CASE Started
  <2>1. pc = "started" /\ crashed' = crashed /\ Rc(w.res)
    BY <1>11 DEF Started
  <2>2. ~rcode /\ ~(w.res # 0)
    BY <2>1, Zenon DEF Rc
  <2>3. /\ UNCHANGED <<proc, clean>>
        /\ pid' = [pid EXCEPT ![call.d] = TRUE]
    BY <1>0, <1>11, <2>2 DEF Started
  <2>4. Pending
    BY <1>2, <2>1, <2>2
  <2>5. pid["knotd"] \/ call.d = "knotd"
    BY <2>4 DEF Starting
  <2>6. pid'["knotd"]
    BY <1>0, <2>3, <2>5
  <2> QED
    BY <2>3, <2>4, <2>6
<1>12. ASSUME NEW e \in Servers, Stop(e)
       PROVE  Pending'
  <2>1. AtCall /\ UNCHANGED <<proc, clean, crashed>>
    BY <1>12 DEF Stop, Calling, env
  <2>2. CASE Stopped(e, TRUE)
    BY <1>1, <1>4, <2>1, <2>2
  <2>3. CASE UNCHANGED <<pid, rcode>>
    BY <1>1, <1>2, <1>3, <2>1, <2>3
  <2> QED
    BY <1>12, <2>2, <2>3 DEF Stop
<1>13. CASE StopTerm \/ StopPoll
  <2>1. pc \in {"term", "poll"} /\ crashed' = crashed
    BY <1>13 DEF StopTerm, StopPoll
  <2>2. ip \in DOMAIN test.calls /\ call.d \in Servers /\ ~Starting("knotd")
    BY <2>1, CallTypes DEF Places, TypeOK, Starting, Waiting
  <2>3. \/ UNCHANGED <<proc, clean>> /\ Stopped(call.d, TRUE)
        \/ UNCHANGED <<proc, clean>> /\ Stopped(call.d, ~clean[call.d])
        \/ /\ proc[call.d] # "off" /\ UNCHANGED <<clean, pid, rcode>>
           /\ proc' = proc \/ proc' = [proc EXCEPT ![call.d] = "stopping"]
        \/ /\ proc[call.d] # "off" /\ Stopped(call.d, TRUE) /\ Kill9(call.d)
    BY <1>13 DEF StopTerm, StopPoll
  <2>4. CASE UNCHANGED <<proc, clean>> /\ Stopped(call.d, TRUE)
    BY <1>4, <2>1, <2>2, <2>4
  <2>5. CASE UNCHANGED <<proc, clean>> /\ Stopped(call.d, ~clean[call.d])
    BY <1>4, <2>1, <2>2, <2>5
  <2>6. CASE /\ proc[call.d] # "off" /\ UNCHANGED <<clean, pid, rcode>>
             /\ proc' = proc \/ proc' = [proc EXCEPT ![call.d] = "stopping"]
    <3>1. Pending
      BY <1>2, <2>1, <2>6
    <3>2. proc'["knotd"] = proc["knotd"]
      BY <1>0, <2>2, <2>6, <3>1
    <3> QED
      BY <2>2, <2>6, <3>1, <3>2
  <2>7. CASE /\ proc[call.d] # "off" /\ Stopped(call.d, TRUE) /\ Kill9(call.d)
    <3>1. ~rcode
      BY <2>7, Zenon DEF Stopped
    <3>2. Pending
      BY <1>2, <2>1, <3>1
    <3>3. call.d # "knotd"
      BY <2>7, <3>2
    <3>4. /\ proc'["knotd"] = proc["knotd"] /\ clean'["knotd"] = clean["knotd"]
          /\ pid'["knotd"] = pid["knotd"]
      BY <1>0, <2>2, <2>7, <3>3 DEF Kill9, Stopped
    <3> QED
      BY <2>2, <3>2, <3>4
  <2> QED
    BY <2>3, <2>4, <2>5, <2>6, <2>7
<1>14. CASE KillNamed
  <2>1. /\ AtCall /\ UNCHANGED <<crashed, pid, rcode>>
        /\ proc' = [proc EXCEPT !["named"] = "off"]
        /\ clean' = [clean EXCEPT !["named"] = FALSE]
    BY <1>14 DEF KillNamed, Kill9, Calling
  <2>2. Pending /\ ~Starting("knotd")
    BY <1>2, <2>1 DEF Starting, Waiting, AtCall
  <2>3. proc'["knotd"] = proc["knotd"] /\ clean'["knotd"] = clean["knotd"]
    BY <1>0, <2>1
  <2> QED
    BY <2>1, <2>2, <2>3
<1>15. CASE GiveUp
  <2>1. 1 # 0
    OBVIOUS
  <2> QED
    BY <1>15, <2>1, Zenon DEF GiveUp, Rc
<1> QED
  BY <1>5, <1>6, <1>7, <1>8, <1>9, <1>10, <1>11, <1>12, <1>13, <1>14, <1>15,
     ShellClasses DEF Next, Terminated

-----------------------------------------------------------------------------

(* A start is refused because of a stray knotd only. *)
LEMMA StrayStep ==
  TypeOK /\ Places /\ Owned /\ Known /\ RefusesOnlyStray /\ [Next]_vars
    => RefusesOnlyStray'
<1> SUFFICES ASSUME TypeOK, Places, Owned, Known, RefusesOnlyStray,
                    [Next]_vars, pc' = "exit1"
             PROVE  proc'["knotd"] = "stray"
  BY DEF RefusesOnlyStray
<1>0. /\ proc \in [Servers -> {"off", "stray", "booting", "up", "stopping"}]
      /\ "knotd" \in Servers
  BY DEF TypeOK, Servers
<1>1. CASE External
  <2>1. pc = "exit1"
    BY <1>1, ExternalKeepsScript DEF sh
  <2>2. proc["knotd"] = "stray"
    BY <2>1 DEF RefusesOnlyStray
  <2>3. \/ proc' = proc
        \/ \E e \in Servers, v \in {"off", "up"} :
             proc[e] # "stray" /\ proc' = [proc EXCEPT ![e] = v]
    BY <1>1 DEF External, KnotcExits, KnotdReloads, LoadZone, Transfer, Boot,
      Crash, Exit
  <2> QED
    BY <1>0, <2>2, <2>3
<1>2. CASE UNCHANGED vars
  BY <1>2 DEF vars, env, sh, RefusesOnlyStray
<1>3. ASSUME NEW e \in Servers, Start(e)
      PROVE  proc'["knotd"] = "stray"
  <2>1. AtCall /\ call.op = "start" /\ call.d = e /\ proc' = proc /\ proc[e] # "off"
    BY <1>3 DEF Start, Calling, env, Compile, Spawn, Watch
  <2>2. ip \in DOMAIN test.calls /\ pc = "call"
    BY <2>1, AtCallInDomain DEF AtCall
  <2>3. ~pid[e] /\ ~Starting(e)
    BY <2>1, <2>2, NoPidAtStart DEF Starting, Waiting
  <2>4. proc[e] = "stray"
    BY <1>0, <2>1, <2>3 DEF Owned
  <2> QED
    BY <2>1, <2>4 DEF Owned
<1>4. ~(Inside \/ Advance \/ Leap \/ GiveUp \/ Finish \/ Compiled \/ Started)
  BY DEF Inside, Advance, Leap, GiveUp, Finish, Compiled, Started, Return,
    Spawn, Watch
<1>5. ~(StopTerm \/ StopPoll \/ KillNamed \/ \E e \in Servers : Stop(e))
  BY DEF StopTerm, StopPoll, KillNamed, Stop, Stopped, Return
<1> QED
  BY <1>1, <1>2, <1>3, <1>4, <1>5, ShellClasses DEF Next, Terminated

(* The invariant holds at first ... *)
LEMMA InitIInv == Init => IInv
<1> SUFFICES ASSUME Init PROVE IInv
  OBVIOUS
<1>1. TypeOK
  <2>1. test.slaves \subseteq Servers /\ Len(test.calls) \in Nat
    BY TestTypes DEF Init
  <2>2. NoWatch \in WatchFrames
    BY BoundAssumption DEF NoWatch, WatchFrames, Servers
  <2>3. \A d \in Servers : log[d] \in Seq(Lines)
    BY EmptySeq DEF Init
  <2>4. proc \in [Servers -> {"off", "stray", "booting", "up", "stopping"}]
    BY DEF Init
  <2>5. log \in [Servers -> Seq(Lines)]
    BY <2>3 DEF Init
  <2>6. /\ clean \in [Servers -> BOOLEAN] /\ ser \in [Servers -> [Zones -> Nat]]
        /\ crashed \in [Servers -> 0..MaxCrash]
        /\ pid \in [Servers -> BOOLEAN] /\ ll \in [Servers -> Nat]
    BY BoundAssumption DEF Init
  <2>7. EnvOK
    <3>1. /\ test \in Tests /\ pending = {} /\ slaves = test.slaves
          /\ knotc = "none" /\ latest = file
          /\ file = [z \in Zones |-> 1] /\ db = [z \in Zones |-> 0]
      BY DEF Init
    <3> QED
      BY <2>1, <2>4, <2>5, <2>6, <3>1 DEF EnvOK
  <2>8. ShOK
    <3>1. /\ ip = 1 /\ pc = "call" /\ ret = 0 /\ w = NoWatch
          /\ tmout = 0 /\ todo = {} /\ xfered = {} /\ updated = {}
      BY DEF Init
    <3>2. rcode \in BOOLEAN
      BY Zenon DEF Init
    <3> QED
      BY <2>1, <2>2, <2>6, <3>1, <3>2 DEF ShOK
  <2> QED
    BY <2>7, <2>8, TypeParts DEF Init, FlagsOK
<1>2. Places
  BY DEF Init, Places, Waiting
<1>3. Owned
  BY DEF Init, Owned, Starting, Waiting, Servers
<1>4. Known
  BY DEF Init, Known
<1>5. CrashPending /\ RefusesOnlyStray
  BY DEF Init, CrashPending, RefusesOnlyStray, Servers
<1> QED
  BY <1>1, <1>2, <1>3, <1>4, <1>5 DEF IInv

(* ... and the types are kept. *)
LEMMA TypeStep == TypeOK /\ Places /\ [Next]_vars => TypeOK'
<1> SUFFICES ASSUME TypeOK, Places, [Next]_vars PROVE TypeOK'
  OBVIOUS
<1>1. CASE Shell
  <2>1. EnvOK' /\ ShOK' /\ FlagsOK'
    BY <1>1, ShellEnvType, ShellShType, TypeParts, FlagTypes
  <2> QED
    BY <2>1, TypeParts, PTL
<1>2. CASE External
  BY <1>2, ExternalType
<1>3. CASE UNCHANGED vars
  <2>1. test' = test
    BY <1>3 DEF vars, env
  <2>2. Zones' = Zones /\ Lines' = Lines /\ WatchFrames' = WatchFrames
    BY <2>1, SameZones
  <2> QED
    BY <1>3, <2>2 DEF TypeOK, vars, env, sh
<1> QED
  BY <1>1, <1>2, <1>3 DEF Next, Terminated

(* IInv is an inductive invariant. *)
THEOREM Invariant == Spec => []IInv
<1>1. IInv /\ [Next]_vars => IInv'
  BY TypeStep, PlacesStep, OwnedStep, KnownStep, CrashStep, StrayStep
     DEF IInv
<1> QED
  BY <1>1, InitIInv, PTL DEF Spec

(* The variables keep to their types, and no loop over zones comes to a    *)
(* zone that is not the script's (cases/test.case).                        *)
THEOREM TypeCorrect == Spec => []TypeOK
<1>1. IInv => TypeOK
  BY DEF IInv
<1> QED
  BY <1>1, Invariant, PTL

(* "cannot start, already running" of _knotd_start and _named_start is     *)
(* never said of a server of the same script.                              *)
THEOREM OnlyStrayRefused == Spec => []RefusesOnlyStray
<1>1. IInv => RefusesOnlyStray
  BY DEF IInv
<1> QED
  BY <1>1, Invariant, PTL

(* A crash of knotd is reported by the end of the script: its PID is known *)
(* until _stop_pid misses the process or reads its status.                 *)
THEOREM CrashReported == Spec => []KnotdCrashReported
<1>1. IInv => KnotdCrashReported
  <2> SUFFICES ASSUME IInv, pc = "done", crashed["knotd"] > 0 PROVE rcode
    BY DEF KnotdCrashReported
  <2>1. ~Starting("knotd") /\ "knotd" \in Servers
    BY DEF Starting, Waiting, Servers
  <2> QED
    BY <2>1 DEF IInv, CrashPending, Known
<1> QED
  BY <1>1, Invariant, PTL

(* No server that the script stops is left behind at its end, be it        *)
(* reached or given up.                                                    *)
THEOREM ExitIsClean == Spec => []CleanExit
<1>1. IInv => CleanExit
  <2> SUFFICES ASSUME IInv, pc = "done", NEW k \in DOMAIN test.calls,
                      test.calls[k].op = "stop"
               PROVE  proc[test.calls[k].d] \in {"off", "stray"}
    BY DEF CleanExit
  <2>1. test.calls[k].d \in Servers
    BY TestTypes DEF IInv, TypeOK, Calls
  <2>2. ~Starting(test.calls[k].d)
    BY DEF Starting, Waiting
  <2>3. ~pid[test.calls[k].d]
    BY <2>1 DEF IInv, Known, Stops
  <2>4. proc[test.calls[k].d] \in {"off", "stray", "booting", "up", "stopping"}
    BY <2>1 DEF IInv, TypeOK
  <2> QED
    BY <2>1, <2>2, <2>3, <2>4 DEF IInv, Owned
<1> QED
  BY <1>1, Invariant, PTL

-----------------------------------------------------------------------------
(* The verdict.  For any patient script, any limits and any number of      *)
(* crashes: a wait that has counted its zone is true, and a script that    *)
(* compares the servers and succeeds has left both with the newest version.*)

(* The one zone of a patient script, the version it has been given last,   *)
(* the server that is a slave from the first, and the stage that the       *)
(* script has come to.                                                     *)
Zone == test.zones[1]
New == latest[Zone]
Dep == Slave(test)
StageAt(i) == (CHOOSE stage : Stagewise(test, stage))[i]
Now == StageAt(ip)

Held(d) == ser[d][Zone]
Aligned == \A d \in Servers : Held(d) = New

(* Lines of a log, from one on.                                            *)
Came(l, from, pat) == \E i \in DOMAIN l : i >= from /\ l[i] \in pat
Ixfr == {Line("IXFR", Zone)}
Xfer == {Line("AXFR", Zone), Line("IXFR", Zone)}

(* When knotd is the master, named is the only slave and knotd has nothing *)
(* newer than it has compiled: a reload that it is late with does no harm. *)
KnotdMaster ==
  Dep = "named" => /\ pending = {} /\ slaves = {"named"}
                   /\ file[Zone] = New /\ Held("knotd") <= db[Zone]

(* At any stage: a server that boots has logged nothing yet, and named     *)
(* does not reread an old zone file.                                       *)
Base ==
  /\ New >= 1 /\ file[Zone] <= New /\ db[Zone] <= New
  /\ \A d \in Servers :
       /\ Held(d) <= New
       /\ proc[d] = "booting" => log[d] = <<>> /\ Starting(d)
  /\ test.slaves \subseteq slaves
  /\ file[Zone] = New \/ pending = {} \/ proc["named"] = "off"
  /\ KnotdMaster

(* What is known of the zone at a stage. *)
Facts(s) ==
  /\ s \notin {"moved", "followed", "good"} =>
       file[Zone] = New /\ slaves = test.slaves
  /\ s = "fresh" => /\ New = 1 /\ ~Came(log[Dep], 1, Ixfr)
                    /\ Came(log[Dep], 1, Xfer) => Held(Dep) = New
  /\ s = "early" => /\ Dep = "knotd" /\ New <= 2
                    /\ Came(log[Dep], 1, Ixfr) => Held(Dep) = New
  /\ s = "offline" => /\ Dep = "named"
                      /\ Starting(Dep) => \/ Held(Dep) = New
                                          \/ proc[Dep] # "up" /\ log[Dep] = <<>>
  /\ s \in {"level", "known", "moved", "followed"} => Held(Dep) = New
  /\ s = "level" /\ pc \notin {"term", "poll"} => ~Came(log[Dep], ll[Dep], Xfer)
  /\ s = "due" => /\ Held(Dep) + 1 >= New
                  /\ Came(log[Dep], ll[Dep], Xfer) \/ updated = {} => Held(Dep) = New
  /\ s \in {"moved", "followed"} =>
       /\ Dep = "knotd"
       /\ Came(log["named"], 1, Xfer) => Held("named") = New
  /\ s = "good" /\ ~test.tsig => Aligned

(* What is known within a call: the line that the running wait looks for   *)
(* is there, the server that is started has booted, the comparison has     *)
(* found both alike; and the script has come to its end if it is done.     *)
Hit == Came(log[call.d], ll[call.d], XferPattern(call.d, call.kind, Zone))

Frame ==
  /\ Waiting("started") => w.log = call.d /\ w.pat = {Line("up", "-")}
  /\ pc = "started" => w.res # 0 \/ log[call.d] # <<>>
  /\ Waiting("seen") => /\ w.log = call.d /\ w.from = ll[call.d]
                        /\ w.pat = XferPattern(call.d, call.kind, Zone)
  /\ pc = "seen" => ret = w.res /\ (w.res = 0 => Hit)
  /\ Waiting("seen") \/ pc \in {"seen", "zone"} => xfered = {} \/ Hit
  /\ pc = "zone" => xfered # {} \/ ret # 0
  /\ pc = "dig" /\ ~test.tsig => xfered = {} \/ Aligned
  /\ pc = "done" => ip = Len(test.calls) + 1

(* All this holds of a patient script as long as nothing has failed.       *)
Sound == IInv /\ Patient(test) /\ ~rcode /\ Base /\ Facts(Now) /\ Frame
VInv == Patient(test) /\ ~rcode => Base /\ Facts(Now) /\ Frame

-----------------------------------------------------------------------------

(* Lines of a log that gets one more. *)
LEMMA CameNext ==
  ASSUME NEW S, NEW l \in Seq(S), NEW x \in S, NEW from \in Nat, NEW pat
  PROVE  Came(Append(l, x), from, pat) <=>
           Came(l, from, pat) \/ (x \in pat /\ Len(l) + 1 >= from)
<1>1. /\ Len(l) \in Nat /\ DOMAIN l = 1..Len(l)
      /\ Append(l, x) \in Seq(S) /\ Len(Append(l, x)) = Len(l) + 1
      /\ DOMAIN Append(l, x) = 1..(Len(l) + 1)
      /\ \A i \in 1..Len(l) : Append(l, x)[i] = l[i]
      /\ Append(l, x)[Len(l) + 1] = x
  BY AppendProperties, LenProperties
<1>2. ASSUME NEW i \in 1..(Len(l) + 1)
      PROVE  i \in 1..Len(l) \/ i = Len(l) + 1
  BY <1>1
<1>3. Len(l) + 1 \in 1..(Len(l) + 1) /\ 1..Len(l) \subseteq 1..(Len(l) + 1)
  BY <1>1
<1> QED
  BY <1>1, <1>2, <1>3 DEF Came

(* A log that has nothing yet, and what comes after the last line now.     *)
LEMMA CameNever ==
  ASSUME NEW pat
  PROVE  /\ \A from : ~Came(<<>>, from, pat)
         /\ \A S : \A l \in Seq(S) : ~Came(l, Len(l) + 1, pat)
<1>1. DOMAIN <<>> = {}
  OBVIOUS
<1>2. ASSUME NEW S, NEW l \in Seq(S)
      PROVE  \A i \in DOMAIN l : ~(i >= Len(l) + 1)
  BY LenProperties
<1> QED
  BY <1>1, <1>2 DEF Came

(* The lines looked for from some line on are among all of the kind.       *)
LEMMA CameAmong ==
  ASSUME NEW S, NEW l \in Seq(S), NEW from \in Nat, NEW pat, NEW all,
         pat \subseteq all, Came(l, from, pat)
  PROVE  Came(l, from, all) /\ Came(l, 1, all) /\ Came(l, 1, pat) /\ l # <<>>
<1>1. /\ DOMAIN l = 1..Len(l) /\ Len(l) \in Nat /\ DOMAIN <<>> = {}
  BY LenProperties
<1> QED
  BY <1>1 DEF Came

(* What a wait looks for. *)
LEMMA Patterns ==
  ASSUME NEW d \in Servers, NEW kind \in {"AXFR", "IXFR"}
  PROVE  /\ XferPattern(d, kind, Zone) \subseteq Xfer
         /\ d = "knotd" /\ kind = "IXFR" => XferPattern(d, kind, Zone) = Ixfr
BY DEF XferPattern, Xfer, Ixfr

(* No server and no watch logs but these lines. *)
LEMMA OtherLines ==
  /\ Line("up", "-") \notin Xfer /\ Line("reloaded", "-") \notin Xfer
  /\ Ixfr \subseteq Xfer
  /\ Line("IXFR", Zone) \in Ixfr /\ Line("AXFR", Zone) \notin Ixfr
  /\ Line("up", "-") \in Lines /\ Line("reloaded", "-") \in Lines
BY DEF Line, Xfer, Ixfr, Lines

(* The types of all this, in a script with one zone. *)
LEMMA Grounds ==
  ASSUME TypeOK, Patient(test)
  PROVE  /\ Zones = {Zone} /\ Zone \in Zones
         /\ test.slaves = {Dep} /\ Dep \in Servers
         /\ Stagewise(test, CHOOSE stage : Stagewise(test, stage))
         /\ New \in Nat /\ file[Zone] \in Nat /\ db[Zone] \in Nat
         /\ \A d \in Servers : /\ Held(d) \in Nat /\ ll[d] \in Nat
                               /\ log[d] \in Seq(Lines)
         /\ ser \in [Servers -> [Zones -> Nat]] /\ slaves \subseteq Servers
<1>1. PICK d \in Servers : test.slaves = {d}
  BY DEF Patient
<1>2. Dep = d
  BY <1>1 DEF Dep, Slave
<1>3. DOMAIN test.zones = {1}
  BY TestTypes DEF Patient, TypeOK
<1>4. Zones = {Zone}
  BY <1>3 DEF Zones, Zone
<1>5. Stagewise(test, CHOOSE stage : Stagewise(test, stage))
  BY DEF Patient
<1>6. \A e \in Servers : Held(e) \in Nat
  BY <1>4 DEF TypeOK, Held
<1>7. New \in Nat /\ file[Zone] \in Nat /\ db[Zone] \in Nat
  BY <1>4 DEF TypeOK, New
<1> QED
  BY <1>1, <1>2, <1>4, <1>5, <1>6, <1>7 DEF TypeOK

(* A call is made at a stage that allows it. *)
LEMMA Passing ==
  ASSUME TypeOK, Patient(test), ip \in DOMAIN test.calls
  PROVE  /\ Passes(test, Now, call, StageAt(ip + 1))
         /\ call.when \in {"ret", "failed"} => StageAt(ip + call.skip) = Now
         /\ call.op = "transit" => ~MayRun(test, "named", ip)
BY Grounds DEF Stagewise, StageAt, Now, call

(* The first stage and the last. *)
LEMMA NowStage ==
  ASSUME TypeOK, Patient(test)
  PROVE  /\ Now \in Stages
         /\ ip = 1 => Now = "fresh"
         /\ ip = Len(test.calls) + 1 /\ Compares => Now = "good"
BY Grounds DEF Stagewise, StageAt, Now, TypeOK, Compares

(* Two servers. *)
LEMMA Pair ==
  /\ "knotd" \in Servers /\ "named" \in Servers
  /\ Other("knotd") = "named" /\ Other("named") = "knotd"
  /\ \A d \in Servers : d = "knotd" \/ d = "named"
BY DEF Servers, Other

(* What stays the same in a step does. *)
LEMMA SameTest ==
  ASSUME test' = test
  PROVE  /\ Zone' = Zone /\ Dep' = Dep /\ Zones' = Zones
         /\ Xfer' = Xfer /\ Ixfr' = Ixfr /\ Lines' = Lines
         /\ (latest' = latest => New' = New)
         /\ (ip' = ip => call' = call /\ Now' = Now)
         /\ \A i : (i = ip' => Now' = StageAt(i))
         /\ (Patient(test)' <=> Patient(test))
<1>1. /\ Zone' = Zone /\ Dep' = Dep /\ Zones' = Zones
      /\ (ip' = ip => call' = call /\ Now' = Now)
      /\ \A i : (i = ip' => Now' = StageAt(i))
      /\ (Patient(test)' <=> Patient(test))
  BY DEF Zone, Dep, Zones, call, Now, StageAt
<1> QED
  BY <1>1 DEF Xfer, Ixfr, Lines, New

-----------------------------------------------------------------------------

(* A step that neither touches the zone nor a log keeps what is known.     *)
LEMMA SteadyFacts ==
  ASSUME TypeOK, Patient(test), NEW s \in Stages, Facts(s), test' = test,
         UNCHANGED <<log, ser, file, latest, slaves, updated>>,
         proc'[Dep] = proc[Dep] \/ proc'[Dep] # "up",
         Starting(Dep)' => Starting(Dep),
         ll'[Dep] = ll[Dep] \/ s \notin {"level", "due"}
           \/ (s = "level" /\ pc' \in {"term", "poll"}),
         pc' \in {"term", "poll"} \/ pc \notin {"term", "poll"} \/ s # "level"
  PROVE  Facts(s)'
<1>1. /\ Zone' = Zone /\ Dep' = Dep /\ New' = New /\ Xfer' = Xfer /\ Ixfr' = Ixfr
      /\ file'[Zone] = file[Zone] /\ slaves' = slaves /\ updated' = updated
      /\ log' = log /\ \A d : Held(d)' = Held(d)
  BY SameTest DEF Held
<1>2. Aligned' <=> Aligned
  BY <1>1 DEF Aligned
<1>3. \A n, pat, d : Came(log'[d], n, pat) <=> Came(log[d], n, pat)
  BY <1>1
<1>4. s \in {"fresh", "early", "known", "moved", "followed", "good", "due"} =>
        Facts(s)'
  BY <1>1, <1>2 DEF Facts
<1>5. s = "offline" => Facts(s)'
  BY <1>1 DEF Facts
<1>6. s = "level" => Facts(s)'
  BY <1>1 DEF Facts
<1> QED
  BY <1>4, <1>5, <1>6 DEF Stages

(* Steps that start, log and load nothing new keep the base facts.         *)
LEMMA SteadyBase ==
  ASSUME TypeOK, Patient(test), Base, test' = test,
         UNCHANGED <<log, ser, file, latest, slaves>>,
         db' = db \/ db' = file,
         \A d \in Servers : proc'[d] = proc[d] \/ proc'[d] \notin {"up", "booting"},
         proc'["named"] = proc["named"] \/ proc["named"] # "off",
         pending' \subseteq pending,
         \A d \in Servers : proc[d] = "booting" /\ Starting(d) => Starting(d)'
  PROVE  Base'
<1>1. /\ Zone' = Zone /\ Dep' = Dep /\ New' = New
      /\ file'[Zone] = file[Zone] /\ slaves' = slaves
      /\ log' = log /\ \A d : Held(d)' = Held(d)
  BY SameTest DEF Held
<1>2. db'[Zone] <= New
  BY DEF Base
<1>3. file[Zone] = New \/ pending' = {} \/ proc'["named"] = "off"
  BY DEF Base, Servers
<1>4. \A d \in Servers : proc'[d] = "booting" => log[d] = <<>> /\ Starting(d)'
  BY DEF Base
<1>5. KnotdMaster'
  <2>1. KnotdMaster /\ Held("knotd") <= New /\ db'[Zone] \in {db[Zone], file[Zone]}
    BY Pair DEF Base
  <2>2. Zone' = Zone /\ pending' \subseteq pending
    BY <1>1
  <2> QED
    BY <1>1, <2>1, <2>2 DEF KnotdMaster
<1> QED
  BY <1>1, <1>2, <1>3, <1>4, <1>5 DEF Base

(* No server boots but while the script waits for it. *)
LEMMA NoneBoots ==
  ASSUME Base, pc \notin {"probe", "grep", "started"}
  PROVE  /\ \A d \in Servers : proc[d] # "booting"
         /\ \A d : ~Starting(d)
BY DEF Base, Starting, Waiting

-----------------------------------------------------------------------------
(* The servers. *)

(* A log that gets a line other than of a transfer. *)
LEMMA LoggedOther ==
  ASSUME TypeOK, NEW d \in Servers, NEW x \in Lines, x \notin Xfer, Logged(d, x)
  PROVE  \A e \in Servers : \A n \in Nat : \A pat \in SUBSET Xfer :
           Came(log'[e], n, pat) <=> Came(log[e], n, pat)
<1> TAKE e \in Servers
<1> TAKE n \in Nat
<1> TAKE pat \in SUBSET Xfer
<1>1. log[e] \in Seq(Lines) /\ log \in [Servers -> Seq(Lines)]
  BY DEF TypeOK
<1>2. CASE e = d
  <2>1. log'[e] = Append(log[e], x)
    BY <1>1, <1>2 DEF Logged
  <2> QED
    BY <1>1, <2>1, CameNext
<1>3. CASE e # d
  BY <1>1, <1>3 DEF Logged
<1> QED
  BY <1>2, <1>3

(* A server that boots has the zone in store, or what it held before.      *)
LEMMA BootKeeps ==
  ASSUME Sound, NEW d \in Servers, Boot(d)
  PROVE  /\ Base' /\ Facts(Now)'
         /\ \/ Now \in {"fresh", "offline"}
            \/ Now = "moved" /\ d = "named"
            \/ Now = "good" /\ d \in test.slaves \ test.seeded
         /\ \A e \in Servers : e # d => Held(e)' = Held(e)
         /\ Held(d)' \in {Held(d), Stored(d)[Zone]}
         /\ d \in test.slaves \ test.seeded => Held(d)' = Held(d)
<1> USE Pair
<1>0. TypeOK /\ Places /\ Patient(test) /\ Base /\ Facts(Now)
  BY DEF Sound, IInv
<1>1. /\ test' = test /\ sh' = sh /\ proc[d] = "booting"
      /\ proc' = [proc EXCEPT ![d] = "up"] /\ Logged(d, Line("up", "-"))
      /\ UNCHANGED <<file, db, latest, pending, slaves>>
      /\ ser' = IF d \in test.slaves \ test.seeded
                   THEN ser ELSE [ser EXCEPT ![d] = Stored(d)]
  BY DEF Boot
<1>2. /\ Zone' = Zone /\ Dep' = Dep /\ New' = New /\ Xfer' = Xfer /\ Ixfr' = Ixfr
      /\ call' = call /\ Now' = Now /\ updated' = updated /\ ll' = ll /\ pc' = pc
      /\ \A e : Starting(e)' <=> Starting(e)
  <2>1. ip' = ip /\ updated' = updated /\ ll' = ll /\ pc' = pc /\ w' = w
    BY <1>1 DEF sh
  <2>2. call' = call /\ Now' = Now /\ Zone' = Zone /\ Dep' = Dep /\ New' = New
        /\ Xfer' = Xfer /\ Ixfr' = Ixfr
    BY <1>1, <2>1, SameTest
  <2> QED
    BY <2>1, <2>2 DEF Starting, Waiting
<1>3. log[d] = <<>> /\ Starting(d)
  BY <1>0, <1>1 DEF Base
<1>4. ip \in DOMAIN test.calls /\ call.op = "start" /\ call.d = d
  BY <1>0, <1>3 DEF Starting, Places, Waiting
<1>5. \/ Now = "fresh"
      \/ Now = "offline" /\ d = "named" /\ d \in test.seeded
      \/ Now = "moved" /\ d = "named"
      \/ Now = "good" /\ d \in test.slaves \ test.seeded
  BY <1>0, <1>4, Passing DEF Passes
<1>6. \A e \in Servers : \A n \in Nat : \A pat \in SUBSET Xfer :
        Came(log'[e], n, pat) <=> Came(log[e], n, pat)
  BY <1>0, <1>1, LoggedOther, OtherLines
<1>7. /\ \A e \in Servers : e # d => Held(e)' = Held(e) /\ log'[e] = log[e]
      /\ Held(d)' \in {Held(d), Stored(d)[Zone]}
      /\ Stored(d)[Zone] \in {file[Zone], db[Zone]}
      /\ d \in test.slaves \ test.seeded => Held(d)' = Held(d)
      /\ d = "named" /\ d \notin test.slaves \ test.seeded => Held(d)' = file[Zone]
  <2>1. ser \in [Servers -> [Zones -> Nat]] /\ log \in [Servers -> Seq(Lines)]
        /\ Zone \in Zones
    BY <1>0, Grounds DEF TypeOK
  <2>2. \A e \in Servers : e # d => ser'[e] = ser[e] /\ log'[e] = log[e]
    BY <1>1, <2>1 DEF Logged
  <2>3. ser'[d] = IF d \in test.slaves \ test.seeded THEN ser[d] ELSE Stored(d)
    BY <1>1, <2>1
  <2>4. Stored(d) = IF d = "knotd" THEN db ELSE file
    BY DEF Stored
  <2>5. \A e \in Servers : Held(e)' = ser'[e][Zone] /\ Held(e) = ser[e][Zone]
    BY <1>2 DEF Held
  <2>6. /\ Held(d)' \in {Held(d), Stored(d)[Zone]}
        /\ d \in test.slaves \ test.seeded => Held(d)' = Held(d)
    BY <2>3, <2>5
  <2>7. Stored(d)[Zone] \in {file[Zone], db[Zone]}
    BY <2>4
  <2>8. d = "named" /\ d \notin test.slaves \ test.seeded =>
          Held(d)' = file[Zone]
    BY <2>3, <2>4, <2>5
  <2>9. \A e \in Servers : e # d => Held(e)' = Held(e) /\ log'[e] = log[e]
    BY <2>2, <2>5
  <2> QED
    BY <2>6, <2>7, <2>8, <2>9
<1>8. Base'
  <2>1. \A e \in Servers : Held(e)' <= New
    BY <1>0, <1>7 DEF Base
  <2>3. \A e \in Servers : proc'[e] = "booting" => log'[e] = <<>> /\ Starting(e)'
    <3>1. proc'[d] = "up" /\ \A e \in Servers : e # d => proc'[e] = proc[e]
      BY <1>0, <1>1 DEF TypeOK
    <3>2. \A e \in Servers : proc'[e] = "booting" => e # d /\ proc[e] = "booting"
      BY <3>1
    <3> QED
      BY <1>0, <1>2, <1>7, <3>2 DEF Base
  <2>2. proc["named"] = "off" => proc'["named"] = "off"
    BY <1>0, <1>1 DEF TypeOK
  <2>4. KnotdMaster'
    <3>1. KnotdMaster /\ Stored("knotd")[Zone] = db[Zone]
      BY <1>0 DEF Base, Stored
    <3>2. Held("knotd")' \in {Held("knotd"), db[Zone]}
      BY <1>7, <3>1
    <3>3. db[Zone] \in Nat
      BY <1>0, Grounds
    <3> QED
      BY <1>1, <1>2, <3>1, <3>2, <3>3 DEF KnotdMaster
  <2> QED
    BY <1>0, <1>1, <1>2, <2>1, <2>2, <2>3, <2>4 DEF Base
<1>9. Facts(Now)'
  <2>1. ~Came(log[d], 1, Xfer)
    BY <1>3, CameNever
  <2>2. Xfer \in SUBSET Xfer /\ Ixfr \in SUBSET Xfer /\ 1 \in Nat
    BY OtherLines
  <2>3. CASE Now = "fresh"
    <3>1. /\ Came(log'[Dep], 1, Xfer) <=> Came(log[Dep], 1, Xfer)
          /\ Came(log'[Dep], 1, Ixfr) <=> Came(log[Dep], 1, Ixfr)
      BY <1>0, <1>6, <2>2, Grounds
    <3>2. Came(log'[Dep], 1, Xfer) => Held(Dep)' = New
      BY <1>0, <1>2, <1>7, <2>1, <2>3, <3>1, Grounds DEF Facts
    <3> QED
      BY <1>0, <1>1, <1>2, <2>3, <3>1, <3>2 DEF Facts
  <2>4. CASE Now = "offline" /\ d = "named" /\ d \in test.seeded
    <3>1. Held(d)' = New /\ Dep = d
      BY <1>0, <1>7, <2>4 DEF Facts
    <3> QED
      BY <1>0, <1>1, <1>2, <2>4, <3>1 DEF Facts
  <2>5. CASE Now = "moved" /\ d = "named"
    <3>1. ~Came(log'[d], 1, Xfer)
      BY <1>6, <2>1, <2>2
    <3>2. Held("knotd")' = Held("knotd")
      BY <1>7, <2>5
    <3> QED
      BY <1>0, <1>1, <1>2, <2>5, <3>1, <3>2 DEF Facts
  <2>6. CASE Now = "good" /\ d \in test.slaves \ test.seeded
    <3>1. \A e \in Servers : Held(e)' = Held(e)
      BY <1>7, <2>6
    <3> QED
      BY <1>0, <1>1, <1>2, <2>6, <3>1 DEF Facts, Aligned
  <2> QED
    BY <1>5, <2>3, <2>4, <2>5, <2>6
<1> QED
  BY <1>5, <1>7, <1>8, <1>9

(* named rereads the zone file only where that has the newest version.     *)
LEMMA LoadKeeps ==
  ASSUME Sound, NEW z \in Zones, LoadZone(z)
  PROVE  /\ Base' /\ Facts(Now)'
         /\ Aligned => Aligned'
         /\ Held("named")' = New /\ Held("knotd")' = Held("knotd")
<1> USE Pair
<1>0. TypeOK /\ Patient(test) /\ Base /\ Facts(Now)
  BY DEF Sound, IInv
<1>1. /\ test' = test /\ sh' = sh /\ proc["named"] = "up" /\ z \in pending
      /\ UNCHANGED <<proc, log, file, db, latest, slaves>>
      /\ pending' = pending \ {z}
      /\ ser' = [ser EXCEPT !["named"][z] = file[z]]
  BY DEF LoadZone
<1>2. /\ Zone' = Zone /\ Dep' = Dep /\ New' = New /\ Xfer' = Xfer /\ Ixfr' = Ixfr
      /\ call' = call /\ Now' = Now /\ updated' = updated /\ ll' = ll /\ pc' = pc
      /\ \A e : Starting(e)' <=> Starting(e)
  <2>1. ip' = ip /\ updated' = updated /\ ll' = ll /\ pc' = pc /\ w' = w
    BY <1>1 DEF sh
  <2>2. call' = call /\ Now' = Now /\ Zone' = Zone /\ Dep' = Dep /\ New' = New
        /\ Xfer' = Xfer /\ Ixfr' = Ixfr
    BY <1>1, <2>1, SameTest
  <2> QED
    BY <2>1, <2>2 DEF Starting, Waiting
<1>3. z = Zone /\ file[Zone] = New /\ Dep = "knotd"
  BY <1>0, <1>1, Grounds DEF Base, KnotdMaster
<1>4. Held("named")' = New /\ Held("knotd")' = Held("knotd")
  BY <1>0, <1>1, <1>2, <1>3, Grounds DEF Held, TypeOK
<1>5. Base'
  <2>1. pending' \subseteq pending /\ \A e \in Servers : Held(e)' <= New
    BY <1>0, <1>1, <1>3, <1>4, Grounds DEF Base
  <2>2. KnotdMaster'
    BY <1>2, <1>3 DEF KnotdMaster
  <2> QED
    BY <1>0, <1>1, <1>2, <1>3, <2>1, <2>2 DEF Base
<1>6. Aligned => Aligned'
  BY <1>2, <1>4 DEF Aligned
<1>7. Facts(Now)'
  BY <1>0, <1>1, <1>2, <1>3, <1>4, <1>6 DEF Facts
<1> QED
  BY <1>4, <1>5, <1>6, <1>7

(* knotd rereads its zones only as the master, however late it does so,    *)
(* and after a comparison they are the ones it has.                        *)
LEMMA ReloadKeeps ==
  ASSUME Sound, KnotdReloads
  PROVE  /\ Base' /\ Facts(Now)' /\ (Aligned => Aligned')
         /\ Held("named")' = Held("named")
         /\ Held("knotd")' \in {Held("knotd"), db[Zone]}
         /\ Held("knotd") <= Held("knotd")'
         /\ Dep = "knotd" => Held("knotd")' = Held("knotd")
<1> USE Pair
<1>0. TypeOK /\ Places /\ Patient(test) /\ Base /\ Facts(Now)
  BY DEF Sound, IInv
<1>1. /\ test' = test /\ sh' = sh /\ proc["knotd"] = "up"
      /\ Logged("knotd", Line("reloaded", "-"))
      /\ UNCHANGED <<proc, file, db, latest, slaves, pending>>
      /\ ser' = IF "knotd" \in slaves THEN ser ELSE [ser EXCEPT !["knotd"] = db]
  BY DEF KnotdReloads
<1>2. /\ Zone' = Zone /\ Dep' = Dep /\ New' = New /\ Xfer' = Xfer /\ Ixfr' = Ixfr
      /\ call' = call /\ Now' = Now /\ updated' = updated /\ ll' = ll /\ pc' = pc
      /\ \A e : Starting(e)' <=> Starting(e)
  <2>1. ip' = ip /\ updated' = updated /\ ll' = ll /\ pc' = pc /\ w' = w
    BY <1>1 DEF sh
  <2>2. call' = call /\ Now' = Now /\ Zone' = Zone /\ Dep' = Dep /\ New' = New
        /\ Xfer' = Xfer /\ Ixfr' = Ixfr
    BY <1>1, <2>1, SameTest
  <2> QED
    BY <2>1, <2>2 DEF Starting, Waiting
<1>3. /\ Dep \in Servers /\ New \in Nat /\ db[Zone] \in Nat
      /\ db[Zone] <= New /\ KnotdMaster
      /\ \A e \in Servers : Held(e) \in Nat /\ Held(e) <= New
  BY <1>0, Grounds DEF Base
<1>5. \A e \in Servers : \A n \in Nat : \A pat \in SUBSET Xfer :
        Came(log'[e], n, pat) <=> Came(log[e], n, pat)
  BY <1>0, <1>1, LoggedOther, OtherLines
<1>6. /\ Held("named")' = Held("named") /\ log'["named"] = log["named"]
      /\ Held("knotd")' \in {Held("knotd"), db[Zone]}
      /\ Dep = "knotd" => Held("knotd")' = Held("knotd")
  <2>1. ser \in [Servers -> [Zones -> Nat]] /\ log \in [Servers -> Seq(Lines)]
        /\ (Dep = "knotd" => "knotd" \in slaves)
    BY <1>0, Grounds DEF TypeOK, Base
  <2> QED
    BY <1>1, <1>2, <2>1 DEF Held, Logged
<1>4. /\ Held("knotd") <= Held("knotd")'
      /\ Aligned => Held("knotd")' = New
  BY <1>3, <1>6 DEF KnotdMaster, Aligned
<1>9. Aligned => Aligned'
  BY <1>2, <1>4, <1>6 DEF Aligned
<1>7. Base'
  <2>1. \A e \in Servers : Held(e)' <= New
    BY <1>0, <1>6 DEF Base
  <2>2. \A e \in Servers : proc[e] = "booting" => log'[e] = <<>>
    BY <1>0, <1>1, <1>6 DEF Base
  <2>3. KnotdMaster'
    BY <1>1, <1>2, <1>3, <1>6 DEF KnotdMaster
  <2> QED
    BY <1>0, <1>1, <1>2, <2>1, <2>2, <2>3 DEF Base
<1>8. Facts(Now)'
  <2>1. Held(Dep)' = Held(Dep)
    BY <1>0, <1>2, <1>6, Grounds
  <2>2. /\ Came(log'[Dep], 1, Xfer) <=> Came(log[Dep], 1, Xfer)
        /\ Came(log'[Dep], 1, Ixfr) <=> Came(log[Dep], 1, Ixfr)
        /\ Came(log'[Dep], ll[Dep], Xfer) <=> Came(log[Dep], ll[Dep], Xfer)
    BY <1>0, <1>5, Grounds, OtherLines
  <2>3. CASE Now = "good"
    BY <1>0, <1>1, <1>2, <1>9, <2>3 DEF Facts
  <2>4. CASE Now # "good"
    BY <1>0, <1>1, <1>2, <1>6, <2>1, <2>2, <2>4 DEF Facts
  <2> QED
    BY <2>3, <2>4
<1> QED
  BY <1>4, <1>6, <1>7, <1>8, <1>9

(* A transfer brings the newest version, or the first one to a script that *)
(* waits for an incremental one.                                           *)
LEMMA TransferKeeps ==
  ASSUME Sound, NEW d \in Servers, NEW z \in Zones,
         NEW kind \in {"AXFR", "IXFR"}, Transfer(d, z, kind)
  PROVE  /\ Base' /\ Facts(Now)' /\ ~Aligned
         /\ d \in slaves /\ Held(d) < New
         /\ Other(d) \in Servers \ {d} /\ Held(d)' = Held(Other(d))
         /\ Held(Other(d))' = Held(Other(d))
<1> USE Pair
<1> DEFINE o == Other(d)
<1>0. TypeOK /\ Patient(test) /\ Base /\ Facts(Now)
  BY DEF Sound, IInv
<1>1. /\ test' = test /\ sh' = sh /\ proc[d] = "up" /\ d \in slaves
      /\ ser[o][z] > ser[d][z] /\ (ser[d][z] = 0 => kind = "AXFR")
      /\ UNCHANGED <<proc, file, db, latest, slaves, pending>>
      /\ ser' = [ser EXCEPT ![d][z] = ser[o][z]]
      /\ Logged(d, Line(kind, z))
  BY DEF Transfer
<1>2. /\ Zone' = Zone /\ Dep' = Dep /\ New' = New /\ Xfer' = Xfer /\ Ixfr' = Ixfr
      /\ call' = call /\ Now' = Now /\ updated' = updated /\ ll' = ll /\ pc' = pc
      /\ \A e : Starting(e)' <=> Starting(e)
  <2>1. ip' = ip /\ updated' = updated /\ ll' = ll /\ pc' = pc /\ w' = w
    BY <1>1 DEF sh
  <2>2. call' = call /\ Now' = Now /\ Zone' = Zone /\ Dep' = Dep /\ New' = New
        /\ Xfer' = Xfer /\ Ixfr' = Ixfr
    BY <1>1, <2>1, SameTest
  <2> QED
    BY <2>1, <2>2 DEF Starting, Waiting
<1>3. z = Zone /\ o \in Servers /\ o # d
  BY <1>0, Grounds
<1>4. /\ Held(o) > Held(d) /\ (Held(d) = 0 => kind = "AXFR")
      /\ Held(d)' = Held(o) /\ Held(o)' = Held(o) /\ Held(o) <= New
      /\ Held(d) < New
      /\ Held(d) \in Nat /\ Held(o) \in Nat /\ New \in Nat
  <2> HIDE DEF o
  <2>1. Held(o) > Held(d) /\ (Held(d) = 0 => kind = "AXFR")
    BY <1>1, <1>3 DEF Held
  <2>2. Held(d)' = Held(o) /\ Held(o)' = Held(o)
    BY <1>0, <1>1, <1>2, <1>3, Grounds DEF Held, TypeOK
  <2>3. Held(o) <= New /\ Held(d) \in Nat /\ Held(o) \in Nat /\ New \in Nat
    BY <1>0, <1>3, Grounds DEF Base
  <2> QED
    BY <2>1, <2>2, <2>3
<1>5. /\ log'[o] = log[o] /\ log'[d] = Append(log[d], Line(kind, Zone))
      /\ Line(kind, Zone) \in Lines /\ log[d] \in Seq(Lines)
      /\ (kind = "AXFR" => Line(kind, Zone) \notin Ixfr)
  <2>1. Line(kind, Zone) \in Lines /\ (kind = "AXFR" => Line(kind, Zone) \notin Ixfr)
    BY <1>0, Grounds, OtherLines DEF Lines, Line
  <2> QED
    BY <1>0, <1>1, <1>3, <2>1 DEF Logged, TypeOK
<1> HIDE DEF o
<1>6. \A e \in Servers : e = d \/ e = o
  BY <1>3
<1>7. Base'
  <2>1. \A e \in Servers : Held(e)' <= New
    BY <1>4, <1>6
  <2>2. \A e \in Servers : proc[e] = "booting" => log'[e] = <<>>
    BY <1>0, <1>1, <1>5, <1>6 DEF Base
  <2>3. KnotdMaster'
    <3>1. KnotdMaster /\ (Dep = "named" => d = "named")
      BY <1>0, <1>1 DEF Base, KnotdMaster
    <3>2. d = "named" => Held("knotd")' = Held("knotd")
      BY <1>4, <1>6
    <3> QED
      BY <1>1, <1>2, <3>1, <3>2 DEF KnotdMaster
  <2> QED
    BY <1>0, <1>1, <1>2, <2>1, <2>2, <2>3 DEF Base
<1>8. ~Aligned
  BY <1>4 DEF Aligned
<1>9. Facts(Now)'
  <2>1. CASE d = Dep
    <3>1. /\ Now \notin {"level", "known", "moved", "followed"}
          /\ Now = "good" => test.tsig
      BY <1>0, <1>4, <1>8, <2>1 DEF Facts
    <3>2. CASE Now = "fresh"
      <4>1. Held(d) = 0 /\ Held(d)' = New
        BY <1>0, <1>4, <3>2 DEF Facts
      <4>2. Came(log'[d], 1, Ixfr) <=> Came(log[d], 1, Ixfr)
        BY <1>4, <1>5, <4>1, CameNext
      <4> QED
        BY <1>0, <1>1, <1>2, <2>1, <3>2, <4>1, <4>2 DEF Facts
    <3>3. CASE Now = "early"
      <4>1. ~Came(log[d], 1, Ixfr) /\ New <= 2 /\ Dep = "knotd"
        BY <1>0, <1>4, <2>1, <3>3 DEF Facts
      <4>2. Came(log'[d], 1, Ixfr) => kind = "IXFR"
        BY <1>5, <4>1, CameNext
      <4>3. kind = "IXFR" => Held(d)' = New
        BY <1>4, <4>1
      <4> QED
        BY <1>0, <1>1, <1>2, <2>1, <3>3, <4>1, <4>2, <4>3 DEF Facts
    <3>4. CASE Now = "offline"
      <4>1. ~Starting(Dep)
        BY <1>0, <1>1, <1>4, <2>1, <3>4 DEF Facts
      <4> QED
        BY <1>0, <1>1, <1>2, <3>4, <4>1 DEF Facts
    <3>5. CASE Now = "due"
      <4>1. Held(d)' = New
        BY <1>0, <1>4, <2>1, <3>5 DEF Facts
      <4> QED
        BY <1>0, <1>1, <1>2, <1>4, <2>1, <3>5, <4>1 DEF Facts
    <3>6. CASE Now = "good"
      BY <1>1, <1>2, <3>1, <3>6 DEF Facts
    <3>7. Now \in Stages
      BY <1>0, NowStage
    <3> QED
      BY <3>1, <3>2, <3>3, <3>4, <3>5, <3>6, <3>7 DEF Stages
  <2>2. CASE d # Dep
    <3>1. o = Dep /\ d \notin test.slaves
      BY <1>0, <1>6, <2>2, Grounds
    <3>2. Now \in {"moved", "followed", "good"}
      BY <1>0, <1>1, <3>1 DEF Facts
    <3>3. CASE Now \in {"moved", "followed"}
      <4>1. Dep = "knotd" /\ d = "named" /\ Held(Dep) = New
        BY <1>0, <2>2, <3>3 DEF Facts
      <4>2. Held("named")' = New /\ Held("knotd")' = New
        BY <1>4, <3>1, <4>1
      <4> QED
        BY <1>0, <1>1, <1>2, <3>3, <4>1, <4>2 DEF Facts
    <3>4. CASE Now = "good"
      BY <1>0, <1>1, <1>2, <1>8, <3>4 DEF Facts
    <3> QED
      BY <3>2, <3>3, <3>4
  <2> QED
    BY <2>1, <2>2
<1> QED
  BY <1>1, <1>3, <1>4, <1>7, <1>8, <1>9 DEF o

(* The other steps of the servers change neither zones nor logs. *)
LEMMA OtherExternal ==
  ASSUME Sound, KnotcExits \/ \E d \in Servers : Crash(d) \/ Exit(d)
  PROVE  /\ Base' /\ Facts(Now)'
         /\ UNCHANGED <<ser, log, latest>>
<1>0. TypeOK /\ Patient(test) /\ Base /\ Facts(Now)
  BY DEF Sound, IInv
<1>1. /\ test' = test /\ sh' = sh
      /\ UNCHANGED <<log, ser, file, latest, slaves, pending>>
      /\ db' = db \/ db' = file
      /\ \A d \in Servers :
           proc'[d] = proc[d] \/ (proc[d] # "off" /\ proc'[d] = "off")
  BY <1>0 DEF KnotcExits, Crash, Exit, TypeOK
<1>2. /\ ip' = ip /\ updated' = updated /\ ll' = ll /\ pc' = pc /\ w' = w
      /\ Dep \in Servers /\ Now \in Stages /\ Now' = Now /\ Dep' = Dep
      /\ \A e : Starting(e)' <=> Starting(e)
  <2>1. ip' = ip /\ updated' = updated /\ ll' = ll /\ pc' = pc /\ w' = w
    BY <1>1 DEF sh
  <2>2. call' = call /\ Now' = Now /\ Dep' = Dep
    BY <1>1, <2>1, SameTest
  <2> QED
    BY <1>0, <2>1, <2>2, Grounds, NowStage DEF Starting, Waiting
<1>3. Base'
  BY <1>0, <1>1, <1>2, Pair, SteadyBase
<1>4. \A s \in Stages : Facts(s) => Facts(s)'
  <2> SUFFICES ASSUME NEW s \in Stages, Facts(s) PROVE Facts(s)'
    OBVIOUS
  <2>1. proc'[Dep] = proc[Dep] \/ proc'[Dep] # "up"
    BY <1>1, <1>2
  <2>2. Starting(Dep)' => Starting(Dep)
    BY <1>2
  <2> QED
    BY <1>0, <1>1, <1>2, <2>1, <2>2, SteadyFacts
<1>5. Facts(Now)'
  BY <1>0, <1>2, <1>4
<1> QED
  BY <1>1, <1>3, <1>5

(* What is known within a call stays known while the servers act: lines    *)
(* are never lost, and what was found alike stays so.                      *)
LEMMA ExternalKeeps ==
  ASSUME Sound, External
  PROVE  Base' /\ Facts(Now)' /\ Frame'
<1>0. TypeOK /\ Places /\ Patient(test) /\ Frame
  BY DEF Sound, IInv
<1>1. sh' = sh /\ test' = test
  BY ExternalKeepsScript
<1>2. /\ call' = call /\ Zone' = Zone
      /\ UNCHANGED <<pc, w, ret, ll, xfered, ip>>
  BY <1>1, SameTest DEF sh
<1>3. ASSUME NEW d \in Servers
      PROVE  log'[d] = log[d] \/ \E x \in Lines : log'[d] = Append(log[d], x)
  <2>1. log' = log \/ \E e \in Servers, x \in Lines : Logged(e, x)
    BY <1>0, Grounds, OtherLines
       DEF External, KnotcExits, KnotdReloads, Boot, Crash, Exit, LoadZone,
           Transfer, Line, Lines, Servers
  <2> QED
    BY <1>0, <2>1 DEF Logged, TypeOK
<1>4. ASSUME NEW d \in Servers
      PROVE  /\ log[d] # <<>> => log'[d] # <<>>
             /\ \A n \in Nat : \A pat :
                  Came(log[d], n, pat) => Came(log'[d], n, pat)
  <2>1. log[d] \in Seq(Lines)
    BY <1>0 DEF TypeOK
  <2>2. CASE \E x \in Lines : log'[d] = Append(log[d], x)
    BY <2>1, <2>2, CameNext, AppendProperties
  <2> QED
    BY <1>3, <2>2
<1>5. pc \notin {"call", "done", "exit1"} => call.d \in Servers
  BY <1>0, CallTypes DEF Places, TypeOK
<1>6. XferPattern(call.d, call.kind, Zone)' = XferPattern(call.d, call.kind, Zone)
  BY <1>2 DEF XferPattern
<1>7. pc \notin {"call", "done", "exit1"} /\ Hit => Hit'
  <2>1. ASSUME call.d \in Servers
        PROVE  ll[call.d] \in Nat
    BY <1>0, <2>1, Grounds
  <2> QED
    BY <1>2, <1>4, <1>5, <1>6, <2>1 DEF Hit
<1>8. pc = "started" => (log[call.d] # <<>> => log'[call.d] # <<>>)
  BY <1>4, <1>5
<1>9. Base' /\ Facts(Now)' /\ (pc = "dig" /\ Aligned => Aligned')
  <2>1. CASE KnotcExits \/ \E d \in Servers : Crash(d) \/ Exit(d)
    <3>1. Base' /\ Facts(Now)' /\ UNCHANGED <<ser, log, latest>>
      BY <2>1, OtherExternal
    <3> QED
      BY <1>1, <3>1, SameTest DEF Aligned, Held
  <2>2. ASSUME NEW d \in Servers, Boot(d)
        PROVE  Base' /\ Facts(Now)' /\ pc # "dig"
    <3>1. Starting(d)
      BY <2>2 DEF Boot, Sound, Base
    <3> QED
      BY <2>2, <3>1, BootKeeps DEF Starting, Waiting
  <2>3. ASSUME KnotdReloads
        PROVE  Base' /\ Facts(Now)' /\ (Aligned => Aligned')
    BY <2>3, ReloadKeeps
  <2>4. ASSUME NEW z \in Zones, LoadZone(z)
        PROVE  Base' /\ Facts(Now)' /\ (Aligned => Aligned')
    BY <2>4, LoadKeeps
  <2>5. ASSUME NEW d \in Servers, NEW z \in Zones,
               NEW kind \in {"AXFR", "IXFR"}, Transfer(d, z, kind)
        PROVE  Base' /\ Facts(Now)' /\ ~Aligned
    BY <2>5, TransferKeeps
  <2> QED
    BY <2>1, <2>2, <2>3, <2>4, <2>5 DEF External
<1>10. Frame'
  <2>1. Waiting("started")' = Waiting("started") /\ Waiting("seen")' = Waiting("seen")
    BY <1>2 DEF Waiting
  <2> QED
    BY <1>0, <1>1, <1>2, <1>6, <1>7, <1>8, <1>9, <2>1 DEF Frame, Waiting
<1> QED
  BY <1>9, <1>10

-----------------------------------------------------------------------------
(* The script. *)

(* A step that stays in its call and leaves the servers alone. *)
LEMMA Remain ==
  ASSUME Sound, pc \notin {"term", "poll"},
         UNCHANGED <<test, proc, log, ser, file, db, latest, pending, slaves,
                     ll, updated, ip>>,
         \A d \in Servers : Starting(d)' <=> Starting(d)
  PROVE  Base' /\ Facts(Now)' /\ Now' = Now
<1>1. TypeOK /\ Patient(test) /\ Base /\ Facts(Now)
  BY DEF Sound, IInv
<1>2. Dep \in Servers /\ Now \in Stages /\ Now' = Now /\ Dep' = Dep
  BY <1>1, Grounds, NowStage, SameTest
<1>3. Base'
  BY <1>1, <1>2, SteadyBase
<1>4. \A s \in Stages : Facts(s) => Facts(s)'
  <2> SUFFICES ASSUME NEW s \in Stages, Facts(s) PROVE Facts(s)'
    OBVIOUS
  <2>1. Starting(Dep)' => Starting(Dep)
    BY <1>2
  <2> QED
    BY <1>1, <2>1, SteadyFacts
<1> QED
  BY <1>1, <1>2, <1>3, <1>4

(* A loop over the zones comes to the only one. *)
LEMMA NextIsZone ==
  ASSUME TypeOK, Patient(test), todo # {}
  PROVE  NextZone = Zone
<1>1. NextZone \in Zones
  BY NextZoneIsLeft DEF TypeOK
<1> QED
  BY <1>1, Grounds

(* What a running _watch finds, it finds for the call. *)
LEMMA WatchFrame ==
  ASSUME Sound, WatchProbe \/ WatchGrep
  PROVE  Frame'
<1>0. TypeOK /\ Places /\ Patient(test) /\ Frame
  BY DEF Sound, IInv
<1>1. /\ UNCHANGED <<test, log, ip, ll, xfered>> /\ pc \in {"probe", "grep"}
  BY DEF WatchProbe, WatchGrep, env
<1>2. call' = call /\ Zone' = Zone
  BY <1>1, SameTest
<1>3. /\ Hit' <=> Hit
      /\ XferPattern(call.d, call.kind, Zone)' = XferPattern(call.d, call.kind, Zone)
  BY <1>1, <1>2 DEF Hit, XferPattern
<1>4. w \in WatchFrames
  BY <1>0 DEF TypeOK
<1>5. CASE WatchProbe
  <2>1. /\ w' = [w EXCEPT !.dead = SomeDead] /\ pc = "probe" /\ pc' = "grep"
    BY <1>5 DEF WatchProbe
  <2>2. /\ w'.then = w.then /\ w'.log = w.log /\ w'.pat = w.pat /\ w'.from = w.from
    BY <1>4, <2>1 DEF WatchFrames
  <2> QED
    BY <1>0, <1>1, <1>2, <1>3, <2>1, <2>2 DEF Frame, Waiting
<1>6. CASE WatchGrep
  <2> DEFINE hit == \E i \in DOMAIN log[w.log] :
                      i >= w.from /\ log[w.log][i] \in w.pat
  <2>1. hit <=> Came(log[w.log], w.from, w.pat)
    BY DEF Came
  <2>2. CASE hit \/ w.dead \/ TimedOut
    <3>1. /\ w' = [w EXCEPT !.res = WatchStatus(hit)]
          /\ ret' = WatchStatus(hit) /\ pc' = w.then /\ pc = "grep"
      BY <1>6, <2>2 DEF WatchGrep
    <3> HIDE DEF hit
    <3>2. w'.res = ret' /\ w'.then = w.then
      BY <1>4, <3>1 DEF WatchFrames
    <3>3. ret' = 0 => hit
      BY <3>1 DEF WatchStatus
    <3>4. w.then \in {"started", "seen", "reloaded"}
      BY <1>0, <1>4, <3>1 DEF Places, WatchFrames
    <3>5. CASE w.then = "started"
      <4>1. w.log = call.d
        BY <1>0, <3>1, <3>5 DEF Frame, Waiting
      <4>2. hit => log[call.d] # <<>>
        BY <2>1, <4>1, CameNever
      <4> QED
        BY <1>1, <1>2, <3>1, <3>2, <3>3, <3>5, <4>2 DEF Frame, Waiting
    <3>6. CASE w.then = "seen"
      <4>1. (hit <=> Hit) /\ (xfered = {} \/ Hit)
        BY <1>0, <2>1, <3>1, <3>6 DEF Frame, Waiting, Hit
      <4> QED
        BY <1>1, <1>3, <3>1, <3>2, <3>3, <3>6, <4>1 DEF Frame, Waiting
    <3>7. CASE w.then = "reloaded"
      BY <3>1, <3>7 DEF Frame, Waiting
    <3> QED
      BY <3>4, <3>5, <3>6, <3>7
  <2>3. CASE ~(hit \/ w.dead \/ TimedOut)
    <3>1. /\ w' = [w EXCEPT !.ctr = IF w.lim = 0 THEN 0 ELSE @ + 1]
          /\ pc' = "probe" /\ pc = "grep"
      BY <1>6, <2>3 DEF WatchGrep
    <3>2. /\ w'.then = w.then /\ w'.log = w.log /\ w'.pat = w.pat
          /\ w'.from = w.from
      BY <1>4, <3>1 DEF WatchFrames
    <3> QED
      BY <1>0, <1>1, <1>2, <1>3, <3>1, <3>2 DEF Frame, Waiting
  <2> QED
    BY <2>2, <2>3
<1> QED
  BY <1>5, <1>6

(* A comparison of the one zone at a stage where the slave has the newest  *)
(* version finds whether both servers have it.                             *)
LEMMA AlikeAligned ==
  ASSUME Sound, pc = "dig", Alike(Zone), ~test.tsig
  PROVE  Aligned
<1>0. TypeOK /\ Places /\ Patient(test) /\ Facts(Now)
  BY DEF Sound, IInv
<1>1. ip \in DOMAIN test.calls /\ call.op = "dig"
  BY <1>0 DEF Places
<1>2. Now \in {"level", "known", "moved", "followed", "good"}
  BY <1>0, <1>1, Passing DEF Passes
<1>3. Held("knotd") = Held("named") /\ Dep \in Servers
  BY <1>0, Grounds DEF Alike, Held
<1>4. Now # "good" => Held(Dep) = New
  BY <1>0, <1>2 DEF Facts
<1>5. Now = "good" => Aligned
  BY <1>0 DEF Facts
<1> QED
  BY <1>3, <1>4, <1>5, Pair DEF Aligned

(* The steps within a call. *)
LEMMA InsideKeeps ==
  ASSUME Sound,
         \/ WatchProbe \/ WatchGrep \/ CallCompile \/ CompilePoll
         \/ KnotdReload \/ Wait \/ WaitZone \/ WaitSeen \/ Dig \/ DigZone
  PROVE  Base' /\ Facts(Now)' /\ Frame' /\ Now' = Now
<1>0. TypeOK /\ Places /\ Patient(test) /\ Frame
  BY DEF Sound, IInv
<1>1. /\ \A d \in Servers : Starting(d)' <=> Starting(d)
  BY <1>0, InsideSteps DEF Inside
<1>2. /\ UNCHANGED <<test, proc, log, ser, file, db, latest, pending, slaves,
                     ll, updated, ip>>
      /\ pc \notin {"term", "poll"}
  BY DEF WatchProbe, WatchGrep, CallCompile, Compile, CompilePoll, KnotdReload,
    Wait, WaitZone, WaitSeen, Dig, DigZone, env, Calling, AtCall
<1>3. Base' /\ Facts(Now)' /\ Now' = Now
  BY <1>1, <1>2, Remain
<1>4. call' = call /\ Zone' = Zone /\ (Hit' <=> Hit)
      /\ XferPattern(call.d, call.kind, Zone)' = XferPattern(call.d, call.kind, Zone)
  <2>1. call' = call /\ Zone' = Zone
    BY <1>2, SameTest
  <2> QED
    BY <1>2, <2>1 DEF Hit, XferPattern
<1>5. CASE CallCompile \/ CompilePoll
  <2>1. pc' \in {"compile", "compiled"}
    BY <1>5 DEF CallCompile, Compile, CompilePoll
  <2> QED
    BY <1>3, <2>1 DEF Frame, Waiting
<1>6. CASE KnotdReload
  <2>1. pc' = "probe" /\ w'.then = "reloaded"
    BY <1>6 DEF KnotdReload, Watch
  <2> QED
    BY <1>3, <2>1 DEF Frame, Waiting
<1>7. CASE Wait \/ Dig
  <2>1. xfered' = {} /\ (pc' = "dig" \/ (pc' = "zone" /\ ret' = 1))
    BY <1>7 DEF Wait, Dig
  <2> QED
    BY <1>3, <2>1 DEF Frame, Waiting
<1>8. CASE WaitZone
  <2>1. NextZone = Zone /\ (xfered = {} \/ Hit)
    BY <1>0, <1>8, NextIsZone DEF WaitZone, Frame
  <2>2. /\ w'.log = call.d /\ w'.pat = XferPattern(call.d, call.kind, Zone)
        /\ w'.from = ll[call.d] /\ w'.then = "seen" /\ pc' = "probe"
        /\ xfered' = xfered
    BY <1>8, <2>1 DEF WaitZone, Watch
  <2> QED
    BY <1>2, <1>3, <1>4, <2>1, <2>2 DEF Frame, Waiting
<1>9. CASE WaitSeen
  <2>1. /\ pc = "seen" /\ pc' = "zone" /\ ret' = ret
        /\ xfered' = IF w.res = 0 THEN xfered \cup {NextZone} ELSE xfered
    BY <1>9 DEF WaitSeen
  <2> QED
    BY <1>0, <1>3, <1>4, <2>1 DEF Frame, Waiting
<1>10. CASE DigZone
  <2>1. NextZone = Zone /\ pc = "dig" /\ pc' = "dig"
    BY <1>0, <1>10, NextIsZone DEF DigZone
  <2>2. xfered' = xfered \/ Alike(Zone)
    BY <1>10, <2>1 DEF DigZone
  <2>3. Aligned' <=> Aligned
    BY <1>2, <1>4 DEF Aligned, Held, New
  <2>4. ~test.tsig => xfered' = {} \/ Aligned'
    BY <1>0, <2>1, <2>2, <2>3, AlikeAligned DEF Frame
  <2> QED
    BY <1>2, <1>3, <2>1, <2>4 DEF Frame, Waiting
<1>11. CASE WatchProbe \/ WatchGrep
  BY <1>3, <1>11, WatchFrame
<1> QED
  BY <1>5, <1>6, <1>7, <1>8, <1>9, <1>10, <1>11

(* Most calls leave the stage as it is. *)
LEMMA SameStage ==
  ASSUME TypeOK, Patient(test), ip \in DOMAIN test.calls,
         \/ call.op \in {"compile", "kreload", "reload", "refresh", "digsoa",
                         "digname", "digfile", "ret0", "alive", "crashed",
                         "kill9"}
         \/ call.op = "start" /\ call.d = "knotd"
  PROVE  StageAt(ip + 1) = Now
BY Passing DEF Passes

(* A step out of a call, to one at the same stage. *)
LEMMA Leave ==
  ASSUME Sound, pc \notin {"probe", "grep", "started", "term", "poll"},
         pc' = "call" \/ (pc' = "done" /\ ip' = Len(test.calls) + 1), Now' = Now,
         UNCHANGED <<test, log, ser, file, db, latest, slaves, ll, updated>>,
         \A d \in Servers : proc'[d] = proc[d] \/ (d = "named" /\ proc'[d] = "off"),
         pending' = pending
           \/ (Dep = "knotd" /\ Now \notin {"moved", "followed", "good"})
  PROVE  Base' /\ Facts(Now)' /\ Frame' /\ Now' = Now
<1>1. TypeOK /\ Patient(test) /\ Base /\ Facts(Now)
  BY DEF Sound, IInv
<1>2. /\ Dep \in Servers /\ Now \in Stages /\ Zone' = Zone /\ Dep' = Dep
      /\ New' = New /\ \A d : Held(d)' = Held(d)
  BY <1>1, Grounds, NowStage, SameTest DEF Held
<1>3. /\ \A d \in Servers : proc[d] # "booting"
      /\ \A d : ~Starting(d)'
  BY <1>1, NoneBoots DEF Starting, Waiting
<1>4. file[Zone] = New \/ pending' = {} \/ proc'["named"] = "off"
  BY <1>1, Pair DEF Base, Facts
<1>5. Base'
  <2>1. \A d \in Servers : Held(d)' <= New /\ proc'[d] # "booting"
    BY <1>1, <1>2, <1>3 DEF Base
  <2>2. KnotdMaster'
    BY <1>1, <1>2, Pair DEF Base, KnotdMaster
  <2> QED
    BY <1>1, <1>2, <1>4, <2>1, <2>2 DEF Base
<1>6. \A s \in Stages : Facts(s) => Facts(s)'
  <2> SUFFICES ASSUME NEW s \in Stages, Facts(s) PROVE Facts(s)'
    OBVIOUS
  <2>1. (Starting(Dep)' => Starting(Dep)) /\ (proc'[Dep] = proc[Dep] \/ proc'[Dep] # "up")
    BY <1>2, <1>3
  <2> QED
    BY <1>1, <2>1, SteadyFacts
<1>7. Frame'
  BY DEF Frame, Waiting
<1> QED
  BY <1>1, <1>2, <1>5, <1>6, <1>7

(* The calls that leave the stage as it is, and blocks that are skipped. *)
LEMMA LeaveKeeps ==
  ASSUME Sound, ~rcode',
         \/ Skip \/ Rndc \/ KnotdReloaded \/ DigKnot \/ DigName \/ DigFile
         \/ SetRet \/ CheckCrash \/ KillNamed \/ Finish
  PROVE  Base' /\ Facts(Now)' /\ Frame' /\ Now' = Now
<1>0. TypeOK /\ Places /\ Patient(test) /\ ~rcode
  BY DEF Sound, IInv
<1>1. ASSUME AtCall
      PROVE  ip \in DOMAIN test.calls /\ pc = "call"
  BY <1>0, <1>1, AtCallInDomain DEF AtCall
<1>2. ASSUME ip' = ip + 1, test' = test, StageAt(ip + 1) = Now
      PROVE  Now' = Now
  BY <1>2, SameTest
<1>3. CASE Skip
  <2>1. /\ AtCall /\ ip' = ip + call.skip /\ pc' = pc
        /\ UNCHANGED <<test, proc, log, ser, file, db, latest, slaves, ll,
                       updated, pending>>
    BY <1>3 DEF Skip, env
  <2>2. call.when \in {"ret", "failed"}
    <3>1. call \in Calls /\ ~Guarded
      BY <1>0, <1>1, <1>3, <2>1, CallTypes DEF Skip, TypeOK
    <3>2. call.when \in {"always", "rc", "ret", "failed"}
      BY <3>1 DEF Calls
    <3> QED
      BY <1>0, <3>1, <3>2 DEF Guarded
  <2>3. Now' = Now
    BY <1>0, <1>1, <2>1, <2>2, Passing, SameTest
  <2> QED
    BY <1>1, <2>1, <2>3, Leave
<1>4. CASE Rndc
  <2>1. /\ AtCall /\ Return /\ call.op \in {"reload", "refresh"}
        /\ UNCHANGED <<test, proc, log, ser, file, db, latest, slaves, ll,
                       updated>>
        /\ pending' = pending \/ call.op = "reload"
    BY <1>4 DEF Rndc, Calling
  <2>2. Now' = Now
    BY <1>0, <1>1, <1>2, <2>1, SameStage DEF Return
  <2>3. call.op = "reload" =>
          Dep = "knotd" /\ Now \notin {"moved", "followed", "good"}
    BY <1>0, <1>1, <2>1, Passing DEF Passes, Dep
  <2> QED
    BY <1>1, <2>1, <2>2, <2>3, Leave DEF Return
<1>5. CASE KnotdReloaded
  <2>1. /\ pc = "reloaded" /\ Return
        /\ UNCHANGED <<test, proc, log, ser, file, db, latest, slaves, ll,
                       updated, pending>>
    BY <1>5 DEF KnotdReloaded, env
  <2>2. ip \in DOMAIN test.calls /\ call.op = "kreload"
    BY <1>0, <2>1 DEF Places
  <2>3. Now' = Now
    BY <1>0, <1>2, <2>1, <2>2, SameStage DEF Return
  <2> QED
    BY <2>1, <2>3, Leave DEF Return
<1>6. CASE DigKnot \/ DigName \/ DigFile \/ SetRet
  <2>1. /\ AtCall /\ Return
        /\ call.op \in {"digsoa", "digname", "digfile", "ret0", "alive"}
        /\ UNCHANGED <<test, proc, log, ser, file, db, latest, slaves, ll,
                       updated, pending>>
    BY <1>6 DEF DigKnot, DigName, DigFile, SetRet, Calling, env
  <2>2. Now' = Now
    BY <1>0, <1>1, <1>2, <2>1, SameStage DEF Return
  <2> QED
    BY <1>1, <2>1, <2>2, Leave DEF Return
<1>7. CASE CheckCrash
  <2>1. /\ AtCall /\ call.op = "crashed" /\ pc' = pc
        /\ UNCHANGED <<test, proc, log, ser, file, db, latest, slaves, ll,
                       updated, pending>>
    BY <1>7 DEF CheckCrash, Calling, env
  <2>2. ip' = ip + 1
    <3>1. KillZero("knotd") \/ 1 # 0
      OBVIOUS
    <3>2. KillZero("knotd")
      BY <1>7, <3>1, Zenon DEF CheckCrash, Rc
    <3> QED
      BY <1>7, <3>2 DEF CheckCrash
  <2>3. Now' = Now
    BY <1>0, <1>1, <1>2, <2>1, <2>2, SameStage
  <2> QED
    BY <1>1, <2>1, <2>3, Leave
<1>8. CASE KillNamed
  <2>1. /\ AtCall /\ Return /\ call.op = "kill9"
        /\ proc' = [proc EXCEPT !["named"] = "off"]
        /\ UNCHANGED <<test, log, ser, file, db, latest, slaves, ll,
                       updated, pending>>
    BY <1>8 DEF KillNamed, Kill9, Calling
  <2>2. Now' = Now
    BY <1>0, <1>1, <1>2, <2>1, SameStage DEF Return
  <2>3. \A d \in Servers : proc'[d] = proc[d] \/ (d = "named" /\ proc'[d] = "off")
    BY <1>0, <2>1 DEF TypeOK
  <2> QED
    BY <1>1, <2>1, <2>2, <2>3, Leave DEF Return
<1>9. CASE Finish
  <2>1. /\ pc = "call" /\ pc' = "done" /\ ip' = ip
        /\ ip > Len(test.calls) /\ ip \in 1..(Len(test.calls) + 1)
        /\ UNCHANGED <<test, proc, log, ser, file, db, latest, slaves, ll,
                       updated, pending>>
    BY <1>0, <1>9 DEF Finish, env, TypeOK
  <2>2. Now' = Now
    BY <2>1, SameTest
  <2>3. ip' = Len(test.calls) + 1
    BY <1>0, <2>1, TestTypes DEF TypeOK
  <2> QED
    BY <2>1, <2>2, <2>3, Leave
<1> QED
  BY <1>3, <1>4, <1>5, <1>6, <1>7, <1>8, <1>9

-----------------------------------------------------------------------------
(* Starting and stopping the servers. *)

(* A server that starts has an empty log. *)
LEMMA SpawnKeeps ==
  ASSUME Sound, NEW d \in Servers, Spawn(d), pc \in {"call", "compiled"},
         ip \in DOMAIN test.calls, call.op = "start", call.d = d,
         UNCHANGED <<test, ip, ser, file, db, latest, slaves, ll, updated>>
  PROVE  Base' /\ Facts(Now)' /\ Frame' /\ Now' = Now
<1> USE Pair
<1>0. TypeOK /\ Patient(test) /\ Base /\ Facts(Now)
  BY DEF Sound, IInv
<1>1. /\ proc' = [proc EXCEPT ![d] = "booting"] /\ log' = [log EXCEPT ![d] = <<>>]
      /\ pending' = IF d = "named" THEN {} ELSE pending
      /\ pc' = "probe" /\ w'.then = "started" /\ w'.log = d
      /\ w'.pat = {Line("up", "-")}
  BY DEF Spawn, Watch
<1>2. /\ proc'[d] = "booting" /\ log'[d] = <<>>
      /\ \A e \in Servers : e # d => proc'[e] = proc[e] /\ log'[e] = log[e]
  BY <1>0, <1>1 DEF TypeOK
<1>3. /\ Dep \in Servers /\ Zone' = Zone /\ Dep' = Dep /\ New' = New /\ Now' = Now
      /\ Xfer' = Xfer /\ Ixfr' = Ixfr /\ call' = call
      /\ \A e : Held(e)' = Held(e)
  BY <1>0, Grounds, SameTest DEF Held
<1>4. Starting(d)' /\ \A e \in Servers : proc[e] # "booting"
  BY <1>0, <1>1, <1>3, NoneBoots DEF Starting, Waiting
<1>5. \/ Now = "fresh"
      \/ Now = "offline" /\ d = "named"
      \/ Now = "moved" /\ d = "named"
      \/ Now = "good"
  BY <1>0, Passing DEF Passes
<1>6. Base'
  <2>1. \A e \in Servers : /\ Held(e)' <= New
                           /\ proc'[e] = "booting" => log'[e] = <<>> /\ Starting(e)'
    BY <1>0, <1>2, <1>3, <1>4 DEF Base
  <2>2. file[Zone] = New \/ pending' = {} \/ proc'["named"] = "off"
    BY <1>0, <1>1, <1>2 DEF Base
  <2>3. KnotdMaster'
    BY <1>0, <1>1, <1>3 DEF Base, KnotdMaster
  <2> QED
    BY <1>0, <1>3, <2>1, <2>2, <2>3 DEF Base
<1>7. Facts(Now)'
  <2>1. ~Came(log'[d], 1, Xfer) /\ ~Came(log'[d], 1, Ixfr)
    BY <1>2, CameNever
  <2>2. CASE Now = "fresh"
    BY <1>0, <1>2, <1>3, <2>1, <2>2 DEF Facts
  <2>3. CASE Now = "offline" /\ d = "named"
    BY <1>0, <1>2, <1>3, <2>3 DEF Facts
  <2>4. CASE Now = "moved" /\ d = "named"
    BY <1>0, <1>3, <2>1, <2>4 DEF Facts
  <2>5. CASE Now = "good"
    BY <1>0, <1>3, <2>5 DEF Facts, Aligned
  <2> QED
    BY <1>5, <2>2, <2>3, <2>4, <2>5
<1>8. Frame'
  BY <1>1, <1>3 DEF Frame, Waiting
<1> QED
  BY <1>3, <1>6, <1>7, <1>8

(* Starts, up to where the script waits. *)
LEMMA StartKeeps ==
  ASSUME Sound, NEW d \in Servers, Start(d)
  PROVE  Base' /\ Facts(Now)' /\ Frame' /\ Now' = Now
<1>0. TypeOK /\ Patient(test) /\ Base
  BY DEF Sound, IInv
<1>1. /\ ip \in DOMAIN test.calls /\ pc = "call" /\ call.op = "start"
      /\ call.d = d /\ UNCHANGED <<ip, ll, updated>>
  BY <1>0, AtCallInDomain DEF Start, Calling, AtCall
<1>2. CASE Spawn(d)
  <2>1. UNCHANGED <<test, ser, file, db, latest, slaves>>
    BY <1>2 DEF Start, Spawn, Watch, Compile, env
  <2> QED
    BY <1>1, <1>2, <2>1, SpawnKeeps
<1>3. CASE pc' \in {"exit1", "compile"}
  <2>1. UNCHANGED <<test, proc, log, ser, file, db, latest, pending, slaves>>
    BY <1>3 DEF Start, Spawn, Watch, Compile, env
  <2>2. \A e \in Servers : Starting(e)' <=> Starting(e)
    BY <1>1, <1>3 DEF Starting, Waiting
  <2>3. Frame'
    BY <1>3 DEF Frame, Waiting
  <2> QED
    BY <1>1, <2>1, <2>2, <2>3, Remain
<1>4. Spawn(d) \/ pc' \in {"exit1", "compile"}
  BY DEF Start, Compile
<1> QED
  BY <1>2, <1>3, <1>4

(* The end of a compilation. *)
LEMMA CompiledKeeps ==
  ASSUME Sound, Compiled
  PROVE  Base' /\ Facts(Now)' /\ Frame' /\ Now' = Now
<1>0. TypeOK /\ Places /\ Patient(test) /\ Base
  BY DEF Sound, IInv
<1>1. /\ pc = "compiled"
      /\ UNCHANGED <<test, ser, file, db, latest, slaves, ll, updated>>
      /\ \/ Return /\ UNCHANGED <<proc, log, pending>>
         \/ Spawn("knotd") /\ ip' = ip /\ call.op # "compile"
  BY DEF Compiled
<1>2. /\ ip \in DOMAIN test.calls
      /\ call.op = "compile" \/ (call.op = "start" /\ call.d = "knotd")
  BY <1>0, <1>1 DEF Places
<1>3. CASE Return /\ UNCHANGED <<proc, log, pending>>
  <2>1. Now' = Now
    BY <1>0, <1>1, <1>2, <1>3, SameStage, SameTest DEF Return
  <2> QED
    BY <1>1, <1>3, <2>1, Leave DEF Return
<1>4. CASE Spawn("knotd") /\ ip' = ip /\ call.op # "compile"
  BY <1>1, <1>2, <1>4, Pair, SpawnKeeps
<1> QED
  BY <1>1, <1>3, <1>4

(* A server that has logged that it is up has read its zone. *)
LEMMA StartedKeeps ==
  ASSUME Sound, ~rcode', Started
  PROVE  /\ Base' /\ Facts(Now)' /\ Frame'
         /\ Now' = Now \/ (Now = "offline" /\ Now' = "known")
<1> USE Pair
<1>0. TypeOK /\ Places /\ Patient(test) /\ Base /\ Facts(Now) /\ Frame /\ ~rcode
  BY DEF Sound, IInv
<1>1. /\ pc = "started" /\ Return /\ Rc(w.res)
      /\ UNCHANGED <<test, log, ser, file, db, latest, slaves, pending, updated>>
  BY DEF Started
<1>2. w.res = 0
  BY <1>0, <1>1, Zenon DEF Rc
<1>3. /\ UNCHANGED proc /\ ll' = [ll EXCEPT !["knotd"] = 0]
  BY <1>0, <1>2 DEF Started, TypeOK, WatchFrames
<1>4. ip \in DOMAIN test.calls /\ call.op = "start"
  BY <1>0, <1>1 DEF Places
<1>5. log[call.d] # <<>>
  BY <1>0, <1>1, <1>2 DEF Frame
<1>6. /\ Dep \in Servers /\ Zone' = Zone /\ Dep' = Dep /\ New' = New
      /\ Now' = StageAt(ip + 1) /\ Now \in Stages
      /\ \A e : Held(e)' = Held(e)
  BY <1>0, <1>1, Grounds, NowStage, SameTest DEF Held, Return
<1>7. \A e \in Servers : proc[e] # "booting"
  BY <1>0, <1>5 DEF Base, Starting
<1>8. Base'
  <2>1. KnotdMaster'
    BY <1>0, <1>1, <1>6 DEF Base, KnotdMaster
  <2> QED
    BY <1>0, <1>1, <1>3, <1>6, <1>7, <2>1 DEF Base
<1>9. Frame'
  BY <1>1 DEF Frame, Waiting, Return
<1>10. \/ Now \in {"fresh", "moved", "good"} /\ Now' = Now
       \/ Now = "offline" /\ call.d = "named" /\ Now' = "known"
  BY <1>0, <1>4, <1>6, Passing DEF Passes
<1>11. CASE Now \in {"fresh", "moved", "good"} /\ Now' = Now
  <2>1. ASSUME NEW s \in Stages, Facts(s), s \notin {"level", "due"}
        PROVE  Facts(s)'
    <3>1. ~Starting(Dep)'
      BY <1>1 DEF Starting, Waiting, Return
    <3> QED
      BY <1>0, <1>1, <1>3, <2>1, <3>1, SteadyFacts
  <2> QED
    BY <1>0, <1>6, <1>8, <1>9, <1>11, <2>1
<1>12. CASE Now = "offline" /\ call.d = "named" /\ Now' = "known"
  <2>1. Starting(Dep) /\ Dep = "named"
    BY <1>0, <1>1, <1>4, <1>12 DEF Facts, Starting
  <2>2. Held(Dep) = New
    BY <1>0, <1>5, <1>12, <2>1 DEF Facts
  <2> QED
    BY <1>0, <1>1, <1>6, <1>8, <1>9, <1>12, <2>2 DEF Facts
<1> QED
  BY <1>10, <1>11, <1>12

(* What is known of the zone when a stop has been made. *)
LEMMA StopLeads ==
  ASSUME TypeOK, Patient(test), ip \in DOMAIN test.calls, call.op = "stop"
  PROVE  /\ Now \in {"fresh", "level", "known", "moved", "followed", "good"}
         /\ StageAt(ip + 1) = IF Now = "level" THEN "known" ELSE Now
<1>1. Now \in Stages
  BY NowStage
<1>2. /\ Now \notin {"early", "offline", "due"}
      /\ StageAt(ip + 1) = IF Now = "level" THEN "known" ELSE Now
  BY Passing DEF Passes
<1> QED
  BY <1>1, <1>2 DEF Stages

(* A step within a stop or out of it. *)
LEMMA StopSteps ==
  ASSUME Sound, pc \in {"call", "term", "poll"}, call.op = "stop",
         ip \in DOMAIN test.calls,
         UNCHANGED <<test, log, ser, file, db, latest, slaves, pending, updated>>,
         \A d \in Servers : \/ proc'[d] = proc[d]
                            \/ proc[d] # "off" /\ proc'[d] \in {"stopping", "off"},
         \/ pc' \in {"term", "poll"} /\ ip' = ip
         \/ Return
  PROVE  /\ Base' /\ Facts(Now)' /\ Frame'
         /\ Now' = Now \/ (Now = "level" /\ Now' = "known")
<1> USE Pair
<1>0. TypeOK /\ Patient(test) /\ Base /\ Facts(Now)
  BY DEF Sound, IInv
<1>1. /\ Dep \in Servers /\ Zone' = Zone /\ Dep' = Dep /\ New' = New
      /\ \A e : Held(e)' = Held(e)
  BY <1>0, Grounds, SameTest DEF Held
<1>2. /\ \A d \in Servers : proc[d] # "booting"
      /\ \A d : ~Starting(d)'
  BY <1>0, NoneBoots DEF Starting, Waiting, Return
<1>3. Base'
  <2>1. /\ \A d \in Servers : proc'[d] = proc[d] \/ proc'[d] \notin {"up", "booting"}
        /\ proc'["named"] = proc["named"] \/ proc["named"] # "off"
        /\ \A d \in Servers : proc[d] = "booting" /\ Starting(d) => Starting(d)'
    BY <1>2
  <2> QED
    BY <1>0, <2>1, SteadyBase
<1>4. Frame'
  BY DEF Frame, Waiting, Return
<1>5. ASSUME NEW s \in Stages, Facts(s), s \notin {"level", "due"}
      PROVE  Facts(s)'
  <2>1. /\ proc'[Dep] = proc[Dep] \/ proc'[Dep] # "up"
        /\ Starting(Dep)' => Starting(Dep)
    BY <1>1, <1>2
  <2> QED
    BY <1>0, <1>5, <2>1, SteadyFacts
<1>6. Now \in {"fresh", "level", "known", "moved", "followed", "good"}
      /\ Now \in Stages
  BY <1>0, StopLeads, NowStage
<1>7. \/ Now' = Now /\ (Now = "level" => pc' \in {"term", "poll"})
      \/ Now = "level" /\ Now' = "known"
  <2>1. CASE pc' \in {"term", "poll"} /\ ip' = ip
    BY <2>1, SameTest
  <2>2. CASE Return
    <3>1. Now' = StageAt(ip + 1)
      BY <2>2, SameTest DEF Return
    <3> QED
      BY <1>0, <3>1, StopLeads
  <2> QED
    BY <2>1, <2>2
<1>8. CASE Now = "level"
  <2>1. Held(Dep) = New /\ file[Zone] = New /\ slaves = test.slaves
    BY <1>0, <1>8 DEF Facts
  <2> QED
    BY <1>1, <1>3, <1>4, <1>7, <1>8, <2>1 DEF Facts
<1>9. CASE Now # "level"
  <2>1. Now' = Now /\ Facts(Now) /\ Now \notin {"level", "due"}
    BY <1>0, <1>6, <1>7, <1>9
  <2> QED
    BY <1>3, <1>4, <1>5, <1>6, <2>1
<1> QED
  BY <1>7, <1>8, <1>9

(* Stopping a server loses none of the facts known so far.                 *)
LEMMA StopKeeps ==
  ASSUME Sound, StopTerm \/ StopPoll \/ \E d \in Servers : Stop(d)
  PROVE  /\ Base' /\ Facts(Now)' /\ Frame'
         /\ Now' = Now \/ (Now = "level" /\ Now' = "known")
<1>0. TypeOK /\ Places
  BY DEF Sound, IInv
<1>1. CASE StopTerm \/ StopPoll
  <2>1. /\ pc \in {"term", "poll"}
        /\ UNCHANGED <<test, log, ser, file, db, latest, slaves, pending, updated>>
        /\ \/ pc' \in {"term", "poll"} /\ ip' = ip
           \/ Return
        /\ \/ proc' = proc
           \/ /\ proc[call.d] # "off"
              /\ \/ proc' = [proc EXCEPT ![call.d] = "stopping"]
                 \/ proc' = [proc EXCEPT ![call.d] = "off"]
    BY <1>1 DEF StopTerm, StopPoll, Stopped, Kill9
  <2>2. ip \in DOMAIN test.calls /\ call.op = "stop"
    BY <1>0, <2>1 DEF Places
  <2>3. \A d \in Servers : \/ proc'[d] = proc[d]
                           \/ proc[d] # "off" /\ proc'[d] \in {"stopping", "off"}
    BY <1>0, <2>1 DEF TypeOK
  <2> QED
    BY <2>1, <2>2, <2>3, StopSteps
<1>2. ASSUME NEW d \in Servers, Stop(d)
      PROVE  /\ Base' /\ Facts(Now)' /\ Frame'
             /\ Now' = Now \/ (Now = "level" /\ Now' = "known")
  <2>1. /\ AtCall /\ pc = "call" /\ call.op = "stop"
        /\ UNCHANGED <<test, log, ser, file, db, latest, slaves, pending, updated>>
        /\ proc' = proc
        /\ (pc' = "term" /\ ip' = ip) \/ Return
    BY <1>2 DEF Stop, Stopped, Calling, AtCall, env
  <2>2. ip \in DOMAIN test.calls
    BY <1>0, <2>1, AtCallInDomain
  <2> QED
    BY <2>1, <2>2, StopSteps
<1> QED
  BY <1>1, <1>2

-----------------------------------------------------------------------------
(* Updates, waits and comparisons take the script on. *)

(* The zones of a wait, and of a comparison. *)
LEMMA ArgsIsZone ==
  ASSUME TypeOK, Patient(test), ip \in DOMAIN test.calls, call.op # "update"
  PROVE  /\ Args \subseteq {Zone}
         /\ Args = {} => call.zs = "updated" /\ updated = {}
<1>1. call.zs \in {"all", "first", "updated"}
  <2>1. call \in Calls /\ call.zs # "some"
    BY CallTypes, TestAssumption DEF TypeOK, call
  <2> QED
    BY <2>1 DEF Calls
<1>2. Zones = {Zone} /\ {test.zones[1]} = {Zone}
  BY Grounds DEF Zone
<1>3. updated \subseteq Zones
  BY DEF TypeOK
<1> QED
  BY <1>1, <1>2, <1>3 DEF Args

(* The zone gets its next version, or a script of some updates has none.   *)
LEMMA UpdateKeeps ==
  ASSUME Sound, Update
  PROVE  Base' /\ Facts(Now)' /\ Frame'
<1>0. TypeOK /\ Patient(test) /\ Base /\ Facts(Now)
  BY DEF Sound, IInv
<1>1. /\ ip \in DOMAIN test.calls /\ pc = "call" /\ call.op = "update"
      /\ Return /\ latest' = file'
      /\ UNCHANGED <<test, proc, log, ser, db, pending, slaves, ll>>
  BY <1>0, AtCallInDomain DEF Update, Calling, AtCall
<1>2. PICK S \in SUBSET updated' :
        file' = [z \in Zones |-> IF z \in S THEN file[z] + 1 ELSE file[z]]
  BY DEF Update
<1>3. /\ Dep \in Servers /\ Zone' = Zone /\ Dep' = Dep /\ Zone \in Zones
      /\ Xfer' = Xfer /\ Ixfr' = Ixfr /\ Now' = StageAt(ip + 1) /\ Now \in Stages
      /\ \A e : Held(e)' = Held(e)
      /\ New \in Nat /\ \A d \in Servers : Held(d) \in Nat
      /\ db[Zone] \in Nat
  BY <1>0, <1>1, Grounds, NowStage, SameTest DEF Held, Return
<1>4. file[Zone] = New /\ New' = file'[Zone] /\ slaves = test.slaves
  <2>1. Now \notin {"moved", "followed", "good"}
    BY <1>0, <1>1, Passing DEF Passes
  <2> QED
    BY <1>0, <1>1, <1>3, <2>1 DEF Facts, New
<1>5. /\ New' \in {New, New + 1}
      /\ updated' = {} => New' = New
  BY <1>2, <1>3, <1>4
<1>6. \A d : ~Starting(d)'
  BY <1>1 DEF Starting, Waiting, Return
<1>7. Base'
  <2>1. \A d \in Servers : proc[d] # "booting"
    BY <1>0, <1>1, NoneBoots
  <2>2. /\ New' >= 1 /\ file'[Zone] <= New' /\ db[Zone] <= New'
        /\ \A d \in Servers : Held(d) <= New'
    BY <1>0, <1>3, <1>4, <1>5 DEF Base
  <2>3. KnotdMaster'
    BY <1>0, <1>1, <1>3, <1>4, Pair DEF Base, KnotdMaster
  <2> QED
    BY <1>0, <1>1, <1>3, <1>4, <2>1, <2>2, <2>3 DEF Base
<1>8. Frame'
  BY <1>1 DEF Frame, Waiting, Return
<1>9. \/ Now = "level" /\ Now' = "due"
      \/ Now = "fresh" /\ Now' = "early" /\ Dep = "knotd"
      \/ Now = "fresh" /\ Now' = "offline" /\ Dep # "knotd"
  BY <1>0, <1>1, <1>3, Passing DEF Passes, Dep
<1>10. CASE Now = "level" /\ Now' = "due"
  <2>1. Held(Dep) = New /\ ~Came(log[Dep], ll[Dep], Xfer)
    BY <1>0, <1>1, <1>10 DEF Facts
  <2>2. Held(Dep) + 1 >= New' /\ (updated' = {} => Held(Dep) = New')
    BY <1>3, <1>5, <2>1
  <2> QED
    BY <1>1, <1>3, <1>4, <1>7, <1>8, <1>10, <2>1, <2>2 DEF Facts
<1>11. CASE Now = "fresh" /\ Now' = "early" /\ Dep = "knotd"
  <2>1. New' <= 2 /\ ~Came(log[Dep], 1, Ixfr)
    BY <1>0, <1>5, <1>11 DEF Facts
  <2> QED
    BY <1>1, <1>3, <1>4, <1>7, <1>8, <1>11, <2>1 DEF Facts
<1>12. CASE Now = "fresh" /\ Now' = "offline" /\ Dep # "knotd"
  BY <1>1, <1>3, <1>4, <1>6, <1>7, <1>8, <1>12, Pair DEF Facts
<1> QED
  BY <1>9, <1>10, <1>11, <1>12

(* A wait that has found its line has found it of the newest version.      *)
LEMMA HitNewest ==
  ASSUME Sound, ip \in DOMAIN test.calls, call.op = "wait", Hit
  PROVE  Held(call.d) = New
<1>0. TypeOK /\ Patient(test) /\ Facts(Now)
  BY DEF Sound, IInv
<1>1. call.d \in Servers /\ call.kind \in {"AXFR", "IXFR"}
  BY <1>0, CallTypes DEF TypeOK, Calls
<1>2. log[call.d] \in Seq(Lines) /\ ll[call.d] \in Nat
  BY <1>0, <1>1, Grounds
<1>3. /\ Came(log[call.d], ll[call.d], Xfer) /\ Came(log[call.d], 1, Xfer)
      /\ call.d = "knotd" /\ call.kind = "IXFR" => Came(log[call.d], 1, Ixfr)
  BY <1>1, <1>2, Patterns, CameAmong DEF Hit
<1>4. \/ call.d = Dep /\ Now \in {"fresh", "due"}
      \/ call.d = Dep /\ Now = "early" /\ call.kind = "IXFR"
      \/ call.d = "named" /\ Now = "moved"
  BY <1>0, Passing DEF Passes, Dep
<1> QED
  BY <1>0, <1>3, <1>4 DEF Facts

(* A wait that succeeds has found its line, or had none to look for.       *)
LEMMA WaitEndKeeps ==
  ASSUME Sound, ~rcode', WaitEnd
  PROVE  /\ Base' /\ Facts(Now)' /\ Frame'
         /\ \/ Now \in {"fresh", "early", "due"} /\ Now' = "level"
            \/ /\ Now = "moved" /\ Now' = "followed"
               /\ Held("named") = New \/ updated = {}
<1>0. TypeOK /\ Places /\ Patient(test) /\ Base /\ Facts(Now) /\ Frame
  BY DEF Sound, IInv
<1>1. /\ pc = "zone" /\ Return /\ Rc(ret')
      /\ ll' = [ll EXCEPT ![call.d] = Len(log[call.d]) + 1]
      /\ UNCHANGED <<test, proc, log, ser, file, db, latest, pending, slaves,
                     updated>>
  BY DEF WaitEnd, NextLine, env
<1>2. ip \in DOMAIN test.calls /\ call.op = "wait" /\ call.d \in Servers
  BY <1>0, <1>1, CallTypes DEF Places, TypeOK
<1>3. ret' = 0
  BY <1>1, Zenon DEF Rc
<1>4. xfered = Args \/ ret = 0
  BY <1>3 DEF WaitEnd
<1>5. Hit \/ (call.zs = "updated" /\ updated = {})
  BY <1>0, <1>1, <1>2, <1>4, ArgsIsZone DEF Frame
<1>6. /\ Dep \in Servers /\ Zone' = Zone /\ Dep' = Dep /\ New' = New
      /\ Xfer' = Xfer /\ Now' = StageAt(ip + 1) /\ Now \in Stages
      /\ \A e : Held(e)' = Held(e)
      /\ log[Dep] \in Seq(Lines)
  BY <1>0, <1>1, Grounds, NowStage, SameTest DEF Held, Return
<1>7. Base'
  <2>1. \A d \in Servers : proc[d] # "booting"
    BY <1>0, <1>1, NoneBoots
  <2> QED
    BY <1>0, <1>1, <2>1, SteadyBase
<1>8. Frame'
  BY <1>1 DEF Frame, Waiting, Return
<1>9. \/ /\ call.d = Dep /\ Now' = "level"
         /\ Now = "due" \/ (Now \in {"fresh", "early"} /\ call.zs # "updated")
      \/ Now = "moved" /\ Now' = "followed" /\ call.d = "named"
  BY <1>0, <1>2, <1>6, Passing DEF Passes, Dep
<1>10. CASE /\ call.d = Dep /\ Now' = "level"
            /\ Now = "due" \/ (Now \in {"fresh", "early"} /\ call.zs # "updated")
  <2>1. Held(Dep) = New
    BY <1>0, <1>2, <1>5, <1>10, HitNewest DEF Facts
  <2>2. file[Zone] = New /\ slaves = test.slaves
    BY <1>0, <1>10 DEF Facts
  <2>3. ll'[Dep] = Len(log[Dep]) + 1
    <3>1. ll \in [Servers -> Nat]
      BY <1>0 DEF TypeOK
    <3> QED
      BY <1>1, <1>6, <1>10, <3>1
  <2>4. ~Came(log[Dep], ll'[Dep], Xfer)
    BY <1>6, <2>3, CameNever
  <2>5. Facts(Now)'
    BY <1>1, <1>6, <1>10, <2>1, <2>2, <2>4 DEF Facts
  <2> QED
    BY <1>7, <1>8, <1>10, <2>5
<1>11. CASE Now = "moved" /\ Now' = "followed" /\ call.d = "named"
  <2>1. Dep = "knotd" /\ Held(Dep) = New
        /\ (Came(log["named"], 1, Xfer) => Held("named") = New)
    BY <1>0, <1>11 DEF Facts
  <2>2. Held("named") = New \/ updated = {}
    BY <1>2, <1>5, <1>11, HitNewest
  <2>3. Facts(Now)'
    BY <1>1, <1>6, <1>11, <2>1 DEF Facts
  <2> QED
    BY <1>7, <1>8, <1>11, <2>2, <2>3
<1> QED
  BY <1>9, <1>10, <1>11

(* A comparison that succeeds has found both servers alike. *)
LEMMA DigEndKeeps ==
  ASSUME Sound, ~rcode', DigEnd
  PROVE  Base' /\ Facts(Now)' /\ Frame' /\ Now' = "good"
<1>0. TypeOK /\ Places /\ Patient(test) /\ Base /\ Frame
  BY DEF Sound, IInv
<1>1. /\ pc = "dig" /\ Return
      /\ UNCHANGED <<test, proc, log, ser, file, db, latest, pending, slaves,
                     ll, updated>>
  BY DEF DigEnd, env
<1>2. ip \in DOMAIN test.calls /\ call.op = "dig"
  BY <1>0, <1>1 DEF Places
<1>3. call.zs # "updated" /\ StageAt(ip + 1) = "good"
  BY <1>0, <1>2, Passing DEF Passes
<1>4. ~test.tsig => Aligned
  <2> SUFFICES ASSUME ~test.tsig PROVE Aligned
    OBVIOUS
  <2>1. Rc(IF xfered = Args THEN 0 ELSE 1)
    BY DEF DigEnd, FetchStatus
  <2>2. xfered = Args
    <3>1. ASSUME xfered # Args PROVE FALSE
      <4>1. Rc(1)
        BY <2>1, <3>1
      <4>2. 1 # 0
        OBVIOUS
      <4> QED
        BY <4>1, <4>2, Zenon DEF Rc
    <3> QED
      BY <3>1
  <2> QED
    BY <1>0, <1>1, <1>2, <1>3, <2>2, ArgsIsZone DEF Frame
<1>5. /\ Zone' = Zone /\ New' = New /\ Now' = StageAt(ip + 1)
      /\ \A e : Held(e)' = Held(e)
  BY <1>1, SameTest DEF Held, Return
<1>6. Base'
  <2>1. \A d \in Servers : proc[d] # "booting"
    BY <1>0, <1>1, NoneBoots
  <2> QED
    BY <1>0, <1>1, <2>1, SteadyBase
<1>7. Frame'
  BY <1>1 DEF Frame, Waiting, Return
<1>8. Aligned => Aligned'
  BY <1>5 DEF Aligned
<1>9. Facts("good")'
  BY <1>1, <1>4, <1>8 DEF Facts
<1> QED
  BY <1>3, <1>5, <1>6, <1>7, <1>9

-----------------------------------------------------------------------------
(* named is made a slave while it is off. *)

(* Only slaves have logged transfers. *)
Recorded == \A d \in Servers : d \in slaves \/ ~Came(log[d], 1, Xfer)

(* The script empties logs, and never makes a slave a master. *)
LEMMA ShellLogs ==
  ASSUME Shell \/ UNCHANGED vars
  PROVE  /\ test' = test /\ slaves \subseteq slaves'
         /\ log' = log \/ \E d \in Servers : log' = [log EXCEPT ![d] = <<>>]
BY Pair
   DEF Shell, Skip, WatchProbe, WatchGrep, Start, Stop, CallCompile, Compile,
     CompilePoll, Compiled, Started, StopTerm, StopPoll, KillNamed, Update,
     Rndc, Transit, KnotdReload, KnotdReloaded, Wait, WaitZone, WaitSeen,
     WaitEnd, Dig, DigZone, DigEnd, DigKnot, DigName, DigFile, SetRet,
     CheckCrash, GiveUp, Finish, Spawn, Stopped, env, vars

(* Only a slave logs a transfer, and no slave becomes a master again.      *)
LEMMA RecordedStep == TypeOK /\ Recorded /\ [Next]_vars => Recorded'
<1> SUFFICES ASSUME TypeOK, Recorded, [Next]_vars PROVE Recorded'
  OBVIOUS
<1>1. test' = test
  BY ShellLogs, ExternalKeepsScript DEF Next, Terminated
<1>2. Xfer' = Xfer
  BY <1>1, SameTest
<1>3. CASE Shell \/ UNCHANGED vars
  <2>1. slaves \subseteq slaves'
    BY <1>3, ShellLogs
  <2>3. \A e \in Servers : log'[e] = log[e] \/ log'[e] = <<>>
    BY <1>3, ShellLogs DEF TypeOK
  <2> QED
    BY <1>2, <2>1, <2>3, CameNever DEF Recorded
<1>4. CASE External
  <2>1. slaves' = slaves
    BY <1>4 DEF External, KnotcExits, KnotdReloads, Boot, Crash, Exit, LoadZone,
      Transfer
  <2>2. CASE \E d \in Servers, x \in Lines : x \notin Xfer /\ Logged(d, x)
    <3>1. \A e \in Servers : Came(log'[e], 1, Xfer) <=> Came(log[e], 1, Xfer)
      BY <2>2, LoggedOther
    <3> QED
      BY <1>2, <2>1, <3>1 DEF Recorded
  <2>3. CASE log' = log
    BY <1>2, <2>1, <2>3 DEF Recorded
  <2>4. ASSUME NEW d \in slaves, NEW x, Logged(d, x)
        PROVE  Recorded'
    <3>1. \A e \in Servers : e # d => log'[e] = log[e]
      BY <2>4 DEF Logged, TypeOK
    <3> QED
      BY <1>2, <2>1, <3>1 DEF Recorded
  <2> QED
    BY <1>4, <2>2, <2>3, <2>4, Pair, OtherLines
       DEF External, KnotcExits, KnotdReloads, Boot, Crash, Exit, LoadZone,
         Transfer
<1> QED
  BY <1>3, <1>4 DEF Next, Terminated

(* named, which has never been a slave, has logged no transfer, and does   *)
(* not run while it is made one.                                           *)
LEMMA TransitKeeps ==
  ASSUME Sound, Recorded, Transit
  PROVE  Base' /\ Facts(Now)' /\ Frame'
<1> USE Pair
<1>0. TypeOK /\ Owned /\ Known /\ Patient(test) /\ Base /\ Facts(Now)
  BY DEF Sound, IInv
<1>1. /\ ip \in DOMAIN test.calls /\ pc = "call" /\ call.op = "transit"
      /\ Return /\ file' = [z \in Zones |-> 1]
      /\ slaves' = slaves \cup {"named"}
      /\ UNCHANGED <<test, proc, log, ser, db, latest, pending, ll, updated>>
  BY <1>0, AtCallInDomain DEF Transit, Calling, AtCall
<1>2. Now = "known" /\ StageAt(ip + 1) = "moved" /\ Dep = "knotd"
      /\ ~MayRun(test, "named", ip)
  BY <1>0, <1>1, Passing DEF Passes, Dep
<1>3. proc["named"] = "off"
  <2>1. ~pid["named"] /\ ~Starting("named")
    BY <1>0, <1>1, <1>2 DEF Known, Starting, Waiting
  <2> QED
    BY <1>0, <2>1 DEF Owned, TypeOK
<1>4. ~Came(log["named"], 1, Xfer) /\ Held(Dep) = New
  <2>1. "named" \notin slaves
    BY <1>0, <1>2, Grounds DEF Facts
  <2> QED
    BY <1>0, <1>2, <2>1 DEF Recorded, Facts
<1>5. /\ Zone' = Zone /\ Dep' = Dep /\ New' = New /\ Xfer' = Xfer
      /\ Now' = "moved" /\ file'[Zone] = 1
      /\ \A e : Held(e)' = Held(e)
  BY <1>0, <1>1, <1>2, Grounds, SameTest DEF Held, Return
<1>6. Base'
  <2>1. \A d \in Servers : proc[d] # "booting"
    BY <1>0, <1>1, NoneBoots
  <2>2. KnotdMaster'
    BY <1>2, <1>5 DEF KnotdMaster
  <2> QED
    BY <1>0, <1>1, <1>2, <1>3, <1>5, <2>1, <2>2 DEF Base
<1>7. Frame'
  BY <1>1 DEF Frame, Waiting, Return
<1> QED
  BY <1>1, <1>2, <1>4, <1>5, <1>6, <1>7 DEF Facts

(* RCODE is never reset. *)
LEMMA ShellRc ==
  ASSUME TypeOK, Places, Shell, ~rcode'
  PROVE  ~rcode
<1>1. CASE Inside \/ Advance \/ Leap
  BY <1>1, Zenon DEF Inside, Advance, Leap
<1>2. CASE \E d \in Servers : Start(d) \/ Stop(d)
  BY <1>2, Zenon DEF Start, Stop, Stopped
<1>3. CASE Compiled \/ Started \/ StopTerm \/ StopPoll
  BY <1>3, RcKeeps, Zenon DEF Compiled, Started, StopTerm, StopPoll, Stopped
<1>4. CASE KillNamed \/ GiveUp \/ Finish
  BY <1>4, RcKeeps, Zenon DEF KillNamed, GiveUp, Finish
<1> QED
  BY <1>1, <1>2, <1>3, <1>4, ShellClasses

(* A step that changes nothing keeps all. *)
LEMMA SteadyVerdict ==
  ASSUME Sound, UNCHANGED vars
  PROVE  Base' /\ Facts(Now)' /\ Frame'
<1>1. TypeOK /\ Patient(test) /\ Base /\ Facts(Now) /\ Frame
  BY DEF Sound, IInv
<1>2. /\ UNCHANGED <<test, proc, log, ser, file, db, latest, pending, slaves>>
      /\ UNCHANGED <<ip, pc, ret, ll, w, xfered, updated>>
  BY DEF vars, env, sh
<1>3. /\ call' = call /\ Zone' = Zone /\ New' = New /\ Dep \in Servers
      /\ Now' = Now /\ Now \in Stages /\ Dep' = Dep
      /\ \A e : Held(e)' = Held(e)
  BY <1>1, <1>2, SameTest, Grounds, NowStage DEF Held
<1>4. \A e : Starting(e)' <=> Starting(e)
  BY <1>2, <1>3 DEF Starting, Waiting
<1>5. Base'
  BY <1>1, <1>2, <1>4, SteadyBase
<1>6. \A s \in Stages : Facts(s) => Facts(s)'
  <2> SUFFICES ASSUME NEW s \in Stages, Facts(s) PROVE Facts(s)'
    OBVIOUS
  <2> QED
    BY <1>1, <1>2, <1>3, <1>4, SteadyFacts
<1>7. Frame'
  <2>1. /\ XferPattern(call.d, call.kind, Zone)' = XferPattern(call.d, call.kind, Zone)
        /\ (Aligned' <=> Aligned)
    BY <1>3 DEF XferPattern, Aligned
  <2>2. Hit' <=> Hit
    BY <1>2, <1>3, <2>1 DEF Hit
  <2> QED
    BY <1>1, <1>2, <1>3, <2>1, <2>2 DEF Frame, Waiting
<1> QED
  BY <1>1, <1>3, <1>5, <1>6, <1>7

-----------------------------------------------------------------------------
(* Scripts with TSIG, whose comparison may forget the difference it finds. *)

(* What is known of the zone in such a script: while it has one slave,     *)
(* that is never ahead of its master; once named was told to be one too,   *)
(* it comes back with the first version, and has the newest when it was    *)
(* waited for.                                                             *)
Leads(s) ==
  /\ s \notin {"moved", "followed", "good"} =>
       \A d \in Servers : Held(Dep) <= Held(d)
  /\ s = "moved" => file[Zone] = 1 /\ (New = 1 => Held("named") = New)
  /\ s \in {"followed", "good"} => Aligned

(* The zone is updated once. *)
IsUpdate(i) == test.calls[i].op = "update"
Once == New = 1 \/ (updated # {} /\ \E i \in 1..(ip - 1) : IsUpdate(i))

SignedVInv == Patient(test) /\ test.tsig /\ ~rcode => Leads(Now) /\ Once

(* A step that neither loads nor changes a zone, and stays at its stage or *)
(* goes on to another with one slave.                                      *)
LEMMA SteadyLeads ==
  ASSUME TypeOK, Patient(test), Leads(Now),
         UNCHANGED <<test, ser, db, file, latest>>,
         \/ Now' = Now
         \/ {Now, Now'} \cap {"moved", "followed", "good"} = {}
  PROVE  Leads(Now)'
<1>1. /\ Zone' = Zone /\ Dep' = Dep /\ New' = New
      /\ db'[Zone] = db[Zone] /\ file'[Zone] = file[Zone]
      /\ \A d : Held(d)' = Held(d)
  BY SameTest DEF Held
<1>2. Aligned' <=> Aligned
  BY <1>1 DEF Aligned
<1> QED
  BY <1>1, <1>2 DEF Leads

(* What the servers do leaves the slave behind its master. *)
LEMMA LeadsExternal ==
  ASSUME Sound, External, test.tsig, Leads(Now)
  PROVE  Leads(Now)'
<1> USE Pair
<1> DEFINE plain == Now \notin {"moved", "followed", "good"}
<1>0. TypeOK /\ Places /\ Patient(test) /\ Base /\ Facts(Now)
  BY DEF Sound, IInv
<1>1. test' = test /\ ip' = ip /\ UNCHANGED <<file, latest, slaves>>
  BY ExternalKeepsScript DEF External, KnotcExits, KnotdReloads, Boot, Crash,
    Exit, LoadZone, Transfer, sh
<1>2. /\ Zone' = Zone /\ Dep' = Dep /\ New' = New /\ Now' = Now
      /\ file'[Zone] = file[Zone]
  BY <1>1, SameTest
<1>3. /\ Dep \in Servers /\ test.slaves = {Dep} /\ test.seeded = {}
      /\ New \in Nat /\ db[Zone] \in Nat /\ \A d \in Servers : Held(d) \in Nat
      /\ Zone \in Zones /\ Zones = {Zone}
  BY <1>0, Grounds DEF Patient, FromScratch
<1>4. /\ plain => /\ Dep = "knotd" => Held("knotd") <= Held("named")
                  /\ Dep = "named" => Held("named") <= Held("knotd")
                  /\ file[Zone] = New /\ slaves = {Dep}
      /\ Now = "moved" => /\ file[Zone] = 1 /\ (New = 1 => Held("named") = New)
                          /\ Dep = "knotd" /\ Held("knotd") = New
      /\ Now = "followed" => Dep = "knotd"
      /\ Now \in {"followed", "good"} =>
           Aligned /\ Held("knotd") = New /\ Held("named") = New
      /\ Dep = "named" => Held("knotd") <= db[Zone]
  BY <1>0, <1>3 DEF Leads, Facts, Aligned, Base, KnotdMaster
<1> DEFINE rest ==
        /\ plain /\ Dep = "knotd" => Held("knotd")' <= Held("named")'
        /\ plain /\ Dep = "named" => Held("named")' <= Held("knotd")'
        /\ Now = "moved" /\ New = 1 => Held("named")' = New
        /\ Now \in {"followed", "good"} =>
             Held("knotd")' = New /\ Held("named")' = New
<1>5. rest => Leads(Now)'
  <2>1. Aligned' <=> Held("knotd")' = New /\ Held("named")' = New
    BY <1>2 DEF Aligned
  <2>2. Dep = "knotd" => \A d \in Servers : Held(Dep)' = Held("knotd")'
    BY <1>2
  <2>3. Dep = "named" => \A d \in Servers : Held(Dep)' = Held("named")'
    BY <1>2
  <2>4. \A d \in Servers : Held(d)' \in Nat
    <3>1. TypeOK' /\ Zones' = Zones
      BY <1>0, <1>1, TypeStep, SameTest DEF Next
    <3>2. ser' \in [Servers -> [Zones -> Nat]]
      BY <3>1 DEF TypeOK
    <3> QED
      BY <1>2, <1>3, <3>2 DEF Held
  <2> QED
    BY <1>2, <1>3, <1>4, <2>1, <2>2, <2>3, <2>4 DEF Leads
<1>6. ASSUME KnotcExits \/ \E d \in Servers : Crash(d) \/ Exit(d)
      PROVE  rest
  <2>1. ser' = ser /\ (db' = db \/ db' = file)
    BY <1>6 DEF KnotcExits, Crash, Exit
  <2>2. Held("knotd")' = Held("knotd") /\ Held("named")' = Held("named")
    BY <1>2, <2>1 DEF Held
  <2>3. db'[Zone] \in {db[Zone], file[Zone]} /\ Held("knotd") <= New
    BY <1>0, <2>1 DEF Base
  <2> QED
    BY <1>3, <1>4, <2>2, <2>3
<1>7. ASSUME NEW d \in Servers, Boot(d)
      PROVE  rest
  <2>1. db' = db
    BY <1>7 DEF Boot
  <2>2. /\ Now \in {"fresh", "offline"} \/ (Now = "moved" /\ d = "named")
           \/ (Now = "good" /\ d = Dep)
        /\ \A e \in Servers : e # d => Held(e)' = Held(e)
        /\ Held(d)' \in {Held(d), Stored(d)[Zone]}
        /\ d = Dep => Held(d)' = Held(d)
    BY <1>3, <1>7, BootKeeps
  <2>3. /\ Stored("knotd")[Zone] = db[Zone] /\ Stored("named")[Zone] = file[Zone]
        /\ \A e \in Servers : Held(e) <= New
    BY <1>0 DEF Stored, Base
  <2>4. CASE d = "knotd"
    BY <1>3, <1>4, <2>1, <2>2, <2>3, <2>4
  <2>5. CASE d = "named"
    BY <1>3, <1>4, <2>1, <2>2, <2>3, <2>5
  <2> QED
    BY <2>4, <2>5
<1>8. ASSUME KnotdReloads
      PROVE  rest
  <2>1. db' = db
    BY <1>8 DEF KnotdReloads
  <2>2. /\ Held("named")' = Held("named") /\ (Aligned => Aligned')
        /\ Held("knotd")' \in {Held("knotd"), db[Zone]}
        /\ Held("knotd") <= Held("knotd")'
        /\ Dep = "knotd" => Held("knotd")' = Held("knotd")
    BY <1>8, ReloadKeeps
  <2>5. Aligned => Held("knotd")' = New
    BY <1>2, <2>2 DEF Aligned
  <2>3. CASE Dep = "knotd"
    BY <1>3, <1>4, <2>2, <2>3, <2>5
  <2>4. CASE Dep = "named"
    BY <1>3, <1>4, <2>2, <2>4, <2>5
  <2> QED
    BY <1>3, <2>3, <2>4
<1>9. ASSUME NEW z \in Zones, LoadZone(z)
      PROVE  rest
  <2>1. db' = db /\ "named" \in Servers /\ z \in pending
    BY <1>9 DEF LoadZone
  <2>2. Held("named")' = New /\ Held("knotd")' = Held("knotd")
    BY <1>9, LoadKeeps
  <2>3. Dep = "knotd" /\ Held("knotd") <= New
    BY <1>0, <1>3, <2>1 DEF Base, KnotdMaster
  <2> QED
    BY <1>3, <1>4, <2>1, <2>2, <2>3
<1>10. ASSUME NEW d \in Servers, NEW z \in Zones,
              NEW kind \in {"AXFR", "IXFR"}, Transfer(d, z, kind)
       PROVE  rest
  <2>1. db' = db
    BY <1>10 DEF Transfer
  <2>2. /\ ~Aligned /\ d \in slaves /\ Held(d) < New
        /\ Other(d) \in Servers \ {d} /\ Held(d)' = Held(Other(d))
        /\ Held(Other(d))' = Held(Other(d))
    BY <1>10, TransferKeeps
  <2>3. CASE d = "knotd"
    <3>1. Held("knotd")' = Held("named") /\ Held("named")' = Held("named")
      BY <2>2, <2>3
    <3> QED
      BY <1>3, <1>4, <2>1, <2>2, <2>3, <3>1
  <2>4. CASE d = "named"
    <3>1. Held("named")' = Held("knotd") /\ Held("knotd")' = Held("knotd")
      BY <2>2, <2>4
    <3> QED
      BY <1>3, <1>4, <2>1, <2>2, <2>4, <3>1
  <2> QED
    BY <2>3, <2>4
<1> QED
  BY <1>5, <1>6, <1>7, <1>8, <1>9, <1>10 DEF External

(* A script never goes back. *)
LEMMA ShellAhead ==
  ASSUME TypeOK, Places, Shell
  PROVE  ip \in Nat /\ ip' \in Nat /\ ip' >= ip
<1>1. ip \in Nat /\ (AtCall => call.skip \in Nat)
  BY AtCallInDomain, CallTypes DEF TypeOK, Calls
<1>2. ip' = ip \/ ip' = ip + 1 \/ (AtCall /\ ip' = ip + call.skip)
  <2>1. CASE Inside \/ Advance \/ Leap
    BY <2>1 DEF Inside, Advance, Leap
  <2>2. CASE \E d \in Servers : Start(d) \/ Stop(d)
    BY <2>2 DEF Start, Stop, Stopped, Return
  <2>3. CASE \/ Compiled \/ Started \/ StopTerm \/ StopPoll \/ KillNamed
             \/ GiveUp \/ Finish
    BY <2>3 DEF Compiled, Started, StopTerm, StopPoll, KillNamed, GiveUp,
      Finish, Stopped, Return, Spawn
  <2> QED
    BY <2>1, <2>2, <2>3, ShellClasses
<1> QED
  BY <1>1, <1>2

(* A zone that was updated before a step was updated before the next. *)
LEMMA OnceKeeps ==
  ASSUME ip \in Nat, ip' \in Nat, ip' >= ip, Once,
         UNCHANGED <<test, latest, updated>>
  PROVE  Once'
<1>1. New' = New /\ \A i : IsUpdate(i)' <=> IsUpdate(i)
  BY SameTest DEF IsUpdate
<1> DEFINE n == ip'
<1>2. ASSUME NEW i \in 1..(ip - 1)
      PROVE  i \in 1..(n - 1)
  <2>1. n \in Nat /\ n >= ip
    OBVIOUS
  <2> HIDE DEF n
  <2> QED
    BY <2>1
<1> QED
  BY <1>1, <1>2 DEF Once

(* The one update takes the zone from its first version.                   *)
LEMMA LeadsUpdate ==
  ASSUME Sound, Update, test.tsig, Leads(Now), Once
  PROVE  Leads(Now)' /\ Once'
<1>0. TypeOK /\ Places /\ Patient(test) /\ Facts(Now)
  BY DEF Sound, IInv
<1>1. /\ ip \in DOMAIN test.calls /\ pc = "call" /\ IsUpdate(ip)
      /\ ip' = ip + 1 /\ latest' = file'
      /\ UNCHANGED <<test, ser, db>>
  BY <1>0, AtCallInDomain DEF Update, Calling, AtCall, Return, IsUpdate, call
<1>2. PICK S \in SUBSET updated' :
        file' = [z \in Zones |-> IF z \in S THEN file[z] + 1 ELSE file[z]]
  BY DEF Update
<1>3. /\ Zone \in Zones /\ Zone' = Zone /\ Dep' = Dep /\ Now' = StageAt(ip + 1)
      /\ \A d : Held(d)' = Held(d)
      /\ \A i : IsUpdate(i)' <=> IsUpdate(i)
      /\ DOMAIN test.calls = 1..Len(test.calls) /\ ip \in Nat
      /\ db'[Zone] = db[Zone]
  BY <1>0, <1>1, Grounds, SameTest, TestTypes DEF Held, IsUpdate, TypeOK
<1>4. /\ Now \in {"fresh", "level"} /\ Now' \in {"early", "offline", "due"}
  BY <1>0, <1>1, <1>3, Passing DEF Passes, IsUpdate, call
<1>5. Leads(Now)'
  BY <1>3, <1>4 DEF Leads
<1>6. New = 1 /\ file[Zone] = 1
  <2>1. ASSUME NEW i \in 1..(ip - 1), IsUpdate(i)
        PROVE  FALSE
    <3>1. i \in DOMAIN test.calls /\ i # ip
      BY <1>1, <1>3
    <3> QED
      BY <1>0, <1>1, <2>1, <3>1 DEF Patient, FromScratch, IsUpdate
  <2> QED
    BY <1>0, <1>4, <2>1 DEF Once, Facts
<1>7. New' = file'[Zone]
  BY <1>1, <1>3 DEF New
<1>8. Once'
  <2>1. CASE Zone \in S
    <3>1. updated' # {} /\ ip \in 1..(ip + 1 - 1)
      BY <1>2, <1>3, <1>1, <2>1
    <3>2. ip \in 1..(ip' - 1)
      BY <1>1, <3>1
    <3> QED
      BY <1>1, <1>3, <3>1, <3>2 DEF Once
  <2>2. CASE Zone \notin S
    BY <1>2, <1>3, <1>6, <1>7, <2>2 DEF Once
  <2> QED
    BY <2>1, <2>2
<1> QED
  BY <1>5, <1>8

(* named has the newest version when it is made a slave.                   *)
LEMMA LeadsTransit ==
  ASSUME Sound, Transit, test.tsig, Leads(Now)
  PROVE  Leads(Now)'
<1> USE Pair
<1>0. TypeOK /\ Places /\ Patient(test) /\ Base /\ Facts(Now)
  BY DEF Sound, IInv
<1>1. /\ ip \in DOMAIN test.calls /\ pc = "call" /\ call.op = "transit"
      /\ Return /\ file' = [z \in Zones |-> 1]
      /\ UNCHANGED <<test, ser, latest>>
  BY <1>0, AtCallInDomain DEF Transit, Calling, AtCall
<1>2. Now = "known" /\ StageAt(ip + 1) = "moved" /\ Dep = "knotd"
  BY <1>0, <1>1, Passing DEF Passes, Dep
<1>3. /\ Zone' = Zone /\ New' = New /\ Now' = "moved" /\ file'[Zone] = 1
      /\ Held("named")' = Held("named")
  BY <1>0, <1>1, <1>2, Grounds, SameTest DEF Held, Return
<1>4. Held("named") = New
  <2>1. /\ Held("knotd") = New /\ Held("knotd") <= Held("named")
        /\ Held("named") <= New
    BY <1>0, <1>2 DEF Leads, Facts, Base
  <2> QED
    BY <1>0, <2>1, Grounds
<1> QED
  BY <1>3, <1>4 DEF Leads

(* A wait for named, which has but one version to get, and a comparison of *)
(* servers that have the same.                                             *)
LEMMA LeadsEnds ==
  ASSUME Sound, ~rcode', WaitEnd \/ DigEnd, test.tsig, Leads(Now), Once
  PROVE  Leads(Now)'
<1> USE Pair
<1>0. TypeOK /\ Places /\ Patient(test) /\ Base /\ Facts(Now)
  BY DEF Sound, IInv
<1>1. UNCHANGED <<test, ser, db, file, latest>>
  BY DEF WaitEnd, DigEnd, env
<1>2. /\ Zone' = Zone /\ Dep' = Dep /\ New' = New
      /\ \A d : Held(d)' = Held(d)
  BY <1>1, SameTest DEF Held
<1>3. Aligned' <=> Aligned
  BY <1>2 DEF Aligned
<1>4. Aligned <=> Held("knotd") = New /\ Held("named") = New
  BY DEF Aligned
<1>5. CASE WaitEnd
  <2>1. \/ {Now, Now'} \cap {"moved", "followed", "good"} = {}
        \/ /\ Now = "moved" /\ Now' = "followed"
           /\ Held("named") = New \/ updated = {}
    BY <1>5, WaitEndKeeps
  <2>2. CASE {Now, Now'} \cap {"moved", "followed", "good"} = {}
    BY <1>0, <1>1, <2>2, SteadyLeads
  <2>3. CASE /\ Now = "moved" /\ Now' = "followed"
             /\ Held("named") = New \/ updated = {}
    <3>1. Held("knotd") = New
      BY <1>0, <2>3 DEF Facts
    <3>2. Held("named") = New
      BY <2>3 DEF Leads, Once
    <3> QED
      BY <1>3, <1>4, <2>3, <3>1, <3>2 DEF Leads
  <2> QED
    BY <2>1, <2>2, <2>3
<1>6. CASE DigEnd
  <2>1. Now' = "good"
    BY <1>6, DigEndKeeps
  <2>2. Now \in {"level", "known", "followed", "good"}
    <3>1. ip \in DOMAIN test.calls /\ call.op = "dig"
      BY <1>0, <1>6 DEF Places, DigEnd
    <3> QED
      BY <1>0, <3>1, Passing DEF Passes
  <2>3. Aligned
    <3>1. CASE Now \in {"level", "known"}
      <4>1. /\ Held(Dep) = New
            /\ \A d \in Servers : Held(Dep) <= Held(d) /\ Held(d) <= New
        BY <1>0, <3>1 DEF Facts, Leads, Base
      <4> QED
        BY <1>0, <4>1, Grounds DEF Aligned
    <3> QED
      BY <2>2, <3>1 DEF Leads
  <2> QED
    BY <1>3, <2>1, <2>3 DEF Leads
<1> QED
  BY <1>5, <1>6

(* The other steps of a script. *)
LEMMA LeadsShell ==
  ASSUME Sound, ~rcode', Shell, test.tsig, Leads(Now), Once
  PROVE  Leads(Now)' /\ Once'
<1>0. TypeOK /\ Places /\ Patient(test)
  BY DEF Sound, IInv
<1>1. ip \in Nat /\ ip' \in Nat /\ ip' >= ip
  BY <1>0, ShellAhead
<1>2. ASSUME UNCHANGED <<test, ser, db, file, latest, updated>>,
             \/ Now' = Now
             \/ {Now, Now'} \cap {"moved", "followed", "good"} = {}
      PROVE  Leads(Now)' /\ Once'
  BY <1>0, <1>1, <1>2, SteadyLeads, OnceKeeps
<1>3. CASE \/ WatchProbe \/ WatchGrep \/ CallCompile \/ CompilePoll
           \/ KnotdReload \/ Wait \/ WaitZone \/ WaitSeen \/ Dig \/ DigZone
  <2>1. UNCHANGED <<test, ser, db, file, latest, updated>>
    BY <1>3 DEF WatchProbe, WatchGrep, CallCompile, CompilePoll, KnotdReload,
      Wait, WaitZone, WaitSeen, Dig, DigZone, env
  <2> QED
    BY <1>2, <1>3, <2>1, InsideKeeps
<1>4. CASE \/ Skip \/ Rndc \/ KnotdReloaded \/ DigKnot \/ DigName \/ DigFile
           \/ SetRet \/ CheckCrash \/ KillNamed \/ Finish
  <2>1. UNCHANGED <<test, ser, db, file, latest, updated>>
    BY <1>4 DEF Skip, Rndc, KnotdReloaded, DigKnot, DigName, DigFile, SetRet,
      CheckCrash, KillNamed, Finish, env
  <2> QED
    BY <1>2, <1>4, <2>1, LeaveKeeps
<1>5. CASE StopTerm \/ StopPoll \/ \E d \in Servers : Stop(d)
  <2>1. UNCHANGED <<test, ser, db, file, latest, updated>>
    BY <1>5 DEF StopTerm, StopPoll, Stop, env
  <2> QED
    BY <1>2, <1>5, <2>1, StopKeeps
<1>6. CASE Compiled \/ Started \/ \E d \in Servers : Start(d)
  <2>1. UNCHANGED <<test, ser, db, file, latest, updated>>
    BY <1>6 DEF Compiled, Started, Start, env
  <2>2. \/ Now' = Now
        \/ {Now, Now'} \cap {"moved", "followed", "good"} = {}
    BY <1>6, CompiledKeeps, StartedKeeps, StartKeeps
  <2> QED
    BY <1>2, <2>1, <2>2
<1>7. CASE Update
  BY <1>7, LeadsUpdate
<1>8. CASE Transit
  <2>1. UNCHANGED <<test, latest, updated>>
    BY <1>8 DEF Transit
  <2> QED
    BY <1>1, <1>8, <2>1, LeadsTransit, OnceKeeps
<1>9. CASE WaitEnd \/ DigEnd
  <2>1. UNCHANGED <<test, latest, updated>>
    BY <1>9 DEF WaitEnd, DigEnd, env
  <2> QED
    BY <1>1, <1>9, <2>1, LeadsEnds, OnceKeeps
<1>10. ~GiveUp
  <2>1. 1 # 0
    OBVIOUS
  <2> QED
    BY <2>1, Zenon DEF GiveUp, Rc
<1> QED
  BY <1>3, <1>4, <1>5, <1>6, <1>7, <1>8, <1>9, <1>10 DEF Shell


-----------------------------------------------------------------------------
(* The invariant. *)

(* It holds at first, of the first version of the zone ... *)
LEMMA InitVInv == Init => VInv /\ Recorded
<1> SUFFICES ASSUME Init PROVE VInv /\ Recorded
  OBVIOUS
<1>1. TypeOK
  BY InitIInv DEF IInv
<1>2. /\ test.slaves = slaves /\ latest = file /\ pending = {} /\ pc = "call"
      /\ \A d \in Servers : log[d] = <<>> /\ proc[d] # "booting"
      /\ \A d \in Servers : ser[d] = [z \in Zones |-> 0]
      /\ file = [z \in Zones |-> 1] /\ db = [z \in Zones |-> 0] /\ ip = 1
  BY DEF Init
<1>3. Recorded
  BY <1>2, CameNever DEF Recorded
<1>4. ASSUME Patient(test)
      PROVE  Base /\ Facts(Now) /\ Frame
  <2>1. Now = "fresh" /\ Zone \in Zones /\ Dep \in Servers
    BY <1>1, <1>2, <1>4, NowStage, Grounds
  <2>2. /\ New = 1 /\ file[Zone] = 1 /\ db[Zone] = 0
        /\ \A d \in Servers : Held(d) = 0
    BY <1>2, <2>1 DEF New, Held
  <2>3. Base
    <3>1. test.slaves = {Dep}
      BY <1>1, <1>4, Grounds
    <3>2. KnotdMaster
      BY <1>2, <2>2, <3>1, Pair DEF KnotdMaster
    <3> QED
      BY <1>2, <2>2, <3>2 DEF Base
  <2>4. ~Came(log[Dep], 1, Ixfr) /\ ~Came(log[Dep], 1, Xfer)
    BY <1>2, <2>1, CameNever
  <2>5. Facts(Now)
    BY <1>2, <2>1, <2>2, <2>4 DEF Facts
  <2>6. Frame
    BY <1>2 DEF Frame, Waiting
  <2> QED
    BY <2>3, <2>5, <2>6
<1> QED
  BY <1>3, <1>4 DEF VInv

(* ... and each step keeps it, or records a failure.                       *)
LEMMA VStep == IInv /\ VInv /\ Recorded /\ [Next]_vars => VInv'
<1> SUFFICES ASSUME IInv, VInv, Recorded, [Next]_vars, Patient(test)', ~rcode'
             PROVE  Base' /\ Facts(Now)' /\ Frame'
  BY DEF VInv
<1>0. TypeOK /\ Places
  BY DEF IInv
<1>1. test' = test
  BY ShellLogs, ExternalKeepsScript DEF Next, Terminated
<1>2. Patient(test)
  BY <1>1, SameTest
<1>3. CASE External
  <2>1. rcode' = rcode
    BY <1>3, ExternalKeepsScript DEF sh
  <2>2. Sound
    BY <1>2, <2>1 DEF Sound, VInv
  <2> QED
    BY <1>3, <2>2, ExternalKeeps
<1>4. CASE UNCHANGED vars
  <2>1. rcode' = rcode
    BY <1>4 DEF vars, sh
  <2>2. Sound
    BY <1>2, <2>1 DEF Sound, VInv
  <2> QED
    BY <1>4, <2>2, SteadyVerdict
<1>5. CASE Shell
  <2>1. ~rcode
    BY <1>0, <1>5, ShellRc
  <2>2. Sound
    BY <1>2, <2>1 DEF Sound, VInv
  <2>3. ~GiveUp
    <3>1. 1 # 0
      OBVIOUS
    <3> QED
      BY <3>1, Zenon DEF GiveUp, Rc
  <2>4. CASE \/ WatchProbe \/ WatchGrep \/ CallCompile \/ CompilePoll
             \/ KnotdReload \/ Wait \/ WaitZone \/ WaitSeen \/ Dig \/ DigZone
    BY <2>2, <2>4, InsideKeeps
  <2>5. CASE \/ Skip \/ Rndc \/ KnotdReloaded \/ DigKnot \/ DigName \/ DigFile
             \/ SetRet \/ CheckCrash \/ KillNamed \/ Finish
    BY <2>2, <2>5, LeaveKeeps
  <2>6. CASE StopTerm \/ StopPoll \/ \E d \in Servers : Stop(d)
    BY <2>2, <2>6, StopKeeps
  <2>7. CASE Compiled \/ Started \/ \E d \in Servers : Start(d)
    BY <2>2, <2>7, StartKeeps, CompiledKeeps, StartedKeeps
  <2>8. CASE Update \/ Transit \/ WaitEnd \/ DigEnd
    BY <2>2, <2>8, UpdateKeeps, TransitKeeps, WaitEndKeeps, DigEndKeeps
  <2> QED
    BY <1>5, <2>3, <2>4, <2>5, <2>6, <2>7, <2>8 DEF Shell
<1> QED
  BY <1>3, <1>4, <1>5 DEF Next, Terminated

(* In a script with TSIG also the other facts hold at first ...            *)
LEMMA InitSigned == Init => SignedVInv
<1> SUFFICES ASSUME Init, Patient(test) PROVE Leads(Now) /\ Once
  BY DEF SignedVInv
<1>1. TypeOK
  BY InitIInv DEF IInv
<1>2. /\ latest = file /\ file = [z \in Zones |-> 1] /\ ip = 1
      /\ \A d \in Servers : ser[d] = [z \in Zones |-> 0]
      /\ db = [z \in Zones |-> 0]
  BY DEF Init
<1>3. Now = "fresh" /\ Zone \in Zones /\ Dep \in Servers
  BY <1>1, <1>2, NowStage, Grounds
<1>4. New = 1 /\ db[Zone] = 0 /\ \A d \in Servers : Held(d) = 0
  BY <1>2, <1>3 DEF New, Held
<1> QED
  BY <1>3, <1>4, Pair DEF Leads, Once

(* ... and are kept. *)
LEMMA SignedStep == IInv /\ VInv /\ SignedVInv /\ [Next]_vars => SignedVInv'
<1> SUFFICES ASSUME IInv, VInv, SignedVInv, [Next]_vars,
                    Patient(test)', test.tsig', ~rcode'
             PROVE  Leads(Now)' /\ Once'
  BY DEF SignedVInv
<1>0. TypeOK /\ Places
  BY DEF IInv
<1>1. test' = test
  BY ShellLogs, ExternalKeepsScript DEF Next, Terminated
<1>2. Patient(test) /\ test.tsig
  BY <1>1, SameTest
<1>3. ASSUME ~rcode
      PROVE  Sound /\ Leads(Now) /\ Once
  BY <1>2, <1>3 DEF Sound, VInv, SignedVInv
<1>4. CASE External
  <2>1. ip' = ip /\ rcode' = rcode /\ updated' = updated
    BY <1>4, ExternalKeepsScript DEF sh
  <2>2. latest' = latest
    BY <1>4 DEF External, KnotcExits, KnotdReloads, Boot, Crash, Exit, LoadZone,
      Transfer
  <2>3. ip \in Nat /\ ip' \in Nat /\ ip' >= ip
    BY <1>0, <2>1 DEF TypeOK
  <2> QED
    BY <1>1, <1>2, <1>3, <1>4, <2>1, <2>2, <2>3, LeadsExternal, OnceKeeps
<1>5. CASE UNCHANGED vars
  <2>1. /\ UNCHANGED <<test, ser, db, file, latest, updated, rcode>> /\ ip' = ip
    BY <1>5 DEF vars, env, sh
  <2>2. Now' = Now
    BY <2>1, SameTest
  <2>3. ip \in Nat /\ ip' \in Nat /\ ip' >= ip
    BY <1>0, <2>1 DEF TypeOK
  <2> QED
    BY <1>0, <1>2, <1>3, <2>1, <2>2, <2>3, SteadyLeads, OnceKeeps
<1>6. CASE Shell
  <2>1. ~rcode
    BY <1>0, <1>6, ShellRc
  <2> QED
    BY <1>2, <1>3, <1>6, <2>1, LeadsShell
<1> QED
  BY <1>4, <1>5, <1>6 DEF Next, Terminated

(* At each moment of each run of a patient script where nothing has failed *)
(* so far, what is known of the zone at the stage of the script is true.   *)
THEOREM StagesHold == Spec => [](VInv /\ SignedVInv)
<1>1. IInv /\ VInv /\ SignedVInv /\ Recorded /\ [Next]_vars =>
        VInv' /\ SignedVInv' /\ Recorded'
  BY VStep, SignedStep, RecordedStep DEF IInv
<1> QED
  BY <1>1, InitVInv, InitSigned, Invariant, PTL DEF Spec

(* A wait that has counted its zone while nothing has failed is right: the *)
(* slave holds the newest version (KNOTD_LL and NAMED_LL keep an earlier   *)
(* line from being taken for it).                                          *)
THEOREM CountIsTrue == Spec => [](Patient(test) => CompleteCountIsTrue)
<1>1. IInv /\ VInv => (Patient(test) => CompleteCountIsTrue)
  <2> SUFFICES ASSUME IInv, VInv, Patient(test), pc = "zone", xfered = Args,
                      ~rcode, NEW z \in Args
               PROVE  ser[call.d][z] = latest[z]
    BY DEF CompleteCountIsTrue
  <2>1. TypeOK /\ Places /\ Sound
    BY DEF IInv, Sound, VInv
  <2>2. ip \in DOMAIN test.calls /\ call.op = "wait"
    BY <2>1 DEF Places
  <2>3. z = Zone
    BY <2>1, <2>2, ArgsIsZone
  <2>4. Hit
    BY <2>1 DEF Sound, Frame
  <2> QED
    BY <2>1, <2>2, <2>3, <2>4, HitNewest DEF Held, New
<1> QED
  BY <1>1, StagesHold, Invariant, PTL

(* A script that compares the servers and exits with 0 has left both with  *)
(* the newest version of its zone: no late reload, stale log line or       *)
(* masked timeout makes it pass, nor, with TSIG, the comparison that       *)
(* forgets the differences it has found.                                   *)
THEOREM VerdictIsSound == Spec => [](Patient(test) => VerdictSound)
<1>1. IInv /\ VInv /\ SignedVInv => (Patient(test) => VerdictSound)
  <2> SUFFICES ASSUME IInv, VInv, SignedVInv, Patient(test), pc = "done",
                      ~rcode, Compares, NEW z \in Zones, NEW d \in Servers
               PROVE  ser[d][z] = latest[z]
    BY DEF VerdictSound
  <2>1. TypeOK /\ Facts(Now) /\ Frame
    BY DEF IInv, VInv
  <2>2. Now = "good"
    BY <2>1, NowStage DEF Frame
  <2>3. Aligned
    BY <2>1, <2>2 DEF Facts, SignedVInv, Leads
  <2>4. z = Zone
    BY <2>1, Grounds
  <2> QED
    BY <2>3, <2>4 DEF Aligned, Held, New
<1> QED
  BY <1>1, StagesHold, Invariant, PTL
=============================================================================
