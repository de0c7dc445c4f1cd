------------------------------ MODULE TestCase ------------------------------
(***************************************************************************)
(* The shell harness of cases/test.case: one sequential script that starts *)
(* knotd and named, updates zone files, waits for log lines and compares   *)
(* the two servers, while both servers run, log, transfer zones and crash  *)
(* on their own.  A script of cases/ is the sequence of helper calls that  *)
(* it makes (module Scripts).                                              *)
(***************************************************************************)
EXTENDS Integers, Sequences, FiniteSets

CONSTANTS
  Tests,        \* the scripts (Scripts)
  Limit,        \* polls of _watch before TIMEOUT (TIMEOUT * 5 in the code)
  CompileLimit, \* polls of _knotd_compile before its timeout
  Grace,        \* polls of _stop_pid before kill -9
  MaxCrash,     \* bound: crashes of servers in one behaviour
  StrayKnotd    \* TRUE if a knotd of an earlier run may still be alive

Servers == {"knotd", "named"}
Other(d) == IF d = "knotd" THEN "named" ELSE "knotd"

Ops == {"start", "stop", "wait", "update", "reload", "refresh", "transit",
        "kreload", "compile", "dig", "digsoa", "digname", "digfile", "kill9",
        "ret0", "alive", "crashed", "exit"}
Calls == [op : Ops, d : Servers, kind : {"AXFR", "IXFR"},
          zs : {"all", "some", "first", "updated"},
          when : {"always", "rc", "ret", "failed"}, skip : Nat]

(* A script: the helper calls it makes, its zones in the order of          *)
(* ${ZONES[*]}, the servers that are slaves at first, the slaves that have *)
(* zone files nevertheless, and whether transfers are signed.              *)
ASSUME TestAssumption ==
  \A t \in Tests :
    /\ t.calls \in Seq(Calls)
    /\ t.zones \in Seq(STRING) /\ Len(t.zones) > 0
    /\ t.seeded \subseteq t.slaves /\ t.slaves \subseteq Servers
    /\ t.tsig \in BOOLEAN
    /\ \A i \in DOMAIN t.calls :
         /\ t.calls[i].skip \in 1..(Len(t.calls) + 1 - i)
         /\ IF t.calls[i].op = "update" THEN t.calls[i].zs # "updated"
                                       ELSE t.calls[i].zs # "some"
ASSUME BoundAssumption == /\ Limit \in Nat \ {0}
                          /\ CompileLimit \in Nat \ {0}
                          /\ Grace \in Nat \ {0}
                          /\ MaxCrash \in Nat
                          /\ StrayKnotd \in BOOLEAN

VARIABLES
  test,     \* the script that is run
  \* the servers, their logs and the zone files
  proc,     \* [Servers -> off | stray | booting | up | stopping]
  clean,    \* exit status of the last process of each server was 0
  log,      \* knotd.log and named.log, as sequences of lines
  ser,      \* SOA serial each server holds for each zone, 0 when none
  file,     \* SOA serial of each zone file
  db,       \* the same of the zones that knotc has compiled
  latest,   \* highest serial the script has given each zone
  pending,  \* zones named was told to reread and has not yet
  reloads,  \* knotd was told to reload and has not yet
  slaves,   \* servers that transfer zones in
  crashed,  \* servers that crashed, with the number of crashes
  knotc,    \* the zone compiler: none | running | ok | failed
  \* the script
  ip, pc,   \* next call, and the place inside the current one
  ret,      \* the shell's global ret
  rcode,    \* RCODE, as whether it is non-zero
  pid,      \* KNOTD_PID, NAMED_PID: whether they are non-zero
  ll,       \* KNOTD_LL, NAMED_LL
  w,        \* arguments and locals of the running _watch
  tmout,    \* countdown of _knotd_compile and _stop_pid
  todo,     \* zones of a loop over zones that are still to come
  xfered,   \* zones of it that were transferred or alike
  updated,  \* ${updated[*]}
  ftsig     \* dig.ftsig exists: the TSIG filter has found a fault

env == <<test, proc, clean, log, ser, file, db, latest, pending, reloads,
         slaves, crashed, knotc>>
sh == <<ip, pc, ret, rcode, pid, ll, w, tmout, todo, xfered, updated, ftsig>>
vars == <<env, sh>>

-----------------------------------------------------------------------------
(* The zones of the script, and log lines. *)

Zones == {test.zones[i] : i \in DOMAIN test.zones}

Line(k, z) == [k |-> k, z |-> z]
Lines == [k : {"up", "reloaded"}, z : {"-"}]
           \cup [k : {"AXFR", "IXFR"}, z : Zones]
Logged(d, line) == log' = [log EXCEPT ![d] = Append(@, line)]

(* What a wait for zone z greps for.  named logs both kinds of transfer    *)
(* alike, so its two waits share one pattern.                              *)
XferPattern(d, kind, z) ==
  IF d = "knotd" THEN {Line(kind, z)} ELSE {Line("AXFR", z), Line("IXFR", z)}

(* kill -0 $PID: a PID of 0 is the caller's own process group. *)
KillZero(d) == ~pid[d] \/ proc[d] # "off"

(* An idle _watch frame. *)
NoWatch == [must |-> {}, log |-> "knotd", pat |-> {}, from |-> 0,
            lim |-> 0, ctr |-> 0, dead |-> FALSE, res |-> 0, then |-> "call"]
WatchFrames ==
  [must : SUBSET Servers, log : Servers, pat : SUBSET Lines, from : Nat,
   lim : {0, Limit}, ctr : 0..(Limit - 1), dead : BOOLEAN, res : 0..2,
   then : {"call", "started", "seen", "reloaded"}]

Init ==
  /\ test \in Tests
  /\ \E first \in IF StrayKnotd THEN {"off", "stray"} ELSE {"off"} :
       proc = [d \in Servers |-> IF d = "knotd" THEN first ELSE "off"]
  /\ clean = [d \in Servers |-> TRUE]
  /\ log = [d \in Servers |-> <<>>]
  /\ ser = [d \in Servers |-> [z \in Zones |-> 0]]
  /\ file = [z \in Zones |-> 1]
  /\ db = [z \in Zones |-> 0]
  /\ latest = file
  /\ pending = {} /\ reloads = FALSE
  /\ slaves = test.slaves
  /\ crashed = [d \in Servers |-> 0]
  /\ knotc = "none"
  /\ ip = 1 /\ pc = "call"
  /\ ret = 0 /\ rcode = FALSE
  /\ pid = [d \in Servers |-> FALSE]
  /\ ll = [d \in Servers |-> 0]
  /\ w = NoWatch
  /\ tmout = 0 /\ todo = {} /\ xfered = {} /\ updated = {} /\ ftsig = FALSE

-----------------------------------------------------------------------------
(* The servers and the compiler: external programs, modelled from what the *)
(* script starts, signals and reads.                                       *)

(* named reads zone files, and knotd what knotc has made of them.          *)
Stored(d) == IF d = "knotd" THEN db ELSE file

(* A server comes up, with zones unless it is a slave that has none in     *)
(* store, and logs the line _watch waits for.                              *)
Boot(d) ==
  /\ proc[d] = "booting"
  /\ proc' = [proc EXCEPT ![d] = "up"]
  /\ ser' = IF d \in test.slaves \ test.seeded
               THEN ser ELSE [ser EXCEPT ![d] = Stored(d)]
  /\ Logged(d, Line("up", "-"))
  /\ UNCHANGED <<clean, file, db, latest, pending, reloads, test, slaves,
                 crashed, knotc, sh>>

(* A server dies on its own, while it starts, runs or stops. *)
Crash(d) ==
  /\ proc[d] \in {"booting", "up", "stopping"}
  /\ crashed["knotd"] + crashed["named"] < MaxCrash
  /\ proc' = [proc EXCEPT ![d] = "off"]
  /\ clean' = [clean EXCEPT ![d] = FALSE]
  /\ crashed' = [crashed EXCEPT ![d] = @ + 1]
  /\ UNCHANGED <<log, ser, file, db, latest, pending, reloads, test, slaves,
                 knotc, sh>>

(* A server told to terminate does so, with an exit status of its own. *)
Exit(d) ==
  /\ proc[d] = "stopping"
  /\ proc' = [proc EXCEPT ![d] = "off"]
  /\ \E ok \in BOOLEAN : clean' = [clean EXCEPT ![d] = ok]
  /\ UNCHANGED <<log, ser, file, db, latest, pending, reloads, test, slaves,
                 crashed, knotc, sh>>

(* named rereads one zone some time after rndc reload returned. *)
LoadZone(z) ==
  /\ proc["named"] = "up" /\ z \in pending
  /\ pending' = pending \ {z}
  /\ ser' = [ser EXCEPT !["named"][z] = file[z]]
  /\ UNCHANGED <<proc, clean, log, file, db, latest, reloads, test, slaves,
                 crashed, knotc, sh>>

(* knotd carries out knotc reload, possibly after the script, which takes  *)
(* the line of an earlier one for that of this, has gone on.               *)
KnotdReloads ==
  /\ proc["knotd"] = "up" /\ reloads
  /\ reloads' = FALSE
  /\ ser' = IF "knotd" \in slaves THEN ser ELSE [ser EXCEPT !["knotd"] = db]
  /\ Logged("knotd", Line("reloaded", "-"))
  /\ UNCHANGED <<proc, clean, file, db, latest, pending, test, slaves, crashed,
                 knotc, sh>>

(* A slave catches up with the other server.  Without data it asks for an  *)
(* AXFR; with data for an IXFR, to which the master may answer in full.    *)
Transfer(d, z, kind) ==
  /\ d \in slaves
  /\ proc[d] = "up" /\ proc[Other(d)] = "up"
  /\ ser[Other(d)][z] > ser[d][z]
  /\ ser[d][z] = 0 => kind = "AXFR"
  /\ ser' = [ser EXCEPT ![d][z] = ser[Other(d)][z]]
  /\ Logged(d, Line(kind, z))
  /\ UNCHANGED <<proc, clean, file, db, latest, pending, reloads, test, slaves,
                 crashed, knotc, sh>>

KnotcExits ==
  /\ knotc = "running"
  /\ \/ knotc' = "ok" /\ db' = file
     \/ knotc' = "failed" /\ db' = db
  /\ UNCHANGED <<proc, clean, log, ser, file, latest, pending, reloads, test,
                 slaves, crashed, sh>>

External ==
  \/ KnotcExits
  \/ KnotdReloads
  \/ \E d \in Servers : Boot(d) \/ Crash(d) \/ Exit(d)
  \/ \E z \in Zones : LoadZone(z)
  \/ \E d \in Servers, z \in Zones, kind \in {"AXFR", "IXFR"} :
       Transfer(d, z, kind)

-----------------------------------------------------------------------------
(* The script.  Each action is one step between two points where the       *)
(* servers can act.  call is the helper call being made.                   *)

call == test.calls[ip]
Guarded == CASE call.when = "always" -> TRUE
             [] call.when = "rc" -> ~rcode
             [] call.when = "ret" -> ret = 0
             [] call.when = "failed" -> ret # 0
AtCall == pc = "call" /\ ip <= Len(test.calls)
Calling(op) == AtCall /\ call.op = op /\ Guarded
Return == ip' = ip + 1 /\ pc' = "call"
Rc(v) == rcode' = (rcode \/ v # 0)

(* The arguments of a call that takes zones, and the one a loop over them  *)
(* comes to next: they are in the order of ${ZONES[*]}.                    *)
Args == CASE call.zs = "all" -> Zones
          [] call.zs = "first" -> {test.zones[1]}
          [] call.zs = "updated" -> updated
NextZone ==
  LET left == {i \in DOMAIN test.zones : test.zones[i] \in todo}
  IN  test.zones[CHOOSE i \in left : \A k \in left : i <= k]

(* Mutant of Countdown: a loop that never counts. *)
CountdownStuck == tmout
(* A turn of _knotd_compile's or _stop_pid's loop. *)
Countdown == tmout - 1

(* Mutant of Kill9: the signal is not sent. *)
NotKilled(d) == UNCHANGED <<proc, clean>>
(* kill -9. *)
Kill9(d) == /\ proc' = [proc EXCEPT ![d] = "off"]
            /\ clean' = [clean EXCEPT ![d] = FALSE]

(* _watch: the processes that must live, the log and the lines looked for, *)
(* the first line read and the poll limit (0: none).                       *)
Watch(must, d, pat, from, lim, then) ==
  /\ w' = [must |-> must, log |-> d, pat |-> pat, from |-> from, lim |-> lim,
           ctr |-> 0, dead |-> FALSE, res |-> 0, then |-> then]
  /\ pc' = "probe"

Running == {d \in Servers : pid[d]}

(* if _rc, _rc && and while [ $ret -eq 0 ] skip the block they guard. *)
Skip ==
  /\ AtCall /\ ~Guarded
  /\ ip' = ip + call.skip
  /\ UNCHANGED <<env, pc, ret, rcode, pid, ll, w, tmout, todo, xfered, updated,
                 ftsig>>

SomeDead == \E d \in w.must : proc[d] = "off"

(* Mutant of TimedOut: one poll too many. *)
TimedOutLate == w.lim # 0 /\ w.ctr >= w.lim
TimedOut == w.lim # 0 /\ w.ctr + 1 >= w.lim

(* Mutant of WatchStatus: a timeout is no failure. *)
TimeoutIsSuccess(hit) == IF w.dead THEN 1 ELSE 0
(* The ret of a _watch that ends: dead process, match or timeout. *)
WatchStatus(hit) == IF w.dead THEN 1 ELSE IF hit THEN 0 ELSE 2

(* One turn of the loop of _watch looks at the processes first ...         *)
WatchProbe ==
  /\ pc = "probe"
  /\ w' = [w EXCEPT !.dead = SomeDead]
  /\ pc' = "grep"
  /\ UNCHANGED <<env, ip, ret, rcode, pid, ll, tmout, todo, xfered, updated,
                 ftsig>>

(* ... and then at the log.  Its ret is the caller's.                      *)
WatchGrep ==
  /\ pc = "grep"
  /\ LET hit == \E i \in DOMAIN log[w.log] :
                   i >= w.from /\ log[w.log][i] \in w.pat
     IN  IF hit \/ w.dead \/ TimedOut
           THEN /\ w' = [w EXCEPT !.res = WatchStatus(hit)]
                /\ ret' = WatchStatus(hit)
                /\ pc' = w.then
           ELSE /\ w' = [w EXCEPT !.ctr = IF w.lim = 0 THEN 0 ELSE @ + 1]
                /\ pc' = "probe"
                /\ UNCHANGED ret
  /\ UNCHANGED <<env, ip, rcode, pid, ll, tmout, todo, xfered, updated, ftsig>>

-----------------------------------------------------------------------------
(* Starting and stopping the servers. *)

Compile ==
  /\ knotc' = "running"
  /\ tmout' = CompileLimit
  /\ ret' = 0
  /\ pc' = "compile"

Spawn(d) ==
  /\ proc' = [proc EXCEPT ![d] = "booting"]
  /\ log' = [log EXCEPT ![d] = <<>>]
  /\ pending' = IF d = "named" THEN {} ELSE pending
  /\ reloads' = IF d = "knotd" THEN FALSE ELSE reloads
  /\ Watch({d}, d, {Line("up", "-")}, 0, Limit, "started")

(* _knotd_start and _named_start, up to the first thing they wait for. *)
Start(d) ==
  /\ Calling("start") /\ call.d = d
  /\ \/ /\ proc[d] # "off"
        /\ pc' = "exit1"
        /\ UNCHANGED <<env, ret, w, tmout>>
     \/ /\ proc[d] = "off" /\ d = "knotd"
        /\ Compile
        /\ UNCHANGED <<proc, clean, log, ser, file, db, latest, pending,
                       reloads, test, slaves, crashed, w>>
     \/ /\ proc[d] = "off" /\ d = "named"
        /\ Spawn(d)
        /\ UNCHANGED <<clean, ser, file, db, latest, test, slaves, crashed,
                       knotc, ret, tmout>>
  /\ UNCHANGED <<ip, rcode, pid, ll, todo, xfered, updated, ftsig>>

(* A script that compiles the zones itself. *)
CallCompile ==
  /\ Calling("compile")
  /\ Compile
  /\ UNCHANGED <<proc, clean, log, ser, file, db, latest, pending, reloads,
                 test, slaves, crashed, ip, rcode, pid, ll, w, todo, xfered,
                 updated, ftsig>>

(* A turn of the loop of _knotd_compile. *)
CompilePoll ==
  /\ pc = "compile"
  /\ tmout' = IF knotc = "running" THEN Countdown ELSE tmout
  /\ pc' = IF knotc = "running" /\ tmout > 1 THEN "compile" ELSE "compiled"
  /\ UNCHANGED <<env, ip, ret, rcode, pid, ll, w, todo, xfered, updated,
                 ftsig>>

(* The rest of _knotd_compile and of its caller.  The timeout branch wants *)
(* the compiler stopped and the countdown at 0, which the loop excludes,   *)
(* so that what follows a timeout is the wait, which blocks, and whose     *)
(* result then does not count.                                             *)
Compiled ==
  /\ pc = "compiled" /\ knotc # "running"
  /\ knotc' = "none"
  /\ LET bad == knotc = "failed" /\ tmout # 0
     IN  /\ ret' = IF bad THEN 1 ELSE ret
         /\ IF bad \/ call.op = "compile"
              THEN Return /\ UNCHANGED <<proc, log, pending, reloads, w>>
              ELSE Spawn("knotd") /\ UNCHANGED ip
  /\ UNCHANGED <<clean, ser, file, db, latest, test, slaves, crashed,
                 rcode, pid, ll, tmout, todo, xfered, updated, ftsig>>

(* The end of _knotd_start and _named_start.  Both reset KNOTD_LL. *)
Started ==
  /\ pc = "started"
  /\ IF w.res > 0
       THEN /\ Kill9(call.d)
            /\ UNCHANGED <<pid, ll, ret>>
       ELSE /\ pid' = [pid EXCEPT ![call.d] = TRUE]
            /\ ll' = [ll EXCEPT !["knotd"] = 0]
            /\ ret' = 0
            /\ UNCHANGED <<proc, clean>>
  /\ Rc(w.res)
  /\ Return
  /\ UNCHANGED <<log, ser, file, db, latest, pending, reloads, test, slaves,
                 crashed, knotc, w, tmout, todo, xfered, updated, ftsig>>

(* Mutant of Stopped: the status of _stop_pid gets lost. *)
StoppedSilently(d, bad) ==
  /\ pid' = [pid EXCEPT ![d] = FALSE]
  /\ \E leak \in BOOLEAN : rcode' = (rcode \/ (d = "knotd" /\ leak))
  /\ Return

(* The end of _knotd_stop, with the status of _stop_pid and of the leak    *)
(* check, and of _named_stop, which has none.                              *)
Stopped(d, bad) ==
  /\ pid' = [pid EXCEPT ![d] = FALSE]
  /\ \E leak \in BOOLEAN : rcode' = (rcode \/ (d = "knotd" /\ (bad \/ leak)))
  /\ Return

(* _knotd_stop and _named_stop: named is not signalled once it is gone. *)
Stop(d) ==
  /\ Calling("stop") /\ call.d = d
  /\ ll' = [ll EXCEPT ![d] = 0]
  /\ IF pid[d] /\ (d = "knotd" \/ proc[d] # "off")
       THEN pc' = "term" /\ UNCHANGED <<ip, rcode, pid>>
       ELSE Stopped(d, TRUE)
  /\ UNCHANGED <<env, ret, w, tmout, todo, xfered, updated, ftsig>>

(* _stop_pid: SIGTERM, which fails when the process is gone already ... *)
StopTerm ==
  /\ pc = "term"
  /\ IF proc[call.d] = "off"
       THEN Stopped(call.d, TRUE) /\ UNCHANGED <<proc, tmout>>
       ELSE /\ proc' = [proc EXCEPT ![call.d] = "stopping"]
            /\ tmout' = Grace
            /\ pc' = "poll"
            /\ UNCHANGED <<ip, rcode, pid>>
  /\ UNCHANGED <<clean, log, ser, file, db, latest, pending, reloads, test,
                 slaves, crashed, knotc, ret, ll, w, todo, xfered, updated,
                 ftsig>>

(* Mutant of StopPoll: nobody waits for the process. *)
StopUnwaited ==
  /\ pc = "poll"
  /\ Stopped(call.d, FALSE)
  /\ UNCHANGED <<env, ret, ll, w, tmout, todo, xfered, updated, ftsig>>

(* ... and a wait for its end, SIGKILL when that takes too long. *)
StopPoll ==
  /\ pc = "poll"
  /\ LET d == call.d
     IN  \/ /\ proc[d] = "off"
            /\ Stopped(d, ~clean[d])
            /\ UNCHANGED <<proc, clean, tmout>>
         \/ /\ proc[d] # "off" /\ tmout > 1
            /\ tmout' = Countdown
            /\ UNCHANGED <<proc, clean, ip, pc, rcode, pid>>
         \/ /\ proc[d] # "off" /\ tmout <= 1
            /\ Kill9(d)
            /\ Stopped(d, TRUE)
            /\ UNCHANGED tmout
  /\ UNCHANGED <<log, ser, file, db, latest, pending, reloads, test, slaves,
                 crashed, knotc, ret, ll, w, todo, xfered, updated, ftsig>>

(* The script kills the master itself. *)
KillNamed ==
  /\ Calling("kill9")
  /\ pid["named"]
  /\ Kill9("named")
  /\ Return
  /\ UNCHANGED <<log, ser, file, db, latest, pending, reloads, test, slaves,
                 crashed, knotc, ret, rcode, pid, ll, w, tmout, todo, xfered,
                 updated, ftsig>>

-----------------------------------------------------------------------------
(* Zone updates, reloads and the waits for what they cause. *)

(* _generate_zones_update: new records and the next serial in the files,   *)
(* and the other ways the scripts change all, one or some of them.  Where  *)
(* _update_soa finds no serial the file keeps the one it has, and no       *)
(* script looks at the status of that.                                     *)
Update ==
  /\ Calling("update")
  /\ updated' \in CASE call.zs = "all" -> {Zones}
                   [] call.zs = "first" -> {{test.zones[1]}}
                   [] call.zs = "some" -> SUBSET Zones
  /\ \E S \in SUBSET updated' :
       file' = [z \in Zones |-> IF z \in S THEN file[z] + 1 ELSE file[z]]
  /\ latest' = file'
  /\ Return
  /\ UNCHANGED <<proc, clean, log, ser, db, pending, reloads, test, slaves,
                 crashed, knotc, ret, rcode, pid, ll, w, tmout, todo, xfered,
                 ftsig>>

(* _named_reload and _named_refresh: rndc returns before named has acted,  *)
(* and a refresh asks for what a slave does by itself in time.             *)
Rndc ==
  /\ Calling("reload") \/ Calling("refresh")
  /\ pending' = IF call.op = "reload" /\ KillZero("named") /\ pid["named"]
                  THEN Zones ELSE pending
  /\ Return
  /\ UNCHANGED <<proc, clean, log, ser, file, db, latest, reloads, test,
                 slaves, crashed, knotc, ret, rcode, pid, ll, w, tmout, todo,
                 xfered, updated, ftsig>>

(* The original zones are put back and named is configured as a slave. *)
Transit ==
  /\ Calling("transit")
  /\ file' = [z \in Zones |-> 1]
  /\ slaves' = slaves \cup {"named"}
  /\ Return
  /\ UNCHANGED <<test, proc, clean, log, ser, db, latest, pending, reloads,
                 crashed, knotc, ret, rcode, pid, ll, w, tmout, todo, xfered,
                 updated, ftsig>>

(* _knotd_reload, with neither a limit nor a first line: the line of an    *)
(* earlier reload will do.  If knotd dies the wait ends, and the kill -9   *)
(* behind it finds nothing.                                                *)
KnotdReload ==
  /\ Calling("kreload")
  /\ reloads' = TRUE
  /\ Watch(Running \cap {"knotd"}, "knotd", {Line("reloaded", "-")}, 0, 0,
           "reloaded")
  /\ UNCHANGED <<test, proc, clean, log, ser, file, db, latest, pending,
                 slaves, crashed, knotc, ip, ret, rcode, pid, ll, tmout, todo,
                 xfered, updated, ftsig>>

KnotdReloaded ==
  /\ pc = "reloaded"
  /\ Rc(w.res)
  /\ Return
  /\ UNCHANGED <<env, ret, pid, ll, w, tmout, todo, xfered, updated, ftsig>>

(* _knotd_wait_axfr, _knotd_wait_ixfr, _named_wait_axfr, _named_wait_ixfr. *)
Wait ==
  /\ Calling("wait")
  /\ ret' = 1 /\ todo' = Args /\ xfered' = {}
  /\ pc' = "zone"
  /\ UNCHANGED <<env, ip, rcode, pid, ll, w, tmout, updated, ftsig>>

WaitZone ==
  /\ pc = "zone" /\ todo # {}
  /\ Watch(Running, call.d, XferPattern(call.d, call.kind, NextZone),
           ll[call.d], Limit, "seen")
  /\ UNCHANGED <<env, ip, ret, rcode, pid, ll, tmout, todo, xfered, updated,
                 ftsig>>

WaitSeen ==
  /\ pc = "seen"
  /\ xfered' = IF w.res = 0 THEN xfered \cup {NextZone} ELSE xfered
  /\ todo' = todo \ {NextZone}
  /\ pc' = "zone"
  /\ UNCHANGED <<env, ip, ret, rcode, pid, ll, w, tmout, updated, ftsig>>

(* Mutant of NextLine: KNOTD_LL and NAMED_LL stay as they are. *)
SameLine(d) == ll[d]
NextLine(d) == Len(log[d]) + 1

(* _tsig_test_axfr asks knotd for three transfers with wrong keys.  _dig   *)
(* resets the ret it shares with it, so that the last one decides, which   *)
(* fails if knotd does not answer.                                         *)
TsigTest == IF proc["knotd"] = "up" THEN 0 ELSE 1

(* The first line of the next wait is the one after the last line now.     *)
(* ret is 1 no longer: the last _watch has set it.  With TSIG a complete   *)
(* wait for IXFR of named goes on with _tsig_test_axfr.                    *)
WaitEnd ==
  /\ pc = "zone" /\ todo = {}
  /\ ll' = [ll EXCEPT ![call.d] = NextLine(call.d)]
  /\ LET done == IF xfered = Args THEN 0 ELSE ret
         signed == test.tsig /\ call.d = "named" /\ call.kind = "IXFR"
     IN  ret' = IF done = 0 /\ signed THEN TsigTest ELSE done
  /\ Rc(ret')
  /\ Return
  /\ UNCHANGED <<env, pid, w, tmout, todo, xfered, updated, ftsig>>

-----------------------------------------------------------------------------
(* The verdict. *)

(* _dig_both finds no difference: knotd answers, and named answers alike. *)
Alike(z) == /\ proc["knotd"] = "up" /\ ser["knotd"][z] # 0
            /\ proc["named"] = "up" /\ ser["named"][z] = ser["knotd"][z]

Dig ==
  /\ Calling("dig")
  /\ todo' = Args /\ xfered' = {}
  /\ pc' = "dig"
  /\ UNCHANGED <<env, ip, ret, rcode, pid, ll, w, tmout, updated, ftsig>>

(* The answers of both servers to AXFR are signed: dig has no TSIG to      *)
(* print of a server that is gone or has no zone.                          *)
Signed(z) == \A d \in Servers : proc[d] = "up" /\ ser[d][z] # 0

(* What _tsig_filter, when it is installed, makes of the answers: it finds *)
(* fault with one that is not signed, or has over 100 messages a TSIG.     *)
Faults(z) == IF ~test.tsig THEN {FALSE}
             ELSE IF Signed(z) THEN BOOLEAN ELSE {TRUE}

(* _dig_fetch_many compares the zones one after the other. *)
DigZone ==
  /\ pc = "dig" /\ todo # {}
  /\ xfered' = IF Alike(NextZone) THEN xfered \cup {NextZone} ELSE xfered
  /\ todo' = todo \ {NextZone}
  /\ \E fault \in Faults(NextZone) : ftsig' = (ftsig \/ fault)
  /\ UNCHANGED <<env, ip, pc, ret, rcode, pid, ll, w, tmout, updated>>

(* What a comparison adds to RCODE.  With TSIG it ends with _dig_filt,     *)
(* which sets the ret it shares with _dig_fetch_many to the status of      *)
(* _tsig_filter_stop, so that only what the filter has found is left.      *)
FetchStatus == IF test.tsig THEN (IF ftsig THEN 1 ELSE 0)
                            ELSE (IF xfered = Args THEN 0 ELSE 1)

DigEnd ==
  /\ pc = "dig" /\ todo = {}
  /\ Rc(FetchStatus)
  /\ ftsig' = FALSE
  /\ Return
  /\ UNCHANGED <<env, ret, pid, ll, w, tmout, todo, xfered, updated>>

(* _dig_knot of one name, which fails when knotd does not answer.          *)
DigKnot ==
  /\ Calling("digsoa")
  /\ ret' = IF proc["knotd"] = "up" THEN 0 ELSE 1
  /\ Rc(ret')
  /\ Return
  /\ UNCHANGED <<env, pid, ll, w, tmout, todo, xfered, updated, ftsig>>

(* _dig_both of some name: versions of a zone may or may not differ there. *)
SomeName(z) ==
  IF Alike(z) THEN {0}
  ELSE IF proc["knotd"] = "up" /\ proc["named"] = "up" THEN {0, 1} ELSE {1}

DigName ==
  /\ Calling("digname")
  /\ \E v \in SomeName(test.zones[1]) : Rc(v)
  /\ Return
  /\ UNCHANGED <<env, ret, pid, ll, w, tmout, todo, xfered, updated, ftsig>>

(* _dig_both_file, for a file that a scenario may have: its result is only *)
(* in ret.                                                                 *)
DigFile ==
  /\ Calling("digfile")
  /\ ret' \in {ret} \cup SomeName(test.zones[1])
  /\ Return
  /\ UNCHANGED <<env, rcode, pid, ll, w, tmout, todo, xfered, updated, ftsig>>

(* What 23ixfr-in-integrity.sh and 61ixfr-in-many.sh do with ret.          *)
SetRet ==
  /\ \/ Calling("ret0") /\ ret' = 0
     \/ Calling("alive") /\ ret' = IF KillZero("knotd") THEN ret ELSE 1
  /\ Return
  /\ UNCHANGED <<env, rcode, pid, ll, w, tmout, todo, xfered, updated, ftsig>>

(* 23ixfr-in-integrity.sh leaves its loop when knotd is gone. *)
CheckCrash ==
  /\ Calling("crashed")
  /\ Rc(IF KillZero("knotd") THEN 0 ELSE 1)
  /\ ip' = ip + IF KillZero("knotd") THEN 1 ELSE call.skip
  /\ UNCHANGED <<env, pc, ret, pid, ll, w, tmout, todo, xfered, updated,
                 ftsig>>

(* exit 1 where a script gives up: rcode is the exit status at the end. *)
GiveUp ==
  /\ Calling("exit")
  /\ Rc(1)
  /\ pc' = "done"
  /\ UNCHANGED <<env, ip, ret, pid, ll, w, tmout, todo, xfered, updated,
                 ftsig>>

Finish ==
  /\ pc = "call" /\ ip > Len(test.calls)
  /\ pc' = "done"
  /\ UNCHANGED <<env, ip, ret, rcode, pid, ll, w, tmout, todo, xfered, updated,
                 ftsig>>

Terminated == pc \in {"done", "exit1"} /\ UNCHANGED vars

Shell ==
  \/ Skip \/ WatchProbe \/ WatchGrep
  \/ \E d \in Servers : Start(d) \/ Stop(d)
  \/ CallCompile \/ CompilePoll \/ Compiled \/ Started
  \/ StopTerm \/ StopPoll \/ KillNamed
  \/ Update \/ Rndc \/ Transit \/ KnotdReload \/ KnotdReloaded
  \/ Wait \/ WaitZone \/ WaitSeen \/ WaitEnd
  \/ Dig \/ DigZone \/ DigEnd \/ DigKnot \/ DigName \/ DigFile
  \/ SetRet \/ CheckCrash \/ GiveUp \/ Finish

Next == Shell \/ External \/ Terminated

Spec == Init /\ [][Next]_vars
=============================================================================
