---------------------------- MODULE TestCaseProps ----------------------------
(***************************************************************************)
(* What a run of a script of cases/ promises, for any interleaving of the  *)
(* script with the two servers.                                            *)
(***************************************************************************)
EXTENDS TestCase

(* Scripts start and stop servers in turns.  A call leaps if what follows  *)
(* it may be skipped; server d may run when a script comes to its i-th     *)
(* call if d was started and each stop since has been leapt over.          *)
Leaps(c) == c.when # "always" \/ c.op = "crashed"

MayRun(t, d, i) ==
  \E j \in 1..(i - 1) :
    /\ t.calls[j].op = "start" /\ t.calls[j].d = d
    /\ \A k \in (j + 1)..(i - 1) :
         t.calls[k].op = "stop" /\ t.calls[k].d = d =>
           \E g \in (j + 1)..k : /\ Leaps(t.calls[g])
                                 /\ k < g + t.calls[g].skip
                                 /\ g + t.calls[g].skip <= i

Stops(t, d) == \E k \in DOMAIN t.calls : t.calls[k].op = "stop" /\ t.calls[k].d = d

(* The i-th call is only made if the start of d right before it failed. *)
IfStartFailed(t, d, i) ==
  /\ t.calls[i].when = "failed"
  /\ i > 1 /\ t.calls[i - 1].op = "start" /\ t.calls[i - 1].d = d
  /\ \A g \in 1..(i - 1) : Leaps(t.calls[g]) => g + t.calls[g].skip # i

Balanced(t) ==
  /\ \A i \in DOMAIN t.calls :
       t.calls[i].op = "start" => ~MayRun(t, t.calls[i].d, i)
  /\ \A i \in DOMAIN t.calls, d \in Servers :
       t.calls[i].op = "exit" /\ Stops(t, d) =>
         ~MayRun(t, d, i) \/ IfStartFailed(t, d, i)
  /\ \A d \in Servers :
       d = "knotd" \/ Stops(t, d) => ~MayRun(t, d, Len(t.calls) + 1)

(* The scripts of cases/ do not start a server twice and stop knotd. *)
ASSUME BalancedAssumption == \A t \in Tests : Balanced(t)

(* What a script with one zone knows of it as long as nothing has failed,  *)
(* as a stage before each call:                                            *)
(*   fresh    the zone is the first version, and the servers may start     *)
(*   early    it was updated before the first wait for knotd, its slave    *)
(*   offline  it was updated before named, a slave with a zone file, runs  *)
(*   level    the slave has the newest version, and the lines that tell of *)
(*            it are before those that the next wait reads                 *)
(*   due      the zone was updated since                                   *)
(*   known    the slave has the newest version                             *)
(*   moved    so has knotd, and named starts anew as its slave             *)
(*   followed a wait for named has ended since                             *)
(*   good     both have it, as a comparison has found                      *)
Stages == {"fresh", "early", "offline", "level", "due", "known", "moved",
           "followed", "good"}

Slave(t) == CHOOSE d \in t.slaves : TRUE

(* Call c may be made at stage s and takes the script on to stage r.       *)
Passes(t, s, c, r) ==
  \/ /\ c.op \in {"compile", "kreload", "refresh", "digsoa", "digname",
                  "digfile", "ret0", "alive", "crashed", "kill9", "exit"}
     /\ r = s
  \/ c.op = "reload" /\ Slave(t) = "knotd" /\ r = s
       /\ s \notin {"moved", "followed", "good"}
  \/ c.op = "update" /\ s = "level" /\ r = "due"
  \/ c.op = "update" /\ s = "fresh"
       /\ r = IF Slave(t) = "knotd" THEN "early" ELSE "offline"
  \/ /\ c.op = "wait" /\ c.d = Slave(t) /\ r = "level"
     /\ \/ s = "fresh" /\ c.zs # "updated"
        \/ s = "early" /\ c.zs # "updated" /\ c.kind = "IXFR"
        \/ s = "due"
  \/ c.op = "wait" /\ c.d = "named" /\ s = "moved" /\ r = "followed"
  \/ c.op = "start" /\ s = "fresh" /\ r = s
  \/ c.op = "start" /\ c.d = "named" /\ c.d \in t.seeded /\ s = "offline"
       /\ r = "known"
  \/ c.op = "start" /\ c.d = "named" /\ s = "moved" /\ r = s
  \/ c.op = "start" /\ c.d \in t.slaves \ t.seeded /\ s = "good" /\ r = s
  \/ c.op = "stop" /\ s \notin {"early", "offline", "due"}
       /\ r = IF s = "level" THEN "known" ELSE s
  \/ c.op = "transit" /\ Slave(t) = "knotd" /\ s = "known" /\ r = "moved"
  \/ /\ c.op = "dig" /\ c.zs # "updated" /\ r = "good"
     /\ \/ s \in {"level", "known", "followed", "good"}
        \/ s = "moved" /\ ~t.tsig

(* Stages for a whole script.  A guard on RCODE skips nothing while        *)
(* nothing has failed; what another one skips leads back to its stage.     *)
Stagewise(t, stage) ==
  /\ stage \in [1..(Len(t.calls) + 1) -> Stages]
  /\ stage[1] = "fresh"
  /\ \A i \in DOMAIN t.calls :
       LET c == t.calls[i]
       IN  /\ Passes(t, stage[i], c, stage[i + 1])
           /\ c.when \in {"ret", "failed"} => stage[i + c.skip] = stage[i]
           /\ c.op = "transit" => ~MayRun(t, "named", i)
  /\ (\E i \in DOMAIN t.calls : t.calls[i].op = "dig") =>
       stage[Len(t.calls) + 1] = "good"

(* A script with TSIG, whose comparison forgets that versions differ,      *)
(* relies on how the servers come to theirs: its slave starts without the  *)
(* zone, which is updated once.                                            *)
FromScratch(t) ==
  /\ t.seeded = {}
  /\ \A i, k \in DOMAIN t.calls :
       t.calls[i].op = "update" /\ t.calls[k].op = "update" => i = k

(* A script with one zone and one slave at first that waits for an update  *)
(* before it makes the next, and compares in the end if at all.            *)
Patient(t) ==
  /\ Len(t.zones) = 1 /\ \E d \in Servers : t.slaves = {d}
  /\ \E stage : Stagewise(t, stage)
  /\ t.tsig => FromScratch(t)

-----------------------------------------------------------------------------

(* The values the variables take. *)
TypeOK ==
  /\ test \in Tests
  /\ proc \in [Servers -> {"off", "stray", "booting", "up", "stopping"}]
  /\ clean \in [Servers -> BOOLEAN]
  /\ log \in [Servers -> Seq(Lines)]
  /\ ser \in [Servers -> [Zones -> Nat]]
  /\ file \in [Zones -> Nat] /\ db \in [Zones -> Nat]
  /\ latest \in [Zones -> Nat]
  /\ pending \subseteq Zones /\ reloads \in BOOLEAN
  /\ slaves \subseteq Servers
  /\ crashed \in [Servers -> 0..MaxCrash]
  /\ knotc \in {"none", "running", "ok", "failed"}
  /\ ip \in 1..(Len(test.calls) + 1)
  /\ pc \in {"call", "probe", "grep", "compile", "compiled", "started", "term",
             "poll", "zone", "seen", "reloaded", "dig", "done", "exit1"}
  /\ ret \in 0..2 /\ rcode \in BOOLEAN
  /\ pid \in [Servers -> BOOLEAN]
  /\ ll \in [Servers -> Nat]
  /\ w \in WatchFrames
  /\ tmout \in Nat
  /\ todo \subseteq Zones /\ xfered \subseteq Zones
  /\ updated \subseteq Zones /\ ftsig \in BOOLEAN

-----------------------------------------------------------------------------

Compares == \E k \in DOMAIN test.calls : test.calls[k].op = "dig"

(* A script that compares the servers and exits with 0 (rc_init, _rc in    *)
(* the helpers) has left both with the newest version of every zone: no    *)
(* late reload, stale log line or masked timeout makes a test pass.  It    *)
(* is claimed of the scripts with one zone, where every wait is for one.   *)
VerdictSound ==
  pc = "done" /\ ~rcode /\ Compares /\ Len(test.zones) = 1 =>
    \A z \in Zones, d \in Servers : ser[d][z] = latest[z]

(* A knotd that crashes at any moment after its start makes the script     *)
(* exit with a failure, whichever helper was running (_watch, _dig_both or *)
(* _stop_pid).                                                             *)
KnotdCrashReported == pc = "done" /\ crashed["knotd"] > 0 => rcode

(* Whatever crashed, hung or timed out, a script that reaches its end or   *)
(* gives up has left none of the servers it started and stops behind for   *)
(* the next script to collide with (kill -9 in _knotd_start, _named_start  *)
(* and _stop_pid).                                                         *)
CleanExit ==
  pc = "done" =>
    \A k \in DOMAIN test.calls :
      test.calls[k].op = "stop" => proc[test.calls[k].d] \in {"off", "stray"}

(* "cannot start, already running" ends a script only because of a server  *)
(* another run left: never because of its own previous server.             *)
RefusesOnlyStray == pc = "exit1" => proc["knotd"] = "stray"

(* When a wait has counted all of its zones and nothing has failed before, *)
(* each one really holds the newest version: a line of an earlier          *)
(* transfer, which is before KNOTD_LL or NAMED_LL, is never taken for the  *)
(* awaited one.  After a wait that timed out, 23ixfr-in-integrity.sh may   *)
(* go on and take the late line of one change for that of the next.        *)
CompleteCountIsTrue ==
  pc = "zone" /\ todo = {} /\ xfered = Args /\ ~rcode =>
    \A z \in Args : ser[call.d][z] = latest[z]

(* A comparison that finds a difference makes the script fail, whatever it *)
(* does next (_dig_fetch_many: "no differences found, OK" otherwise).      *)
DifferenceFails ==
  [][pc = "dig" /\ pc' = "call" /\ xfered # Args => rcode']_vars

(* A wait that counted fewer zones than it was asked for ("timeout         *)
(* exceeded for AXFR/IN of ... zones") fails, so that _rc records it.      *)
IncompleteWaitFails ==
  pc = "zone" /\ todo = {} /\ xfered # Args => ret # 0

-----------------------------------------------------------------------------

(* The script keeps running: sleep, kill -0 and grep all return.           *)
ShellFair == WF_vars(Shell)

FairSpec == Spec /\ ShellFair
                 /\ WF_vars(KnotcExits) /\ WF_vars(KnotdReloads)
ShellFairSpec == Spec /\ ShellFair

(* Every script ends, however many servers hang, die or stay silent: each  *)
(* wait has a limit, once the compiler exits and knotd obeys a reload.     *)
Termination == <>(pc \in {"done", "exit1"})
=============================================================================
