------------------------------- MODULE Scripts -------------------------------
(***************************************************************************)
(* The scripts of cases/ for the constant Tests of module TestCase: the    *)
(* helper calls they make, with one zone, the servers they configure as    *)
(* slaves, and those of them that find a zone file of their own.  A guard  *)
(* that fails skips as many calls as the block it opens holds.             *)
(***************************************************************************)
EXTENDS Integers, Sequences

LOCAL Call(op, d) == [op |-> op, d |-> d, kind |-> "AXFR", zs |-> "all",
                      when |-> "always", skip |-> 1]
LOCAL Of(c, zs) == [c EXCEPT !.zs = zs]
LOCAL If(guard, block) ==
  <<[block[1] EXCEPT !.when = guard, !.skip = Len(block)]>> \o Tail(block)
LOCAL Test(slaves, calls) ==
  [slaves |-> slaves, seeded |-> {}, zones |-> <<"z1">>, tsig |-> FALSE,
   calls |-> calls]
LOCAL Seeded(t) == [t EXCEPT !.seeded = t.slaves]
LOCAL Tsig(t) == [t EXCEPT !.tsig = TRUE]
WithTwoZones(t) == [t EXCEPT !.zones = <<"z1", "z2">>]

start(d) == Call("start", d)
stop(d) == Call("stop", d)
wait_axfr(d) == Call("wait", d)
wait_ixfr(d) == [Call("wait", d) EXCEPT !.kind = "IXFR", !.zs = "updated"]
update == Of(Call("update", "named"), "some")
named_reload == Call("reload", "named")
dig == Call("dig", "knotd")
compile == Call("compile", "knotd")
exit == Call("exit", "knotd")

(* 10reload.sh: knotd reloads new zones; named reads the same as a slave.  *)
Reload == Seeded(Test({"named"},
  <<start("knotd")>>
    \o If("failed", <<exit>>)
    \o <<Of(update, "all"), compile, Call("kreload", "knotd"),
         Call("digsoa", "knotd"), start("named"), dig,
         stop("named"), stop("knotd")>>))

(* 11axfr-in.sh: the comparison does not wait for the transfer's verdict. *)
AxfrIn == Test({"knotd"},
  <<start("named"), start("knotd")>>
    \o If("rc", <<wait_axfr("knotd"), dig>>)
    \o <<stop("knotd"), stop("named")>>)

(* 12axfr-in-intr.sh: the master is killed while it serves an AXFR. *)
AxfrIntr == Test({"knotd"},
  <<start("named"), start("knotd")>>
    \o If("rc", <<Call("kill9", "named")>>)
    \o <<stop("knotd")>>)

(* 14axfr-in-txt-empty.sh: the zone that knotd serves is compiled again. *)
TxtEmpty == Test({"knotd"},
  <<start("named"), start("knotd")>>
    \o If("rc", <<wait_axfr("knotd"), dig>>)
    \o <<compile, stop("knotd"), stop("named")>>)

(* 20ixfr-in-existing-rr.sh: the slave has a zone file of the same serial. *)
ExistingRr == Seeded(Test({"knotd"},
  <<start("named"), start("knotd")>>
    \o If("rc", <<Of(update, "all"), named_reload,
                  Of(wait_ixfr("knotd"), "all")>>)
    \o <<Call("digname", "knotd")>>
    \o If("rc", <<dig>>)
    \o <<stop("knotd"), stop("named")>>))

(* 20ixfr-in.sh, and with more zones 62ixfr-in-manyzones.sh. *)
IxfrIn == Test({"knotd"},
  <<start("named"), start("knotd")>>
    \o If("rc", <<wait_axfr("knotd")>>)
    \o If("rc", <<update, named_reload, wait_ixfr("knotd")>>)
    \o If("rc", <<dig>>)
    \o <<stop("knotd"), stop("named")>>)

(* 21ixfr-out.sh: named comes back with the old zones, as knotd's slave. *)
IxfrOut == Test({"knotd"},
  <<start("named"), start("knotd")>>
    \o If("rc", <<wait_axfr("knotd")>>)
    \o If("rc", <<update, named_reload, wait_ixfr("knotd")>>)
    \o <<stop("named"), Call("transit", "named"), start("named"),
         Call("refresh", "named"), wait_ixfr("named")>>
    \o If("rc", <<dig>>)
    \o <<stop("knotd"), stop("named")>>)

(* 40tsig-xfr-in.sh, 41tsig-xfr-out.sh *)
TsigIn == Tsig(IxfrIn)
TsigOut == Tsig(IxfrOut)

(* 21double-sign.sh: the same with all zones, once knotc compiles one that *)
(* is signed with two keys.                                                *)
DoubleSign == Test({"knotd"},
  <<compile>>
    \o If("failed", <<exit>>)
    \o <<start("named"), start("knotd")>>
    \o If("rc", <<wait_axfr("knotd")>>)
    \o If("rc", <<Of(update, "all"), named_reload,
                  Of(wait_ixfr("knotd"), "all")>>)
    \o <<stop("named"), Call("transit", "named"), start("named"),
         Call("refresh", "named"), Of(wait_ixfr("named"), "all")>>
    \o If("rc", <<dig>>)
    \o <<stop("knotd"), stop("named")>>)

(* 21ixfr-out-knotmaster.sh: knotd is the master and reloads the update. *)
KnotMaster == Test({"named"},
  <<start("knotd"), start("named")>>
    \o If("rc", <<wait_axfr("named")>>)
    \o If("rc", <<update, compile, Call("kreload", "knotd"),
                  wait_ixfr("named")>>)
    \o If("rc", <<dig>>)
    \o <<stop("named"), stop("knotd")>>)

(* 23ixfr-in-integrity.sh, with two changes of which each may not apply:   *)
(* the integrity check has a ret of its own and its result goes nowhere.   *)
Integrity ==
  LET round(rest) ==
        <<update, named_reload, Of(wait_ixfr("knotd"), "first"),
          Call("digfile", "knotd"),
          [Call("crashed", "knotd") EXCEPT !.skip = 1 + Len(rest)]>> \o rest
      loop == If("ret", round(If("ret", round(<<>>))))
  IN  Test({"knotd"},
        <<start("named"), start("knotd")>>
        \o If("rc", <<wait_axfr("knotd")>>)
        \o <<Call("ret0", "knotd"), Call("digfile", "knotd")>> \o loop
        \o If("rc", <<dig>>)
        \o <<stop("knotd"), stop("named")>>)

(* 61ixfr-in-many.sh, with COUNT = 2 and without the integrity checks: the *)
(* head of its loop reads ret, which the helpers it calls have set.        *)
IxfrMany ==
  LET round == <<Of(update, "first"), named_reload, wait_ixfr("knotd"),
                 Call("alive", "knotd")>>
      loop == If("ret", round \o If("ret", round))
  IN  Test({"knotd"},
        <<start("named"), start("knotd")>>
        \o If("rc", <<wait_axfr("knotd")>>)
        \o <<Call("ret0", "knotd")>> \o loop
        \o <<Of(dig, "first"), stop("knotd")>>
        \o If("rc", <<start("knotd")>> \o If("rc", <<dig>>) \o <<stop("knotd")>>)
        \o <<stop("named")>>)
=============================================================================
