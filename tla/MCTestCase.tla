----------------------------- MODULE MCTestCase -----------------------------
(* Instances of the harness for TLC: scripts, of which one has two zones   *)
(* and one a second round.                                                 *)
EXTENDS TestCaseProps, Scripts
LOCAL INSTANCE SequencesExt

(* 21ixfr-out-knotmaster.sh with its update made twice, so that the line   *)
(* of the first reload is in the log when knotd reloads again.             *)
KnotMasterTwice ==
  [KnotMaster EXCEPT !.calls = SubSeq(@, 1, 7) \o SubSeq(@, 4, 10)]

AllTests ==
  {Reload, AxfrIn, AxfrIntr, TxtEmpty, ExistingRr, IxfrIn,
   WithTwoZones(IxfrIn), IxfrOut, DoubleSign, TsigIn, TsigOut, KnotMaster,
   KnotMasterTwice, Integrity, IxfrMany}
WaitForTwo == {WithTwoZones(IxfrIn)}
TsigForTwo == {WithTwoZones(TsigIn)}

(* The stages that the calls of a script pass from the first on, as far as *)
(* each of them may be made.                                               *)
StagesOf(t) ==
  FoldLeft(LAMBDA seen, c :
             Append(seen, CHOOSE r \in Stages : Passes(t, seen[Len(seen)], c, r)),
           <<"fresh">>, t.calls)

(* Each script with one zone is patient. *)
ASSUME PatientAssumption ==
  \A t \in Tests : Len(t.zones) = 1 =>
    /\ \E d \in Servers : t.slaves = {d}
    /\ Stagewise(t, StagesOf(t))
    /\ t.tsig => FromScratch(t)
=============================================================================
