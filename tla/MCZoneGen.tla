------------------------------ MODULE MCZoneGen ------------------------------
(* Instances of the zone generator for TLC.  Names are alike, but for those *)
(* of an old file.                                                          *)
EXTENDS ZoneGen, TLC

CONSTANTS a, b, c

ThreeNames == {a, b, c}
NameSymmetry == Permutations(ThreeNames)

NoFile == <<>>
LongCname == <<[type |-> "CNAME", owner |-> a, target |-> b, long |-> TRUE]>>
=============================================================================
