----------------------------- MODULE ZoneRecords -----------------------------
(***************************************************************************)
(* The records of a zone file, as far as tools/zone-generate.py has to     *)
(* tell them apart.                                                        *)
(***************************************************************************)
EXTENDS Integers, Sequences

CONSTANTS Names,     \* owner names, fully qualified
          OldFile    \* the zone file there is before the first run

(* MX stands for every type whose generator only draws an owner.  An SRV   *)
(* record is owned by a name below its field owner.                        *)
Types == {"A", "AAAA", "MX", "SRV", "NS", "CNAME", "DNAME"}
AliasTypes == {"CNAME", "DNAME"}

(* long: the line has a TTL or a class between its owner and its type.     *)
Records == [type : Types, owner : Names, target : Names, long : BOOLEAN]

ASSUME OldFileAssumption == OldFile \in Seq(Records)

(* Two records that no zone may hold together. *)
Clash(r, s) == /\ r.owner = s.owner
               /\ r.type # "SRV" /\ s.type # "SRV"
               /\ r.type \in AliasTypes \/ s.type \in AliasTypes
=============================================================================
