------------------------------ MODULE ZoneFile ------------------------------
(***************************************************************************)
(* What tools/zone-generate.py promises of a zone file, however it chooses *)
(* its records: the file only grows, and no record ever shares its owner   *)
(* with a CNAME or DNAME ("Ensure unique owners for CNAME/DNAME").         *)
(***************************************************************************)
EXTENDS ZoneRecords

VARIABLE file

Init == file = OldFile

Add(r) == /\ \A k \in DOMAIN file : ~Clash(file[k], r)
          /\ file' = Append(file, r)

Next == \E r \in Records : Add(r)

Spec == Init /\ [][Next]_file
=============================================================================
