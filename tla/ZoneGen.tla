------------------------------- MODULE ZoneGen -------------------------------
(***************************************************************************)
(* tools/zone-generate.py: random records appended to a zone file, with    *)
(* registries of the names in use that decide which owners may still be    *)
(* drawn.  The registries live as long as one run of the program; a later  *)
(* run with --update rebuilds them from the file.                          *)
(***************************************************************************)
EXTENDS ZoneRecords

CONSTANTS
  Count,     \* records a run generates
  PoolShare, \* one in PoolShare of them is an address record (10 in main)
  PoolMax,   \* but at most PoolMax (1000 in main)
  MaxRuns    \* bound: runs of the program

ASSUME CountAssumption == Count \in Nat \ {0}
ASSUME PoolAssumption == PoolShare \in Nat \ {0} /\ PoolMax \in Nat
ASSUME RunsAssumption == MaxRuns \in Nat

VARIABLES
  file,         \* the records of the zone file, in order
  phase,        \* "idle" between runs, "gen" during one
  i,            \* records generated by this run
  NAME_EXIST,   \* names that own records
  CNAME_EXIST,  \* owners and targets of CNAME, DNAME and NS
  ADDR_NAMES,   \* A_NAMES and AAAA_NAMES, which are only ever drawn from
  runs

reg == <<NAME_EXIST, CNAME_EXIST, ADDR_NAMES>>
vars == <<file, phase, i, reg, runs>>

Zone == INSTANCE ZoneFile

a_pool == LET share == Count \div PoolShare
          IN  IF share > PoolMax THEN PoolMax ELSE share

Owners(types) == {file[k].owner : k \in {m \in DOMAIN file : file[m].type \in types}}

Init == /\ file = OldFile
        /\ phase = "idle" /\ i = 0 /\ runs = 0
        /\ NAME_EXIST = {} /\ CNAME_EXIST = {} /\ ADDR_NAMES = {}

(* The type the loader finds on a line.  Its loop over the columns looks   *)
(* at the same column every time, so a TTL or a class there hides the type.*)
LoadedType(r) == IF r.long THEN "none" ELSE r.type
LoadedOwners(types) ==
  {file[k].owner : k \in {m \in DOMAIN file : LoadedType(file[m]) \in types}}

(* A run begins; with --update it enrolls the names of the file.  An SRV   *)
(* line enrolls its own owner, which is below the name that was drawn.     *)
Begin ==
  /\ phase = "idle" /\ runs < MaxRuns
  /\ phase' = "gen" /\ i' = 0 /\ runs' = runs + 1
  /\ NAME_EXIST' = Owners(Types \ {"SRV"})
  /\ CNAME_EXIST' = LoadedOwners(AliasTypes)
  /\ ADDR_NAMES' = LoadedOwners({"A", "AAAA"})
  /\ UNCHANGED file

(* Mutant of Write: a record counts twice. *)
WriteTwice(type, owner, target) ==
  /\ file' = Append(file, [type |-> type, owner |-> owner, target |-> target,
                           long |-> FALSE])
  /\ i' = i + 2
  /\ UNCHANGED <<phase, runs>>

Write(type, owner, target) ==
  /\ file' = Append(file, [type |-> type, owner |-> owner, target |-> target,
                           long |-> FALSE])
  /\ i' = i + 1
  /\ UNCHANGED <<phase, runs>>

(* Mutant of DrawOwner: any name will do. *)
DrawAny(n) == NAME_EXIST' = NAME_EXIST \cup {n}

(* rnd_dnl draws until the name is no alias, and enrolls it. *)
DrawOwner(n) == n \notin CNAME_EXIST /\ NAME_EXIST' = NAME_EXIST \cup {n}

(* Mutant of FreeForAlias: only aliases are looked up. *)
FreeOfAliases(n) == n \notin CNAME_EXIST

(* g_dname draws until the name is neither an alias nor any other owner. *)
FreeForAlias(n) == n \notin CNAME_EXIST /\ n \notin NAME_EXIST

(* Mutant of Targets: any name, whatever RR_EXISTS says. *)
AnyTarget == Names

(* rnd_dnr: a name with an address if there is one, else any name. *)
Targets == IF ADDR_NAMES # {} THEN ADDR_NAMES ELSE Names

(* g_a, g_aaaa *)
GenAddr ==
  /\ phase = "gen" /\ i < Count
  /\ \E n \in Names, type \in {"A", "AAAA"} :
       /\ DrawOwner(n)
       /\ ADDR_NAMES' = ADDR_NAMES \cup {n}
       /\ Write(type, n, n)
  /\ UNCHANGED CNAME_EXIST

(* g_mx, g_txt, ... and g_srv, whose record is below the drawn name. *)
GenOther ==
  /\ phase = "gen" /\ a_pool <= i /\ i < Count
  /\ \E n \in Names, type \in {"MX", "SRV"} : DrawOwner(n) /\ Write(type, n, n)
  /\ UNCHANGED <<CNAME_EXIST, ADDR_NAMES>>

(* Records owned by an address or by the apex, which rnd_dname never draws *)
(* and file leaves out: g_spf and g_ptr enroll no name, g_ipseckey enrolls *)
(* its gateway.                                                            *)
GenOutside ==
  /\ phase = "gen" /\ a_pool <= i /\ i < Count
  /\ i' = i + 1
  /\ UNCHANGED NAME_EXIST \/ \E n \in Names : DrawOwner(n)
  /\ UNCHANGED <<file, phase, CNAME_EXIST, ADDR_NAMES, runs>>

(* g_dname *)
GenAlias ==
  /\ phase = "gen" /\ a_pool <= i /\ i < Count
  /\ \E n \in Names, type \in {"NS", "CNAME", "DNAME"}, t \in Targets :
       /\ FreeForAlias(n)
       /\ CNAME_EXIST' = CNAME_EXIST \cup {n, t}
       /\ Write(type, n, t)
  /\ UNCHANGED <<NAME_EXIST, ADDR_NAMES>>

(* A drawn name is taken: the while loops of rnd_dnl and g_dname draw on.  *)
Redraw == /\ phase = "gen" /\ i < Count
          /\ \E n \in Names : ~FreeForAlias(n)
          /\ UNCHANGED vars

(* The run ends and its registries with it. *)
End == /\ phase = "gen" /\ i = Count
       /\ phase' = "idle"
       /\ NAME_EXIST' = {} /\ CNAME_EXIST' = {} /\ ADDR_NAMES' = {}
       /\ UNCHANGED <<file, i, runs>>

Quit == phase = "idle" /\ runs = MaxRuns /\ UNCHANGED vars

Next == Begin \/ GenAddr \/ GenOther \/ GenOutside \/ GenAlias \/ Redraw \/ End \/ Quit

Spec == Init /\ [][Next]_vars

-----------------------------------------------------------------------------

(* The values the variables take. *)
TypeOK ==
  /\ file \in Seq(Records)
  /\ phase \in {"idle", "gen"}
  /\ i \in 0..Count
  /\ runs \in 0..MaxRuns
  /\ NAME_EXIST \subseteq Names
  /\ CNAME_EXIST \subseteq Names
  /\ ADDR_NAMES \subseteq Names

(* No record shares its owner with a CNAME or DNAME, over any number of    *)
(* runs and updates of the same file (g_dname, "Ensure unique owners for   *)
(* CNAME/DNAME", and rnd_dnl).                                             *)
AliasExclusive ==
  \A k, m \in DOMAIN file : k # m => ~Clash(file[k], file[m])

(* No name below a DNAME: a record placed under a drawn name keeps that    *)
(* name from becoming a DNAME ("DNAME must not have children").            *)
DnameChildless ==
  \A k, m \in DOMAIN file :
    file[k].type = "DNAME" /\ file[m].type = "SRV" => file[k].owner # file[m].owner

(* A run keeps that promise about the records it makes itself.             *)
ChildlessInRun == runs = 1 => DnameChildless

(* The target of an alias or delegation owns an address record: the pool   *)
(* made first is what later targets are drawn from (RR_EXISTS = 1.0).      *)
TargetsExist ==
  \A k \in DOMAIN file : file[k].type \in {"NS", "CNAME", "DNAME"} =>
    \E m \in DOMAIN file : /\ file[m].type \in {"A", "AAAA"}
                           /\ file[m].owner = file[k].target

(* So that no alias leads to another one, and none to itself: a server     *)
(* that follows aliases stops after one.                                   *)
NoAliasChain ==
  \A k, m \in DOMAIN file :
    file[k].type \in AliasTypes /\ file[m].type \in AliasTypes =>
      file[k].target # file[m].owner

(* A run of the program only adds records the zone may hold. *)
ZoneSpec == Zone!Spec
=============================================================================
