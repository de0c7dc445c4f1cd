--------------------------- MODULE ZoneGen_proofs ---------------------------
(***************************************************************************)
(* Proofs about the zone generator, for any set of names, any length and   *)
(* number of runs and, past the types, any sound zone file to begin with.  *)
(***************************************************************************)
EXTENDS ZoneGen, TLAPS

(* A zone file whose records do not clash and carry their type where the   *)
(* loader looks for it, as every file the program has written does.        *)
SoundFile(f) ==
  /\ \A k \in DOMAIN f : ~f[k].long
  /\ \A k, m \in DOMAIN f : k # m => ~Clash(f[k], f[m])

(* During a run every owner that could clash is in a registry. *)
Enrolled ==
  phase = "gen" => \A k \in DOMAIN file :
    /\ file[k].type # "SRV" => file[k].owner \in NAME_EXIST \cup CNAME_EXIST
    /\ file[k].type \in AliasTypes => file[k].owner \in CNAME_EXIST

IInv == TypeOK /\ SoundFile(file) /\ Enrolled

-----------------------------------------------------------------------------

(* What Append does to a sequence, stated once for the provers.            *)
LEMMA AppendFacts ==
  ASSUME NEW S, NEW s \in Seq(S), NEW r \in S
  PROVE  /\ Append(s, r) \in Seq(S)
         /\ DOMAIN Append(s, r) = DOMAIN s \cup {Len(s) + 1}
         /\ Len(s) + 1 \notin DOMAIN s
         /\ \A k \in DOMAIN s : Append(s, r)[k] = s[k]
         /\ Append(s, r)[Len(s) + 1] = r
  OBVIOUS

(* Which of two records is written first makes no difference.              *)
LEMMA ClashSymmetric ==
  ASSUME NEW r, NEW s, Clash(r, s)
  PROVE  Clash(s, r)
  BY DEF Clash

(* The abstract zone file has the records of the generator, and they clash *)
(* alike.                                                                  *)
LEMMA SameRecords ==
  /\ Zone!Records = Records
  /\ \A r, s : Zone!Clash(r, s) <=> Clash(r, s)
  BY DEF Zone!Records, Records, Zone!Types, Types, Zone!Clash, Clash,
         Zone!AliasTypes, AliasTypes

(* A sound file stays sound when a record that clashes with none is added. *)
LEMMA AppendSound ==
  ASSUME NEW f \in Seq(Records), NEW r \in Records,
         SoundFile(f), ~r.long,
         \A k \in DOMAIN f : ~Clash(f[k], r)
  PROVE  SoundFile(Append(f, r))
<1> DEFINE g == Append(f, r)
<1>1. /\ DOMAIN g = DOMAIN f \cup {Len(f) + 1}
      /\ \A k \in DOMAIN f : g[k] = f[k]
      /\ g[Len(f) + 1] = r
  BY AppendFacts
<1> HIDE DEF g
<1>2. ASSUME NEW k \in DOMAIN g PROVE ~g[k].long
  BY <1>1, <1>2 DEF SoundFile
<1>3. ASSUME NEW k \in DOMAIN g, NEW m \in DOMAIN g, k # m
      PROVE  ~Clash(g[k], g[m])
  <2>1. CASE k \in DOMAIN f /\ m \in DOMAIN f
    BY <1>1, <1>3, <2>1 DEF SoundFile
  <2>2. CASE k \in DOMAIN f /\ m = Len(f) + 1
    BY <1>1, <2>2
  <2>3. CASE k = Len(f) + 1 /\ m \in DOMAIN f
    BY <1>1, <2>3, ClashSymmetric
  <2>4. QED BY <1>1, <1>3, <2>1, <2>2, <2>3
<1>4. QED BY <1>2, <1>3 DEF SoundFile, g

-----------------------------------------------------------------------------
(* Types, whatever the first file is. *)

(* Every entry of the file is a record.                                    *)
LEMMA FileRecords ==
  ASSUME TypeOK
  PROVE  \A k \in DOMAIN file : file[k] \in Records
<1>1. file \in Seq(Records)
  BY DEF TypeOK
<1> HIDE DEF Records
<1>2. QED BY <1>1

(* A record that is written is one. *)
LEMMA WriteType ==
  ASSUME NEW type \in Types, NEW n \in Names, NEW t \in Names,
         TypeOK, i < Count, Write(type, n, t),
         NAME_EXIST' \subseteq Names, CNAME_EXIST' \subseteq Names,
         ADDR_NAMES' \subseteq Names
  PROVE  TypeOK'
<1> DEFINE r == [type |-> type, owner |-> n, target |-> t, long |-> FALSE]
<1>1. r \in Records
  BY DEF Records
<1>2. file' = Append(file, r) /\ phase' = phase /\ runs' = runs /\ i' = i + 1
  BY DEF Write
<1> HIDE DEF r
<1>3. file' \in Seq(Records)
  BY <1>1, <1>2, AppendFacts DEF TypeOK
<1>4. QED BY <1>2, <1>3, CountAssumption DEF TypeOK

(* Every step keeps the types. *)
LEMMA TypeStep == TypeOK /\ [Next]_vars => TypeOK'
<1> SUFFICES ASSUME TypeOK, [Next]_vars PROVE TypeOK'
  OBVIOUS
<1>1. CASE Begin
  <2>1. \A k \in DOMAIN file : file[k].owner \in Names
    BY FileRecords DEF Records
  <2>2. /\ Owners(Types \ {"SRV"}) \subseteq Names
        /\ LoadedOwners(AliasTypes) \subseteq Names
        /\ LoadedOwners({"A", "AAAA"}) \subseteq Names
    BY <2>1 DEF Owners, LoadedOwners
  <2>3. file' \in Seq(Records) /\ phase' \in {"idle", "gen"}
    BY <1>1 DEF Begin, TypeOK
  <2>4. i' \in 0..Count /\ runs' \in 0..MaxRuns
    BY <1>1, CountAssumption, RunsAssumption DEF Begin, TypeOK
  <2>5. /\ NAME_EXIST' \subseteq Names
        /\ CNAME_EXIST' \subseteq Names
        /\ ADDR_NAMES' \subseteq Names
    BY <1>1, <2>2 DEF Begin
  <2>6. QED BY <2>3, <2>4, <2>5 DEF TypeOK
<1>2. CASE GenAddr
  <2>1. PICK n \in Names, type \in {"A", "AAAA"} :
          /\ DrawOwner(n)
          /\ ADDR_NAMES' = ADDR_NAMES \cup {n}
          /\ Write(type, n, n)
    BY <1>2 DEF GenAddr
  <2>2. type \in Types
    BY DEF Types
  <2>3. QED BY <1>2, <2>1, <2>2, WriteType DEF GenAddr, DrawOwner, TypeOK
<1>3. CASE GenOther
  <2>1. PICK n \in Names, type \in {"MX", "SRV"} :
          DrawOwner(n) /\ Write(type, n, n)
    BY <1>3 DEF GenOther
  <2>2. type \in Types
    BY DEF Types
  <2>3. QED BY <1>3, <2>1, <2>2, WriteType DEF GenOther, DrawOwner, TypeOK
<1>4. CASE GenAlias
  <2>1. PICK n \in Names, type \in {"NS", "CNAME", "DNAME"}, t \in Targets :
          /\ CNAME_EXIST' = CNAME_EXIST \cup {n, t}
          /\ Write(type, n, t)
    BY <1>4 DEF GenAlias
  <2>2. type \in Types /\ t \in Names
    BY DEF Types, Targets, TypeOK
  <2>3. QED BY <1>4, <2>1, <2>2, WriteType DEF GenAlias, TypeOK
<1>5. CASE GenOutside
  BY <1>5, CountAssumption DEF GenOutside, DrawOwner, TypeOK
<1>6. CASE End
  BY <1>6, CountAssumption DEF End, TypeOK
<1>7. CASE Redraw \/ Quit \/ UNCHANGED vars
  BY <1>7 DEF Redraw, Quit, vars, reg, TypeOK
<1>8. QED BY <1>1, <1>2, <1>3, <1>4, <1>5, <1>6, <1>7 DEF Next

(* The values of the variables, for every set of names and every file that *)
(* there is before the first run.                                          *)
THEOREM TypeCorrect == Spec => []TypeOK
<1>1. Init => TypeOK
  BY OldFileAssumption, CountAssumption, RunsAssumption DEF Init, TypeOK
<1>2. QED BY <1>1, TypeStep, PTL DEF Spec

-----------------------------------------------------------------------------
(* One lemma for the three actions that write a record.                    *)

(* A record that clashes with none in the file, and whose owner is         *)
(* enrolled, keeps the invariant and is a step of the abstract zone file.  *)
LEMMA WriteStep ==
  ASSUME NEW type \in Types, NEW n \in Names, NEW t \in Names,
         IInv, phase = "gen", i < Count, Write(type, n, t),
         \A k \in DOMAIN file :
           ~Clash(file[k], [type |-> type, owner |-> n, target |-> t, long |-> FALSE]),
         NAME_EXIST' \subseteq Names, CNAME_EXIST' \subseteq Names,
         ADDR_NAMES' \subseteq Names,
         NAME_EXIST \subseteq NAME_EXIST', CNAME_EXIST \subseteq CNAME_EXIST',
         type # "SRV" => n \in NAME_EXIST' \cup CNAME_EXIST',
         type \in AliasTypes => n \in CNAME_EXIST'
  PROVE  IInv' /\ Zone!Next
<1> DEFINE r == [type |-> type, owner |-> n, target |-> t, long |-> FALSE]
<1>1. r \in Records /\ ~r.long /\ r.type = type /\ r.owner = n
  BY DEF Records
<1>2. file' = Append(file, r) /\ phase' = phase /\ runs' = runs /\ i' = i + 1
  BY DEF Write
<1> HIDE DEF r
<1>3. file \in Seq(Records)
  BY DEF IInv, TypeOK
<1>4. /\ file' \in Seq(Records)
      /\ DOMAIN file' = DOMAIN file \cup {Len(file) + 1}
      /\ \A k \in DOMAIN file : file'[k] = file[k]
      /\ file'[Len(file) + 1] = r
  BY <1>1, <1>2, <1>3, AppendFacts
<1>5. TypeOK'
  BY WriteType DEF IInv
<1>6. SoundFile(file)'
  <2>1. \A k \in DOMAIN file : ~Clash(file[k], r)
    BY DEF r
  <2>2. SoundFile(Append(file, r))
    BY <1>1, <1>3, <2>1, AppendSound DEF IInv
  <2>3. QED BY <1>2, <2>2 DEF SoundFile
<1>7. Enrolled'
  <2>1. ASSUME NEW k \in DOMAIN file'
        PROVE  /\ file'[k].type # "SRV" => file'[k].owner \in NAME_EXIST' \cup CNAME_EXIST'
               /\ file'[k].type \in AliasTypes => file'[k].owner \in CNAME_EXIST'
    <3>1. CASE k \in DOMAIN file
      BY <1>4, <3>1 DEF IInv, Enrolled
    <3>2. CASE k = Len(file) + 1
      BY <1>1, <1>4, <3>2
    <3>3. QED BY <1>4, <2>1, <3>1, <3>2
  <2>2. QED BY <2>1 DEF Enrolled
<1>8. Zone!Next
  <2>1. \A k \in DOMAIN file : ~Clash(file[k], r)
    BY DEF r
  <2>2. r \in Zone!Records /\ \A k \in DOMAIN file : ~Zone!Clash(file[k], r)
    BY <1>1, <2>1, SameRecords
  <2>3. Zone!Add(r)
    BY <1>2, <2>2 DEF Zone!Add
  <2>4. QED BY <2>2, <2>3 DEF Zone!Next
<1>9. QED BY <1>5, <1>6, <1>7, <1>8 DEF IInv

(* The file the generator begins with is sound, and nothing is enrolled.   *)
LEMMA InitIInv == ASSUME SoundFile(OldFile) PROVE Init => IInv
<1> SUFFICES ASSUME Init PROVE IInv
  OBVIOUS
<1>1. OldFile \in Seq(Records)
  BY OldFileAssumption
<1>2. QED BY <1>1, CountAssumption, RunsAssumption DEF Init, IInv, TypeOK, Enrolled

(* Every step keeps the invariant, and is one of the abstract zone file or *)
(* leaves the file alone.                                                  *)
LEMMA NextIInv == IInv /\ [Next]_vars => IInv' /\ [Zone!Next]_file
<1> SUFFICES ASSUME IInv, [Next]_vars PROVE IInv' /\ [Zone!Next]_file
  OBVIOUS
<1>1. CASE Begin
  <2>3. TypeOK'
    BY TypeStep DEF IInv
  <2>4. ASSUME NEW k \in DOMAIN file, file[k].type # "SRV"
        PROVE  file[k].owner \in Owners(Types \ {"SRV"})
    BY <2>4, FileRecords DEF Owners, IInv, Records
  <2>5. ASSUME NEW k \in DOMAIN file, file[k].type \in AliasTypes
        PROVE  file[k].owner \in LoadedOwners(AliasTypes)
    BY <2>5 DEF LoadedOwners, LoadedType, IInv, SoundFile
  <2>6. Enrolled'
    BY <1>1, <2>4, <2>5 DEF Begin, Enrolled
  <2>7. SoundFile(file)'
    BY <1>1 DEF Begin, IInv, SoundFile
  <2>8. QED BY <1>1, <2>3, <2>6, <2>7 DEF Begin, IInv
<1>2. CASE GenAddr
  <2>1. PICK n \in Names, type \in {"A", "AAAA"} :
          /\ DrawOwner(n)
          /\ ADDR_NAMES' = ADDR_NAMES \cup {n}
          /\ Write(type, n, n)
    BY <1>2 DEF GenAddr
  <2>2. type \in Types /\ type \notin AliasTypes
    BY DEF Types, AliasTypes
  <2>3. \A k \in DOMAIN file :
          ~Clash(file[k], [type |-> type, owner |-> n, target |-> n, long |-> FALSE])
    BY <1>2, <2>1, <2>2 DEF GenAddr, DrawOwner, IInv, Enrolled, Clash
  <2>4. QED BY <1>2, <2>1, <2>2, <2>3, WriteStep DEF GenAddr, DrawOwner, IInv, TypeOK
<1>3. CASE GenOther
  <2>1. PICK n \in Names, type \in {"MX", "SRV"} : DrawOwner(n) /\ Write(type, n, n)
    BY <1>3 DEF GenOther
  <2>2. type \in Types /\ type \notin AliasTypes
    BY DEF Types, AliasTypes
  <2>3. \A k \in DOMAIN file :
          ~Clash(file[k], [type |-> type, owner |-> n, target |-> n, long |-> FALSE])
    BY <1>3, <2>1, <2>2 DEF GenOther, DrawOwner, IInv, Enrolled, Clash
  <2>4. QED BY <1>3, <2>1, <2>2, <2>3, WriteStep DEF GenOther, DrawOwner, IInv, TypeOK
<1>4. CASE GenAlias
  <2>1. PICK n \in Names, type \in {"NS", "CNAME", "DNAME"}, t \in Targets :
          /\ FreeForAlias(n)
          /\ CNAME_EXIST' = CNAME_EXIST \cup {n, t}
          /\ Write(type, n, t)
    BY <1>4 DEF GenAlias
  <2>2. type \in Types /\ t \in Names
    BY DEF Types, Targets, IInv, TypeOK
  <2>3. \A k \in DOMAIN file :
          ~Clash(file[k], [type |-> type, owner |-> n, target |-> t, long |-> FALSE])
    BY <1>4, <2>1 DEF GenAlias, FreeForAlias, IInv, Enrolled, Clash
  <2>4. QED BY <1>4, <2>1, <2>2, <2>3, WriteStep DEF GenAlias, IInv, TypeOK
<1>5. CASE GenOutside
  <2>1. NAME_EXIST \subseteq NAME_EXIST' /\ NAME_EXIST' \subseteq Names
    BY <1>5 DEF GenOutside, DrawOwner, IInv, TypeOK
  <2>2. TypeOK'
    BY TypeStep DEF IInv
  <2>3. SoundFile(file)' /\ Enrolled'
    BY <1>5, <2>1 DEF GenOutside, IInv, SoundFile, Enrolled
  <2>4. QED BY <1>5, <2>2, <2>3 DEF GenOutside, IInv
<1>6. CASE End
  BY <1>6 DEF End, IInv, TypeOK, SoundFile, Enrolled
<1>7. CASE Redraw \/ Quit \/ UNCHANGED vars
  BY <1>7 DEF Redraw, Quit, vars, reg, IInv, TypeOK, SoundFile, Enrolled
<1>8. QED BY <1>1, <1>2, <1>3, <1>4, <1>5, <1>6, <1>7 DEF Next

(* Every reachable state of every run of the generator, over a sound file, *)
(* has a sound file and complete registries.                               *)
THEOREM Soundness == ASSUME SoundFile(OldFile) PROVE Spec => []IInv
<1>1. Init => IInv
  BY InitIInv
<1>2. QED BY <1>1, NextIInv, PTL DEF Spec

(* g_dname and rnd_dnl together keep the owners of CNAME and DNAME records *)
(* free of other records, however many records are generated and however   *)
(* often the zone is updated.                                              *)
THEOREM AliasOwnersExclusive ==
  ASSUME SoundFile(OldFile) PROVE Spec => []AliasExclusive
<1>1. IInv => AliasExclusive
  BY DEF IInv, SoundFile, AliasExclusive
<1>2. QED BY <1>1, Soundness, PTL

(* Every step of the generator is an addition the zone allows or leaves    *)
(* the file alone: Next of ZoneGen implements Next of ZoneFile.            *)
THEOREM Refinement == ASSUME SoundFile(OldFile) PROVE Spec => ZoneSpec
<1>1. Init => Zone!Init
  BY DEF Init, Zone!Init
<1>2. QED BY <1>1, Soundness, NextIInv, PTL DEF Spec, ZoneSpec, Zone!Spec

-----------------------------------------------------------------------------
(* Targets.  A run that makes addresses first draws every later target     *)
(* from names that own one.                                                *)

(* Aliases and delegations of a file point at names with an address. *)
Addressed(f) ==
  \A k \in DOMAIN f : f[k].type \in {"NS", "CNAME", "DNAME"} =>
    \E m \in DOMAIN f : f[m].type \in {"A", "AAAA"} /\ f[m].owner = f[k].target

AddrOwners == Owners({"A", "AAAA"})

Pooled == phase = "gen" => /\ ADDR_NAMES \subseteq AddrOwners
                           /\ i > 0 => ADDR_NAMES # {}

TInv == TargetsExist /\ Pooled

(* A file only grows, and with it the owners of addresses. *)
LEMMA AddrOwnersGrow ==
  ASSUME IInv, NEW type \in Types, NEW n \in Names, NEW t \in Names,
         Write(type, n, t)
  PROVE  /\ DOMAIN file' = DOMAIN file \cup {Len(file) + 1}
         /\ \A k \in DOMAIN file : file'[k] = file[k]
         /\ file'[Len(file) + 1].type = type
         /\ file'[Len(file) + 1].owner = n
         /\ file'[Len(file) + 1].target = t
         /\ AddrOwners \subseteq AddrOwners'
         /\ type \in {"A", "AAAA"} => n \in AddrOwners'
<1> DEFINE r == [type |-> type, owner |-> n, target |-> t, long |-> FALSE]
<1>1. r \in Records /\ r.type = type /\ r.owner = n /\ r.target = t
  BY DEF Records
<1>2. file' = Append(file, r)
  BY DEF Write
<1> HIDE DEF r
<1>3. file \in Seq(Records)
  BY DEF IInv, TypeOK
<1>4. /\ DOMAIN file' = DOMAIN file \cup {Len(file) + 1}
      /\ \A k \in DOMAIN file : file'[k] = file[k]
      /\ file'[Len(file) + 1] = r
  BY <1>1, <1>2, <1>3, AppendFacts
<1>5. AddrOwners \subseteq AddrOwners'
  BY <1>4 DEF AddrOwners, Owners
<1>6. type \in {"A", "AAAA"} => n \in AddrOwners'
  BY <1>1, <1>4 DEF AddrOwners, Owners
<1>7. QED BY <1>1, <1>4, <1>5, <1>6

(* TargetsExist, by the owners of addresses.                               *)
LEMMA TargetsByOwners ==
  TargetsExist <=> \A k \in DOMAIN file :
    file[k].type \in {"NS", "CNAME", "DNAME"} => file[k].target \in AddrOwners
  BY DEF TargetsExist, AddrOwners, Owners

(* Writing a record whose target has an address keeps the targets.         *)
LEMMA WriteTInv ==
  ASSUME IInv, TInv, NEW type \in Types, NEW n \in Names, NEW t \in Names,
         phase = "gen", Write(type, n, t),
         type \in {"NS", "CNAME", "DNAME"} => t \in AddrOwners,
         ADDR_NAMES' \subseteq AddrOwners', ADDR_NAMES' # {}
  PROVE  TInv'
<1>1. \A k \in DOMAIN file' :
        file'[k].type \in {"NS", "CNAME", "DNAME"} => file'[k].target \in AddrOwners'
  BY AddrOwnersGrow, TargetsByOwners DEF TInv
<1>2. TargetsExist'
  BY <1>1 DEF TargetsExist, AddrOwners, Owners
<1>3. QED BY <1>2 DEF TInv, Pooled

(* A target is the owner of an address if the pool is not to be empty.     *)
LEMMA NextTInv ==
  ASSUME a_pool > 0 PROVE IInv /\ TInv /\ [Next]_vars => TInv'
<1> SUFFICES ASSUME IInv, TInv, [Next]_vars PROVE TInv'
  OBVIOUS
<1>1. ASSUME a_pool <= i, phase = "gen" PROVE i > 0 /\ ADDR_NAMES # {}
  <2>1. a_pool \in Int /\ i \in Int
    BY CountAssumption, PoolAssumption DEF a_pool, IInv, TypeOK
  <2>2. i > 0
    BY <1>1, <2>1
  <2>3. QED BY <1>1, <2>2 DEF TInv, Pooled
<1>2. CASE Begin
  <2>1. ADDR_NAMES' \subseteq AddrOwners'
    BY <1>2 DEF Begin, LoadedOwners, LoadedType, AddrOwners, Owners
  <2>2. QED BY <1>2, <2>1 DEF Begin, TInv, TargetsExist, Pooled
<1>3. CASE GenAddr
  <2>1. PICK n \in Names, type \in {"A", "AAAA"} :
          /\ ADDR_NAMES' = ADDR_NAMES \cup {n}
          /\ Write(type, n, n)
    BY <1>3 DEF GenAddr
  <2>2. type \in Types /\ type \notin {"NS", "CNAME", "DNAME"}
    BY DEF Types
  <2>3. AddrOwners \subseteq AddrOwners' /\ n \in AddrOwners'
    BY <2>1, <2>2, AddrOwnersGrow
  <2>4. ADDR_NAMES' \subseteq AddrOwners' /\ ADDR_NAMES' # {}
    BY <1>3, <2>1, <2>3 DEF GenAddr, TInv, Pooled
  <2>5. QED BY <1>3, <2>1, <2>2, <2>4, WriteTInv DEF GenAddr
<1>4. CASE GenOther
  <2>1. PICK n \in Names, type \in {"MX", "SRV"} : Write(type, n, n)
    BY <1>4 DEF GenOther
  <2>2. type \in Types /\ type \notin {"NS", "CNAME", "DNAME"}
    BY DEF Types
  <2>3. AddrOwners \subseteq AddrOwners'
    BY <2>1, <2>2, AddrOwnersGrow
  <2>4. ADDR_NAMES' \subseteq AddrOwners' /\ ADDR_NAMES' # {}
    BY <1>1, <1>4, <2>3 DEF GenOther, TInv, Pooled
  <2>5. QED BY <1>4, <2>1, <2>2, <2>4, WriteTInv DEF GenOther
<1>5. CASE GenAlias
  <2>1. PICK n \in Names, type \in {"NS", "CNAME", "DNAME"}, t \in Targets :
          Write(type, n, t)
    BY <1>5 DEF GenAlias
  <2>2. type \in Types /\ ADDR_NAMES # {}
    BY <1>1, <1>5 DEF Types, GenAlias
  <2>3. t \in AddrOwners /\ t \in Names
    BY <1>5, <2>2 DEF GenAlias, Targets, TInv, Pooled, IInv, TypeOK
  <2>4. AddrOwners \subseteq AddrOwners'
    BY <2>1, <2>2, <2>3, AddrOwnersGrow
  <2>5. ADDR_NAMES' \subseteq AddrOwners' /\ ADDR_NAMES' # {}
    BY <1>5, <2>2, <2>4 DEF GenAlias, TInv, Pooled
  <2>6. QED BY <1>5, <2>1, <2>2, <2>3, <2>5, WriteTInv DEF GenAlias
<1>6. CASE GenOutside
  BY <1>1, <1>6 DEF GenOutside, TInv, TargetsExist, Pooled, AddrOwners, Owners
<1>7. CASE End
  BY <1>7 DEF End, TInv, TargetsExist, Pooled
<1>8. CASE Redraw \/ Quit \/ UNCHANGED vars
  BY <1>8 DEF Redraw, Quit, vars, reg, TInv, TargetsExist, Pooled, AddrOwners, Owners
<1>9. QED BY <1>2, <1>3, <1>4, <1>5, <1>6, <1>7, <1>8 DEF Next

(* As soon as a run makes one address record (ten records or more, in      *)
(* main), no alias or delegation it writes points at a name without one.   *)
THEOREM TargetsAlwaysExist ==
  ASSUME SoundFile(OldFile), Addressed(OldFile), a_pool > 0
  PROVE  Spec => []TargetsExist
<1>1. Init => TInv
  BY DEF Init, TInv, Pooled, TargetsExist, Addressed
<1>2. TInv => TargetsExist
  BY DEF TInv
<1>3. IInv /\ TInv /\ [Next]_vars => TInv'
  BY NextTInv
<1>4. QED BY <1>1, <1>2, <1>3, Soundness, PTL DEF Spec

(* And then no alias leads to an alias, over any number of updates: the    *)
(* target owns an address, and the owner of an alias owns nothing else.    *)
THEOREM AliasesEndAtOnce ==
  ASSUME SoundFile(OldFile), Addressed(OldFile), a_pool > 0
  PROVE  Spec => []NoAliasChain
<1>1. IInv /\ TargetsExist => NoAliasChain
  <2> SUFFICES ASSUME IInv, TargetsExist,
                      NEW k \in DOMAIN file, NEW m \in DOMAIN file,
                      file[k].type \in AliasTypes, file[m].type \in AliasTypes,
                      file[k].target = file[m].owner
               PROVE  FALSE
    BY DEF NoAliasChain
  <2>1. PICK a \in DOMAIN file : /\ file[a].type \in {"A", "AAAA"}
                                 /\ file[a].owner = file[k].target
    BY DEF TargetsExist, AliasTypes
  <2>2. a # m /\ file[a].type # "SRV" /\ file[m].type # "SRV"
    BY <2>1 DEF AliasTypes
  <2>3. QED BY <2>1, <2>2 DEF IInv, SoundFile, Clash
<1>2. QED BY <1>1, Soundness, TargetsAlwaysExist, PTL

-----------------------------------------------------------------------------
(* Children of a DNAME.  A file without records below the names that were  *)
(* drawn for them gets through its first run without such a record below a *)
(* DNAME: the run that makes one has enrolled the name above it.           *)

NoSrv(f) == \A k \in DOMAIN f : f[k].type # "SRV"

CInv ==
  /\ runs = 0 => phase = "idle" /\ NoSrv(file)
  /\ runs = 1 => /\ DnameChildless
                 /\ phase = "gen" =>
                      \A k \in DOMAIN file :
                        file[k].type = "SRV" => file[k].owner \in NAME_EXIST

(* One lemma for the three actions that write a record. *)
LEMMA WriteCInv ==
  ASSUME NEW type \in Types, NEW n \in Names, NEW t \in Names,
         IInv, CInv, phase = "gen", Write(type, n, t),
         NAME_EXIST \subseteq NAME_EXIST',
         type = "SRV" => n \in NAME_EXIST' /\ n \notin CNAME_EXIST,
         type = "DNAME" => n \notin NAME_EXIST
  PROVE  CInv'
<1> DEFINE r == [type |-> type, owner |-> n, target |-> t, long |-> FALSE]
<1>1. r \in Records /\ r.type = type /\ r.owner = n
  BY DEF Records
<1>2. file' = Append(file, r) /\ phase' = phase /\ runs' = runs
  BY DEF Write
<1> HIDE DEF r
<1>3. /\ DOMAIN file' = DOMAIN file \cup {Len(file) + 1}
      /\ \A k \in DOMAIN file : file'[k] = file[k]
      /\ file'[Len(file) + 1] = r
  <2>1. file \in Seq(Records)
    BY DEF IInv, TypeOK
  <2> QED
    BY <1>1, <1>2, <2>1, AppendFacts
<1>4. runs' # 0
  BY <1>2 DEF CInv
<1>5. ASSUME runs' = 1
      PROVE  /\ DnameChildless'
             /\ \A k \in DOMAIN file' :
                  file'[k].type = "SRV" => file'[k].owner \in NAME_EXIST'
  <2>1. /\ DnameChildless
        /\ \A k \in DOMAIN file :
             file[k].type = "SRV" => file[k].owner \in NAME_EXIST
    BY <1>2, <1>5 DEF CInv
  <2>2. \A k \in DOMAIN file' :
          file'[k].type = "SRV" => file'[k].owner \in NAME_EXIST'
    BY <1>1, <1>3, <2>1
  <2>3. ASSUME NEW k \in DOMAIN file', NEW m \in DOMAIN file',
               file'[k].type = "DNAME", file'[m].type = "SRV"
        PROVE  file'[k].owner # file'[m].owner
    <3>1. CASE k \in DOMAIN file /\ m \in DOMAIN file
      BY <1>3, <2>1, <2>3, <3>1 DEF DnameChildless
    <3>2. CASE k \in DOMAIN file /\ m = Len(file) + 1
      <4>1. file[k].type = "DNAME" /\ type = "SRV" /\ file'[m].owner = n
        BY <1>1, <1>3, <2>3, <3>2
      <4>2. file[k].owner \in CNAME_EXIST
        BY <3>2, <4>1 DEF IInv, Enrolled, AliasTypes
      <4> QED
        BY <1>3, <3>2, <4>1, <4>2
    <3>3. CASE k = Len(file) + 1 /\ m \in DOMAIN file
      <4>1. file[m].owner \in NAME_EXIST /\ type = "DNAME" /\ file'[k].owner = n
        BY <1>1, <1>3, <2>1, <2>3, <3>3
      <4> QED
        BY <1>3, <3>3, <4>1
    <3>4. CASE k = Len(file) + 1 /\ m = Len(file) + 1
      BY <2>3, <3>4
    <3> QED
      BY <1>3, <2>3, <3>1, <3>2, <3>3, <3>4
  <2> QED
    BY <2>2, <2>3 DEF DnameChildless
<1> QED
  BY <1>4, <1>5 DEF CInv

(* The first run writes nothing below the owner of a DNAME: one case per   *)
(* generator.                                                              *)
LEMMA NextCInv == IInv /\ CInv /\ [Next]_vars => CInv'
<1> SUFFICES ASSUME IInv, CInv, [Next]_vars PROVE CInv'
  OBVIOUS
<1>0. runs \in Nat
  BY RunsAssumption DEF IInv, TypeOK
<1>1. CASE Begin
  BY <1>0, <1>1 DEF Begin, CInv, NoSrv, DnameChildless
<1>2. CASE GenAddr
  <2>1. PICK n \in Names, type \in {"A", "AAAA"} :
          DrawOwner(n) /\ Write(type, n, n)
    BY <1>2 DEF GenAddr
  <2> QED
    BY <1>2, <2>1, WriteCInv DEF GenAddr, DrawOwner, Types
<1>3. CASE GenOther
  <2>1. PICK n \in Names, type \in {"MX", "SRV"} :
          DrawOwner(n) /\ Write(type, n, n)
    BY <1>3 DEF GenOther
  <2> QED
    BY <1>3, <2>1, WriteCInv DEF GenOther, DrawOwner, Types
<1>4. CASE GenAlias
  <2>1. PICK n \in Names, type \in {"NS", "CNAME", "DNAME"}, t \in Targets :
          FreeForAlias(n) /\ Write(type, n, t)
    BY <1>4 DEF GenAlias
  <2>2. type \in Types /\ t \in Names
    BY DEF Types, Targets, IInv, TypeOK
  <2> QED
    BY <1>4, <2>1, <2>2, WriteCInv DEF GenAlias, FreeForAlias
<1>5. CASE GenOutside
  <2>1. /\ UNCHANGED <<file, phase, runs>> /\ NAME_EXIST \subseteq NAME_EXIST'
    BY <1>5 DEF GenOutside, DrawOwner
  <2> QED
    BY <2>1 DEF CInv, NoSrv, DnameChildless
<1>6. CASE End
  BY <1>6 DEF End, CInv, NoSrv, DnameChildless
<1>7. CASE Redraw \/ Quit \/ UNCHANGED vars
  BY <1>7 DEF Redraw, Quit, vars, reg, CInv, NoSrv, DnameChildless
<1> QED
  BY <1>1, <1>2, <1>3, <1>4, <1>5, <1>6, <1>7 DEF Next

(* The first run over a file never puts a record below a DNAME, nor makes  *)
(* a DNAME above one (rnd_dnl and g_dname, "DNAME must not have            *)
(* children"); a later run can, as the loader forgets such names.          *)
THEOREM FirstRunChildless ==
  ASSUME SoundFile(OldFile), NoSrv(OldFile) PROVE Spec => []ChildlessInRun
<1>1. Init => CInv
  BY DEF Init, CInv
<1>2. CInv => ChildlessInRun
  BY DEF CInv, ChildlessInRun
<1> QED
  BY <1>1, <1>2, Soundness, NextCInv, PTL DEF Spec
=============================================================================
