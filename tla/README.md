# Verification of dns-benchmarking

TLA+ models of this repository's test harness and tools, the TLC runs that
check them on small instances, and theorems that TLAPS proves for all values of
the constants. Paths below are relative to `home/knot/`.

## The system

The repository tests one DNS server, Knot (`knotd`), against another, BIND
(`named`). Its parts:

| part | state | operations | interacts with |
|---|---|---|---|
| harness, `cases/test.case` | `RCODE`, the global `ret`, `KNOTD_PID`/`NAMED_PID`, `KNOTD_LL`/`NAMED_LL`, zone files | start, stop, reload, wait for a transfer, update zones, compare | starts and signals the servers, greps their logs, runs the tools |
| scripts, `cases/*.sh` | position, `updated`, `ret` | sequences of harness calls guarded by `_rc` | the harness, by sourcing it |
| comparison, `_dig_both` and `tools/digcmp.py` | `g_state`, `g_section`, `g_serial`, two files of tagged records | tag each record with its context, compare, apply rules | output of `dig` |
| zone generator, `tools/zone-generate.py` | registries `NAME_EXIST`, `CNAME_EXIST`, `A_NAMES`, `AAAA_NAMES`, the zone file | generate, `--update`, sign | called by the harness; the file is read by the servers |
| DNS client, `tools/pydig.py` | options, TSIG digests, unread messages | query over UDP and TCP, AXFR, zone walk | any server |
| capture analysis, `tools/pcat-analyze.py` | two captures, counters | pair queries, pair records, report differences | output of `pcat` |
| capture generators, `tools/*pcap*` | a counter of ids | write packets | zone files |
| relay, `tools/dns-tcp2udp.py` | one TCP and one UDP socket | pass a query on, pass the answer back | a client and a server |
| benchmarks, `bench-graphs.sh`, `cases/9*` | log files | run load generators, plot | servers |

What is hard: the servers run, log, transfer zones and die concurrently with a
script that only sees their logs and process ids; every wait has a limit; a
reload returns before it has happened; a shell variable is shared by every
function; and what one run of the zone generator remembers, the next has to read
back from its output. `PROJECT.json` lists the hazards, each at its line, with
the properties that would catch it.

What makes each part correct:

* harness and scripts: a script that succeeds has tested what it says; a crash is
  reported; nothing is left running; it ends;
* comparison: equal outputs mean equal answers, and the other way round;
* generator: the zone is one that a server loads, however often it is updated;
* client: a transfer is accepted exactly if it is complete and every message of
  it is covered by a valid signature;
* capture analysis: a difference is reported exactly if there is one;
* relay: each client gets the answer to its own query, and no client waits for
  ever because of another.

## Modules

| module | models |
|---|---|
| `TestCase` | `cases/test.case`, with the servers and `knotc` as its environment |
| `TestCaseProps` | what a run of a script promises, and what is asked of scripts |
| `TestCase_proofs` | the theorems about both |
| `Scripts` | the transfer scripts as elements of the constant `Tests` |
| `MCTestCase` | instances of these for TLC |
| `DigCompare`, `DigCompare_proofs` | `_dig_both` and `tools/digcmp.py`, and the theorems about them |
| `ZoneRecords`, `ZoneFile` | the records of a zone and the abstract promise of the generator |
| `ZoneGen`, `MCZoneGen` | `tools/zone-generate.py` over several runs |
| `ZoneGen_proofs` | the theorems about it |
| `AxfrClient`, `AxfrClient_proofs` | the AXFR of `tools/pydig.py` with TSIG, and the theorems about it |
| `ZoneWalk`, `ZoneWalk_proofs` | the zone walk of `tools/pydig.py` over UDP, and the theorems about it |
| `DnsWire` | how `tools/pydig.py` writes a request and reads a message, octet by octet |
| `DnsExchange`, `MCExchange` | a single query of `tools/pydig.py`, composed of `DnsWire` and a server |
| `DnsExchange_proofs` | the theorems about both |
| `PcatReplies` | how `tools/pcat-analyze.py` compares two replies, and what it promises of them |
| `CaptureDiff` | the abstract comparison of two captures |
| `PcatAnalyze`, `MCPcat`, `PcatAnalyze_proofs` | the main loop of `tools/pcat-analyze.py`, which implements `CaptureDiff`, and the theorems about both |
| `Relay`, `Relay_proofs` | `tools/dns-tcp2udp.py`, and the theorems about it |

### The harness

`TestCase` picks one of `Tests` and runs its calls one after the other. `ip` is the next call
and `pc` the place in the current one, so that every point at which the servers
can act between two steps of the shell is a state: before and after `kill -0` and
`grep` in `_watch`, each second of `_stop_pid` and `_knotd_compile`, each zone of
a wait or a comparison. `ret` is the shell's global, which `_watch` and its
callers share, and `rcode` says whether `RCODE` is non-zero. `pid` says whether
`KNOTD_PID` and `NAMED_PID` are non-zero: `kill -0 0` succeeds, and the model
says so. `ll` holds `KNOTD_LL` and `NAMED_LL`, with the reset of the wrong one in
`_named_start`. `w` is the frame of the running `_watch`. A loop over zones has
those to come in `todo` and those transferred, or found alike, in `xfered`;
`NextZone` takes them in the order of `${ZONES[*]}`.

The environment is what the script relies on: a server boots and logs, crashes
whenever it likes, stops late with any status, rereads its zones some time after
`rndc reload`, transfers a zone from the other server when that has a newer one,
and logs the transfer. A slave with data may be answered in full. A zone is its
version; `file` is the version in the zone file, `db` the one that `knotc` has
compiled and knotd boots from. An update may fail to find a serial, and the file
then keeps its version, since versions are serials. `reloads` says that knotd has yet to
carry out a `knotc reload`: `_knotd_reload` looks for the line of any reload in the log, so
that after an earlier one the script goes on before knotd has reloaded.
In a comparison with TSIG, `ftsig` is the file `dig.ftsig`, which the filter leaves
where an answer is not signed, as that of a dead server, or too seldom;
`_tsig_filter_stop` makes it the status of the whole comparison.

A call may carry a guard, `_rc`, the loop's `[ $ret -eq 0 ]` or the `!` of a
script that gives up; if it fails, the whole block is skipped. The loops of
`61ixfr-in-many.sh` and `23ixfr-in-integrity.sh` are unrolled twice. The latter
may find a change that does not apply, and reads its `ret` from whichever helper
ran last. The integrity check only signals knotd and waits: its `ret` is local
and its status is dropped, so it is not a step of the model.

`Balanced` is what the scripts of `cases/` have in common and the helpers rely
on: a server is not started where an earlier start of it may still be in force,
and when a script gives up or ends, the servers it stops have been stopped, as
knotd always has. A guarded block may be skipped, so that `MayRun` asks whether a
stop since the last start could have been leapt over; a script that gives up
because a start failed (`IfStartFailed`) has nothing to stop. TLC evaluates
`BalancedAssumption` for every script of a run.

`Patient` is what makes the verdict of a script with one zone trustworthy, and
what the author of a new script has to keep to: it updates the zone once before
the first wait or only when a wait has seen the slave with the version before,
waits after an update before it stops a server or compares (a named that has a
zone file may be started in place of that), makes named a slave of a knotd that is
up to date and only while named is off, and compares on every path if it does
at all. With TSIG, where a comparison forgets the differences it has found (finding
`TsigCompare`), more is asked (`FromScratch`): the slave starts without the zone,
there is one update, and named as a slave is waited for before the comparison. It is stated as a stage before each call (`Stages`) and as the calls that
each stage allows (`Passes`): the first wait of `knotd` after an early update must be for IXFR,
because a full transfer may still bring the version before; rndc reloads are for a
named that is the master. Only scripts with one zone and one slave are patient: a
wait for two zones may succeed with one of them (`MaskedTimeout`). TLC
finds the stages of every script with one zone (`PatientAssumption`).

### The comparison

`DigCompare` gives each server an answer, which the way `dig` prints it is a
sequence of SOA lines with a chunk of records behind each, in any order within
the chunk. `at` is the number of SOA lines read and `rest` the records of the
current chunk that are still to come. The automaton of `digcmp.py` reads line by
line, with one action for each of its states. Outputs are bags, since both are
sorted before `diff`.

### The generator

`ZoneGen` appends one record per step. Names are flat, as the defaults
`SUB_CHANCE = 0` and `WILD_IN_SUB = 0` make them. `Begin` rebuilds the registries
from the file as `--update` does. Types that only draw an owner are one type.

### The DNS client

In `AxfrClient` the master's answer is a sequence of messages, each with its own
data, some signed. A signature records what it covers: the message signed before
and the data since. `do_axfr` collects messages until the connection closes or is
idle for a second, possibly in the middle of a message; `decode_axfr` then goes
through them, and `verify_tsig` compares what the signature covers with what the
client has put into its digest. A message may be changed on its way, in its place:
its data, its MAC or its key name. `options["unsigned_messages"]` is `unsigned`, and stays
as it is after a signed message, as in the code.

In `ZoneWalk` each query has a socket of its own with a set of datagrams, which
may be lost, answered late or answered twice, and names come and go on the
server. A step is the arrival of an answer or a timeout; `phase` says whether the
walk asks for the next name or for the records of the current one. When the name
has gone between the two, `print_answer_rr` raises, or, if the server answers
without data because names below it are left, passes it over. There are no
wildcards in the zone, which would answer for a name that has gone.

`DnsExchange` is a single query. `Init` reads one of the `CommandLines` the way
`parse_args` does, options first and the last of them as the name if nothing
else follows, and writes the request with `mk_request` of `DnsWire`. `SendUdp`,
`Timeout`, `NoResponse` and `Receive` are `send_request_udp` and the check
behind it: a socket is used for all tries of a query, so that the answer to the
first may be read during the second, and an answer to an earlier query from the
same port may be read as well. `Connect`, `RecvTcp` and `ResetTcp` are
`send_request_tcp`, whose single `recv` returns the answer or any part of its
beginning. `PrintQuestion` and `PrintRecord` go through the octets received with
the decoders of `DnsWire`, which follow compression pointers and raise where
Python does. An uncaught exception is the phase `traceback`.

The server reads the request with the same name decoder and builds its answer
from what it has read, with an encoder of its own, so that a decoder and an
encoder of the tool that agree on a mistake are still found out: the printed
records are compared with those that the server was given. `Layout` lists, for
each type, the fields its decoder reads; `Field` is what the decoders have in
common.

### The capture analysis

`PcatReplies` compares two replies. A comparison is "same", "different" or
"crash" if Python raises, and the steps of `analyze` are taken in order until
one is not "same". `Candidates` and `BestOutcome` are the pairing of
`analyze_rrs`: each record of the base is tried with the records of the target
of its name and type until one is the same, and nothing keeps two records from
being paired with one. The record types whose decoders are missing raise, a
TSIG is compared field by field with the indices of the code. `SameReply` is
what the comparison is for: the records of the one are those of the other in
some order, up to case, times and MACs.

`PcatAnalyze` is the loop over two captures, an entry being the three lines of a
query. `pc` says which file is read next; `ReadBase` and `ReadTarget` skip one
entry or stop at the one with the number `pkt`; `Compare`, or `Inspect` with
`-i`, reads and compares the replies; an exception leads to `crashed`, without a
report. `CaptureDiff` says that the replies to the queries 1, 2, ... are
compared as long as both captures have them and that those that differ in
meaning are counted. `Refines` maps the loop to it: `compared` is
`1..(pkt - 1)`, and a capture is a function from query ids to replies.

### The relay

In `Relay` the process is `Accept`, `RecvNothing` or `RecvQuery`, and
`PassAnswer`, in that order, for one client at a time. A client sends its query
in one or two segments and may leave at any time; what it sent can still be
read. Every query goes out from a socket with a new number, which is what keeps
late answers away from the next client. A connection may also be reset: `recv` or
`send` then raises, and the relay ends. A signal that comes while a call waits
interrupts it, which raises and ends the loop (`Interrupt`); before the call it
only clears `run` (`ClearRun`), and the loop ends at its next test.

## Runs

| run | question | bounds |
|---|---|---|
| `AllTests` | fifteen instances of the scripts: success means that both servers hold the update, complete waits are true, a crash of knotd is reported, a script refuses to start only because of a stray server, nothing is left behind, it ends | one zone, and two for `20ixfr-in.sh`; two crashes, three polls a wait, two rounds of a loop, and two updates with a reload each for `21ixfr-out-knotmaster.sh`, which makes one |
| `DigVerdict` | the automaton finds the end of an answer; the verdict is exact for one changeset | a plain and an excusable record, two changesets |
| `ZoneUpdates` | a file stays a good zone over an update; refinement of `ZoneFile` | three names, two runs of three records |
| `AxfrTsig` | no change goes unnoticed; one stretch of unsigned messages raises no alarm; the client ends | six messages, two changes |
| `ZoneWalks` | no name is listed twice, no lasting one is left out, the walk ends | four names, two types, two tries, three updates |
| `PcatCaptures` | captures stay lined up; refinement of `CaptureDiff`; the analysis ends | three queries with any ids missing in either capture; any plain one of seventeen replies against any other; with `-i` and without |
| `Relay` | each client gets its own answer, one client after the signal, every client is served | three clients, two of which wait; one lost and one doubled datagram; any resets |
| `Exchange` | the request says what the command line does; no silent answer to something else; what is printed was sent; the tool ends | eleven command lines, six answers with twelve types of rdata, two tries, a stray answer, a TCP answer cut at every octet |

Two polls are enough for a limit: with one there is no poll after a miss, with
two there is a first and a last one; three add one between. Two zones are enough
for a wait to be half done. A second round or a second run reads what the first
one left; a third would read nothing of another kind. Six messages hold two
stretches of unsigned ones with signatures around them, and four names a walk
that starts in the middle, wraps and has names come and go. Three queries have one
before and one after the one whose replies vary, and a third client is served after a
second whose answer comes late. Names of a zone are interchangeable as long as no
old file names them, hence the symmetry.

Runs that expect a violation show a place where the code does not do what it
says; `PROJECT.json` quotes the line.

| run | what TLC finds |
|---|---|
| `MaskedTimeout` | a wait for two zones loses the first, finds the second and reports success |
| `AxfrAlarm` | a genuine transfer with unsigned messages before two signed ones fails its verification |
| `PcatCase` | two replies that differ only in the case of a name in an MX record break the analysis off: the decoder of MX rdata does not exist |
| `TsigCompare` | with TSIG a comparison of two signed answers forgets the difference it has found: `_dig_filt` assigns its caller's `ret`. The difference is that of a zone whose transfer the wait before has lost, as in `MaskedTimeout`; no server crashes in this run |

Four more places where the code does not do what it says are visible in the
models, as the assumption without which a property fails:

* `_knotd_compile` never takes its timeout branch and blocks in `wait` if the
  compiler hangs: `Termination` assumes that it exits.
* `--update` enrolls the owner of an SRV record and not the name it was drawn
  below, which may become a DNAME: `ChildlessInRun` is about one run.
* `--update` does not recognise a CNAME whose line has a TTL or class:
  `AliasExclusive` is for old files without such lines.
* The additions of a changeset and the removals of the next get one tag:
  `VerdictExactOfOne` is about one changeset. Moreover removals are tagged
  `ixfr-add` and additions `ixfr-rem`.

`Refines` is claimed of base captures whose replies have no record twice, since
two records may be paired with one, and no other data with a space in a TSIG,
since the last field is not compared. `Served` is claimed without loss, because the
relay waits for an answer without a timeout, of queries that were read as a whole,
and as long as no connection is reset, which ends the relay for every client.
`NoSilentMismatch` is about answers that are printed to the end; an answer without a question ends in a traceback.
`PrintedIsSent` lets the last record of a cut message lose the end of its rdata,
which is what the code does with a short TCP read, and `+hex` shows rdata
undecoded.

`VerdictSound` is claimed of the scripts that compare the servers, which
`12axfr-in-intr.sh` does not, with one zone: with two, `20ixfr-in.sh` fails it
in the way `MaskedTimeout` shows. `CompleteCountIsTrue` is claimed as long as
nothing has failed: after a wait that timed out, `23ixfr-in-integrity.sh` may go
on and take the late line for that of its next change; `RCODE` has the failure by
then. `CleanExit` is about the servers a script stops, which for
`12axfr-in-intr.sh` is knotd only. `EnumeratesStableOfTwo` asks for two lasting
names because a walk whose first name goes while only the apex is left ends
without the records of the apex, and `NoFalseAlarmOfOne` for one stretch because
of `AxfrAlarm`. That a transfer is complete is not claimed: an idle second ends
it. `TargetsExist` and `NoAliasChain` need an address pool, and there is none
with fewer than ten records.

### Fairness

`ShellFair` is weak fairness of the script: it waits for nothing but `sleep`, and
each step of it is always possible until it ends. `Termination` also assumes that
`knotc` exits and that knotd obeys a reload, because `_knotd_compile` and
`_knotd_reload` wait for them without a limit; without the first it fails. Nothing is assumed of the servers otherwise: they may hang,
die or stay silent.

For the client fairness is that of its own steps: every receive has a timeout,
`settimeout(1.0)` in `do_axfr` and a doubled one per try in `send_request_udp`.
`WalkEnds` is about a walk whose first name stays in the zone. In `Exchange`
`recv` of TCP is not fair, as that socket has no timeout, and `Ends` says no more
than that the tool ends or waits there.

The analysis of captures reads files, so that its next step always comes. In
`Relay` fairness is that of the relay, of the server and network, and of a client
that has connected and will send its query; nobody has to connect or to leave.

## Proofs

`TestCase_proofs`, for any balanced scripts, poll limits and number of crashes:

* `TypeCorrect`: the type invariant.
* `CrashReported`: `KnotdCrashReported`.
* `OnlyStrayRefused`: `RefusesOnlyStray`.
* `ExitIsClean`: `CleanExit`.

One inductive invariant, `IInv`, carries all four. `Places` ties `pc` to the call
being made, so that a step of a helper is known to be one of its own call.
`Owned` says that a server that runs has its process id with the script, except
between its start and the end of the wait for it, and `Known` that a server with
a process id is one that `MayRun`: the two together are what makes a start find
nothing of the script's own. `CrashPending` is why a crash of knotd cannot be
forgotten: from the crash until `RCODE` has it, knotd is off with an unclean status and
its process id is set, which `_stop_pid`, or a `_watch` before it, must still
come across. `MayRun` is about positions in a script; the lemmas about it say how it
changes with one call and with a leap over several.

The second part of `TestCase_proofs`, for any patient scripts, with the same parameters:

* `CountIsTrue`: `CompleteCountIsTrue`.
* `VerdictIsSound`: `VerdictSound`, with TSIG and without.
* `StagesHold`: what both follow from. As long as nothing has failed, what is
  known of the zone at the stage of the script is true.

Neither property is inductive: that the line a wait finds is of the newest version
depends on every update, start and wait before it. `Facts` says what is known at
each stage, of the versions the two servers hold and of the lines in the slave's
log: at `level` the slave has the newest version and every line of a transfer lies
before `ll`; at `due`, after one update, it has it again or has logged no transfer
from `ll` on. `Base` bounds every version by the newest one, has named reread no
old zone file, and has a knotd that is the master never ahead of its compiled zones
(`KnotdMaster`), so that a reload that comes late takes nothing from it; `Frame` says what the script knows within a call, such as that a
wait that has counted its zone did find its line (`Hit`). While the script is in a
call, all this must survive whatever the servers do (`ExternalKeeps`), of which
`TransferKeeps` is the core: a transfer can only raise a slave to what the
master has, and at each stage where a line is looked for that is the newest
version. `HitNewest` then gives the first theorem and `AlikeAligned` the second
without TSIG. With TSIG the comparison tells nothing, and the verdict rests on how
the servers came to their versions: `SignedVInv` adds that the one slave is never
ahead of its master (`Leads`), so that where the slave has the newest version both do; and that the zone is updated at
most once (`Once`), so that named, which comes back with the first version
as a slave, has the newest already or is waited for in earnest. A
step that fails sets `RCODE`, which is never reset, and needs to keep nothing.
`Recorded`, that only slaves log transfers, is kept apart: it is why named,
made a slave in `21ixfr-out.sh`, has no line that the wait for it could mistake.

`DigCompare_proofs`, for any records, rules and number of changesets:

* `EndRecognised`: `ClosedAtEnd`.
* `VerdictIsExact`: `VerdictExactOfOne`.

Both rest on `AutomatonFollows`: the globals of `digcmp.py` are a function of the
answer and of the number of SOA lines read, whatever the order of the records in
between. From it the output of an answer with one changeset is the bag of its
records, each with the tag of its chunk (`Outputs`). The second theorem then
needs that two answers with equal bags are equal. With one changeset
no two chunks share a tag (`OwnSection`), so that the bag gives each chunk back;
a second changeset would break that.

`ZoneGen_proofs`, all checked by TLAPS, for any names, counts, number of runs and
old file:

* `TypeCorrect`: the type invariant, with no assumption about the old file; the
  others assume what they say of it.
* `AliasOwnersExclusive`: `AliasExclusive`, if the old file has no clash and no
  line that hides its type.
* `Refinement`: every step is a step of `ZoneFile` or a stutter, same assumption.
* `TargetsAlwaysExist`, `AliasesEndAtOnce`: if besides the old file's targets have
  addresses and the pool is not empty.
* `FirstRunChildless`: `ChildlessInRun`, if the old file is sound and has no SRV
  record, whose owner the generator does not enroll on the next run.

The argument of these is one inductive invariant, `IInv`: the types, that no two records
clash, that no line is long, and, while a run is under way, that the registries
know the file: every owner that is not one of an SRV record is in `NAME_EXIST`
or, of an alias, in `CNAME_EXIST`. The last part is what a draw needs to be safe,
and a reload of the registries re-establishes it. `TInv` adds that `ADDR_NAMES`
holds owners of address records and is not empty once the pool is written.
`AppendFacts` says what appending a record does to the indices and is used
everywhere; `ClashSymmetric` halves the cases.

`AxfrClient_proofs`, for any number of messages and of changes:

* `TypeCorrect`: the type invariant.
* `ChangesAreNoticed`: while no verification has failed, all that the decoded
  signatures cover is what the master sent, in its place.
* `AlarmsAreLate`: if nothing was changed, a verification fails only for a signed
  message behind one that ends a stretch of unsigned ones.

Its invariant says that, as long as nothing has failed, the prior digest is that
of the last signed message and everything up to it is genuine (`GenuineToPrior`),
and that `unsigned` ends with the data since (`CollectedSincePrior`). The step
that matters is a verified signature: `VerifiedData` concludes from the equality
of what both sides digested that the data are equal one by one, although
`unsigned` may begin with data of stretches long gone. That this cannot hide a
change is what makes the missing reset of `AxfrAlarm` a nuisance and no more.

A second invariant, `GInv`, carries the last of these: messages are as they were
sent (`AsSent`), the prior digest is that of the last signed message decoded, and
as long as only signed messages lie before that one, `unsigned` is exactly the
data since (`NothingLeft`). `LastSignedUnique` then makes the two sides digest
the same. It bounds what `AxfrAlarm` shows: a genuine transfer with at most one
signed message behind its first unsigned one raises no alarm.

`ZoneWalk_proofs`, for zones of any size, any number of tries and of updates
during the walk:

* `TypeCorrect`: the type invariant.
* `NoneTwice`: if the name the walk started from stays, none is listed twice.
* `NoneLeftOut`: a walk that ends without an error has listed every name that
  was there all the time, if there are two of these.

The order in which a walk from `start` comes to the names is `Before`. The
invariant, `WInv`, says that what has been listed lies behind the current name
(`Behind`, for the second theorem), that every lasting name behind it has been
listed (`Covered`, for the third), and that no lasting name lies between the
current name and what an answer, even a late one, says follows it (`Steps`). It
needs that every exchange has a socket of its own, which the type invariant
holds. `Forward` says what one NSEC record does to all this, also where it
passes the start or the end of the zone.

`PcatAnalyze_proofs`, for captures of any length and replies of any content:

* `PairingExact`: for two sections of one length in which no record comes twice,
  `analyze_rrs` finds no difference exactly if the records of one are those of
  the other in some order. A record that finds a partner finds one of its own,
  because two records with one partner would be the same (`SameRRJoins`), so the
  partners are a permutation; the other direction needs that the candidates of a
  record are all that can be the same as it.
* `TypeCorrect`, `AlwaysLinedUp`: the invariants of the loop.
* `Refinement`: if the replies of the base captures are plain, every step is one
  of `CaptureDiff` or a stutter. The step that matters is `Compare`: it takes the
  next id that both captures have, and its outcome is "different" exactly if the
  replies differ in meaning. `FileEnds` is the other: an id that was passed over
  is in neither of the rest of the file nor, the ids being ascending, before it.

Its invariant, `LInv`, adds to the types that what has been read of a file does
not hold the id that is looked for (`Passed`), that each id below `pkt` is in
both files, and that `pkt` is not when the report is reached.

`Relay_proofs`, for any number of clients, lost and doubled datagrams:

* `RelayTypes`, `RelayOwnAnswer`, `RelayStops`. The invariant of the second is
  `OwnSocket`: every datagram with the number of the current socket is of the
  client that is being served, and none has a higher number. That of the third
  is that no client is counted before the signal, and that the relay is
  not at `accept` again once somebody was accepted after it (`LastIteration`).

`DnsExchange_proofs`, for any command line, any answers that can be written as
octets, any number of tries and any left-over datagrams:

* `NameRoundTrip`: `get_domainname` reads, of a packet that has the octets
  `txt2domainname` writes at some offset, that name and the offset behind it, and
  raises only if the packet is cut within it.
* `TypeCorrect`: the type invariant, with its bound on what is on its way.
* `RequestIsReadBack`: `RequestReadBack`.
* `NoneSilent`: `NoSilentMismatch`.

`get_domainname` is recursive over what is left of the stack and, through
pointers, over any offset. The library's induction theorem cannot be
instantiated, so `Induction` is proved of a set of numbers, from the least element
that a well-founded order gives (`WFMin`), and `Recursion` concludes that a
function defined by primitive recursion exists, for one level of the decoder at a
time (`LabelsAt`, `LabelsIs`). `NameThere` is the induction itself: the
labels behind the first `i` are read correctly with as much of the stack as
there are labels left, of which there are no more than octets (`WrittenLong`).
`FlattenParts` and `HasBoth` say where the parts of a concatenation are in the
whole, from which come the header, the question and the OPT record of a request
(`RequestBack`) and the question of any message of the server (`EncodeHas`).

The invariant of the exchange, `Inv`, says that the request is that of the command
line (`QueryInv`), that requests and datagrams on their way are no more than the
waits so far and one that was there before (`NetworkInv`, with `Sends`), and that
what is about to be printed is a message that can be written, or the beginning of
one (`AnswerInv`); then what is decoded of its question is its question, so that
what `Matches` lets pass without a warning matches (`Answered`). That even a
message cut by TCP, or one of an earlier query, keeps to this is `GotIs`. The
assumptions are about what servers send (`RecordsAssumption`,
`StraysAssumption`) and about a command line, whose labels are shorter than 192
octets: `txt2domainname` writes the length of a longer one as an octet that every
reader takes for a pointer, and more than 255 do not fit into it.

Only model-checked are liveness, which needs fairness and ENABLED;
`CompleteCountIsTrue` of scripts with two zones; and `PrintedIsSent`, which
would need for each layout of rdata, bitmaps of types among them, what
`NameRoundTrip` says of names.

## Not modelled

* `tools/zone-pcapgen.py`, `pcap-generate.py`, `pcap-generate-bench.py` and
  `pcap-fuzz.py` write lists of packets that scapy builds: no decisions, no state
  but the length of the list, or random octets. Two slips are named below.
* The NSD helpers, replay and the rare wait variants of `cases/test.case`. Of the
  scripts: `00unittests.sh`, `01gotests.sh`, `60protos-query.sh` and `run.test`, which run
  external programs; `50root-basic.sh`, which runs other scripts on the root zone;
  `02compliance.sh` and `03regressions.sh`, which replay captures and compare
  the answers; `09compiler.sh`, `09permissions.sh`, `10rrsig-cname-checks.sh`,
  `10tcbit-test.sh`, `10tsig-queries-tmp.sh` and `10wildcards.sh`, which start
  servers and send a fixed list of queries; `11axfr-in-loop.sh`, where no transfer is to succeed;
  `13axfr-in-knotonly.sh`, which starts two knotd by hand. Their starts, stops and
  comparisons are those of `TestCase`.
* Of `tools/zone-generate.py`: signing (external programs), reverse zones, the
  random words and the text of records.
* Of `tools/pydig.py`: `-x`, the default server of `resolv.conf`, debugging
  output, the text of numbers, keys and times, and TSIG in a single query; TSIG is
  modelled over a transfer. `pydig_mod.py` is the same code as a library.
* Slips met on the way that no model is about: `_nsd_start` takes the status of
  the `[` of its `if` (`cases/test.case:1172`); `_update_soa` increments a serial
  past 2^32 - 1 (`:433`); `_pcat_cmp` returns 1 whenever a report was printed and 0
  when the tool crashed (`:1548`); `-t` of `pydig.py` stores `tsig_time` and the
  signature reads `tsig_sigtime` (`:369`), `-i0` asks for a random id (`:446`);
  `zone-pcapgen.py:227` has a `++i` that changes nothing, and its six queries with
  a misplaced TSIG are one object, so that they share an id (`:241`).
* Benchmarks (`bench-graphs.sh`, `90memoryperf.sh`, `91performance.sh`,
  `92xfrperf.sh`): load generators and plotting. Configuration text.
