# A verification project for ops-sysd

ops-sysd is the OpenSwitch system daemon. When a switch boots it reads the image
manifest and the hardware description files, pushes what it found into the OVSDB
database, waits until every platform daemon has done its part of the hardware
initialisation, and then sets `System:cur_hw` and `next_hw` to 1. The configuration
daemon pushes the user's configuration only after that. Later ops-sysd keeps
`/etc/localtime` at the time zone in the database.

This directory holds TLA+ modules translated from the C source, the TLC
configurations that check them, and theorems about them whose proofs TLAPS checks.
Paths below are relative to the repository.

## 1. The system

### Components

| component | source | state | operations |
|---|---|---|---|
| boot sequence | `main()`, `sysd_get_subsystem_info()`, `sysd_get_interface_info()` in `src/sysd.c`; `src/sysd_cfg_yaml.c`; `create_link_to_desc_files()` in `src/sysd_util.c` | the hwdesc link, parsed YAML, subsystem data, LED | seven steps in a row, each of which may end the daemon with `exit(-1)` |
| image manifest | `src/sysd_util.c` | `daemons[]`, `num_daemons`, `num_hw_daemons`, `mgmt_intf` | JSON walk; counting; read by the push, the scan and the dump |
| main loop and IDL | `main()` in `src/sysd.c`; `sysd_run()` in `src/sysd_ovsdb_if.c` | `idl_seqno`, `hw_init_done_set`, the IDL replica, the lock `ops_sysd` | one round of `sysd_run()`, command server, `poll_block()` |
| initial push | `sysd_initial_configure()` and what it calls | one transaction | System, Subsystem, Interface, Daemon, bridge, VRF, QoS and ACL rows |
| h/w daemon detection | `sysd_chk_if_hw_daemons_done()`, `sysd_set_hw_done()` | `hw_init_done_set`; `Daemon:cur_hw`; `System:cur_hw` | scan of the Daemon rows; one commit |
| package information | `sysd_add_package_info()` | parser state, open transaction, `record_count` | an event machine over `version_detail.yaml`, a commit per 2000 entries |
| OS release | `sysd_update_sw_info()` | `System:software_info`, `switch_version` | parse `/etc/os-release`, set the columns |
| time zone link | `sysd_handle_timezone_update()` | `/etc/localtime` | `unlink()`, `symlink()` |
| FRU EEPROM, subsystem MACs | `src/sysd_fru.c`, `src/sysd.c` | `fru_eeprom_t`, the MAC pool | TLV loop with CRC; two MACs taken from the pool |
| interfaces, split ports | `sysd_initial_interface_add()`, `sysd_set_splittable_port_info()` | Interface rows | rows from ports.yaml; parent and children references |
| QoS defaults, ACL limits | `src/qos_init.c`, `src/acl_init.c` | profile, queue, COS and DSCP rows | get-or-create of rows inside the push |
| CLI and REST | `src/cli/system_vty.c`, `vtysh_ovsdb_system_context.c`, `opsplugins/system.py` | a list of zones per session; the shared file `/tmp/timezone_info` | read and set `System:timezone`; show commands; validation |
| diagnostics, exit | `sysd_dump()`, `sysd_exit()` | `exiting` | `ops-sysd/dump`, `exit` over ovs-appctl |
| event log, VLOG | everywhere | none | output only |

### How they interact

ops-sysd is one thread. It shares the database with the platform daemons (which set
`Daemon:cur_hw`), the CLI and REST (which set `System:timezone`) and possibly other
instances of itself, of which the server lets one hold the lock. It sees the database
through a replica that `ovsdb_idl_run()` brings up to date at the start of a round;
`ovsdb_idl_txn_commit_block()` runs the IDL too, so that every commit inside
`sysd_run()` may change the replica under the code that follows it. Changes to some
columns are without alert: they do not move `seqno`. The files it reads are replaced by
image updates while it is down, `/etc/os-release` at any time.

### What is hard, and what makes each part correct

* **Main loop.** Updates that arrive inside a commit, a lock lost and regained, commits
  that fail or whose reply is lost, crashes between two commits. Correct means: the
  System row and each package are inserted once; `cur_hw` = 1 only after every report;
  no lost wake-up; and in the end the row, `cur_hw` and the link are what they ought to be.
* **Scan.** Two hash orders and an early break. The verdict must not depend on them.
* **Package machine.** A transaction is opened and closed by two tests of the same
  counter, before and after it is increased.
* **Boot.** It leaves things on the disk step by step; the next boot, perhaps of another
  image, must cope with whatever an unfinished one left.
* **FRU, MACs, QoS, interfaces.** Sequential, but with lengths, counts and references
  taken from files. Correct means: no address handed out twice; rows as described;
  references that exist.
* **OS release.** A file in which a name may stand twice or be empty. Correct means: a
  version is never joined with the build of another release.
* **CLI and REST.** Check in one step, act in another; two spellings of a zone; a
  temporary file that all sessions share, of whichever user. Correct means: the zone
  exists; a printed configuration restores it; nothing old is shown.

`PROJECT.json` lists the hazards line by line, with the properties that would catch
them, or the reason why none does yet.

## 2. The modules

### SysdRun: the main loop against the server

Any number of instances (`Procs`). The server has the database `db` (columns with
alert), the column `curHw` (without alert) and the lock's `owner`; each instance has a
session `sess`, a queued update `unread`, its replica `idl`, its belief `hasLock`, the
comparison of `idl_seqno` with the IDL's (`ahead`), a program point `pc`,
`hw_init_done_set` (`hwInitDone`) and the number of the next package commit.

| action | code |
|---|---|
| `Start`, `Exit`, `Crash` | `main()` up to its loop; `sysd_exit()`; end of the process anywhere |
| `IdlRun`, `IdlConnect`, `IdlUnreachable` | `ovsdb_idl_run()` on a live, a new, no session |
| `ReturnWithoutLock`, `ReturnUnchanged` | the two early returns of `sysd_run()` |
| `Configure`, `ConfigurePartly`, `Push` | no System row: `sysd_initial_configure()`, or a failed `calloc()` in it, and the commit |
| `WriteWithoutTxn` | `sysd_update_sw_info()` of a changed release with no transaction open: the daemon dies |
| `FindAllDone`, `FindNotDone`, `SetHwDone` | the scan's two outcomes; the commit of `cur_hw` |
| `BeginPackages`, `SkipPackages`, `AddPackages` | the test for an empty table; one commit per batch |
| `NoTimezone`, `UnlinkLocaltime`, `LinkLocaltime` | `sysd_handle_timezone_update()`: nothing is done without a row or with an empty column; else the link is replaced, with the gap between the two system calls |
| `LoopAgain`, `Block`, `Wake`, `WakeOther` | the tail of the loop: the second look at `seqno`, `poll_block()` |
| `HwDaemonDone`, `SetTimezone`, `ReplaceOsRelease`, `Disconnect` | everyone else |

`Commit` has four outcomes, which the code does not tell apart afterwards: applied;
refused; applied with the reply lost; not sent. The replica absorbs in it what others
wrote before.

Abstractions, each an assumption on code outside the repository or detail no property
looks at:

* On a new session the contents and the lock arrive together, and an update is delivered
  whole. The uniqueness theorems rest on this: an instance that works under the lock has
  a replica with everything its predecessor committed.
* The server notices a broken session at once and gives the lock to some waiting instance.
* A row's content matters only as `Contents` says; a package batch is a number.
* An empty `timezone` column (`NoZone`, after a push that failed) is a null pointer to
  the code, which tests for it; the schema that would say so is not in the repository.
* `os-release` is read at the commit of the push; the parse is its outcome, a release or nothing.
* The database is never created anew under a running daemon.
* `daemonize_complete()`, host name look-ups and logging are left out.
* An instance without the lock spins: it leaves `idl_seqno` behind, and the loop does not
  block then. That is in the model (`LoopAgain`), and costs only processor time.

### HwInit: the promise of cur_hw

The abstract specification: daemons report, and once all have, readiness is declared for
good. `SysdRun!HwInitImplemented` is the refinement, `reported` mapped to the h/w daemons
whose row says so and `ready` to `cur_hw` = 1.

### HwScan: the scan itself

`SysdRun` takes the scan as one step with the outcomes `CanFindAllDone` and
`CanFindNotDone`. `HwScan` is the loop: `daemons[]` filled in any hash order, the rows in
any order, the first row that matches, the early break, the counter. `ScanIsCanFind`
ties the two together. `Dump` is `sysd_dump()`'s walk of the same array. The JSON walk
above it is left out: only the object "daemons" matters here.

### PackageInfo: version_detail.yaml

One action per scalar of the file that changes state: keys set `current_state`, values act
on the row, the transaction and `record_count`. The file is chosen as it is read, and may
end, or turn unreadable, at any point; a file that cannot be opened is an empty one.
Assumed of its generator: each entry begins with PKG, ends with TYPE, has no key twice
and no other key. An entry without TYPE would create a transaction inside another. The
IDL's own assertions are the action's `Abort`. `ovsrec_package_info_insert()` never
returns NULL in the IDL, so that early return is left out. A row's columns are the
numbers of the entries they come from; SRCREV is told apart from PV because "INVALID"
must not be stored.

### Boot: the way to the loop

`main()` step by step with what each step needs; the hwdesc link in its three system
calls; and the loop reduced to what can end it. Between boots an image update may
change which inputs are good, where this platform's description lies and whether there
is a `fru.yaml`. `Required` and `Tolerated` are the two kinds of input; the parsers are
their outcomes. Errors of QoS and ACL descriptions are only logged; what the push
then makes of missing QoS data lies in the config-yaml library and is not modelled. Two of
the inputs are not files: the socket of `ovs-appctl` and memory. Where memory fails the
`calloc()`s that are tested end the boot; in the manifest a `realloc()` that is not tested
and an `xcalloc()` may end the process as well (`"died"`). The platform's identity comes from `dmidecode` (the build for hardware).

### InitialPush: the rows of the first transaction

`SysdRun` takes the push as one step. `InitialPush` is that step: `main()`'s reading of FRU
and ports, then `sysd_initial_configure()` call by call, to the point where its caller
commits. Any of its three `calloc()`s may fail; the caller commits what stands. It
composes four modules by INSTANCE, over a constant description `desc`:

| module | code | one action per |
|---|---|---|
| `HwDesc` | types of the description files, the EEPROM and os-release | (input only) |
| `Subsystem` | `sysd_read_fru_eeprom()`, `sysd_process_eeprom()`, `sysd_cfg_yaml_get_fru_info()`, `sysd_get_subsystem_info()` | read that may fail; TLV; address taken from the pool |
| `SplitPorts` | the loop over the ports and `sysd_set_splittable_port_info()` | pass; port of the second pass |
| `OsRelease` | `sysd_update_sw_info()` | line |
| `QosInit` | `src/qos_init.c` | map; profile; entry of a profile |

Abstractions and what is assumed of the files:

* TLVs have the lengths of the format, and the last ends at `total_length`; `CrcMatches` is
  then true for an intact EEPROM whose CRC stands last. Collisions of the CRC are ignored.
* There is one subsystem, as in `main()`. An address is a number; its string has the six
  low bytes. `service_tag` is read and pushed nowhere.
* Names of ports are distinct, no port has more than `MaxSplitPorts` subports, no map more
  entries than rows (`DescriptionsAssumption`): beyond that the code writes past arrays.
  The lists of speeds and capabilities of a port are layout.
* Default and factory profile may have the same name; then both passes work on one row.
* Rows inserted in a transaction are found by name in the same transaction, as the IDL
  has it. Colour and name of a map entry go with its code point.
* A line of os-release is its name and its value, shorter than `NSTR`; a smap with the key
  `os_name` twice leaves one of the values in the column.

### TimezoneCli: the users of the zone

Any number of vtysh sessions, each with its `user`, its replica `rep`, its `zoneList` (the two
arrays of `system_vty.h`) and the command under way; the REST validator; the column; and
the report file with its owner.

| action | code |
|---|---|
| `Push` | the zone after `sysd_initial_configure()`: UTC, or empty after a push that failed |
| `RestSet` | a change through `SystemValidator`, spelled as the file is |
| `Start` | a session walks the zone directory, in any order, some directories perhaps unreadable |
| `Deliver` | the session's IDL catches up |
| `SetTimezone`, `Commit` | `cli_set_timezone()` and its no form up to the commit; the commit, applied or not |
| `RemoveReport`, `AppendReport`, `ReadReport` | `vtysh_show_system_timezone()` around its shared temporary file; `remove()` and the append fail unseen where the file is another user's, and the append also for reasons of its own |
| `PopenFails`, `ShowSystem` | a failed `popen()`, and "show system" without a Subsystem row: a null pointer ends the session |

With an empty column both forms of the command write UTC, whatever zone they name: the
code's test for null skips the comparison and the name (`Target`).

Assumed: `/tmp` is sticky, so that a file in it can be removed and written by its owner and by
`Superusers` alone; two zones differ in more than case and none is in lower case already
(`ZonesAssumption`); there are at most `MAX_TIMEZONES`; REST's own walk is complete. A
report of `timedatectl` is told apart by the commands that were under way when it was
made, which is all that `ShownIsFresh` asks of it. What ops-sysd makes of the column is in
`SysdRun`. The other show commands only print.

## 3. What the runs show

| run | instance | shows |
|---|---|---|
| `takeover` | 2 instances, 2 broken sessions, 1 crash, 2 batches | types; `OneSystemRow`; `PackagesOnce`; `CurHwImpliesAllDone`; `SettledIsServed` (no lost wake-up) |
| `alone` | 1 instance, one fault of every kind, 3 h/w daemons, 2 zones | `SettledIsLinked`; `FlagTruthful`; `HwInitImplemented` |
| `ready` | 2 instances, 1 crash | `CurHwFollows` |
| `eventually` | 1 instance, a broken session, a refused commit, a crash | `LocaltimeFollows`; `SystemRowPushed` |
| `packages` | up to 5 entries, 2 to a commit | `NeverAborts`; `EveryEntryOnce`; `BatchesFull`; `ColumnsCoherent` |
| `hw_scan` | 4 daemons, any of them h/w, two of the names sharing a beginning | `ScanIsCanFind`; `OnlyNamesakesHide`; `WaitsForSomeone` |
| `boot` | 2 description directories, 15 inputs of which one may be wrong, 2 crashes | `ReadyInLoop`; `FailsForCause` |
| `push` | EEPROMs of up to 3 TLVs, every `fru.yaml`, 3 ports, up to 3 QoS entries, maps of up to 2, up to 3 lines of os-release; bytes of two values | `AcceptedMeansIntact`; `PoolAccounted`; `PartsWhole`; `ReferencesExist`; `SplitMutual`; `VersionAsReleased`; `QueuesAsDescribed`; `SchedulesAsDescribed`; `FactoryDefaultIsCopy` |
| `timezone` | 2 sessions (symmetric) of an ordinary or an administrating user, 2 zones in 2 directories | `ZoneExists`; `RunningConfigRestores`; `ShownIsFresh` |

Why the bounds are enough. Two instances show every order of take-over: the lock has one
holder and one that waits, and a third would wait like the second. Two broken sessions
let an instance lose the lock and come back after its rival has come and gone. Two batches
have a gap between them. Five entries at two to a commit give two full transactions and
one that is not. Four daemons have room for an early break, a namesake, a daemon that is
no h/w daemon and sysd itself. In `boot` one wrong input at a time, since a boot ends at
its first; and two crashes, since the only memory of the past is the link and its
directory. In `push` one part of the description varies at a time, since the parts read no
variable of another but the description and the two addresses (`Composition` proves the
first half of this); within a part all small inputs are taken. A byte of two values keeps
every boundary: `num_macs` wraps at 4, addresses at 64, and pools of none, one, two and three
addresses occur, also at the very end of the address space. Three entries name a queue
again with another entry between; three ports have a parent, a child and a stranger. In
`timezone` two sessions have every race of two commands, and users of the two kinds every
case of whose file it is; two zones are the default and one in a directory that may be
unreadable.

`FlagTruthful` is what can be said of `hw_init_done_set` although `sysd_set_hw_done()` does not look
at its commit: every daemon has reported, under any fault; and `cur_hw` is set unless a
commit was refused or a session broke before. The run `alone` has both faults.

`CHECK_DEADLOCK FALSE` stands in `packages`, where the file ends; all other runs check deadlock. In
`push` the only states that go nowhere are those where the caller commits or the daemon
has exited (`Ended`), so that deadlock there means a push that is stuck.

Fairness. `FairSpec` says `WF(Step(p))` and nothing else: an instance that is up is
scheduled, and its calls return. Starts, exits, crashes, `ovs-appctl` commands, reports
and configuration changes need not happen. Liveness is therefore conditional on
`StaysUp`, some instance that is up from some time on, and on reports that are made or a
zone that stays. `LocaltimeFollows` is checked for one instance: two of them can race
between `unlink()` and `symlink()`. `SystemRowPushed` after a refused commit holds only
because the package commits that follow move `seqno` and wake the loop; with a
version_detail.yaml that yields none, a refused push is not tried again until some
other client changes the database.

### Disagreements between the code and what it says of itself

| run | what TLC finds |
|---|---|
| `cur_hw_lost` | the session breaks around the commit of `sysd_set_hw_done()`: the flag says done, `cur_hw` stays 0 until a restart (DESIGN.md:22) |
| `packages_lost` | a crash between two package commits: the table is not empty, so the rest never follows |
| `new_release` | a changed os-release reaches the System row's setters with no transaction open |

`hw_scan` shows one more, by what `OnlyNamesakesHide` allows: `strncmp()` over the length
of the manifest's name lets the row of "ops-fan-tray" stand for "ops-fan". The theorem
`CurHwIsTrue` has the hypothesis `PrefixFree` for that reason.

Others that the modules show, without a run of their own:

* A manifest with no `mgmt_intf` object is accepted (`sysd_util.c:372`), and the daemon dies
  at its first push, which reads it (`sysd_ovsdb_if.c:748`); `Boot`'s `FailsForCause` allows
  this end (`"died"`) for this cause and for failing memory alone. `tests/ops-sysd_test.md:35` says that the daemon
  "behaves correctly even with random information in the file".
* The dump shows the first `num_hw_daemons` of all daemons, not all of them
  (`sysd_ovsdb_if.c:1019`, against the comment at line 1014); `HwScan`'s `Dump`.
* `cli_set_timezone()` returns `CMD_SUCCESS` when its commit failed (`system_vty.c:508`); the
  comment at line 452 says otherwise. `TimezoneCli`'s `Commit` has the outcome.
* "show system" goes on with a null Subsystem row (`system_vty.c:223`); `ShowSystem`.
* A no form that was typed while another session replaced the zone resets the new one:
  nothing is verified at the commit.
* "timezone set" of any zone writes UTC while the column is empty (`system_vty.c:468`, `:479`), so
  that the first command after a push that failed has to be typed twice;
  `RunningConfigRestores` is about sessions that see a zone for this reason.
* "show system timezone" shows an old report where the file is another user's: `remove()`
  (`system_vty.c:411`) and the redirection fail and nobody looks. `ShownIsFresh` is about sessions
  whose `remove()` succeeded.
* `rc` in `sysd_read_fru_eeprom()` is a bool, so that a failed `fru.yaml` passes for success
  and leaves a FRU of zeros (`sysd_fru.c:206`); `ReadFruYaml` has it, and `PoolAccounted` holds
  of the empty pool too.

## 4. What is proved

`SysdRunProofs`, for any number of instances, daemons, zones, batches and faults, from the
assumptions named in `SysdRun`:

* `TypeCorrect`: `Spec => []TypeOK`. `TypeInv` adds that a batch being committed exists.
* `SystemRowUnique`, `PackagesUnique`. Neither is inductive: that the replica has no System
  row says nothing of the database unless the replica is current. `LockInv` supplies it:
  whoever believes to hold the lock on a live session holds it (`LockBelieved`); work is
  done under that belief (`WorkUnderLock`); the holder's replica has the counts of the
  database (`ReplicaCurrent`), because only the holder writes them; a push starts from a
  replica without a row (`PushFromEmpty`); and no batch from the next one on is in the
  database (`BatchFresh`). A commit that is applied is applied with the session alive,
  hence by the holder.
* `CurHwIsTrue`: under `PrefixFree`, `cur_hw` = 1 implies all reports. `ReportInv`: the
  Daemon rows are pushed whole or not at all (`RowsWhole`), so that the scan misses none;
  reports are never withdrawn, so a replica that lags errs on the safe side
  (`ReportsStable`); and the decision is right at the program point between scan and
  commit (`DecidedRightly`).
* `Refinement`: under `PrefixFree`, `Spec => HwInitImplemented`, from the same invariant,
  one step per action.
* `SleepersAreServed` (`SettledIsServed`), for any faults and without `PrefixFree`. Asleep is
  the last of many steps, so `WakeInv` says at each of them what an instance has acted on:
  a live session with nothing queued means a current replica; and a holder whose
  `idl_seqno` is not behind (`Looked`) has seen a System row or had a commit refused, and
  has set its flag if its replica shows every report. A commit that changes the database
  moves `seqno`, one that leaves `seqno` alone has changed nothing (lemma `CommitLooked`):
  that is why no update read inside a commit is lost. A scan on a replica with all reports
  never says "not done" (`ScanIsComplete`), because only daemons with a row report.
* `SleepersAreLinked` (`SettledIsLinked`), under `Procs = {only}`, for any faults. `LinkInv`:
  between the two system calls there is no link, and after them it is the replica's zone,
  if it has one, until `seqno` moves again. With a second instance it is false: the other may link its own
  stale zone in the gap.
* `FlagIsTrue` (`FlagTruthful`), under `PrefixFree`, for any number of instances and any faults.
  `FlagInv`: as long as no commit was refused and no session broke, a holder that is up
  has a live session, so every commit is made (`CommitMade`); and the flag is set only
  where the scan has decided, which is right by `ReportInv`. The run `cur_hw_lost` shows that
  no more can be said.

`PackageInfoProofs`, for any number of rows to a commit and any length of the file:
`PackageTypes`, `TransactionDiscipline` (`NeverAborts`) and `EveryEntryInserted`
(`EveryEntryOnce`). The invariant says when a transaction is open: in the middle of an
entry always, between entries exactly if `record_count` is not at a boundary
(`TxnInv`); and that the names of table and transaction count up to the entry read
(`NamesInv`). `TransactionsFull` (`BatchesFull`) adds the lengths (`BatchInv`): table and refused
rows are each a multiple of a full transaction while the file is read, and the rows of
the open one are those beyond the last boundary. `ColumnsOwn` (`ColumnsCoherent`) adds what a row
holds (`ColumnInv`): columns of its own entry alone, the last row being that of the entry
at hand, with its version by SRCREV exactly as the keys read so far say (`VersionBy`).

`HwScanProofs`, for any number of daemons, any names and any order of the manifest and of
the rows: `ScanSound` (`ScanIsCanFind`), which justifies `SysdRun`'s scan in one step,
`NamesakesOnly` (`OnlyNamesakesHide`) and `WaitingIsFor` (`WaitsForSomeone`). The invariant
says what the locals mean in the middle of a scan (`ScanInv`): unless `not_set`, each
daemon of `daemons[]` before index `i` that some row stands for has a row that is done
(`Recorded`); and what the phases before it leave (`PhaseInv`): `daemons[]` is the whole
manifest, `num_hw_daemons` is zero exactly without h/w daemons, and the rows are all or
none. That the row at which the inner loop stops may stand for the daemon (`FirstMatch`)
rests on the well-foundedness of `<`. `ScanTypes` (`TypeOK`) needs more than types
(`CountInv`): `daemons[]` names nobody twice, so that its h/w places are as many as the h/w
daemons at most and the dump stays inside the array; and `num_found` is at most the
number of h/w places passed (`HwSeen`).

`BootProofs`, for any directories and any number of crashes and image updates: `BootTypes`,
`LoopIsReady` (`ReadyInLoop`) and `FailuresHaveCauses` (`FailsForCause`). The invariant: behind each
stage of `main()`, what the stage has read or made is of this boot (`LinkInv`, `MemoryInv`,
`LedInv`); an old link outlives `unlink()` only where the directory cannot be written, which
the stages after it report.

`SplitPortsProofs`, for any number of ports in any order: `ReferencesAreRows`, `SplitsAreMutual`.
The invariant says what every row is in the middle of the second pass (`RowOf`): as
inserted before the pass comes to it, then what `Refer` makes of a blank row and the
collected names. That the pass never comes to a row twice rests on distinct names.

`InitialPushProofs`: `Composition`, `Spec => Fru!Spec /\ Split!Spec /\ Rel!Spec /\ Qos!Spec`, one case
per action of the push: it is a step of one part, and leaves the variables of the others
alone. Every invariant of the run `push` is proved through it, for every description:

* `PushRefersToRows` (`ReferencesExist`) and `PushSplitsMutually` (`SplitMutual`) carry the theorems
  of `SplitPortsProofs` over to the push.
* `AcceptedAreIntact` (`AcceptedMeansIntact`): the fields are those of the last TLV of each kind
  read so far, and what was read is legal (`ReadInv`).
* `PoolIsAccounted` (`PoolAccounted`), for any width of a byte: the addresses taken are the
  first of the pool and the rest begins behind them (`PoolInv`). The pool's size is
  a `uint16_t`, less than the `Byte^6` addresses at which strings wrap, so no two of the pool
  have one string (lemmas `ModOnce`, `PoolFacts`).
* `VersionIsReleased` (`VersionAsReleased`): `version_id` and `build_id` are those of the last line
  of their name (`RelInv`).
* `PartsAreWhole` (`PartsWhole`): which rows stand after each call (`RowsInv`).
* `PushDescribesQueues`, `PushDescribesSchedules` and `PushCopiesDefaults`, from `QosInitProofs`.
* `PushTypes` (`TypeOK`), from all of these.

`QosInitProofs`, for any lists of entries, in any order and with repetitions. The invariant
gives every profile row in closed form: what the entries before the pass's counter make
of it (`PartQueues`, `PartSchedules`), what all of them make of it, and, where both profiles
have one name, what the second pass over finished rows makes of them (`AgainQueues`). Its
theorems have the hypothesis `NullIsNoRow`, NULL being no row; `RowsAssumption` of
`InitialPush` provides it.

`TimezoneCliProofs`, for any number of sessions, users and zones, any directories: `TimezoneTypes`,
`ZoneIsAFile` (`ZoneExists`), `ConfigRestores` (`RunningConfigRestores`) and `ReportsFresh`
(`ShownIsFresh`). The invariant: a session's list holds zones with
their lower case, each once (`ListInv`), so that the translation of a name finds the one
zone it belongs to (lemma `TranslateFinds`); a transaction under way sets such a zone
(`CommitInv`); and every report in the file was made under every command that may still
read it and has removed the file (`FreshInv`).

So every invariant and every action property of a passing run is also proved, under the
hypotheses named. Assumptions on constants: those on names, counts and files of section 2,
each in the module that declares the constant, and that the model value NULL, a NULL
pointer or an empty column, is none of the values it stands beside
(`DescriptionsAssumption`, `RowsAssumption`). The fault bounds are naturals and otherwise free.

Only model-checked, because the prover has no rules for fairness and `ENABLED`: the liveness
properties `CurHwFollows`, `SystemRowPushed` and `LocaltimeFollows`; and the absence of
deadlock. The three runs that find a violation are TLC's alone, too.

## 5. What is not modelled, and the plan

1. **Safety halves of liveness**: that a refused push is followed by a package commit that
   moves `seqno`, the fact on which `SystemRowPushed` rests, as an invariant with a proof.
2. **Manifest**: the JSON walk with its prefix comparisons of tags, as the source of
   `HwScan`'s array and of `Boot`'s input.

Not covered by any property: lengths of TLVs that are not the format's (`sysd_fru.c:68`), maps with
more entries than rows (`qos_init.c:480`), strings cut at the size of their buffers
(`sysd_ovsdb_if.c:99`, `:679`), the standby instance that spins without the lock
(`sysd_ovsdb_if.c:958`), the LED after a crash (`sysd.c:502`), of which no document says what
it ought to be, the base address of the simulated platform, whose last three bytes are drawn
anew each time so that the pool may run into the next vendor's range (`sysd_cfg_yaml.c:175`;
the model draws them too, the range is not a property), and REST's validation of every change of the
System row with the zone the row has (`opsplugins/system.py:57`), which refuses any change
while the column is empty.

Left out for good: the event log and VLOG (output only), the layout of dumps and show
commands, the generated OVSDB bindings and the YAML, JSON and CRC libraries, modelled by
their outcomes.

## 6. Running

    tlc -config MCTakeover.cfg MCSysdRun
    tlapm SysdRunProofs.tla

Runs and their modules are listed in `PROJECT.json`. `takeover`, `alone` and `push` take about a
minute each with two workers, `hw_scan` and `timezone` half a minute, the others seconds; the
proofs about five minutes from nothing.
