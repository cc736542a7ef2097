------------------------------ MODULE SysdRun ------------------------------
(***************************************************************************)
(* The main loop of ops-sysd (main() in src/sysd.c, sysd_run() in          *)
(* src/sysd_ovsdb_if.c) against the OVSDB server: the initial push of the  *)
(* System row, the detection that every h/w daemon has finished, the       *)
(* Package_Info table, the /etc/localtime link, and the wait for changes.  *)
(*                                                                         *)
(* Several instances of ops-sysd may run: they compete for the database    *)
(* lock "ops_sysd".  An instance works on an IDL replica of the database   *)
(* which lags it; a commit blocks and absorbs whatever other clients wrote *)
(* meanwhile.  A session may break, a commit may fail, an instance may     *)
(* crash, each a bounded number of times (MaxFaults).                      *)
(***************************************************************************)
EXTENDS Naturals, FiniteSets

CONSTANTS
    Procs,          \* instances of ops-sysd that may run
    NoProc,         \* the owner of a free lock
    Daemons,        \* daemons of image.manifest
    HwDaemons,      \* those with is_hw_handler
    SelfDone,       \* those whose row is born with cur_hw = 1: name "ops-sysd..."
    NameExtends,    \* NameExtends[d]: daemons whose name begins with d's name
    Zones,          \* time zones a client may configure
    DfltTimezone,   \* DFLT_TIMEZONE
    NoZone,         \* an empty timezone column
    NoLink,         \* there is no /etc/localtime
    Releases,       \* contents of /etc/os-release that name a release
    NoInfo,         \* os-release absent or without usable values; an empty column
    NBatches,       \* commits sysd_add_package_info() makes for version_detail.yaml
    MaxFaults       \* MaxFaults[k]: how often a fault of kind k may strike

FaultKinds == {"disconnect", "error", "oom", "crash", "file"}

ASSUME ProcsAssumption == IsFiniteSet(Procs) /\ NoProc \notin Procs

ASSUME DaemonsAssumption ==
    /\ IsFiniteSet(Daemons)
    /\ HwDaemons \subseteq Daemons
    /\ SelfDone \subseteq Daemons
    /\ NameExtends \in [Daemons -> SUBSET Daemons]
    /\ \A d \in Daemons : d \in NameExtends[d]

ASSUME ValuesAssumption ==
    /\ DfltTimezone \in Zones
    /\ NoZone \notin Zones
    /\ NoLink \notin Zones \cup {NoZone}
    /\ NoInfo \notin Releases
    /\ NBatches \in Nat
    /\ MaxFaults \in [FaultKinds -> Nat]

VARIABLES
    db,             \* the alerting contents of the database (see Contents)
    curHw,          \* System:cur_hw (and next_hw), a column without alert
    owner,          \* the holder of the lock "ops_sysd" at the server
    localtime,      \* the zone /etc/localtime links to
    osRelease,      \* what /etc/os-release says
    sess,           \* sess[p]: p's session with the server is alive
    unread,         \* unread[p]: an alerting update is queued on p's session
    idl,            \* idl[p]: p's replica of db
    hasLock,        \* hasLock[p]: ovsdb_idl_has_lock() of p
    ahead,          \* ahead[p]: ovsdb_idl_get_seqno() # idl_seqno
    pc,             \* where p is in main() and sysd_run()
    hwInitDone,     \* hw_init_done_set of p
    batch,          \* the next package batch p commits
    faults          \* faults so far, by kind

server  == <<db, curHw, owner>>
host    == <<localtime, osRelease>>
session == <<sess, unread, idl, hasLock, ahead>>
process == <<pc, hwInitDone, batch>>
vars    == <<server, host, session, process, faults>>

Batches == 1..NBatches

(***************************************************************************)
(* What the replica holds: the number of System rows, the Daemon rows, the *)
(* daemons whose row has cur_hw > 0, the time zone, how often each batch   *)
(* of packages is present, and the software info and version.              *)
(***************************************************************************)
Contents == [sys  : Nat,
             rows : SUBSET Daemons,
             done : SUBSET Daemons,
             tz   : Zones \cup {NoZone},
             pkg  : [Batches -> Nat],
             sw   : Releases \cup {NoInfo}]

NoPackages == [b \in Batches |-> 0]

EmptyDb == [sys |-> 0, rows |-> {}, done |-> {}, tz |-> NoZone,
            pkg |-> NoPackages, sw |-> NoInfo]

Links == Zones \cup {NoLink}

\* Program points: sysd_run() from its ovsdb_idl_run() on, each blocking commit,
\* the two system calls on /etc/localtime, and the tail of the main loop.
Working == {"push", "pushpart", "sethw", "pkg", "batch", "tz", "link"}
PCs     == Working \cup {"down", "run", "check", "wait", "blocked"}

Up(p) == pc[p] # "down"

MayFail(k) == faults[k] < MaxFaults[k]
Strike(k)  == MayFail(k) /\ faults' = [faults EXCEPT ![k] = @ + 1]

Goto(p, l) == pc' = [pc EXCEPT ![p] = l]

TypeOK ==
    /\ db \in Contents
    /\ curHw \in {0, 1}
    /\ owner \in Procs \cup {NoProc}
    /\ localtime \in Links
    /\ osRelease \in Releases \cup {NoInfo}
    /\ sess \in [Procs -> BOOLEAN]
    /\ unread \in [Procs -> BOOLEAN]
    /\ idl \in [Procs -> Contents]
    /\ hasLock \in [Procs -> BOOLEAN]
    /\ ahead \in [Procs -> BOOLEAN]
    /\ pc \in [Procs -> PCs]
    /\ hwInitDone \in [Procs -> BOOLEAN]
    /\ batch \in [Procs -> Nat]
    /\ faults \in [FaultKinds -> Nat]

Init ==
    /\ db = EmptyDb
    /\ curHw = 0
    /\ owner = NoProc
    /\ localtime \in Links
    /\ osRelease \in Releases \cup {NoInfo}
    /\ sess = [p \in Procs |-> FALSE]
    /\ unread = [p \in Procs |-> FALSE]
    /\ idl = [p \in Procs |-> EmptyDb]
    /\ hasLock = [p \in Procs |-> FALSE]
    /\ ahead = [p \in Procs |-> FALSE]
    /\ pc = [p \in Procs |-> "down"]
    /\ hwInitDone = [p \in Procs |-> FALSE]
    /\ batch = [p \in Procs |-> 1]
    /\ faults = [k \in FaultKinds |-> 0]

-----------------------------------------------------------------------------
(***************************************************************************)
(* The OVSDB server and the IDL, as the code uses them.                    *)
(***************************************************************************)

\* The server gives p's lock to an instance that waits for it, if there is one.
Release(p) ==
    LET waiting == {q \in Procs \ {p} : sess[q]} IN
    IF owner = p
    THEN owner' \in (IF waiting = {} THEN {NoProc} ELSE waiting)
    ELSE owner' = owner

\* The session of p ends: its lock is released, its queued updates are gone.
\* p itself notices when it next uses the session.
Drop(p) ==
    /\ sess' = [sess EXCEPT ![p] = FALSE]
    /\ unread' = [unread EXCEPT ![p] = FALSE]
    /\ Release(p)

\* Queue an update on every session but p's own.
Notify(p) == unread' = [q \in Procs |-> IF q = p THEN FALSE ELSE unread[q] \/ sess[q]]

\* Queue an update written by another client on every session.
NotifyAll == unread' = [q \in Procs |-> unread[q] \/ sess[q]]

\* The replica of p takes over the database; seqno moves on an alerting change.
Absorb(p, alert) ==
    /\ idl' = [idl EXCEPT ![p] = db']
    /\ ahead' = [ahead EXCEPT ![p] = @ \/ unread[p] \/ alert]

\* ovsdb_idl_txn_commit_block() succeeds: the reply arrives after every update
\* the server made before it.  new is the database after it, hw the cur_hw column.
CommitOk(p, new, hw) ==
    /\ sess[p]
    /\ hasLock[p]
    /\ db' = new
    /\ curHw' = hw
    /\ IF new = db THEN unread' = [unread EXCEPT ![p] = FALSE] ELSE Notify(p)
    /\ Absorb(p, new # db)
    /\ UNCHANGED <<owner, sess, hasLock, faults>>

\* The server refuses the transaction (TXN_ERROR); updates before it are read.
CommitError(p) ==
    /\ sess[p]
    /\ hasLock[p]
    /\ Strike("error")
    /\ unread' = [unread EXCEPT ![p] = FALSE]
    /\ idl' = [idl EXCEPT ![p] = db]
    /\ ahead' = [ahead EXCEPT ![p] = @ \/ unread[p]]
    /\ UNCHANGED <<server, sess, hasLock>>

\* The server applies the transaction and the session breaks before the reply.
CommitLost(p, new, hw) ==
    /\ sess[p]
    /\ hasLock[p]
    /\ Strike("disconnect")
    /\ db' = new
    /\ curHw' = hw
    /\ sess' = [sess EXCEPT ![p] = FALSE]
    /\ IF new = db THEN unread' = [unread EXCEPT ![p] = FALSE] ELSE Notify(p)
    /\ Release(p)
    /\ UNCHANGED <<idl, hasLock, ahead>>

\* The session is already gone: TXN_TRY_AGAIN or TXN_NOT_LOCKED, nothing happens.
CommitDead(p) ==
    /\ ~(sess[p] /\ hasLock[p])
    /\ UNCHANGED <<server, session, faults>>

Commit(p, new, hw) ==
    \/ CommitOk(p, new, hw)
    \/ CommitError(p)
    \/ CommitLost(p, new, hw)
    \/ CommitDead(p)

-----------------------------------------------------------------------------
(***************************************************************************)
(* An instance of ops-sysd.                                                *)
(***************************************************************************)

\* main() has come through its initialisation and enters its loop; the IDL
\* exists but is not connected, idl_seqno equals its seqno.
Start(p) ==
    /\ pc[p] = "down"
    /\ Goto(p, "run")
    /\ idl' = [idl EXCEPT ![p] = EmptyDb]
    /\ hasLock' = [hasLock EXCEPT ![p] = FALSE]
    /\ ahead' = [ahead EXCEPT ![p] = FALSE]
    /\ hwInitDone' = [hwInitDone EXCEPT ![p] = FALSE]
    /\ batch' = [batch EXCEPT ![p] = 1]
    /\ UNCHANGED <<server, host, sess, unread, faults>>

\* ovsdb_idl_run() on a live session: updates and a granted lock are delivered.
IdlRun(p) ==
    /\ pc[p] = "run"
    /\ sess[p]
    /\ Goto(p, "check")
    /\ idl' = [idl EXCEPT ![p] = db]
    /\ unread' = [unread EXCEPT ![p] = FALSE]
    /\ hasLock' = [hasLock EXCEPT ![p] = (owner = p)]
    /\ ahead' = [ahead EXCEPT ![p] = @ \/ unread[p] \/ (owner = p /\ ~hasLock[p])]
    /\ UNCHANGED <<server, host, sess, hwInitDone, batch, faults>>

\* Faulty variant: ovsdb_idl_set_lock() is not called, the lock counts as held.
IdlConnectWithoutLock(p) ==
    /\ pc[p] = "run"
    /\ ~sess[p]
    /\ Goto(p, "check")
    /\ sess' = [sess EXCEPT ![p] = TRUE]
    /\ idl' = [idl EXCEPT ![p] = db]
    /\ hasLock' = [hasLock EXCEPT ![p] = TRUE]
    /\ ahead' = [ahead EXCEPT ![p] = TRUE]
    /\ UNCHANGED <<server, host, unread, hwInitDone, batch, faults>>

\* Faulty variant: idl_seqno is sampled after the connection is made.
IdlConnectUnseen(p) ==
    /\ pc[p] = "run"
    /\ ~sess[p]
    /\ Goto(p, "check")
    /\ sess' = [sess EXCEPT ![p] = TRUE]
    /\ owner' = IF owner = NoProc THEN p ELSE owner
    /\ idl' = [idl EXCEPT ![p] = db]
    /\ hasLock' = [hasLock EXCEPT ![p] = (owner' = p)]
    /\ UNCHANGED <<db, curHw, host, unread, ahead, hwInitDone, batch, faults>>

\* ovsdb_idl_run() (re)connects: the lock is requested anew, the database read.
IdlConnect(p) ==
    /\ pc[p] = "run"
    /\ ~sess[p]
    /\ Goto(p, "check")
    /\ sess' = [sess EXCEPT ![p] = TRUE]
    /\ owner' = IF owner = NoProc THEN p ELSE owner
    /\ idl' = [idl EXCEPT ![p] = db]
    /\ hasLock' = [hasLock EXCEPT ![p] = (owner' = p)]
    /\ ahead' = [ahead EXCEPT ![p] = TRUE]
    /\ UNCHANGED <<db, curHw, host, unread, hwInitDone, batch, faults>>

\* ovsdb_idl_run() cannot connect: what p knew of the database and of the lock stays.
IdlUnreachable(p) ==
    /\ pc[p] = "run"
    /\ ~sess[p]
    /\ Strike("disconnect")
    /\ Goto(p, "check")
    /\ UNCHANGED <<server, host, session, hwInitDone, batch>>

\* Lock contended or not held: sysd_run() returns, idl_seqno stays behind.
ReturnWithoutLock(p) ==
    /\ pc[p] = "check"
    /\ ~hasLock[p]
    /\ Goto(p, "wait")
    /\ UNCHANGED <<server, host, session, hwInitDone, batch, faults>>

\* seqno has not moved: nothing to do.
ReturnUnchanged(p) ==
    /\ pc[p] = "check"
    /\ hasLock[p]
    /\ ~ahead[p]
    /\ Goto(p, "wait")
    /\ UNCHANGED <<server, host, session, hwInitDone, batch, faults>>

\* The lock is held and seqno has moved; idl_seqno catches up with it.
SeeChange(p) ==
    /\ pc[p] = "check"
    /\ hasLock[p]
    /\ ahead[p]
    /\ ahead' = [ahead EXCEPT ![p] = FALSE]
    /\ UNCHANGED <<server, host, sess, unread, idl, hasLock, hwInitDone, batch>>

\* cfg == NULL, the replica has no System row.
NotConfigured(p) == idl[p].sys = 0

\* sysd_update_sw_info() would change a column of the row.
SwInfoDiffers(p) == osRelease # NoInfo /\ osRelease # idl[p].sw

\* Rows the scan of sysd_chk_if_hw_daemons_done() may stop at for daemon d:
\* strncmp() over the length of d's own name, in the order of the row hash.
MatchingRows(p, d) == idl[p].rows \cap HwDaemons \cap NameExtends[d]

\* Faulty variant: one daemon that is done is enough, not_set is ignored.
CanFindOneDone(p) ==
    \/ HwDaemons = {}
    \/ \E d \in HwDaemons : MatchingRows(p, d) \cap idl[p].done # {}

\* Faulty variant: a daemon counts as done once its row exists.
CanFindAllRows(p) ==
    \/ HwDaemons = {}
    \/ \A d \in HwDaemons : MatchingRows(p, d) # {}

\* The scan can end with not_set clear and num_found positive.
CanFindAllDone(p) ==
    \/ HwDaemons = {}
    \/ /\ \E d \in HwDaemons : MatchingRows(p, d) # {}
       /\ \A d \in HwDaemons : MatchingRows(p, d) # {} =>
                                   MatchingRows(p, d) \cap idl[p].done # {}

\* The scan can end with not_set, or with num_found zero.
CanFindNotDone(p) ==
    /\ HwDaemons # {}
    /\ \/ \A d \in HwDaemons : MatchingRows(p, d) = {}
       \/ \E d \in HwDaemons : MatchingRows(p, d) \ idl[p].done # {}

\* No System row yet: build the transaction of sysd_initial_configure().
Configure(p) ==
    /\ SeeChange(p)
    /\ NotConfigured(p)
    /\ Goto(p, "push")
    /\ UNCHANGED faults

\* A calloc() fails there: it returns before the Daemon rows, with the System
\* row in the transaction, and the caller commits what there is.
ConfigurePartly(p) ==
    /\ SeeChange(p)
    /\ NotConfigured(p)
    /\ Goto(p, "pushpart")
    /\ Strike("oom")

\* The release file has changed since the row was written: the columns are
\* written with no transaction open, which the IDL cannot do; the process dies.
WriteWithoutTxn(p) ==
    /\ pc[p] = "check"
    /\ hasLock[p]
    /\ ahead[p]
    /\ ~NotConfigured(p)
    /\ SwInfoDiffers(p)
    /\ Goto(p, "down")
    /\ Drop(p)
    /\ UNCHANGED <<db, curHw, host, idl, hasLock, ahead, hwInitDone, batch, faults>>

\* A System row is there and every h/w daemon has reported.
FindAllDone(p) ==
    /\ SeeChange(p)
    /\ ~NotConfigured(p)
    /\ ~SwInfoDiffers(p)
    /\ ~hwInitDone[p]
    /\ CanFindAllDone(p)
    /\ Goto(p, "sethw")
    /\ UNCHANGED faults

\* A System row is there; the flag is set already or a daemon is missing.
FindNotDone(p) ==
    /\ SeeChange(p)
    /\ ~NotConfigured(p)
    /\ ~SwInfoDiffers(p)
    /\ hwInitDone[p] \/ CanFindNotDone(p)
    /\ Goto(p, "pkg")
    /\ UNCHANGED faults

\* The database with what sysd_initial_configure() adds.
Configured(full) ==
    IF full
    THEN [sys |-> db.sys + 1, rows |-> Daemons, done |-> SelfDone,
          tz |-> DfltTimezone, pkg |-> db.pkg, sw |-> osRelease]
    ELSE [db EXCEPT !.sys = @ + 1]

\* Commit of the initial push; its status is only logged.
Push(p) ==
    /\ pc[p] \in {"push", "pushpart"}
    /\ Commit(p, Configured(pc[p] = "push"), curHw)
    /\ Goto(p, "pkg")
    /\ UNCHANGED <<host, hwInitDone, batch>>

\* Faulty variant: cur_hw is counted up instead of being set to 1.
SetHwDoneCounting(p) ==
    /\ pc[p] = "sethw"
    /\ Commit(p, db, curHw + 1)
    /\ hwInitDone' = [hwInitDone EXCEPT ![p] = TRUE]
    /\ Goto(p, "pkg")
    /\ UNCHANGED <<host, batch>>

\* Faulty variant: the row's cur_hw is left alone.
SetHwDoneFlagOnly(p) ==
    /\ pc[p] = "sethw"
    /\ Commit(p, db, curHw)
    /\ hwInitDone' = [hwInitDone EXCEPT ![p] = TRUE]
    /\ Goto(p, "pkg")
    /\ UNCHANGED <<host, batch>>

\* sysd_set_hw_done(): every System row of the replica gets cur_hw = next_hw = 1;
\* hw_init_done_set becomes true whatever the commit's status.
SetHwDone(p) ==
    /\ pc[p] = "sethw"
    /\ Commit(p, db, 1)
    /\ hwInitDone' = [hwInitDone EXCEPT ![p] = TRUE]
    /\ Goto(p, "pkg")
    /\ UNCHANGED <<host, batch>>

\* Package_Info has rows already, or version_detail.yaml yields none.
SkipPackages(p) ==
    /\ pc[p] = "pkg"
    /\ idl[p].pkg # NoPackages \/ NBatches = 0
    /\ Goto(p, "tz")
    /\ UNCHANGED <<server, host, session, hwInitDone, batch, faults>>

\* Faulty variant: no test of the table.
BeginPackagesAlways(p) ==
    /\ pc[p] = "pkg"
    /\ NBatches > 0
    /\ batch' = [batch EXCEPT ![p] = 1]
    /\ Goto(p, "batch")
    /\ UNCHANGED <<server, host, session, hwInitDone, faults>>

\* The table is empty in the replica: sysd_add_package_info() starts.
BeginPackages(p) ==
    /\ pc[p] = "pkg"
    /\ idl[p].pkg = NoPackages
    /\ NBatches > 0
    /\ batch' = [batch EXCEPT ![p] = 1]
    /\ Goto(p, "batch")
    /\ UNCHANGED <<server, host, session, hwInitDone, faults>>

\* One commit of PKG_INFO_ENTRIES_PER_COMMIT rows; a failure is logged and the
\* next batch follows.
AddPackages(p) ==
    /\ pc[p] = "batch"
    /\ Commit(p, [db EXCEPT !.pkg[batch[p]] = @ + 1], curHw)
    /\ batch' = [batch EXCEPT ![p] = @ + 1]
    /\ Goto(p, IF batch[p] < NBatches THEN "batch" ELSE "tz")
    /\ UNCHANGED <<host, hwInitDone>>

\* sysd_handle_timezone_update() finds no System row, or no zone in it (a push cut
\* short by calloc() leaves the column empty): it returns, the link stays as it is.
NoTimezone(p) ==
    /\ pc[p] = "tz"
    /\ NotConfigured(p) \/ idl[p].tz = NoZone
    /\ Goto(p, "wait")
    /\ UNCHANGED <<server, host, session, hwInitDone, batch, faults>>

\* Faulty variant: the old link is not removed.
KeepLocaltime(p) ==
    /\ pc[p] = "tz"
    /\ ~NotConfigured(p)
    /\ idl[p].tz # NoZone
    /\ Goto(p, "link")
    /\ UNCHANGED <<server, host, session, hwInitDone, batch, faults>>

\* unlink("/etc/localtime")
UnlinkLocaltime(p) ==
    /\ pc[p] = "tz"
    /\ ~NotConfigured(p)
    /\ idl[p].tz # NoZone
    /\ localtime' = NoLink
    /\ Goto(p, "link")
    /\ UNCHANGED <<server, osRelease, session, hwInitDone, batch, faults>>

\* Faulty variant: sysd_run() takes the seqno when it returns, after its commits.
LinkAndTakeSeqno(p) ==
    /\ pc[p] = "link"
    /\ localtime' = IF localtime = NoLink THEN idl[p].tz ELSE localtime
    /\ Goto(p, "wait")
    /\ ahead' = [ahead EXCEPT ![p] = FALSE]
    /\ UNCHANGED <<server, osRelease, sess, unread, idl, hasLock, hwInitDone, batch, faults>>

\* symlink() to the zone of the replica; it fails if the link is there again.
LinkLocaltime(p) ==
    /\ pc[p] = "link"
    /\ localtime' = IF localtime = NoLink THEN idl[p].tz ELSE localtime
    /\ Goto(p, "wait")
    /\ UNCHANGED <<server, osRelease, session, hwInitDone, batch, faults>>

\* Tail of the loop: run again at once if seqno moved since sysd_run() looked.
LoopAgain(p) ==
    /\ pc[p] = "wait"
    /\ ahead[p]
    /\ Goto(p, "run")
    /\ UNCHANGED <<server, host, session, hwInitDone, batch, faults>>

\* Faulty variant: poll_block() without a second look at seqno.
BlockAlways(p) ==
    /\ pc[p] = "wait"
    /\ Goto(p, "blocked")
    /\ UNCHANGED <<server, host, session, hwInitDone, batch, faults>>

\* Otherwise poll_block().
Block(p) ==
    /\ pc[p] = "wait"
    /\ ~ahead[p]
    /\ Goto(p, "blocked")
    /\ UNCHANGED <<server, host, session, hwInitDone, batch, faults>>

\* poll_block() returns: the session has something to read, or is to be remade.
Wake(p) ==
    /\ pc[p] = "blocked"
    /\ unread[p] \/ ~sess[p] \/ (owner = p /\ ~hasLock[p])
    /\ Goto(p, "run")
    /\ UNCHANGED <<server, host, session, hwInitDone, batch, faults>>

\* poll_block() returns for an ovs-appctl command or an update without alert.
WakeOther(p) ==
    /\ pc[p] = "blocked"
    /\ Goto(p, "run")
    /\ UNCHANGED <<server, host, session, hwInitDone, batch, faults>>

\* ovs-appctl exit, served by unixctl_server_run() after sysd_run().
Exit(p) ==
    /\ pc[p] = "wait"
    /\ Goto(p, "down")
    /\ Drop(p)
    /\ UNCHANGED <<db, curHw, host, idl, hasLock, ahead, hwInitDone, batch, faults>>

-----------------------------------------------------------------------------
(***************************************************************************)
(* Faults and the other clients of the database.                           *)
(***************************************************************************)

Crash(p) ==
    /\ Up(p)
    /\ Strike("crash")
    /\ Goto(p, "down")
    /\ Drop(p)
    /\ UNCHANGED <<db, curHw, host, idl, hasLock, ahead, hwInitDone, batch>>

Disconnect(p) ==
    /\ sess[p]
    /\ Strike("disconnect")
    /\ Drop(p)
    /\ UNCHANGED <<db, curHw, host, idl, hasLock, ahead, process>>

\* A platform daemon sets cur_hw = 1 in its row of the Daemon table.
HwDaemonDone(d) ==
    /\ d \in db.rows \ db.done
    /\ db' = [db EXCEPT !.done = @ \cup {d}]
    /\ NotifyAll
    /\ UNCHANGED <<curHw, owner, host, sess, idl, hasLock, ahead, process, faults>>

\* The CLI or REST sets System:timezone.
SetTimezone(z) ==
    /\ db.sys > 0
    /\ db.tz # z
    /\ db' = [db EXCEPT !.tz = z]
    /\ NotifyAll
    /\ UNCHANGED <<curHw, owner, host, sess, idl, hasLock, ahead, process, faults>>

\* /etc/os-release is replaced.
ReplaceOsRelease(r) ==
    /\ r # osRelease
    /\ Strike("file")
    /\ osRelease' = r
    /\ UNCHANGED <<server, localtime, session, process>>

\* The steps an instance takes by itself once it is up.
Step(p) ==
    \/ IdlRun(p) \/ IdlConnect(p) \/ IdlUnreachable(p)
    \/ ReturnWithoutLock(p) \/ ReturnUnchanged(p)
    \/ Configure(p) \/ ConfigurePartly(p) \/ WriteWithoutTxn(p) \/ FindAllDone(p) \/ FindNotDone(p)
    \/ Push(p) \/ SetHwDone(p)
    \/ SkipPackages(p) \/ BeginPackages(p) \/ AddPackages(p)
    \/ NoTimezone(p) \/ UnlinkLocaltime(p) \/ LinkLocaltime(p)
    \/ LoopAgain(p) \/ Block(p) \/ Wake(p)

Next ==
    \/ \E p \in Procs :
          Step(p) \/ Start(p) \/ WakeOther(p) \/ Exit(p) \/ Crash(p) \/ Disconnect(p)
    \/ \E d \in Daemons : HwDaemonDone(d)
    \/ \E z \in Zones : SetTimezone(z)
    \/ \E r \in Releases \cup {NoInfo} : ReplaceOsRelease(r)

Spec == Init /\ [][Next]_vars

\* An instance that is up keeps running; nobody has to start, stop or configure.
FairSpec == Spec /\ \A p \in Procs : WF_vars(Step(p))

-----------------------------------------------------------------------------
(***************************************************************************)
(* Safety.                                                                 *)
(***************************************************************************)

\* No daemon name is a prefix of another's, so that strncmp() is equality.
PrefixFree == \A d \in Daemons : NameExtends[d] = {d}

\* However instances, restarts and broken sessions interleave, the System row is
\* inserted once: the "cfg == NULL" of sysd_run() is never stale when committed.
OneSystemRow == db.sys <= 1

\* No package is inserted twice, although the test for an empty Package_Info is
\* made once and several commits, each of which may fail, follow it.
PackagesOnce == \A b \in Batches : db.pkg[b] <= 1

\* cur_hw = 1, on which the configuration daemon acts, means that every h/w daemon
\* of the manifest has set cur_hw in its row.
CurHwImpliesAllDone == curHw = 1 => HwDaemons \subseteq db.done

\* hw_init_done_set, after which an instance never looks at the Daemon table again: it
\* is true only when every h/w daemon has reported, and cur_hw is then set unless the
\* server refused a commit or a session broke (the status that line 853 does not read).
FlagTruthful ==
    \A p \in Procs : hwInitDone[p] =>
        /\ HwDaemons \subseteq db.done
        /\ curHw = 1 \/ faults["error"] > 0 \/ faults["disconnect"] > 0

AllHwReported == db.sys > 0 /\ HwDaemons \subseteq db.done

\* p sleeps in poll_block() as the lock holder with nothing left to read.
Settled(p) == pc[p] = "blocked" /\ sess[p] /\ hasLock[p] /\ ~unread[p]

\* No lost wake-up: an instance that sleeps has acted on everything in the database.
\* Its replica is current, the System row is pushed (unless the server refused it),
\* and reports of all h/w daemons have been noticed.
SettledIsServed ==
    \A p \in Procs : Settled(p) =>
        /\ idl[p] = db
        /\ db.sys > 0 \/ faults["error"] > 0
        /\ AllHwReported => hwInitDone[p]

\* The same for the time zone, when one instance alone manages the link: a zone set
\* while sysd was inside a commit is linked before it sleeps.  (For an empty column
\* nothing is promised: the code leaves whatever link there is.)
SettledIsLinked ==
    \A p \in Procs : Settled(p) /\ db.sys > 0 /\ db.tz # NoZone => localtime = db.tz

\* The abstract view of the daemons' reports and of cur_hw.
Abstract == INSTANCE HwInit
                WITH reported <- db.done \cap HwDaemons, ready <- (curHw = 1)

\* The main loop implements the promise of cur_hw.
HwInitImplemented == Abstract!Spec

\* When sysd_run() has seen a change and found the System row, the row names the
\* release of /etc/os-release.
SwInfoUpdated ==
    [][\A p \in Procs :
          /\ pc[p] = "check" /\ pc'[p] # "check"
          /\ sess[p] /\ hasLock[p] /\ ahead[p] /\ ~NotConfigured(p)
          /\ osRelease # NoInfo
          => db'.sw = osRelease]_vars

-----------------------------------------------------------------------------
(***************************************************************************)
(* Liveness, for runs in which some instance stays up from some time on.   *)
(***************************************************************************)
StaysUp == \E p \in Procs : <>[]Up(p)

\* The System row gets into the database, across disconnections, crashes and
\* take-overs by another instance.
SystemRowPushed == StaysUp => <>(db.sys > 0)

\* When all h/w daemons have reported, cur_hw is set.
CurHwFollows == StaysUp => (AllHwReported ~> curHw = 1)

\* Every package of version_detail.yaml gets into Package_Info.
PackagesComplete == StaysUp => <>(\A b \in Batches : db.pkg[b] > 0)

\* /etc/localtime ends up at the zone that stays configured.
LocaltimeFollows ==
    StaysUp => \A z \in Zones : <>[](db.sys > 0 /\ db.tz = z) => <>[](localtime = z)
=============================================================================
