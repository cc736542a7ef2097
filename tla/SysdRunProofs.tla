--------------------------- MODULE SysdRunProofs ---------------------------
(***************************************************************************)
(* Proofs about SysdRun, for any number of instances, daemons, zones,      *)
(* package batches and faults.                                             *)
(***************************************************************************)
EXTENDS SysdRun, TLAPS

-----------------------------------------------------------------------------
(***************************************************************************)
(* Type correctness.                                                       *)
(***************************************************************************)

\* What the types of the server, of the sessions and of the fault counters need.
ServerTypeOK ==
    /\ db \in Contents
    /\ curHw \in {0, 1}
    /\ owner \in Procs \cup {NoProc}

SessionTypeOK ==
    /\ sess \in [Procs -> BOOLEAN]
    /\ unread \in [Procs -> BOOLEAN]
    /\ idl \in [Procs -> Contents]
    /\ hasLock \in [Procs -> BOOLEAN]
    /\ ahead \in [Procs -> BOOLEAN]

ProcessTypeOK ==
    /\ pc \in [Procs -> PCs]
    /\ hwInitDone \in [Procs -> BOOLEAN]
    /\ batch \in [Procs -> Nat]

HostTypeOK ==
    /\ localtime \in Links
    /\ osRelease \in Releases \cup {NoInfo}

FaultTypeOK == faults \in [FaultKinds -> Nat]

\* The batch that is being committed is one of the file's.
BatchInRange == \A p \in Procs : pc[p] = "batch" => batch[p] \in Batches

\* The link that is being made is to a zone: an empty column never gets that far.
LinkTarget == \A p \in Procs : pc[p] = "link" => idl[p].tz \in Zones

TypeInv ==
    /\ ServerTypeOK
    /\ SessionTypeOK
    /\ ProcessTypeOK
    /\ HostTypeOK
    /\ FaultTypeOK
    /\ BatchInRange
    /\ LinkTarget

\* The empty database is a possible content.
LEMMA EmptyDbType == EmptyDb \in Contents
  BY ValuesAssumption DEF EmptyDb, Contents, NoPackages

\* The lock only ever goes to an instance or to nobody.
LEMMA ReleaseType ==
    ASSUME NEW p \in Procs, owner \in Procs \cup {NoProc}, Release(p)
    PROVE  owner' \in Procs \cup {NoProc}
  BY DEF Release

\* A counted fault keeps the counters natural numbers.
LEMMA StrikeType ==
    ASSUME FaultTypeOK, NEW k \in FaultKinds, Strike(k)
    PROVE  FaultTypeOK'
  BY DEF FaultTypeOK, Strike, MayFail

\* Whatever the outcome of a commit, server, session and counters keep their types.
LEMMA CommitType ==
    ASSUME ServerTypeOK, SessionTypeOK, FaultTypeOK,
           NEW p \in Procs, NEW new \in Contents, NEW hw \in {0, 1},
           Commit(p, new, hw)
    PROVE  ServerTypeOK' /\ SessionTypeOK' /\ FaultTypeOK'
  <1>1. CASE CommitOk(p, new, hw)
    BY <1>1 DEF CommitOk, Notify, Absorb, ServerTypeOK, SessionTypeOK, FaultTypeOK
  <1>2. CASE CommitError(p)
    <2>1. FaultTypeOK'
      BY <1>2, StrikeType DEF CommitError, FaultKinds
    <2>2. QED
      BY <1>2, <2>1 DEF CommitError, ServerTypeOK, SessionTypeOK, server
  <1>3. CASE CommitLost(p, new, hw)
    <2>1. FaultTypeOK'
      BY <1>3, StrikeType DEF CommitLost, FaultKinds
    <2>2. owner' \in Procs \cup {NoProc}
      BY <1>3, ReleaseType DEF CommitLost, ServerTypeOK
    <2>3. QED
      BY <1>3, <2>1, <2>2 DEF CommitLost, Notify, ServerTypeOK, SessionTypeOK
  <1>4. CASE CommitDead(p)
    BY <1>4 DEF CommitDead, ServerTypeOK, SessionTypeOK, FaultTypeOK, server, session
  <1>5. QED
    BY <1>1, <1>2, <1>3, <1>4 DEF Commit

\* The initial push yields a possible content of the database.
LEMMA ConfiguredType ==
    ASSUME ServerTypeOK, HostTypeOK, NEW full \in BOOLEAN
    PROVE  Configured(full) \in Contents
  <1>1. CASE full
    BY <1>1, DaemonsAssumption, ValuesAssumption
       DEF Configured, ServerTypeOK, HostTypeOK, Contents
  <1>2. CASE ~full
    BY <1>2 DEF Configured, ServerTypeOK, Contents
  <1>3. QED
    BY <1>1, <1>2

\* One more package batch does, too.
LEMMA BatchType ==
    ASSUME ServerTypeOK, NEW b \in Batches
    PROVE  [db EXCEPT !.pkg[b] = @ + 1] \in Contents
  <1>1. [db.pkg EXCEPT ![b] = @ + 1] \in [Batches -> Nat]
    BY DEF ServerTypeOK, Contents
  <1>2. QED
    BY <1>1 DEF ServerTypeOK, Contents

\* Goto moves to a program point other than "batch", or with a batch in range.
LEMMA GotoType ==
    ASSUME ProcessTypeOK, BatchInRange, NEW p \in Procs, NEW l \in PCs \ {"batch"},
           Goto(p, l), UNCHANGED <<hwInitDone, batch>>
    PROVE  ProcessTypeOK' /\ BatchInRange'
  BY DEF ProcessTypeOK, BatchInRange, Goto

\* The zone of the link to be made is that of the replica UnlinkLocaltime() saw: until
\* the link is made no step touches the replica.
LEMMA LinkTargetStep ==
    ASSUME TypeInv, [Next]_vars
    PROVE  LinkTarget'
  <1>1. ASSUME \A q \in Procs : pc'[q] = "link" => pc[q] = "link" /\ idl'[q] = idl[q]
        PROVE  LinkTarget'
    BY <1>1 DEF TypeInv, LinkTarget
  <1>2. ASSUME NEW p \in Procs, NEW l, Goto(p, l), l # "link",
               \A q \in Procs \ {p} : idl'[q] = idl[q]
        PROVE  LinkTarget'
    BY <1>1, <1>2 DEF Goto, TypeInv, ProcessTypeOK
  <1>3. ASSUME NEW p \in Procs, UnlinkLocaltime(p)
        PROVE  LinkTarget'
    <2>1. idl[p].tz \in Zones /\ UNCHANGED idl /\ Goto(p, "link")
      BY <1>3 DEF UnlinkLocaltime, session, TypeInv, SessionTypeOK, Contents
    <2>2. QED
      BY <2>1 DEF Goto, TypeInv, ProcessTypeOK, LinkTarget
  <1>4. ASSUME NEW p \in Procs, Push(p) \/ SetHwDone(p) \/ AddPackages(p)
        PROVE  LinkTarget'
    <2>1. PICK new, hw : Commit(p, new, hw)
      BY <1>4 DEF Push, SetHwDone, AddPackages
    <2>2. \A q \in Procs \ {p} : idl'[q] = idl[q]
      BY <2>1 DEF Commit, CommitOk, CommitError, CommitLost, CommitDead, Absorb, session,
                  TypeInv, SessionTypeOK
    <2>3. PICK l \in {"pkg", "batch", "tz"} : Goto(p, l)
      BY <1>4 DEF Push, SetHwDone, AddPackages
    <2>4. QED
      BY <1>2, <2>2, <2>3
  <1>5. ASSUME NEW p \in Procs, Start(p) \/ IdlRun(p) \/ IdlConnect(p)
        PROVE  LinkTarget'
    <2>1. \A q \in Procs \ {p} : idl'[q] = idl[q]
      BY <1>5 DEF Start, IdlRun, IdlConnect, TypeInv, SessionTypeOK
    <2>2. PICK l \in {"run", "check"} : Goto(p, l)
      BY <1>5 DEF Start, IdlRun, IdlConnect
    <2>3. QED
      BY <1>2, <2>1, <2>2
  <1>6. ASSUME NEW p \in Procs,
               IdlUnreachable(p) \/ ReturnWithoutLock(p) \/ ReturnUnchanged(p)
               \/ Configure(p) \/ ConfigurePartly(p) \/ WriteWithoutTxn(p)
               \/ FindAllDone(p) \/ FindNotDone(p) \/ SkipPackages(p)
               \/ BeginPackages(p) \/ NoTimezone(p) \/ LinkLocaltime(p)
               \/ LoopAgain(p) \/ Block(p) \/ Wake(p) \/ WakeOther(p) \/ Exit(p)
               \/ Crash(p)
        PROVE  LinkTarget'
    <2>1. UNCHANGED idl
      BY <1>6 DEF IdlUnreachable, ReturnWithoutLock, ReturnUnchanged, Configure,
                  ConfigurePartly, WriteWithoutTxn, FindAllDone, FindNotDone, SeeChange,
                  SkipPackages, BeginPackages, NoTimezone, LinkLocaltime, LoopAgain,
                  Block, Wake, WakeOther, Exit, Crash, session
    <2>2. PICK l \in PCs \ {"link"} : Goto(p, l)
      BY <1>6 DEF IdlUnreachable, ReturnWithoutLock, ReturnUnchanged, Configure,
                  ConfigurePartly, WriteWithoutTxn, FindAllDone, FindNotDone,
                  SkipPackages, BeginPackages, NoTimezone, LinkLocaltime, LoopAgain,
                  Block, Wake, WakeOther, Exit, Crash, PCs, Working
    <2>3. QED
      BY <1>2, <2>1, <2>2
  <1>7. ASSUME UNCHANGED <<pc, idl>>
        PROVE  LinkTarget'
    BY <1>7 DEF TypeInv, LinkTarget
  <1>8. ASSUME \/ \E p \in Procs : Disconnect(p)
               \/ \E d \in Daemons : HwDaemonDone(d)
               \/ \E z \in Zones : SetTimezone(z)
               \/ \E r \in Releases \cup {NoInfo} : ReplaceOsRelease(r)
               \/ UNCHANGED vars
        PROVE  LinkTarget'
    BY <1>7, <1>8 DEF Disconnect, HwDaemonDone, SetTimezone, ReplaceOsRelease, vars,
                      session, process
  <1>9. QED
    BY <1>3, <1>4, <1>5, <1>6, <1>8 DEF Next, Step

\* The types are preserved by every step of the system.
LEMMA TypeStep == TypeInv /\ [Next]_vars => TypeInv'
  <1> SUFFICES ASSUME TypeInv, [Next]_vars
               PROVE  TypeInv'
    OBVIOUS
  <1> DEFINE Types == /\ ServerTypeOK /\ SessionTypeOK /\ ProcessTypeOK
                      /\ HostTypeOK /\ FaultTypeOK /\ BatchInRange
  <1> USE DEF TypeInv
  <1>1. ASSUME NEW p \in Procs, Start(p)
        PROVE  Types'
    BY <1>1, EmptyDbType
       DEF Start, Goto, ServerTypeOK, SessionTypeOK, ProcessTypeOK, HostTypeOK,
           FaultTypeOK, BatchInRange, server, host, PCs, Working
  <1>2. ASSUME NEW p \in Procs, IdlRun(p)
        PROVE  Types'
    <2>1. ProcessTypeOK' /\ BatchInRange'
      BY <1>2, GotoType DEF IdlRun, PCs
    <2>2. QED
      BY <1>2, <2>1 DEF IdlRun, ServerTypeOK, SessionTypeOK, HostTypeOK, FaultTypeOK,
                        server, host
  <1>3. ASSUME NEW p \in Procs, IdlConnect(p)
        PROVE  Types'
    <2>1. ProcessTypeOK' /\ BatchInRange'
      BY <1>3, GotoType DEF IdlConnect, PCs
    <2>2. QED
      BY <1>3, <2>1 DEF IdlConnect, ServerTypeOK, SessionTypeOK, HostTypeOK, FaultTypeOK,
                        host
  <1>4. ASSUME NEW p \in Procs, IdlUnreachable(p)
        PROVE  Types'
    <2>1. ProcessTypeOK' /\ BatchInRange'
      BY <1>4, GotoType DEF IdlUnreachable, PCs
    <2>2. FaultTypeOK'
      BY <1>4, StrikeType DEF IdlUnreachable, FaultKinds
    <2>3. QED
      BY <1>4, <2>1, <2>2 DEF IdlUnreachable, ServerTypeOK, SessionTypeOK, HostTypeOK,
                              server, session, host
  <1>5. ASSUME NEW p \in Procs,
               ReturnWithoutLock(p) \/ ReturnUnchanged(p) \/ SkipPackages(p)
               \/ NoTimezone(p) \/ LoopAgain(p) \/ Block(p) \/ Wake(p) \/ WakeOther(p)
        PROVE  Types'
    <2>1. PICK l \in PCs \ {"batch"} : Goto(p, l)
      BY <1>5 DEF ReturnWithoutLock, ReturnUnchanged, SkipPackages, NoTimezone,
                  LoopAgain, Block, Wake, WakeOther, PCs, Working
    <2>2. UNCHANGED <<server, host, session, hwInitDone, batch, faults>>
      BY <1>5 DEF ReturnWithoutLock, ReturnUnchanged, SkipPackages, NoTimezone,
                  LoopAgain, Block, Wake, WakeOther
    <2>3. ProcessTypeOK' /\ BatchInRange'
      BY <2>1, <2>2, GotoType
    <2>4. QED
      BY <2>2, <2>3 DEF ServerTypeOK, SessionTypeOK, HostTypeOK, FaultTypeOK,
                        server, session, host
  <1>6. ASSUME NEW p \in Procs,
               Configure(p) \/ ConfigurePartly(p) \/ FindAllDone(p) \/ FindNotDone(p)
        PROVE  Types'
    <2>1. PICK l \in PCs \ {"batch"} : Goto(p, l)
      BY <1>6 DEF Configure, ConfigurePartly, FindAllDone, FindNotDone, PCs, Working
    <2>2. SeeChange(p)
      BY <1>6 DEF Configure, ConfigurePartly, FindAllDone, FindNotDone
    <2>3. FaultTypeOK'
      <3>1. CASE ConfigurePartly(p)
        BY <3>1, StrikeType DEF ConfigurePartly, FaultKinds
      <3>2. CASE UNCHANGED faults
        BY <3>2 DEF FaultTypeOK
      <3>3. QED
        BY <1>6, <3>1, <3>2 DEF Configure, FindAllDone, FindNotDone
    <2>4. ProcessTypeOK' /\ BatchInRange'
      BY <2>1, <2>2, GotoType DEF SeeChange
    <2>5. QED
      BY <2>2, <2>3, <2>4 DEF SeeChange, ServerTypeOK, SessionTypeOK, HostTypeOK,
                              server, host
  <1>7. ASSUME NEW p \in Procs, WriteWithoutTxn(p) \/ Exit(p) \/ Crash(p)
        PROVE  Types'
    <2>1. Goto(p, "down") /\ Drop(p)
          /\ UNCHANGED <<db, curHw, host, idl, hasLock, ahead, hwInitDone, batch>>
      BY <1>7 DEF WriteWithoutTxn, Exit, Crash
    <2>2. FaultTypeOK'
      <3>1. CASE Crash(p)
        BY <3>1, StrikeType DEF Crash, FaultKinds
      <3>2. CASE UNCHANGED faults
        BY <3>2 DEF FaultTypeOK
      <3>3. QED
        BY <1>7, <3>1, <3>2 DEF WriteWithoutTxn, Exit
    <2>3. ProcessTypeOK' /\ BatchInRange'
      BY <2>1, GotoType DEF PCs
    <2>4. owner' \in Procs \cup {NoProc}
      BY <2>1, ReleaseType DEF Drop, ServerTypeOK
    <2>5. QED
      BY <2>1, <2>2, <2>3, <2>4
         DEF Drop, ServerTypeOK, SessionTypeOK, HostTypeOK, host
  <1>8. ASSUME NEW p \in Procs, Push(p)
        PROVE  Types'
    <2>1. Configured(pc[p] = "push") \in Contents
      BY ConfiguredType
    <2>2. ServerTypeOK' /\ SessionTypeOK' /\ FaultTypeOK'
      BY <1>8, <2>1, CommitType DEF Push, ServerTypeOK
    <2>3. ProcessTypeOK' /\ BatchInRange'
      BY <1>8, GotoType DEF Push, PCs, Working
    <2>4. QED
      BY <1>8, <2>2, <2>3 DEF Push, HostTypeOK, host
  <1>9. ASSUME NEW p \in Procs, SetHwDone(p)
        PROVE  Types'
    <2>1. ServerTypeOK' /\ SessionTypeOK' /\ FaultTypeOK'
      BY <1>9, CommitType DEF SetHwDone, ServerTypeOK
    <2>2. QED
      BY <1>9, <2>1 DEF SetHwDone, Goto, ProcessTypeOK, BatchInRange, HostTypeOK, host,
                        PCs, Working
  <1>10. ASSUME NEW p \in Procs, BeginPackages(p)
         PROVE  Types'
    BY <1>10, ValuesAssumption
       DEF BeginPackages, Goto, ServerTypeOK, SessionTypeOK, ProcessTypeOK, HostTypeOK,
           FaultTypeOK, BatchInRange, server, host, session, PCs, Working, Batches
  <1>11. ASSUME NEW p \in Procs, AddPackages(p)
         PROVE  Types'
    <2>1. batch[p] \in Batches
      BY <1>11 DEF AddPackages, BatchInRange
    <2>2. ServerTypeOK' /\ SessionTypeOK' /\ FaultTypeOK'
      BY <1>11, <2>1, BatchType, CommitType DEF AddPackages, ServerTypeOK
    <2>3. ProcessTypeOK' /\ BatchInRange'
      BY <1>11, <2>1, ValuesAssumption
         DEF AddPackages, Goto, ProcessTypeOK, BatchInRange, PCs, Working, Batches
    <2>4. QED
      BY <1>11, <2>2, <2>3 DEF AddPackages, HostTypeOK, host
  <1>12. ASSUME NEW p \in Procs, UnlinkLocaltime(p) \/ LinkLocaltime(p)
         PROVE  Types'
    <2>1. PICK l \in PCs \ {"batch"} : Goto(p, l)
      BY <1>12 DEF UnlinkLocaltime, LinkLocaltime, PCs, Working
    <2>2. UNCHANGED <<server, osRelease, session, hwInitDone, batch, faults>>
      BY <1>12 DEF UnlinkLocaltime, LinkLocaltime
    <2>3. ProcessTypeOK' /\ BatchInRange'
      BY <2>1, <2>2, GotoType
    <2>4. localtime' \in Links
      BY <1>12 DEF UnlinkLocaltime, LinkLocaltime, LinkTarget, HostTypeOK, Links
    <2>5. QED
      BY <2>2, <2>3, <2>4 DEF ServerTypeOK, SessionTypeOK, HostTypeOK, FaultTypeOK,
                              server, session
  <1>13. ASSUME NEW p \in Procs, Disconnect(p)
         PROVE  Types'
    <2>1. owner' \in Procs \cup {NoProc}
      BY <1>13, ReleaseType DEF Disconnect, Drop, ServerTypeOK
    <2>2. FaultTypeOK'
      BY <1>13, StrikeType DEF Disconnect, FaultKinds
    <2>3. QED
      BY <1>13, <2>1, <2>2
         DEF Disconnect, Drop, ServerTypeOK, SessionTypeOK, ProcessTypeOK, HostTypeOK,
             BatchInRange, host, process
  <1>14. ASSUME NEW d \in Daemons, HwDaemonDone(d)
         PROVE  Types'
    BY <1>14 DEF HwDaemonDone, NotifyAll, ServerTypeOK, SessionTypeOK, ProcessTypeOK,
                 HostTypeOK, FaultTypeOK, BatchInRange, host, process, Contents
  <1>15. ASSUME NEW z \in Zones, SetTimezone(z)
         PROVE  Types'
    BY <1>15 DEF SetTimezone, NotifyAll, ServerTypeOK, SessionTypeOK, ProcessTypeOK,
                 HostTypeOK, FaultTypeOK, BatchInRange, host, process, Contents
  <1>16. ASSUME NEW r \in Releases \cup {NoInfo}, ReplaceOsRelease(r)
         PROVE  Types'
    <2>1. FaultTypeOK'
      BY <1>16, StrikeType DEF ReplaceOsRelease, FaultKinds
    <2>2. QED
      BY <1>16, <2>1 DEF ReplaceOsRelease, ServerTypeOK, SessionTypeOK, ProcessTypeOK,
                         HostTypeOK, BatchInRange, server, session, process
  <1>17. ASSUME UNCHANGED vars
         PROVE  Types'
    BY <1>17 DEF vars, server, host, session, process, ServerTypeOK, SessionTypeOK,
                 ProcessTypeOK, HostTypeOK, FaultTypeOK, BatchInRange
  <1>18. LinkTarget'
    BY LinkTargetStep
  <1>19. QED
    BY <1>18, <1>1, <1>2, <1>3, <1>4, <1>5, <1>6, <1>7, <1>8, <1>9, <1>10, <1>11, <1>12, <1>13,
       <1>14, <1>15, <1>16, <1>17
       DEF Next, Step

\* The initial states have the types.
LEMMA TypeInit == Init => TypeInv
  BY EmptyDbType, ValuesAssumption
     DEF Init, TypeInv, ServerTypeOK, SessionTypeOK, ProcessTypeOK, HostTypeOK,
         FaultTypeOK, BatchInRange, LinkTarget, PCs, Working, Links

\* Every variable has its type throughout; in particular no commit of the package
\* loop runs past the last batch of the file.
THEOREM TypeCorrect == Spec => []TypeOK
  <1>1. TypeInv => TypeOK
    BY DEF TypeInv, TypeOK, ServerTypeOK, SessionTypeOK, ProcessTypeOK, HostTypeOK,
           FaultTypeOK
  <1>2. QED
    BY TypeInit, TypeStep, <1>1, PTL DEF Spec

-----------------------------------------------------------------------------
(***************************************************************************)
(* The lock: what an instance does under it, it does on a current replica. *)
(***************************************************************************)

\* An instance with a live session believes in the lock only if it has it.
LockBelieved == \A p \in Procs : sess[p] /\ hasLock[p] => owner = p

\* Everything past the checks of sysd_run() happens with that belief.
WorkUnderLock == \A p \in Procs : pc[p] \in Working => hasLock[p]

\* The lock holder's replica agrees with the database in what only it writes.
ReplicaCurrent ==
    \A p \in Procs : sess[p] /\ hasLock[p] => idl[p].sys = db.sys /\ idl[p].pkg = db.pkg

\* A push was decided on a replica without a System row.
PushFromEmpty == \A p \in Procs : pc[p] \in {"push", "pushpart"} => idl[p].sys = 0

\* The batches still to come are not in the database yet.
BatchFresh ==
    \A p \in Procs : pc[p] = "batch" /\ sess[p] =>
        \A b \in Batches : b >= batch[p] => db.pkg[b] = 0

LockInv ==
    /\ LockBelieved
    /\ WorkUnderLock
    /\ ReplicaCurrent
    /\ PushFromEmpty
    /\ BatchFresh
    /\ OneSystemRow
    /\ PackagesOnce

\* The end of p's session moves the lock at most away from p.
LEMMA DropFacts ==
    ASSUME TypeInv, NEW p \in Procs, Drop(p)
    PROVE  /\ ~sess'[p]
           /\ \A q \in Procs \ {p} : sess'[q] = sess[q] /\ (owner = q => owner' = q)
  BY DEF TypeInv, SessionTypeOK, Drop, Release

\* A commit changes the database only as the transaction says, and only for a
\* holder with a live session, whose replica then has the result.
LEMMA CommitFacts ==
    ASSUME TypeInv, LockBelieved, ReplicaCurrent,
           NEW p \in Procs, NEW new, NEW hw, Commit(p, new, hw)
    PROVE  /\ hasLock' = hasLock
           /\ LockBelieved'
           /\ \/ db' = db /\ curHw' = curHw
              \/ db' = new /\ curHw' = hw /\ sess[p] /\ hasLock[p]
           /\ sess'[p] => sess[p]
           /\ idl'[p] = idl[p] \/ idl'[p] = db'
           /\ sess'[p] /\ hasLock[p] => idl'[p] = db'
           /\ \A q \in Procs \ {p} : sess'[q] = sess[q] /\ idl'[q] = idl[q]
  <1> USE DEF TypeInv, SessionTypeOK
  <1>1. CASE CommitOk(p, new, hw)
    BY <1>1 DEF CommitOk, Absorb, LockBelieved
  <1>2. CASE CommitError(p)
    BY <1>2 DEF CommitError, server, LockBelieved
  <1>3. CASE CommitLost(p, new, hw)
    BY <1>3 DEF CommitLost, Release, LockBelieved
  <1>4. CASE CommitDead(p)
    BY <1>4 DEF CommitDead, server, session, LockBelieved
  <1>5. QED
    BY <1>1, <1>2, <1>3, <1>4 DEF Commit

\* Two holders with live sessions are one.
LEMMA OneHolder ==
    ASSUME LockBelieved, NEW p \in Procs, NEW q \in Procs,
           sess[p], hasLock[p], sess[q], hasLock[q]
    PROVE  p = q
  BY DEF LockBelieved

\* Steps that leave the database, the sessions and the beliefs alone, and move p
\* to a point where nothing is assumed that they do not provide.
LEMMA MoveFacts ==
    ASSUME TypeInv, LockInv, NEW p \in Procs, NEW l,
           Goto(p, l),
           UNCHANGED <<db, owner, sess, idl, hasLock, batch>>,
           l \in Working => hasLock[p],
           l \in {"push", "pushpart"} => idl[p].sys = 0,
           l # "batch"
    PROVE  LockInv'
  BY DEF TypeInv, SessionTypeOK, ProcessTypeOK, LockInv, LockBelieved, WorkUnderLock,
         ReplicaCurrent, PushFromEmpty, BatchFresh, OneSystemRow, PackagesOnce, Goto

\* The lock discipline is preserved by every step.
LEMMA LockStep == TypeInv /\ LockInv /\ [Next]_vars => LockInv'
  <1> SUFFICES ASSUME TypeInv, LockInv, [Next]_vars
               PROVE  LockInv'
    OBVIOUS
  <1>1. ASSUME NEW p \in Procs, Start(p)
        PROVE  LockInv'
    BY <1>1 DEF Start, Goto, TypeInv, SessionTypeOK, ProcessTypeOK, LockInv, LockBelieved,
                WorkUnderLock, ReplicaCurrent, PushFromEmpty, BatchFresh, OneSystemRow,
                PackagesOnce, Working, server
  <1>2. ASSUME NEW p \in Procs, IdlRun(p)
        PROVE  LockInv'
    BY <1>2 DEF IdlRun, Goto, TypeInv, SessionTypeOK, ProcessTypeOK, LockInv, LockBelieved,
                WorkUnderLock, ReplicaCurrent, PushFromEmpty, BatchFresh, OneSystemRow,
                PackagesOnce, Working, server
  <1>3. ASSUME NEW p \in Procs, IdlConnect(p)
        PROVE  LockInv'
    BY <1>3, ProcsAssumption
       DEF IdlConnect, Goto, TypeInv, SessionTypeOK, ProcessTypeOK, LockInv, LockBelieved,
           WorkUnderLock, ReplicaCurrent, PushFromEmpty, BatchFresh, OneSystemRow,
           PackagesOnce, Working
  <1>4. ASSUME NEW p \in Procs,
               IdlUnreachable(p) \/ ReturnWithoutLock(p) \/ ReturnUnchanged(p)
               \/ SkipPackages(p) \/ NoTimezone(p) \/ UnlinkLocaltime(p)
               \/ LinkLocaltime(p) \/ LoopAgain(p) \/ Block(p) \/ Wake(p) \/ WakeOther(p)
        PROVE  LockInv'
    <2>1. PICK l \in {"check", "wait", "tz", "link", "run", "blocked"} :
              Goto(p, l) /\ (l \in Working => pc[p] \in Working)
      BY <1>4 DEF IdlUnreachable, ReturnWithoutLock, ReturnUnchanged, SkipPackages,
                  NoTimezone, UnlinkLocaltime, LinkLocaltime, LoopAgain, Block, Wake,
                  WakeOther, Working
    <2>2. UNCHANGED <<db, owner, sess, idl, hasLock, batch>>
      BY <1>4 DEF IdlUnreachable, ReturnWithoutLock, ReturnUnchanged, SkipPackages,
                  NoTimezone, UnlinkLocaltime, LinkLocaltime, LoopAgain, Block, Wake,
                  WakeOther, server, session
    <2>3. QED
      BY <2>1, <2>2, MoveFacts DEF LockInv, WorkUnderLock
  <1>5. ASSUME NEW p \in Procs,
               Configure(p) \/ ConfigurePartly(p) \/ FindAllDone(p) \/ FindNotDone(p)
        PROVE  LockInv'
    <2>1. PICK l \in {"push", "pushpart", "sethw", "pkg"} :
              Goto(p, l) /\ (l \in {"push", "pushpart"} => NotConfigured(p))
      BY <1>5 DEF Configure, ConfigurePartly, FindAllDone, FindNotDone
    <2>2. hasLock[p] /\ UNCHANGED <<db, owner, sess, idl, hasLock, batch>>
      BY <1>5 DEF Configure, ConfigurePartly, FindAllDone, FindNotDone, SeeChange, server
    <2>3. QED
      BY <2>1, <2>2, MoveFacts DEF NotConfigured
  <1>6. ASSUME NEW p \in Procs, WriteWithoutTxn(p) \/ Exit(p) \/ Crash(p)
        PROVE  LockInv'
    <2>1. Goto(p, "down") /\ Drop(p) /\ UNCHANGED <<db, idl, hasLock, batch>>
      BY <1>6 DEF WriteWithoutTxn, Exit, Crash
    <2>2. QED
      BY <2>1, DropFacts
         DEF Goto, TypeInv, SessionTypeOK, ProcessTypeOK, LockInv, LockBelieved,
             WorkUnderLock, ReplicaCurrent, PushFromEmpty, BatchFresh, OneSystemRow,
             PackagesOnce, Working
  <1>7. ASSUME NEW p \in Procs, Disconnect(p)
        PROVE  LockInv'
    <2>1. Drop(p) /\ UNCHANGED <<db, idl, hasLock, pc, batch>>
      BY <1>7 DEF Disconnect, process
    <2>2. QED
      BY <2>1, DropFacts
         DEF TypeInv, SessionTypeOK, LockInv, LockBelieved, WorkUnderLock, ReplicaCurrent,
             PushFromEmpty, BatchFresh, OneSystemRow, PackagesOnce
  <1>8. ASSUME NEW p \in Procs, Push(p)
        PROVE  LockInv'
    <2> DEFINE new == Configured(pc[p] = "push")
    <2>1. /\ Commit(p, new, curHw) /\ Goto(p, "pkg") /\ UNCHANGED batch
          /\ pc[p] \in {"push", "pushpart"} /\ hasLock[p] /\ idl[p].sys = 0
      BY <1>8 DEF Push, LockInv, WorkUnderLock, PushFromEmpty, Working
    <2>2. new.sys = db.sys + 1 /\ new.pkg = db.pkg
      BY DEF Configured, TypeInv, ServerTypeOK, Contents
    <2>3. db' = db \/ (db' = new /\ sess[p] /\ db.sys = 0)
      BY <2>1, CommitFacts DEF LockInv, ReplicaCurrent
    <2>4. db'.pkg = db.pkg
      BY <2>2, <2>3
    <2>5. OneSystemRow'
      BY <2>2, <2>3 DEF LockInv, OneSystemRow
    <2>6. ReplicaCurrent'
      <3> SUFFICES ASSUME NEW q \in Procs, sess'[q], hasLock'[q]
                   PROVE  idl'[q].sys = db'.sys /\ idl'[q].pkg = db'.pkg
        BY DEF ReplicaCurrent
      <3>1. CASE q = p
        BY <3>1, <2>1, CommitFacts DEF LockInv
      <3>2. CASE q # p
        <4>1. sess[q] /\ hasLock[q] /\ idl'[q] = idl[q]
          BY <3>2, <2>1, CommitFacts DEF LockInv
        <4>2. db' = db
          BY <3>2, <4>1, <2>1, <2>3, OneHolder DEF LockInv
        <4>3. QED
          BY <4>1, <4>2 DEF LockInv, ReplicaCurrent
      <3>3. QED
        BY <3>1, <3>2
    <2>7. LockBelieved' /\ WorkUnderLock' /\ PushFromEmpty'
      <3>1. LockBelieved' /\ hasLock' = hasLock /\ \A q \in Procs \ {p} : idl'[q] = idl[q]
        BY <2>1, CommitFacts DEF LockInv
      <3>2. QED
        BY <2>1, <3>1 DEF Goto, TypeInv, ProcessTypeOK, LockInv, WorkUnderLock,
                          PushFromEmpty, Working
    <2>8. BatchFresh' /\ PackagesOnce'
      <3>1. \A q \in Procs \ {p} : sess'[q] = sess[q]
        BY <2>1, CommitFacts DEF LockInv
      <3>2. QED
        BY <2>1, <2>4, <3>1 DEF Goto, TypeInv, ProcessTypeOK, LockInv, BatchFresh,
                                PackagesOnce
    <2>9. QED
      BY <2>5, <2>6, <2>7, <2>8 DEF LockInv
  <1>9. ASSUME NEW p \in Procs, SetHwDone(p)
        PROVE  LockInv'
    <2>1. Commit(p, db, 1) /\ Goto(p, "pkg") /\ UNCHANGED batch /\ hasLock[p]
      BY <1>9 DEF SetHwDone, LockInv, WorkUnderLock, Working
    <2>2. db' = db
      BY <2>1, CommitFacts DEF LockInv
    <2>3. /\ LockBelieved' /\ hasLock' = hasLock
          /\ sess'[p] => sess[p]
          /\ sess'[p] => idl'[p] = db'
          /\ \A q \in Procs \ {p} : sess'[q] = sess[q] /\ idl'[q] = idl[q]
      BY <2>1, CommitFacts DEF LockInv
    <2>4. QED
      BY <2>1, <2>2, <2>3
         DEF Goto, TypeInv, ProcessTypeOK, LockInv, WorkUnderLock, ReplicaCurrent,
             PushFromEmpty, BatchFresh, OneSystemRow, PackagesOnce, Working
  <1>10. ASSUME NEW p \in Procs, BeginPackages(p)
         PROVE  LockInv'
    <2>1. /\ idl[p].pkg = NoPackages /\ Goto(p, "batch") /\ hasLock[p]
          /\ batch' = [batch EXCEPT ![p] = 1]
          /\ UNCHANGED <<db, owner, sess, idl, hasLock>>
      BY <1>10 DEF BeginPackages, LockInv, WorkUnderLock, Working, server, session
    <2>2. sess[p] => \A b \in Batches : db.pkg[b] = 0
      BY <2>1 DEF LockInv, ReplicaCurrent, NoPackages
    <2>3. BatchFresh'
      BY <2>1, <2>2 DEF Goto, TypeInv, ProcessTypeOK, LockInv, BatchFresh
    <2>4. QED
      BY <2>1, <2>3 DEF Goto, TypeInv, ProcessTypeOK, LockInv, LockBelieved,
                        WorkUnderLock, ReplicaCurrent, PushFromEmpty, OneSystemRow,
                        PackagesOnce
  <1>11. ASSUME NEW p \in Procs, AddPackages(p)
         PROVE  LockInv'
    <2> DEFINE k == batch[p]
               new == [db EXCEPT !.pkg[k] = @ + 1]
               l == IF k < NBatches THEN "batch" ELSE "tz"
    <2>1. /\ Commit(p, new, curHw) /\ Goto(p, l) /\ batch' = [batch EXCEPT ![p] = @ + 1]
          /\ pc[p] = "batch" /\ hasLock[p] /\ k \in Batches
      BY <1>11 DEF AddPackages, LockInv, WorkUnderLock, Working, TypeInv, BatchInRange
    <2>2. /\ new.sys = db.sys
          /\ new.pkg \in [Batches -> Nat]
          /\ new.pkg[k] = db.pkg[k] + 1
          /\ \A b \in Batches \ {k} : new.pkg[b] = db.pkg[b]
      BY <2>1 DEF TypeInv, ServerTypeOK, Contents
    <2> HIDE DEF new
    <2>3. /\ LockBelieved' /\ hasLock' = hasLock
          /\ db' = db \/ (db' = new /\ sess[p])
          /\ sess'[p] => sess[p] /\ idl'[p] = db'
          /\ \A q \in Procs \ {p} : sess'[q] = sess[q] /\ idl'[q] = idl[q]
      BY <2>1, CommitFacts DEF LockInv
    <2>4. \A q \in Procs \ {p} : sess'[q] /\ hasLock'[q] => db' = db
      BY <2>1, <2>3, OneHolder DEF LockInv
    <2>5. WorkUnderLock' /\ PushFromEmpty' /\ OneSystemRow'
      BY <2>1, <2>2, <2>3 DEF Goto, TypeInv, ProcessTypeOK, LockInv, WorkUnderLock,
                              PushFromEmpty, OneSystemRow, Working
    <2>6. ReplicaCurrent'
      BY <2>3, <2>4 DEF LockInv, ReplicaCurrent
    <2>7. sess[p] => db.pkg[k] = 0
      BY <2>1 DEF LockInv, BatchFresh, Batches
    <2>8. PackagesOnce'
      BY <2>2, <2>3, <2>7 DEF LockInv, PackagesOnce
    <2>9. BatchFresh'
      <3> SUFFICES ASSUME NEW q \in Procs, pc'[q] = "batch", sess'[q],
                          NEW b \in Batches, b >= batch'[q]
                   PROVE  db'.pkg[b] = 0
        BY DEF BatchFresh
      <3>1. CASE q = p
        <4>1. b > k /\ b >= k /\ b # k
          BY <3>1, <2>1 DEF TypeInv, ProcessTypeOK, Batches
        <4>2. db.pkg[b] = 0
          BY <3>1, <4>1, <2>1, <2>3 DEF LockInv, BatchFresh
        <4>3. QED
          BY <4>1, <4>2, <2>2, <2>3
      <3>2. CASE q # p
        <4>1. pc[q] = "batch" /\ sess[q] /\ batch'[q] = batch[q]
          BY <3>2, <2>1, <2>3 DEF Goto, TypeInv, ProcessTypeOK
        <4>2. db' = db
          BY <3>2, <4>1, <2>3, <2>4 DEF LockInv, WorkUnderLock, Working
        <4>3. QED
          BY <4>1, <4>2 DEF LockInv, BatchFresh
      <3>3. QED
        BY <3>1, <3>2
    <2>10. QED
      BY <2>3, <2>5, <2>6, <2>8, <2>9 DEF LockInv
  <1>12. ASSUME NEW d \in Daemons, HwDaemonDone(d)
         PROVE  LockInv'
    <2>1. /\ UNCHANGED <<owner, sess, idl, hasLock, pc, batch>>
          /\ db'.sys = db.sys /\ db'.pkg = db.pkg
      BY <1>12 DEF HwDaemonDone, process, TypeInv, ServerTypeOK, Contents
    <2>2. QED
      BY <2>1 DEF LockInv, LockBelieved, WorkUnderLock, ReplicaCurrent, PushFromEmpty,
                  BatchFresh, OneSystemRow, PackagesOnce
  <1>13. ASSUME NEW z \in Zones, SetTimezone(z)
         PROVE  LockInv'
    <2>1. /\ UNCHANGED <<owner, sess, idl, hasLock, pc, batch>>
          /\ db'.sys = db.sys /\ db'.pkg = db.pkg
      BY <1>13 DEF SetTimezone, process, TypeInv, ServerTypeOK, Contents
    <2>2. QED
      BY <2>1 DEF LockInv, LockBelieved, WorkUnderLock, ReplicaCurrent, PushFromEmpty,
                  BatchFresh, OneSystemRow, PackagesOnce
  <1>14. ASSUME UNCHANGED <<db, owner, sess, idl, hasLock, pc, batch>>
         PROVE  LockInv'
    BY <1>14 DEF LockInv, LockBelieved, WorkUnderLock, ReplicaCurrent, PushFromEmpty,
                 BatchFresh, OneSystemRow, PackagesOnce
  <1>15. ASSUME NEW r \in Releases \cup {NoInfo}, ReplaceOsRelease(r)
         PROVE  LockInv'
    BY <1>14, <1>15 DEF ReplaceOsRelease, server, session, process
  <1>16. CASE UNCHANGED vars
    BY <1>14, <1>16 DEF vars, server, session, process
  <1>17. QED
    BY <1>1, <1>2, <1>3, <1>4, <1>5, <1>6, <1>7, <1>8, <1>9, <1>10, <1>11, <1>12, <1>13,
       <1>15, <1>16
       DEF Next, Step

\* Initially nobody has the lock and the database is empty.
LEMMA LockInit == Init => LockInv
  BY DEF Init, LockInv, LockBelieved, WorkUnderLock, ReplicaCurrent, PushFromEmpty,
         BatchFresh, OneSystemRow, PackagesOnce, EmptyDb, NoPackages, Working

\* sysd_initial_configure() is committed once in the life of the database, whichever
\* instances run it and however their sessions break.
THEOREM SystemRowUnique == Spec => []OneSystemRow
  <1>1. LockInv => OneSystemRow
    BY DEF LockInv
  <1>2. QED
    BY TypeInit, TypeStep, LockInit, LockStep, <1>1, PTL DEF Spec

\* sysd_add_package_info() never inserts a batch that is in the table already.
THEOREM PackagesUnique == Spec => []PackagesOnce
  <1>1. LockInv => PackagesOnce
    BY DEF LockInv
  <1>2. QED
    BY TypeInit, TypeStep, LockInit, LockStep, <1>1, PTL DEF Spec

-----------------------------------------------------------------------------
(***************************************************************************)
(* The reports of the h/w daemons and cur_hw.                              *)
(***************************************************************************)

\* The Daemon rows come all in one transaction.
RowsWhole ==
    /\ db.rows \in {{}, Daemons}
    /\ \A p \in Procs : idl[p].rows \in {{}, Daemons}

\* There is no Daemon row, and no report, in a database without a System row.
NoEarlyReport == db.sys = 0 => db.rows = {} /\ db.done = {}

\* Reports are never taken back: what a replica shows, however old, is still so.
ReportsStable == \A p \in Procs : idl[p].done \subseteq db.done

\* Between the scan of the Daemon rows and the commit all have reported.
DecidedRightly == \A p \in Procs : pc[p] = "sethw" => HwDaemons \subseteq db.done

ReportInv ==
    /\ RowsWhole
    /\ NoEarlyReport
    /\ ReportsStable
    /\ DecidedRightly
    /\ CurHwImpliesAllDone

\* With names none of which is a prefix of another, the scan succeeds only on a
\* replica in which every h/w daemon has reported.
LEMMA ScanIsExact ==
    ASSUME PrefixFree, NEW p \in Procs,
           idl[p].rows \in {{}, Daemons}, CanFindAllDone(p)
    PROVE  HwDaemons \subseteq idl[p].done
  <1>1. \A d \in HwDaemons : MatchingRows(p, d) \subseteq {d}
    BY DaemonsAssumption DEF MatchingRows, PrefixFree
  <1>2. CASE HwDaemons = {}
    BY <1>2
  <1>3. CASE HwDaemons # {}
    <2>1. PICK d \in HwDaemons : MatchingRows(p, d) # {}
      BY <1>3 DEF CanFindAllDone
    <2>2. idl[p].rows = Daemons
      BY <2>1 DEF MatchingRows
    <2>3. \A e \in HwDaemons : e \in MatchingRows(p, e)
      BY <2>2, DaemonsAssumption DEF MatchingRows
    <2>4. \A e \in HwDaemons : MatchingRows(p, e) \cap idl[p].done # {}
      BY <1>3, <2>3 DEF CanFindAllDone
    <2>5. QED
      BY <1>1, <2>4
  <1>4. QED
    BY <1>2, <1>3

\* A step after which the database still has every report, and in which replicas
\* are kept or refreshed, preserves the invariant unless it starts or ends a scan.
LEMMA ReportKept ==
    ASSUME ReportInv,
           db'.rows \in {{}, Daemons},
           db'.sys = 0 => db'.rows = {} /\ db'.done = {},
           db.done \subseteq db'.done,
           \A q \in Procs : idl'[q] \in {idl[q], db, db', EmptyDb},
           \A q \in Procs : pc'[q] = "sethw" => HwDaemons \subseteq db'.done,
           curHw' = curHw \/ HwDaemons \subseteq db'.done
    PROVE  ReportInv'
  BY DEF ReportInv, RowsWhole, NoEarlyReport, ReportsStable, DecidedRightly,
         CurHwImpliesAllDone, EmptyDb

\* The same for steps that leave the database alone and do not start a scan.
LEMMA ReportIdle ==
    ASSUME ReportInv, UNCHANGED <<db, curHw>>,
           \A q \in Procs : idl'[q] \in {idl[q], db, EmptyDb},
           \A q \in Procs : pc'[q] = "sethw" => pc[q] = "sethw"
    PROVE  ReportInv'
  BY ReportKept DEF ReportInv, RowsWhole, NoEarlyReport, DecidedRightly

\* A committing step of p, by what the transaction makes of the reports.
LEMMA ReportCommit ==
    ASSUME TypeInv, LockInv, ReportInv,
           NEW p \in Procs, NEW new, NEW hw, Commit(p, new, hw),
           NEW l \in PCs \ {"sethw"}, Goto(p, l),
           sess[p] /\ hasLock[p] => /\ new.rows \in {{}, Daemons}
                                    /\ new.sys = 0 => new.rows = {} /\ new.done = {}
                                    /\ db.done \subseteq new.done
                                    /\ hw = curHw \/ HwDaemons \subseteq new.done
    PROVE  ReportInv'
  <1>1. /\ \/ db' = db /\ curHw' = curHw
           \/ db' = new /\ curHw' = hw /\ sess[p] /\ hasLock[p]
        /\ idl'[p] = idl[p] \/ idl'[p] = db'
        /\ \A q \in Procs \ {p} : idl'[q] = idl[q]
    BY CommitFacts DEF LockInv
  <1>2. \A q \in Procs : pc'[q] = "sethw" => pc[q] = "sethw"
    BY DEF Goto, TypeInv, ProcessTypeOK
  <1>3. db.done \subseteq db'.done
    BY <1>1
  <1>4. db'.rows \in {{}, Daemons} /\ (db'.sys = 0 => db'.rows = {} /\ db'.done = {})
    BY <1>1 DEF ReportInv, RowsWhole, NoEarlyReport
  <1>5. QED
    BY <1>1, <1>2, <1>3, <1>4, ReportKept DEF ReportInv, DecidedRightly

\* Every step preserves what is known of the reports.
LEMMA ReportStep ==
    ASSUME PrefixFree
    PROVE  TypeInv /\ LockInv /\ ReportInv /\ [Next]_vars => ReportInv'
  <1> SUFFICES ASSUME TypeInv, LockInv, ReportInv, [Next]_vars
               PROVE  ReportInv'
    OBVIOUS
  <1>1. ASSUME NEW p \in Procs, Start(p) \/ IdlRun(p) \/ IdlConnect(p)
        PROVE  ReportInv'
    <2>1. UNCHANGED <<db, curHw>> /\ \A q \in Procs : idl'[q] \in {idl[q], db, EmptyDb}
      BY <1>1 DEF Start, IdlRun, IdlConnect, server, TypeInv, SessionTypeOK
    <2>2. \A q \in Procs : pc'[q] = "sethw" => pc[q] = "sethw"
      BY <1>1 DEF Start, IdlRun, IdlConnect, Goto, TypeInv, ProcessTypeOK
    <2>3. QED
      BY <2>1, <2>2, ReportIdle
  <1>2. ASSUME NEW p \in Procs,
               IdlUnreachable(p) \/ ReturnWithoutLock(p) \/ ReturnUnchanged(p)
               \/ SkipPackages(p) \/ BeginPackages(p) \/ NoTimezone(p)
               \/ UnlinkLocaltime(p) \/ LinkLocaltime(p) \/ LoopAgain(p) \/ Block(p)
               \/ Wake(p) \/ WakeOther(p)
        PROVE  ReportInv'
    <2>1. UNCHANGED <<db, curHw, idl>>
      BY <1>2 DEF IdlUnreachable, ReturnWithoutLock, ReturnUnchanged, SkipPackages,
                  BeginPackages, NoTimezone, UnlinkLocaltime, LinkLocaltime, LoopAgain,
                  Block, Wake, WakeOther, server, session
    <2>2. \A q \in Procs : pc'[q] = "sethw" => pc[q] = "sethw"
      BY <1>2 DEF IdlUnreachable, ReturnWithoutLock, ReturnUnchanged, SkipPackages,
                  BeginPackages, NoTimezone, UnlinkLocaltime, LinkLocaltime, LoopAgain,
                  Block, Wake, WakeOther, Goto, TypeInv, ProcessTypeOK
    <2>3. QED
      BY <2>1, <2>2, ReportIdle
  <1>3. ASSUME NEW p \in Procs, Configure(p) \/ ConfigurePartly(p) \/ FindNotDone(p)
        PROVE  ReportInv'
    <2>1. UNCHANGED <<db, curHw, idl>>
      BY <1>3 DEF Configure, ConfigurePartly, FindNotDone, SeeChange, server
    <2>2. \A q \in Procs : pc'[q] = "sethw" => pc[q] = "sethw"
      BY <1>3 DEF Configure, ConfigurePartly, FindNotDone, Goto, TypeInv, ProcessTypeOK
    <2>3. QED
      BY <2>1, <2>2, ReportIdle
  <1>4. ASSUME NEW p \in Procs, FindAllDone(p)
        PROVE  ReportInv'
    <2>1. UNCHANGED <<db, curHw, idl>> /\ Goto(p, "sethw")
      BY <1>4 DEF FindAllDone, SeeChange, server
    <2>2. HwDaemons \subseteq idl[p].done
      BY <1>4, ScanIsExact DEF FindAllDone, ReportInv, RowsWhole
    <2>3. HwDaemons \subseteq db.done
      BY <2>2 DEF ReportInv, ReportsStable
    <2>4. QED
      BY <2>1, <2>3, ReportKept DEF ReportInv, RowsWhole, NoEarlyReport
  <1>5. ASSUME NEW p \in Procs,
               WriteWithoutTxn(p) \/ Exit(p) \/ Crash(p) \/ Disconnect(p)
        PROVE  ReportInv'
    <2>1. UNCHANGED <<db, curHw, idl>>
      BY <1>5 DEF WriteWithoutTxn, Exit, Crash, Disconnect
    <2>2. \A q \in Procs : pc'[q] = "sethw" => pc[q] = "sethw"
      BY <1>5 DEF WriteWithoutTxn, Exit, Crash, Disconnect, Goto, process,
                  TypeInv, ProcessTypeOK
    <2>3. QED
      BY <2>1, <2>2, ReportIdle
  <1>6. ASSUME NEW p \in Procs, Push(p)
        PROVE  ReportInv'
    <2> DEFINE new == Configured(pc[p] = "push")
    <2>1. Commit(p, new, curHw) /\ Goto(p, "pkg") /\ "pkg" \in PCs \ {"sethw"}
      BY <1>6 DEF Push, PCs, Working
    <2>2. sess[p] /\ hasLock[p] => db.sys = 0 /\ db.done = {}
      BY <1>6 DEF Push, LockInv, ReplicaCurrent, PushFromEmpty, ReportInv, NoEarlyReport
    <2>3. /\ new.sys = db.sys + 1
          /\ new.rows = Daemons \/ new.rows = db.rows
          /\ db.sys \in Nat
      BY DEF Configured, TypeInv, ServerTypeOK, Contents
    <2>4. QED
      BY <2>1, <2>2, <2>3, ReportCommit DEF ReportInv, RowsWhole
  <1>7. ASSUME NEW p \in Procs, SetHwDone(p)
        PROVE  ReportInv'
    <2>1. Commit(p, db, 1) /\ Goto(p, "pkg") /\ "pkg" \in PCs \ {"sethw"}
      BY <1>7 DEF SetHwDone, PCs, Working
    <2>2. HwDaemons \subseteq db.done
      BY <1>7 DEF SetHwDone, ReportInv, DecidedRightly
    <2>3. QED
      BY <2>1, <2>2, ReportCommit DEF ReportInv, RowsWhole, NoEarlyReport
  <1>8. ASSUME NEW p \in Procs, AddPackages(p)
        PROVE  ReportInv'
    <2> DEFINE new == [db EXCEPT !.pkg[batch[p]] = @ + 1]
               l == IF batch[p] < NBatches THEN "batch" ELSE "tz"
    <2>1. Commit(p, new, curHw) /\ Goto(p, l) /\ l \in PCs \ {"sethw"}
      BY <1>8 DEF AddPackages, PCs, Working
    <2>2. new.sys = db.sys /\ new.rows = db.rows /\ new.done = db.done
      BY DEF TypeInv, ServerTypeOK, Contents
    <2>3. QED
      BY <2>1, <2>2, ReportCommit DEF ReportInv, RowsWhole, NoEarlyReport
  <1>9. ASSUME NEW d \in Daemons, HwDaemonDone(d)
        PROVE  ReportInv'
    <2>1. /\ db'.rows = db.rows /\ db'.sys = db.sys /\ db'.done = db.done \cup {d}
          /\ UNCHANGED <<curHw, idl, pc>>
      BY <1>9 DEF HwDaemonDone, process, TypeInv, ServerTypeOK, Contents
    <2>2. db.sys # 0
      BY <1>9 DEF HwDaemonDone, ReportInv, NoEarlyReport
    <2>3. QED
      BY <2>1, <2>2, ReportKept DEF ReportInv, RowsWhole, DecidedRightly
  <1>10. ASSUME NEW z \in Zones, SetTimezone(z)
         PROVE  ReportInv'
    <2>1. /\ db'.rows = db.rows /\ db'.sys = db.sys /\ db'.done = db.done
          /\ UNCHANGED <<curHw, idl, pc>>
      BY <1>10 DEF SetTimezone, process, TypeInv, ServerTypeOK, Contents
    <2>2. QED
      BY <2>1, ReportKept DEF ReportInv, RowsWhole, NoEarlyReport, DecidedRightly
  <1>11. ASSUME NEW r \in Releases \cup {NoInfo}, ReplaceOsRelease(r)
         PROVE  ReportInv'
    BY <1>11, ReportIdle DEF ReplaceOsRelease, server, session, process
  <1>12. CASE UNCHANGED vars
    BY <1>12, ReportIdle DEF vars, server, session, process
  <1>13. QED
    BY <1>1, <1>2, <1>3, <1>4, <1>5, <1>6, <1>7, <1>8, <1>9, <1>10, <1>11, <1>12
       DEF Next, Step

\* Initially there is no row and cur_hw is 0.
LEMMA ReportInit == Init => ReportInv
  BY DEF Init, ReportInv, RowsWhole, NoEarlyReport, ReportsStable, DecidedRightly,
         CurHwImpliesAllDone, EmptyDb

\* Where no name of a daemon is a prefix of another's, the configuration daemon may
\* rely on cur_hw: it is 1 only when every h/w daemon has set its own cur_hw.
THEOREM CurHwIsTrue ==
    ASSUME PrefixFree
    PROVE  Spec => []CurHwImpliesAllDone
  <1>1. ReportInv => CurHwImpliesAllDone
    BY DEF ReportInv
  <1>2. TypeInv /\ LockInv /\ ReportInv /\ [Next]_vars => ReportInv'
    BY ReportStep
  <1>3. QED
    BY TypeInit, TypeStep, LockInit, LockStep, ReportInit, <1>1, <1>2, PTL DEF Spec

-----------------------------------------------------------------------------
(***************************************************************************)
(* The main loop implements HwInit.                                        *)
(***************************************************************************)

\* Reports are never withdrawn and cur_hw changes only from 0 to 1, under a
\* decision that still holds; the two do not change in one step.
LEMMA AbstractStep ==
    TypeInv /\ LockInv /\ ReportInv /\ ReportInv' /\ [Next]_vars =>
        [Abstract!Next]_<<db.done \cap HwDaemons, curHw = 1>>
  <1> SUFFICES ASSUME TypeInv, LockInv, ReportInv, ReportInv', [Next]_vars
               PROVE  [Abstract!Next]_<<db.done \cap HwDaemons, curHw = 1>>
    OBVIOUS
  <1>1. ASSUME db.done \subseteq db'.done, curHw' = curHw
        PROVE  Abstract!Next
    <2>1. Abstract!Report(db'.done \cap HwDaemons)
      BY <1>1 DEF Abstract!Report
    <2>2. QED
      BY <2>1 DEF Abstract!Next
  <1>2. ASSUME NEW p \in Procs, Push(p)
        PROVE  Abstract!Next
    <2> DEFINE new == Configured(pc[p] = "push")
    <2>1. \/ db' = db /\ curHw' = curHw
          \/ db' = new /\ curHw' = curHw /\ sess[p] /\ hasLock[p]
      BY <1>2, CommitFacts DEF Push, LockInv
    <2>2. sess[p] /\ hasLock[p] => db.done = {}
      BY <1>2 DEF Push, LockInv, ReplicaCurrent, PushFromEmpty, ReportInv, NoEarlyReport
    <2>3. QED
      BY <1>1, <2>1, <2>2
  <1>3. ASSUME NEW p \in Procs, SetHwDone(p)
        PROVE  Abstract!Next
    <2>1. db' = db /\ (curHw' = curHw \/ curHw' = 1)
      BY <1>3, CommitFacts DEF SetHwDone, LockInv
    <2>2. CASE curHw' = curHw
      BY <1>1, <2>1, <2>2
    <2>3. CASE curHw' = 1
      <3>1. db.done \cap HwDaemons = HwDaemons
        BY <1>3 DEF SetHwDone, ReportInv, DecidedRightly
      <3>2. QED
        BY <2>1, <2>3, <3>1 DEF Abstract!Next, Abstract!Declare
    <2>4. QED
      BY <2>1, <2>2, <2>3
  <1>4. ASSUME NEW p \in Procs, AddPackages(p)
        PROVE  Abstract!Next
    <2> DEFINE new == [db EXCEPT !.pkg[batch[p]] = @ + 1]
    <2>1. db' \in {db, new} /\ curHw' = curHw
      BY <1>4, CommitFacts DEF AddPackages, LockInv
    <2>2. new.done = db.done
      BY DEF TypeInv, ServerTypeOK, Contents
    <2>3. QED
      BY <1>1, <2>1, <2>2
  <1>5. ASSUME NEW p \in Procs, Step(p) \/ Start(p) \/ WakeOther(p) \/ Exit(p) \/ Crash(p)
                                \/ Disconnect(p),
               ~Push(p), ~SetHwDone(p), ~AddPackages(p)
        PROVE  UNCHANGED <<db, curHw>>
    BY <1>5 DEF Step, Start, WakeOther, Exit, Crash, Disconnect, IdlRun, IdlConnect,
                IdlUnreachable, ReturnWithoutLock, ReturnUnchanged, Configure,
                ConfigurePartly, WriteWithoutTxn, FindAllDone, FindNotDone, SeeChange,
                SkipPackages, BeginPackages, NoTimezone, UnlinkLocaltime, LinkLocaltime,
                LoopAgain, Block, Wake, server
  <1>6. ASSUME NEW d \in Daemons, HwDaemonDone(d)
        PROVE  Abstract!Next
    BY <1>1, <1>6 DEF HwDaemonDone, TypeInv, ServerTypeOK, Contents
  <1>7. ASSUME NEW z \in Zones, SetTimezone(z)
        PROVE  Abstract!Next
    BY <1>1, <1>7 DEF SetTimezone, TypeInv, ServerTypeOK, Contents
  <1>8. ASSUME NEW r \in Releases \cup {NoInfo}, ReplaceOsRelease(r)
        PROVE  UNCHANGED <<db, curHw>>
    BY <1>8 DEF ReplaceOsRelease, server
  <1>9. CASE UNCHANGED vars
    BY <1>9 DEF vars, server
  <1>10. QED
    BY <1>2, <1>3, <1>4, <1>5, <1>6, <1>7, <1>8, <1>9 DEF Next

\* The main loop, seen through the reports in the Daemon table and System:cur_hw,
\* behaves as HwInit: every h/w daemon reports, then the system is declared ready.
THEOREM Refinement ==
    ASSUME PrefixFree
    PROVE  Spec => HwInitImplemented
  <1>1. Init => Abstract!Init
    BY DEF Init, Abstract!Init, EmptyDb
  <1>2. TypeInv /\ LockInv /\ ReportInv /\ [Next]_vars => ReportInv'
    BY ReportStep
  <1>3. QED
    BY TypeInit, TypeStep, LockInit, LockStep, ReportInit, AbstractStep, <1>1, <1>2, PTL
       DEF Spec, HwInitImplemented, Abstract!Spec


-----------------------------------------------------------------------------
(***************************************************************************)
(* No lost wake-up: what is true of an instance that has looked at all its *)
(* session has brought.                                                    *)
(***************************************************************************)

\* p holds the lock, idl_seqno equals the seqno of its replica, and it is not on the
\* way to insert the System row.
Looked(p) ==
    /\ sess[p] /\ hasLock[p] /\ ~ahead[p]
    /\ pc[p] \notin {"down", "push", "pushpart"}

\* p has acted on what it has looked at, and what it has not looked at will wake it.
ServedAt(p) ==
    /\ pc[p] = "down" => ~sess[p]
    /\ pc[p] = "blocked" => ~ahead[p]
    /\ idl[p].done \subseteq idl[p].rows
    /\ sess[p] /\ ~unread[p] => idl[p] = db
    /\ Looked(p) => db.sys > 0 \/ faults["error"] > 0
    /\ Looked(p) /\ pc[p] # "sethw" /\ idl[p].sys > 0 /\ HwDaemons \subseteq idl[p].done =>
          hwInitDone[p]

\* Only daemons with a row have reported.
WakeInv ==
    /\ db.done \subseteq db.rows
    /\ \A p \in Procs : ServedAt(p)

\* When one instance alone manages /etc/localtime, the link is absent between its
\* removal and its renewal, and afterwards it is the replica's zone, if there is one.
LinkAt(p) ==
    /\ pc[p] = "link" => localtime = NoLink
    /\ Looked(p) /\ pc[p] \in {"wait", "blocked", "run", "check"}
       /\ idl[p].sys > 0 /\ idl[p].tz # NoZone =>
          localtime = idl[p].tz

LinkInv == \A p \in Procs : LinkAt(p)

\* No commit has been refused and no session has broken.
NoFault == faults["error"] = 0 /\ faults["disconnect"] = 0

\* Then a holder's session is alive, and the flag says that cur_hw is set.
FlagFacts ==
    \A p \in Procs : (Up(p) /\ hasLock[p] => sess[p]) /\ (hwInitDone[p] => curHw = 1)

\* In any case it says that every h/w daemon has reported.
FlagInv ==
    /\ NoFault => FlagFacts
    /\ \A p \in Procs : hwInitDone[p] => HwDaemons \subseteq db.done

\* An instance that a step does not touch stays served: a change of the database is
\* queued on its session.
LEMMA ServedElsewhere ==
    ASSUME NEW q \in Procs, ServedAt(q),
           pc'[q] = pc[q], sess'[q] = sess[q], idl'[q] = idl[q], hasLock'[q] = hasLock[q],
           ahead'[q] = ahead[q], hwInitDone'[q] = hwInitDone[q],
           unread[q] => unread'[q],
           sess[q] /\ db' # db => unread'[q],
           db.sys > 0 => db'.sys > 0,
           faults["error"] > 0 => faults'["error"] > 0
    PROVE  ServedAt(q)'
  BY DEF ServedAt, Looked

\* A counted fault keeps the count of refused commits from falling.
LEMMA StrikeCounts ==
    ASSUME FaultTypeOK, NEW k \in FaultKinds, Strike(k)
    PROVE  /\ faults["error"] > 0 => faults'["error"] > 0
           /\ k = "error" => faults'["error"] > 0
  <1>1. faults["error"] \in Nat
    BY DEF FaultTypeOK, FaultKinds
  <1>2. QED
    BY <1>1 DEF FaultTypeOK, Strike, FaultKinds

\* The end of p's session leaves the others' alone.
LEMMA DropElsewhere ==
    ASSUME TypeInv, NEW p \in Procs, Drop(p)
    PROVE  ~sess'[p] /\ \A q \in Procs \ {p} : sess'[q] = sess[q] /\ unread'[q] = unread[q]
  BY DEF TypeInv, SessionTypeOK, Drop

\* After a commit the holder has read everything; if its seqno has not moved, nothing
\* has changed, and the transaction was empty or refused.
LEMMA CommitLooked ==
    ASSUME TypeInv, LockInv, WakeInv, NEW p \in Procs, hasLock[p],
           NEW new, NEW hw, Commit(p, new, hw)
    PROVE  /\ hasLock' = hasLock
           /\ idl'[p] = idl[p] \/ idl'[p] = db'
           /\ sess'[p] => sess[p] /\ idl'[p] = db'
           /\ sess'[p] /\ ~ahead'[p] =>
                 /\ ~ahead[p] /\ db' = db /\ idl'[p] = idl[p]
                 /\ new = db \/ faults'["error"] > 0
           /\ db' = db \/ (db' = new /\ sess[p])
           /\ faults["error"] > 0 => faults'["error"] > 0
           /\ \A q \in Procs \ {p} :
                 /\ sess'[q] = sess[q] /\ idl'[q] = idl[q] /\ ahead'[q] = ahead[q]
                 /\ unread[q] => unread'[q]
                 /\ sess[q] /\ db' # db => unread'[q]
  <1> USE DEF TypeInv, SessionTypeOK
  <1>0. sess[p] /\ ~unread[p] => idl[p] = db
    BY DEF WakeInv, ServedAt
  <1>1. CASE CommitOk(p, new, hw)
    BY <1>0, <1>1 DEF CommitOk, Absorb, Notify
  <1>2. CASE CommitError(p)
    <2>1. faults'["error"] > 0
      BY <1>2, StrikeCounts DEF CommitError, FaultKinds
    <2>2. QED
      BY <1>0, <1>2, <2>1 DEF CommitError, server
  <1>3. CASE CommitLost(p, new, hw)
    <2>1. faults["error"] > 0 => faults'["error"] > 0
      BY <1>3, StrikeCounts DEF CommitLost, FaultKinds
    <2>2. QED
      BY <1>3, <2>1 DEF CommitLost, Notify
  <1>4. CASE CommitDead(p)
    BY <1>4 DEF CommitDead, server, session
  <1>5. QED
    BY <1>1, <1>2, <1>3, <1>4 DEF Commit

\* A committing step of p keeps the others served, and p itself if it does for p.
LEMMA WakeCommit ==
    ASSUME TypeInv, LockInv, WakeInv, NEW p \in Procs, hasLock[p], pc[p] \in Working,
           NEW new, NEW hw, Commit(p, new, hw),
           NEW l \in {"pkg", "batch", "tz"}, Goto(p, l),
           \A q \in Procs \ {p} : hwInitDone'[q] = hwInitDone[q],
           new.done \subseteq new.rows,
           db.sys > 0 => new.sys > 0,
           sess'[p] /\ ~ahead'[p] =>
               /\ db'.sys > 0 \/ faults'["error"] > 0
               /\ idl'[p].sys > 0 /\ HwDaemons \subseteq idl'[p].done => hwInitDone'[p]
    PROVE  WakeInv'
  <1>1. /\ db' = db \/ db' = new
        /\ idl'[p] = idl[p] \/ idl'[p] = db'
        /\ sess'[p] => idl'[p] = db'
        /\ hasLock' = hasLock
        /\ faults["error"] > 0 => faults'["error"] > 0
        /\ \A q \in Procs \ {p} :
              /\ sess'[q] = sess[q] /\ idl'[q] = idl[q] /\ ahead'[q] = ahead[q]
              /\ unread[q] => unread'[q]
              /\ sess[q] /\ db' # db => unread'[q]
    BY CommitLooked
  <1>2. db'.done \subseteq db'.rows /\ (db.sys > 0 => db'.sys > 0)
    BY <1>1 DEF WakeInv
  <1>3. pc'[p] = l /\ \A q \in Procs \ {p} : pc'[q] = pc[q]
    BY DEF Goto, TypeInv, ProcessTypeOK
  <1>4. idl'[p].done \subseteq idl'[p].rows
    BY <1>1, <1>2 DEF WakeInv, ServedAt
  <1>5. ServedAt(p)'
    BY <1>1, <1>3, <1>4 DEF ServedAt, Looked
  <1>6. \A q \in Procs \ {p} : ServedAt(q)'
    BY <1>1, <1>2, <1>3, ServedElsewhere DEF WakeInv
  <1>7. QED
    BY <1>2, <1>5, <1>6 DEF WakeInv

\* A step of p that leaves the database and the other instances alone.
LEMMA WakeLocal ==
    ASSUME TypeInv, WakeInv, NEW p \in Procs, UNCHANGED db,
           \A q \in Procs \ {p} :
               /\ pc'[q] = pc[q] /\ sess'[q] = sess[q] /\ idl'[q] = idl[q]
               /\ hasLock'[q] = hasLock[q] /\ ahead'[q] = ahead[q]
               /\ hwInitDone'[q] = hwInitDone[q] /\ unread'[q] = unread[q],
           faults["error"] > 0 => faults'["error"] > 0,
           ServedAt(p)'
    PROVE  WakeInv'
  <1>1. \A q \in Procs \ {p} : ServedAt(q)'
    BY ServedElsewhere DEF WakeInv
  <1>2. QED
    BY <1>1 DEF WakeInv

\* A scan on a replica in which every h/w daemon has reported finds them all.
LEMMA ScanIsComplete ==
    ASSUME NEW p \in Procs, idl[p].done \subseteq idl[p].rows, CanFindNotDone(p)
    PROVE  ~ (HwDaemons \subseteq idl[p].done)
  <1> SUFFICES ASSUME HwDaemons \subseteq idl[p].done
               PROVE  FALSE
    OBVIOUS
  <1>1. \A d \in HwDaemons : d \in MatchingRows(p, d)
    BY DaemonsAssumption DEF MatchingRows
  <1>2. \A d \in HwDaemons : MatchingRows(p, d) \ idl[p].done = {}
    BY DEF MatchingRows
  <1>3. QED
    BY <1>1, <1>2 DEF CanFindNotDone

\* Every step keeps every instance served.
LEMMA WakeStep == TypeInv /\ LockInv /\ WakeInv /\ [Next]_vars => WakeInv'
  <1> SUFFICES ASSUME TypeInv, LockInv, WakeInv, [Next]_vars
               PROVE  WakeInv'
    OBVIOUS
  <1>0. \A p \in Procs : ServedAt(p)
    BY DEF WakeInv
  <1> DEFINE Others(p) ==
        \A q \in Procs \ {p} :
            /\ pc'[q] = pc[q] /\ sess'[q] = sess[q] /\ idl'[q] = idl[q]
            /\ hasLock'[q] = hasLock[q] /\ ahead'[q] = ahead[q]
            /\ hwInitDone'[q] = hwInitDone[q] /\ unread'[q] = unread[q]
  <1>1. ASSUME NEW p \in Procs, Start(p)
        PROVE  WakeInv'
    <2>1. Others(p) /\ UNCHANGED <<db, faults>>
      BY <1>1 DEF Start, Goto, TypeInv, SessionTypeOK, ProcessTypeOK, server
    <2>2. ServedAt(p)'
      BY <1>0, <1>1 DEF Start, Goto, TypeInv, SessionTypeOK, ProcessTypeOK, ServedAt, Looked,
                        EmptyDb
    <2>3. QED
      BY <2>1, <2>2, WakeLocal
  <1>2. ASSUME NEW p \in Procs, IdlRun(p)
        PROVE  WakeInv'
    <2>1. Others(p) /\ UNCHANGED <<db, faults>>
      BY <1>2 DEF IdlRun, Goto, TypeInv, SessionTypeOK, ProcessTypeOK, server
    <2>2. /\ pc[p] = "run" /\ pc'[p] = "check" /\ sess[p] /\ sess'[p] /\ idl'[p] = db
          /\ hasLock'[p] <=> owner = p
          /\ ahead'[p] <=> ahead[p] \/ unread[p] \/ (owner = p /\ ~hasLock[p])
          /\ hwInitDone' = hwInitDone
      BY <1>2 DEF IdlRun, Goto, TypeInv, SessionTypeOK, ProcessTypeOK
    <2>3. Looked(p)' => Looked(p) /\ idl[p] = db
      BY <1>0, <2>2 DEF Looked, ServedAt
    <2>4. ServedAt(p)'
      BY <1>0, <2>1, <2>2, <2>3 DEF ServedAt, WakeInv
    <2>5. QED
      BY <2>1, <2>4, WakeLocal
  <1>3. ASSUME NEW p \in Procs, IdlConnect(p)
        PROVE  WakeInv'
    <2>1. Others(p) /\ UNCHANGED <<db, faults>>
      BY <1>3 DEF IdlConnect, Goto, TypeInv, SessionTypeOK, ProcessTypeOK
    <2>2. pc'[p] = "check" /\ idl'[p] = db /\ ahead'[p]
      BY <1>3 DEF IdlConnect, Goto, TypeInv, SessionTypeOK, ProcessTypeOK
    <2>3. ServedAt(p)'
      BY <2>1, <2>2 DEF ServedAt, Looked, WakeInv
    <2>4. QED
      BY <2>1, <2>3, WakeLocal
  <1>4. ASSUME NEW p \in Procs,
               IdlUnreachable(p) \/ ReturnWithoutLock(p) \/ ReturnUnchanged(p)
               \/ SkipPackages(p) \/ BeginPackages(p) \/ NoTimezone(p)
               \/ UnlinkLocaltime(p) \/ LinkLocaltime(p) \/ LoopAgain(p) \/ Block(p)
               \/ Wake(p) \/ WakeOther(p)
        PROVE  WakeInv'
    <2>1. PICK l \in {"run", "check", "wait", "batch", "tz", "link", "blocked"} :
              /\ Goto(p, l) /\ (l = "blocked" => ~ahead[p])
              /\ pc[p] \notin {"down", "push", "pushpart", "sethw"}
      BY <1>4 DEF IdlUnreachable, ReturnWithoutLock, ReturnUnchanged, SkipPackages,
                  BeginPackages, NoTimezone, UnlinkLocaltime, LinkLocaltime, LoopAgain,
                  Block, Wake, WakeOther
    <2>2. UNCHANGED <<db, session, hwInitDone>>
      BY <1>4 DEF IdlUnreachable, ReturnWithoutLock, ReturnUnchanged, SkipPackages,
                  BeginPackages, NoTimezone, UnlinkLocaltime, LinkLocaltime, LoopAgain,
                  Block, Wake, WakeOther, server
    <2>3. faults["error"] > 0 => faults'["error"] > 0
      <3>1. CASE IdlUnreachable(p)
        BY <3>1, StrikeCounts DEF IdlUnreachable, FaultKinds, TypeInv
      <3>2. CASE UNCHANGED faults
        BY <3>2
      <3>3. QED
        BY <1>4, <3>1, <3>2
           DEF ReturnWithoutLock, ReturnUnchanged, SkipPackages, BeginPackages, NoTimezone,
               UnlinkLocaltime, LinkLocaltime, LoopAgain, Block, Wake, WakeOther
    <2>4. pc'[p] = l /\ Others(p)
      BY <2>1, <2>2 DEF Goto, TypeInv, ProcessTypeOK, session
    <2>5. ServedAt(p)'
      BY <1>0, <2>1, <2>2, <2>3, <2>4 DEF ServedAt, Looked, session
    <2>6. QED
      BY <2>2, <2>3, <2>4, <2>5, WakeLocal
  <1>5. ASSUME NEW p \in Procs,
               Configure(p) \/ ConfigurePartly(p) \/ FindAllDone(p) \/ FindNotDone(p)
        PROVE  WakeInv'
    <2>1. PICK l \in {"push", "pushpart", "sethw", "pkg"} :
              /\ Goto(p, l)
              /\ l \in {"sethw", "pkg"} => ~NotConfigured(p)
              /\ l = "pkg" => hwInitDone[p] \/ CanFindNotDone(p)
      BY <1>5 DEF Configure, ConfigurePartly, FindAllDone, FindNotDone
    <2>2. /\ UNCHANGED <<db, sess, unread, idl, hasLock, hwInitDone>>
          /\ hasLock[p] /\ ahead' = [ahead EXCEPT ![p] = FALSE]
      BY <1>5 DEF Configure, ConfigurePartly, FindAllDone, FindNotDone, SeeChange, server
    <2>3. faults["error"] > 0 => faults'["error"] > 0
      <3>1. CASE ConfigurePartly(p)
        BY <3>1, StrikeCounts DEF ConfigurePartly, FaultKinds, TypeInv
      <3>2. CASE UNCHANGED faults
        BY <3>2
      <3>3. QED
        BY <1>5, <3>1, <3>2 DEF Configure, FindAllDone, FindNotDone
    <2>4. pc'[p] = l /\ Others(p)
      BY <2>1, <2>2 DEF Goto, TypeInv, ProcessTypeOK, SessionTypeOK
    <2>5. sess[p] /\ l \in {"sethw", "pkg"} => db.sys > 0
      BY <2>1, <2>2 DEF NotConfigured, LockInv, ReplicaCurrent, TypeInv, ServerTypeOK, Contents
    <2>6. l = "pkg" /\ HwDaemons \subseteq idl[p].done => hwInitDone[p]
      BY <1>0, <2>1, ScanIsComplete DEF ServedAt
    <2>7. ServedAt(p)'
      BY <1>0, <2>2, <2>4, <2>5, <2>6 DEF ServedAt, Looked
    <2>8. QED
      BY <2>2, <2>3, <2>4, <2>7, WakeLocal
  <1>6. ASSUME NEW p \in Procs, WriteWithoutTxn(p) \/ Exit(p) \/ Crash(p) \/ Disconnect(p)
        PROVE  WakeInv'
    <2>1. /\ Drop(p) /\ UNCHANGED <<db, idl, hasLock, ahead, hwInitDone>>
          /\ Goto(p, "down") \/ UNCHANGED pc
      BY <1>6 DEF WriteWithoutTxn, Exit, Crash, Disconnect, process
    <2>2. faults["error"] > 0 => faults'["error"] > 0
      <3>1. CASE Crash(p) \/ Disconnect(p)
        BY <3>1, StrikeCounts DEF Crash, Disconnect, FaultKinds, TypeInv
      <3>2. CASE UNCHANGED faults
        BY <3>2
      <3>3. QED
        BY <1>6, <3>1, <3>2 DEF WriteWithoutTxn, Exit
    <2>3. /\ pc'[p] = "down" \/ pc'[p] = pc[p]
          /\ ~sess'[p] /\ Others(p)
      BY <2>1, DropElsewhere DEF Goto, TypeInv, ProcessTypeOK
    <2>4. ServedAt(p)'
      BY <1>0, <2>1, <2>3 DEF ServedAt, Looked
    <2>5. QED
      BY <2>1, <2>2, <2>3, <2>4, WakeLocal
  <1>7. ASSUME NEW p \in Procs, Push(p)
        PROVE  WakeInv'
    <2> DEFINE new == Configured(pc[p] = "push")
    <2>1. /\ Commit(p, new, curHw) /\ Goto(p, "pkg") /\ UNCHANGED hwInitDone
          /\ pc[p] \in Working /\ hasLock[p] /\ idl[p].sys = 0
      BY <1>7 DEF Push, LockInv, WorkUnderLock, PushFromEmpty, Working
    <2>2. /\ new.sys = db.sys + 1 /\ db.sys \in Nat
          /\ new.done \subseteq new.rows
      BY DaemonsAssumption DEF Configured, TypeInv, ServerTypeOK, Contents, WakeInv
    <2>3. new # db /\ (db.sys > 0 => new.sys > 0)
      BY <2>2
    <2> HIDE DEF new
    <2>4. sess'[p] /\ ~ahead'[p] => faults'["error"] > 0 /\ idl'[p] = idl[p]
      BY <2>1, <2>3, CommitLooked
    <2>5. sess'[p] /\ ~ahead'[p] => ~(idl'[p].sys > 0)
      BY <2>1, <2>4
    <2>6. QED
      BY <2>1, <2>2, <2>3, <2>4, <2>5, WakeCommit
  <1>8. ASSUME NEW p \in Procs, SetHwDone(p)
        PROVE  WakeInv'
    <2>1. /\ Commit(p, db, 1) /\ Goto(p, "pkg") /\ pc[p] = "sethw" /\ pc[p] \in Working
          /\ hasLock[p] /\ hwInitDone' = [hwInitDone EXCEPT ![p] = TRUE]
      BY <1>8 DEF SetHwDone, LockInv, WorkUnderLock, Working
    <2>2. hwInitDone'[p] /\ \A q \in Procs \ {p} : hwInitDone'[q] = hwInitDone[q]
      BY <2>1 DEF TypeInv, ProcessTypeOK
    <2>3. sess'[p] /\ ~ahead'[p] => Looked(p) /\ db' = db
      BY <2>1, CommitLooked DEF Looked
    <2>4. faults["error"] > 0 => faults'["error"] > 0
      BY <2>1, CommitLooked
    <2>5. sess'[p] /\ ~ahead'[p] => db'.sys > 0 \/ faults'["error"] > 0
      BY <1>0, <2>3, <2>4 DEF ServedAt
    <2>6. db.done \subseteq db.rows
      BY DEF WakeInv
    <2>7. QED
      BY <2>1, <2>2, <2>5, <2>6, WakeCommit
  <1>9. ASSUME NEW p \in Procs, AddPackages(p)
        PROVE  WakeInv'
    <2> DEFINE new == [db EXCEPT !.pkg[batch[p]] = @ + 1]
               l == IF batch[p] < NBatches THEN "batch" ELSE "tz"
    <2>1. /\ Commit(p, new, curHw) /\ Goto(p, l) /\ UNCHANGED hwInitDone
          /\ l \in {"pkg", "batch", "tz"}
          /\ pc[p] = "batch" /\ pc[p] \in Working /\ hasLock[p]
      BY <1>9 DEF AddPackages, LockInv, WorkUnderLock, Working
    <2>2. new.sys = db.sys /\ new.done \subseteq new.rows
      BY DEF TypeInv, ServerTypeOK, Contents, WakeInv
    <2> HIDE DEF new, l
    <2>3. sess'[p] /\ ~ahead'[p] => Looked(p) /\ db' = db /\ idl'[p] = idl[p]
      BY <2>1, CommitLooked DEF Looked
    <2>4. faults["error"] > 0 => faults'["error"] > 0
      BY <2>1, CommitLooked
    <2>5. sess'[p] /\ ~ahead'[p] =>
              /\ db'.sys > 0 \/ faults'["error"] > 0
              /\ idl'[p].sys > 0 /\ HwDaemons \subseteq idl'[p].done => hwInitDone'[p]
      BY <1>0, <2>1, <2>3, <2>4 DEF ServedAt
    <2>6. QED
      BY <2>1, <2>2, <2>5, WakeCommit
  <1>10. ASSUME (\E d \in Daemons : HwDaemonDone(d)) \/ (\E z \in Zones : SetTimezone(z))
         PROVE  WakeInv'
    <2>1. /\ db'.sys = db.sys /\ db'.done \subseteq db'.rows
          /\ UNCHANGED <<sess, idl, hasLock, ahead, pc, hwInitDone, faults>> /\ NotifyAll
      BY <1>10 DEF HwDaemonDone, SetTimezone, process, TypeInv, ServerTypeOK, Contents, WakeInv
    <2>2. \A q \in Procs : (unread[q] => unread'[q]) /\ (sess[q] => unread'[q])
      BY <2>1 DEF NotifyAll
    <2>3. \A q \in Procs : ServedAt(q)'
      BY <1>0, <2>1, <2>2, ServedElsewhere
    <2>4. QED
      BY <2>1, <2>3 DEF WakeInv
  <1>11. ASSUME UNCHANGED <<db, session, pc, hwInitDone>>,
                faults["error"] > 0 => faults'["error"] > 0
         PROVE  WakeInv'
    <2>1. \A q \in Procs : ServedAt(q)'
      BY <1>0, <1>11, ServedElsewhere DEF session
    <2>2. QED
      BY <1>11, <2>1 DEF WakeInv
  <1>12. ASSUME NEW r \in Releases \cup {NoInfo}, ReplaceOsRelease(r)
         PROVE  WakeInv'
    <2>1. faults["error"] > 0 => faults'["error"] > 0
      BY <1>12, StrikeCounts DEF ReplaceOsRelease, FaultKinds, TypeInv
    <2>2. QED
      BY <1>11, <1>12, <2>1 DEF ReplaceOsRelease, server, process
  <1>13. CASE UNCHANGED vars
    BY <1>11, <1>13 DEF vars, server, process
  <1>14. QED
    BY <1>1, <1>2, <1>3, <1>4, <1>5, <1>6, <1>7, <1>8, <1>9, <1>10, <1>12, <1>13
       DEF Next, Step

\* Initially nobody is connected.
LEMMA WakeInit == Init => WakeInv
  BY DEF Init, WakeInv, ServedAt, Looked, EmptyDb

\* No lost wake-up, for any number of instances and any faults: an instance that sleeps
\* in poll_block() with the lock has a current replica, has pushed the System row unless
\* the server refused it, and has noticed the last report of the h/w daemons.
THEOREM SleepersAreServed == Spec => []SettledIsServed
  <1>1. TypeInv /\ LockInv /\ WakeInv => SettledIsServed
    <2> SUFFICES ASSUME TypeInv, WakeInv, NEW p \in Procs, Settled(p)
                 PROVE  /\ idl[p] = db
                        /\ db.sys > 0 \/ faults["error"] > 0
                        /\ AllHwReported => hwInitDone[p]
      BY DEF SettledIsServed
    <2>1. ServedAt(p)
      BY DEF WakeInv
    <2>2. Looked(p) /\ pc[p] # "sethw" /\ idl[p] = db
      BY <2>1 DEF Settled, ServedAt, Looked
    <2>3. QED
      BY <2>1, <2>2 DEF ServedAt, AllHwReported
  <1>2. QED
    BY TypeInit, TypeStep, LockInit, LockStep, WakeInit, WakeStep, <1>1, PTL DEF Spec

-----------------------------------------------------------------------------
(***************************************************************************)
(* The link, when one instance alone manages it.                           *)
(***************************************************************************)

\* Every step of the only instance keeps the link as the replica has it.
LEMMA LinkStep ==
    ASSUME NEW only, Procs = {only}
    PROVE  TypeInv /\ LockInv /\ WakeInv /\ LinkInv /\ [Next]_vars => LinkInv'
  <1> SUFFICES ASSUME TypeInv, LockInv, WakeInv, LinkInv, [Next]_vars
               PROVE  LinkInv'
    OBVIOUS
  <1>0. \A p \in Procs : LinkAt(p) /\ ServedAt(p)
    BY DEF LinkInv, WakeInv
  <1>1. ASSUME NEW p \in Procs, LinkAt(p)'
        PROVE  LinkInv'
    BY <1>1 DEF LinkInv
  <1>2. ASSUME NEW p \in Procs, Start(p) \/ IdlConnect(p)
        PROVE  LinkInv'
    <2>1. pc'[p] # "link" /\ (hasLock'[p] => ahead'[p])
      BY <1>2 DEF Start, IdlConnect, Goto, TypeInv, SessionTypeOK, ProcessTypeOK
    <2>2. QED
      BY <1>1, <2>1 DEF LinkAt, Looked
  <1>3. ASSUME NEW p \in Procs, IdlRun(p)
        PROVE  LinkInv'
    <2>1. /\ pc[p] = "run" /\ pc'[p] = "check" /\ sess[p] /\ idl'[p] = db
          /\ hasLock'[p] <=> owner = p
          /\ ahead'[p] <=> ahead[p] \/ unread[p] \/ (owner = p /\ ~hasLock[p])
          /\ UNCHANGED localtime
      BY <1>3 DEF IdlRun, Goto, TypeInv, SessionTypeOK, ProcessTypeOK, host
    <2>2. Looked(p)' => Looked(p) /\ idl'[p] = idl[p]
      BY <1>0, <2>1 DEF Looked, ServedAt
    <2>3. LinkAt(p)'
      BY <1>0, <2>1, <2>2 DEF LinkAt
    <2>4. QED
      BY <1>1, <2>3
  <1>4. ASSUME NEW p \in Procs,
               IdlUnreachable(p) \/ ReturnWithoutLock(p) \/ ReturnUnchanged(p)
               \/ LoopAgain(p) \/ Block(p) \/ Wake(p) \/ WakeOther(p)
        PROVE  LinkInv'
    <2>1. PICK l \in {"run", "check", "wait", "blocked"} :
              Goto(p, l) /\ pc[p] \in {"run", "check", "wait", "blocked"}
      BY <1>4 DEF IdlUnreachable, ReturnWithoutLock, ReturnUnchanged, LoopAgain, Block,
                  Wake, WakeOther
    <2>2. UNCHANGED <<session, localtime>>
      BY <1>4 DEF IdlUnreachable, ReturnWithoutLock, ReturnUnchanged, LoopAgain, Block,
                  Wake, WakeOther, host
    <2>3. pc'[p] = l
      BY <2>1 DEF Goto, TypeInv, ProcessTypeOK
    <2>4. LinkAt(p)'
      BY <1>0, <2>1, <2>2, <2>3 DEF LinkAt, Looked, session
    <2>5. QED
      BY <1>1, <2>4
  <1>5. ASSUME NEW p \in Procs,
               Configure(p) \/ ConfigurePartly(p) \/ FindAllDone(p) \/ FindNotDone(p)
               \/ Push(p) \/ SetHwDone(p) \/ SkipPackages(p) \/ BeginPackages(p)
               \/ AddPackages(p) \/ WriteWithoutTxn(p) \/ Exit(p) \/ Crash(p)
        PROVE  LinkInv'
    <2>1. PICK l \in {"push", "pushpart", "sethw", "pkg", "batch", "tz", "down"} : Goto(p, l)
      BY <1>5 DEF Configure, ConfigurePartly, FindAllDone, FindNotDone, Push, SetHwDone,
                  SkipPackages, BeginPackages, AddPackages, WriteWithoutTxn, Exit, Crash
    <2>2. pc'[p] = l
      BY <2>1 DEF Goto, TypeInv, ProcessTypeOK
    <2>3. QED
      BY <1>1, <2>2 DEF LinkAt
  <1>6. ASSUME NEW p \in Procs, NoTimezone(p)
        PROVE  LinkInv'
    <2>1. pc'[p] = "wait" /\ (idl'[p].sys = 0 \/ idl'[p].tz = NoZone)
      BY <1>6 DEF NoTimezone, NotConfigured, Goto, session, TypeInv, ProcessTypeOK
    <2>2. QED
      BY <1>1, <2>1 DEF LinkAt
  <1>7. ASSUME NEW p \in Procs, UnlinkLocaltime(p)
        PROVE  LinkInv'
    <2>1. pc'[p] = "link" /\ localtime' = NoLink
      BY <1>7 DEF UnlinkLocaltime, Goto, TypeInv, ProcessTypeOK
    <2>2. QED
      BY <1>1, <2>1 DEF LinkAt
  <1>8. ASSUME NEW p \in Procs, LinkLocaltime(p)
        PROVE  LinkInv'
    <2>1. localtime = NoLink
      BY <1>0, <1>8 DEF LinkLocaltime, LinkAt
    <2>2. pc'[p] = "wait" /\ localtime' = idl'[p].tz
      BY <1>8, <2>1 DEF LinkLocaltime, Goto, session, TypeInv, ProcessTypeOK
    <2>3. QED
      BY <1>1, <2>2 DEF LinkAt
  <1>9. ASSUME NEW p \in Procs, Disconnect(p)
        PROVE  LinkInv'
    <2>1. ~sess'[p] /\ UNCHANGED <<pc, localtime>>
      BY <1>9, DropElsewhere DEF Disconnect, process, host
    <2>2. QED
      BY <1>0, <1>1, <2>1 DEF LinkAt, Looked
  <1>10. ASSUME UNCHANGED <<sess, idl, hasLock, ahead, pc, localtime>>
         PROVE  LinkInv'
    BY <1>10 DEF LinkInv, LinkAt, Looked
  <1>11. ASSUME \/ \E d \in Daemons : HwDaemonDone(d)
                \/ \E z \in Zones : SetTimezone(z)
                \/ \E r \in Releases \cup {NoInfo} : ReplaceOsRelease(r)
                \/ UNCHANGED vars
         PROVE  LinkInv'
    BY <1>10, <1>11 DEF HwDaemonDone, SetTimezone, ReplaceOsRelease, vars, session, host,
                        process
  <1>12. QED
    BY <1>2, <1>3, <1>4, <1>5, <1>6, <1>7, <1>8, <1>9, <1>11 DEF Next, Step

\* When one instance runs alone, whatever faults strike it, it sleeps only with the zone
\* of the System row linked: a zone set during one of its commits included.
THEOREM SleepersAreLinked ==
    ASSUME NEW only, Procs = {only}
    PROVE  Spec => []SettledIsLinked
  <1>1. Init => LinkInv
    BY DEF Init, LinkInv, LinkAt, Looked
  <1>2. TypeInv /\ LockInv /\ WakeInv /\ LinkInv /\ [Next]_vars => LinkInv'
    BY LinkStep
  <1>3. WakeInv /\ LinkInv => SettledIsLinked
    <2> SUFFICES ASSUME WakeInv, LinkInv, NEW p \in Procs, Settled(p),
                        db.sys > 0, db.tz # NoZone
                 PROVE  localtime = db.tz
      BY DEF SettledIsLinked
    <2>1. ServedAt(p) /\ LinkAt(p)
      BY DEF WakeInv, LinkInv
    <2>2. Looked(p) /\ idl[p] = db /\ pc[p] = "blocked"
      BY <2>1 DEF Settled, ServedAt, Looked
    <2>3. QED
      BY <2>1, <2>2 DEF LinkAt
  <1>4. QED
    BY TypeInit, TypeStep, LockInit, LockStep, WakeInit, WakeStep, <1>1, <1>2, <1>3, PTL
       DEF Spec

-----------------------------------------------------------------------------
(***************************************************************************)
(* hw_init_done_set: what it says of the reports, and what it says of      *)
(* cur_hw as long as no commit is refused and no session breaks.           *)
(***************************************************************************)

\* Faults are counted, never forgotten; one that strikes while none of the two kinds
\* has been seen is of another kind.
LEMMA StrikeElse ==
    ASSUME TypeInv, NEW k \in FaultKinds, Strike(k), NoFault'
    PROVE  NoFault /\ k \notin {"error", "disconnect"}
  BY DEF Strike, NoFault, TypeInv, FaultTypeOK, FaultKinds

\* As long as no such fault is seen, a commit of a holder is made.
LEMMA CommitMade ==
    ASSUME TypeInv, FlagFacts, NoFault', NEW p \in Procs, Up(p), hasLock[p],
           NEW new, NEW hw, Commit(p, new, hw)
    PROVE  curHw' = hw /\ UNCHANGED <<sess, hasLock, faults>>
  <1>1. ~CommitError(p) /\ ~CommitLost(p, new, hw)
    BY StrikeElse DEF CommitError, CommitLost, FaultKinds
  <1>2. ~CommitDead(p)
    BY DEF CommitDead, FlagFacts
  <1>3. QED
    BY <1>1, <1>2 DEF Commit, CommitOk

\* A step leaves the counters alone or raises one.
LEMMA FaultsKept ==
    ASSUME TypeInv, [Next]_vars, NoFault'
    PROVE  NoFault
  <1>1. ASSUME NEW k \in FaultKinds, Strike(k)
        PROVE  NoFault
    BY <1>1, StrikeElse
  <1>2. ASSUME UNCHANGED faults
        PROVE  NoFault
    BY <1>2 DEF NoFault
  <1>3. ASSUME NEW p \in Procs, Push(p) \/ SetHwDone(p) \/ AddPackages(p)
        PROVE  NoFault
    <2>1. PICK new, hw : Commit(p, new, hw)
      BY <1>3 DEF Push, SetHwDone, AddPackages
    <2>2. QED
      BY <1>1, <1>2, <2>1 DEF Commit, CommitOk, CommitError, CommitLost, CommitDead, FaultKinds
  <1>4. ASSUME NEW p \in Procs,
               IdlUnreachable(p) \/ ConfigurePartly(p) \/ Crash(p) \/ Disconnect(p)
        PROVE  NoFault
    BY <1>1, <1>4 DEF IdlUnreachable, ConfigurePartly, Crash, Disconnect, FaultKinds
  <1>5. ASSUME NEW r \in Releases \cup {NoInfo}, ReplaceOsRelease(r)
        PROVE  NoFault
    BY <1>1, <1>5 DEF ReplaceOsRelease, FaultKinds
  <1>6. ASSUME NEW p \in Procs,
               Start(p) \/ IdlRun(p) \/ IdlConnect(p) \/ ReturnWithoutLock(p)
               \/ ReturnUnchanged(p) \/ Configure(p) \/ WriteWithoutTxn(p)
               \/ FindAllDone(p) \/ FindNotDone(p) \/ SkipPackages(p)
               \/ BeginPackages(p) \/ NoTimezone(p) \/ UnlinkLocaltime(p)
               \/ LinkLocaltime(p) \/ LoopAgain(p) \/ Block(p) \/ Wake(p)
               \/ WakeOther(p) \/ Exit(p)
        PROVE  NoFault
    BY <1>2, <1>6 DEF Start, IdlRun, IdlConnect, ReturnWithoutLock, ReturnUnchanged,
                      Configure, WriteWithoutTxn, FindAllDone, FindNotDone, SkipPackages,
                      BeginPackages, NoTimezone, UnlinkLocaltime, LinkLocaltime, LoopAgain,
                      Block, Wake, WakeOther, Exit
  <1>7. ASSUME (\E d \in Daemons : HwDaemonDone(d)) \/ (\E z \in Zones : SetTimezone(z))
               \/ UNCHANGED vars
        PROVE  NoFault
    BY <1>2, <1>7 DEF HwDaemonDone, SetTimezone, vars
  <1>8. QED
    BY <1>3, <1>4, <1>5, <1>6, <1>7 DEF Next, Step

\* Without such a fault every step keeps the flag true of cur_hw.
LEMMA FlagFactsStep ==
    ASSUME TypeInv, LockInv, FlagFacts, [Next]_vars, NoFault'
    PROVE  FlagFacts'
  <1>0. \A q \in Procs : (Up(q) /\ hasLock[q] => sess[q]) /\ (hwInitDone[q] => curHw = 1)
    BY DEF FlagFacts
  <1>1. ASSUME NEW p \in Procs, Start(p)
        PROVE  FlagFacts'
    BY <1>1 DEF Start, Goto, server, TypeInv, SessionTypeOK, ProcessTypeOK, FlagFacts,
                FlagTruthful, Up
  <1>2. ASSUME NEW p \in Procs, IdlRun(p) \/ IdlConnect(p)
        PROVE  FlagFacts'
    BY <1>2 DEF IdlRun, IdlConnect, Goto, server, TypeInv, SessionTypeOK, ProcessTypeOK,
                FlagFacts, Up
  <1>3. ASSUME NEW p \in Procs, IdlUnreachable(p) \/ Disconnect(p)
        PROVE  FlagFacts'
    BY <1>3, StrikeElse DEF IdlUnreachable, Disconnect, FaultKinds
  <1>4. ASSUME UNCHANGED <<curHw, sess, hasLock, hwInitDone>>,
               \A q \in Procs : Up(q)' => Up(q)
        PROVE  FlagFacts'
    BY <1>4 DEF FlagFacts
  <1>5. ASSUME NEW p \in Procs,
               ReturnWithoutLock(p) \/ ReturnUnchanged(p) \/ Configure(p)
               \/ ConfigurePartly(p) \/ FindAllDone(p) \/ FindNotDone(p)
               \/ SkipPackages(p) \/ BeginPackages(p) \/ NoTimezone(p)
               \/ UnlinkLocaltime(p) \/ LinkLocaltime(p) \/ LoopAgain(p) \/ Block(p)
               \/ Wake(p) \/ WakeOther(p)
        PROVE  FlagFacts'
    <2>1. UNCHANGED <<curHw, sess, hasLock, hwInitDone>> /\ pc[p] # "down"
      BY <1>5 DEF ReturnWithoutLock, ReturnUnchanged, Configure, ConfigurePartly,
                  FindAllDone, FindNotDone, SeeChange, SkipPackages, BeginPackages,
                  NoTimezone, UnlinkLocaltime, LinkLocaltime, LoopAgain, Block, Wake,
                  WakeOther, server, session
    <2>3. PICK l : Goto(p, l)
      BY <1>5 DEF ReturnWithoutLock, ReturnUnchanged, Configure, ConfigurePartly,
                  FindAllDone, FindNotDone, SkipPackages, BeginPackages, NoTimezone,
                  UnlinkLocaltime, LinkLocaltime, LoopAgain, Block, Wake, WakeOther
    <2>4. \A q \in Procs : Up(q)' => Up(q)
      BY <2>1, <2>3 DEF Goto, Up, TypeInv, ProcessTypeOK
    <2>5. QED
      BY <1>4, <2>1, <2>4
  <1>6. ASSUME NEW p \in Procs, WriteWithoutTxn(p) \/ Exit(p) \/ Crash(p)
        PROVE  FlagFacts'
    <2>1. Goto(p, "down") /\ Drop(p) /\ UNCHANGED <<curHw, hasLock, hwInitDone>>
      BY <1>6 DEF WriteWithoutTxn, Exit, Crash
    <2>3. pc'[p] = "down" /\ \A q \in Procs \ {p} : pc'[q] = pc[q] /\ sess'[q] = sess[q]
      BY <2>1, DropElsewhere DEF Goto, TypeInv, ProcessTypeOK
    <2>4. QED
      BY <1>0, <2>1, <2>3 DEF FlagFacts, Up
  <1>7. ASSUME NEW p \in Procs, Push(p) \/ SetHwDone(p) \/ AddPackages(p)
        PROVE  FlagFacts'
    <2>1. pc[p] \in Working /\ Up(p) /\ hasLock[p]
      BY <1>7 DEF Push, SetHwDone, AddPackages, LockInv, WorkUnderLock, Working, Up
    <2>2. /\ UNCHANGED <<sess, hasLock, faults>>
          /\ SetHwDone(p) => curHw' = 1
          /\ ~SetHwDone(p) => curHw' = curHw
      BY <1>7, <2>1, CommitMade DEF Push, SetHwDone, AddPackages
    <2>3. ~SetHwDone(p) => UNCHANGED hwInitDone
      BY <1>7 DEF Push, AddPackages
    <2>4. \A q \in Procs : Up(q)' => Up(q)
      BY <1>7, <2>1 DEF Push, SetHwDone, AddPackages, Goto, Up, TypeInv, ProcessTypeOK
    <2>5. \A q \in Procs : hwInitDone'[q] => curHw' = 1
      BY <1>0, <2>2, <2>3
    <2>6. QED
      BY <1>0, <2>2, <2>4, <2>5 DEF FlagFacts
  <1>8. ASSUME (\E d \in Daemons : HwDaemonDone(d)) \/ (\E z \in Zones : SetTimezone(z))
               \/ UNCHANGED vars
        PROVE  FlagFacts'
    BY <1>0, <1>4, <1>8 DEF HwDaemonDone, SetTimezone, vars, server, session, process, Up
  <1>9. ASSUME NEW r \in Releases \cup {NoInfo}, ReplaceOsRelease(r)
        PROVE  FlagFacts'
    BY <1>4, <1>9 DEF ReplaceOsRelease, server, session, process, Up
  <1>10. QED
    BY <1>1, <1>2, <1>3, <1>5, <1>6, <1>7, <1>8, <1>9 DEF Next, Step

\* A report the flag rests on is never taken back.
LEMMA FlagStep ==
    TypeInv /\ LockInv /\ ReportInv /\ ReportInv' /\ FlagInv /\ [Next]_vars => FlagInv'
  <1> SUFFICES ASSUME TypeInv, LockInv, ReportInv, ReportInv', FlagInv, [Next]_vars
               PROVE  FlagInv'
    OBVIOUS
  <1>1. NoFault' => FlagFacts'
    BY FaultsKept, FlagFactsStep DEF FlagInv
  <1>2. HwDaemons \subseteq db.done => HwDaemons \subseteq db'.done
    <2>1. [Abstract!Next]_<<db.done \cap HwDaemons, curHw = 1>>
      BY AbstractStep
    <2>2. db.done \cap HwDaemons \subseteq db'.done \cap HwDaemons
      BY <2>1 DEF Abstract!Next, Abstract!Report, Abstract!Declare
    <2>3. QED
      BY <2>2
  <1>3. ASSUME NEW p \in Procs, SetHwDone(p)
        PROVE  HwDaemons \subseteq db.done
    BY <1>3 DEF SetHwDone, ReportInv, DecidedRightly
  <1>4. ASSUME NEW p \in Procs, Start(p)
        PROVE  \A q \in Procs : hwInitDone'[q] => hwInitDone[q]
    BY <1>4 DEF Start, TypeInv, ProcessTypeOK
  <1>5. ASSUME NEW p \in Procs, Step(p) \/ WakeOther(p) \/ Exit(p) \/ Crash(p)
                                \/ Disconnect(p),
               ~SetHwDone(p)
        PROVE  UNCHANGED hwInitDone
    BY <1>5 DEF Step, WakeOther, Exit, Crash, Disconnect, IdlRun, IdlConnect,
                IdlUnreachable, ReturnWithoutLock, ReturnUnchanged, Configure,
                ConfigurePartly, WriteWithoutTxn, FindAllDone, FindNotDone, SeeChange,
                Push, SkipPackages, BeginPackages, AddPackages, NoTimezone,
                UnlinkLocaltime, LinkLocaltime, LoopAgain, Block, Wake, process
  <1>6. ASSUME \/ \E d \in Daemons : HwDaemonDone(d)
               \/ \E z \in Zones : SetTimezone(z)
               \/ \E r \in Releases \cup {NoInfo} : ReplaceOsRelease(r)
               \/ UNCHANGED vars
        PROVE  UNCHANGED hwInitDone
    BY <1>6 DEF HwDaemonDone, SetTimezone, ReplaceOsRelease, vars, process
  <1>7. \/ \A q \in Procs : hwInitDone'[q] => hwInitDone[q]
        \/ HwDaemons \subseteq db.done
    BY <1>3, <1>4, <1>5, <1>6 DEF Next
  <1>8. \A q \in Procs : hwInitDone'[q] => HwDaemons \subseteq db'.done
    BY <1>2, <1>7 DEF FlagInv
  <1>9. QED
    BY <1>1, <1>8 DEF FlagInv

\* With daemon names none of which is a prefix of another, hw_init_done_set is true only
\* when every h/w daemon has reported, under every fault; and cur_hw is then set as long
\* as no commit was refused and no session broke, however often instances crash, exit and
\* take over.  The commit's status, which the code does not look at, is all that the
\* flag's truth depends on.
THEOREM FlagIsTrue ==
    ASSUME PrefixFree
    PROVE  Spec => []FlagTruthful
  <1>1. Init => FlagInv
    BY DEF Init, FlagInv, FlagFacts, Up
  <1>2. TypeInv /\ LockInv /\ ReportInv /\ [Next]_vars => ReportInv'
    BY ReportStep
  <1>3. TypeInv /\ FlagInv => FlagTruthful
    <2> SUFFICES ASSUME TypeInv, FlagInv, NEW p \in Procs, hwInitDone[p]
                 PROVE  /\ HwDaemons \subseteq db.done
                        /\ curHw = 1 \/ faults["error"] > 0 \/ faults["disconnect"] > 0
      BY DEF FlagTruthful
    <2>1. faults["error"] \in Nat /\ faults["disconnect"] \in Nat
      BY DEF TypeInv, FaultTypeOK, FaultKinds
    <2>2. QED
      BY <2>1 DEF FlagInv, NoFault, FlagFacts
  <1>4. QED
    BY TypeInit, TypeStep, LockInit, LockStep, ReportInit, FlagStep, <1>1, <1>2, <1>3, PTL
       DEF Spec
=============================================================================
