---------------------------- MODULE HwScanProofs ----------------------------
(***************************************************************************)
(* The scan of HwScan decides what SysdRun lets it decide, for any number  *)
(* of daemons, any names, and any order of the manifest and of the rows.   *)
(***************************************************************************)
EXTENDS HwScan, FiniteSetTheorems, WellFoundedInduction, TLAPS

TypeInv ==
    /\ HwDaemons \subseteq Daemons
    /\ daemons \in Seq(Daemons)
    /\ num_hw_daemons \in Nat
    /\ rows \in Seq(Daemons)
    /\ i \in Nat /\ i >= 1
    /\ num_found \in Nat
    /\ not_set \in BOOLEAN
    /\ verdict \in {"none", "wait", "done"}
    /\ pc \in {"manifest", "push", "loop", "scan", "ready"}

\* What the phases before the loop have done.
PhaseInv ==
    /\ pc # "manifest" =>
          /\ ToSet(daemons) = Daemons
          /\ num_hw_daemons = 0 <=> HwDaemons = {}
    /\ pc \in {"manifest", "push"} => rows = <<>> /\ verdict = "none"
    /\ rows = <<>> \/ ToSet(rows) = Daemons

\* What the scan has recorded of daemon d.
Recorded(d) ==
    d \in HwDaemons /\ MatchingRows(d) # {} =>
        MatchingRows(d) \cap done # {} /\ num_found > 0

\* The locals of the scan say what it has seen so far.
ScanInv ==
    pc = "scan" =>
        /\ HwDaemons # {}
        /\ num_found > 0 => \E d \in HwDaemons : MatchingRows(d) # {}
        /\ not_set => \E d \in HwDaemons : MatchingRows(d) \ done # {}
        /\ ~not_set => \A k \in 1..Len(daemons) : k < i => Recorded(daemons[k])

Inv == TypeInv /\ PhaseInv /\ ScanInv /\ ScanIsCanFind

-----------------------------------------------------------------------------
\* A set of row numbers that is not empty has a smallest member.
LEMMA MinOfRows ==
    ASSUME NEW S, S \subseteq Nat, S # {}
    PROVE  Min(S) \in S
<1> DEFINE Less == OpToRel(<, Nat)
<1>1. IsWellFoundedOn(Less, Nat)
  BY NatLessThanWellFounded
<1> HIDE DEF Less
<1>2. PICK x \in S : \A y \in S : ~ (<<y, x>> \in Less)
  BY <1>1, WFMin
<1>3. \A y \in S : x =< y
  <2>1. SUFFICES ASSUME NEW y \in S, ~ (x =< y) PROVE FALSE
    OBVIOUS
  <2>2. x \in Nat /\ y \in Nat /\ y < x
    BY <2>1
  <2>3. <<y, x>> \in Less
    BY <2>2 DEF Less, OpToRel
  <2>. QED  BY <1>2, <2>3
<1>. QED  BY <1>2, <1>3 DEF Min

\* The row the scan stops at is one that may stand for the daemon.
LEMMA FirstMatch ==
    ASSUME TypeInv, NEW d \in Daemons
    PROVE  /\ Matching(d) = {} <=> MatchingRows(d) = {}
           /\ Matching(d) # {} => rows[Min(Matching(d))] \in MatchingRows(d)
<1>1. Matching(d) \subseteq Nat
  BY DEF Matching, TypeInv
<1>2. \A k \in Matching(d) : rows[k] \in MatchingRows(d)
  BY DEF Matching, MatchingRows, ToSet, TypeInv
<1>3. ASSUME NEW r \in MatchingRows(d) PROVE \E k \in Matching(d) : rows[k] = r
  <2>1. PICK k \in DOMAIN rows : rows[k] = r
    BY DEF MatchingRows, ToSet
  <2>2. k \in Matching(d)
    BY <2>1 DEF MatchingRows, Matching, TypeInv
  <2>. QED  BY <2>1, <2>2
<1>4. Matching(d) # {} => Min(Matching(d)) \in Matching(d)
  BY <1>1, MinOfRows
<1>. QED  BY <1>2, <1>3, <1>4

\* num_hw_daemons is zero exactly if the manifest names no h/w daemon.
LEMMA CountIsZero ==
    ASSUME TypeInv, ToSet(daemons) = Daemons
    PROVE  LET hw == {k \in 1..Len(daemons) : daemons[k] \in HwDaemons} IN
           /\ Cardinality(hw) \in Nat
           /\ Cardinality(hw) = 0 <=> HwDaemons = {}
<1> DEFINE hw == {k \in 1..Len(daemons) : daemons[k] \in HwDaemons}
<1>1. Len(daemons) \in Nat
  BY DEF TypeInv
<1>2. IsFiniteSet(hw)
  <2>1. IsFiniteSet(1..Len(daemons))
    BY <1>1, FS_Interval
  <2>2. hw \in SUBSET (1..Len(daemons))
    OBVIOUS
  <2>. QED  BY <2>1, <2>2, FS_Subset
<1>3. Cardinality(hw) \in Nat /\ (Cardinality(hw) = 0 <=> hw = {})
  BY <1>2, FS_CardinalityType, FS_EmptySet
<1>4. ASSUME NEW d \in HwDaemons PROVE hw # {}
  <2>1. d \in ToSet(daemons)
    BY DEF TypeInv
  <2>2. PICK k \in DOMAIN daemons : daemons[k] = d
    BY <2>1 DEF ToSet
  <2>3. k \in hw
    BY <2>2 DEF TypeInv
  <2>. QED  BY <2>3
<1>. QED  BY <1>3, <1>4

-----------------------------------------------------------------------------
LEMMA InitEstablishes == Init => Inv
<1> SUFFICES ASSUME Init PROVE Inv
  OBVIOUS
<1>1. TypeInv
  <2>1. not_set \in BOOLEAN
    BY Zenon DEF Init
  <2>2. <<>> \in Seq(Daemons)
    OBVIOUS
  <2>. QED  BY <2>1, <2>2 DEF Init, TypeInv
<1>2. PhaseInv /\ ScanInv /\ ScanIsCanFind
  BY DEF Init, PhaseInv, ScanInv, ScanIsCanFind
<1>. QED  BY <1>1, <1>2 DEF Inv

LEMMA ReadDaemonKeeps == Inv /\ ReadDaemon => Inv'
<1> SUFFICES ASSUME Inv, ReadDaemon PROVE Inv'
  OBVIOUS
<1>1. PICK d \in Daemons : daemons' = Append(daemons, d)
  BY DEF ReadDaemon
<1>2. TypeInv'
  BY <1>1 DEF Inv, TypeInv, ReadDaemon, locals
<1>3. PhaseInv' /\ ScanInv' /\ ScanIsCanFind'
  BY DEF Inv, PhaseInv, ScanInv, ScanIsCanFind, ReadDaemon, locals
<1>. QED  BY <1>2, <1>3 DEF Inv

LEMMA SetNumHwDaemonsKeeps == Inv /\ SetNumHwDaemons => Inv'
<1> SUFFICES ASSUME Inv, SetNumHwDaemons PROVE Inv'
  OBVIOUS
<1>1. num_hw_daemons' \in Nat /\ (num_hw_daemons' = 0 <=> HwDaemons = {})
  BY CountIsZero DEF Inv, SetNumHwDaemons
<1>2. TypeInv'
  BY <1>1 DEF Inv, TypeInv, SetNumHwDaemons, locals
<1>3. PhaseInv'
  BY <1>1 DEF Inv, PhaseInv, SetNumHwDaemons
<1>4. ScanInv' /\ ScanIsCanFind'
  BY DEF Inv, PhaseInv, ScanInv, ScanIsCanFind, SetNumHwDaemons
<1>. QED  BY <1>2, <1>3, <1>4 DEF Inv

LEMMA PushDaemonsKeeps == Inv /\ PushDaemons => Inv'
<1> SUFFICES ASSUME Inv, PushDaemons PROVE Inv'
  OBVIOUS
<1>1. rows' \in Seq(Daemons) /\ (rows' = <<>> \/ ToSet(rows') = Daemons)
  <2>1. CASE rows' \in {s \in SeqsOver(Daemons) : ToSet(s) = Daemons}
    <3>1. PICK n \in 0..Cardinality(Daemons) : rows' \in [1..n -> Daemons]
      BY <2>1 DEF SeqsOver
    <3>2. n \in Nat
      BY DaemonsAssumption, FS_CardinalityType
    <3>. QED  BY <2>1, <3>1, <3>2
  <2>2. CASE UNCHANGED rows
    BY <2>2 DEF Inv, TypeInv, PhaseInv
  <2>. QED  BY <2>1, <2>2 DEF PushDaemons
<1>2. TypeInv'
  BY <1>1 DEF Inv, TypeInv, PushDaemons, locals
<1>3. PhaseInv'
  BY <1>1 DEF Inv, PhaseInv, PushDaemons
<1>4. ScanInv' /\ ScanIsCanFind'
  BY DEF Inv, PhaseInv, ScanInv, ScanIsCanFind, PushDaemons
<1>. QED  BY <1>2, <1>3, <1>4 DEF Inv

LEMMA ReportKeeps == ASSUME Inv, NEW d \in Daemons, Report(d) PROVE Inv'
<1>1. TypeInv'
  BY DEF Inv, TypeInv, Report, locals
<1>2. PhaseInv' /\ ScanInv' /\ ScanIsCanFind'
  BY DEF Inv, PhaseInv, ScanInv, ScanIsCanFind, Report
<1>. QED  BY <1>1, <1>2 DEF Inv

LEMMA BeginScanKeeps == Inv /\ BeginScan => Inv'
<1> SUFFICES ASSUME Inv, BeginScan PROVE Inv'
  OBVIOUS
<1>1. TypeInv'
  <2>1. not_set' \in BOOLEAN
    BY Zenon DEF BeginScan
  <2>. QED  BY <2>1 DEF Inv, TypeInv, BeginScan
<1>2. PhaseInv'
  BY DEF Inv, PhaseInv, BeginScan
<1>3. ScanInv'
  BY DEF Inv, TypeInv, PhaseInv, ScanInv, BeginScan
<1>4. ScanIsCanFind'
  <2>1. CASE num_hw_daemons = 0
    BY <2>1 DEF Inv, PhaseInv, BeginScan, ScanIsCanFind, CanFindAllDone
  <2>2. CASE num_hw_daemons # 0
    BY <2>2 DEF Inv, BeginScan, ScanIsCanFind, CanFindAllDone, CanFindNotDone, MatchingRows
  <2>. QED  BY <2>1, <2>2
<1>. QED  BY <1>1, <1>2, <1>3, <1>4 DEF Inv

LEMMA ScanDaemonKeeps == Inv /\ ScanDaemon => Inv'
<1> SUFFICES ASSUME Inv, ScanDaemon PROVE Inv'
  OBVIOUS
<1> DEFINE d == daemons[i]
           found == Matching(d)
<1>1. pc = "scan" /\ ~not_set /\ i \in 1..Len(daemons) /\ i' = i + 1
  BY DEF Inv, TypeInv, ScanDaemon
<1>2. d \in Daemons
  BY <1>1 DEF Inv, TypeInv
<1>3. UNCHANGED <<HwDaemons, daemons, num_hw_daemons, rows, done, verdict, pc>>
  BY DEF ScanDaemon
<1>4. /\ found = {} <=> MatchingRows(d) = {}
      /\ found # {} => rows[Min(found)] \in MatchingRows(d)
  BY <1>2, FirstMatch DEF Inv
<1>5. \A e : MatchingRows(e)' = MatchingRows(e)
  BY <1>3 DEF MatchingRows
<1>6. TypeInv'
  <2>1. num_found' \in {num_found, num_found + 1}
    BY DEF ScanDaemon
  <2>2. not_set' = not_set \/ not_set' = TRUE
    BY Zenon DEF ScanDaemon
  <2>3. not_set' \in BOOLEAN
    BY <2>2, Zenon DEF Inv, TypeInv
  <2>4. num_found' \in Nat /\ i' \in Nat /\ i' >= 1
    BY <1>1, <2>1 DEF Inv, TypeInv
  <2>. QED  BY <1>3, <2>3, <2>4 DEF Inv, TypeInv
<1>7. PhaseInv'
  BY <1>3 DEF Inv, PhaseInv
<1>8. ScanIsCanFind'
  BY <1>3 DEF Inv, ScanIsCanFind, CanFindAllDone, CanFindNotDone, MatchingRows
<1>9. ScanInv'
  <2>1. CASE d \in HwDaemons /\ found # {} /\ rows[Min(found)] \in done
    <3>1. num_found' = num_found + 1 /\ not_set' = not_set
      BY <2>1 DEF ScanDaemon
    <3>2. MatchingRows(d) # {} /\ MatchingRows(d) \cap done # {}
      BY <1>4, <2>1
    <3>3. num_found' > 0
      BY <3>1 DEF Inv, TypeInv
    <3>4. ASSUME NEW k \in 1..Len(daemons), k < i + 1 PROVE Recorded(daemons[k])'
      <4>1. CASE k < i
        <5>1. Recorded(daemons[k])
          BY <1>1, <4>1 DEF Inv, ScanInv
        <5>. QED  BY <1>3, <1>5, <3>3, <5>1 DEF Recorded
      <4>2. CASE k = i
        BY <1>3, <1>5, <3>2, <3>3, <4>2 DEF Recorded
      <4>. QED  BY <1>1, <3>4, <4>1, <4>2
    <3>. QED  BY <1>1, <1>3, <1>5, <2>1, <3>1, <3>2, <3>4 DEF Inv, ScanInv
  <2>2. CASE d \in HwDaemons /\ found # {} /\ rows[Min(found)] \notin done
    <3>1. num_found' = num_found /\ not_set' = TRUE
      BY <2>2 DEF ScanDaemon
    <3>2. MatchingRows(d) \ done # {}
      BY <1>4, <2>2
    <3>. QED  BY <1>1, <1>3, <1>5, <2>2, <3>1, <3>2 DEF Inv, ScanInv
  <2>3. CASE ~ (d \in HwDaemons /\ found # {})
    <3>1. num_found' = num_found /\ not_set' = not_set
      BY <2>3 DEF ScanDaemon
    <3>2. ASSUME NEW k \in 1..Len(daemons), k < i + 1 PROVE Recorded(daemons[k])'
      <4>1. CASE k < i
        <5>1. Recorded(daemons[k])
          BY <1>1, <4>1 DEF Inv, ScanInv
        <5>. QED  BY <1>3, <1>5, <3>1, <5>1 DEF Recorded
      <4>2. CASE k = i
        BY <1>3, <1>4, <1>5, <2>3, <4>2 DEF Recorded
      <4>. QED  BY <1>1, <3>2, <4>1, <4>2
    <3>. QED  BY <1>1, <1>3, <1>5, <3>1, <3>2 DEF Inv, ScanInv
  <2>. QED  BY <2>1, <2>2, <2>3
<1>. QED  BY <1>6, <1>7, <1>8, <1>9 DEF Inv

LEMMA EndScanKeeps == Inv /\ EndScan => Inv'
<1> SUFFICES ASSUME Inv, EndScan PROVE Inv'
  OBVIOUS
<1>1. UNCHANGED <<HwDaemons, daemons, num_hw_daemons, rows, done, i, num_found, not_set>>
  BY DEF EndScan, locals
<1>2. TypeInv'
  BY <1>1 DEF Inv, TypeInv, EndScan
<1>3. PhaseInv'
  BY <1>1 DEF Inv, PhaseInv, EndScan
<1>4. ScanInv'
  BY DEF EndScan, ScanInv
<1>5. pc = "scan" /\ ToSet(daemons) = Daemons /\ HwDaemons # {}
  BY DEF EndScan, Inv, PhaseInv, ScanInv
<1>6. ASSUME ~not_set, NEW d \in HwDaemons PROVE Recorded(d)
  <2>1. PICK k \in 1..Len(daemons) : daemons[k] = d
    BY <1>5 DEF Inv, TypeInv, ToSet
  <2>2. k < i
    BY <1>6 DEF EndScan, Inv, TypeInv
  <2>. QED  BY <1>5, <1>6, <2>1, <2>2 DEF Inv, ScanInv
<1>7. ASSUME not_set \/ num_found = 0 PROVE CanFindNotDone
  <2>1. CASE not_set
    BY <1>5, <2>1 DEF Inv, ScanInv, CanFindNotDone
  <2>2. CASE ~not_set /\ num_found = 0
    <3>1. \A d \in HwDaemons : MatchingRows(d) = {}
      BY <1>6, <2>2 DEF Recorded
    <3>. QED  BY <1>5, <3>1 DEF CanFindNotDone
  <2>. QED  BY <1>7, <2>1, <2>2
<1>8. ASSUME ~not_set, num_found # 0 PROVE CanFindAllDone
  <2>1. \E d \in HwDaemons : MatchingRows(d) # {}
    BY <1>5, <1>8 DEF Inv, TypeInv, ScanInv
  <2>2. \A d \in HwDaemons : MatchingRows(d) # {} => MatchingRows(d) \cap done # {}
    BY <1>6, <1>8 DEF Recorded
  <2>. QED  BY <2>1, <2>2 DEF CanFindAllDone
<1>9. ScanIsCanFind'
  <2>1. (CanFindAllDone' <=> CanFindAllDone) /\ (CanFindNotDone' <=> CanFindNotDone)
    BY <1>1 DEF CanFindAllDone, CanFindNotDone, MatchingRows
  <2>2. verdict' = "done" => CanFindAllDone
    BY <1>8 DEF EndScan
  <2>3. verdict' = "wait" => CanFindNotDone
    BY <1>7 DEF EndScan
  <2>. QED  BY <2>1, <2>2, <2>3 DEF ScanIsCanFind
<1>. QED  BY <1>2, <1>3, <1>4, <1>9 DEF Inv

LEMMA IdleKeeps == Inv /\ (Dump \/ UNCHANGED vars) => Inv'
<1> SUFFICES ASSUME Inv, Dump \/ UNCHANGED vars PROVE Inv'
  OBVIOUS
<1>1. UNCHANGED <<HwDaemons, daemons, num_hw_daemons, rows, done, locals, verdict, pc>>
  BY DEF Dump, vars
<1>2. TypeInv'
  BY <1>1 DEF Inv, TypeInv, locals
<1>3. PhaseInv'
  BY <1>1 DEF Inv, PhaseInv
<1>4. ScanInv' /\ ScanIsCanFind'
  BY <1>1 DEF Inv, ScanInv, ScanIsCanFind, Recorded, MatchingRows, CanFindAllDone,
              CanFindNotDone, locals
<1>. QED  BY <1>2, <1>3, <1>4 DEF Inv

\* The invariant holds in every reachable state.
THEOREM Invariance == Spec => []Inv
<1>1. Inv /\ [Next]_vars => Inv'
  BY ReadDaemonKeeps, SetNumHwDaemonsKeeps, PushDaemonsKeeps, ReportKeeps, BeginScanKeeps,
     ScanDaemonKeeps, EndScanKeeps, IdleKeeps DEF Next
<1>. QED  BY InitEstablishes, <1>1, PTL DEF Spec

-----------------------------------------------------------------------------
\* The loop of sysd_chk_if_hw_daemons_done() decides only what its description in
\* SysdRun allows.
THEOREM ScanSound == Spec => []ScanIsCanFind
<1>1. Inv => ScanIsCanFind
  BY DEF Inv
<1>. QED  BY Invariance, <1>1, PTL

\* A daemon that has not reported is passed over only for a namesake that has.
THEOREM NamesakesOnly == Spec => []OnlyNamesakesHide
<1>1. Inv => OnlyNamesakesHide
  <2> SUFFICES ASSUME Inv, verdict = "done", NEW d \in HwDaemons \ done
               PROVE  (NameExtends[d] \ {d}) \cap done # {}
    BY DEF OnlyNamesakesHide
  <2>1. CanFindAllDone
    BY DEF Inv, ScanIsCanFind
  <2>2. PICK e \in HwDaemons : MatchingRows(e) # {}
    BY <2>1 DEF CanFindAllDone
  <2>3. ToSet(rows) = Daemons
    BY <2>2 DEF Inv, PhaseInv, MatchingRows, ToSet
  <2>4. d \in MatchingRows(d)
    BY <2>3, DaemonsAssumption DEF Inv, TypeInv, MatchingRows
  <2>5. MatchingRows(d) \cap done # {}
    BY <2>1, <2>4 DEF CanFindAllDone
  <2>. QED  BY <2>5 DEF MatchingRows
<1>. QED  BY Invariance, <1>1, PTL

\* A scan that waits has somebody to wait for, unless the push left no rows.
THEOREM WaitingIsFor == Spec => []WaitsForSomeone
<1>1. Inv => WaitsForSomeone
  <2> SUFFICES ASSUME Inv, verdict = "wait", rows # <<>>
               PROVE  HwDaemons \ done # {}
    BY DEF WaitsForSomeone
  <2>1. CanFindNotDone
    BY DEF Inv, ScanIsCanFind
  <2>2. ToSet(rows) = Daemons
    BY DEF Inv, PhaseInv
  <2>3. \A d \in HwDaemons : d \in MatchingRows(d)
    BY <2>2, DaemonsAssumption DEF Inv, TypeInv, MatchingRows
  <2>4. PICK d \in HwDaemons : MatchingRows(d) \ done # {}
    BY <2>1, <2>3 DEF CanFindNotDone
  <2>. QED  BY <2>4 DEF MatchingRows
<1>. QED  BY Invariance, <1>1, PTL

-----------------------------------------------------------------------------
(***************************************************************************)
(* Types: no daemon is named twice, and the counts stay in their bounds.   *)
(***************************************************************************)

\* Where daemons[] has h/w daemons, and where the scan has met them.
HwPlaces == {k \in 1..Len(daemons) : daemons[k] \in HwDaemons}
HwSeen   == {k \in HwPlaces : k < i}

CountInv ==
    /\ daemons \in SeqsOver(Daemons)
    /\ rows \in SeqsOver(Daemons)
    /\ shown \in SeqsOver(Daemons)
    /\ done \subseteq ToSet(rows)
    /\ i \in 1..Len(daemons) + 1
    /\ pc = "manifest" => num_hw_daemons = 0
    /\ pc # "manifest" => num_hw_daemons = Cardinality(HwPlaces)
    /\ num_found <= num_hw_daemons
    /\ pc = "scan" => num_found <= Cardinality(HwSeen)

\* A sequence without repetition is as long as its set is large, at most.
LEMMA SeqsOverIs ==
    ASSUME NEW s
    PROVE  s \in SeqsOver(Daemons) <=> s \in Seq(Daemons) /\ IsInjective(s)
<1>0. Cardinality(Daemons) \in Nat
  BY DaemonsAssumption, FS_CardinalityType
<1>1. ASSUME s \in SeqsOver(Daemons) PROVE s \in Seq(Daemons) /\ IsInjective(s)
  <2>1. PICK n \in 0..Cardinality(Daemons) : s \in [1..n -> Daemons]
    BY <1>1 DEF SeqsOver
  <2>. QED  BY <1>0, <1>1, <2>1 DEF SeqsOver
<1>2. ASSUME s \in Seq(Daemons), IsInjective(s) PROVE s \in SeqsOver(Daemons)
  <2>1. Len(s) \in Nat /\ s \in [1..Len(s) -> Daemons]
    BY <1>2
  <2>2. s \in Injection(1..Len(s), Daemons)
    BY <1>2, <2>1 DEF Injection
  <2>3. Cardinality(1..Len(s)) <= Cardinality(Daemons)
    BY <2>2, DaemonsAssumption, FS_Injection
  <2>4. Cardinality(1..Len(s)) = Len(s)
    BY <2>1, FS_Interval
  <2>5. Len(s) \in 0..Cardinality(Daemons)
    BY <1>0, <2>1, <2>3, <2>4
  <2>. QED  BY <1>2, <2>1, <2>5 DEF SeqsOver
<1>. QED  BY <1>1, <1>2

\* The h/w daemons are counted once each, and the scan has met no more of them.
LEMMA PlacesCount ==
    ASSUME TypeInv, IsInjective(daemons)
    PROVE  /\ IsFiniteSet(HwPlaces) /\ Cardinality(HwPlaces) \in Nat
           /\ Cardinality(HwPlaces) <= Len(daemons)
           /\ Cardinality(HwPlaces) <= Cardinality(HwDaemons)
           /\ IsFiniteSet(HwSeen) /\ Cardinality(HwSeen) \in Nat
<1>1. Len(daemons) \in Nat /\ daemons \in [1..Len(daemons) -> Daemons]
  BY DEF TypeInv
<1>2. IsFiniteSet(1..Len(daemons)) /\ Cardinality(1..Len(daemons)) = Len(daemons)
  BY <1>1, FS_Interval
<1>3. HwPlaces \in SUBSET (1..Len(daemons)) /\ HwSeen \in SUBSET HwPlaces
  BY DEF HwPlaces, HwSeen
<1>4. IsFiniteSet(HwPlaces) /\ Cardinality(HwPlaces) <= Len(daemons)
  BY <1>2, <1>3, FS_Subset
<1>5. IsFiniteSet(HwSeen)
  BY <1>3, <1>4, FS_Subset
<1>6. IsFiniteSet(HwDaemons)
  BY DaemonsAssumption, FS_Subset DEF TypeInv
<1> DEFINE f == [k \in HwPlaces |-> daemons[k]]
<1>7. f \in Injection(HwPlaces, HwDaemons)
  <2>1. f \in [HwPlaces -> HwDaemons]
    BY DEF HwPlaces
  <2>2. ASSUME NEW a \in HwPlaces, NEW b \in HwPlaces, f[a] = f[b] PROVE a = b
    BY <1>1, <1>3, <2>2 DEF IsInjective
  <2>. QED  BY <2>1, <2>2 DEF Injection, IsInjective
<1>8. Cardinality(HwPlaces) <= Cardinality(HwDaemons)
  BY <1>6, <1>7, FS_Injection
<1>. QED  BY <1>4, <1>5, <1>8, FS_CardinalityType

LEMMA CountStep == Inv /\ CountInv /\ [Next]_vars => CountInv'
<1> SUFFICES ASSUME Inv, CountInv, [Next]_vars PROVE CountInv'
  OBVIOUS
<1>0. /\ TypeInv /\ daemons \in Seq(Daemons) /\ Len(daemons) \in Nat
      /\ i \in Nat /\ num_hw_daemons \in Nat /\ num_found \in Nat
      /\ IsInjective(daemons)
  BY SeqsOverIs DEF Inv, TypeInv, CountInv
<1>1. CASE ReadDaemon
  <2>1. PICK d \in Daemons \ ToSet(daemons) : daemons' = Append(daemons, d)
    BY <1>1 DEF ReadDaemon
  <2>2. Len(daemons') = Len(daemons) + 1 /\ daemons' \in Seq(Daemons)
        /\ \A k \in 1..Len(daemons) : daemons'[k] = daemons[k] /\ daemons[k] # d
        /\ daemons'[Len(daemons) + 1] = d /\ DOMAIN daemons' = 1..Len(daemons) + 1
    BY <1>0, <2>1 DEF ToSet
  <2>3. \A k \in 1..Len(daemons) + 1 : k \in 1..Len(daemons) \/ k = Len(daemons) + 1
    BY <1>0
  <2>4. IsInjective(daemons')
    <3>1. ASSUME NEW a \in 1..Len(daemons) + 1, NEW b \in 1..Len(daemons) + 1,
                 daemons'[a] = daemons'[b]
          PROVE  a = b
      <4>1. CASE a \in 1..Len(daemons) /\ b \in 1..Len(daemons)
        BY <1>0, <2>2, <3>1, <4>1 DEF IsInjective
      <4>2. CASE a = Len(daemons) + 1 \/ b = Len(daemons) + 1
        BY <2>2, <2>3, <3>1, <4>2
      <4>. QED  BY <2>3, <4>1, <4>2
    <3>. QED  BY <2>2, <3>1 DEF IsInjective
  <2>5. daemons' \in SeqsOver(Daemons)
    BY <2>2, <2>4, SeqsOverIs
  <2>6. i' \in 1..Len(daemons') + 1
    BY <1>0, <1>1, <2>2 DEF ReadDaemon, locals, CountInv
  <2>. QED  BY <1>1, <2>5, <2>6 DEF ReadDaemon, locals, CountInv
<1>2. CASE SetNumHwDaemons
  <2>1. UNCHANGED <<HwDaemons, daemons, rows, done, i, num_found, shown>> /\ pc' = "push"
        /\ num_hw_daemons' = Cardinality(HwPlaces) /\ pc = "manifest"
    BY <1>2 DEF SetNumHwDaemons, locals, HwPlaces
  <2>2. HwPlaces' = HwPlaces
    BY <2>1 DEF HwPlaces
  <2>3. num_found' <= num_hw_daemons'
    BY <1>0, <2>1, PlacesCount DEF CountInv
  <2>. QED  BY <2>1, <2>2, <2>3 DEF CountInv
<1>3. CASE PushDaemons
  <2>1. UNCHANGED <<HwDaemons, daemons, num_hw_daemons, i, num_found, shown>>
        /\ pc' = "loop" /\ pc = "push"
    BY <1>3 DEF PushDaemons, locals
  <2>2. rows' \in SeqsOver(Daemons) /\ done' \subseteq ToSet(rows')
    BY <1>3, DaemonsAssumption DEF PushDaemons, CountInv
  <2>. QED  BY <2>1, <2>2 DEF CountInv, HwPlaces
<1>4. ASSUME NEW d \in Daemons, Report(d) PROVE CountInv'
  BY <1>4 DEF Report, locals, CountInv, HwPlaces
<1>5. CASE BeginScan
  <2>1. UNCHANGED <<HwDaemons, daemons, num_hw_daemons, rows, done, shown>>
        /\ pc = "loop" /\ pc' # "manifest" /\ i' = 1 /\ num_found' = 0
    BY <1>5 DEF BeginScan
  <2>2. HwPlaces' = HwPlaces /\ HwSeen' = {k \in HwPlaces : k < i'}
    BY <2>1 DEF HwPlaces, HwSeen
  <2>3. HwSeen' = {}
    BY <1>0, <2>1, <2>2 DEF HwPlaces
  <2>4. Cardinality(HwSeen') = 0
    BY <2>3, FS_EmptySet
  <2>5. num_found' <= num_hw_daemons' /\ i' \in 1..Len(daemons') + 1
    BY <1>0, <2>1
  <2>. QED  BY <2>1, <2>2, <2>4, <2>5 DEF CountInv
<1>6. CASE ScanDaemon
  <2>1. UNCHANGED <<HwDaemons, daemons, num_hw_daemons, rows, done, shown, pc>>
        /\ pc = "scan" /\ i' = i + 1 /\ i <= Len(daemons)
    BY <1>6 DEF ScanDaemon
  <2>2. HwPlaces' = HwPlaces /\ HwSeen' = {k \in HwPlaces : k < i + 1}
    BY <2>1 DEF HwPlaces, HwSeen
  <2>3. i \in 1..Len(daemons) /\ i' \in 1..Len(daemons') + 1
    BY <1>0, <2>1 DEF CountInv
  <2>4. /\ IsFiniteSet(HwPlaces) /\ Cardinality(HwPlaces) \in Nat
        /\ IsFiniteSet(HwSeen) /\ Cardinality(HwSeen) \in Nat
    BY <1>0, PlacesCount
  <2>5. num_found' <= Cardinality(HwSeen') /\ Cardinality(HwSeen') <= num_hw_daemons
    <3>1. HwSeen' \in SUBSET HwPlaces
      BY <2>2
    <3>2. Cardinality(HwSeen') <= num_hw_daemons
      BY <2>1, <2>4, <3>1, FS_Subset DEF CountInv
    <3>3. CASE i \in HwPlaces
      <4>1. HwSeen' = HwSeen \cup {i} /\ i \notin HwSeen
        BY <1>0, <2>2, <3>3 DEF HwSeen, HwPlaces
      <4>2. Cardinality(HwSeen') = Cardinality(HwSeen) + 1
        BY <2>4, <4>1, FS_AddElement
      <4>3. num_found' \in {num_found, num_found + 1}
        BY <1>6 DEF ScanDaemon
      <4>. QED  BY <1>0, <2>1, <2>4, <3>2, <4>2, <4>3 DEF CountInv
    <3>4. CASE i \notin HwPlaces
      <4>1. daemons[i] \notin HwDaemons
        BY <2>3, <3>4 DEF HwPlaces
      <4>2. num_found' = num_found
        BY <1>6, <4>1 DEF ScanDaemon
      <4>3. HwSeen' = HwSeen
        BY <1>0, <2>2, <3>4 DEF HwSeen, HwPlaces
      <4>. QED  BY <2>1, <3>2, <4>2, <4>3 DEF CountInv
    <3>. QED  BY <3>3, <3>4
  <2>6. num_found' \in Nat
    BY <1>0, <1>6 DEF ScanDaemon
  <2>7. Cardinality(HwSeen') \in Nat
    BY <2>2, <2>4, FS_Subset, FS_CardinalityType
  <2>8. num_found' <= num_hw_daemons'
    BY <1>0, <2>1, <2>5, <2>6, <2>7
  <2>. QED  BY <2>1, <2>2, <2>3, <2>5, <2>8 DEF CountInv
<1>7. CASE EndScan
  BY <1>7 DEF EndScan, locals, CountInv, HwPlaces
<1>8. CASE Dump
  <2>1. UNCHANGED <<HwDaemons, daemons, num_hw_daemons, rows, done, locals, pc>>
        /\ shown' = SubSeq(daemons, 1, num_hw_daemons) /\ pc # "manifest" /\ pc # "scan"
    BY <1>8 DEF Dump
  <2>2. num_hw_daemons <= Len(daemons)
    BY <1>0, <2>1, PlacesCount DEF CountInv
  <2>3. shown' \in Seq(Daemons) /\ Len(shown') = num_hw_daemons
        /\ \A k \in 1..num_hw_daemons : shown'[k] = daemons[k]
    BY <1>0, <2>1, <2>2
  <2>4. IsInjective(shown')
    BY <1>0, <2>2, <2>3 DEF IsInjective
  <2>5. shown' \in SeqsOver(Daemons)
    BY <2>3, <2>4, SeqsOverIs
  <2>. QED  BY <2>1, <2>5 DEF CountInv, HwPlaces, locals
<1>9. CASE UNCHANGED vars
  BY <1>9 DEF vars, locals, CountInv, HwPlaces, HwSeen
<1>. QED
  BY <1>1, <1>2, <1>3, <1>4, <1>5, <1>6, <1>7, <1>8, <1>9 DEF Next

\* Of the manifest's daemons, the rows and the dump none is named twice; the scan counts
\* no more daemons than there are; the dump never reads beyond daemons[].
THEOREM ScanTypes == Spec => []TypeOK
<1>1. Init => CountInv
  <2> SUFFICES ASSUME Init PROVE CountInv
    OBVIOUS
  <2>1. <<>> \in Seq(Daemons) /\ IsInjective(<<>>) /\ Len(<<>>) = 0
    BY DEF IsInjective
  <2>2. <<>> \in SeqsOver(Daemons)
    BY <2>1, SeqsOverIs
  <2>. QED  BY <2>1, <2>2 DEF Init, CountInv
<1>2. Inv /\ CountInv => TypeOK
  <2> SUFFICES ASSUME Inv, CountInv PROVE TypeOK
    OBVIOUS
  <2>1. IsInjective(daemons)
    BY SeqsOverIs DEF CountInv
  <2>2. IsFiniteSet(HwDaemons) /\ Cardinality(HwDaemons) \in Nat
    BY DaemonsAssumption, FS_Subset, FS_CardinalityType DEF Inv, TypeInv
  <2>3. num_hw_daemons \in 0..Cardinality(HwDaemons)
    BY <2>1, <2>2, PlacesCount DEF Inv, TypeInv, CountInv
  <2>4. num_found \in 0..num_hw_daemons
    BY DEF Inv, TypeInv, CountInv
  <2>. QED  BY <2>3, <2>4 DEF Inv, TypeInv, CountInv, TypeOK
<1>. QED  BY <1>1, <1>2, Invariance, CountStep, PTL DEF Spec
=============================================================================
