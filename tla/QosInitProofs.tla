---------------------------- MODULE QosInitProofs ----------------------------
(***************************************************************************)
(* The QoS defaults, for any lists of entries: repeated, in any order, and *)
(* with one name for both profiles or two.                                 *)
(***************************************************************************)
EXTENDS QosInit, NaturalsInduction, WellFoundedInduction, TLAPS

QList == desc.queue_profile
SList == desc.schedule_profile
Dflt  == desc.qos_info.default_name
Fact  == desc.qos_info.factory_default_name

\* The entries for queue q that the pass at hand has added.
Before(list, q) == {n \in EntriesOf(list, q) : n < entry}

\* The member of a set of at most one.
Only(S) == IF S = {} THEN NULL ELSE CHOOSE d \in S : TRUE

\* The last description among entries S.
Descs(list, S) == {list[n].description : n \in Last({m \in S : list[m].description # NULL})}

\* A queue's row with the priorities of entries S and the description in D.
QueueRowFrom(list, S, D) ==
    IF S = {} THEN NULL
    ELSE [local_priorities |-> {list[n].local_priority : n \in S}, description |-> Only(D),
          hw_default |-> FALSE]

\* The rows that the first pass has come to; all of them; and, when both profiles have
\* one name, what the second pass, which begins with all of them, has come to.
PartQueue(q)  == QueueRowFrom(QList, Before(QList, q), Descs(QList, Before(QList, q)))
FullQueue(q)  == QueueRowFrom(QList, EntriesOf(QList, q), Descs(QList, EntriesOf(QList, q)))
AgainQueue(q) == QueueRowFrom(QList, EntriesOf(QList, q),
                              IF Descs(QList, Before(QList, q)) = {} THEN Descs(QList, EntriesOf(QList, q))
                              ELSE Descs(QList, Before(QList, q)))

PartQueues  == [entries |-> [q \in Queues |-> PartQueue(q)], hw_default |-> FALSE]
FullQueues  == [entries |-> [q \in Queues |-> FullQueue(q)], hw_default |-> FALSE]
AgainQueues == [entries |-> [q \in Queues |-> AgainQueue(q)], hw_default |-> FALSE]

\* A queue's schedule as the last of entries S says.
ScheduleOf(e) == [algorithm |-> e.algorithm,
                  weight |-> IF e.algorithm = "strict" THEN NULL ELSE e.weight,
                  hw_default |-> FALSE]
ScheduleRowFrom(list, S) == Only({ScheduleOf(list[n]) : n \in Last(S)})

PartSchedules == [entries |-> [q \in Queues |-> ScheduleRowFrom(SList, Before(SList, q))],
                  hw_default |-> FALSE]
FullSchedules == [entries |-> [q \in Queues |-> ScheduleRowFrom(SList, EntriesOf(SList, q))],
                  hw_default |-> FALSE]

\* The tables of profiles: none, the first alone, and both, where one name may be the other.
None       == [t \in Texts |-> NULL]
First(p)   == [t \in Texts |-> IF t = Dflt THEN p ELSE NULL]
Both(p, f) == [t \in Texts |-> IF t = Fact THEN f ELSE IF t = Dflt THEN p ELSE NULL]

QueueInv ==
    /\ qosPc \in {"trust", "dscp", "cos", "queue"} \/ desc.qos_info = NULL => qProfiles = None
    /\ desc.qos_info # NULL =>
          /\ qosPc = "queueDefault" => qProfiles = First(PartQueues)
          /\ qosPc = "queueFactory" =>
                qProfiles = Both(FullQueues, IF Fact = Dflt THEN AgainQueues ELSE PartQueues)
          /\ qosPc \in {"schedule", "scheduleDefault", "scheduleFactory", "done"} =>
                qProfiles = Both(FullQueues, MarkHwDefault(FullQueues))

ScheduleInv ==
    /\ qosPc \notin {"scheduleDefault", "scheduleFactory", "done"} \/ desc.qos_info = NULL =>
          schedules = None
    /\ desc.qos_info # NULL =>
          /\ qosPc = "scheduleDefault" => schedules = First(PartSchedules)
          /\ qosPc = "scheduleFactory" => schedules = Both(FullSchedules, PartSchedules)
          /\ qosPc = "done" => schedules = Both(FullSchedules, MarkHwDefault(FullSchedules))

\* The System row, and which profiles it points to once these are made.
SysRow == [trust : Texts \cup {NULL}, q_profile : Texts \cup {NULL}, qos : Texts \cup {NULL},
           cos : [1..CosRows -> MapRow] \cup {NULL}, dscp : [1..DscpRows -> MapRow] \cup {NULL}]

SysInv ==
    /\ sysQos \in SysRow
    /\ desc.qos_info # NULL /\ qosPc \in {"queueFactory", "schedule", "scheduleDefault",
                                          "scheduleFactory", "done"} => sysQos.q_profile = Dflt
    /\ desc.qos_info # NULL /\ qosPc \in {"scheduleFactory", "done"} => sysQos.qos = Dflt

Inv ==
    /\ desc \in Descriptions
    /\ entry \in Nat \ {0}
    /\ qosPc \in Pcs
    /\ desc.qos_info = NULL =>
          qosPc \notin {"queueDefault", "queueFactory", "scheduleDefault", "scheduleFactory"}
    /\ SysInv /\ QueueInv /\ ScheduleInv

-----------------------------------------------------------------------------
(***************************************************************************)
(* The lists.                                                              *)
(***************************************************************************)

\* What a description has of QoS.
LEMMA QosOf ==
    ASSUME desc \in Descriptions
    PROVE  /\ Len(QList) \in Nat /\ Len(SList) \in Nat
           /\ \A n \in 1..Len(QList) : QList[n] \in QueueEntry \cup {NULL}
           /\ \A n \in 1..Len(SList) : SList[n] \in ScheduleEntry \cup {NULL}
           /\ desc.qos_info # NULL => Dflt \in Texts /\ Fact \in Texts
           /\ desc.qos_info # NULL => desc.qos_info.trust \in Texts \cup {NULL}
           /\ desc.cos \in Seq(MapEntry) /\ desc.dscp \in Seq(MapEntry)
           /\ Len(desc.cos) <= CosRows /\ Len(desc.dscp) <= DscpRows
<1>1. desc \in Description
  BY DescriptionsAssumption
<1>2. QList \in Seq(QueueEntry \cup {NULL}) /\ SList \in Seq(ScheduleEntry \cup {NULL})
      /\ desc.qos_info \in QosInfo \cup {NULL}
      /\ desc.cos \in Seq(MapEntry) /\ desc.dscp \in Seq(MapEntry)
  BY <1>1 DEF Description, QList, SList
<1>3. desc.qos_info # NULL =>
        Dflt \in Texts /\ Fact \in Texts /\ desc.qos_info.trust \in Texts \cup {NULL}
  BY <1>2 DEF QosInfo, Dflt, Fact
<1>4. Len(desc.cos) <= CosRows /\ Len(desc.dscp) <= DscpRows
  BY DescriptionsAssumption
<1>5. /\ Len(QList) \in Nat /\ Len(SList) \in Nat
      /\ \A n \in 1..Len(QList) : QList[n] \in QueueEntry \cup {NULL}
      /\ \A n \in 1..Len(SList) : SList[n] \in ScheduleEntry \cup {NULL}
  BY <1>2
<1>. QED  BY <1>2, <1>3, <1>4, <1>5

\* Numbers of entries that are not empty have a last one.
LEMMA LastExists ==
    ASSUME NEW L \in Nat, NEW S, S \subseteq 1..L, S # {}
    PROVE  Last(S) # {}
<1> DEFINE T    == {L - n : n \in S}
           Less == OpToRel(<, Nat)
<1>1. IsWellFoundedOn(Less, Nat)
  BY NatLessThanWellFounded
<1>2. T \subseteq Nat /\ T # {}
  <2>1. \A n \in S : L - n \in Nat
    OBVIOUS
  <2>. QED  BY <2>1
<1> HIDE DEF Less
<1>3. PICK k \in T : \A j \in T : ~ (<<j, k>> \in Less)
  BY <1>1, <1>2, WFMin
<1>4. \A j \in T : k <= j
  <2> TAKE j \in T
  <2>1. j \in Nat /\ k \in Nat
    BY <1>2
  <2>2. j < k => <<j, k>> \in Less
    BY <2>1 DEF Less, OpToRel
  <2>. QED  BY <1>3, <2>1, <2>2
<1>5. PICK n \in S : k = L - n
  BY <1>3
<1>6. \A m \in S : m <= n
  <2> TAKE m \in S
  <2>1. L - n <= L - m
    BY <1>4, <1>5
  <2>2. m \in Nat /\ n \in Nat
    OBVIOUS
  <2>. QED  BY <2>1, <2>2
<1>. QED  BY <1>6 DEF Last

\* A number behind all the others is the last, and there is one last.
LEMMA LastOfMore ==
    ASSUME NEW S, S \subseteq Nat, NEW k \in Nat, \A n \in S : n < k
    PROVE  Last(S \cup {k}) = {k}
<1>1. \A n \in S \cup {k} : (\A m \in S \cup {k} : m <= n) <=> n = k
  OBVIOUS
<1>. QED  BY <1>1 DEF Last

LEMMA OneLast ==
    ASSUME NEW S, S \subseteq Nat, NEW m \in Last(S), NEW n \in Last(S)
    PROVE  m = n
  BY DEF Last

LEMMA OnlyMember == \A d : Only({d}) = d
  BY DEF Only

LEMMA EntriesAre ==
    ASSUME desc \in Descriptions, NEW q
    PROVE  /\ EntriesOf(QList, q) \subseteq 1..Len(QList) /\ EntriesOf(QList, q) \subseteq Nat
           /\ EntriesOf(SList, q) \subseteq 1..Len(SList) /\ EntriesOf(SList, q) \subseteq Nat
           /\ Before(QList, q) \subseteq EntriesOf(QList, q)
           /\ Before(SList, q) \subseteq EntriesOf(SList, q)
           /\ \A n \in EntriesOf(QList, q) : QList[n] \in QueueEntry
           /\ \A n \in EntriesOf(SList, q) : SList[n] \in ScheduleEntry
  BY QosOf DEF EntriesOf, Before

\* The pass comes to the next entry.
LEMMA BeforeStep ==
    ASSUME desc \in Descriptions, desc' = desc, entry \in Nat \ {0}, entry' = entry + 1, NEW q
    PROVE  /\ EntriesOf(QList, q)' = EntriesOf(QList, q)
           /\ EntriesOf(SList, q)' = EntriesOf(SList, q)
           /\ entry <= Len(QList) =>
                 Before(QList, q)' = Before(QList, q) \cup
                    (IF QList[entry] # NULL /\ QList[entry].queue = q THEN {entry} ELSE {})
           /\ entry <= Len(SList) =>
                 Before(SList, q)' = Before(SList, q) \cup
                    (IF SList[entry] # NULL /\ SList[entry].queue = q THEN {entry} ELSE {})
           /\ \A n \in Before(QList, q) \cup Before(SList, q) : n \in Nat /\ n < entry
<1>1. EntriesOf(QList, q)' = EntriesOf(QList, q) /\ EntriesOf(SList, q)' = EntriesOf(SList, q)
  BY DEF EntriesOf, QList, SList
<1>2. \A n \in EntriesOf(QList, q) \cup EntriesOf(SList, q) :
         n \in Nat /\ (n < entry' <=> n < entry \/ n = entry)
  BY EntriesAre
<1>3. entry \in EntriesOf(QList, q) <=>
         entry <= Len(QList) /\ QList[entry] # NULL /\ QList[entry].queue = q
  BY QosOf DEF EntriesOf
<1>4. entry \in EntriesOf(SList, q) <=>
         entry <= Len(SList) /\ SList[entry] # NULL /\ SList[entry].queue = q
  BY QosOf DEF EntriesOf
<1>5. Before(QList, q)' = Before(QList, q) \cup (IF entry \in EntriesOf(QList, q) THEN {entry} ELSE {})
  BY <1>1, <1>2 DEF Before
<1>6. Before(SList, q)' = Before(SList, q) \cup (IF entry \in EntriesOf(SList, q) THEN {entry} ELSE {})
  BY <1>1, <1>2 DEF Before
<1>7. \A n \in Before(QList, q) \cup Before(SList, q) : n \in Nat /\ n < entry
  BY EntriesAre DEF Before
<1>. QED  BY <1>1, <1>3, <1>4, <1>5, <1>6, <1>7

\* A pass ends with all of the entries.
LEMMA BeforeEnds ==
    ASSUME desc \in Descriptions, NEW q
    PROVE  /\ entry \in Nat /\ entry > Len(QList) => Before(QList, q) = EntriesOf(QList, q)
           /\ entry \in Nat /\ entry > Len(SList) => Before(SList, q) = EntriesOf(SList, q)
  BY QosOf DEF Before, EntriesOf

-----------------------------------------------------------------------------
(***************************************************************************)
(* The rows.                                                               *)
(***************************************************************************)
LEMMA DescsOf ==
    ASSUME NEW list, NEW S, \A n \in S : list[n] \in QueueEntry
    PROVE  Descs(list, S) \subseteq Texts /\ (S = {} => Descs(list, S) = {})
<1>1. \A n \in S : list[n].description \in Texts \cup {NULL}
  BY DEF QueueEntry
<1>. QED  BY <1>1 DEF Descs, Last

LEMMA DescsOfMore ==
    ASSUME NEW list, NEW S, S \subseteq Nat, NEW k \in Nat, \A n \in S : n < k
    PROVE  Descs(list, S \cup {k}) = IF list[k].description = NULL THEN Descs(list, S)
                                     ELSE {list[k].description}
<1> DEFINE named(R) == {m \in R : list[m].description # NULL}
<1>1. CASE list[k].description = NULL
  <2>1. named(S \cup {k}) = named(S)
    BY <1>1
  <2>. QED  BY <1>1, <2>1 DEF Descs
<1>2. CASE list[k].description # NULL
  <2>1. named(S \cup {k}) = named(S) \cup {k} /\ named(S) \subseteq Nat /\ \A n \in named(S) : n < k
    BY <1>2
  <2>2. Last(named(S \cup {k})) = {k}
    BY <2>1, LastOfMore
  <2>. QED  BY <1>2, <2>2 DEF Descs
<1>. QED  BY <1>1, <1>2

LEMMA QueueRowIs ==
    ASSUME NullIsNoRow, NEW list, NEW S, NEW D, D \subseteq Texts,
           \A n \in S : list[n] \in QueueEntry
    PROVE  /\ S = {} => QueueRowFrom(list, S, D) = NULL
           /\ S # {} => /\ QueueRowFrom(list, S, D) \in QueueRow
                        /\ QueueRowFrom(list, S, D) # NULL
                        /\ QueueRowFrom(list, S, D) =
                              [local_priorities |-> {list[n].local_priority : n \in S},
                               description |-> Only(D), hw_default |-> FALSE]
<1>1. Only(D) \in Texts \cup {NULL}
  BY DEF Only
<1>2. {list[n].local_priority : n \in S} \subseteq Priorities
  BY DEF QueueEntry
<1>3. S # {} => QueueRowFrom(list, S, D) \in QueueRow
  BY <1>1, <1>2 DEF QueueRowFrom, QueueRow
<1>. QED  BY <1>3 DEF QueueRowFrom, NullIsNoRow

\* An entry adds its priority to a row, and its description replaces the row's.
LEMMA QueueRowAdd ==
    ASSUME NullIsNoRow, NEW list, NEW S, NEW D, D \subseteq Texts,
           \A n \in S : list[n] \in QueueEntry,
           S = {} => D = {}, NEW k, list[k] \in QueueEntry
    PROVE  QueueRowSet(QueueRowFrom(list, S, D), list[k]) =
              QueueRowFrom(list, S \cup {k}, IF list[k].description = NULL THEN D
                                             ELSE {list[k].description})
<1> DEFINE e == list[k]
           P == {list[n].local_priority : n \in S}
           d == IF e.description = NULL THEN Only(D) ELSE e.description
           no == FALSE
           Rec(ps, ds, hw) == [local_priorities |-> ps, description |-> ds, hw_default |-> hw]
<1>0. BlankQueue = Rec({}, NULL, no)
  BY DEF BlankQueue
<1>1. S # {} => QueueRowFrom(list, S, D) # NULL /\ QueueRowFrom(list, S, D) = Rec(P, Only(D), no)
  BY QueueRowIs
<1>2. S = {} => QueueRowFrom(list, S, D) = NULL /\ P = {} /\ Only(D) = NULL
  BY DEF QueueRowFrom, Only
<1> DEFINE Upd(r, ps, ds) == [r EXCEPT !.local_priorities = ps, !.description = ds]
<1>3. \A ps, ds, hw : Rec(ps, ds, hw).local_priorities = ps /\ Rec(ps, ds, hw).description = ds
  BY Zenon
<1>8. \A ps, ds, hw, x, y : Upd(Rec(ps, ds, hw), x, y) = Rec(x, y, hw)
  <2> TAKE ps, ds, hw, x, y
  <2>1. [Rec(ps, ds, hw) EXCEPT !.local_priorities = x] = Rec(x, ds, hw)
    OBVIOUS
  <2>2. [Rec(x, ds, hw) EXCEPT !.description = y] = Rec(x, y, hw)
    OBVIOUS
  <2>. QED  BY <2>1, <2>2, Zenon
<1>9. \A r : QueueRowSet(r, e) =
                LET b == IF r = NULL THEN BlankQueue ELSE r IN
                Upd(b, b.local_priorities \cup {e.local_priority},
                    IF e.description = NULL THEN b.description ELSE e.description)
  BY DEF QueueRowSet
<1>4. {list[n].local_priority : n \in S \cup {k}} = P \cup {e.local_priority}
  OBVIOUS
<1>5. Only(IF e.description = NULL THEN D ELSE {e.description}) = d
  BY OnlyMember
<1>6. QueueRowFrom(list, S \cup {k}, IF e.description = NULL THEN D ELSE {e.description})
        = Rec(P \cup {e.local_priority}, d, no)
  BY <1>4, <1>5 DEF QueueRowFrom
<1> HIDE DEF Rec, no, P, Upd
<1>7. QueueRowSet(QueueRowFrom(list, S, D), e) = Rec(P \cup {e.local_priority}, d, no)
  <2> DEFINE row == QueueRowFrom(list, S, D)
             b == IF row = NULL THEN BlankQueue ELSE row
  <2>1. b = Rec(P, Only(D), no)
    BY <1>0, <1>1, <1>2
  <2>2. QueueRowSet(row, e) =
          Upd(b, b.local_priorities \cup {e.local_priority},
              IF e.description = NULL THEN b.description ELSE e.description)
    BY <1>9
  <2>3. b.local_priorities = P /\ b.description = Only(D)
    BY <1>3, <2>1
  <2> HIDE DEF b
  <2>4. Upd(b, P \cup {e.local_priority}, d) = Rec(P \cup {e.local_priority}, d, no)
    BY <1>8, <2>1
  <2>. QED  BY <2>2, <2>3, <2>4
<1>. QED  BY <1>6, <1>7

\* The rows of the queue profiles, as the pass comes to the next entry.
LEMMA QueueRowsStep ==
    ASSUME NullIsNoRow, desc \in Descriptions, desc' = desc, entry \in Nat \ {0},
           entry' = entry + 1, entry <= Len(QList), NEW q
    PROVE  LET e == QList[entry] IN
           /\ FullQueue(q)' = FullQueue(q)
           /\ e # NULL /\ e.queue = q =>
                 /\ PartQueue(q)' = QueueRowSet(PartQueue(q), e)
                 /\ AgainQueue(q)' = QueueRowSet(AgainQueue(q), e)
           /\ ~(e # NULL /\ e.queue = q) =>
                 PartQueue(q)' = PartQueue(q) /\ AgainQueue(q)' = AgainQueue(q)
<1> DEFINE e == QList[entry]
           all == EntriesOf(QList, q)
           bef == Before(QList, q)
<1>1. /\ QList' = QList /\ EntriesOf(QList, q)' = EntriesOf(QList, q)
      /\ Before(QList, q)' = bef \cup (IF e # NULL /\ e.queue = q THEN {entry} ELSE {})
      /\ \A n \in bef : n \in Nat /\ n < entry
  BY BeforeStep DEF QList
<1>2. FullQueue(q)' = FullQueue(q)
  BY <1>1 DEF FullQueue
<1>3. ASSUME ~(e # NULL /\ e.queue = q)
      PROVE  PartQueue(q)' = PartQueue(q) /\ AgainQueue(q)' = AgainQueue(q)
  <2>1. Before(QList, q)' = bef
    BY <1>1, <1>3
  <2>. QED  BY <1>1, <2>1 DEF PartQueue, AgainQueue
<1>4. ASSUME e # NULL, e.queue = q
      PROVE  /\ PartQueue(q)' = QueueRowSet(PartQueue(q), e)
             /\ AgainQueue(q)' = QueueRowSet(AgainQueue(q), e)
  <2> DEFINE D  == Descs(QList, bef)
             D1 == IF e.description = NULL THEN D ELSE {e.description}
             A  == IF D = {} THEN Descs(QList, all) ELSE D
             A1 == IF e.description = NULL THEN A ELSE {e.description}
  <2>1. e \in QueueEntry /\ entry \in all /\ bef \subseteq all
        /\ \A n \in all : QList[n] \in QueueEntry
    BY <1>4, EntriesAre, QosOf DEF EntriesOf
  <2>2. Before(QList, q)' = bef \cup {entry} /\ bef \subseteq Nat
    BY <1>1, <1>4
  <2>3. D \subseteq Texts /\ (bef = {} => D = {}) /\ Descs(QList, all) \subseteq Texts
    BY <2>1, DescsOf
  <2>4. Descs(QList, bef \cup {entry}) = D1
    BY <1>1, <2>2, DescsOfMore
  <2>5. PartQueue(q)' = QueueRowFrom(QList, bef \cup {entry}, D1)
    BY <1>1, <2>2, <2>4 DEF PartQueue
  <2>6. QueueRowSet(QueueRowFrom(QList, bef, D), e) = QueueRowFrom(QList, bef \cup {entry}, D1)
    BY <2>1, <2>3, QueueRowAdd
  <2>7. AgainQueue(q)' = QueueRowFrom(QList, all, IF D1 = {} THEN Descs(QList, all) ELSE D1)
    BY <1>1, <2>2, <2>4 DEF AgainQueue
  <2>8. (IF D1 = {} THEN Descs(QList, all) ELSE D1) = A1
    OBVIOUS
  <2>9. all \cup {entry} = all /\ all # {} /\ A \subseteq Texts
    BY <2>1, <2>3
  <2>10. QueueRowSet(QueueRowFrom(QList, all, A), e) = QueueRowFrom(QList, all \cup {entry}, A1)
    <3>1. all = {} => A = {}
      BY <2>9
    <3> HIDE DEF A, all
    <3>. QED  BY <2>1, <2>9, <3>1, QueueRowAdd
  <2>11. PartQueue(q) = QueueRowFrom(QList, bef, D) /\ AgainQueue(q) = QueueRowFrom(QList, all, A)
    BY DEF PartQueue, AgainQueue
  <2> HIDE DEF A, A1, D, D1, e, all, bef
  <2>. QED  BY <2>5, <2>6, <2>7, <2>8, <2>9, <2>10, <2>11
<1>. QED  BY <1>2, <1>3, <1>4

LEMMA ScheduleRowIs ==
    ASSUME NullIsNoRow, NEW list, NEW L \in Nat, NEW S, S \subseteq 1..L,
           \A n \in S : list[n] \in ScheduleEntry
    PROVE  /\ S = {} => ScheduleRowFrom(list, S) = NULL
           /\ S # {} => /\ ScheduleRowFrom(list, S) \in ScheduleRow
                        /\ ScheduleRowFrom(list, S) # NULL
           /\ \A n \in Last(S) : ScheduleRowFrom(list, S) = ScheduleOf(list[n])
           /\ S # {} => \E n \in S : ScheduleRowFrom(list, S) = ScheduleOf(list[n])
<1>1. S = {} => ScheduleRowFrom(list, S) = NULL
  BY DEF ScheduleRowFrom, Only, Last
<1>2. ASSUME NEW n \in Last(S)
      PROVE  n \in S /\ ScheduleRowFrom(list, S) = ScheduleOf(list[n])
  <2>1. S \subseteq Nat
    OBVIOUS
  <2>2. Last(S) = {n} /\ n \in S
    <3>1. \A m \in Last(S) : m = n
      BY <2>1, OneLast
    <3>. QED  BY <3>1 DEF Last
  <2>3. {ScheduleOf(list[m]) : m \in Last(S)} = {ScheduleOf(list[n])}
    BY <2>2
  <2>. QED  BY <2>2, <2>3, OnlyMember DEF ScheduleRowFrom
<1>3. ASSUME S # {}
      PROVE  /\ ScheduleRowFrom(list, S) \in ScheduleRow
             /\ \E n \in S : ScheduleRowFrom(list, S) = ScheduleOf(list[n])
  <2>1. PICK n \in Last(S) : TRUE
    BY <1>3, LastExists
  <2>2. n \in S /\ ScheduleRowFrom(list, S) = ScheduleOf(list[n]) /\ list[n] \in ScheduleEntry
    BY <1>2, <2>1
  <2>3. ScheduleOf(list[n]) \in ScheduleRow
    BY <2>2 DEF ScheduleOf, ScheduleRow, ScheduleEntry
  <2>. QED  BY <2>2, <2>3
<1>. QED  BY <1>1, <1>2, <1>3 DEF NullIsNoRow

\* An entry replaces what the row said.
LEMMA ScheduleRowAdd ==
    ASSUME NullIsNoRow, NEW list, NEW L \in Nat, NEW S, S \subseteq 1..L,
           \A n \in S : list[n] \in ScheduleEntry, NEW k \in Nat, \A n \in S : n < k
    PROVE  ScheduleRowSet(ScheduleRowFrom(list, S), list[k]) = ScheduleRowFrom(list, S \cup {k})
<1> DEFINE e == list[k]
           w == IF e.algorithm = "strict" THEN NULL ELSE e.weight
           no == FALSE
           Rec(a, v, hw) == [algorithm |-> a, weight |-> v, hw_default |-> hw]
           Upd(r, a, v)  == [r EXCEPT !.algorithm = a, !.weight = v]
           row == ScheduleRowFrom(list, S)
<1>1. \A x : ScheduleOf(x) = Rec(x.algorithm, IF x.algorithm = "strict" THEN NULL ELSE x.weight, no)
  BY DEF ScheduleOf
<1>2. BlankSchedule = Rec(NULL, NULL, no)
  BY DEF BlankSchedule
<1>3. \A a, v, hw, x, y : Upd(Rec(a, v, hw), x, y) = Rec(x, y, hw)
  <2> TAKE a, v, hw, x, y
  <2>1. [Rec(a, v, hw) EXCEPT !.algorithm = x] = Rec(x, v, hw)
    OBVIOUS
  <2>2. [Rec(x, v, hw) EXCEPT !.weight = y] = Rec(x, y, hw)
    OBVIOUS
  <2>. QED  BY <2>1, <2>2, Zenon
<1>4. \A r : ScheduleRowSet(r, e) = Upd(IF r = NULL THEN BlankSchedule ELSE r, e.algorithm, w)
  BY DEF ScheduleRowSet
<1>5. \E a, v : (IF row = NULL THEN BlankSchedule ELSE row) = Rec(a, v, no)
  <2>1. CASE S = {}
    <3>1. row = NULL
      BY <2>1, ScheduleRowIs
    <3>. QED  BY <1>2, <3>1
  <2>2. CASE S # {}
    <3>1. PICK n \in S : row = ScheduleOf(list[n])
      BY <2>2, ScheduleRowIs
    <3>2. row # NULL
      BY <2>2, ScheduleRowIs
    <3> HIDE DEF Rec, no
    <3>. QED  BY <1>1, <3>1, <3>2
  <2>. QED  BY <2>1, <2>2
<1>6. ScheduleRowFrom(list, S \cup {k}) = ScheduleOf(e)
  <2>1. S \subseteq Nat
    OBVIOUS
  <2>2. Last(S \cup {k}) = {k}
    BY <2>1, LastOfMore
  <2>3. {ScheduleOf(list[n]) : n \in Last(S \cup {k})} = {ScheduleOf(e)}
    BY <2>2
  <2>. QED  BY <2>3, OnlyMember DEF ScheduleRowFrom
<1> HIDE DEF Rec, Upd, no, row
<1>7. ScheduleRowSet(row, e) = Rec(e.algorithm, w, no)
  BY <1>3, <1>4, <1>5
<1>. QED  BY <1>1, <1>6, <1>7 DEF row

LEMMA ScheduleRowsStep ==
    ASSUME NullIsNoRow, desc \in Descriptions, desc' = desc, entry \in Nat \ {0},
           entry' = entry + 1, entry <= Len(SList), NEW q
    PROVE  LET e == SList[entry] IN
           /\ e # NULL /\ e.queue = q =>
                 ScheduleRowFrom(SList, Before(SList, q))'
                   = ScheduleRowSet(ScheduleRowFrom(SList, Before(SList, q)), e)
           /\ ~(e # NULL /\ e.queue = q) =>
                 ScheduleRowFrom(SList, Before(SList, q))' = ScheduleRowFrom(SList, Before(SList, q))
<1> DEFINE e == SList[entry]
           bef == Before(SList, q)
<1>1. /\ SList' = SList
      /\ Before(SList, q)' = bef \cup (IF e # NULL /\ e.queue = q THEN {entry} ELSE {})
      /\ \A n \in bef : n \in Nat /\ n < entry
  BY BeforeStep DEF SList
<1>2. bef \subseteq 1..Len(SList) /\ \A n \in bef : SList[n] \in ScheduleEntry
  BY EntriesAre
<1>3. Len(SList) \in Nat
  BY QosOf
<1>4. ScheduleRowFrom(SList, Before(SList, q))' = ScheduleRowFrom(SList, Before(SList, q)')
  BY <1>1
<1>5. ScheduleRowSet(ScheduleRowFrom(SList, bef), e) = ScheduleRowFrom(SList, bef \cup {entry})
  BY <1>1, <1>2, <1>3, ScheduleRowAdd
<1> HIDE DEF bef
<1>6. CASE e # NULL /\ e.queue = q
  <2>1. Before(SList, q)' = bef \cup {entry}
    BY <1>1, <1>6
  <2>. QED  BY <1>4, <1>5, <1>6, <2>1 DEF bef
<1>7. CASE ~(e # NULL /\ e.queue = q)
  <2>1. Before(SList, q)' = bef
    BY <1>1, <1>7
  <2>. QED  BY <1>4, <1>7, <2>1 DEF bef
<1>. QED  BY <1>6, <1>7

-----------------------------------------------------------------------------
(***************************************************************************)
(* The profiles.                                                           *)
(***************************************************************************)

\* A profile with rows F that is not the hardware's.
Prof(F) == [entries |-> F, hw_default |-> FALSE]

\* The table with another row in a profile.
WithEntry(profiles, name, q, r) == [profiles EXCEPT ![name].entries[q] = r]

LEMMA SetEntry ==
    ASSUME NEW profiles, DOMAIN profiles = Texts, NEW name \in Texts, NEW q \in Queues, NEW r,
           NEW F, profiles[name] = Prof(F)
    PROVE  WithEntry(profiles, name, q, r)
              = [profiles EXCEPT ![name] = Prof([F EXCEPT ![q] = r])]
<1> DEFINE no == FALSE
           Rec(f, hw) == [entries |-> f, hw_default |-> hw]
<1>1. \A f, g, hw : Rec(f, hw).entries = f /\ [Rec(f, hw) EXCEPT !.entries = g] = Rec(g, hw)
  OBVIOUS
<1>2. \A f : Prof(f) = Rec(f, no)
  BY DEF Prof
<1> HIDE DEF Rec, no
<1>3. [profiles[name] EXCEPT !.entries = [profiles[name].entries EXCEPT ![q] = r]]
         = Prof([F EXCEPT ![q] = r])
  BY <1>1, <1>2
<1>. QED  BY <1>3, Zenon DEF WithEntry

\* The same, for the profile that results, in terms of one operator.
Put(f, x, v) == [f EXCEPT ![x] = v]

LEMMA SetPart ==
    ASSUME NEW profiles, DOMAIN profiles = Texts, NEW name, name \in Texts, NEW q, q \in Queues,
           NEW r, NEW F, profiles[name] = Prof(F), NEW new, new = Prof(Put(F, q, r))
    PROVE  WithEntry(profiles, name, q, r) = Put(profiles, name, new)
BY SetEntry DEF Put

LEMMA SetProfile ==
    ASSUME Dflt \in Texts, Fact \in Texts
    PROVE  /\ \A p, new : [First(p) EXCEPT ![Dflt] = new] = First(new)
           /\ \A p, f, new : [Both(p, f) EXCEPT ![Fact] = new] = Both(p, new)
           /\ \A p : First(p)[Dflt] = p
           /\ \A p, f : Both(p, f)[Fact] = f
           /\ \A p, f : Both(p, f)[Dflt] = IF Fact = Dflt THEN f ELSE p
           /\ \A p, f : DOMAIN First(p) = Texts /\ DOMAIN Both(p, f) = Texts
  BY DEF First, Both

\* What an entry does to the queue profiles.
LEMMA QueueProfilesStep ==
    ASSUME NullIsNoRow, desc \in Descriptions, desc' = desc, entry \in Nat \ {0},
           entry' = entry + 1, entry <= Len(QList)
    PROVE  LET e == QList[entry] IN
           /\ FullQueues' = FullQueues
           /\ e = NULL => PartQueues' = PartQueues /\ AgainQueues' = AgainQueues
           /\ e # NULL =>
                 /\ e.queue \in Queues
                 /\ PartQueues' = Prof([[q \in Queues |-> PartQueue(q)] EXCEPT
                                          ![e.queue] = QueueRowSet(PartQueue(e.queue), e)])
                 /\ AgainQueues' = Prof([[q \in Queues |-> AgainQueue(q)] EXCEPT
                                          ![e.queue] = QueueRowSet(AgainQueue(e.queue), e)])
<1> DEFINE e == QList[entry]
<1>1. \A q \in Queues :
         /\ FullQueue(q)' = FullQueue(q)
         /\ e # NULL /\ e.queue = q =>
                 /\ PartQueue(q)' = QueueRowSet(PartQueue(q), e)
                 /\ AgainQueue(q)' = QueueRowSet(AgainQueue(q), e)
         /\ ~(e # NULL /\ e.queue = q) =>
                 PartQueue(q)' = PartQueue(q) /\ AgainQueue(q)' = AgainQueue(q)
  BY QueueRowsStep
<1>2. [q \in Queues |-> FullQueue(q)'] = [q \in Queues |-> FullQueue(q)]
  BY <1>1
<1>3. FullQueues' = FullQueues
  BY <1>2 DEF FullQueues
<1>4. ASSUME e = NULL
      PROVE  PartQueues' = PartQueues /\ AgainQueues' = AgainQueues
  <2>1. /\ [q \in Queues |-> PartQueue(q)'] = [q \in Queues |-> PartQueue(q)]
        /\ [q \in Queues |-> AgainQueue(q)'] = [q \in Queues |-> AgainQueue(q)]
    BY <1>1, <1>4
  <2>. QED  BY <2>1 DEF PartQueues, AgainQueues
<1>5. ASSUME e # NULL
      PROVE  /\ e.queue \in Queues
             /\ PartQueues' = Prof([[q \in Queues |-> PartQueue(q)] EXCEPT
                                          ![e.queue] = QueueRowSet(PartQueue(e.queue), e)])
             /\ AgainQueues' = Prof([[q \in Queues |-> AgainQueue(q)] EXCEPT
                                          ![e.queue] = QueueRowSet(AgainQueue(e.queue), e)])
  <2>1. e.queue \in Queues
    BY <1>5, QosOf DEF QueueEntry
  <2>2. [q \in Queues |-> PartQueue(q)'] = [[q \in Queues |-> PartQueue(q)] EXCEPT
                                              ![e.queue] = QueueRowSet(PartQueue(e.queue), e)]
    BY <1>1, <1>5, <2>1
  <2>3. [q \in Queues |-> AgainQueue(q)'] = [[q \in Queues |-> AgainQueue(q)] EXCEPT
                                              ![e.queue] = QueueRowSet(AgainQueue(e.queue), e)]
    BY <1>1, <1>5, <2>1
  <2>. QED  BY <2>1, <2>2, <2>3 DEF PartQueues, AgainQueues, Prof
<1>. QED  BY <1>3, <1>4, <1>5

LEMMA ScheduleProfilesStep ==
    ASSUME NullIsNoRow, desc \in Descriptions, desc' = desc, entry \in Nat \ {0},
           entry' = entry + 1, entry <= Len(SList)
    PROVE  LET e == SList[entry]
               row(q) == ScheduleRowFrom(SList, Before(SList, q)) IN
           /\ e = NULL => PartSchedules' = PartSchedules
           /\ e # NULL =>
                 /\ e.queue \in Queues
                 /\ PartSchedules' = Prof([[q \in Queues |-> row(q)] EXCEPT
                                             ![e.queue] = ScheduleRowSet(row(e.queue), e)])
<1> DEFINE e == SList[entry]
           row(q) == ScheduleRowFrom(SList, Before(SList, q))
<1>1. \A q \in Queues :
         /\ e # NULL /\ e.queue = q => row(q)' = ScheduleRowSet(row(q), e)
         /\ ~(e # NULL /\ e.queue = q) => row(q)' = row(q)
  BY ScheduleRowsStep
<1>2. PartSchedules' = Prof([q \in Queues |-> row(q)'])
  BY DEF PartSchedules, Prof
<1>3. PartSchedules = Prof([q \in Queues |-> row(q)])
  BY DEF PartSchedules, Prof
<1> HIDE DEF row
<1>4. ASSUME e = NULL PROVE PartSchedules' = PartSchedules
  <2>1. [q \in Queues |-> row(q)'] = [q \in Queues |-> row(q)]
    BY <1>1, <1>4
  <2>. QED  BY <1>2, <1>3, <2>1
<1>5. ASSUME e # NULL
      PROVE  /\ e.queue \in Queues
             /\ PartSchedules' = Prof([[q \in Queues |-> row(q)] EXCEPT
                                         ![e.queue] = ScheduleRowSet(row(e.queue), e)])
  <2>1. e.queue \in Queues
    BY <1>5, QosOf DEF ScheduleEntry
  <2>2. [q \in Queues |-> row(q)'] = [[q \in Queues |-> row(q)] EXCEPT
                                        ![e.queue] = ScheduleRowSet(row(e.queue), e)]
    BY <1>1, <1>5, <2>1
  <2>. QED  BY <1>2, <2>1, <2>2
<1>. QED  BY <1>4, <1>5 DEF row

\* A pass begins with an empty profile, or one the first pass has filled ...
LEMMA PassBegins ==
    ASSUME desc \in Descriptions, desc' = desc, entry' = 1
    PROVE  PartQueues' = NewProfile /\ AgainQueues' = FullQueues /\ PartSchedules' = NewProfile
<1>1. QList' = QList /\ SList' = SList
  BY DEF QList, SList
<1>2. \A q : Before(QList, q)' = {} /\ Before(SList, q)' = {}
  BY <1>1, EntriesAre DEF Before
<1>3. Descs(QList, {}) = {} /\ ScheduleRowFrom(SList, {}) = NULL
      /\ \A D : QueueRowFrom(QList, {}, D) = NULL
  BY DEF Descs, Last, ScheduleRowFrom, Only, QueueRowFrom
<1>4. \A q : PartQueue(q)' = NULL /\ AgainQueue(q)' = FullQueue(q)
  BY <1>1, <1>2, <1>3 DEF PartQueue, AgainQueue, FullQueue
<1>. QED
  BY <1>1, <1>2, <1>3, <1>4 DEF PartQueues, AgainQueues, FullQueues, PartSchedules, NewProfile

\* ... and ends with a full one.
LEMMA PassEnds ==
    ASSUME desc \in Descriptions, entry \in Nat
    PROVE  /\ entry > Len(QList) => PartQueues = FullQueues /\ AgainQueues = FullQueues
           /\ entry > Len(SList) => PartSchedules = FullSchedules
<1>1. ASSUME entry > Len(QList)
      PROVE  PartQueues = FullQueues /\ AgainQueues = FullQueues
  <2>1. \A q : Before(QList, q) = EntriesOf(QList, q)
    BY <1>1, BeforeEnds
  <2>2. \A q : PartQueue(q) = FullQueue(q) /\ AgainQueue(q) = FullQueue(q)
    BY <2>1 DEF PartQueue, AgainQueue, FullQueue
  <2>. QED  BY <2>2 DEF PartQueues, AgainQueues, FullQueues
<1>2. ASSUME entry > Len(SList) PROVE PartSchedules = FullSchedules
  <2>1. \A q : Before(SList, q) = EntriesOf(SList, q)
    BY <1>2, BeforeEnds
  <2>. QED  BY <2>1 DEF PartSchedules, FullSchedules
<1>. QED  BY <1>1, <1>2

-----------------------------------------------------------------------------
(***************************************************************************)
(* The invariant.                                                          *)
(***************************************************************************)
LEMMA StartInv == Init => Inv
<1> SUFFICES ASSUME Init PROVE Inv
  OBVIOUS
<1>1. /\ desc \in Descriptions /\ entry = 1 /\ qosPc = "trust"
      /\ sysQos = [trust |-> NULL, cos |-> NULL, dscp |-> NULL, q_profile |-> NULL, qos |-> NULL]
      /\ qProfiles = None /\ schedules = None
  BY DEF Init, Start, None
<1>2. SysInv
  BY <1>1 DEF SysInv, SysRow
<1>. QED  BY <1>1, <1>2 DEF Inv, Pcs, QueueInv, ScheduleInv

LEMMA DescKept == Next => UNCHANGED desc
  BY DEF Next, InitTrust, InitDscpMap, InitCosMap,
         BeginQueueProfile, AddQueueEntry, UseQueueProfile, MarkQueueProfile,
         BeginSchedule, AddScheduleEntry, UseSchedule, MarkSchedule

\* The control: each step leads to the next.
LEMMA ControlStep ==
    ASSUME Inv, Next
    PROVE  /\ entry' \in Nat \ {0}
           /\ qosPc' \in Pcs
           /\ desc.qos_info = NULL =>
                 qosPc' \notin {"queueDefault", "queueFactory", "scheduleDefault", "scheduleFactory"}
  BY DEF Inv, Pcs, Next, InitTrust, InitDscpMap, InitCosMap,
         BeginQueueProfile, AddQueueEntry, UseQueueProfile, MarkQueueProfile,
         BeginSchedule, AddScheduleEntry, UseSchedule, MarkSchedule

LEMMA MapRowsType ==
    ASSUME NEW n \in Nat, NEW list \in Seq(MapEntry)
    PROVE  MapRows(n, list) \in [1..n -> MapRow]
<1>1. \A r \in 1..n : r <= Len(list) => list[r] \in MapEntry
  BY DEF MapRow
<1>. QED  BY <1>1 DEF MapRows, MapRow, BlankMapRow

LEMMA SysStep ==
    ASSUME Inv, Next, desc' = desc
    PROVE  SysInv'
<1>1. desc \in Descriptions /\ sysQos \in SysRow /\ SysInv /\ qosPc \in Pcs
  BY DEF Inv, SysInv
<1>2. SysRow' = SysRow /\ Dflt' = Dflt
  BY DEF SysRow, Dflt
<1>3. CASE InitTrust
  <2>1. qosPc = "trust" /\ qosPc' = "dscp"
    BY <1>3 DEF InitTrust
  <2>2. CASE desc.qos_info = NULL \/ desc.qos_info.trust = NULL
    BY <1>1, <1>2, <1>3, <2>1, <2>2 DEF InitTrust, SysInv
  <2>3. CASE ~(desc.qos_info = NULL \/ desc.qos_info.trust = NULL)
    <3>1. sysQos' = [sysQos EXCEPT !.trust = desc.qos_info.trust]
          /\ desc.qos_info.trust \in Texts \cup {NULL}
      BY <1>1, <1>3, <2>3, QosOf DEF InitTrust
    <3>2. sysQos' \in SysRow
      BY <1>1, <3>1 DEF SysRow
    <3>. QED  BY <1>1, <1>2, <2>1, <3>2 DEF SysInv
  <2>. QED  BY <2>2, <2>3
<1>4. CASE InitDscpMap
  <2>1. qosPc = "dscp" /\ qosPc' = "cos"
    BY <1>4 DEF InitDscpMap
  <2>2. CASE desc.dscp = <<>>
    BY <1>1, <1>2, <1>4, <2>1, <2>2 DEF InitDscpMap, SysInv
  <2>3. CASE desc.dscp # <<>>
    <3>1. MapRows(DscpRows, desc.dscp) \in [1..DscpRows -> MapRow]
      BY <1>1, QosOf, MapRowsType, DescriptionsAssumption
    <3>2. sysQos' = [sysQos EXCEPT !.dscp = MapRows(DscpRows, desc.dscp)]
      BY <1>4, <2>3 DEF InitDscpMap
    <3>3. sysQos' \in SysRow
      BY <1>1, <3>1, <3>2 DEF SysRow
    <3>. QED  BY <1>1, <1>2, <2>1, <2>3, <3>3 DEF SysInv
  <2>. QED  BY <2>2, <2>3
<1>5. CASE InitCosMap
  <2>1. qosPc = "cos" /\ qosPc' = "queue"
    BY <1>5 DEF InitCosMap
  <2>2. CASE desc.cos = <<>>
    BY <1>1, <1>2, <1>5, <2>1, <2>2 DEF InitCosMap, SysInv
  <2>3. CASE desc.cos # <<>>
    <3>1. MapRows(CosRows, desc.cos) \in [1..CosRows -> MapRow]
      BY <1>1, QosOf, MapRowsType, DescriptionsAssumption
    <3>2. sysQos' = [sysQos EXCEPT !.cos = MapRows(CosRows, desc.cos)]
      BY <1>5, <2>3 DEF InitCosMap
    <3>3. sysQos' \in SysRow
      BY <1>1, <3>1, <3>2 DEF SysRow
    <3>. QED  BY <1>1, <1>2, <2>1, <2>3, <3>3 DEF SysInv
  <2>. QED  BY <2>2, <2>3
<1>6. CASE BeginQueueProfile \/ AddQueueEntry \/ MarkQueueProfile
           \/ BeginSchedule \/ AddScheduleEntry \/ MarkSchedule
  <2>1. sysQos' = sysQos
    BY <1>6 DEF BeginQueueProfile, AddQueueEntry, MarkQueueProfile,
                BeginSchedule, AddScheduleEntry, MarkSchedule
  <2>2. /\ qosPc \notin {"trust", "dscp", "cos"} /\ qosPc' \notin {"trust", "dscp", "cos"}
        /\ desc.qos_info # NULL /\ qosPc' \in {"queueFactory", "schedule", "scheduleDefault",
                                               "scheduleFactory", "done"} =>
              qosPc \in {"queueFactory", "schedule", "scheduleDefault", "scheduleFactory", "done"}
        /\ desc.qos_info # NULL /\ qosPc' \in {"scheduleFactory", "done"} =>
              qosPc \in {"scheduleFactory", "done"}
    BY <1>6 DEF BeginQueueProfile, AddQueueEntry, MarkQueueProfile,
                BeginSchedule, AddScheduleEntry, MarkSchedule
  <2>. QED  BY <1>1, <1>2, <2>1, <2>2 DEF SysInv
<1>7. CASE UseQueueProfile
  <2>1. /\ qosPc = "queueDefault" /\ qosPc' = "queueFactory" /\ desc.qos_info # NULL
        /\ sysQos' = [sysQos EXCEPT !.q_profile = Dflt] /\ Dflt \in Texts
    BY <1>7, QosOf DEF UseQueueProfile, Inv, Dflt
  <2>2. /\ sysQos' \in SysRow /\ sysQos'.q_profile = Dflt
    BY <1>1, <2>1 DEF SysRow
  <2>. QED  BY <1>1, <1>2, <2>1, <2>2 DEF SysInv
<1>8. CASE UseSchedule
  <2>1. /\ qosPc = "scheduleDefault" /\ qosPc' = "scheduleFactory" /\ desc.qos_info # NULL
        /\ sysQos' = [sysQos EXCEPT !.qos = Dflt] /\ Dflt \in Texts
    BY <1>8, QosOf DEF UseSchedule, Inv, Dflt
  <2>2. /\ sysQos' \in SysRow /\ sysQos'.qos = Dflt /\ sysQos'.q_profile = sysQos.q_profile
    BY <1>1, <2>1 DEF SysRow
  <2>. QED  BY <1>1, <1>2, <2>1, <2>2 DEF SysInv
<1>. QED  BY <1>3, <1>4, <1>5, <1>6, <1>7, <1>8 DEF Next

LEMMA ProfileTypes ==
    ASSUME NullIsNoRow, desc \in Descriptions
    PROVE  /\ {PartQueues, FullQueues, AgainQueues} \subseteq Profile(QueueRow)
           /\ {PartSchedules, FullSchedules} \subseteq Profile(ScheduleRow)
           /\ NULL \notin {PartQueues, FullQueues, AgainQueues, PartSchedules, FullSchedules}
<1>1. ASSUME NEW q
      PROVE  {PartQueue(q), FullQueue(q), AgainQueue(q)} \subseteq QueueRow \cup {NULL}
  <2>1. /\ \A n \in EntriesOf(QList, q) : QList[n] \in QueueEntry
        /\ \A n \in Before(QList, q) : QList[n] \in QueueEntry
    BY EntriesAre
  <2>2. Descs(QList, EntriesOf(QList, q)) \subseteq Texts /\ Descs(QList, Before(QList, q)) \subseteq Texts
    BY <2>1, DescsOf
  <2>3. PartQueue(q) \in QueueRow \cup {NULL}
    BY <2>1, <2>2, QueueRowIs DEF PartQueue
  <2>4. FullQueue(q) \in QueueRow \cup {NULL}
    BY <2>1, <2>2, QueueRowIs DEF FullQueue
  <2>5. \A D : D \subseteq Texts => QueueRowFrom(QList, EntriesOf(QList, q), D) \in QueueRow \cup {NULL}
    BY <2>1, QueueRowIs
  <2>6. AgainQueue(q) \in QueueRow \cup {NULL}
    BY <2>2, <2>5 DEF AgainQueue
  <2>. QED  BY <2>3, <2>4, <2>6
<1>2. ASSUME NEW q
      PROVE  /\ ScheduleRowFrom(SList, Before(SList, q)) \in ScheduleRow \cup {NULL}
             /\ ScheduleRowFrom(SList, EntriesOf(SList, q)) \in ScheduleRow \cup {NULL}
  <2>1. /\ EntriesOf(SList, q) \subseteq 1..Len(SList) /\ Before(SList, q) \subseteq 1..Len(SList)
        /\ \A n \in EntriesOf(SList, q) : SList[n] \in ScheduleEntry
        /\ \A n \in Before(SList, q) : SList[n] \in ScheduleEntry
        /\ Len(SList) \in Nat
    BY EntriesAre, QosOf
  <2>. QED  BY <2>1, ScheduleRowIs
<1>3. {PartQueues, FullQueues, AgainQueues} \subseteq Profile(QueueRow)
  BY <1>1 DEF PartQueues, FullQueues, AgainQueues, Profile
<1>4. {PartSchedules, FullSchedules} \subseteq Profile(ScheduleRow)
  BY <1>2 DEF PartSchedules, FullSchedules, Profile
<1>. QED  BY <1>3, <1>4 DEF NullIsNoRow

\* What does not change while the description does not.
LEMMA TablesKept ==
    ASSUME desc' = desc
    PROVE  /\ QList' = QList /\ SList' = SList /\ Dflt' = Dflt /\ Fact' = Fact
           /\ None' = None
           /\ FullQueues' = FullQueues /\ FullSchedules' = FullSchedules
           /\ First(PartQueues)' = First(PartQueues')
           /\ First(PartSchedules)' = First(PartSchedules')
           /\ Both(FullQueues, IF Fact = Dflt THEN AgainQueues ELSE PartQueues)'
                = Both(FullQueues, IF Fact = Dflt THEN AgainQueues' ELSE PartQueues')
           /\ Both(FullSchedules, PartSchedules)' = Both(FullSchedules, PartSchedules')
           /\ Both(FullQueues, MarkHwDefault(FullQueues))'
                = Both(FullQueues, MarkHwDefault(FullQueues))
           /\ Both(FullSchedules, MarkHwDefault(FullSchedules))'
                = Both(FullSchedules, MarkHwDefault(FullSchedules))
<1>1. QList' = QList /\ SList' = SList /\ Dflt' = Dflt /\ Fact' = Fact /\ None' = None
  BY DEF QList, SList, Dflt, Fact, None
<1>2. \A q : FullQueue(q)' = FullQueue(q)
  BY <1>1 DEF FullQueue
<1>3. FullQueues' = FullQueues /\ FullSchedules' = FullSchedules
  BY <1>1, <1>2 DEF FullQueues, FullSchedules
<1>. QED  BY <1>1, <1>3 DEF First, Both

\* The profile of that name, or a new one, in a table that has none or the first.
LEMMA CreateProfile ==
    ASSUME Dflt \in Texts, Fact \in Texts, NEW p, p # NULL
    PROVE  /\ GetOrCreate(None, Dflt) = First(NewProfile)
           /\ GetOrCreate(First(p), Fact) = Both(p, IF Fact = Dflt THEN p ELSE NewProfile)
<1>1. None[Dflt] = NULL /\ [None EXCEPT ![Dflt] = NewProfile] = First(NewProfile)
  BY DEF None, First
<1>2. CASE Fact = Dflt
  BY <1>1, <1>2 DEF GetOrCreate, First, Both
<1>3. CASE Fact # Dflt
  <2>1. First(p)[Fact] = NULL
    BY <1>3 DEF First
  <2>2. [First(p) EXCEPT ![Fact] = NewProfile] = Both(p, NewProfile)
    BY DEF First, Both
  <2>. QED  BY <1>1, <1>3, <2>1, <2>2 DEF GetOrCreate
<1>. QED  BY <1>2, <1>3

LEMMA QueueStep ==
    ASSUME NullIsNoRow, Inv, Next, desc' = desc
    PROVE  QueueInv'
<1>1. /\ desc \in Descriptions /\ entry \in Nat \ {0} /\ QueueInv
      /\ desc.qos_info = NULL =>
          qosPc \notin {"queueDefault", "queueFactory", "scheduleDefault", "scheduleFactory"}
      /\ desc.qos_info # NULL => Dflt \in Texts /\ Fact \in Texts
      /\ Len(QList) \in Nat
  BY QosOf DEF Inv
<1>2. CASE InitTrust \/ InitDscpMap \/ InitCosMap
           \/ BeginSchedule \/ AddScheduleEntry \/ UseSchedule \/ MarkSchedule
  <2>1. qProfiles' = qProfiles
    BY <1>2 DEF InitTrust, InitDscpMap, InitCosMap, BeginSchedule, AddScheduleEntry,
                UseSchedule, MarkSchedule
  <2>2. \/ /\ qosPc \in {"trust", "dscp", "cos"} /\ qosPc' \in {"dscp", "cos", "queue"}
        \/ /\ qosPc \in {"schedule", "scheduleDefault", "scheduleFactory"}
           /\ qosPc' \in {"scheduleDefault", "scheduleFactory", "done"}
    BY <1>2 DEF InitTrust, InitDscpMap, InitCosMap, BeginSchedule, AddScheduleEntry,
                UseSchedule, MarkSchedule
  <2>. QED  BY <1>1, <2>1, <2>2, TablesKept DEF QueueInv
<1>3. CASE BeginQueueProfile
  <2>1. qosPc = "queue" /\ qProfiles = None
    BY <1>1, <1>3 DEF BeginQueueProfile, QueueInv
  <2>2. CASE desc.qos_info = NULL
    BY <1>3, <2>1, <2>2, TablesKept DEF BeginQueueProfile, QueueInv
  <2>3. CASE desc.qos_info # NULL
    <3>1. /\ entry' = 1 /\ qosPc' = "queueDefault" /\ desc' \in Descriptions /\ entry' \in Nat
          /\ qProfiles' = GetOrCreate(None, Dflt)
      BY <1>1, <1>3, <2>1, <2>3 DEF BeginQueueProfile, Dflt
    <3>2. PartQueues' = NewProfile
      BY <1>1, <3>1, PassBegins
    <3>3. NewProfile # NULL
      <4>1. NewProfile \in Profile(QueueRow)
        BY DEF NewProfile, Profile
      <4>. QED  BY <4>1 DEF NullIsNoRow
    <3>4. qProfiles' = First(PartQueues)'
      BY <1>1, <2>3, <3>1, <3>2, <3>3, CreateProfile, TablesKept
    <3>. QED  BY <2>3, <3>1, <3>4 DEF QueueInv
  <2>. QED  BY <2>2, <2>3
<1>4. CASE AddQueueEntry
  <2> DEFINE e == QList[entry]
  <2>1. /\ qosPc \in {"queueDefault", "queueFactory"} /\ entry <= Len(QList)
        /\ entry' = entry + 1 /\ qosPc' = qosPc /\ desc.qos_info # NULL
        /\ Dflt \in Texts /\ Fact \in Texts
    BY <1>1, <1>4 DEF AddQueueEntry, QList
  <2>2. /\ FullQueues' = FullQueues
        /\ e = NULL => PartQueues' = PartQueues /\ AgainQueues' = AgainQueues
        /\ e # NULL =>
              /\ e.queue \in Queues
              /\ PartQueues' = Prof([[q \in Queues |-> PartQueue(q)] EXCEPT
                                       ![e.queue] = QueueRowSet(PartQueue(e.queue), e)])
              /\ AgainQueues' = Prof([[q \in Queues |-> AgainQueue(q)] EXCEPT
                                       ![e.queue] = QueueRowSet(AgainQueue(e.queue), e)])
    BY <1>1, <2>1, QueueProfilesStep
  <2>3. CASE e = NULL
    <3>1. qProfiles' = qProfiles
      BY <1>4, <2>3 DEF AddQueueEntry, QList
    <3>. QED  BY <1>1, <2>1, <2>2, <2>3, <3>1, TablesKept DEF QueueInv
  <2>4. CASE e # NULL
    <3>1. qProfiles' = WithEntry(qProfiles, ProfileName(qosPc), e.queue,
                           QueueRowSet(qProfiles[ProfileName(qosPc)].entries[e.queue], e))
      BY <1>4, <2>4 DEF AddQueueEntry, QList, WithEntry
    <3> DEFINE PF == [q \in Queues |-> PartQueue(q)]
               AF == [q \in Queues |-> AgainQueue(q)]
               pr == QueueRowSet(PartQueue(e.queue), e)
               ar == QueueRowSet(AgainQueue(e.queue), e)
    <3>5. e.queue \in Queues /\ PartQueues' = Prof(Put(PF, e.queue, pr))
          /\ AgainQueues' = Prof(Put(AF, e.queue, ar))
      BY <2>2, <2>4 DEF Put
    <3>2. /\ PartQueues = Prof(PF) /\ AgainQueues = Prof(AF)
          /\ PartQueues.entries[e.queue] = PartQueue(e.queue)
          /\ AgainQueues.entries[e.queue] = AgainQueue(e.queue)
      BY <2>2, <2>4 DEF PartQueues, AgainQueues, Prof
    <3> HIDE DEF e, PF, AF
    <3>3. CASE qosPc = "queueDefault"
      <4>1. qProfiles = First(PartQueues) /\ ProfileName(qosPc) = Dflt
        BY <1>1, <2>1, <3>3 DEF QueueInv, ProfileName, Dflt
      <4>2. qProfiles[Dflt] = PartQueues /\ DOMAIN qProfiles = Texts
        BY <2>1, <4>1, SetProfile
      <4>3. qProfiles' = WithEntry(qProfiles, Dflt, e.queue, pr)
        BY <3>1, <3>2, <4>1, <4>2
      <4>4. qProfiles' = [qProfiles EXCEPT ![Dflt] = PartQueues']
        <5> HIDE DEF pr
        <5>1. qProfiles[Dflt] = Prof(PF)
          BY <3>2, <4>2
        <5>2. WithEntry(qProfiles, Dflt, e.queue, pr) = Put(qProfiles, Dflt, PartQueues')
          BY <2>1, <3>5, <4>2, <5>1, SetPart
        <5>. QED  BY <4>3, <5>2 DEF Put
      <4>5. qProfiles' = First(PartQueues')
        BY <2>1, <4>1, <4>4, SetProfile
      <4>. QED  BY <2>1, <3>3, <4>5, TablesKept DEF QueueInv
    <3>4. CASE qosPc = "queueFactory"
      <4> DEFINE old == IF Fact = Dflt THEN AgainQueues ELSE PartQueues
      <4>1. qProfiles = Both(FullQueues, old) /\ ProfileName(qosPc) = Fact
        BY <1>1, <2>1, <3>4 DEF QueueInv, ProfileName, Fact
      <4>2. qProfiles[Fact] = old /\ DOMAIN qProfiles = Texts
        BY <2>1, <4>1, SetProfile
      <4>3. CASE Fact = Dflt
        <5>1. qProfiles' = WithEntry(qProfiles, Fact, e.queue, ar)
          BY <3>1, <3>2, <4>1, <4>2, <4>3
        <5>2. qProfiles' = [qProfiles EXCEPT ![Fact] = AgainQueues']
          <6> HIDE DEF ar
          <6>1. qProfiles[Fact] = Prof(AF)
            BY <3>2, <4>2, <4>3
          <6>2. WithEntry(qProfiles, Fact, e.queue, ar) = Put(qProfiles, Fact, AgainQueues')
            BY <2>1, <3>5, <4>2, <6>1, SetPart
          <6>. QED  BY <5>1, <6>2 DEF Put
        <5>3. qProfiles' = Both(FullQueues, AgainQueues')
          BY <2>1, <4>1, <5>2, SetProfile
        <5>. QED  BY <2>1, <3>4, <4>3, <5>3, TablesKept DEF QueueInv
      <4>4. CASE Fact # Dflt
        <5>1. qProfiles' = WithEntry(qProfiles, Fact, e.queue, pr)
          BY <3>1, <3>2, <4>1, <4>2, <4>4
        <5>2. qProfiles' = [qProfiles EXCEPT ![Fact] = PartQueues']
          <6> HIDE DEF pr
          <6>1. qProfiles[Fact] = Prof(PF)
            BY <3>2, <4>2, <4>4
          <6>2. WithEntry(qProfiles, Fact, e.queue, pr) = Put(qProfiles, Fact, PartQueues')
            BY <2>1, <3>5, <4>2, <6>1, SetPart
          <6>. QED  BY <5>1, <6>2 DEF Put
        <5>3. qProfiles' = Both(FullQueues, PartQueues')
          BY <2>1, <4>1, <5>2, SetProfile
        <5>. QED  BY <2>1, <3>4, <4>4, <5>3, TablesKept DEF QueueInv
      <4>. QED  BY <4>3, <4>4
    <3>. QED  BY <2>1, <3>3, <3>4
  <2>. QED  BY <2>3, <2>4
<1>5. CASE UseQueueProfile
  <2>1. /\ qosPc = "queueDefault" /\ qosPc' = "queueFactory" /\ entry > Len(QList) /\ entry' = 1
        /\ desc.qos_info # NULL /\ Dflt \in Texts /\ Fact \in Texts
        /\ qProfiles' = GetOrCreate(qProfiles, Fact) /\ qProfiles = First(PartQueues)
        /\ desc' \in Descriptions /\ entry' \in Nat
    BY <1>1, <1>5 DEF UseQueueProfile, QueueInv, QList, Fact
  <2>2. PartQueues = FullQueues /\ FullQueues # NULL
    BY <1>1, <2>1, PassEnds, ProfileTypes
  <2>3. PartQueues' = NewProfile /\ AgainQueues' = FullQueues
    BY <1>1, <2>1, PassBegins
  <2>4. qProfiles' = Both(FullQueues, IF Fact = Dflt THEN AgainQueues' ELSE PartQueues')
    BY <2>1, <2>2, <2>3, CreateProfile
  <2>. QED  BY <2>1, <2>4, TablesKept DEF QueueInv
<1>6. CASE MarkQueueProfile
  <2> DEFINE old == IF Fact = Dflt THEN AgainQueues ELSE PartQueues
  <2>1. /\ qosPc = "queueFactory" /\ qosPc' = "schedule" /\ entry > Len(QList)
        /\ desc.qos_info # NULL /\ Dflt \in Texts /\ Fact \in Texts
        /\ qProfiles = Both(FullQueues, old)
        /\ qProfiles' = [qProfiles EXCEPT ![Fact] = MarkHwDefault(qProfiles[Fact])]
    BY <1>1, <1>6 DEF MarkQueueProfile, QueueInv, QList, Fact
  <2>2. old = FullQueues
    BY <1>1, <2>1, PassEnds
  <2>3. qProfiles[Fact] = FullQueues
    BY <2>1, <2>2, SetProfile
  <2>4. qProfiles' = Both(FullQueues, MarkHwDefault(FullQueues))
    BY <2>1, <2>3, SetProfile
  <2>. QED  BY <2>1, <2>4, TablesKept DEF QueueInv
<1>. QED  BY <1>2, <1>3, <1>4, <1>5, <1>6 DEF Next

\* A profile that is cleared, but for the mark, is a new one when it has no mark.
LEMMA ClearProfile ==
    ASSUME NEW profiles, DOMAIN profiles = Texts, NEW name \in Texts,
           NEW F, profiles[name] = Prof(F)
    PROVE  [profiles EXCEPT ![name].entries = [q \in Queues |-> NULL]]
              = [profiles EXCEPT ![name] = NewProfile]
<1> DEFINE no == FALSE
           Rec(f, hw) == [entries |-> f, hw_default |-> hw]
           blank == [q \in Queues |-> NULL]
<1>1. \A f, g, hw : [Rec(f, hw) EXCEPT !.entries = g] = Rec(g, hw)
  OBVIOUS
<1>2. Prof(F) = Rec(F, no) /\ NewProfile = Rec(blank, no)
  BY DEF Prof, NewProfile
<1> HIDE DEF Rec, no, blank
<1>3. [profiles[name] EXCEPT !.entries = blank] = NewProfile
  BY <1>1, <1>2
<1>4. [profiles EXCEPT ![name].entries = blank] = [profiles EXCEPT ![name] = NewProfile]
  BY <1>3, Zenon
<1>. QED  BY <1>4 DEF blank

LEMMA ClearSchedules ==
    ASSUME Dflt \in Texts, Fact \in Texts, NULL # NewProfile, NULL # FullSchedules
    PROVE  /\ schedules = None => ClearSchedule(Dflt) = First(NewProfile)
           /\ schedules = First(FullSchedules) =>
                 ClearSchedule(Fact) = Both(FullSchedules, NewProfile)
<1> DEFINE rows == [q \in Queues |-> ScheduleRowFrom(SList, EntriesOf(SList, q))]
           none == [q \in Queues |-> NULL]
<1>1. FullSchedules = Prof(rows) /\ NewProfile = Prof(none)
  BY DEF FullSchedules, NewProfile, Prof
<1> HIDE DEF rows
<1>2. ASSUME schedules = None
      PROVE  ClearSchedule(Dflt) = First(NewProfile)
  <2>1. GetOrCreate(schedules, Dflt) = First(NewProfile)
    BY <1>2, CreateProfile
  <2>2. First(NewProfile)[Dflt] = Prof(none) /\ DOMAIN First(NewProfile) = Texts
    BY <1>1, SetProfile
  <2>3. ClearSchedule(Dflt) = [First(NewProfile) EXCEPT ![Dflt] = NewProfile]
    BY <2>1, <2>2, ClearProfile DEF ClearSchedule
  <2>. QED  BY <2>3, SetProfile
<1>3. ASSUME schedules = First(FullSchedules)
      PROVE  ClearSchedule(Fact) = Both(FullSchedules, NewProfile)
  <2> DEFINE old == IF Fact = Dflt THEN FullSchedules ELSE NewProfile
             oldRows == IF Fact = Dflt THEN rows ELSE none
  <2>1. GetOrCreate(schedules, Fact) = Both(FullSchedules, old)
    BY <1>3, CreateProfile
  <2>2. old = Prof(oldRows)
    BY <1>1
  <2> HIDE DEF old, oldRows
  <2>3. Both(FullSchedules, old)[Fact] = Prof(oldRows) /\ DOMAIN Both(FullSchedules, old) = Texts
    BY <2>2, SetProfile
  <2>4. ClearSchedule(Fact) = [Both(FullSchedules, old) EXCEPT ![Fact] = NewProfile]
    BY <2>1, <2>3, ClearProfile DEF ClearSchedule
  <2>. QED  BY <2>4, SetProfile
<1>. QED  BY <1>2, <1>3

LEMMA ScheduleStep ==
    ASSUME NullIsNoRow, Inv, Next, desc' = desc
    PROVE  ScheduleInv'
<1>1. /\ desc \in Descriptions /\ entry \in Nat \ {0} /\ ScheduleInv
      /\ desc.qos_info = NULL =>
          qosPc \notin {"queueDefault", "queueFactory", "scheduleDefault", "scheduleFactory"}
      /\ desc.qos_info # NULL => Dflt \in Texts /\ Fact \in Texts
      /\ Len(SList) \in Nat
  BY QosOf DEF Inv
<1>0. NewProfile # NULL /\ FullSchedules # NULL
  <2>1. NewProfile \in Profile(QueueRow)
    BY DEF NewProfile, Profile
  <2>. QED  BY <1>1, <2>1, ProfileTypes DEF NullIsNoRow
<1>2. CASE InitTrust \/ InitDscpMap \/ InitCosMap
           \/ BeginQueueProfile \/ AddQueueEntry \/ UseQueueProfile \/ MarkQueueProfile
  <2>1. schedules' = schedules
    BY <1>2 DEF InitTrust, InitDscpMap, InitCosMap, BeginQueueProfile, AddQueueEntry,
                UseQueueProfile, MarkQueueProfile
  <2>2. /\ qosPc \notin {"scheduleDefault", "scheduleFactory", "done"}
        /\ qosPc' \notin {"scheduleDefault", "scheduleFactory", "done"}
    BY <1>2 DEF InitTrust, InitDscpMap, InitCosMap, BeginQueueProfile, AddQueueEntry,
                UseQueueProfile, MarkQueueProfile
  <2>. QED  BY <1>1, <2>1, <2>2, TablesKept DEF ScheduleInv
<1>3. CASE BeginSchedule
  <2>1. qosPc = "schedule" /\ schedules = None
    BY <1>1, <1>3 DEF BeginSchedule, ScheduleInv
  <2>2. CASE desc.qos_info = NULL
    BY <1>3, <2>1, <2>2, TablesKept DEF BeginSchedule, ScheduleInv
  <2>3. CASE desc.qos_info # NULL
    <3>1. /\ entry' = 1 /\ qosPc' = "scheduleDefault"
          /\ schedules' = ClearSchedule(Dflt)
      BY <1>3, <2>3 DEF BeginSchedule, Dflt
    <3>2. PartSchedules' = NewProfile
      BY <1>1, <3>1, PassBegins
    <3>3. schedules' = First(PartSchedules')
      BY <1>0, <1>1, <2>1, <2>3, <3>1, <3>2, ClearSchedules
    <3>. QED  BY <2>3, <3>1, <3>3, TablesKept DEF ScheduleInv
  <2>. QED  BY <2>2, <2>3
<1>4. CASE AddScheduleEntry
  <2> DEFINE e == SList[entry]
             row(q) == ScheduleRowFrom(SList, Before(SList, q))
             RF == [q \in Queues |-> row(q)]
             sr == ScheduleRowSet(row(e.queue), e)
  <2>1. /\ qosPc \in {"scheduleDefault", "scheduleFactory"} /\ entry <= Len(SList)
        /\ entry' = entry + 1 /\ qosPc' = qosPc /\ desc.qos_info # NULL
        /\ Dflt \in Texts /\ Fact \in Texts
    BY <1>1, <1>4 DEF AddScheduleEntry, SList
  <2>2. /\ e = NULL => PartSchedules' = PartSchedules
        /\ e # NULL => e.queue \in Queues /\ PartSchedules' = Prof(Put(RF, e.queue, sr))
    BY <1>1, <2>1, ScheduleProfilesStep DEF Put
  <2>3. CASE e = NULL
    <3>1. schedules' = schedules
      BY <1>4, <2>3 DEF AddScheduleEntry, SList
    <3>. QED  BY <1>1, <2>1, <2>2, <2>3, <3>1, TablesKept DEF ScheduleInv
  <2>4. CASE e # NULL
    <3>1. schedules' = WithEntry(schedules, ProfileName(qosPc), e.queue,
                           ScheduleRowSet(schedules[ProfileName(qosPc)].entries[e.queue], e))
      BY <1>4, <2>4 DEF AddScheduleEntry, SList, WithEntry
    <3>2. PartSchedules = Prof(RF) /\ PartSchedules.entries[e.queue] = row(e.queue)
      BY <2>2, <2>4 DEF PartSchedules, Prof
    <3>3. e.queue \in Queues /\ PartSchedules' = Prof(Put(RF, e.queue, sr))
      BY <2>2, <2>4
    <3> HIDE DEF e, row, RF
    <3>4. CASE qosPc = "scheduleDefault"
      <4>1. schedules = First(PartSchedules) /\ ProfileName(qosPc) = Dflt
        BY <1>1, <2>1, <3>4 DEF ScheduleInv, ProfileName, Dflt
      <4>2. schedules[Dflt] = PartSchedules /\ DOMAIN schedules = Texts
        BY <2>1, <4>1, SetProfile
      <4>3. schedules' = WithEntry(schedules, Dflt, e.queue, sr)
        BY <3>1, <3>2, <4>1, <4>2
      <4> HIDE DEF sr
      <4>4. WithEntry(schedules, Dflt, e.queue, sr) = Put(schedules, Dflt, PartSchedules')
        BY <2>1, <3>2, <3>3, <4>2, SetPart
      <4>5. schedules' = First(PartSchedules')
        BY <2>1, <4>1, <4>3, <4>4, SetProfile DEF Put
      <4>. QED  BY <2>1, <3>4, <4>5, TablesKept DEF ScheduleInv
    <3>5. CASE qosPc = "scheduleFactory"
      <4>1. schedules = Both(FullSchedules, PartSchedules) /\ ProfileName(qosPc) = Fact
        BY <1>1, <2>1, <3>5 DEF ScheduleInv, ProfileName, Fact
      <4>2. schedules[Fact] = PartSchedules /\ DOMAIN schedules = Texts
        BY <2>1, <4>1, SetProfile
      <4>3. schedules' = WithEntry(schedules, Fact, e.queue, sr)
        BY <3>1, <3>2, <4>1, <4>2
      <4> HIDE DEF sr
      <4>4. WithEntry(schedules, Fact, e.queue, sr) = Put(schedules, Fact, PartSchedules')
        BY <2>1, <3>2, <3>3, <4>2, SetPart
      <4>5. schedules' = Both(FullSchedules, PartSchedules')
        BY <2>1, <4>1, <4>3, <4>4, SetProfile DEF Put
      <4>. QED  BY <2>1, <3>5, <4>5, TablesKept DEF ScheduleInv
    <3>. QED  BY <2>1, <3>4, <3>5
  <2>. QED  BY <2>3, <2>4
<1>5. CASE UseSchedule
  <2>1. /\ qosPc = "scheduleDefault" /\ qosPc' = "scheduleFactory" /\ entry > Len(SList)
        /\ entry' = 1 /\ desc.qos_info # NULL /\ Dflt \in Texts /\ Fact \in Texts
        /\ schedules' = ClearSchedule(Fact) /\ schedules = First(PartSchedules)
    BY <1>1, <1>5 DEF UseSchedule, ScheduleInv, SList, Fact
  <2>2. PartSchedules = FullSchedules
    BY <1>1, <2>1, PassEnds
  <2>3. PartSchedules' = NewProfile
    BY <1>1, <2>1, PassBegins
  <2>4. schedules' = Both(FullSchedules, PartSchedules')
    BY <1>0, <2>1, <2>2, <2>3, ClearSchedules
  <2>. QED  BY <2>1, <2>4, TablesKept DEF ScheduleInv
<1>6. CASE MarkSchedule
  <2>1. /\ qosPc = "scheduleFactory" /\ qosPc' = "done" /\ entry > Len(SList)
        /\ desc.qos_info # NULL /\ Dflt \in Texts /\ Fact \in Texts
        /\ schedules = Both(FullSchedules, PartSchedules)
        /\ schedules' = [schedules EXCEPT ![Fact] = MarkHwDefault(schedules[Fact])]
    BY <1>1, <1>6 DEF MarkSchedule, ScheduleInv, SList, Fact
  <2>2. PartSchedules = FullSchedules
    BY <1>1, <2>1, PassEnds
  <2>3. schedules[Fact] = FullSchedules
    BY <2>1, <2>2, SetProfile
  <2>4. schedules' = Both(FullSchedules, MarkHwDefault(FullSchedules))
    BY <2>1, <2>3, SetProfile
  <2>. QED  BY <2>1, <2>4, TablesKept DEF ScheduleInv
<1>. QED  BY <1>2, <1>3, <1>4, <1>5, <1>6 DEF Next

\* What each function of qos_init.c has made of the entries it has come to.
THEOREM Invariance == NullIsNoRow => (Spec => []Inv)
<1> SUFFICES ASSUME NullIsNoRow PROVE Spec => []Inv
  OBVIOUS
<1>1. Inv /\ [Next]_vars => Inv'
  <2> SUFFICES ASSUME Inv, [Next]_vars PROVE Inv'
    OBVIOUS
  <2>1. CASE Next
    <3>1. desc' = desc /\ desc \in Descriptions
      BY <2>1, DescKept DEF Inv
    <3>2. SysInv' /\ QueueInv' /\ ScheduleInv'
      BY <2>1, <3>1, SysStep, QueueStep, ScheduleStep
    <3>3. /\ entry' \in Nat \ {0}
          /\ qosPc' \in Pcs
          /\ desc.qos_info = NULL =>
                qosPc' \notin {"queueDefault", "queueFactory", "scheduleDefault", "scheduleFactory"}
      BY <2>1, ControlStep
    <3>. QED  BY <3>1, <3>2, <3>3 DEF Inv, Pcs
  <2>2. CASE UNCHANGED vars
    <3>1. desc' = desc /\ sysQos' = sysQos /\ qProfiles' = qProfiles /\ schedules' = schedules
          /\ entry' = entry /\ qosPc' = qosPc
      BY <2>2 DEF vars
    <3>2. QList' = QList /\ SList' = SList /\ Dflt' = Dflt /\ Fact' = Fact
      BY <3>1, TablesKept
    <3>3. \A list, q : Before(list, q)' = Before(list, q)
      BY <3>1 DEF Before
    <3>4. \A q : PartQueue(q)' = PartQueue(q) /\ AgainQueue(q)' = AgainQueue(q)
      BY <3>2, <3>3 DEF PartQueue, AgainQueue
    <3>5. PartQueues' = PartQueues /\ AgainQueues' = AgainQueues
      BY <3>4 DEF PartQueues, AgainQueues
    <3>6. PartSchedules' = PartSchedules
      BY <3>2, <3>3 DEF PartSchedules
    <3>7. QueueInv'
      BY <3>1, <3>2, <3>5, TablesKept DEF Inv, QueueInv
    <3>8. ScheduleInv'
      BY <3>1, <3>2, <3>6, TablesKept DEF Inv, ScheduleInv
    <3>9. SysInv'
      BY <3>1, <3>2 DEF Inv, SysInv, SysRow
    <3>. QED
      BY <3>1, <3>7, <3>8, <3>9 DEF Inv, Pcs
  <2>. QED  BY <2>1, <2>2
<1>. QED  BY <1>1, StartInv, PTL DEF Spec

-----------------------------------------------------------------------------
(***************************************************************************)
(* The properties.                                                         *)
(***************************************************************************)

\* The mark of the hardware's rows touches nothing else.
LEMMA MarkedRow ==
    ASSUME NEW r
    PROVE  /\ r \in QueueRow =>
                 /\ [r EXCEPT !.hw_default = TRUE] \in QueueRow
                 /\ [r EXCEPT !.hw_default = TRUE].local_priorities = r.local_priorities
                 /\ [r EXCEPT !.hw_default = TRUE].description = r.description
           /\ r \in ScheduleRow =>
                 /\ [r EXCEPT !.hw_default = TRUE] \in ScheduleRow
                 /\ [r EXCEPT !.hw_default = TRUE].algorithm = r.algorithm
                 /\ [r EXCEPT !.hw_default = TRUE].weight = r.weight
           /\ [[r EXCEPT !.hw_default = TRUE] EXCEPT !.hw_default = TRUE]
                = [r EXCEPT !.hw_default = TRUE]
<1> DEFINE yes == TRUE
           Upd(s) == [s EXCEPT !.hw_default = yes]
<1>1. yes \in BOOLEAN
  OBVIOUS
<1> HIDE DEF yes
<1>2. r \in QueueRow => Upd(r) \in QueueRow /\ Upd(r).local_priorities = r.local_priorities
                        /\ Upd(r).description = r.description
  BY <1>1 DEF QueueRow
<1>3. r \in ScheduleRow => Upd(r) \in ScheduleRow /\ Upd(r).algorithm = r.algorithm
                           /\ Upd(r).weight = r.weight
  BY <1>1 DEF ScheduleRow
<1>4. Upd(Upd(r)) = Upd(r)
  OBVIOUS
<1>. QED  BY <1>2, <1>3, <1>4, Zenon DEF yes

LEMMA MarkedProfile ==
    ASSUME NEW p
    PROVE  /\ \A q \in Queues : MarkHwDefault(p).entries[q] =
                                   IF p.entries[q] = NULL THEN NULL
                                   ELSE [p.entries[q] EXCEPT !.hw_default = TRUE]
           /\ MarkHwDefault(MarkHwDefault(p)) = MarkHwDefault(p)
           /\ p \in Profile(QueueRow) => MarkHwDefault(p) \in Profile(QueueRow)
           /\ p \in Profile(ScheduleRow) => MarkHwDefault(p) \in Profile(ScheduleRow)
<1> DEFINE Upd(s) == [s EXCEPT !.hw_default = TRUE]
           yes == TRUE
<1>0. yes \in BOOLEAN
  OBVIOUS
<1>1. \A s : /\ s \in QueueRow => Upd(s) \in QueueRow
             /\ s \in ScheduleRow => Upd(s) \in ScheduleRow
             /\ Upd(Upd(s)) = Upd(s)
  BY MarkedRow, Zenon
<1>2. \A s : MarkHwDefault(s) = [entries |-> [q \in Queues |-> IF s.entries[q] = NULL THEN NULL
                                                               ELSE Upd(s.entries[q])],
                                 hw_default |-> yes]
  BY Zenon DEF MarkHwDefault
<1> HIDE DEF Upd, yes
<1>3. \A q \in Queues : MarkHwDefault(p).entries[q] =
                           IF p.entries[q] = NULL THEN NULL ELSE Upd(p.entries[q])
  BY <1>2
<1>4. MarkHwDefault(MarkHwDefault(p)) = MarkHwDefault(p)
  BY <1>1, <1>2
<1>5. ASSUME NEW Rows, \A s \in Rows : Upd(s) \in Rows, p \in Profile(Rows)
      PROVE  MarkHwDefault(p) \in Profile(Rows)
  <2>1. \A q \in Queues : p.entries[q] \in Rows \cup {NULL}
    BY <1>5 DEF Profile
  <2>. QED  BY <1>0, <1>2, <1>5, <2>1 DEF Profile
<1>6. p \in Profile(QueueRow) => MarkHwDefault(p) \in Profile(QueueRow)
  BY <1>1, <1>5
<1>7. p \in Profile(ScheduleRow) => MarkHwDefault(p) \in Profile(ScheduleRow)
  BY <1>1, <1>5
<1>. QED  BY <1>3, <1>4, <1>6, <1>7, Zenon DEF Upd

\* The types of all that is kept.
THEOREM TypeInvariant == NullIsNoRow => (Spec => []TypeOK)
<1> SUFFICES ASSUME NullIsNoRow PROVE Spec => []TypeOK
  OBVIOUS
<1>1. Inv => TypeOK
  <2> SUFFICES ASSUME Inv PROVE TypeOK
    OBVIOUS
  <2>1. desc \in Descriptions /\ desc \in Description /\ entry \in Nat \ {0} /\ qosPc \in Pcs
        /\ sysQos \in SysRow
    BY DescriptionsAssumption DEF Inv, SysInv
  <2>2. {None, First(PartQueues), Both(FullQueues, AgainQueues), Both(FullQueues, PartQueues),
         Both(FullQueues, MarkHwDefault(FullQueues))} \subseteq [Texts -> Profile(QueueRow) \cup {NULL}]
    BY <2>1, ProfileTypes, MarkedProfile DEF None, First, Both
  <2>3. {None, First(PartSchedules), Both(FullSchedules, PartSchedules),
         Both(FullSchedules, MarkHwDefault(FullSchedules))}
           \subseteq [Texts -> Profile(ScheduleRow) \cup {NULL}]
    BY <2>1, ProfileTypes, MarkedProfile DEF None, First, Both
  <2>4. qProfiles \in {None, First(PartQueues), Both(FullQueues, AgainQueues),
                       Both(FullQueues, PartQueues), Both(FullQueues, MarkHwDefault(FullQueues))}
    BY DEF Inv, QueueInv, Pcs
  <2>5. schedules \in {None, First(PartSchedules), Both(FullSchedules, PartSchedules),
                       Both(FullSchedules, MarkHwDefault(FullSchedules))}
    BY DEF Inv, ScheduleInv, Pcs
  <2>. QED  BY <2>1, <2>2, <2>3, <2>4, <2>5 DEF TypeOK, SysRow
<1>. QED  BY <1>1, Invariance, PTL

\* The tables when all is done.
LEMMA AtTheEnd ==
    ASSUME NullIsNoRow, Inv, qosPc = "done", desc.qos_info # NULL
    PROVE  /\ desc \in Descriptions /\ Dflt \in Texts /\ Fact \in Texts
           /\ sysQos.q_profile = Dflt /\ sysQos.qos = Dflt
           /\ qProfiles = Both(FullQueues, MarkHwDefault(FullQueues))
           /\ schedules = Both(FullSchedules, MarkHwDefault(FullSchedules))
           /\ qProfiles[Fact] = MarkHwDefault(FullQueues)
           /\ schedules[Fact] = MarkHwDefault(FullSchedules)
           /\ Fact # Dflt => qProfiles[Dflt] = FullQueues /\ schedules[Dflt] = FullSchedules
<1>1. /\ desc \in Descriptions /\ Dflt \in Texts /\ Fact \in Texts
      /\ sysQos.q_profile = Dflt /\ sysQos.qos = Dflt
      /\ qProfiles = Both(FullQueues, MarkHwDefault(FullQueues))
      /\ schedules = Both(FullSchedules, MarkHwDefault(FullSchedules))
  BY QosOf DEF Inv, SysInv, QueueInv, ScheduleInv
<1>. QED  BY <1>1, SetProfile

\* A profile's row of a queue, marked or not.
LEMMA QueueRowAtTheEnd ==
    ASSUME NullIsNoRow, Inv, qosPc = "done", desc.qos_info # NULL,
           NEW name \in ProfileNames, NEW q \in Queues
    PROVE  LET row == qProfiles[name].entries[q]
               of  == EntriesOf(QList, q) IN
           /\ of = {} => row = NULL
           /\ of # {} => /\ row # NULL
                         /\ row.local_priorities = {QList[n].local_priority : n \in of}
                         /\ row.description = Only(Descs(QList, of))
<1> DEFINE of  == EntriesOf(QList, q)
           full == FullQueue(q)
           marked == [full EXCEPT !.hw_default = TRUE]
<1>1. name \in {Dflt, Fact}
  BY DEF ProfileNames, Dflt, Fact
<1>2. FullQueues.entries[q] = full
  BY DEF FullQueues
<1>3. MarkHwDefault(FullQueues).entries[q] = IF full = NULL THEN NULL ELSE marked
  <2>1. MarkHwDefault(FullQueues).entries[q] =
           IF FullQueues.entries[q] = NULL THEN NULL
           ELSE [FullQueues.entries[q] EXCEPT !.hw_default = TRUE]
    BY MarkedProfile
  <2> HIDE DEF full
  <2>2. CASE full = NULL
    BY <1>2, <2>1, <2>2, Zenon
  <2>3. CASE full # NULL
    BY <1>2, <2>1, <2>3, Zenon
  <2>. QED  BY <2>2, <2>3
<1>4. /\ qProfiles[name] \in {FullQueues, MarkHwDefault(FullQueues)} /\ desc \in Descriptions
  BY <1>1, AtTheEnd
<1>5. qProfiles[name].entries[q] \in {full, IF full = NULL THEN NULL ELSE marked}
  BY <1>2, <1>3, <1>4, Zenon
<1>6. \A n \in of : QList[n] \in QueueEntry
  BY <1>4, EntriesAre
<1>7. Descs(QList, of) \subseteq Texts
  BY <1>6, DescsOf
<1>8. /\ of = {} => full = NULL
      /\ of # {} => /\ full \in QueueRow /\ full # NULL
                    /\ full.local_priorities = {QList[n].local_priority : n \in of}
                    /\ full.description = Only(Descs(QList, of))
  BY <1>6, <1>7, QueueRowIs DEF FullQueue
<1>9. full \in QueueRow =>
        marked \in QueueRow /\ marked.local_priorities = full.local_priorities
        /\ marked.description = full.description
  BY MarkedRow, Zenon
<1>10. marked \in QueueRow => marked # NULL
  BY DEF NullIsNoRow
<1> HIDE DEF full, marked
<1>. QED  BY <1>5, <1>8, <1>9, <1>10

\* The queues come out with every priority listed for them and the last description,
\* for any list of entries, in any order and repeated at will.
THEOREM QueuesAreDescribed == NullIsNoRow => (Spec => []QueuesAsDescribed)
<1> SUFFICES ASSUME NullIsNoRow PROVE Spec => []QueuesAsDescribed
  OBVIOUS
<1>1. Inv => QueuesAsDescribed
  <2> SUFFICES ASSUME Inv, qosPc = "done", desc.qos_info # NULL,
                      NEW name \in ProfileNames, NEW q \in Queues
               PROVE  LET row  == qProfiles[name].entries[q]
                          of   == EntriesOf(QList, q)
                          named == {n \in of : QList[n].description # NULL} IN
                      IF of = {} THEN row = NULL
                      ELSE /\ row # NULL
                           /\ row.local_priorities = {QList[n].local_priority : n \in of}
                           /\ named = {} => row.description = NULL
                           /\ \A n \in Last(named) : row.description = QList[n].description
    BY DEF QueuesAsDescribed, QList
  <2> DEFINE row  == qProfiles[name].entries[q]
             of   == EntriesOf(QList, q)
             named == {n \in of : QList[n].description # NULL}
  <2>1. /\ of = {} => row = NULL
        /\ of # {} => /\ row # NULL
                      /\ row.local_priorities = {QList[n].local_priority : n \in of}
                      /\ row.description = Only(Descs(QList, of))
    BY QueueRowAtTheEnd
  <2>2. Descs(QList, of) = {QList[n].description : n \in Last(named)}
    BY DEF Descs
  <2>3. named = {} => Only(Descs(QList, of)) = NULL
    BY <2>2 DEF Only, Last
  <2>4. ASSUME NEW n \in Last(named)
        PROVE  Only(Descs(QList, of)) = QList[n].description
    <3>1. named \subseteq Nat
      BY EntriesAre DEF Inv
    <3>2. \A m \in Last(named) : m = n
      BY <3>1, OneLast
    <3>3. Descs(QList, of) = {QList[n].description}
      BY <2>2, <3>2
    <3>. QED  BY <3>3, OnlyMember
  <2> HIDE DEF row, of, named
  <2>5. IF of = {} THEN row = NULL
        ELSE /\ row # NULL
             /\ row.local_priorities = {QList[n].local_priority : n \in of}
             /\ named = {} => row.description = NULL
             /\ \A n \in Last(named) : row.description = QList[n].description
    BY <2>1, <2>3, <2>4
  <2>. QED  BY <2>5 DEF row, of, named
<1>. QED  BY <1>1, Invariance, PTL

LEMMA ScheduleRowAtTheEnd ==
    ASSUME NullIsNoRow, Inv, qosPc = "done", desc.qos_info # NULL,
           NEW name \in ProfileNames, NEW q \in Queues
    PROVE  LET row == schedules[name].entries[q]
               of  == EntriesOf(SList, q) IN
           /\ of = {} => row = NULL
           /\ of # {} => row # NULL
           /\ \A n \in Last(of) : row.algorithm = ScheduleOf(SList[n]).algorithm
                                  /\ row.weight = ScheduleOf(SList[n]).weight
<1> DEFINE of  == EntriesOf(SList, q)
           full == ScheduleRowFrom(SList, of)
           marked == [full EXCEPT !.hw_default = TRUE]
<1>1. name \in {Dflt, Fact}
  BY DEF ProfileNames, Dflt, Fact
<1>2. FullSchedules.entries[q] = full
  BY DEF FullSchedules
<1>3. MarkHwDefault(FullSchedules).entries[q] = IF full = NULL THEN NULL ELSE marked
  <2>1. MarkHwDefault(FullSchedules).entries[q] =
           IF FullSchedules.entries[q] = NULL THEN NULL
           ELSE [FullSchedules.entries[q] EXCEPT !.hw_default = TRUE]
    BY MarkedProfile
  <2> HIDE DEF full
  <2>2. CASE full = NULL
    BY <1>2, <2>1, <2>2, Zenon
  <2>3. CASE full # NULL
    BY <1>2, <2>1, <2>3, Zenon
  <2>. QED  BY <2>2, <2>3
<1>4. /\ schedules[name] \in {FullSchedules, MarkHwDefault(FullSchedules)} /\ desc \in Descriptions
  BY <1>1, AtTheEnd
<1>5. schedules[name].entries[q] \in {full, IF full = NULL THEN NULL ELSE marked}
  BY <1>2, <1>3, <1>4, Zenon
<1>6. of \subseteq 1..Len(SList) /\ Len(SList) \in Nat /\ \A n \in of : SList[n] \in ScheduleEntry
  BY <1>4, EntriesAre, QosOf
<1>8. /\ of = {} => full = NULL
      /\ of # {} => full \in ScheduleRow /\ full # NULL
      /\ \A n \in Last(of) : full = ScheduleOf(SList[n])
  BY <1>6, ScheduleRowIs
<1>9. full \in ScheduleRow =>
        marked \in ScheduleRow /\ marked.algorithm = full.algorithm /\ marked.weight = full.weight
  BY MarkedRow, Zenon
<1>10. marked \in ScheduleRow => marked # NULL
  BY DEF NullIsNoRow
<1>11. Last(of) # {} => of # {}
  BY DEF Last
<1> HIDE DEF full, marked
<1>. QED  BY <1>5, <1>8, <1>9, <1>10, <1>11

\* Each queue is scheduled as its last entry says, and has a weight just when it is not
\* strict, whatever earlier entries of the queue said.
THEOREM SchedulesAreDescribed == NullIsNoRow => (Spec => []SchedulesAsDescribed)
<1> SUFFICES ASSUME NullIsNoRow PROVE Spec => []SchedulesAsDescribed
  OBVIOUS
<1>1. Inv => SchedulesAsDescribed
  <2> SUFFICES ASSUME Inv, qosPc = "done", desc.qos_info # NULL,
                      NEW name \in ProfileNames, NEW q \in Queues
               PROVE  LET row == schedules[name].entries[q]
                          of  == EntriesOf(SList, q) IN
                      IF of = {} THEN row = NULL
                      ELSE /\ row # NULL
                           /\ row.algorithm = "strict" <=> row.weight = NULL
                           /\ \A n \in Last(of) : /\ row.algorithm = SList[n].algorithm
                                                  /\ row.weight \in {SList[n].weight, NULL}
    BY DEF SchedulesAsDescribed, SList
  <2> DEFINE row == schedules[name].entries[q]
             of  == EntriesOf(SList, q)
  <2>1. /\ of = {} => row = NULL
        /\ of # {} => row # NULL
        /\ \A n \in Last(of) : row.algorithm = ScheduleOf(SList[n]).algorithm
                               /\ row.weight = ScheduleOf(SList[n]).weight
    BY ScheduleRowAtTheEnd
  <2>2. of \subseteq 1..Len(SList) /\ Len(SList) \in Nat /\ \A n \in of : SList[n] \in ScheduleEntry
    BY EntriesAre, QosOf DEF Inv
  <2>3. of # {} => \E n : n \in Last(of)
    BY <2>2, LastExists
  <2>4. ASSUME NEW n \in Last(of)
        PROVE  /\ row.algorithm = SList[n].algorithm
               /\ row.weight \in {SList[n].weight, NULL}
               /\ row.algorithm = "strict" <=> row.weight = NULL
    <3>1. SList[n] \in ScheduleEntry
      BY <2>2 DEF Last
    <3>2. SList[n].weight \in Weights /\ SList[n].weight # NULL
      BY <3>1, DescriptionsAssumption DEF ScheduleEntry
    <3>3. /\ ScheduleOf(SList[n]).algorithm = SList[n].algorithm
          /\ ScheduleOf(SList[n]).weight = IF SList[n].algorithm = "strict" THEN NULL ELSE SList[n].weight
      BY Zenon DEF ScheduleOf
    <3> HIDE DEF row
    <3>. QED  BY <2>1, <3>2, <3>3
  <2> HIDE DEF row, of
  <2>5. IF of = {} THEN row = NULL
        ELSE /\ row # NULL
             /\ row.algorithm = "strict" <=> row.weight = NULL
             /\ \A n \in Last(of) : /\ row.algorithm = SList[n].algorithm
                                    /\ row.weight \in {SList[n].weight, NULL}
    BY <2>1, <2>3, <2>4
  <2>. QED  BY <2>5 DEF row, of
<1>. QED  BY <1>1, Invariance, PTL

\* A reset restores what the switch came up with: the factory default's profiles are the
\* defaults' with every row marked, and the defaults' carry no mark when their name is
\* another.
THEOREM FactoryDefaultsAreCopies == NullIsNoRow => (Spec => []FactoryDefaultIsCopy)
<1> SUFFICES ASSUME NullIsNoRow PROVE Spec => []FactoryDefaultIsCopy
  OBVIOUS
<1>1. Inv => FactoryDefaultIsCopy
  <2> SUFFICES ASSUME Inv, qosPc = "done", desc.qos_info # NULL
               PROVE  /\ sysQos.q_profile = Dflt /\ sysQos.qos = Dflt
                      /\ qProfiles[Fact] = MarkHwDefault(qProfiles[Dflt])
                      /\ schedules[Fact] = MarkHwDefault(schedules[Dflt])
                      /\ Dflt # Fact =>
                            \A p \in {qProfiles[Dflt], schedules[Dflt]} :
                                /\ ~p.hw_default
                                /\ \A q \in Queues : p.entries[q] # NULL => ~p.entries[q].hw_default
    BY DEF FactoryDefaultIsCopy, Dflt, Fact
  <2>1. /\ desc \in Descriptions
        /\ sysQos.q_profile = Dflt /\ sysQos.qos = Dflt
        /\ qProfiles[Fact] = MarkHwDefault(FullQueues)
        /\ schedules[Fact] = MarkHwDefault(FullSchedules)
        /\ Fact # Dflt => qProfiles[Dflt] = FullQueues /\ schedules[Dflt] = FullSchedules
    BY AtTheEnd
  <2>2. /\ qProfiles[Fact] = MarkHwDefault(qProfiles[Dflt])
        /\ schedules[Fact] = MarkHwDefault(schedules[Dflt])
    BY <2>1, MarkedProfile
  <2>3. ~FullQueues.hw_default /\ ~FullSchedules.hw_default
    BY Zenon DEF FullQueues, FullSchedules
  <2>4. ASSUME NEW q \in Queues, FullQueues.entries[q] # NULL
        PROVE  ~FullQueues.entries[q].hw_default
    <3>1. FullQueues.entries[q] = FullQueue(q)
      BY DEF FullQueues
    <3>2. EntriesOf(QList, q) # {}
      BY <2>4, <3>1 DEF FullQueue, QueueRowFrom
    <3>3. ~FullQueue(q).hw_default
      BY <3>2, Zenon DEF FullQueue, QueueRowFrom
    <3>. QED  BY <3>1, <3>3, Zenon
  <2>5. ASSUME NEW q \in Queues, FullSchedules.entries[q] # NULL
        PROVE  ~FullSchedules.entries[q].hw_default
    <3>1. FullSchedules.entries[q] = ScheduleRowFrom(SList, EntriesOf(SList, q))
      BY DEF FullSchedules
    <3>2. \E n : ScheduleRowFrom(SList, EntriesOf(SList, q)) = ScheduleOf(SList[n])
      BY <2>5, <3>1 DEF ScheduleRowFrom, Only
    <3>3. \A n : ~ScheduleOf(SList[n]).hw_default
      BY Zenon DEF ScheduleOf
    <3>. QED  BY <3>1, <3>2, <3>3, Zenon
  <2>6. ASSUME Dflt # Fact, NEW p \in {FullQueues, FullSchedules}
        PROVE  /\ ~p.hw_default
               /\ \A q \in Queues : p.entries[q] # NULL => ~p.entries[q].hw_default
    BY <2>3, <2>4, <2>5, <2>6, Zenon
  <2>7. Dflt # Fact => qProfiles[Dflt] = FullQueues /\ schedules[Dflt] = FullSchedules
    BY <2>1
  <2>. QED  BY <2>1, <2>2, <2>6, <2>7, Zenon
<1>. QED  BY <1>1, Invariance, PTL
=============================================================================
