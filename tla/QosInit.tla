------------------------------ MODULE QosInit -------------------------------
(***************************************************************************)
(* The QoS defaults, src/qos_init.c, step by step: trust, the two maps,    *)
(* and the queue and schedule profiles, each created twice from the same   *)
(* list of entries, under the default name and the factory default's.      *)
(***************************************************************************)
EXTENDS HwDesc

VARIABLES
    desc,           \* the description read; constant
    sysQos,         \* the System row's QoS columns
    qProfiles,      \* [name -> row of Q_Profile]
    schedules,      \* [name -> row of QoS, the schedule profiles]
    entry,          \* number of the next entry of the list
    qosPc

vars == <<desc, sysQos, qProfiles, schedules, entry, qosPc>>

BlankMapRow   == [config |-> NULL, hw_defaults |-> NULL]
BlankQueue    == [local_priorities |-> {}, description |-> NULL, hw_default |-> FALSE]
BlankSchedule == [algorithm |-> NULL, weight |-> NULL, hw_default |-> FALSE]

MapRow      == [config : MapEntry \cup {NULL}, hw_defaults : MapEntry \cup {NULL}]
QueueRow    == [local_priorities : SUBSET Priorities, description : Texts \cup {NULL},
                hw_default : BOOLEAN]
ScheduleRow == [algorithm : {"strict", "dwrr"}, weight : Weights \cup {NULL},
                hw_default : BOOLEAN]

Profile(Rows) == [entries : [Queues -> Rows \cup {NULL}], hw_default : BOOLEAN]

NullIsNoRow == NULL \notin QueueRow \cup ScheduleRow \cup Profile(QueueRow) \cup Profile(ScheduleRow)

Pcs == {"trust", "dscp", "cos", "queue", "queueDefault", "queueFactory",
        "schedule", "scheduleDefault", "scheduleFactory", "done"}

TypeOK ==
    /\ desc \in Description
    /\ sysQos \in [trust : Texts \cup {NULL}, q_profile : Texts \cup {NULL},
                   qos : Texts \cup {NULL},
                   cos : [1..CosRows -> MapRow] \cup {NULL},
                   dscp : [1..DscpRows -> MapRow] \cup {NULL}]
    /\ qProfiles \in [Texts -> Profile(QueueRow) \cup {NULL}]
    /\ schedules \in [Texts -> Profile(ScheduleRow) \cup {NULL}]
    /\ entry \in Nat \ {0}
    /\ qosPc \in Pcs

Start ==
    /\ sysQos = [trust |-> NULL, cos |-> NULL, dscp |-> NULL, q_profile |-> NULL, qos |-> NULL]
    /\ qProfiles = [t \in Texts |-> NULL]
    /\ schedules = [t \in Texts |-> NULL]
    /\ entry = 1
    /\ qosPc = "trust"

Init == desc \in Descriptions /\ Start

-----------------------------------------------------------------------------
(***************************************************************************)
(* qos_init_trust(), qos_init_dscp_map(), qos_init_cos_map()               *)
(***************************************************************************)
InitTrust ==
    /\ qosPc = "trust"
    /\ sysQos' = IF desc.qos_info = NULL \/ desc.qos_info.trust = NULL THEN sysQos
                 ELSE [sysQos EXCEPT !.trust = desc.qos_info.trust]
    /\ qosPc' = "dscp"
    /\ UNCHANGED <<desc, qProfiles, schedules, entry>>

\* n rows are inserted, and as many filled as there are entries.
MapRows(n, list) ==
    [r \in 1..n |-> IF r <= Len(list) THEN [config |-> list[r], hw_defaults |-> list[r]]
                    ELSE BlankMapRow]

InitDscpMap ==
    /\ qosPc = "dscp"
    /\ sysQos' = IF desc.dscp = <<>> THEN sysQos
                 ELSE [sysQos EXCEPT !.dscp = MapRows(DscpRows, desc.dscp)]
    /\ qosPc' = "cos"
    /\ UNCHANGED <<desc, qProfiles, schedules, entry>>

InitCosMap ==
    /\ qosPc = "cos"
    /\ sysQos' = IF desc.cos = <<>> THEN sysQos
                 ELSE [sysQos EXCEPT !.cos = MapRows(CosRows, desc.cos)]
    /\ qosPc' = "queue"
    /\ UNCHANGED <<desc, qProfiles, schedules, entry>>

-----------------------------------------------------------------------------
(***************************************************************************)
(* qos_init_queue_profile()                                                *)
(***************************************************************************)
NewProfile == [entries |-> [q \in Queues |-> NULL], hw_default |-> FALSE]

\* qos_queue_profile_command() and its like: the row of that name, or a new one.
GetOrCreate(profiles, name) ==
    IF profiles[name] # NULL THEN profiles ELSE [profiles EXCEPT ![name] = NewProfile]

\* hw_default of the profile and of all its entries.
MarkHwDefault(p) ==
    [entries    |-> [q \in Queues |-> IF p.entries[q] = NULL THEN NULL
                                      ELSE [p.entries[q] EXCEPT !.hw_default = TRUE]],
     hw_default |-> TRUE]

\* The name under which the pass at hand creates its profile.
ProfileName(pc) ==
    IF pc \in {"queueDefault", "scheduleDefault"}
    THEN desc.qos_info.default_name ELSE desc.qos_info.factory_default_name

BeginQueueProfile ==
    /\ qosPc = "queue"
    /\ IF desc.qos_info = NULL
       THEN qosPc' = "schedule" /\ UNCHANGED qProfiles
       ELSE /\ qProfiles' = GetOrCreate(qProfiles, desc.qos_info.default_name)
            /\ qosPc' = "queueDefault"
    /\ entry' = 1
    /\ UNCHANGED <<desc, sysQos, schedules>>

\* Faulty variant: an entry without a description takes the row's away.
QueueRowSetDescAlways(row, e) ==
    LET r == IF row = NULL THEN BlankQueue ELSE row IN
    [r EXCEPT !.local_priorities = @ \cup {e.local_priority}, !.description = e.description]

\* The queue's row, or a new one, with the entry's priority added.
QueueRowSet(row, e) ==
    LET r == IF row = NULL THEN BlankQueue ELSE row IN
    [r EXCEPT !.local_priorities = @ \cup {e.local_priority},
              !.description = IF e.description = NULL THEN @ ELSE e.description]

AddQueueEntry ==
    /\ qosPc \in {"queueDefault", "queueFactory"}
    /\ entry <= Len(desc.queue_profile)
    /\ LET e == desc.queue_profile[entry] IN
       qProfiles' = IF e = NULL THEN qProfiles
                    ELSE [qProfiles EXCEPT ![ProfileName(qosPc)].entries[e.queue] =
                                               QueueRowSet(@, e)]
    /\ entry' = entry + 1
    /\ UNCHANGED <<desc, sysQos, schedules, qosPc>>

\* System:q_profile is the default profile; the factory default follows.
UseQueueProfile ==
    /\ qosPc = "queueDefault" /\ entry > Len(desc.queue_profile)
    /\ sysQos' = [sysQos EXCEPT !.q_profile = desc.qos_info.default_name]
    /\ qProfiles' = GetOrCreate(qProfiles, desc.qos_info.factory_default_name)
    /\ entry' = 1
    /\ qosPc' = "queueFactory"
    /\ UNCHANGED <<desc, schedules>>

MarkQueueProfile ==
    /\ qosPc = "queueFactory" /\ entry > Len(desc.queue_profile)
    /\ qProfiles' = [qProfiles EXCEPT ![desc.qos_info.factory_default_name] = MarkHwDefault(@)]
    /\ qosPc' = "schedule"
    /\ UNCHANGED <<desc, sysQos, schedules, entry>>

-----------------------------------------------------------------------------
(***************************************************************************)
(* qos_init_schedule_profile()                                             *)
(***************************************************************************)

\* The profile's row with no queues, whatever it had.
ClearSchedule(name) ==
    [GetOrCreate(schedules, name) EXCEPT ![name].entries = [q \in Queues |-> NULL]]

BeginSchedule ==
    /\ qosPc = "schedule"
    /\ IF desc.qos_info = NULL
       THEN qosPc' = "done" /\ UNCHANGED schedules
       ELSE /\ schedules' = ClearSchedule(desc.qos_info.default_name)
            /\ qosPc' = "scheduleDefault"
    /\ entry' = 1
    /\ UNCHANGED <<desc, sysQos, qProfiles>>

\* Faulty variant: a queue that turns strict keeps its weight.
ScheduleRowSetKeepWeight(row, e) ==
    LET r == IF row = NULL THEN BlankSchedule ELSE row IN
    [r EXCEPT !.algorithm = e.algorithm, !.weight = IF e.algorithm = "strict" THEN @ ELSE e.weight]

ScheduleRowSet(row, e) ==
    LET r == IF row = NULL THEN BlankSchedule ELSE row IN
    [r EXCEPT !.algorithm = e.algorithm, !.weight = IF e.algorithm = "strict" THEN NULL ELSE e.weight]

AddScheduleEntry ==
    /\ qosPc \in {"scheduleDefault", "scheduleFactory"}
    /\ entry <= Len(desc.schedule_profile)
    /\ LET e == desc.schedule_profile[entry] IN
       schedules' = IF e = NULL THEN schedules
                    ELSE [schedules EXCEPT ![ProfileName(qosPc)].entries[e.queue] =
                                               ScheduleRowSet(@, e)]
    /\ entry' = entry + 1
    /\ UNCHANGED <<desc, sysQos, qProfiles, qosPc>>

UseSchedule ==
    /\ qosPc = "scheduleDefault" /\ entry > Len(desc.schedule_profile)
    /\ sysQos' = [sysQos EXCEPT !.qos = desc.qos_info.default_name]
    /\ schedules' = ClearSchedule(desc.qos_info.factory_default_name)
    /\ entry' = 1
    /\ qosPc' = "scheduleFactory"
    /\ UNCHANGED <<desc, qProfiles>>

\* Faulty variant: the default profile is marked.
MarkScheduleDefault ==
    /\ qosPc = "scheduleFactory" /\ entry > Len(desc.schedule_profile)
    /\ schedules' = [schedules EXCEPT ![desc.qos_info.default_name] = MarkHwDefault(@)]
    /\ qosPc' = "done"
    /\ UNCHANGED <<desc, sysQos, qProfiles, entry>>

MarkSchedule ==
    /\ qosPc = "scheduleFactory" /\ entry > Len(desc.schedule_profile)
    /\ schedules' = [schedules EXCEPT ![desc.qos_info.factory_default_name] = MarkHwDefault(@)]
    /\ qosPc' = "done"
    /\ UNCHANGED <<desc, sysQos, qProfiles, entry>>

Next ==
    \/ InitTrust \/ InitDscpMap \/ InitCosMap
    \/ BeginQueueProfile \/ AddQueueEntry \/ UseQueueProfile \/ MarkQueueProfile
    \/ BeginSchedule \/ AddScheduleEntry \/ UseSchedule \/ MarkSchedule

Spec == Init /\ [][Next]_vars

-----------------------------------------------------------------------------
(***************************************************************************)
(* Properties.                                                             *)
(***************************************************************************)

ProfileNames == {desc.qos_info.default_name, desc.qos_info.factory_default_name}

\* The entries of a list that are for queue q, and the last of a set of them.
EntriesOf(list, q) == {n \in 1..Len(list) : list[n] # NULL /\ list[n].queue = q}
Last(S)            == {n \in S : \A m \in S : m <= n}

\* A queue's row holds every priority that the description gives the queue, and the
\* last description among its entries, in whatever order and how often they come;
\* queues without entries have no row.
QueuesAsDescribed ==
    qosPc = "done" /\ desc.qos_info # NULL =>
        \A name \in ProfileNames, q \in Queues :
            LET row  == qProfiles[name].entries[q]
                list == desc.queue_profile
                of   == EntriesOf(list, q)
                named == {n \in of : list[n].description # NULL} IN
            IF of = {} THEN row = NULL
            ELSE /\ row # NULL
                 /\ row.local_priorities = {list[n].local_priority : n \in of}
                 /\ named = {} => row.description = NULL
                 /\ \A n \in Last(named) : row.description = list[n].description

\* A queue is scheduled as its last entry says, with a weight unless it is strict.
SchedulesAsDescribed ==
    qosPc = "done" /\ desc.qos_info # NULL =>
        \A name \in ProfileNames, q \in Queues :
            LET row  == schedules[name].entries[q]
                list == desc.schedule_profile
                of   == EntriesOf(list, q) IN
            IF of = {} THEN row = NULL
            ELSE /\ row # NULL
                 /\ row.algorithm = "strict" <=> row.weight = NULL
                 /\ \A n \in Last(of) : /\ row.algorithm = list[n].algorithm
                                        /\ row.weight \in {list[n].weight, NULL}

\* What a reset to factory defaults restores is what the switch came up with: the
\* System row points to profiles a user may change, and under another name stands the
\* same profile with every row of it marked as the hardware's.
FactoryDefaultIsCopy ==
    qosPc = "done" /\ desc.qos_info # NULL =>
        LET dflt == desc.qos_info.default_name   fact == desc.qos_info.factory_default_name IN
        /\ sysQos.q_profile = dflt /\ sysQos.qos = dflt
        /\ qProfiles[fact] = MarkHwDefault(qProfiles[dflt])
        /\ schedules[fact] = MarkHwDefault(schedules[dflt])
        /\ dflt # fact =>
              \A p \in {qProfiles[dflt], schedules[dflt]} :
                  /\ ~p.hw_default
                  /\ \A q \in Queues : p.entries[q] # NULL => ~p.entries[q].hw_default
=============================================================================
