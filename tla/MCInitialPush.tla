--------------------------- MODULE MCInitialPush ----------------------------
(***************************************************************************)
(* Instance of InitialPush.  A byte has two values, so that num_macs goes  *)
(* to 3 and an address to 63.  One part of the description varies at a     *)
(* time, the others are those of Plain.                                    *)
(***************************************************************************)
EXTENDS InitialPush

CONSTANTS x, y, p1, p2, p3, absent

Pairs(S)   == {<<a, b>> : a \in S, b \in S}
UpToTwo(S) == {<<>>} \cup {<<a>> : a \in S} \cup Pairs(S)
Triples(S) == {<<a, b, c>> : a \in S, b \in S, c \in S}

Plain ==
    [fru_yaml |-> TRUE, fru_info |-> NULL, eeprom |-> [version |-> 1, tlvs |-> <<>>, intact |-> TRUE],
     ports |-> <<[name |-> p1, parent_port |-> NULL, subports |-> <<>>]>>,
     qos_info |-> NULL, cos |-> <<>>, dscp |-> <<>>,
     queue_profile |-> <<>>, schedule_profile |-> <<>>, os_release |-> NULL]

MCTlvs ==
    [code : {"num_macs"}, value : {0, 1} \X {0, 1}]
      \cup [code : {"base_mac_address"}, value : {5, 62, 63}]
      \cup [code : TextFields, value : {x, y}]
      \cup [code : {"vendor_extension", "crc", "illegal"}]

WithEeprom ==
    {[Plain EXCEPT !.fru_yaml = FALSE, !.eeprom = [version |-> v, tlvs |-> s, intact |-> i]] :
        v \in {1}, s \in UpToTwo(MCTlvs) \cup Triples(MCTlvs), i \in BOOLEAN}
      \cup {[Plain EXCEPT !.fru_yaml = FALSE, !.eeprom.version = 2]}

WithFruYaml ==
    {[Plain EXCEPT !.fru_info = f] :
        f \in [num_macs : 0..Uint16 + 1, oui : {0, Low24 - 1}, text : [TextFields -> {x, NULL}]]}

\* Three ports in this order, each with any parent but itself and up to two ports below
\* it.  The first may also name a port that is not described.
PortInfos(n, a, b, others) ==
    [name : {n}, parent_port : {a, b, NULL} \cup others,
     subports : {<<>>, <<a>>, <<b>>, <<a, b>>} \cup {<<c>> : c \in others} \cup {<<c, b>> : c \in others}]

WithPorts ==
    {[Plain EXCEPT !.ports = <<a, b, c>>] :
        a \in PortInfos(p1, p2, p3, {absent}), b \in PortInfos(p2, p1, p3, {}), c \in PortInfos(p3, p2, p1, {})}
      \cup {[Plain EXCEPT !.ports = <<>>]}

QosNames(S) == [trust : {x}, default_name : {x}, factory_default_name : S]

MCQueueEntries    == [queue : Queues, local_priority : Priorities, description : {x, NULL}]
MCScheduleEntries == [queue : Queues, algorithm : {"strict", "dwrr"}, weight : Weights]

WithProfiles ==
    {[Plain EXCEPT !.qos_info = n, !.queue_profile = s] :
        n \in QosNames({y}), s \in UpToTwo(MCQueueEntries \cup {NULL}) \cup Triples(MCQueueEntries)}
      \cup {[Plain EXCEPT !.qos_info = n, !.schedule_profile = s] :
        n \in QosNames({y}), s \in UpToTwo(MCScheduleEntries \cup {NULL}) \cup Triples(MCScheduleEntries)}
      \cup {[Plain EXCEPT !.qos_info = n, !.queue_profile = s, !.schedule_profile = <<e>>] :
        n \in QosNames({x}), s \in UpToTwo(MCQueueEntries), e \in MCScheduleEntries}

MCMaps == UpToTwo([code_point : {0, 1}, local_priority : Priorities])

WithMaps ==
    {[Plain EXCEPT !.qos_info = n, !.cos = c, !.dscp = d] :
        n \in [trust : {NULL}, default_name : {x}, factory_default_name : {y}] \cup {NULL},
        c \in MCMaps, d \in MCMaps}

MCReleaseLines == [name : {"NAME", "VERSION_ID", "BUILD_ID", "other"}, value : {x, y, NULL}]

WithRelease ==
    {[Plain EXCEPT !.os_release = s] : s \in UpToTwo(MCReleaseLines) \cup Triples(MCReleaseLines)}

MCDescriptions == UNION {WithEeprom, WithFruYaml, WithPorts, WithProfiles, WithMaps, WithRelease}
=============================================================================
