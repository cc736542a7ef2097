------------------------------- MODULE HwDesc -------------------------------
(***************************************************************************)
(* What the hardware description files, the FRU EEPROM and os-release may  *)
(* say: the input of the initial push.  Text is one of Texts, numbers keep *)
(* the width the code gives them, with Byte for 256.                       *)
(***************************************************************************)
EXTENDS Naturals, Sequences

CONSTANTS
    Byte,           \* number of values of a byte: 256
    NULL,           \* a null pointer, an absent column
    Texts,          \* texts of the description
    TextFields,     \* the FRU's fields of text
    PortNames,      \* names a port may have or refer to
    Queues, Priorities, Weights,
    CosRows, DscpRows,  \* QOS_COS_MAP_ENTRY_COUNT, QOS_DSCP_MAP_ENTRY_COUNT
    MaxSplitPorts,  \* SYSD_MAX_SPLIT_PORTS
    Descriptions    \* the descriptions considered

Uint16   == Byte * Byte             \* the width of fru_eeprom_t.num_macs
Low24    == Byte * Byte * Byte      \* the last three bytes of an address
MacSpace == Low24 * Low24

\* The TLVs total_length covers.  Lengths are those of the format, so that the
\* last TLV ends at total_length.
Tlv == [code : {"num_macs"}, value : (0..Byte - 1) \X (0..Byte - 1)]
  \cup [code : {"base_mac_address"}, value : 0..MacSpace - 1]
  \cup [code : TextFields, value : Texts]
  \cup [code : {"vendor_extension", "crc", "illegal"}]

\* intact: the bytes are those whose CRC the writer stored.
Eeprom  == [version : Nat, tlvs : Seq(Tlv), intact : BOOLEAN]
FruInfo == [num_macs : Nat, oui : 0..Low24 - 1, text : [TextFields -> Texts \cup {NULL}]]

Port == [name : PortNames, parent_port : PortNames \cup {NULL}, subports : Seq(PortNames)]

QosInfo       == [trust : Texts \cup {NULL}, default_name : Texts, factory_default_name : Texts]
QueueEntry    == [queue : Queues, local_priority : Priorities, description : Texts \cup {NULL}]
ScheduleEntry == [queue : Queues, algorithm : {"strict", "dwrr"}, weight : Weights]
MapEntry      == [code_point : Nat, local_priority : Priorities]

\* A line of /etc/os-release; the value without white space at its end, NULL when empty.
ReleaseLine == [name : {"NAME", "VERSION_ID", "BUILD_ID", "other"}, value : Texts \cup {NULL}]

Description ==
    [fru_yaml : BOOLEAN, fru_info : FruInfo \cup {NULL}, eeprom : Eeprom,
     ports : Seq(Port), qos_info : QosInfo \cup {NULL},
     cos : Seq(MapEntry), dscp : Seq(MapEntry),
     queue_profile : Seq(QueueEntry \cup {NULL}),
     schedule_profile : Seq(ScheduleEntry \cup {NULL}),
     os_release : Seq(ReleaseLine) \cup {NULL}]

\* NULL is none of the values it stands beside.  What the code takes for granted: names
\* of ports are distinct, no port lists more subports than the array for them holds, and
\* no map has more entries than rows.
ASSUME DescriptionsAssumption ==
    /\ Byte \in Nat \ {0}
    /\ CosRows \in Nat /\ DscpRows \in Nat /\ MaxSplitPorts \in Nat
    /\ TextFields \cap {"num_macs", "base_mac_address", "vendor_extension", "crc", "illegal"} = {}
    /\ Descriptions \subseteq Description
    /\ NULL \notin Nat \cup Weights \cup Texts \cup PortNames \cup FruInfo \cup QosInfo \cup QueueEntry \cup ScheduleEntry
    /\ \A d \in Descriptions :
          /\ \A m, n \in 1..Len(d.ports) : d.ports[m].name = d.ports[n].name => m = n
          /\ \A n \in 1..Len(d.ports) : Len(d.ports[n].subports) <= MaxSplitPorts
          /\ Len(d.cos) <= CosRows /\ Len(d.dscp) <= DscpRows
=============================================================================
