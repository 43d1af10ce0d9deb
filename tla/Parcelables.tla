------------------------------ MODULE Parcelables ------------------------------
(***************************************************************************)
(* The records that cross the interface of DiskManagerProvider, as their   *)
(* Marshalling writes them and their Unmarshalling reads them.  A parcel   *)
(* is a sequence of words with no names in it: what a reader assigns to a  *)
(* member depends on the order, the widths and the counts alone.  A vector *)
(* of records is written one after another, and a record that is written   *)
(* or read wrongly shifts every one that follows it.                       *)
(*                                                                         *)
(* A layout lists the calls of one Marshalling or Unmarshalling in order.  *)
(* A value is symbolic: the member and the record it belongs to, and the   *)
(* length of a string.  Members that no layout names do not cross.         *)
(***************************************************************************)
EXTENDS Naturals, Sequences, SequencesExt

CONSTANTS
    StringMax,      \* PARCEL_STRING_MAX_LEN
    CountMax,       \* the limit on volume ids and on partitions
    Capacity,       \* words a parcel takes before a Write call fails
    MaxRecords      \* bound on the records of one vector

VARIABLES
    type,           \* the type of the records
    sent,           \* the records of the sender
    parcel,         \* the words written
    written,        \* how many records are in the parcel
    pos,            \* the words the reader has taken
    received,       \* the records read
    pc              \* "idle", "write", "read", "done", "failed", "refused"

vars == <<type, sent, parcel, written, pos, received, pc>>

-----------------------------------------------------------------------------
(* The calls of a layout.                                                  *)
Call(kind, field, max) == [kind |-> kind, field |-> field, max |-> max]
NoLimit == StringMax + CountMax + 2
Str(field) == Call("string", field, NoLimit)        \* no check of the length
Bounded(field) == Call("string", field, StringMax)  \* size() > max: nullptr
I32(field) == Call("int32", field, NoLimit)
I64(field) == Call("int64", field, NoLimit)
U64(field) == Call("uint64", field, NoLimit)
Bool(field) == Call("bool", field, NoLimit)
Strs(field, max) == Call("strings", field, max)      \* count, then strings
Parts(field, max) == Call("partitions", field, max)  \* count, then records

MountParamMarshalling == <<Bool("readOnly"), Bool("fromEdmMount")>>

MountParamUnmarshalling == <<Bool("readOnly"), Bool("fromEdmMount")>>

CryptParamMarshalling == <<Str("type"), Str("cipher"), I32("keySize"), Str("keyFile")>>

CryptParamUnmarshalling ==
    <<Bounded("type"), Bounded("cipher"), I32("keySize"), Bounded("keyFile")>>

VolumeCoreMarshalling ==
    <<Str("id"), I32("type"), Str("diskId"), I32("state"), Bool("errorFlag"), Str("fsType"),
      Str("extraInfo")>>

VolumeCoreUnmarshalling ==
    <<Bounded("id"), I32("type"), Bounded("diskId"), I32("state"), Bool("errorFlag"),
      Bounded("fsType"), Bounded("extraInfo")>>

VolumeInfoStrMarshalling ==
    <<Str("volumeId"), Str("fsTypeStr"), Str("fsUuid"), Str("path"), Str("description"),
      Bool("isDamaged")>>

VolumeInfoStrUnmarshalling ==
    <<Bounded("volumeId"), Bounded("fsTypeStr"), Bounded("fsUuid"), Bounded("path"),
      Bounded("description"), Bool("isDamaged")>>

VolumeExternalMarshalling ==
    VolumeCoreMarshalling \o
    <<I32("flags"), I32("fsTypeNum"), Str("fsUuid"), Str("path"), Str("description"),
      I32("partitionNum"), Str("loopPath"), Str("mapperPath"), Bool("mountFlag"), U64("offset"),
      U64("sizeLimit")>>

(* Mutation: the uuid is read after the path. *)
ExternalPathFirst ==
    VolumeCoreUnmarshalling \o
    <<I32("flags"), I32("fsTypeNum"), Str("path"), Str("fsUuid"), Str("description"),
      I32("partitionNum"), Str("loopPath"), Str("mapperPath"), Bool("mountFlag"), U64("offset"),
      U64("sizeLimit")>>

(* The core is copied by a constructor that leaves errorFlag_ at its       *)
(* initial value, the only one it has (nothing sets it).                   *)
VolumeExternalUnmarshalling ==
    VolumeCoreUnmarshalling \o
    <<I32("flags"), I32("fsTypeNum"), Str("fsUuid"), Str("path"), Str("description"),
      I32("partitionNum"), Str("loopPath"), Str("mapperPath"), Bool("mountFlag"), U64("offset"),
      U64("sizeLimit")>>

DiskMarshalling ==
    <<Str("diskId"), I64("sizeBytes"), I32("diskType"), Bool("removable"),
      Strs("volumeIds", NoLimit), Str("extraInfo"), I32("vendorId"), I32("productId"),
      Str("serialNumber"), I32("busnum"), I32("devAddress")>>

DiskUnmarshalling ==
    <<Bounded("diskId"), I64("sizeBytes"), I32("diskType"), Bool("removable"),
      Strs("volumeIds", CountMax), Bounded("extraInfo"), I32("vendorId"), I32("productId"),
      Bounded("serialNumber"), I32("busnum"), I32("devAddress")>>

ExternalDiskInfoMarshalling ==
    <<Str("diskId"), I32("diskType"), Strs("volumeIds", NoLimit), I32("vendorId"),
      I32("productId")>>

ExternalDiskInfoUnmarshalling ==
    <<Bounded("diskId"), I32("diskType"), Strs("volumeIds", CountMax), I32("vendorId"),
      I32("productId")>>

ExternalVolumeInfoMarshalling ==
    <<Str("volumeId"), Str("uuid"), Str("diskId"), Str("description"), I32("state"),
      I64("totalSize"), I64("freeSize"), Str("path"), Str("fsType")>>

ExternalVolumeInfoUnmarshalling ==
    <<Bounded("volumeId"), Bounded("uuid"), Bounded("diskId"), Bounded("description"),
      I32("state"), I64("totalSize"), I64("freeSize"), Bounded("path"), Bounded("fsType")>>

PartitionInfoMarshalling ==
    <<I32("partitionNum"), Str("diskId"), I64("startSector"), I64("endSector"),
      I64("sizeBytes"), Str("fsType")>>

PartitionInfoUnmarshalling ==
    <<I32("partitionNum"), Bounded("diskId"), I64("startSector"), I64("endSector"),
      I64("sizeBytes"), Bounded("fsType")>>

PartitionTableInfoMarshalling ==
    <<Str("diskId"), Str("tableType"), I32("partitionCount"), I64("totalSector"),
      I32("sectorSize"), I32("alignSector"), Parts("partitions", CountMax)>>

PartitionTableInfoUnmarshalling ==
    <<Bounded("diskId"), Bounded("tableType"), I32("partitionCount"), I64("totalSector"),
      I32("sectorSize"), I32("alignSector"), Parts("partitions", CountMax)>>

PartitionParamsMarshalling ==
    <<I32("partitionNum"), I64("startSector"), I64("endSector"), Str("typeCode")>>

PartitionParamsUnmarshalling ==
    <<I32("partitionNum"), I64("startSector"), I64("endSector"), Bounded("typeCode")>>

FormatParamsMarshalling == <<Str("fsType"), Bool("quickFormat"), Str("volumeName")>>

FormatParamsUnmarshalling == <<Bounded("fsType"), Bool("quickFormat"), Bounded("volumeName")>>

Marshalling ==
    [MountParam |-> MountParamMarshalling, CryptParam |-> CryptParamMarshalling,
     VolumeCore |-> VolumeCoreMarshalling, VolumeInfoStr |-> VolumeInfoStrMarshalling,
     VolumeExternal |-> VolumeExternalMarshalling, Disk |-> DiskMarshalling,
     ExternalDiskInfo |-> ExternalDiskInfoMarshalling,
     ExternalVolumeInfo |-> ExternalVolumeInfoMarshalling,
     PartitionInfo |-> PartitionInfoMarshalling,
     PartitionTableInfo |-> PartitionTableInfoMarshalling,
     PartitionParams |-> PartitionParamsMarshalling, FormatParams |-> FormatParamsMarshalling]

Unmarshalling ==
    [MountParam |-> MountParamUnmarshalling, CryptParam |-> CryptParamUnmarshalling,
     VolumeCore |-> VolumeCoreUnmarshalling, VolumeInfoStr |-> VolumeInfoStrUnmarshalling,
     VolumeExternal |-> VolumeExternalUnmarshalling, Disk |-> DiskUnmarshalling,
     ExternalDiskInfo |-> ExternalDiskInfoUnmarshalling,
     ExternalVolumeInfo |-> ExternalVolumeInfoUnmarshalling,
     PartitionInfo |-> PartitionInfoUnmarshalling,
     PartitionTableInfo |-> PartitionTableInfoUnmarshalling,
     PartitionParams |-> PartitionParamsUnmarshalling,
     FormatParams |-> FormatParamsUnmarshalling]

Type == DOMAIN Marshalling

-----------------------------------------------------------------------------
(* Values and records.  Of the strings of a record those of one member     *)
(* have a length other than 1; the volume ids and the partitions are as    *)
(* many as is chosen.                                                      *)
Value(field, n, len) == [of |-> field, rec |-> n, len |-> len]
Nothing == Value("", 0, 0)      \* the initial value of a member
Fields(layout) == {layout[i].field : i \in DOMAIN layout}
KindOf(layout, f) == (CHOOSE c \in Range(layout) : c.field = f).kind
Lists == {"volumeIds", "partitions"}

Part(n, len) == [f \in Fields(PartitionInfoMarshalling) |-> Value(f, n, len)]

Record(layout, n, long, len, count) ==
    [f \in Fields(layout) |->
        LET l == IF f = long THEN len ELSE 1
        IN CASE f = "volumeIds" -> [i \in 1..count |-> Value(f, 10 * n + i, l)]
             [] f = "partitions" -> [i \in 1..count |-> Part(10 * n + i, l)]
             [] f = "errorFlag" -> Nothing
             [] OTHER -> Value(f, n, l)]

Strings(layout) ==
    {f \in Fields(layout) : KindOf(layout, f) \in {"string", "strings", "partitions"}}

(* Records with the strings of one member at any length up to one over the *)
(* limit, or with a list of any length up to one over the limit.           *)
Records(layout, n) ==
    {Record(layout, n, f, len, 1) : f \in Strings(layout), len \in {0, StringMax, StringMax + 1}}
    \cup {Record(layout, n, "", 0, k) :
            k \in IF Lists \cap Fields(layout) # {} THEN 0..(CountMax + 1) ELSE {1}}

-----------------------------------------------------------------------------
(* The words of a record.                                                  *)
Word(kind, val) == [kind |-> kind, val |-> val]
Count(n) == Word("uint32", Value("count", n, 0))

WriteFlat(layout, record) ==
    [i \in DOMAIN layout |-> Word(layout[i].kind, record[layout[i].field])]

WriteField(call, val) ==
    CASE call.kind = "strings" ->
            <<Count(Len(val))>> \o [i \in DOMAIN val |-> Word("string", val[i])]
      [] call.kind = "partitions" ->
            <<Count(Len(val))>> \o
            FlattenSeq([i \in DOMAIN val |-> WriteFlat(PartitionInfoMarshalling, val[i])])
      [] OTHER -> <<Word(call.kind, val)>>

Words(layout, record) ==
    FlattenSeq([i \in DOMAIN layout |-> WriteField(layout[i], record[layout[i].field])])

ListsFit(layout, record) ==
    \A c \in Range(layout) : c.kind \in {"strings", "partitions"} => Len(record[c.field]) <= c.max

(* What a Read call of the kind returns: the initial value past the end,   *)
(* and nothing meaningful from a word of another kind.                     *)
Garbage == Value("garbage", 0, 1)
ReadWord(at, kind) ==
    IF at > Len(parcel) THEN Nothing
    ELSE IF parcel[at].kind = kind THEN parcel[at].val ELSE Garbage

(* The reader's progress: whether it goes on, where, and what it has read. *)
Taken(ok, at, obj) == [ok |-> ok, at |-> at, obj |-> obj]
Assigned(obj, f, v) == [g \in DOMAIN obj \cup {f} |-> IF g = f THEN v ELSE obj[g]]

ReadString(s, call) ==
    LET v == ReadWord(s.at, call.kind)
    IN Taken(s.ok /\ (v.len <= call.max \/ call.kind # "string"), s.at + 1, Assigned(s.obj, call.field, v))

ReadFlat(layout, at) == FoldLeft(ReadString, Taken(TRUE, at, <<>>), layout)

ReadList(s, call) ==
    LET n == ReadWord(s.at, "uint32").rec
        width == IF call.kind = "strings" THEN 1 ELSE Len(PartitionInfoUnmarshalling)
        at(i) == s.at + 1 + width * (i - 1)
        item(i) == IF call.kind = "strings"
                   THEN ReadString(Taken(TRUE, at(i), <<>>), Bounded(call.field))
                   ELSE ReadFlat(PartitionInfoUnmarshalling, at(i))
        val(i) == IF call.kind = "strings" THEN item(i).obj[call.field] ELSE item(i).obj
    IN IF n > call.max THEN Taken(FALSE, s.at, s.obj)
       ELSE Taken(\A i \in 1..n : item(i).ok, at(n + 1),
                  Assigned(s.obj, call.field, [i \in 1..n |-> val(i)]))

ReadField(s, call) ==
    IF ~s.ok THEN s
    ELSE IF call.kind \in {"strings", "partitions"} THEN ReadList(s, call)
    ELSE ReadString(s, call)

ReadRecord(layout, at) == FoldLeft(ReadField, Taken(TRUE, at, <<>>), layout)

-----------------------------------------------------------------------------
Init ==
    /\ type = "Disk" /\ sent = <<>> /\ parcel = <<>> /\ written = 0
    /\ pos = 0 /\ received = <<>> /\ pc = "idle"

(* A call or a reply carries records of one type.                          *)
Send(t) ==
    /\ pc = "idle"
    /\ \E k \in 1..MaxRecords :
         \E first \in Records(Marshalling[t], 1) :
           sent' = [i \in 1..k |->
                       IF i = 1 THEN first ELSE Record(Marshalling[t], i, "", 0, 1)]
    /\ type' = t /\ pc' = "write"
    /\ UNCHANGED <<parcel, written, pos, received>>

(* Marshalling of the next record.  A Write call that fails and a list     *)
(* that is too long make it return false, and the call fails.              *)
WriteRecord ==
    /\ pc = "write" /\ written < Len(sent)
    /\ LET record == sent[written + 1]
           words == Words(Marshalling[type], record)
       IN IF ListsFit(Marshalling[type], record) /\ Len(parcel \o words) <= Capacity
          THEN /\ parcel' = parcel \o words
               /\ written' = written + 1
               /\ pc' = IF written' = Len(sent) THEN "read" ELSE "write"
          ELSE pc' = "failed" /\ UNCHANGED <<parcel, written>>
    /\ UNCHANGED <<type, sent, pos, received>>

(* Unmarshalling of the next record.                                       *)
ReadNext ==
    /\ pc = "read" /\ Len(received) < written
    /\ LET s == ReadRecord(Unmarshalling[type], pos + 1)
       IN IF s.ok
          THEN /\ received' = Append(received, s.obj)
               /\ pos' = s.at - 1
               /\ pc' = IF Len(received') = written THEN "done" ELSE "read"
          ELSE pc' = "refused" /\ UNCHANGED <<received, pos>>
    /\ UNCHANGED <<type, sent, parcel, written>>

(* The parcel is released and the next call begins.                        *)
Release ==
    /\ pc \in {"done", "failed", "refused"}
    /\ sent' = <<>> /\ parcel' = <<>> /\ written' = 0
    /\ pos' = 0 /\ received' = <<>> /\ pc' = "idle"
    /\ UNCHANGED type

Next ==
    \/ \E t \in Type : Send(t)
    \/ WriteRecord
    \/ ReadNext
    \/ Release

Spec == Init /\ [][Next]_vars

-----------------------------------------------------------------------------
(* The records that are read are the ones that were written, member by     *)
(* member, and after them the parcel is used up: for every type the reader *)
(* undoes the writer, and a record of a vector never shifts the next.      *)
RecordsArrive ==
    /\ received = SubSeq(sent, 1, Len(received))
    /\ pc = "done" => pos = Len(parcel)

(* The limits the readers check.                                           *)
Oversized(r) ==
    \E f \in DOMAIN r :
        CASE f = "volumeIds" -> Len(r[f]) > CountMax \/ \E i \in DOMAIN r[f] : r[f][i].len > StringMax
          [] f = "partitions" -> Len(r[f]) > CountMax \/ \E i \in DOMAIN r[f] : r[f][i]["fsType"].len > StringMax
          [] OTHER -> r[f].len > StringMax

(* A call whose records are within the limits and fit into a parcel is     *)
(* neither failed by the sender nor refused by the receiver: no check is   *)
(* stricter on one side than the limits both sides declare.                *)
WithinLimitsAccepted ==
    /\ pc = "refused" => \E i \in DOMAIN sent : Oversized(sent[i])
    /\ pc = "failed" => \/ \E i \in DOMAIN sent : Oversized(sent[i])
                        \/ \E n \in 1..Len(sent) :
                             Len(parcel \o Words(Marshalling[type], sent[n])) > Capacity
=============================================================================
