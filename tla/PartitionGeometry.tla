--------------------------- MODULE PartitionGeometry ----------------------------
(***************************************************************************)
(* Where a new partition may lie.  GetPartitionTable parses sgdisk's       *)
(* report into partitionTableMap_; CreatePartition checks a client's       *)
(* sectors against the table of the disk id there, and passes them on.     *)
(* The table is that of the last report: nothing removes it with the disk. *)
(*                                                                         *)
(* One slot, that is one disk id, in which devices follow each other.  The *)
(* calls hold partitionLock_.  The wait for the uevent, and the volumes    *)
(* that come of it, are in PartitionDiscovery.                             *)
(***************************************************************************)
EXTENDS Integers, Sequences, SequencesExt, FiniteSets

CONSTANTS
    Device,         \* devices
    LastUsable,     \* last usable sector of each
    SectorSize, AlignSector,
    Sectors,        \* bound: the sectors a client asks for
    Types,          \* type codes
    MinSize,        \* the least bytes of each
    Int64Max,       \* the largest number of bytes
    MaxNum,         \* bound: partition numbers
    Exchange        \* whether the device may be exchanged for another

GeometryAssumption ==
    /\ SectorSize \in Nat \ {0} /\ AlignSector \in Nat \ {0}
    /\ \A v \in Device : LastUsable[v] \in Nat /\ LastUsable[v] * SectorSize <= Int64Max

VARIABLES
    device,         \* the device in the slot
    parts,          \* the partitions that it has
    table,          \* partitionTableMap_ of the slot: no table, or one
    current,        \* whether the table was read since the partitions last changed
    sent,           \* the sectors last passed to the daemon
    products        \* the products computed for them

vars == <<device, parts, table, current, sent, products>>

Params == [partitionNum : 1..MaxNum, startSector : Sectors, endSector : Sectors, typeCode : Types]

Init ==
    /\ device \in Device
    /\ parts = {}
    /\ table = <<>>
    /\ current = FALSE
    /\ sent = <<>>
    /\ products = {}

-----------------------------------------------------------------------------
(* sgdisk's report: lines with the geometry, a heading, and one line for   *)
(* each partition.  One line of the geometry may be missing or garbled.    *)
PartLines(ps) ==
    SetToSortSeq({[kind |-> "part", part |-> p] : p \in ps},
                 LAMBDA a, b : a.part.partitionNum < b.part.partitionNum)

GeometryLines ==
    <<[kind |-> "sectorSize", value |-> SectorSize],
      [kind |-> "usable", value |-> LastUsable[device]],
      [kind |-> "align", value |-> AlignSector]>>

Reports ==
    LET rest == <<[kind |-> "header"]>> \o PartLines(parts)
    IN {GeometryLines \o rest} \cup
       {ReplaceAt(GeometryLines, i, [kind |-> "other"]) \o rest : i \in 1..3}

(* The value in the first line of a kind; none if there is none.           *)
FirstValue(content, kind) ==
    LET hits == SelectSeq(content, LAMBDA l : l.kind = kind)
    IN IF hits = <<>> THEN <<>> ELSE <<hits[1].value>>

SetSectorSize(content) == FirstValue(content, "sectorSize")
SetAlignSector(content) == FirstValue(content, "align")
SetUsableSector(content) == FirstValue(content, "usable")

(* ParsePartitionInfo, and the size that SetPartitions adds.               *)
ParsePartitionInfo(line, sectorSize) ==
    [partitionNum |-> line.part.partitionNum, startSector |-> line.part.startSector,
     endSector |-> line.part.endSector,
     sizeBytes |-> (line.part.endSector - line.part.startSector + 1) * sectorSize]

(* SetPartitions: the lines after the heading.                             *)
SetPartitions(content, sectorSize) ==
    LET index == SelectInSeq(content, LAMBDA l : l.kind = "header") + 1
    IN {ParsePartitionInfo(content[i], sectorSize) : i \in index..Len(content)}

(* GetPartitionTable: a call of the daemon that fails, or a report that    *)
(* lacks a line, leaves the table that was there.                          *)
GetPartitionTable ==
    /\ \E content \in Reports :
         LET size == SetSectorSize(content)
             align == SetAlignSector(content)
             last == SetUsableSector(content)
         IN /\ size # <<>> /\ align # <<>> /\ last # <<>>
            /\ table' = <<[sectorSize |-> size[1], alignSector |-> align[1],
                           lastUsableSector |-> last[1],
                           partitions |-> SetPartitions(content, size[1])]>>
            /\ current' = TRUE
    /\ sent' = <<>> /\ products' = {}
    /\ UNCHANGED <<device, parts>>

-----------------------------------------------------------------------------
(* Mutation: only the lower limit is checked. *)
LowerLimitOnly(sector, info) == info.alignSector <= sector

InRange(sector, info) == info.alignSector <= sector /\ sector <= info.lastUsableSector

Size(params, info) == (params.endSector - params.startSector + 1) * info.sectorSize

(* Mutation: the type's least size is not asked for. *)
SizeUnchecked(params, info) ==
    /\ InRange(params.startSector, info)
    /\ (params.startSector * info.sectorSize) % info.alignSector = 0
    /\ InRange(params.endSector, info)

IsParamsValid(params, info) ==
    /\ InRange(params.startSector, info)
    /\ (params.startSector * info.sectorSize) % info.alignSector = 0
    /\ InRange(params.endSector, info)
    /\ Size(params, info) >= MinSize[params.typeCode]

(* The products that the checks come to, with those before them passed.    *)
Products(params, info) ==
    (IF InRange(params.startSector, info) THEN {params.startSector * info.sectorSize} ELSE {}) \cup
    (IF InRange(params.startSector, info) /\ InRange(params.endSector, info)
     THEN {Size(params, info)} ELSE {})

(* The daemon has sgdisk make the partition, which refuses a number that   *)
(* is taken, and sectors that are taken or that the disk does not have.    *)
DaemonCreates(params) ==
    /\ params.endSector <= LastUsable[device] /\ params.startSector <= params.endSector
    /\ \A p \in parts : /\ p.partitionNum # params.partitionNum
                        /\ p.endSector < params.startSector \/ params.endSector < p.startSector

CreatePartition(params) ==
    /\ table # <<>>
    /\ products' = Products(params, table[1])
    /\ IF IsParamsValid(params, table[1])
       THEN /\ sent' = <<params>>
            /\ \/ /\ DaemonCreates(params)
                  /\ parts' = parts \cup {[partitionNum |-> params.partitionNum,
                                           startSector |-> params.startSector,
                                           endSector |-> params.endSector]}
                  /\ current' = FALSE
               \/ UNCHANGED <<parts, current>>
       ELSE sent' = <<>> /\ UNCHANGED <<parts, current>>
    /\ UNCHANGED <<device, table>>

(* DeletePartition: of a number that the table lists.                      *)
DeletePartition(n) ==
    /\ table # <<>> /\ \E p \in table[1].partitions : p.partitionNum = n
    /\ parts' = {p \in parts : p.partitionNum # n}
    /\ current' = (current /\ parts' = parts)
    /\ sent' = <<>> /\ products' = {}
    /\ UNCHANGED <<device, table>>

(* The device is exchanged, and its uevents are handled: they do not touch *)
(* partitionTableMap_.                                                     *)
ExchangeDevice ==
    /\ Exchange
    /\ device' \in Device \ {device}
    /\ parts' = {} /\ current' = FALSE
    /\ sent' = <<>> /\ products' = {}
    /\ UNCHANGED table

Next ==
    \/ GetPartitionTable
    \/ \E params \in Params : CreatePartition(params)
    \/ \E n \in 1..MaxNum : DeletePartition(n)
    \/ ExchangeDevice

Spec == Init /\ [][Next]_vars

-----------------------------------------------------------------------------
(* A table that was read since the last change lists the partitions of the *)
(* disk, with the bytes that each of them has.                             *)
TableIsOfDisk ==
    current => /\ table[1].lastUsableSector = LastUsable[device]
               /\ table[1].partitions =
                    {[partitionNum |-> p.partitionNum, startSector |-> p.startSector,
                      endSector |-> p.endSector,
                      sizeBytes |-> (p.endSector - p.startSector + 1) * SectorSize] : p \in parts}

(* What CreatePartition passes to the daemon is a partition that the disk  *)
(* in the slot has room for, with its end not before its start, and with   *)
(* the bytes that the file system needs.                                   *)
SentFitsDisk ==
    \A i \in DOMAIN sent :
        /\ AlignSector <= sent[i].startSector /\ sent[i].startSector <= sent[i].endSector
        /\ sent[i].endSector <= LastUsable[device]
        /\ Cardinality(sent[i].startSector..sent[i].endSector) * SectorSize >= MinSize[sent[i].typeCode]

(* No product of IsParamsValid exceeds the bytes of a disk, whatever the   *)
(* client asks for: each is computed after its operands have been limited. *)
ProductsFit ==
    \A n \in products : -Int64Max <= n /\ n <= Int64Max

(* What CreatePartition passes to the daemon starts on a boundary of       *)
(* AlignSector sectors.                                                    *)
SentIsAligned ==
    \A i \in DOMAIN sent : sent[i].startSector % AlignSector = 0
=================================================================================
