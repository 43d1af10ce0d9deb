--------------------------- MODULE DiskClassification ---------------------------
(***************************************************************************)
(* What kind of disk a new block device is.  UeventBootstrap reads the     *)
(* configuration files at start; an add uevent gets an initial flag from   *)
(* the first entry that matches its DEVPATH, or from the path itself, and  *)
(* Disk::RefreshClassificationFromSysfs decides the type with it.          *)
(*                                                                         *)
(* A path is the set of the topologies its text shows, and the group of    *)
(* devices that the patterns of the configuration tell apart.              *)
(***************************************************************************)
EXTENDS Naturals, Sequences, SequencesExt, Bitwise

CONSTANTS
    Disk,           \* disk ids
    CdcFiles,       \* the texts that CDC_DVRDISK_CONFIG_PATH may have
    ConfigFiles,    \* the texts that CONFIG_PATH may have
    Topologies,     \* sets of {"optical", "nvme", "sata", "usb", "mmc", "usbText"}: what
                    \* the SysPathHas tests see, and whether "usb" occurs in it
    Groups          \* groups of DEVPATHs

VARIABLES
    files,          \* the lines of the files still to be read
    texts,          \* the files
    diskConfigList, \* diskConfigList_
    disks           \* diskMap_: no disk, or one with what its uevent said

vars == <<files, texts, diskConfigList, disks>>

SD_FLAG == 1
USB_FLAG == 2
CD_FLAG == 3
DATA_DISK_SSD == 4
DATA_DISK_HDD == 5
DVR_USB == 6
DISK_TYPE_UNKNOWN == 255
Majors == {8, 11, 179, 259}     \* SCSI, DISK_CD_MAJOR, DISK_MMC_MAJOR, block extended
Rotational == 0..2              \* SSD, HDD, and 2 for the -1 of an unknown one

Envs == [major : Majors, group : Groups, path : Topologies, rotational : Rotational]

-----------------------------------------------------------------------------
(* ParasConfigFile: an empty line, or the end, completes a file; a line    *)
(* that is malformed is skipped.                                           *)
ParasConfigFile ==
    /\ files # <<>>
    /\ IF files[1] = <<>> \/ files[1][1].kind = "empty"
       THEN files' = Tail(files) /\ UNCHANGED diskConfigList
       ELSE /\ files' = <<Tail(files[1])>> \o Tail(files)
            /\ diskConfigList' =
                 IF files[1][1].kind = "entry" THEN Append(diskConfigList, files[1][1])
                 ELSE diskConfigList
    /\ UNCHANGED <<texts, disks>>

(* ParasConfig: the file of the DVR disk, and then the common one.         *)
ParasConfig(cdc, common) == <<cdc, common>>

Init ==
    /\ \E cdc \in CdcFiles, common \in ConfigFiles : texts = <<cdc, common>>
    /\ files = ParasConfig(texts[1], texts[2])
    /\ diskConfigList = <<>>
    /\ disks = [d \in Disk |-> <<>>]

-----------------------------------------------------------------------------
(* The flag of the first entry whose pattern matches, with the one of the  *)
(* major number added to it; 0 if there is none.                           *)
MatchConfig(env) ==
    LET hits == SelectSeq(diskConfigList, LAMBDA c : env.group \in c.matches)
        flag == hits[1].flag
    IN CASE hits = <<>> -> 0
         [] hits # <<>> /\ env.major = 179 -> flag | SD_FLAG
         [] hits # <<>> /\ env.major = 11 -> flag | CD_FLAG
         [] OTHER -> IF flag # DVR_USB THEN flag | USB_FLAG ELSE flag

LegacyDiskFlagFromDevPath(env) ==
    CASE env.major = 11 -> CD_FLAG
      [] env.major # 11 /\ "usbText" \in env.path -> USB_FLAG
      [] OTHER -> SD_FLAG

ResolveInitialDiskFlag(env) ==
    IF MatchConfig(env) # 0 THEN MatchConfig(env) ELSE LegacyDiskFlagFromDevPath(env)

(* Mutation: the path's bus goes before the optical drive. *)
SataFirst(flag, p, rotational) ==
    CASE "nvme" \in p \/ ("sata" \in p /\ rotational = 0) -> DATA_DISK_SSD
      [] "sata" \in p /\ rotational # 0 /\ "nvme" \notin p -> DATA_DISK_HDD
      [] OTHER -> flag

(* RefreshClassificationFromSysfs.  A path always is given.                *)
RefreshClassificationFromSysfs(flag, p, rotational) ==
    IF flag = DVR_USB THEN DVR_USB
    ELSE IF flag = CD_FLAG \/ "optical" \in p THEN CD_FLAG
    ELSE IF "nvme" \in p \/ ("sata" \in p /\ rotational = 0) THEN DATA_DISK_SSD
    ELSE IF "sata" \in p THEN DATA_DISK_HDD
    ELSE IF "usb" \in p THEN USB_FLAG
    ELSE IF "mmc" \in p THEN SD_FLAG
    ELSE IF flag \in {SD_FLAG, USB_FLAG, CD_FLAG} THEN flag
    ELSE DISK_TYPE_UNKNOWN

IsInternalDataDiskType(type) == type \in {DATA_DISK_SSD, DATA_DISK_HDD}

(* UpsertDiskAndPublishEvent, of an add uevent once the service has        *)
(* started.                                                                *)
UpsertDisk(d) ==
    /\ files = <<>> /\ disks[d] = <<>>
    /\ \E env \in Envs :
         LET type == RefreshClassificationFromSysfs(ResolveInitialDiskFlag(env), env.path,
                                                    env.rotational)
         IN disks' = [disks EXCEPT ![d] = <<[env |-> env, type |-> type,
                                             removable |-> ~IsInternalDataDiskType(type)]>>]
    /\ UNCHANGED <<files, texts, diskConfigList>>

RemoveDisk(d) ==
    /\ disks[d] # <<>>
    /\ disks' = [disks EXCEPT ![d] = <<>>]
    /\ UNCHANGED <<files, texts, diskConfigList>>

Next ==
    \/ ParasConfigFile
    \/ \E d \in Disk : UpsertDisk(d) \/ RemoveDisk(d)

Spec == Init /\ [][Next]_vars

-----------------------------------------------------------------------------
Added == {disks[d][1] : d \in {e \in Disk : disks[e] # <<>>}}

(* The entries of a text: its well-formed lines before the first empty one.*)
Entries(text) ==
    LET complete == {n \in 0..Len(text) : \A i \in 1..n : text[i].kind # "empty"}
        n == CHOOSE k \in complete : \A j \in complete : j <= k
    IN SelectSeq(SubSeq(text, 1, n), LAMBDA l : l.kind = "entry")

(* A disk that an entry of the DVR file names is a DVR disk, whatever the  *)
(* entries of the common file say of its port and whatever bus its path    *)
(* shows.                                                                  *)
DvrRecognised ==
    \A d \in Added :
        /\ \E i \in DOMAIN Entries(texts[1]) :
             d.env.group \in Entries(texts[1])[i].matches /\ Entries(texts[1])[i].flag = DVR_USB
        /\ d.env.major \notin {11, 179}
        => d.type = DVR_USB

(* The major number adjusts the flag of a configured device: a device of   *)
(* the MMC major is an SD card and never an optical drive.                 *)
MajorAdjustsFlag ==
    \A d \in Added :
        d.env.major = 179 /\ "optical" \notin d.env.path => d.type # CD_FLAG
=================================================================================
