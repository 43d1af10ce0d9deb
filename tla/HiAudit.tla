-------------------------------- MODULE HiAudit --------------------------------
(***************************************************************************)
(* The audit log of HiAudit: a file that is renamed when it is full, and   *)
(* of the renamed files the newest FileCount are kept.  Write holds mutex_ *)
(* from end to end, so the steps of one Write interleave with nothing but  *)
(* the end of the process.                                                 *)
(*                                                                         *)
(* A file is the sequence of what was written to it: Title, or the number  *)
(* of a record, counting those that reached the file.  Renamed files carry the time in their names and their     *)
(* modification times follow that order.                                   *)
(***************************************************************************)
EXTENDS Naturals, Sequences, SequencesExt

CONSTANTS
    TitleSize, RecordSize,  \* bytes of the title and of a record
    FileSize,               \* HIAUDIT_CONFIG.fileSize
    FileCount,              \* HIAUDIT_CONFIG.fileCount
    Faults,                 \* subset of {"rename", "remove", "open", "write"}
    MaxRecords,             \* bound on the records
    MaxCrashes              \* bound on the ends of the process

Title == 0
Record == 1

VARIABLES
    current,        \* the file HIAUDIT_LOG_NAME, if it exists
    rotated,        \* the renamed files, the oldest first
    writeFd,        \* whether the file is open
    writeLogSize,   \* the bytes the process counts in it
    todo,           \* what the Write in progress still writes
    last,           \* the last record that reached a file
    pc, crashes

files == <<current, rotated>>
vars == <<files, writeFd, writeLogSize, todo, last, pc, crashes>>

Fails(f) == f \in Faults
Content == IF current = <<>> THEN <<>> ELSE current[1]
Bytes(items) ==
    FoldLeft(LAMBDA n, i : n + (IF i = Title THEN TitleSize ELSE RecordSize), 0, items)

-----------------------------------------------------------------------------
(* HiAudit::Init: the file is opened to append, and its size is read.      *)
InitLog ==
    /\ pc = "start"
    /\ \/ writeFd' = TRUE /\ current' = <<Content>>
       \/ Fails("open") /\ writeFd' = FALSE /\ UNCHANGED current
    /\ writeLogSize' = Bytes(Content)
    /\ pc' = "idle"
    /\ UNCHANGED <<rotated, todo, last, crashes>>

(* Write: a title first if the file is empty, and then the record.         *)
Write ==
    /\ pc = "idle" /\ last < MaxRecords
    /\ todo' = IF writeLogSize = 0 THEN <<Title, Record>> ELSE <<Record>>
    /\ pc' = "path"
    /\ UNCHANGED <<files, writeFd, writeLogSize, last, crashes>>

(* GetWriteFilePath, called before each of the two.                        *)
GetWriteFilePath ==
    /\ pc = "path"
    /\ IF writeLogSize < FileSize
       THEN pc' = "write" /\ UNCHANGED writeFd
       ELSE pc' = "rotate" /\ writeFd' = FALSE
    /\ UNCHANGED <<files, writeLogSize, todo, last, crashes>>

RotateAuditLog ==
    /\ pc = "rotate"
    /\ \/ current # <<>> /\ rotated' = Append(rotated, Content) /\ current' = <<>>
       \/ (Fails("rename") \/ current = <<>>) /\ UNCHANGED files
    /\ pc' = "clean"
    /\ UNCHANGED <<writeFd, writeLogSize, todo, last, crashes>>

(* Mutation: the newest of the files goes. *)
RemoveNewest ==
    /\ pc = "clean"
    /\ rotated' = IF Len(rotated) > FileCount THEN Front(rotated) ELSE rotated
    /\ pc' = "open"
    /\ UNCHANGED <<current, writeFd, writeLogSize, todo, last, crashes>>

(* CleanOldAuditFile removes at most one file.                             *)
CleanOldAuditFile ==
    /\ pc = "clean"
    /\ \/ rotated' = IF Len(rotated) > FileCount THEN Tail(rotated) ELSE rotated
       \/ Fails("remove") /\ UNCHANGED rotated
    /\ pc' = "open"
    /\ UNCHANGED <<current, writeFd, writeLogSize, todo, last, crashes>>

(* The rest of GetWriteFilePath: O_TRUNC empties a file that is still      *)
(* there, and the count starts again even if the file was not opened.      *)
OpenNew ==
    /\ pc = "open"
    /\ \/ writeFd' = TRUE /\ current' = << <<>> >>
       \/ Fails("open") /\ writeFd' = FALSE /\ UNCHANGED current
    /\ writeLogSize' = 0
    /\ pc' = "write"
    /\ UNCHANGED <<rotated, todo, last, crashes>>

(* WriteToFile after GetWriteFilePath.                                     *)
WriteToFile ==
    /\ pc = "write"
    /\ todo' = Tail(todo)
    /\ pc' = IF Len(todo) = 1 THEN "idle" ELSE "path"
    /\ \/ /\ writeFd
          /\ current' = <<Append(Content, IF Head(todo) = Title THEN Title ELSE last + 1)>>
          /\ writeLogSize' = writeLogSize + Bytes(<<Head(todo)>>)
          /\ last' = IF Head(todo) = Title THEN last ELSE last + 1
       \/ /\ ~writeFd \/ Fails("write")
          /\ UNCHANGED <<current, writeLogSize, last>>
    /\ UNCHANGED <<rotated, writeFd, crashes>>

(* The process ends, by unloading or by a crash, and starts again.         *)
Crash ==
    /\ pc # "start" /\ crashes < MaxCrashes
    /\ crashes' = crashes + 1
    /\ pc' = "start" /\ writeFd' = FALSE /\ writeLogSize' = 0 /\ todo' = <<>>
    /\ UNCHANGED <<files, last>>

-----------------------------------------------------------------------------
Init ==
    /\ current = <<>> /\ rotated = <<>>
    /\ writeFd = FALSE /\ writeLogSize = 0 /\ todo = <<>>
    /\ last = 0 /\ pc = "start" /\ crashes = 0

Next ==
    \/ InitLog \/ Write \/ GetWriteFilePath \/ RotateAuditLog \/ CleanOldAuditFile
    \/ OpenNew \/ WriteToFile \/ Crash

Spec == Init /\ [][Next]_vars

-----------------------------------------------------------------------------
Logged == SelectSeq(FlattenSeq(rotated) \o Content, LAMBDA i : i # Title)

(* The files hold the newest records, in the order they were written and   *)
(* without a gap, wherever the process ended; and as long as fewer than    *)
(* FileCount files were renamed they hold every record.                    *)
NewestRecordsKept ==
    /\ \A i \in DOMAIN Logged : Logged[i] = last - Len(Logged) + i
    /\ Len(rotated) < FileCount => Len(Logged) = last

(* The number of renamed files that are kept is FileCount.                 *)
FileCountKept == pc = "idle" => Len(rotated) <= FileCount

(* The header row: a file that is not empty starts with the title.         *)
FilesHaveTitle ==
    \A file \in Range(rotated) \cup {Content} : file # <<>> => Head(file) = Title
=============================================================================
