----------------------------- MODULE ArchiveLoad -----------------------------
(***************************************************************************)
(* loadArchive() (importers/load.ts): the selected files of an export, a   *)
(* folder or a zip, are read into memory under one budget before anything  *)
(* is parsed or stored.  A folder's files may vanish, be replaced or grow  *)
(* between two system calls; a zip's headers may lie, and its events come  *)
(* from a stream that can fail at any of them.                             *)
(*                                                                         *)
(* A size is a small number of bytes.  Entries are numbered in the order    *)
(* in which they are met; what an entry is, the code decides from its name *)
(* and metadata alone.                                                     *)
(***************************************************************************)
EXTENDS Naturals, Functions

CONSTANTS MaxEntries,   \* bound: the most entries an archive has
          TotalBytes,   \* limits.totalBytes
          EntryLimit,   \* limits.entries
          ReadChunk,    \* READ_CHUNK
          MaxSize       \* bound: the largest size of an entry

ASSUME ArchiveAssumption ==
  MaxEntries \in Nat /\ TotalBytes \in Nat /\ EntryLimit \in Nat
  /\ ReadChunk \in Nat \ {0} /\ MaxSize \in Nat

VARIABLES
  sort,       \* zip or folder
  what,       \* what[m]: how the entry is classified
  declared,   \* declared[m]: the size a zip header claims
  actual,     \* actual[m]: the bytes the entry holds, or its stream delivers
  examined,   \* how many entries have been counted
  bytes,      \* the budget's bytes
  reading,    \* the entry being read, or NoEntry
  stamped,    \* its size at the fstat, or as the header declares it
  buffered,   \* bytes of it kept so far
  loaded,     \* loaded[m]: the bytes kept of a file in the result, or Absent
  verdict     \* running, resolved, refused

archiveVars == <<sort, what, declared, actual, examined, bytes, reading, stamped,
                 buffered, loaded, verdict>>
sources == <<sort, what, declared>>

EntryNumbers == 1..MaxEntries
NoEntry == 0
Absent == MaxSize + 1

(* "skipped": directories, links, hostile names, files not selected.       *)
(* "deep": beyond pathDepth.  "bomb": beyond compressionRatio.             *)
Classes == {"selected", "skipped", "deep", "bomb"}
Sizes == 0..MaxSize

ArchiveTypeOK ==
  /\ sort \in {"zip", "folder"} /\ DOMAIN what \subseteq EntryNumbers
  /\ \A m \in DOMAIN what : what[m] \in Classes
  /\ declared \in [EntryNumbers -> Sizes] /\ actual \in [EntryNumbers -> Sizes]
  /\ examined \in 0..MaxEntries
  /\ bytes \in 0..TotalBytes
  /\ reading \in EntryNumbers \cup {NoEntry}
  /\ stamped \in Sizes /\ buffered \in Sizes
  /\ loaded \in [EntryNumbers -> Sizes \cup {Absent}]
  /\ verdict \in {"running", "resolved", "refused"}

ArchiveInit ==
  /\ sort \in {"zip", "folder"}
  /\ \E k \in 0..MaxEntries :
       /\ what \in [1..k -> IF sort = "zip" THEN Classes ELSE Classes \ {"bomb"}]
       /\ LET sized == {f \in [EntryNumbers -> Sizes] : \A m \in EntryNumbers :
                         f[m] = 0 \/ (m <= k /\ what[m] = "selected")}
          IN  actual \in sized /\ declared \in IF sort = "zip" THEN sized ELSE {actual}
  /\ examined = 0 /\ bytes = 0 /\ reading = NoEntry /\ stamped = 0 /\ buffered = 0
  /\ loaded = [m \in EntryNumbers |-> Absent] /\ verdict = "running"

-----------------------------------------------------------------------------
Importing == verdict = "running"
(* Mutant: asks whether the budget is spent, and not whether n fits.       *)
FitsUnlessSpent(n) == bytes < TotalBytes
Fits(n) == bytes + n <= TotalBytes

RefuseImport ==
  /\ verdict' = "refused" /\ reading' = NoEntry /\ stamped' = 0 /\ buffered' = 0
  /\ UNCHANGED <<sources, actual, loaded>>

PassOver ==
  UNCHANGED <<sources, actual, bytes, reading, stamped, buffered, loaded, verdict>>

StartReading(m, size) ==
  /\ reading' = m /\ stamped' = size /\ buffered' = 0
  /\ UNCHANGED <<sources, actual, loaded, verdict>>

(* A file that vanished, changed identity or has hard links is passed over *)
(* (with a warning, or without); one that opens has a size at the fstat.   *)
SelectFile(m) ==
  \/ PassOver
  \/ RefuseImport /\ UNCHANGED bytes      \* the open fails otherwise
  \/ /\ UNCHANGED bytes
     /\ IF Fits(actual[m]) THEN StartReading(m, actual[m]) ELSE RefuseImport

SelectZipEntry(m) ==
  IF Fits(declared[m])
    THEN bytes' = bytes + declared[m] /\ StartReading(m, declared[m])
    ELSE RefuseImport /\ UNCHANGED bytes

WithinLimits(m) == what[m] # "deep" /\ m <= EntryLimit

(* countEntry(), and what is passed over before any byte is read.          *)
Examine(m) ==
  /\ Importing /\ reading = NoEntry /\ m = examined + 1 /\ m \in DOMAIN what
  /\ examined' = m
  /\ \/ ~WithinLimits(m) /\ RefuseImport /\ UNCHANGED bytes
     \/ WithinLimits(m) /\ what[m] = "skipped" /\ PassOver
     \/ WithinLimits(m) /\ what[m] = "bomb" /\ RefuseImport /\ UNCHANGED bytes
     \/ /\ WithinLimits(m) /\ what[m] = "selected"
        /\ IF sort = "zip" THEN SelectZipEntry(m) ELSE SelectFile(m)

Buffer(n) ==
  /\ buffered' = buffered + n
  /\ UNCHANGED <<sources, actual, examined, bytes, reading, stamped, loaded, verdict>>

PutIn ==
  /\ loaded' = [loaded EXCEPT ![reading] = buffered]
  /\ reading' = NoEntry /\ stamped' = 0 /\ buffered' = 0
  /\ UNCHANGED <<sources, actual, examined, verdict>>

AtMost(a, b) == IF a < b THEN a ELSE b
MoreThanStamped(n) == buffered + n > stamped
(* Mutant: the size at the fstat is trusted.                               *)
MoreThanRemainsAtStat(n) == bytes + stamped > TotalBytes
MoreThanRemains(n) == bytes + buffered + n > TotalBytes

-----------------------------------------------------------------------------
(* The folder: the bound is what remains of the budget, whatever the size  *)
(* at the fstat was; one byte beyond it is asked for and refused.          *)

ReadFolder ==
  /\ Importing /\ sort = "folder" /\ reading # NoEntry
  /\ buffered < actual[reading]
  /\ \E n \in 1..AtMost(actual[reading] - buffered,
                       AtMost(ReadChunk, TotalBytes + 1 - bytes - buffered)) :
       IF MoreThanRemains(n)
         THEN RefuseImport /\ UNCHANGED <<examined, bytes>>
         ELSE Buffer(n)

FolderFileEnds ==
  /\ Importing /\ sort = "folder" /\ reading # NoEntry
  /\ buffered >= actual[reading]
  /\ bytes' = bytes + buffered /\ PutIn

(* The file grows or shrinks after its fstat.  What its size was before,   *)
(* nothing has looked at.                                                  *)
Resize ==
  /\ Importing /\ sort = "folder" /\ reading # NoEntry
  /\ \E n \in Sizes : n # actual[reading] /\ actual' = [actual EXCEPT ![reading] = n]
  /\ UNCHANGED <<sources, examined, bytes, reading, stamped, buffered, loaded, verdict>>

-----------------------------------------------------------------------------
(* The zip: the budget is charged what the header declares, so the stream  *)
(* may not deliver more.                                                   *)

StreamData ==
  /\ Importing /\ sort = "zip" /\ reading # NoEntry
  /\ buffered < actual[reading]
  /\ \E n \in 1..AtMost(ReadChunk, actual[reading] - buffered) :
       IF MoreThanStamped(n)
         THEN RefuseImport /\ UNCHANGED <<examined, bytes>>
         ELSE Buffer(n)

StreamEnd ==
  /\ Importing /\ sort = "zip" /\ reading # NoEntry
  /\ buffered = actual[reading]
  /\ UNCHANGED bytes /\ PutIn

(* No stream, a stream error, or an error of the zip itself.               *)
ZipError ==
  /\ Importing /\ sort = "zip"
  /\ RefuseImport /\ UNCHANGED <<examined, bytes>>

LoadEnds ==
  /\ Importing /\ reading = NoEntry /\ DOMAIN what = 1..examined
  /\ verdict' = "resolved"
  /\ UNCHANGED <<sources, actual, examined, bytes, reading, stamped, buffered, loaded>>

ArchiveNext ==
  \/ \E m \in EntryNumbers : Examine(m)
  \/ Resize \/ ReadFolder \/ FolderFileEnds \/ StreamData \/ StreamEnd \/ ZipError \/ LoadEnds

ArchiveSpec == ArchiveInit /\ [][ArchiveNext]_archiveVars

-----------------------------------------------------------------------------
(* Never more than the budget is kept in memory, although a file may grow  *)
(* after its fstat and a stream may deliver more than its header declared; *)
(* and an import that is not refused has every selected file of a zip in   *)
(* full, and of a folder every one but those that vanished or changed      *)
(* under it: a limit or a damaged entry refuses the archive whole          *)
(* (importers/load.ts, ImportBudget and readSelectedFile).                 *)
Loaded == {m \in EntryNumbers : loaded[m] # Absent}
SelectedIn == {m \in DOMAIN what : what[m] = "selected"}

LoadIsBoundedAndWhole ==
  /\ buffered + SumFunctionOnSet(loaded, Loaded) <= TotalBytes
  /\ verdict = "resolved" /\ sort = "zip" =>
       \A m \in SelectedIn : loaded[m] = actual[m]
=============================================================================
