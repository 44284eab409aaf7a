----------------------------- MODULE MetaStore -----------------------------
(***************************************************************************)
(* FileDataBase (src/src/db.rs): save_file copies a file into the data     *)
(* directory and appends its MetaData to the file "meta"; find_meta looks  *)
(* a uuid up in a cache, which is filled from that file while it is empty. *)
(*                                                                         *)
(* write_all on a tokio file returns when the data is in a buffer of the   *)
(* process: the write itself comes later, its error is seen by nobody, and *)
(* it is lost with the process.                                            *)
(***************************************************************************)
EXTENDS Naturals, Sequences

CONSTANTS
  Saves,        \* calls of save_file
  Uuids,
  Names,        \* names of files
  Uuid,         \* the uuid in the meta data of each call
  FileName,     \* the name of its file
  TooLong,      \* the calls whose meta data does not fit the buffer
  Unasked, Missing, NoSave

ASSUME UuidAssumption == Uuids # {} /\ Uuid \in [Saves -> Uuids]
ASSUME FileNameAssumption == FileName \in [Saves -> Names]
ASSUME TooLongAssumption == TooLong \subseteq Saves
ASSUME ValuesAssumption ==
  /\ Unasked \notin Saves /\ Missing \notin Saves /\ NoSave \notin Saves
  /\ Unasked # Missing

VARIABLES
  stage,        \* how far each call of save_file is
  files,        \* the data directory: which call wrote each file last
  pending,      \* meta data accepted by write_all and not yet written
  disk,         \* the file "meta"
  cache,        \* uuid_list
  filled,       \* is uuid_list not empty
  scan,         \* the last find_meta that opened the file; it has the mutex
                \* while it is on
  answer        \* the last answer of find_meta for each uuid

metaVars == << stage, files, pending, disk, cache, filled, scan, answer >>

Stages == {"idle", "copying", "copied", "ok", "err"}

(***************************************************************************)
(* An entry of the file: the call that wrote it, and whether all its bytes *)
(* are there.                                                              *)
(***************************************************************************)
MetaEntry == [save : Saves, whole : BOOLEAN]

(***************************************************************************)
(* cut is history: the scan ended before the end of the file.              *)
(***************************************************************************)
Scan == [on : BOOLEAN, uuid : Uuids, pos : Nat \ {0}, end : Nat, cut : BOOLEAN]

ScanOf(u, n) == [on |-> TRUE, uuid |-> u, pos |-> 1, end |-> n, cut |-> FALSE]

NoScan ==
  [on |-> FALSE, uuid |-> CHOOSE u \in Uuids : TRUE, pos |-> 1, end |-> 0,
   cut |-> FALSE]

MetaInit ==
  /\ stage = [s \in Saves |-> "idle"]
  /\ files = [n \in Names |-> NoSave]
  /\ pending = {}
  /\ disk = << >>
  /\ cache = [u \in Uuids |-> NoSave]
  /\ filled = FALSE
  /\ scan = NoScan
  /\ answer = [u \in Uuids |-> Unasked]

-----------------------------------------------------------------------------
(***************************************************************************)
(* save_file: copy truncates the destination and fills it, or fails.       *)
(***************************************************************************)
CopyStarts(s) ==
  /\ stage[s] = "idle"
  /\ stage' = [stage EXCEPT ![s] = "copying"]
  /\ files' = [files EXCEPT ![FileName[s]] = NoSave]
  /\ UNCHANGED << pending, disk, cache, filled, scan, answer >>

CopyEnds(s) ==
  /\ stage[s] = "copying"
  /\ stage' = [stage EXCEPT ![s] = "copied"]
  /\ files' = [files EXCEPT ![FileName[s]] = s]
  /\ UNCHANGED << pending, disk, cache, filled, scan, answer >>

(***************************************************************************)
(* No file, no name in its path, no space, or "meta" cannot be opened.     *)
(***************************************************************************)
SaveFails(s) ==
  /\ stage[s] \in {"idle", "copying", "copied"}
  /\ stage' = [stage EXCEPT ![s] = "err"]
  /\ UNCHANGED << files, pending, disk, cache, filled, scan, answer >>

(***************************************************************************)
(* Mutant of SaveMeta: the meta data goes first, the file after it.        *)
(***************************************************************************)
SaveMetaFirst(s) ==
  /\ stage[s] = "idle"
  /\ s \notin TooLong
  /\ stage' = [stage EXCEPT ![s] = "copying"]
  /\ pending' = pending \cup {s}
  /\ UNCHANGED << files, disk, cache, filled, scan, answer >>

(***************************************************************************)
(* save_meta_to_file: encode, open for appending, write_all.               *)
(***************************************************************************)
SaveMeta(s) ==
  /\ stage[s] = "copied"
  /\ s \notin TooLong
  /\ stage' = [stage EXCEPT ![s] = "ok"]
  /\ pending' = pending \cup {s}
  /\ UNCHANGED << files, disk, cache, filled, scan, answer >>

(***************************************************************************)
(* A write reaches the file, in any order; or it fails, with none or a     *)
(* part of the bytes in the file.                                          *)
(***************************************************************************)
Write(s) ==
  /\ s \in pending
  /\ pending' = pending \ {s}
  /\ disk' = Append(disk, [save |-> s, whole |-> TRUE])
  /\ UNCHANGED << stage, files, cache, filled, scan, answer >>

WriteTorn(s) ==
  /\ s \in pending
  /\ pending' = pending \ {s}
  /\ disk' = Append(disk, [save |-> s, whole |-> FALSE])
  /\ UNCHANGED << stage, files, cache, filled, scan, answer >>

(***************************************************************************)
(* The process ends and is started again: FileDataBase::new.               *)
(***************************************************************************)
MetaRestart ==
  /\ stage' = [s \in Saves |->
                 IF stage[s] \in {"copying", "copied"} THEN "err" ELSE stage[s]]
  /\ pending' = {}
  /\ cache' = [u \in Uuids |-> NoSave]
  /\ filled' = FALSE
  /\ scan' = NoScan
  /\ answer' = [u \in Uuids |-> Unasked]
  /\ UNCHANGED << files, disk >>

-----------------------------------------------------------------------------
(***************************************************************************)
(* find_meta, with the mutex: from the list in memory, unless it is empty. *)
(***************************************************************************)
Found(u) == IF cache[u] = NoSave THEN Missing ELSE cache[u]

FindCached(u) ==
  /\ ~ scan.on
  /\ filled
  /\ answer' = [answer EXCEPT ![u] = Found(u)]
  /\ UNCHANGED << stage, files, pending, disk, cache, filled, scan >>

(***************************************************************************)
(* Mutant of FindOpens: the file is read whenever the uuid is not in the   *)
(* list.                                                                   *)
(***************************************************************************)
FindOpensAlways(u) ==
  /\ ~ scan.on
  /\ scan' = ScanOf(u, Len(disk))
  /\ UNCHANGED << stage, files, pending, disk, cache, filled, answer >>

(***************************************************************************)
(* MetaDataIterator::new notes the length of the file; what is appended    *)
(* from now on is not read.                                                *)
(***************************************************************************)
FindOpens(u) ==
  /\ ~ scan.on
  /\ ~ filled
  /\ scan' = ScanOf(u, Len(disk))
  /\ UNCHANGED << stage, files, pending, disk, cache, filled, answer >>

FindOpenFails(u) ==
  /\ ~ scan.on
  /\ ~ filled
  /\ answer' = [answer EXCEPT ![u] = Missing]
  /\ UNCHANGED << stage, files, pending, disk, cache, filled, scan >>

(***************************************************************************)
(* The iterator ends where the file ended when it was opened, if it meets  *)
(* that position; a garbled entry may take it past, to what was appended   *)
(* since.                                                                  *)
(***************************************************************************)
Reading == scan.on /\ scan.pos # scan.end + 1 /\ scan.pos <= Len(disk)

(***************************************************************************)
(* Mutant of ReadEntry: the search ends with the entry that was looked for.*)
(***************************************************************************)
ReadEntryUntilFound ==
  /\ Reading
  /\ disk[scan.pos].whole
  /\ LET s == disk[scan.pos].save IN
       /\ cache' = [cache EXCEPT ![Uuid[s]] = s]
       /\ scan' = [scan EXCEPT !.pos = IF Uuid[s] = scan.uuid THEN scan.end + 1
                                       ELSE @ + 1]
  /\ filled' = TRUE
  /\ UNCHANGED << stage, files, pending, disk, answer >>

(***************************************************************************)
(* Every entry goes into the list, and replaces one of the same uuid.      *)
(***************************************************************************)
ReadEntry ==
  /\ Reading
  /\ disk[scan.pos].whole
  /\ LET s == disk[scan.pos].save IN cache' = [cache EXCEPT ![Uuid[s]] = s]
  /\ filled' = TRUE
  /\ scan' = [scan EXCEPT !.pos = @ + 1]
  /\ UNCHANGED << stage, files, pending, disk, answer >>

(***************************************************************************)
(* A torn entry takes its missing bytes from the next ones.  What comes    *)
(* out may decode, with a uuid that nobody looks for, and if the bytes add *)
(* up, reading may meet the beginning of an entry again.                   *)
(***************************************************************************)
ReadGarbled ==
  /\ Reading
  /\ ~ disk[scan.pos].whole
  /\ \E p \in scan.pos + 2 .. Len(disk) + 1 : scan' = [scan EXCEPT !.pos = p]
  /\ filled' = TRUE
  /\ UNCHANGED << stage, files, pending, disk, cache, answer >>

(***************************************************************************)
(* At the noted end of the file the result so far is returned; what was    *)
(* read stays in the list.                                                 *)
(***************************************************************************)
FindReturns ==
  /\ scan.on
  /\ answer' = [answer EXCEPT ![scan.uuid] = Found(scan.uuid)]
  /\ UNCHANGED << stage, files, pending, disk, cache, filled >>

FindEnds ==
  /\ scan.pos = scan.end + 1
  /\ FindReturns
  /\ scan' = [scan EXCEPT !.on = FALSE]

(***************************************************************************)
(* So it is when an entry cannot be read: it is torn, or bytes are wanted  *)
(* behind the end, or the read of a whole entry fails.                     *)
(***************************************************************************)
FindFails ==
  /\ scan.pos # scan.end + 1
  /\ FindReturns
  /\ scan' = [scan EXCEPT !.on = FALSE, !.cut = TRUE]

(***************************************************************************)
(* The future is dropped at an await of the scan: the mutex is free, what  *)
(* was read stays in the list, nothing is returned.                        *)
(***************************************************************************)
FindCancelled ==
  /\ scan.on
  /\ scan' = [scan EXCEPT !.on = FALSE, !.cut = TRUE]
  /\ UNCHANGED << stage, files, pending, disk, cache, filled, answer >>

-----------------------------------------------------------------------------
MetaNext ==
  \/ \E s \in Saves :
       \/ CopyStarts(s) \/ CopyEnds(s) \/ SaveFails(s) \/ SaveMeta(s)
       \/ Write(s) \/ WriteTorn(s)
  \/ \E u \in Uuids : FindCached(u) \/ FindOpens(u) \/ FindOpenFails(u)
  \/ ReadEntry \/ ReadGarbled \/ FindEnds \/ FindFails \/ FindCancelled
  \/ MetaRestart

MetaSpec == MetaInit /\ [][MetaNext]_metaVars

MetaTypeOK ==
  /\ stage \in [Saves -> Stages]
  /\ files \in [Names -> Saves \cup {NoSave}]
  /\ pending \in SUBSET Saves
  /\ disk \in Seq(MetaEntry)
  /\ cache \in [Uuids -> Saves \cup {NoSave}]
  /\ filled \in BOOLEAN
  /\ scan \in Scan
  /\ answer \in [Uuids -> Saves \cup {Unasked, Missing}]

-----------------------------------------------------------------------------
(***************************************************************************)
(* Whose meta data can be found, has its file: it was copied completely    *)
(* before, whatever failed or crashed since, unless another call used the  *)
(* same name (db.rs:272-286).                                              *)
(***************************************************************************)
MetaAfterFile ==
  \A s \in pending \cup {disk[i].save : i \in 1 .. Len(disk)} :
    \/ files[FileName[s]] = s
    \/ \E t \in Saves \ {s} : FileName[t] = FileName[s] /\ stage[t] # "idle"

(***************************************************************************)
(* The list in memory is what one scan read from the beginning of the      *)
(* file, the last entry of each uuid, unless an entry in it was torn: no   *)
(* second scan and nothing that was appended meanwhile is mixed into it.   *)
(* It is the whole file as it was when it was opened, unless that scan     *)
(* failed or was cancelled; then it may stand for a part until the process *)
(* ends, because a list that is not empty is not read again (db.rs:300,    *)
(* 325-338).                                                               *)
(***************************************************************************)
IsLast(s, u, n) ==
  \/ /\ s = NoSave
     /\ \A i \in 1 .. n : Uuid[disk[i].save] # u
  \/ \E i \in 1 .. n :
       /\ disk[i].save = s /\ Uuid[s] = u
       /\ \A j \in i + 1 .. n : Uuid[disk[j].save] # u

ListIsScan ==
  ~ scan.on /\ (\A i \in 1 .. scan.pos - 1 : disk[i].whole) =>
    /\ \A u \in Uuids : IsLast(cache[u], u, scan.pos - 1)
    /\ filled <=> scan.pos > 1
    /\ scan.pos - 1 <= scan.end
    /\ ~ scan.cut => scan.pos - 1 = scan.end

(***************************************************************************)
(* What the process keeps in memory is well formed and agrees with the     *)
(* file.                                                                   *)
(***************************************************************************)
ListInv ==
  /\ MetaTypeOK
  /\ ListIsScan

(***************************************************************************)
(* The answers are those of a Catalogue: sound, and stable as long as the  *)
(* process lives.                                                          *)
(***************************************************************************)
Store == INSTANCE Catalogue WITH
  entries <- {disk[i].save : i \in {j \in 1 .. Len(disk) : disk[j].whole}}

CatalogueSpec == Store!Spec
=============================================================================
