--------------------------- MODULE TranscriptFile ---------------------------
(***************************************************************************)
(* TranscriptRecorder (recorder.py): the transcript on disk, from           *)
(* start_session through the writes to the metadata backfill of close().    *)
(* The command that owns the recorder may be killed at any step, and a      *)
(* SIGINT during close() is a KeyboardInterrupt, which no handler of the    *)
(* code catches: both are Crash.                                            *)
(*                                                                         *)
(* Records are the numbers 1, 2, ... in the order write() gets them.  The   *)
(* handle keeps what it was given until it is on disk, up to its buffer: a  *)
(* record with no room there is written straight to the file, and what of   *)
(* it an error leaves unwritten is gone.                                    *)
(***************************************************************************)
EXTENDS Naturals, Sequences, SequencesExt

CONSTANTS
  Formats,     \* the formats a recorder may be given: "yaml", "ndjson"
  MaxRecords,  \* bound: calls of write()
  MaxFaults    \* bound: file operations that raise OSError

ASSUME FormatsAssumption == Formats \subseteq {"yaml", "ndjson"}
ASSUME BoundAssumption == MaxRecords \in Nat /\ MaxFaults \in Nat

LazyFields == {"protocol_version", "client_hint"}
MetaFields == {"base"} \cup LazyFields

\* A file: the fields of its meta section ({} when it has none), its records
\* and pieces of records, and how it ends: after a record, in part of the next
\* one, whose rest the handle has ("torn"), or in a piece with no rest, which
\* the next record will run into ("cut").
Piece == 0
Tails == {"whole", "torn", "cut"}
Empty == [meta |-> {}, recs |-> <<>>, tail |-> "whole"]
File ==
  [meta : SUBSET MetaFields, recs : Seq({Piece} \cup 1..MaxRecords), tail : Tails]

VARIABLES
  format,   \* the format of this recorder
  stage,    \* "new", "recording", "backfill", "rewriting", "copying",
            \* "unlinking", "done" or "crashed"
  disk,     \* the transcript
  temp,     \* the files of mkstemp that exist: at most one
  buf,      \* records a failed flush left in the file handle
  unkept,   \* records whose write() raised and left them nowhere
  lazy,     \* the lazy fields captured by update_lazy_metadata
  loaded,   \* what close() has read back
  written,  \* calls of write()
  faults    \* operations that have raised

vars == <<format, stage, disk, temp, buf, unkept, lazy, loaded, written, faults>>

Init ==
  /\ format \in Formats
  /\ stage = "new"
  /\ disk = Empty /\ temp = {} /\ loaded = Empty
  /\ buf = <<>> /\ unkept = {} /\ lazy = {} /\ written = 0 /\ faults = 0

(* A definition whose name begins with Bug is a plausible mistake in the    *)
(* one after it and no part of the model; PROJECT.json names the property   *)
(* that finds it.                                                           *)

Fault ==
  /\ faults < MaxFaults
  /\ faults' = faults + 1

\* What a file holds after more records; the first one runs into a piece.
Extended(file, more) ==
  IF more = <<>> THEN file
  ELSE [file EXCEPT !.recs = @ \o (IF file.tail = "cut" THEN Tail(more) ELSE more),
                    !.tail = "whole"]

\* How it may end when a write stops in the middle of the next record.
Ends(tail) == IF tail = "whole" THEN {"whole", "torn"} ELSE {tail}

\* The handle writes the first n of the records it holds, and perhaps part of
\* the next one.
WrittenUpTo(held, n) ==
  LET file == Extended(disk, SubSeq(held, 1, n)) IN
  \E tail \in Ends(file.tail) : disk' = [file EXCEPT !.tail = tail]

\* A flush that raises: the handle keeps what it has not written.
FlushFails(held) ==
  \E n \in 0..(Len(held) - 1) :
    WrittenUpTo(held, n) /\ buf' = SubSeq(held, n + 1, Len(held))

\* start_session: truncate, write the header and flush it.
StartSession ==
  /\ stage = "new"
  /\ stage' = "recording"
  /\ disk' = [Empty EXCEPT !.meta = {"base"}]
  /\ UNCHANGED <<format, temp, buf, unkept, lazy, loaded, written, faults>>

\* It raises, having written some of the header or none of it: the command
\* exits without a close().
StartSessionFails ==
  /\ stage = "new"
  /\ Fault
  /\ stage' = "done"
  /\ \E tail \in {"whole", "torn"} : disk' = [Empty EXCEPT !.tail = tail]
  /\ UNCHANGED <<format, temp, buf, unkept, lazy, loaded, written>>

Given == stage = "recording" /\ written < MaxRecords /\ written' = written + 1

BugWriteKeepsBuffer ==   \* what was flushed stays in the buffer
  /\ Given
  /\ disk' = Extended(disk, Append(buf, written + 1))
  /\ UNCHANGED <<format, stage, temp, buf, unkept, lazy, loaded, faults>>

\* write: the record goes to the handle, and a flush that succeeds takes all
\* the handle holds to the file.
Write ==
  /\ Given
  /\ disk' = Extended(disk, Append(buf, written + 1))
  /\ buf' = <<>>
  /\ UNCHANGED <<format, stage, temp, unkept, lazy, loaded, faults>>

BugWriteDrops ==   \* a record whose flush fails is thrown away
  /\ Given
  /\ Fault
  /\ UNCHANGED <<format, stage, disk, buf, unkept, temp, lazy, loaded>>

\* The record has room in the buffer, and the flush raises.
WriteFails ==
  /\ Given
  /\ Fault
  /\ FlushFails(Append(buf, written + 1))
  /\ UNCHANGED <<format, stage, temp, unkept, lazy, loaded>>

\* It has none.  Either writing out the buffer first raises, or writing the
\* record itself does, which may leave a piece of it.
\* A piece of YAML may end with a line and leave the next record alone.
LongWriteFails ==
  /\ Given
  /\ Fault
  /\ unkept' = unkept \cup {written + 1}
  /\ \/ FlushFails(buf)
     \/ LET file == Extended(disk, buf)
            recs == IF file.tail = "cut" THEN file.recs ELSE Append(file.recs, Piece)
            tails == IF format = "yaml" THEN {"cut", "whole"} ELSE {"cut"} IN
        /\ disk' \in {file} \cup {[file EXCEPT !.recs = recs, !.tail = t] : t \in tails}
        /\ buf' = <<>>
  /\ UNCHANGED <<format, stage, temp, lazy, loaded>>

UpdateLazyMetadata(field) ==
  /\ stage = "recording"
  /\ lazy' = lazy \cup {field}
  /\ UNCHANGED <<format, stage, disk, temp, buf, unkept, loaded, written, faults>>

-----------------------------------------------------------------------------
(* close()                                                                  *)

\* file_handle.close() flushes; then the backfill begins.
CloseHandle ==
  /\ stage = "recording"
  /\ stage' = "backfill"
  /\ disk' = Extended(disk, buf)
  /\ buf' = <<>>
  /\ UNCHANGED <<format, temp, unkept, lazy, loaded, written, faults>>

\* The flush raises out of close(): there is no backfill.  Closing the handle
\* tries the flush a second time, so that all of it may be written after all.
CloseHandleFails ==
  /\ stage = "recording" /\ buf # <<>>
  /\ Fault
  /\ stage' = "done"
  /\ \/ FlushFails(buf)
     \/ disk' = Extended(disk, buf) /\ buf' = <<>>
  /\ UNCHANGED <<format, temp, unkept, lazy, loaded, written>>

\* No lazy field is missing from the file: it is left alone.
NothingToBackfill ==
  /\ stage = "backfill" /\ lazy \subseteq disk.meta
  /\ stage' = "done"
  /\ UNCHANGED <<format, disk, temp, buf, unkept, lazy, loaded, written, faults>>

\* Reading the file back, opening it again or making a temporary file raises:
\* a warning is printed and the file is left alone.
BackfillFails ==
  /\ stage = "backfill"
  /\ Fault
  /\ stage' = "done"
  /\ UNCHANGED <<format, disk, temp, buf, unkept, lazy, loaded, written>>

\* So it is if the YAML does not parse for a piece in it (it may parse).
BackfillUnreadable ==
  /\ stage = "backfill" /\ format = "yaml"
  /\ Piece \in Range(disk.recs)
  /\ stage' = "done"
  /\ UNCHANGED <<format, disk, temp, buf, unkept, lazy, loaded, written, faults>>

Backfilled == [disk EXCEPT !.meta = @ \cup lazy]

\* YAML: the file is loaded, then truncated in place.
Truncate ==
  /\ format = "yaml"
  /\ stage = "backfill" /\ ~(lazy \subseteq disk.meta)
  /\ stage' = "rewriting"
  /\ loaded' = [Backfilled EXCEPT !.tail = "whole"]
  /\ disk' = Empty
  /\ UNCHANGED <<format, temp, buf, unkept, lazy, written, faults>>

\* Keys are sorted, so "messages" comes before "meta".
RewriteRecord ==
  LET n == Len(disk.recs) + 1 IN
  /\ stage = "rewriting" /\ n <= Len(loaded.recs)
  /\ disk' = [disk EXCEPT !.recs = Append(@, loaded.recs[n])]
  /\ UNCHANGED <<format, stage, temp, buf, unkept, lazy, loaded, written, faults>>

RewriteMeta ==
  /\ stage = "rewriting" /\ disk.recs = loaded.recs
  /\ stage' = "done"
  /\ disk' = [disk EXCEPT !.meta = loaded.meta]
  /\ UNCHANGED <<format, temp, buf, unkept, lazy, loaded, written, faults>>

\* An error of the rewrite is caught and printed as a warning.
RewriteFails ==
  /\ stage = "rewriting"
  /\ Fault
  /\ stage' = "done"
  /\ \E tail \in Ends(disk.tail) : disk' = [disk EXCEPT !.tail = tail]
  /\ UNCHANGED <<format, temp, buf, unkept, lazy, loaded, written>>

\* NDJSON: a temporary file gets the new meta line, then the rest as it is.
MakeTemp ==
  /\ format = "ndjson"
  /\ stage = "backfill" /\ ~(lazy \subseteq disk.meta)
  /\ stage' = "copying"
  /\ loaded' = Backfilled
  /\ temp' = {[Empty EXCEPT !.meta = disk.meta \cup lazy]}
  /\ UNCHANGED <<format, disk, buf, unkept, lazy, written, faults>>

CopyRecord ==
  /\ stage = "copying"
  /\ \E f \in temp :
       /\ Len(f.recs) < Len(loaded.recs)
       /\ temp' = {[f EXCEPT !.recs = Append(@, loaded.recs[Len(@) + 1])]}
  /\ UNCHANGED <<format, stage, disk, buf, unkept, lazy, loaded, written, faults>>

BugReplaceEarly ==   \* the copy replaces the transcript before it is complete
  /\ stage = "copying"
  /\ \E f \in temp : disk' = f
  /\ temp' = {}
  /\ stage' = "done"
  /\ UNCHANGED <<format, buf, unkept, lazy, loaded, written, faults>>

\* os.replace, once everything is copied.
Replace ==
  /\ stage = "copying"
  /\ \E f \in temp :
       f.recs = loaded.recs /\ disk' = [f EXCEPT !.tail = loaded.tail]
  /\ temp' = {}
  /\ stage' = "done"
  /\ UNCHANGED <<format, buf, unkept, lazy, loaded, written, faults>>

\* The copy raises: the temporary file is to be unlinked.
CopyFails ==
  /\ stage = "copying"
  /\ Fault
  /\ stage' = "unlinking"
  /\ UNCHANGED <<format, disk, temp, buf, unkept, lazy, loaded, written>>

Unlink ==
  /\ stage = "unlinking"
  /\ stage' = "done"
  /\ temp' = {}
  /\ UNCHANGED <<format, disk, buf, unkept, lazy, loaded, written, faults>>

\* os.unlink raises too, which is passed over: the file stays.
UnlinkFails ==
  /\ stage = "unlinking"
  /\ Fault
  /\ stage' = "done"
  /\ UNCHANGED <<format, disk, temp, buf, unkept, lazy, loaded, written>>

-----------------------------------------------------------------------------
\* The process dies, perhaps in the middle of writing a record.  If it still
\* closes its files, what the handle held is written.
Crash ==
  /\ stage \notin {"done", "crashed"}
  /\ stage' = "crashed"
  /\ \/ stage \in {"recording", "rewriting"} /\ \E n \in 0..Len(buf) : WrittenUpTo(buf, n)
     \/ UNCHANGED disk
  /\ buf' = <<>>
  /\ UNCHANGED <<format, temp, unkept, lazy, loaded, written, faults>>

Next ==
  \/ StartSession \/ StartSessionFails
  \/ Write \/ WriteFails \/ LongWriteFails
  \/ \E field \in LazyFields : UpdateLazyMetadata(field)
  \/ CloseHandle \/ CloseHandleFails
  \/ NothingToBackfill \/ BackfillFails \/ BackfillUnreadable
  \/ Truncate \/ RewriteRecord \/ RewriteMeta \/ RewriteFails
  \/ MakeTemp \/ CopyRecord \/ Replace \/ CopyFails \/ Unlink \/ UnlinkFails
  \/ Crash

Spec == Init /\ [][Next]_vars

-----------------------------------------------------------------------------
(* Every variable has its type.                                             *)
TypeOK ==
  /\ format \in Formats
  /\ stage \in {"new", "recording", "backfill", "rewriting", "copying",
                "unlinking", "done", "crashed"}
  /\ disk \in File /\ loaded \in File /\ temp \subseteq File
  /\ buf \in Seq(1..MaxRecords) /\ unkept \subseteq 1..MaxRecords
  /\ lazy \subseteq LazyFields
  /\ written \in 0..MaxRecords /\ faults \in 0..MaxFaults

\* What may be missing: a record that had no room in the handle when its write
\* raised, or the one after it, which ran into a piece of it.
Excused(k) == k \in unkept \/ k - 1 \in unkept

(* Whatever fails or dies, the records of the file are in the order write() *)
(* got them, none twice: a flush that failed and was retried by a later one *)
(* repeats none.  A piece of one is among them, or at the end with no rest, *)
(* only after an error on a record that had no room in the handle.          *)
RecordsInOrder ==
  /\ \A i, j \in 1..Len(disk.recs) :
       i < j /\ disk.recs[i] # Piece /\ disk.recs[j] # Piece =>
         disk.recs[i] < disk.recs[j]
  /\ Piece \in Range(disk.recs) \/ disk.tail = "cut" => unkept # {}

(* An error while recording costs at most the record of that write and the  *)
(* next one, and neither if the record had room in the handle: every other  *)
(* one is in the file or the handle, until a later flush or close() brings  *)
(* it there.  A close() after no error left every record and every captured *)
(* lazy field in the file; a temporary file is left beside it only if both  *)
(* the copy and the unlink raised, and then the transcript is as it was.    *)
NothingLost ==
  /\ stage \in {"recording", "backfill"} =>
       /\ \A k \in 1..written : k \in Range(disk.recs) \cup Range(buf) \/ Excused(k)
       /\ Cardinality(unkept) <= faults
  /\ stage = "backfill" => buf = <<>>
  /\ stage = "done" /\ faults = 0 =>
       /\ 1..written \subseteq Range(disk.recs) /\ disk.tail = "whole"
       /\ disk.meta = {"base"} \cup lazy
  /\ stage = "done" /\ temp # {} =>
       faults >= 2 /\ disk.recs = loaded.recs /\ disk.meta = {"base"}

\* The records that close() found in the file are still there at the end,
\* whether the session ends by a crash, by an error or normally.
KeepsLoaded ==
  stage \in {"done", "crashed"} => IsPrefix(loaded.recs, disk.recs)

(* No crash and no error of the backfill costs a record that was on disk,   *)
(* but for YAML, whose backfill truncates the only copy: there a crash or   *)
(* an error does, in a session that captured a lazy field. What a crash     *)
(* leaves of an NDJSON file with records begins with its meta line, so that *)
(* it is not taken for a legacy transcript.                                 *)
BackfillKeepsRecords ==
  /\ ~KeepsLoaded =>
       format = "yaml" /\ lazy # {} /\ (stage = "crashed" \/ faults > 0)
  /\ format = "ndjson" /\ disk.recs # <<>> => "base" \in disk.meta
=============================================================================
