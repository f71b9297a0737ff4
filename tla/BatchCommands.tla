--------------------------- MODULE BatchCommands ---------------------------
(***************************************************************************)
(* The batch commands of the command line over one directory: generate-    *)
(* data, stream-ingest, index, update-index and export-lakehouse.  One     *)
(* command runs at a time.  Files other than the index are written in      *)
(* place, one after the other, and the process may die at any of them; the *)
(* index is replaced atomically.                                           *)
(*                                                                         *)
(* A command that fails before it writes (a CSV that is missing, torn or   *)
(* not sound, an index that does not load, an unknown column) changes      *)
(* nothing and is not a step; neither is validate-data, which only reports. *)
(***************************************************************************)
EXTENDS LakehouseTable

CONSTANTS
  Streams,      \* the JSONL files stream-ingest reads
  Limits,       \* values of its option max-messages
  Files,        \* CSV files that are there at first
  Indexes,      \* indexes that are there at first
  Sizes,        \* chunk_size and chunk_overlap of update-index
  Layouts,      \* partition columns of an export
  Dates,        \* dates of generated rows
  Channels,     \* channels of generated rows
  Sentences,    \* texts of generated rows
  Missing, Torn,
  MaxRows,      \* bound on generated rows
  MaxCommands   \* bound on commands

DefaultSize == <<3, 1>>   \* chunk_size 80 and chunk_overlap 16, to scale

ASSUME RowsAssumption ==
  /\ \A lines \in Streams : lines \in Seq(Rows)
  /\ \A file \in Files : file \in {Missing, Torn} \/ file \in Seq(Rows)
  /\ Default \in Strings /\ Dates \cup Channels \subseteq Strings
  /\ Sentences \subseteq Texts \ {<<>>}
ASSUME NumbersAssumption ==
  /\ \A lines \in Streams : \A i \in DOMAIN lines : WholeNumbers(lines[i].text)
  /\ \A file \in Files \ {Missing, Torn} : \A i \in DOMAIN file : WholeNumbers(file[i].text)
  /\ \A text \in Sentences : Clean(text)
ASSUME MarksAssumption ==
  /\ {Missing, Torn} \cap Seq(Rows) = {}
  /\ Missing \notin [version : {1, 2}, chunks : SUBSET StoredChunks]
ASSUME OptionsAssumption ==
  /\ Limits \subseteq Nat
  /\ \A s \in Sizes : s \in Nat \X Nat /\ s[2] < s[1]
  /\ \A columns \in Layouts : columns \in Seq(STRING)
ASSUME BoundsAssumption == MaxRows \in Nat /\ MaxCommands \in Nat

Csv == <<"feedback.csv">>
Letters == <<"dead_letters.jsonl">>

VARIABLES
  disk,      \* the content of each file but the index
  index,     \* Missing, or the version and the chunks of the JSON index
  command,   \* None, or what the command at work has still to write
  ran,       \* the number of commands so far (bound)
  written,   \* history: the rows the tool wrote to the CSV, or None
  merged,    \* history: the records in the index, with the size of their chunks
  exported   \* history: format and rows of the last export, or None

vars == <<disk, index, command, ran, written, merged, exported>>

Idle == command = None /\ ran < MaxCommands

\* load_feedback_csv in strict mode.
Loads == disk[Csv] \notin {Missing, Torn} /\ IsSound(disk[Csv])

\* InMemoryVectorStore.load.
Readable(there) == there # Missing => there.version = 2 \/ Migrates(there.chunks)

Contents(there) ==
  CASE there = Missing -> {}
    [] there # Missing /\ there.version = 1 -> Migrated(there.chunks)
    [] OTHER -> there.chunks

IndexLoads == Readable(index)

Stored == Contents(index)

-----------------------------------------------------------------------------
(* The index.                                                              *)

Remembered(records, size) ==
  {[tenant |-> r.tenant, id |-> r.id, text |-> Redact(r.text), size |-> size] : r \in records}

MergedRecords == [tenant : Strings, id : Strings, text : Texts, size : Nat \X Nat]

\* update_json_index: load, merge, replace.
Merge(records, size) ==
  LET last == LastOfEachKey(records)
      new == UNION {Chunks(r, size[1], size[2]) : r \in last}
  IN  /\ IndexLoads
      /\ index' = [version |-> 2, chunks |-> Upsert(Stored, new)]
      /\ merged' = {m \in merged : \A r \in last : Key(r) # Key(m)} \cup Remembered(last, size)

UpdateIndex(size) ==
  /\ Idle /\ Loads
  /\ Merge(disk[Csv], size)
  /\ ran' = ran + 1
  /\ UNCHANGED <<disk, command, written, exported>>

\* build_index does not read the index it replaces.
BuildIndex ==
  /\ Idle /\ Loads
  /\ index' = [version |-> 2,
               chunks |-> UNION {Chunks(r, DefaultSize[1], DefaultSize[2]) :
                                   r \in ToSet(disk[Csv])}]
  /\ merged' = Remembered(ToSet(disk[Csv]), DefaultSize)
  /\ ran' = ran + 1
  /\ UNCHANGED <<disk, command, written, exported>>

-----------------------------------------------------------------------------
(* Commands that write files in place.                                     *)

Begin(writes, update, export) ==
  /\ Idle
  /\ command' = [writes |-> writes, update |-> update, export |-> export]
  /\ ran' = ran + 1

\* JsonlFeedbackStream and poll: every command reads its file from the start, so that
\* a limit leaves the rest out for good.  A line that is no JSON object fails the
\* command before it writes.
Polled(lines, most) == SubSeq(lines, 1, Min({most, Len(lines)}))

\* consume_feedback_stream appends the cleaned payloads of the rejected messages to the
\* dead letters; write_stream_records_csv replaces the CSV unless nothing was accepted.
StreamIngest(lines, most, update) ==
  LET batch == Polled(lines, most)
      accepted == Accepted(batch)
      rejected == CleanPayloads(Rejected(batch))
      letters == [n \in DOMAIN rejected |->
                    [file |-> Letters, content |-> disk[Letters] \o SubSeq(rejected, 1, n)]]
      rows == IF accepted = <<>> THEN <<>>
              ELSE <<[file |-> Csv, content |-> RedactRecords(accepted)]>>
  IN  /\ Begin(letters \o rows, IF update /\ accepted # <<>> THEN accepted ELSE None, None)
      /\ UNCHANGED <<disk, index, written, merged, exported>>

\* generate_feedback_rows numbers the rows; the command writes no tenant column,
\* and a row without a tenant is of the default tenant.
GeneratedRow(i, text, date, channel) ==
  [tenant |-> Default, id |-> <<115, 121, 110, 45, 48 + i>>, text |-> text,
   date |-> date, channel |-> channel, valid |-> TRUE, plain |-> TRUE]

GenerateData ==
  \E n \in 1..MaxRows :
  \E dates \in [1..n -> Dates], channels \in [1..n -> Channels], texts \in [1..n -> Sentences] :
    /\ Begin(<<[file |-> Csv,
                content |-> [i \in 1..n |-> GeneratedRow(i, texts[i], dates[i], channels[i])]]>>,
             None, None)
    /\ UNCHANGED <<disk, index, written, merged, exported>>

\* export_lakehouse.
Export(columns, format) ==
  /\ Loads /\ IsAllowed(columns)
  /\ Begin(ExportWrites(disk[Csv], columns, format), None,
           [format |-> format, rows |-> RedactRecords(disk[Csv])])
  /\ exported' = None
  /\ UNCHANGED <<disk, index, written, merged>>

Put(file, content) ==
  disk' = [f \in DOMAIN disk \cup {file} |-> IF f = file THEN content ELSE disk[f]]

\* One file is truncated, filled and closed.
Write ==
  /\ command # None /\ command.writes # <<>>
  /\ LET write == Head(command.writes)
     IN  /\ Put(write.file, write.content)
         /\ written' = IF write.file = Csv THEN write.content ELSE written
  /\ command' = [command EXCEPT !.writes = Tail(@)]
  /\ UNCHANGED <<index, ran, merged, exported>>

\* With the files written, stream-ingest merges what it accepted, if asked to;
\* the command fails there when the index does not load.
Finish ==
  /\ command # None /\ command.writes = <<>>
  /\ command' = None
  /\ IF command.update # None /\ IndexLoads THEN Merge(command.update, DefaultSize)
     ELSE UNCHANGED <<index, merged>>
  /\ exported' = IF command.export # None THEN command.export ELSE exported
  /\ UNCHANGED <<disk, ran, written>>

\* What a crash may leave of a CSV: the rows that reached it, the last one cut
\* short, or not even its header.
CutShort(rows, k) == SubSeq(rows, 1, k - 1) \o <<[rows[k] EXCEPT !.valid = FALSE]>>

TornCsv(rows) ==
  {Torn} \cup {SubSeq(rows, 1, k) : k \in 0..Len(rows)}
    \cup {CutShort(rows, k) : k \in 1..Len(rows)}

\* Of the dead letters a crash leaves what was there.
Remains(write) ==
  CASE write.file = Csv -> TornCsv(write.content)
    [] write.file = Letters -> {disk[Letters]}
    [] OTHER -> {Torn}

\* The process dies between two writes or in the middle of one.
Crash ==
  /\ command # None
  /\ command' = None
  /\ \/ UNCHANGED <<disk, written>>
     \/ /\ command.writes # <<>>
        /\ LET write == Head(command.writes)
           IN  /\ \E left \in Remains(write) : Put(write.file, left)
               /\ written' = IF write.file = Csv THEN None ELSE written
  /\ UNCHANGED <<index, ran, merged, exported>>

-----------------------------------------------------------------------------
Init ==
  /\ \E file \in Files : disk = [f \in {Csv, Letters} |-> IF f = Csv THEN file ELSE <<>>]
  /\ \E there \in Indexes :
       /\ index = there.index
       /\ merged = there.records
  /\ command = None
  /\ ran = 0
  /\ written = None
  /\ exported = None

Next ==
  \/ \E lines \in Streams, most \in Limits, update \in BOOLEAN : StreamIngest(lines, most, update)
  \/ \E size \in Sizes : UpdateIndex(size)
  \/ \E columns \in Layouts, format \in Formats : Export(columns, format)
  \/ BuildIndex \/ GenerateData \/ Write \/ Finish \/ Crash

Spec == Init /\ [][Next]_vars

-----------------------------------------------------------------------------
(* Properties.                                                             *)

\* The tool writes the CSV, the dead letters and the files of tables, each whole
\* or torn; a command at work has files to write or an index to merge.
TypeOK ==
  /\ disk[Csv] \in {Missing, Torn} \/ disk[Csv] \in Seq(Range(disk[Csv]))
  /\ \A file \in DOMAIN disk : Len(file) = 3 => file[1] = "part"
  /\ index # Missing => index.version \in {1, 2}
  /\ command # None => ran > 0
  /\ ran \in 0..MaxCommands

\* A CSV that stream-ingest or generate-data finished is accepted whole by every
\* command that loads it strictly, although the stream finds duplicates by one
\* key and the contract by another: the tool never refuses its own file.
WrittenCsvLoads == written # None => Loads /\ disk[Csv] = written

\* Whoever merged last, the index holds the text of the last merged record of
\* each tenant and id, redacted, and nothing else: its chunks are numbered
\* windows of at most chunk_size words, each overlapping the next by
\* chunk_overlap words, that reach the end of the text.  Merging one record
\* never removes or changes another's chunks, even if their raw ids collide.
HoldsText(record, chunks) ==
  LET text == record.text
      size == record.size[1]
      step == size - record.size[2]
  IN  /\ \E c \in chunks : c.position = 1
      /\ \A c \in chunks :
           /\ Len(c.text) \in 1..size
           /\ c.position + Len(c.text) - 1 <= Len(text)
           /\ c.text = SubSeq(text, c.position, c.position + Len(c.text) - 1)
           /\ \/ c.position + Len(c.text) - 1 = Len(text)
              \/ \E d \in chunks : d.position = c.position + step
      /\ Cardinality({c.position : c \in chunks}) = Cardinality(chunks)
      /\ Cardinality({c \in chunks : c.position + Len(c.text) - 1 = Len(text)}) = 1

IndexHolds(there, records) ==
  there # Missing /\ Readable(there) =>
    LET chunksOf(m) == {c \in Contents(there) : c.source = SourceId(m.tenant, m.id)}
    IN  /\ \A m \in records : HoldsText(m, chunksOf(m))
        /\ Contents(there) = UNION {chunksOf(m) : m \in records}

IndexIsTheMergedText == IndexHolds(index, merged)

\* Indexes that are there at first hold the records that go with them.
ASSUME IndexesAssumption ==
  \A there \in Indexes :
    /\ \/ there.index = Missing /\ there.records = {}
       \/ /\ there.index \in [version : {1, 2}, chunks : SUBSET StoredChunks]
          /\ IsFiniteSet(there.index.chunks)
          /\ \A c \in there.index.chunks : Clean(c.text)
    /\ there.records \subseteq MergedRecords
    /\ IndexHolds(there.index, there.records)

\* After an export that finished, the metadata of its format and the manifest lead
\* to every exported record exactly once, whatever parts earlier exports with
\* other columns, and exports that died, left in the directory.
ExportIsReadable ==
  exported # None =>
    LET rows == TableRows(disk, exported.format)
    IN  /\ Len(rows) = Len(exported.rows)
        /\ ToSet(rows) = ToSet(exported.rows)
        /\ FlattenSeq([n \in DOMAIN disk[Manifest] |-> disk[disk[Manifest][n]]]) = rows

\* No telephone number, nor half of one, is in the text of a CSV the tool wrote, of a
\* chunk or of the table, nor in a text of the dead letters that came as a string; a
\* chunk that ends inside a number is no way out.
AllClean(rows) == \A i \in DOMAIN rows : Clean(rows[i].text)

StringsClean(rows) == \A i \in DOMAIN rows : rows[i].plain => Clean(rows[i].text)

NothingPersistedRaw ==
  /\ StringsClean(disk[Letters])
  /\ written # None => AllClean(disk[Csv])
  /\ index # Missing => \A c \in index.chunks : Clean(c.text)
  /\ \A file \in DOMAIN disk : Len(file) = 3 /\ disk[file] # Torn => AllClean(disk[file])

\* What README.md says of payloads: "The same redaction is applied to accepted stream CSV
\* output and dead-letter payloads, so local artifacts do not retain raw contact details".
\* It does not hold of values of a rejected message that are no strings; no run checks it.
DeadLettersAreRedacted == AllClean(disk[Letters])

-----------------------------------------------------------------------------
(* Why they hold: the parts of the inductive invariant.                    *)

\* A list of rows whose telephone numbers redaction recognises.
AllWhole(rows) == \A i \in DOMAIN rows : WholeNumbers(rows[i].text)

\* What the tool may leave as a CSV.
IsWritten(rows) == rows \in Seq(Rows) /\ IsSound(rows) /\ AllClean(rows)

\* The files at rest.
FilesInv ==
  /\ {Csv, Letters} \subseteq DOMAIN disk
  /\ disk[Csv] \in {Missing, Torn} \/ (disk[Csv] \in Seq(Rows) /\ AllWhole(disk[Csv]))
  /\ disk[Letters] \in Seq(Rows) /\ StringsClean(disk[Letters])
  /\ written # None => disk[Csv] = written /\ IsWritten(written)
  /\ \A file \in DOMAIN disk : Len(file) = 3 /\ disk[file] # Torn => AllClean(disk[file])

\* One file still to be written, and all that a command has still to write.
WriteInv(write) ==
  /\ write.file = Csv => IsWritten(write.content)
  /\ write.file = Letters => write.content \in Seq(Rows) /\ StringsClean(write.content)
  /\ Len(write.file) = 3 => AllClean(write.content)

WritesInv(writes) ==
  writes \in Seq(ToSet(writes)) /\ \A i \in DOMAIN writes : WriteInv(writes[i])

\* What stream-ingest merges at last: rows it accepted, as it read them.
UpdateInv(rows) == rows \in Seq(Rows) /\ IsSound(rows) /\ AllWhole(rows)

PendingInv ==
  command # None =>
    /\ command = [writes |-> command.writes, update |-> command.update, export |-> command.export]
    /\ WritesInv(command.writes)
    /\ command.update # None => UpdateInv(command.update)

\* The index; only one that was there at first is of version 1.
IndexInv ==
  index # Missing =>
    /\ index.version \in {1, 2}
    /\ index.version = 1 => index.chunks \subseteq StoredChunks
    /\ \A c \in index.chunks : Clean(c.text)

BatchInv == FilesInv /\ PendingInv /\ IndexInv

\* The index and the records in it.
MergedInv ==
  /\ merged \subseteq MergedRecords
  /\ index = Missing => merged = {}
  /\ index # Missing => index \in [version : {1, 2}, chunks : SUBSET StoredChunks]
  /\ IndexHolds(index, merged)

\* The files of exported tables, whichever.
TableFile(file) ==
  Len(file) = 3 \/ file \in {Manifest, DeltaLog, IcebergManifest, IcebergMetadata}

OffTable(writes) == \A w \in ToSet(writes) : ~TableFile(w.file)

\* An export whose files are found on a disk, but for those that are pending.
Exports(found, export, pending) ==
  /\ export.rows \in Seq(Rows)
  /\ \E columns \in Layouts :
       LET writes == ToSet(TableWrites(export.rows, columns, export.format))
       IN  /\ IsAllowed(columns)
           /\ pending \subseteq writes
           /\ \A w \in writes \ pending : w.file \in DOMAIN found /\ found[w.file] = w.content

\* Exports, finished and at work; while a finished one is remembered no other
\* command touches the files of tables.
ExportInv ==
  /\ exported # None => Exports(disk, exported, {})
  /\ command # None /\ command.export # None =>
       Exports(disk, command.export, ToSet(command.writes))
  /\ command # None /\ exported # None => OffTable(command.writes)
=============================================================================
