--------------------------- MODULE RecordContract ---------------------------
(***************************************************************************)
(* Feedback records on their way to the index: the data contract of CSV    *)
(* rows and stream messages, redaction, source identifiers, chunking, and  *)
(* the merge of records into a JSON index.  Pure operators.                *)
(*                                                                         *)
(* An identifier is the sequence of its character codes, because colons    *)
(* and percent signs decide whether two identifiers collide.  A text is    *)
(* the sequence of its words.  A telephone number is two words, Area and   *)
(* Number, that redaction recognises only side by side.  A row carries     *)
(* what FeedbackRecord's validation says of it, in the field valid; plain  *)
(* says that its text is a string, as in every CSV, and not a list, an     *)
(* object or a number, as a stream message may have it.                    *)
(***************************************************************************)
EXTENDS PythonLists

CONSTANTS
  Default,      \* the tenant "default"
  Area, Number, \* the two words of a telephone number
  Placeholder,  \* the word that replaces them
  Words,        \* the words of texts, those three among them
  None

ASSUME WordsAssumption ==
  /\ {Area, Number, Placeholder} \subseteq Words
  /\ Area # Number /\ Placeholder \notin {Area, Number}

Percent == 37
Colon == 58

Strings == Seq(Nat)
Texts == Seq(Words)

\* A valid row has text, a string.
Rows ==
  {r \in [tenant : Strings, id : Strings, text : Texts, date : Strings, channel : Strings,
          valid : BOOLEAN, plain : BOOLEAN] : r.valid => r.text # <<>> /\ r.plain}

\* The chunks of an index; those of version 1 may lack tenant and id.
StoredChunks ==
  [source : Strings, position : Nat \ {0}, text : Texts,
   tenant : Strings \cup {None}, id : Strings \cup {None}]

-----------------------------------------------------------------------------
(* Redaction.                                                              *)

\* redact_pii.
Redact(text) ==
  LET number == {i \in 2..Len(text) : text[i - 1] = Area /\ text[i] = Number}
      hidden == [i \in DOMAIN text |-> IF i + 1 \in number THEN Placeholder ELSE text[i]]
  IN  At(hidden, DOMAIN text \ number)

RedactRecord(record) == [record EXCEPT !.text = Redact(@)]

RedactRecords(records) == [i \in DOMAIN records |-> RedactRecord(records[i])]

\* Mutant: the payload of a rejected message is kept as it came.
RawPayload(message) == message

\* _clean_payload of streaming_ingestion: strings are redacted; what is in a list or an
\* object, or a number, stays as it is.
CleanPayload(message) == IF message.plain THEN RedactRecord(message) ELSE message

CleanPayloads(messages) == [i \in DOMAIN messages |-> CleanPayload(messages[i])]

\* The words of a telephone number stand side by side.
WholeNumbers(text) ==
  \A i \in DOMAIN text :
    /\ text[i] = Area => i + 1 \in DOMAIN text /\ text[i + 1] = Number
    /\ text[i] = Number => i - 1 \in DOMAIN text /\ text[i - 1] = Area

\* No telephone number, nor half of one.
Clean(text) == {Area, Number} \cap ToSet(text) = {}

-----------------------------------------------------------------------------
(* The data contract.                                                      *)

Key(record) == <<record.tenant, record.id>>

\* validate_feedback_csv: an id that an earlier row of the tenant has, were that
\* row invalid, is a duplicate.
RowIsSound(rows, i) == rows[i].valid /\ \A j \in 1..(i - 1) : Key(rows[j]) # Key(rows[i])

\* The records of a file that is loaded in strict mode.
IsSound(rows) == \A i \in DOMAIN rows : RowIsSound(rows, i)

\* Mutant: the ids seen so far are not remembered.
AcceptsAnyId(batch, i) == batch[i].valid

\* _validate_envelope joins tenant and id with a colon.
StreamKey(message) == message.tenant \o <<Colon>> \o message.id

\* consume_feedback_stream: a message is accepted unless it is invalid or its key
\* is that of a message accepted before; of one key the first valid one is.
Accepts(batch, i) ==
  /\ batch[i].valid
  /\ \A j \in 1..(i - 1) : batch[j].valid => StreamKey(batch[j]) # StreamKey(batch[i])

Accepted(batch) == At(batch, {i \in DOMAIN batch : Accepts(batch, i)})
Rejected(batch) == At(batch, {i \in DOMAIN batch : ~Accepts(batch, i)})

-----------------------------------------------------------------------------
(* Source identifiers.                                                     *)

\* urllib.parse.quote with safe="" on the characters that matter here.
Quote(string) ==
  FlattenSeq([i \in DOMAIN string |->
    CASE string[i] = Percent -> <<Percent, 50, 53>>
      [] string[i] = Colon -> <<Percent, 51, 65>>
      [] OTHER -> <<string[i]>>])

\* Mutant and version 1: the components are joined as they are.
RawSourceId(tenant, id) == IF tenant = Default THEN id ELSE tenant \o <<Colon>> \o id

\* encode_source_id.
SourceId(tenant, id) ==
  IF tenant = Default THEN Quote(id) ELSE Quote(tenant) \o <<Colon>> \o Quote(id)

\* The identity of a version-1 chunk: its metadata, or what its source id tells.
LegacyTenant(chunk) == IF chunk.tenant = None THEN Default ELSE chunk.tenant

LegacyId(chunk) ==
  LET tenant == LegacyTenant(chunk)
      prefix == tenant \o <<Colon>>
  IN  CASE chunk.id # None -> chunk.id
        [] tenant = Default -> chunk.source
        [] tenant # Default /\ IsPrefix(prefix, chunk.source) ->
             SubSeq(chunk.source, Len(prefix) + 1, Len(chunk.source))
        [] OTHER -> <<>>

MigratedChunk(chunk) ==
  [chunk EXCEPT !.source = SourceId(LegacyTenant(chunk), LegacyId(chunk))]

\* migrate_legacy_chunks raises unless every identity is known and agrees with the
\* source id, and no two chunks get the same id.
Migrates(chunks) ==
  /\ \A c \in chunks :
       LegacyId(c) # <<>> /\ RawSourceId(LegacyTenant(c), LegacyId(c)) = c.source
  /\ \A c, d \in chunks :
       MigratedChunk(c).source = MigratedChunk(d).source /\ c.position = d.position => c = d

Migrated(chunks) == {MigratedChunk(c) : c \in chunks}

-----------------------------------------------------------------------------
(* Chunks.                                                                 *)

\* chunk_text: the first and last word of each window; a window starts behind
\* the first only if the one before it ended before the text did.
Windows(words, size, overlap) ==
  LET step == size - overlap
      begins == {k \in 0..words : k = 0 \/ (k - 1) * step + size < words}
  IN  IF words = 0 THEN {}
      ELSE {<<k * step + 1, IF k * step + size < words THEN k * step + size ELSE words>> :
              k \in begins}

\* Mutant: each window is redacted on its own.
ChunksRedactedLate(record, size, overlap) ==
  {[source |-> SourceId(record.tenant, record.id), position |-> w[1],
    text |-> Redact(SubSeq(record.text, w[1], w[2])),
    tenant |-> record.tenant, id |-> record.id] :
     w \in Windows(Len(record.text), size, overlap)}

\* feedback_to_chunks; a chunk is numbered by the word it begins with.
Chunks(record, size, overlap) ==
  LET text == Redact(record.text)
  IN  {[source |-> SourceId(record.tenant, record.id), position |-> w[1],
        text |-> SubSeq(text, w[1], w[2]),
        tenant |-> record.tenant, id |-> record.id] : w \in Windows(Len(text), size, overlap)}

\* _dedupe_records: the last record of each key.
LastOfEachKey(records) ==
  {records[i] : i \in {i \in DOMAIN records :
     \A j \in DOMAIN records : j > i => Key(records[j]) # Key(records[i])}}

\* InMemoryVectorStore.upsert_sources.
Upsert(chunks, new) ==
  {c \in chunks : \A n \in new : n.source # c.source} \cup new
=============================================================================
