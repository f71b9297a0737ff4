--------------------------- MODULE LakehouseTable ---------------------------
(***************************************************************************)
(* The files of a lakehouse export, in the order they are written: the     *)
(* part of each partition, the manifest, and the metadata of one format.   *)
(* Metadata is abstracted to the files it lists.  Pure operators.          *)
(***************************************************************************)
EXTENDS RecordContract

Manifest == <<"_lakehouse_manifest.json">>
DeltaLog == <<"_delta_log/00000000000000000000.json">>
IcebergManifest == <<"metadata/manifests/manifest-00000.json">>
IcebergMetadata == <<"metadata/v1.metadata.json">>

Formats == {"delta", "iceberg"}
AllowedColumns == {"tenant_id", "created_date", "channel"}

\* _normalise_partition_columns: the first occurrence of each column.
Normalised(columns) ==
  At(columns, {i \in DOMAIN columns : \A j \in 1..(i - 1) : columns[j] # columns[i]})

IsAllowed(columns) == columns # <<>> /\ ToSet(columns) \subseteq AllowedColumns

\* _partition_value.
Value(record, column) ==
  CASE column = "tenant_id" -> record.tenant
    [] column = "created_date" -> record.date
    [] column = "channel" -> record.channel

\* _safe_partition_value: a run of other characters becomes one underscore.
Safe(value) ==
  LET odd == {i \in DOMAIN value : value[i] \in {Percent, Colon}}
      plain == [i \in DOMAIN value |-> IF i \in odd THEN 95 ELSE value[i]]
  IN  At(plain, {i \in DOMAIN value : i \notin odd \/ i - 1 \notin odd})

PartitionKey(record, columns) == [k \in DOMAIN columns |-> Value(record, columns[k])]

\* _group_records: keys and the records of a key in order.
PartitionKeys(records, columns) ==
  Listed({PartitionKey(records[i], columns) : i \in DOMAIN records},
         LAMBDA k, l : LexLess(k, l, StringLess))

RecordsOf(records, columns, key) ==
  LET members == {i \in DOMAIN records : PartitionKey(records[i], columns) = key}
      before(r, s) == LexLess(Key(r), Key(s), StringLess)
  IN  Sorted(At(records, members), before)

\* Mutant: the number of the partition is not part of the name.
PartWithoutNumber(columns, key, number) ==
  <<"part", [k \in DOMAIN key |-> <<columns[k], Safe(key[k])>>], 0>>

\* The path of a data file.
Part(columns, key, number) ==
  <<"part", [k \in DOMAIN key |-> <<columns[k], Safe(key[k])>>], number>>

\* _write_data_files.
PartWrites(records, columns) ==
  LET keys == PartitionKeys(records, columns)
  IN  [n \in DOMAIN keys |-> [file |-> Part(columns, keys[n], n),
                              content |-> RecordsOf(records, columns, keys[n])]]

\* _write_manifest and _write_table_metadata.
MetadataWrites(parts, format) ==
  LET listed == [n \in DOMAIN parts |-> parts[n].file]
  IN  <<[file |-> Manifest, content |-> listed]>> \o
      IF format = "delta" THEN <<[file |-> DeltaLog, content |-> listed]>>
      ELSE <<[file |-> IcebergManifest, content |-> listed],
             [file |-> IcebergMetadata, content |-> <<IcebergManifest>>]>>

\* The files of a table, as they are written.
TableWrites(rows, columns, format) ==
  LET parts == PartWrites(rows, Normalised(columns))
  IN  parts \o MetadataWrites(parts, format)

\* export_feedback_lakehouse.
ExportWrites(records, columns, format) == TableWrites(RedactRecords(records), columns, format)

\* What a reader of a format finds: the rows of the files its metadata lists.
TableRows(disk, format) ==
  LET listed == IF format = "delta" THEN disk[DeltaLog] ELSE disk[disk[IcebergMetadata][1]]
  IN  FlattenSeq([n \in DOMAIN listed |-> disk[listed[n]]])
=============================================================================
