-------------------------- MODULE MCBatchCommands --------------------------
(* Records whose raw identifiers collide, streams, files and indexes for   *)
(* TLC.  Strings are character codes: 58 is a colon, 37 a percent sign.    *)
EXTENDS OfflineCommands

MCWords ==
  {Area, Number, Placeholder, "good", "call", "me", "or", "not", "ok", "twice", "slow", "late",
   "fast", "dear", "old", "odd", "made"}

MCDefault == <<100>>                   \* "d"
Colons == <<97, 58, 98>>               \* "a:b"

Message(tenant, id, text) ==
  [tenant |-> tenant, id |-> id, text |-> text, date |-> <<49>>, channel |-> <<120>>,
   valid |-> TRUE, plain |-> TRUE]

\* Default's record a:b and a's record b share their raw source id.
Plain == Message(MCDefault, Colons, <<"good">>)
Long == Message(<<97>>, <<98>>, <<"call", "me", Area, Number, "or", "not", "ok">>)
Update == [Message(<<97>>, <<98>>, <<Area, Number, "twice">>) EXCEPT !.channel = <<121>>]
\* a:b's record c and a's record b:c share their key in a stream; the tenants a:b
\* and a_b share a directory; default's record a%3Ab looks like an encoded id.
Joined == Message(Colons, <<99>>, <<"slow">>)
Split == Message(<<97>>, <<98, 58, 99>>, <<"late">>)
Under == Message(<<97, 95, 98>>, <<99>>, <<"fast">>)
Escaped == Message(MCDefault, <<97, 37, 51, 65, 98>>, <<"dear">>)
Bad == [Message(<<97>>, <<98>>, <<Area, Number>>) EXCEPT !.valid = FALSE]
\* The number in a list: {"text": ["call", ...]}.
InList == [Bad EXCEPT !.plain = FALSE]

MCStreams == {<<Plain, Long, Update, Escaped>>, <<Bad, InList, Joined, Split, Under>>}

MCFiles == {Missing, <<Long, Under>>, <<Plain, Plain>>}

Chunk(source, position, text, tenant, id) ==
  [source |-> source, position |-> position, text |-> text, tenant |-> tenant, id |-> id]

\* A version-1 index in which two records share a raw source id, one whose chunk
\* has no metadata, and one that cannot be migrated.
Collided ==
  [index |-> [version |-> 1,
              chunks |-> {Chunk(Colons, 1, <<"good">>, MCDefault, Colons),
                          Chunk(Colons, 1, <<"old">>, <<97>>, <<98>>)}],
   records |-> {[tenant |-> MCDefault, id |-> Colons, text |-> <<"good">>, size |-> DefaultSize],
                [tenant |-> <<97>>, id |-> <<98>>, text |-> <<"old">>, size |-> DefaultSize]}]
Unlabelled ==
  [index |-> [version |-> 1, chunks |-> {Chunk(Colons, 1, <<"good">>, None, None)}],
   records |-> {[tenant |-> MCDefault, id |-> Colons, text |-> <<"good">>, size |-> DefaultSize]}]
Disagreeing ==
  [index |-> [version |-> 1, chunks |-> {Chunk(<<98>>, 1, <<"odd">>, <<97>>, None)}],
   records |-> {}]

MCIndexes == {[index |-> Missing, records |-> {}], Collided, Unlabelled, Disagreeing}

MCSizes == {<<4, 2>>}
MCLayouts == {<<"channel", "channel">>, <<"tenant_id", "created_date">>}
MCDates == {<<49>>}
MCChannels == {<<120>>, <<121>>}
MCSentences == {<<"made">>}

\* Questions by their words; the relevant ids are source ids.
Case(question, relevant, keywords, answerable) ==
  [question |-> question, relevant |-> relevant, keywords |-> keywords, answerable |-> answerable]

Ours == SourceId(<<97>>, <<98>>)
Theirs == SourceId(MCDefault, Colons)

MCCaseFiles ==
  {<<Case({"call", "or", "ok", "good"}, {Ours, Theirs}, {"call", "number"}, TRUE),
     Case({"made"}, {}, {}, FALSE)>>,
   <<Case({"or", "fast", "old"}, {Ours}, {"fast"}, TRUE),
     Case({"good", "fast"}, {Ours}, {}, TRUE)>>,
   <<>>}
=============================================================================
