-------------------------- MODULE StreamIngestion --------------------------
(***************************************************************************)
(* consume_feedback_stream over a Kafka partition with manual commits.     *)
(*                                                                         *)
(* A call polls a bounded batch, validates its messages one by one,        *)
(* commits each accepted one at once, appends the rejected ones to the     *)
(* dead-letter file and returns both.  Whatever raises ends the call, and  *)
(* its batch with it.  The same consumer is then called again: it goes on  *)
(* after the last message it fetched, and at the committed offset only     *)
(* when its process was restarted or the partition assigned anew.          *)
(*                                                                         *)
(* A message is abstracted to what validation makes of it.                 *)
(***************************************************************************)
EXTENDS Integers, Sequences, FiniteSets

CONSTANTS
  Ids,              \* scoped ids (tenant and feedback id) of valid messages
  Invalid,          \* a message that fails the data contract
  Garbled,          \* a message that is no JSON object
  TopicSize,        \* number of messages in the partition
  MaxMessages,      \* max_messages of a call
  MaxFailures,      \* bound on failures, restarts and assignments
  AssignedInPoll    \* the partition may be assigned anew in the middle of a poll

\* consume_feedback_stream and poll refuse max_messages below 1.
ASSUME BatchAssumption == MaxMessages \in Nat \ {0}
ASSUME TopicAssumption == TopicSize \in Nat /\ MaxFailures \in Nat /\ AssignedInPoll \in BOOLEAN
ASSUME MessageAssumption == Invalid \notin Ids /\ Garbled \notin Ids

Offsets == 1..TopicSize
Members(s) == {s[i] : i \in 1..Len(s)}

VARIABLES
  topic,        \* topic[o]: the message at offset o
  position,     \* offset that the consumer fetches next
  committed,    \* committed offset of the group: where a new consumer starts
  step,         \* what the call does: "idle" between calls
  envelopes,    \* offsets of the batch
  records,      \* offsets of the accepted messages of the batch
  issues,       \* offsets of the rejected messages of the batch
  deadLetters,  \* offsets in the dead-letter file
  failures,     \* number of failures so far
  delivered,    \* history: offsets of the records that calls returned
  reported,     \* history: offsets of the issues that calls returned
  lost          \* history: offsets of the batches of calls that raised

call == <<step, envelopes, records, issues>>
history == <<delivered, reported, lost>>
streamVars == <<topic, position, committed, call, deadLetters, failures, history>>

-----------------------------------------------------------------------------
StreamInit ==
  /\ topic \in [Offsets -> Ids \cup {Invalid, Garbled}]
  /\ position = 1 /\ committed = 1
  /\ step = "idle" /\ envelopes = <<>> /\ records = <<>> /\ issues = <<>>
  /\ deadLetters = {} /\ failures = 0
  /\ delivered = <<>> /\ reported = {} /\ lost = {}

CanFail == failures < MaxFailures

\* The messages of the batch that the loop has handled, and the next one.
Handled == Len(records) + Len(issues)
Current == envelopes[Handled + 1]

\* The call raises: nobody gets to see its batch.
Raise ==
  /\ step' = "idle" /\ envelopes' = <<>> /\ records' = <<>> /\ issues' = <<>>
  /\ lost' = lost \cup Members(envelopes)
  /\ UNCHANGED <<delivered, reported>>

\* consume_feedback_stream begins.
StartConsume ==
  /\ step = "idle"
  /\ step' = "polling"
  /\ UNCHANGED <<topic, position, committed, envelopes, records, issues, deadLetters, failures, history>>

\* poll fetches and decodes a message.
Fetch ==
  /\ step = "polling" /\ Len(envelopes) < MaxMessages
  /\ position \in Offsets /\ topic[position] # Garbled
  /\ position' = position + 1
  /\ envelopes' = Append(envelopes, position)
  /\ UNCHANGED <<topic, committed, step, records, issues, deadLetters, failures, history>>

\* Mutant: a message that cannot be decoded is passed over.
FetchGarbledQuietly ==
  /\ step = "polling" /\ Len(envelopes) < MaxMessages
  /\ position \in Offsets /\ topic[position] = Garbled
  /\ position' = position + 1
  /\ UNCHANGED <<topic, committed, call, deadLetters, failures, history>>

\* poll fetches a message it cannot decode, and raises.
FetchGarbled ==
  /\ step = "polling" /\ Len(envelopes) < MaxMessages
  /\ position \in Offsets /\ topic[position] = Garbled
  /\ position' = position + 1
  /\ step' = "idle" /\ envelopes' = <<>>
  /\ lost' = lost \cup Members(envelopes) \cup {position}
  /\ UNCHANGED <<topic, committed, records, issues, deadLetters, failures, delivered, reported>>

\* The consumer reports an error, and poll raises.
ConsumerError ==
  /\ step = "polling" /\ Len(envelopes) < MaxMessages /\ CanFail
  /\ Raise
  /\ failures' = failures + 1
  /\ UNCHANGED <<topic, position, committed, deadLetters>>

\* poll has a full batch, or no message arrived in time.
EndPoll ==
  /\ step = "polling"
  /\ step' = "validating"
  /\ UNCHANGED <<topic, position, committed, envelopes, records, issues, deadLetters, failures, history>>

\* seen_ids: the scoped ids of the records so far.
SeenIds == {topic[o] : o \in Members(records)}

\* The message is valid and no duplicate in its batch.
Valid == topic[Current] \in Ids \ SeenIds

\* Mutant: the commit names the message itself, not the one after it.
AcceptCommitsItself ==
  /\ step = "validating" /\ Handled < Len(envelopes) /\ Valid
  /\ records' = Append(records, Current)
  /\ committed' = Current
  /\ UNCHANGED <<topic, position, step, envelopes, issues, deadLetters, failures, history>>

\* A valid message becomes a record and is committed.
Accept ==
  /\ step = "validating" /\ Handled < Len(envelopes) /\ Valid
  /\ records' = Append(records, Current)
  /\ committed' = Current + 1
  /\ UNCHANGED <<topic, position, step, envelopes, issues, deadLetters, failures, history>>

\* The commit of a valid message fails, whether or not the broker has done it.
AckFails ==
  /\ step = "validating" /\ Handled < Len(envelopes) /\ Valid /\ CanFail
  /\ committed' \in {committed, Current + 1}
  /\ Raise
  /\ failures' = failures + 1
  /\ UNCHANGED <<topic, position, deadLetters>>

\* Mutant: only messages that break the contract are rejected.
RejectInvalid ==
  /\ step = "validating" /\ Handled < Len(envelopes) /\ topic[Current] \notin Ids
  /\ issues' = Append(issues, Current)
  /\ UNCHANGED <<topic, position, committed, step, envelopes, records, deadLetters, failures, history>>

\* An invalid message or a duplicate becomes an issue and is not committed.
Reject ==
  /\ step = "validating" /\ Handled < Len(envelopes) /\ ~Valid
  /\ issues' = Append(issues, Current)
  /\ UNCHANGED <<topic, position, committed, step, envelopes, records, deadLetters, failures, history>>

\* _write_dead_letters appends the issues.
WriteDeadLetters ==
  /\ step = "validating" /\ Handled = Len(envelopes) /\ issues # <<>>
  /\ deadLetters' = deadLetters \cup Members(issues)
  /\ step' = "returning"
  /\ UNCHANGED <<topic, position, committed, envelopes, records, issues, failures, history>>

\* The file cannot be written after some of the issues.
WriteFails ==
  /\ step = "validating" /\ Handled = Len(envelopes) /\ issues # <<>> /\ CanFail
  /\ \E n \in 0..Len(issues) : deadLetters' = deadLetters \cup Members(SubSeq(issues, 1, n))
  /\ Raise
  /\ failures' = failures + 1
  /\ UNCHANGED <<topic, position, committed>>

\* There is nothing to write.
SkipDeadLetters ==
  /\ step = "validating" /\ Handled = Len(envelopes) /\ issues = <<>>
  /\ step' = "returning"
  /\ UNCHANGED <<topic, position, committed, envelopes, records, issues, deadLetters, failures, history>>

\* _accepted_envelopes: the envelopes that no issue names.
Accepted(o) == o \notin Members(issues)

\* The offsets that the result gives as checkpoints.
Checkpoints == SelectSeq(envelopes, Accepted)

\* The call returns its records, issues and checkpoints.
Return ==
  /\ step = "returning"
  /\ step' = "idle" /\ envelopes' = <<>> /\ records' = <<>> /\ issues' = <<>>
  /\ delivered' = delivered \o records
  /\ reported' = reported \cup Members(issues)
  /\ UNCHANGED <<topic, position, committed, deadLetters, failures, lost>>

\* The process dies and is started again: a new consumer begins at the commit.
Restart ==
  /\ CanFail
  /\ Raise
  /\ position' = committed
  /\ failures' = failures + 1
  /\ UNCHANGED <<topic, committed, deadLetters>>

\* The partition is taken away and assigned again.
Assign ==
  /\ step = "polling" /\ CanFail /\ (AssignedInPoll \/ envelopes = <<>>)
  /\ position' = committed
  /\ failures' = failures + 1
  /\ UNCHANGED <<topic, committed, call, deadLetters, history>>

Step ==
  \/ StartConsume \/ Fetch \/ FetchGarbled \/ EndPoll
  \/ Accept \/ Reject \/ WriteDeadLetters \/ SkipDeadLetters \/ Return

StreamNext == Step \/ ConsumerError \/ AckFails \/ WriteFails \/ Restart \/ Assign

StreamSpec == StreamInit /\ [][StreamNext]_streamVars

\* The consumer is called again and again, and messages that are there are
\* fetched now and then before poll gives up.
FairSpec == StreamSpec /\ WF_streamVars(Step) /\ SF_streamVars(Fetch) /\ SF_streamVars(FetchGarbled)

-----------------------------------------------------------------------------
(* Properties.                                                             *)

Lists == Seq(Offsets)

\* Every variable keeps its type; in particular no batch exceeds max_messages
\* and no message becomes both a record and an issue.
StreamTypeOK ==
  /\ topic \in [Offsets -> Ids \cup {Invalid, Garbled}]
  /\ position \in 1..(TopicSize + 1) /\ committed \in 1..(TopicSize + 1)
  /\ step \in {"idle", "polling", "validating", "returning"}
  /\ envelopes \in Lists /\ Len(envelopes) <= MaxMessages
  /\ records \in Lists /\ issues \in Lists /\ Handled <= Len(envelopes)
  /\ deadLetters \subseteq Offsets /\ failures \in 0..MaxFailures
  /\ delivered \in Lists /\ reported \subseteq Offsets /\ lost \subseteq Offsets

\* Messages some call returned, is working on, or lost by raising.
Seen == Members(delivered) \cup reported \cup lost \cup Members(envelopes)

\* A commit acknowledges every message before it.  Those messages were returned
\* to a caller as records or issues, are in the batch of the present call, or
\* were in the batch of a call that raised: commits skip nothing in silence.
NothingIsSkipped == 1..(committed - 1) \subseteq Seen

\* How the lists of a call belong together.
BatchInv ==
  /\ \A i \in 1..Handled : envelopes[i] \in Members(records) \cup Members(issues)
  /\ Members(records) \cup Members(issues) \subseteq Members(envelopes)
  /\ step = "returning" => Handled = Len(envelopes)
  /\ step = "idle" => envelopes = <<>>
  /\ step \in {"idle", "polling"} => records = <<>> /\ issues = <<>>

\* The inductive invariant: what was seen is a prefix of the topic.
PrefixInv ==
  /\ StreamTypeOK /\ BatchInv
  /\ \A o \in Seen : 1..o \subseteq Seen
  /\ 1..(position - 1) \subseteq Seen
  /\ NothingIsSkipped

\* No message is returned as a record twice, whatever is retried or restarted
\* (unless a partition is assigned anew in the middle of a poll).
Distinct(s) == \A i, j \in 1..Len(s) : s[i] = s[j] => i = j

DeliveredOnce == Distinct(delivered)

\* The inductive invariant behind it: the loop and the commits move forward.
OnceInv ==
  /\ committed <= position
  /\ \A i \in 1..Len(envelopes) :
       /\ envelopes[i] < position
       /\ \A j \in 1..Len(envelopes) : i < j => envelopes[i] < envelopes[j]
       /\ i > Handled => committed <= envelopes[i]
  /\ \A o \in Members(delivered) \cup Members(records) : o < committed
  /\ Members(delivered) \cap Members(records) = {}
  /\ Distinct(records) /\ DeliveredOnce

\* The checkpoints of a result are computed from its issues; they are the
\* offsets that were committed for its records, in that order.
CheckpointsAreCommits == step = "returning" => Checkpoints = records

\* Every message reaches a caller or the batch of a call that raised: garbled
\* and rejected messages, which are never committed, do not stop the stream.
EverythingIsConsumed == <>(Offsets \subseteq Members(delivered) \cup reported \cup lost)
=============================================================================
