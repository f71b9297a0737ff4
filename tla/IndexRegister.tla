--------------------------- MODULE IndexRegister ---------------------------
(***************************************************************************)
(* What the JSON feedback index promises its callers: one register that    *)
(* holds the whole index.  Every call takes effect atomically, once, at    *)
(* some moment between its start and its end, or has no effect at all.     *)
(*                                                                         *)
(* JsonIndex implements this register with a file, a lock, temporary files *)
(* and a cached snapshot in every API worker.                              *)
(***************************************************************************)
EXTENDS Naturals

CONSTANTS
  Threads,    \* callers: request threads of API workers and CLI processes
  Sources,    \* scoped source ids, one per tenant and feedback id
  CsvSources, \* the sources listed by the CSV a full build reads
  Missing,    \* value of the index before anybody created it
  MaxWrites   \* bound on the identifiers of writes

Absent == 0   \* the index holds no chunk of the source

\* Contents map a source to the write that supplied its chunks.
Contents == [Sources -> 0..MaxWrites]

WriteKinds == {"ingest", "update", "rebuild"}
ReadKinds  == {"query", "boot", "ensure"}

Calls == [kind  : WriteKinds \cup ReadKinds,
          batch : SUBSET Sources,
          id    : 0..MaxWrites]

NoCall == [kind |-> "query", batch |-> {}, id |-> 0]

VARIABLES
  index,   \* the register: Missing or the committed contents
  phase,   \* phase[t]: "idle", "open" (no effect yet), "done"
  call,    \* call[t]: the operation thread t last started
  answer   \* answer[t]: the contents a read call returns

vars == <<index, phase, call, answer>>

-----------------------------------------------------------------------------
\* A full build contains the rows of the CSV and nothing else.
FullBuild(id) == [s \in Sources |-> IF s \in CsvSources THEN id ELSE Absent]

\* An incremental update replaces the sources of its batch and keeps the rest.
Upsert(old, batch, id) ==
  [s \in Sources |-> IF s \in batch THEN id
                     ELSE IF old = Missing THEN Absent ELSE old[s]]

\* The index after a call takes effect.
Effect(c) ==
  IF c.kind \in {"ingest", "update"} THEN Upsert(index, c.batch, c.id)
  ELSE IF c.kind = "rebuild" \/ (c.kind \in {"boot", "ensure"} /\ index = Missing)
    THEN FullBuild(c.id)
  ELSE index

-----------------------------------------------------------------------------
Init ==
  /\ index = Missing
  /\ phase = [t \in Threads |-> "idle"]
  /\ call = [t \in Threads |-> NoCall]
  /\ answer = [t \in Threads |-> Missing]

Start(t) ==
  /\ phase[t] = "idle"
  /\ phase' = [phase EXCEPT ![t] = "open"]
  /\ \E c \in Calls : call' = [call EXCEPT ![t] = c]
  /\ answer' = [answer EXCEPT ![t] = Missing]
  /\ UNCHANGED index

\* The linearization point of a call.
TakeEffect(t) ==
  /\ phase[t] = "open"
  /\ phase' = [phase EXCEPT ![t] = "done"]
  /\ index' = Effect(call[t])
  /\ answer' = IF call[t].kind \in ReadKinds
                 THEN [answer EXCEPT ![t] = index'] ELSE answer
  /\ UNCHANGED call

\* Calls end: they return, fail (before or after their effect) or die with
\* their process, which may take several threads at once.
End(ts) ==
  /\ \E t \in ts : phase[t] # "idle"
  /\ phase' = [t \in Threads |-> IF t \in ts THEN "idle" ELSE phase[t]]
  /\ call' = [t \in Threads |-> IF t \in ts THEN NoCall ELSE call[t]]
  /\ answer' = [t \in Threads |-> IF t \in ts THEN Missing ELSE answer[t]]
  /\ UNCHANGED index

Next ==
  \/ \E t \in Threads : Start(t) \/ TakeEffect(t)
  \/ \E ts \in SUBSET Threads : End(ts)

Spec == Init /\ [][Next]_vars
=============================================================================
