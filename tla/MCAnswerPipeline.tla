-------------------------- MODULE MCAnswerPipeline --------------------------
(* A small instance of AnswerPipeline: three chunks of two records.        *)
EXTENDS AnswerPipeline

\* The first record is long; the second is legacy data without metadata.
const_SourceOf == <<"r1", "r1", "r2">>
const_Metadata ==
  [r1 |-> [tenant |-> 1, rating |-> 2, day |-> 4],
   r2 |-> [tenant |-> Missing, rating |-> Missing, day |-> Missing]]

NoFilter == [tenant |-> Any, minRating |-> Any, maxRating |-> Any, after |-> Any, before |-> Any]

\* No filter; a tenant; the default tenant and high ratings; low ratings between two days.
const_Filters ==
  {NoFilter,
   [NoFilter EXCEPT !.tenant = 1],
   [NoFilter EXCEPT !.tenant = 0, !.minRating = 5],
   [NoFilter EXCEPT !.maxRating = 3, !.after = 4, !.before = 4]}

\* Differences of similarities and of BM25 scores divide Scale, so that no
\* normalised score is rounded.
const_Profiles ==
  {[dense |-> -5, lexical |-> 10, bonus |-> 3, suspicious |-> FALSE],
   [dense |-> 0, lexical |-> 0, bonus |-> 0, suspicious |-> FALSE],
   [dense |-> 5, lexical |-> 5, bonus |-> 0, suspicious |-> FALSE],
   [dense |-> 5, lexical |-> 10, bonus |-> 8, suspicious |-> TRUE]}

const_Deployments ==
  {[retriever |-> r, store |-> "memory"] : r \in {"dense", "lexical", "hybrid"}}
  \cup {[retriever |-> r, store |-> "qdrant"] : r \in {"dense", "hybrid"}}

const_Snapshots == {{1, 2, 3}, {1, 3}}

=============================================================================
