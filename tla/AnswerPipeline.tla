--------------------------- MODULE AnswerPipeline ---------------------------
(***************************************************************************)
(* FeedbackInsightAgent.answer: one question on its way from the input     *)
(* gate through retrieval, ranking, the context gate, a tool and the       *)
(* language model to an answer with citations.                             *)
(*                                                                         *)
(* The agent of a worker is built from one reading of the index; lexical   *)
(* search and the tools see that snapshot for ever.  Dense search sees it  *)
(* too when vectors are in memory, and the live collection when they are   *)
(* in Qdrant, which other processes go on writing between two pages.       *)
(*                                                                         *)
(* Texts are left out.  What a question makes of a chunk is its profile:   *)
(* similarity, BM25 score, reranking bonus and whether the context gate    *)
(* finds it suspicious.  Scores are fixed-point numbers, 1.0 being Scale.  *)
(***************************************************************************)
EXTENDS Integers, Sequences, FiniteSetsExt

CONSTANTS
  NumChunks,        \* chunks are 1 .. NumChunks, in index order
  Sources,          \* ids of feedback records
  SourceOf,         \* SourceOf[c]: DocumentChunk.source_id
  Metadata,         \* Metadata[s]: the metadata of the chunks of record s
  Profiles,         \* what a question may make of a chunk
  Filters,          \* the values of MetadataFilters that requests carry
  TopKs,            \* the values of top_k
  Deployments,      \* [retriever |-> ..., store |-> ...]
  Snapshots,        \* the sets of chunks an agent may be built from
  CandidateFactor,  \* candidates per result, 4 in the code
  PoolFactor,       \* hybrid pool per candidate, 2 in the code
  MinPage,          \* smallest page of a filtered Qdrant scan, 64 in the code
  TicketLimit,      \* evidence items of a ticket, 4 in the code
  MaxChanges        \* bound on the writes of other processes

Chunks == 1 .. NumChunks

Missing == -1   \* a metadata field that is absent
Any == -1       \* a filter field that is None

Scale == 10
DenseWeight == 6      \* Settings.dense_weight, in tenths
LexicalWeight == 4    \* Settings.lexical_weight, in tenths

ASSUME ShapeAssumption ==
  /\ NumChunks \in Nat
  /\ SourceOf \in [Chunks -> Sources]
  /\ Metadata \in [Sources -> [tenant : Nat \cup {Missing},
                               rating : (1 .. 5) \cup {Missing},
                               day : Nat \cup {Missing}]]
  /\ Profiles \subseteq [dense : Int, lexical : Nat, bonus : Nat, suspicious : BOOLEAN]
  /\ Filters \subseteq [tenant : Nat \cup {Any}, minRating : Nat \cup {Any},
                        maxRating : Nat \cup {Any}, after : Nat \cup {Any},
                        before : Nat \cup {Any}]
  /\ Deployments \subseteq [retriever : {"dense", "lexical", "hybrid"},
                            store : {"memory", "qdrant"}]
  /\ Snapshots \subseteq SUBSET Chunks

ASSUME LimitAssumption ==
  /\ TopKs \subseteq Nat \ {0}
  /\ CandidateFactor \in Nat \ {0}
  /\ PoolFactor \in Nat \ {0}
  /\ MinPage \in Nat \ {0}
  /\ TicketLimit \in Nat
  /\ MaxChanges \in Nat

VARIABLES
  deployment,  \* Settings.retriever_type and Settings.vector_store
  request,     \* the filters and top_k of the call
  signals,     \* signals[c]: what the question makes of chunk c
  snapshot,    \* the chunks the agent was built from
  indexed,     \* the chunks in the vector store now
  changes,     \* writes by other processes so far
  stage,       \* where the call is
  dense,       \* dense_results
  offset,      \* offset of the next page of the scan
  lexical,     \* lexical_results
  results,     \* results, after _retrieve and after the context gate
  dropped,     \* context_chunks_dropped
  toolRun,     \* tool_record
  prompt,      \* the context blocks of the prompt, a marker and a chunk each
  marked,      \* the markers in the answer text, with the document they name
  citations,   \* AgentAnswer.citations
  confidence,  \* AgentAnswer.confidence, in units of 1 / (12 * Scale)
  risk         \* HallucinationCheck.risk

world == <<deployment, request, signals, snapshot>>
remote == <<indexed, changes>>
search == <<dense, offset, lexical>>
answer == <<citations, confidence, risk>>
vars == <<world, remote, stage, search, results, dropped, toolRun, prompt, marked, answer>>

NoRun == [status |-> "not_selected", tool |-> "none", documents |-> {}]

-----------------------------------------------------------------------------
(* Lists.  A list an algorithm leaves partly open is a set of lists.       *)

Listings(S) == [1 .. Cardinality(S) -> S]

\* The ways to list a set so that no element comes after one it precedes.
Arrangements(S, Precedes(_, _)) ==
  {l \in Listings(S) :
     \A i, j \in DOMAIN l : i < j => l[i] # l[j] /\ ~Precedes(l[j], l[i])}

\* The elements of a list at the positions in I, in the order of the list.
Selections(list, I) ==
  {[k \in DOMAIN l |-> list[l[k]]] : l \in Arrangements(I, <)}

UpTo(list, n) == SubSeq(list, 1, Min({n, Len(list)}))

-----------------------------------------------------------------------------
(* Metadata filters.                                                       *)

DefaultTenant == 0

SourceMatches(s, f) ==
  LET tenant == IF Metadata[s].tenant = Missing THEN DefaultTenant ELSE Metadata[s].tenant
      rating == IF Metadata[s].rating = Missing THEN 5 ELSE Metadata[s].rating
      day == Metadata[s].day
  IN /\ f.tenant # Any => tenant = f.tenant
     /\ f.minRating # Any => rating >= f.minRating
     /\ f.maxRating # Any => rating <= f.maxRating
     /\ f.after # Any => day # Missing /\ day >= f.after
     /\ f.before # Any => day # Missing /\ day <= f.before

Matches(c) == SourceMatches(SourceOf[c], request.filters)

FilterActive == \E field \in DOMAIN request.filters : request.filters[field] # Any

-----------------------------------------------------------------------------
Init ==
  /\ deployment \in Deployments
  /\ request \in [filters : Filters, topK : TopKs]
  /\ signals \in [Chunks -> Profiles]
  /\ snapshot \in Snapshots
  /\ indexed = snapshot
  /\ changes = 0
  /\ stage = "asked"
  /\ dense = <<>> /\ offset = 0 /\ lexical = <<>>
  /\ results = <<>> /\ dropped = 0
  /\ toolRun = NoRun
  /\ prompt = <<>> /\ marked = {}
  /\ citations = <<>> /\ confidence = 0 /\ risk = "unknown"

Uses(retriever) == deployment.retriever \in {retriever, "hybrid"}
Wanted == request.topK * CandidateFactor
Pool == IF deployment.retriever = "hybrid" THEN Wanted * PoolFactor ELSE Wanted

\* The gate refuses an empty question and one that matches an input rule.
Refuse ==
  /\ stage = "asked"
  /\ stage' = "refused"
  /\ UNCHANGED <<world, remote, search, results, dropped, toolRun, prompt, marked, answer>>

\* The question passes; a follow-up is rewritten and routed, which decides signals.
Accept ==
  /\ stage = "asked"
  /\ stage' = IF Uses("dense") THEN "dense" ELSE "lexical"
  /\ UNCHANGED <<world, remote, search, results, dropped, toolRun, prompt, marked, answer>>

AfterDense == IF Uses("lexical") THEN "lexical" ELSE "rerank"

DenseHits(list) ==
  [i \in DOMAIN list |-> [chunk |-> list[i], score |-> signals[list[i]].dense]]

\* Equal similarities are in no particular order.
MoreSimilar(c, d) == signals[c].dense > signals[d].dense

SearchMemory ==
  /\ stage = "dense" /\ deployment.store = "memory"
  /\ \E ranking \in Arrangements({c \in indexed : Matches(c)}, MoreSimilar) :
       dense' = DenseHits(UpTo(ranking, Pool))
  /\ stage' = AfterDense
  /\ UNCHANGED <<world, remote, offset, lexical, results, dropped, toolRun, prompt, marked,
                 answer>>

\* Qdrant keeps one order of points of equal similarity from page to page.
RanksBefore(c, d) ==
  \/ MoreSimilar(c, d)
  \/ signals[c].dense = signals[d].dense /\ c < d

PageSize == IF FilterActive THEN Max({MinPage, Pool}) ELSE Pool
Page(ranking) == SubSeq(ranking, offset + 1, Min({offset + PageSize, Len(ranking)}))

\* Mutant: the scan ends with its first page.
ReadOnePage ==
  /\ stage = "dense" /\ deployment.store = "qdrant"
  /\ \E ranking \in Arrangements(indexed, RanksBefore) :
     LET page == Page(ranking) IN
       \E found \in Selections(page, {i \in DOMAIN page : Matches(page[i])}) :
         dense' = UpTo(DenseHits(found), Pool)
  /\ stage' = AfterDense
  /\ UNCHANGED <<world, remote, offset, lexical, results, dropped, toolRun, prompt, marked,
                 answer>>

\* One round of the scan: the points of a page, those that match and what they add.
ReadPage ==
  /\ stage = "dense" /\ deployment.store = "qdrant"
  /\ \E ranking \in Arrangements(indexed, RanksBefore) :
     LET page == Page(ranking) IN
       /\ \E found \in Selections(page, {i \in DOMAIN page : Matches(page[i])}) :
            dense' = UpTo(dense \o DenseHits(found), Pool)
       /\ IF Len(dense') = Pool \/ Len(page) < PageSize
            THEN stage' = AfterDense /\ UNCHANGED offset
            ELSE offset' = offset + Len(page) /\ UNCHANGED stage
  /\ UNCHANGED <<world, remote, lexical, results, dropped, toolRun, prompt, marked, answer>>

\* Another process replaces the chunks of a record: an upsert or the deletion that
\* follows it.  Writes after the scan cannot reach this answer.
RemoteWrite ==
  /\ deployment.store = "qdrant" /\ stage = "dense"
  /\ changes < MaxChanges
  /\ \E s \in Sources :
     LET own == {c \in Chunks : SourceOf[c] = s} IN
       \E present \in SUBSET own \ {{}} : indexed' = (indexed \ own) \cup present
  /\ changes' = changes + 1
  /\ UNCHANGED <<world, stage, search, results, dropped, toolRun, prompt, marked, answer>>

BetterLexicalMatch(c, d) ==
  \/ signals[c].lexical > signals[d].lexical
  \/ signals[c].lexical = signals[d].lexical /\ c < d

SearchLexical ==
  /\ stage = "lexical"
  /\ \E ranking \in Arrangements({c \in snapshot : Matches(c) /\ signals[c].lexical > 0},
                                 BetterLexicalMatch) :
     LET top == UpTo(ranking, Pool) IN
       lexical' = [i \in DOMAIN top |-> [chunk |-> top[i], score |-> signals[top[i]].lexical]]
  /\ stage' = "rerank"
  /\ UNCHANGED <<world, remote, dense, offset, results, dropped, toolRun, prompt, marked,
                 answer>>

-----------------------------------------------------------------------------
(* Fusion of two rankings and reranking.                                   *)

Normalized(list, i) ==
  LET scores == {list[k].score : k \in DOMAIN list}
      low == Min(scores)
      high == Max(scores)
  IN IF high = low THEN Scale ELSE ((list[i].score - low) * Scale) \div (high - low)

At(list, c) == {i \in DOMAIN list : list[i].chunk = c}

\* A chunk listed twice contributes twice.
Contribution(list, c, weight) ==
  MapThenSumSet(LAMBDA i : (weight * Normalized(list, i)) \div 10, At(list, c))

\* Mutant: the second contribution replaces the first.
CombinedLast(c) ==
  Contribution(lexical, c, LexicalWeight)
  + IF At(lexical, c) = {} THEN Contribution(dense, c, DenseWeight) ELSE 0

Combined(c) == Contribution(dense, c, DenseWeight) + Contribution(lexical, c, LexicalWeight)

FusesBefore(c, d) ==
  LET both == dense \o lexical IN
    \/ Combined(c) > Combined(d)
    \/ Combined(c) = Combined(d) /\ Min(At(both, c)) < Min(At(both, d))

Fused ==
  LET both == dense \o lexical
      Scored(list) == [i \in DOMAIN list |-> [chunk |-> list[i], score |-> Combined(list[i])]]
  IN {Scored(UpTo(ranking, Wanted)) :
        ranking \in Arrangements({both[i].chunk : i \in DOMAIN both}, FusesBefore)}

\* query_engine.search; a deployment with one retriever leaves the other list empty.
Candidates == IF deployment.retriever = "hybrid" THEN Fused ELSE {dense \o lexical}

\* The final check of the filters, the judge's scores, a stable sort and the limit.
Rerank ==
  /\ stage = "rerank"
  /\ \E candidates \in Candidates :
     LET judged == [i \in DOMAIN candidates |->
                     [candidates[i] EXCEPT !.score = @ + signals[candidates[i].chunk].bonus]]
         JudgedBefore(i, j) == \/ judged[i].score > judged[j].score
                               \/ judged[i].score = judged[j].score /\ i < j
     IN \E order \in Arrangements({i \in DOMAIN judged : Matches(judged[i].chunk)},
                                  JudgedBefore) :
          results' = UpTo([k \in DOMAIN order |-> judged[order[k]]], request.topK)
  /\ stage' = "gate"
  /\ UNCHANGED <<world, remote, search, dropped, toolRun, prompt, marked, answer>>

\* check_context: suspicious chunks go, nothing takes their place.
CheckContext ==
  /\ stage = "gate"
  /\ results' \in Selections(results,
       {i \in DOMAIN results : ~signals[results[i].chunk].suspicious})
  /\ dropped' = Len(results) - Len(results')
  /\ stage' = "tool"
  /\ UNCHANGED <<world, remote, search, toolRun, prompt, marked, answer>>

-----------------------------------------------------------------------------
(* The tool the question selects.                                          *)

\* Mutant: the tools forget the filters of the request.
EntriesOfAnyone == {SourceOf[c] : c \in snapshot}

\* The records with a matching chunk in the snapshot, whatever retrieval returned.
Entries == {SourceOf[c] : c \in {d \in snapshot : Matches(d)}}

\* Mutant: a later chunk of a record takes the place of an earlier one.
Lasts(list) ==
  Selections(list, {i \in DOMAIN list :
    \A j \in i + 1 .. Len(list) : SourceOf[list[j].chunk] # SourceOf[list[i].chunk]})

\* The first result of each record, in order.
Firsts(list) ==
  Selections(list, {i \in DOMAIN list :
    \A j \in 1 .. i - 1 : SourceOf[list[j].chunk] # SourceOf[list[i].chunk]})

ToolDone(run) ==
  /\ stage = "tool" /\ stage' = "generate"
  /\ toolRun' = run
  /\ UNCHANGED <<world, remote, search, results, dropped, prompt, marked, answer>>

NoTool == ToolDone(NoRun)

UnknownTool == ToolDone([status |-> "refused", tool |-> "unknown", documents |-> {}])

\* Records without a rating are not counted here, though filters take them for a 5.
SentimentSummary ==
  ToolDone([status |-> "ok", tool |-> "sentiment_summary",
            documents |-> {s \in Entries : Metadata[s].rating \in 1 .. 5}])

\* Which records fall into a cluster that is reported depends on their texts.
IssueCluster ==
  \E documents \in SUBSET Entries :
    ToolDone([status |-> "ok", tool |-> "issue_cluster", documents |-> documents])

TicketDraft ==
  \E matching \in Selections(results, {i \in DOMAIN results : Matches(results[i].chunk)}) :
  \E firsts \in Firsts(matching) :
    LET evidence == UpTo(firsts, TicketLimit) IN
      ToolDone([status |-> "ok", tool |-> "ticket_draft",
                documents |-> {SourceOf[evidence[i].chunk] : i \in DOMAIN evidence}])

\* ToolError, for a tool registered beside the three of the repository.
ToolFails == ToolDone([status |-> "error", tool |-> "other", documents |-> {}])

-----------------------------------------------------------------------------
(* Prompt, answer text, citations.                                         *)

\* build_citations: a citation per record, numbered by position.
BuildCitations(list) ==
  {[k \in DOMAIN firsts |-> [document |-> SourceOf[firsts[k].chunk],
                             chunk |-> firsts[k].chunk,
                             score |-> firsts[k].score]] : firsts \in Firsts(list)}

\* marker_by_document, for the citations the prompt is built with.
MarkerOf(cited, s) == CHOOSE k \in DOMAIN cited : cited[k].document = s

BuildPrompt ==
  \E cited \in BuildCitations(results) :
    prompt' = [i \in DOMAIN results |->
                [marker |-> MarkerOf(cited, SourceOf[results[i].chunk]),
                 chunk |-> results[i].chunk]]

\* DeterministicLLM names at most three citations; without evidence it names none.
GenerateLocally ==
  /\ stage = "generate" /\ stage' = "cite"
  /\ BuildPrompt
  /\ \E cited \in BuildCitations(results) :
       LET named == UpTo(cited, 3) IN
         marked' = {<<k, named[k].document>> : k \in DOMAIN named}
  /\ UNCHANGED <<world, remote, search, results, dropped, toolRun, answer>>

\* The text of a remote model is free.
GenerateRemotely ==
  /\ stage = "generate" /\ stage' = "cite"
  /\ BuildPrompt
  /\ marked' = {}
  /\ UNCHANGED <<world, remote, search, results, dropped, toolRun, answer>>

\* LLMProviderError ends the call; LlmResilience has what comes before it.
GenerateFails ==
  /\ stage = "generate" /\ stage' = "failed"
  /\ BuildPrompt
  /\ UNCHANGED <<world, remote, search, results, dropped, toolRun, marked, answer>>

\* A judge asks the provider again, and its call may end the same way; the local
\* provider never fails.
JudgeFails ==
  /\ stage = "cite" /\ stage' = "failed"
  /\ marked = {}
  /\ UNCHANGED <<world, remote, search, results, dropped, toolRun, prompt, marked, answer>>

Confidence(list, cited) ==
  IF list = <<>> \/ cited = <<>> THEN 0
  ELSE LET top == Max({list[i].score : i \in DOMAIN list}) IN
    Min({12 * Scale, 9 * Max({top, 0}) + Scale * Min({Len(cited), 3})})

Overlaps == {"passed", "passed in part", "failed"}
Verdicts == {"none", "supported", "uncertain", "unsupported"}

Risk(overlap, verdict) ==
  IF verdict = "unsupported" \/ overlap = "failed" THEN "high"
  ELSE IF verdict = "uncertain" \/ overlap = "passed in part" THEN "medium"
  ELSE "low"

\* Without evidence no sentence overlaps with it; a judge is optional.
Finish ==
  /\ stage = "cite" /\ stage' = "answered"
  /\ citations' \in BuildCitations(results)
  /\ confidence' = Confidence(results, citations')
  /\ risk' \in {Risk(overlap, verdict) :
                 overlap \in IF results = <<>> THEN {"failed"} ELSE Overlaps,
                 verdict \in Verdicts}
  /\ UNCHANGED <<world, remote, search, results, dropped, toolRun, prompt, marked>>

Next ==
  \/ Refuse \/ Accept
  \/ SearchMemory \/ ReadPage \/ SearchLexical \/ Rerank \/ CheckContext
  \/ NoTool \/ UnknownTool \/ SentimentSummary \/ IssueCluster \/ TicketDraft \/ ToolFails
  \/ GenerateLocally \/ GenerateRemotely \/ GenerateFails
  \/ JudgeFails \/ Finish
  \/ RemoteWrite

Spec == Init /\ [][Next]_vars

-----------------------------------------------------------------------------
Hits == [chunk : Chunks, score : Int]

\* Every variable keeps the shape its declaration names; a confidence is at most 1.
TypeOK ==
  /\ deployment \in Deployments
  /\ request \in [filters : Filters, topK : TopKs]
  /\ signals \in [Chunks -> Profiles]
  /\ snapshot \subseteq Chunks /\ indexed \subseteq Chunks
  /\ changes \in 0 .. MaxChanges
  /\ stage \in {"asked", "refused", "dense", "lexical", "rerank", "gate", "tool",
                "generate", "cite", "answered", "failed"}
  /\ {dense, lexical, results} \subseteq Seq(Hits)
  /\ offset \in Nat /\ dropped \in Nat
  /\ toolRun \in [status : {"not_selected", "ok", "refused", "error"},
                  tool : {"none", "unknown", "sentiment_summary", "issue_cluster",
                          "ticket_draft", "other"},
                  documents : SUBSET Sources]
  /\ prompt \in Seq([marker : Nat, chunk : Chunks])
  /\ marked \subseteq Nat \X Sources
  /\ citations \in Seq([document : Sources, chunk : Chunks, score : Int])
  /\ confidence \in 0 .. 12 * Scale
  /\ risk \in {"unknown", "low", "medium", "high"}

Ranked == stage \notin {"asked", "refused", "dense", "lexical", "rerank"}

\* What an unlimited search would return.
Retrievable ==
  {c \in snapshot : Matches(c) /\ (Uses("dense") \/ signals[c].lexical > 0)}

\* Filters come before every limit: candidates, pools, pages and top_k.  Unless another
\* process wrote during the scan, matching chunks fill the answer up to top_k, whatever
\* better chunks the filters exclude, and none is returned twice ("cannot displace
\* matching evidence", README.md).
FiltersComeBeforeLimits ==
  Ranked /\ changes = 0 =>
    /\ Len(results) + dropped = Min({request.topK, Cardinality(Retrievable)})
    /\ \A i, j \in DOMAIN results : i # j => results[i].chunk # results[j].chunk

\* c is ahead of d in every signal the deployment reads, strictly in those of retrieval.
Outranks(c, d) ==
  /\ Uses("dense") => signals[c].dense > signals[d].dense
  /\ Uses("lexical") => \/ signals[c].lexical > signals[d].lexical
                        \/ Uses("dense") /\ signals[c].lexical = 0 /\ signals[d].lexical = 0
  /\ signals[c].bonus >= signals[d].bonus

\* Limits on pools, normalisation, fusion and reranking never invert an agreement of all
\* signals: a retrieved chunk has every matching chunk that outranks it before it.
BetterChunksComeFirst ==
  stage = "gate" /\ changes = 0 =>
    \A c \in Retrievable : \A i \in DOMAIN results :
      Outranks(c, results[i].chunk) => \E j \in 1 .. i - 1 : results[j].chunk = c

AfterGate == stage \in {"tool", "generate", "cite", "answered", "failed"}

Permitted(c) == Matches(c) /\ ~signals[c].suspicious

\* Whatever page, pool or tool it came through, nothing outside the filters of the
\* request reaches the results, the prompt, a tool's documents or a citation, and no
\* chunk the context gate objects to reaches the prompt or a citation.
EvidenceIsPermitted ==
  /\ AfterGate => \A i \in DOMAIN results : Permitted(results[i].chunk)
  /\ \A i \in DOMAIN prompt : Permitted(prompt[i].chunk)
  /\ \A i \in DOMAIN citations : Permitted(citations[i].chunk)
  /\ \A s \in toolRun.documents : SourceMatches(s, request.filters)

\* Prompt, answer text and citation list are numbered by three computations and agree:
\* a marker names the citation of the document it stands beside, a record is cited once,
\* by its best chunk, better records first, and an answer without evidence cites
\* nothing, has no confidence and a high risk.
AnswerMatchesEvidence ==
  stage = "answered" =>
    /\ \A i, j \in DOMAIN citations :
         i < j => /\ citations[i].document # citations[j].document
                  /\ citations[i].score >= citations[j].score
    /\ \A k \in DOMAIN citations : \A i \in DOMAIN results :
         SourceOf[results[i].chunk] = citations[k].document =>
           results[i].score <= citations[k].score
    /\ \A i \in DOMAIN prompt :
         /\ prompt[i].marker \in DOMAIN citations
         /\ citations[prompt[i].marker].document = SourceOf[prompt[i].chunk]
    /\ \A m \in marked : m[1] \in DOMAIN citations /\ citations[m[1]].document = m[2]
    /\ results = <<>> => citations = <<>> /\ confidence = 0 /\ risk = "high"
    /\ toolRun.tool = "ticket_draft" =>
         toolRun.documents \subseteq {citations[k].document : k \in DOMAIN citations}

=============================================================================
