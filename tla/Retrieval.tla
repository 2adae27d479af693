----------------------------- MODULE Retrieval -----------------------------
(***************************************************************************)
(* RAGPipeline from the start of the process to the answer of a question.  *)
(*                                                                         *)
(* lifespan loads the wiki, restores the embedding cache or computes it    *)
(* anew and saves it in two files, warms the cross-encoder, and only then  *)
(* serves.  The process may be killed between any two steps, systemd       *)
(* starts it again, and between two lives the wiki or the configuration    *)
(* may change, also back to what it was.  retrieve runs on the event loop  *)
(* without an await: it is one action.                                     *)
(*                                                                         *)
(* A question is what the embedder and BM25 make of it: a cosine and a     *)
(* lexical score for each chunk.  A stamp is all that _save_embeddings_    *)
(* cache writes into embeddings.json (what was installed, and the pages    *)
(* that were read, which is what its hash tells); npz holds the stamp of   *)
(* the run that computed its vectors, which the file itself does not name. *)
(***************************************************************************)
EXTENDS Chunking, Sequences

CONSTANTS
  Settings,     \* what may be installed: a wiki with its configuration
  Wiki,         \* documents, size and overlap of each of them
  Questions(_), \* the pairs of score functions asked of an index
  Threshold,    \* RAG_SIMILARITY_THRESHOLD, on the scale of the cosines
  Widths,       \* top_k of the callers
  MIN_RESCUE_TOP_K, MAX_RERANK_TOP_K,
  Enabled,      \* RERANK_ENABLED
  None, Torn,   \* no file or value; a file that was truncated and not completed
  MaxFaults,    \* bound: kills and failures
  MaxDeploys    \* bound: changes of the setting

VARIABLES
  setting,  \* what is installed
  phase,    \* where lifespan stands; "down" between two lives
  loaded,   \* the setting as this life read it: a page may be unreadable
  embedder, \* initialize: None, "sentence-transformer" or "tfidf"
  chunks,   \* self.chunks, by the stamp they were made under, or None
  npz, meta, \* embeddings.npz and embeddings.json
  reranker, \* Reranker._mode
  answer,   \* the last question and what it was given, or None
  past,     \* history: what was loaded by a life before one that loaded otherwise
  faults, deploys

memory == <<embedder, chunks, reranker>>
cache == <<npz, meta>>
bounds == <<past, faults, deploys>>
vars == <<setting, phase, loaded, memory, cache, answer, bounds>>

Phases == {"down", "starting", "validating", "computing", "saving", "filling",
           "describing", "stamping", "warming", "serving"}

\* What may be read: a setting, but for the pages that could not be.
Stamps == UNION {{[of |-> s, lost |-> {}]} \union
                 {[of |-> s, lost |-> {n}] : n \in DOMAIN Wiki[s].documents} : s \in Settings}

ASSUME RetrievalAssumption == None # Torn /\ None \notin Stamps /\ Torn \notin Stamps

\* Without a word in a chunk the loop of ingest_documents would index nothing.
ASSUME WikiAssumption ==
  \A s \in Settings :
    /\ Wiki[s].documents \in Seq([confidence : Confidence, sections : Seq(Section)])
    /\ Wiki[s].size \in Nat \ {0} /\ Wiki[s].overlap \in Nat

ASSUME WidthAssumption ==
  Widths \subseteq Nat \ {0} /\ MIN_RESCUE_TOP_K \in Nat /\ MAX_RERANK_TOP_K \in Nat

Read(stamp) == DOMAIN Wiki[stamp.of].documents \ stamp.lost

Orders(S) == {f \in [1 .. Cardinality(S) -> S] : \A c \in S : \E i \in DOMAIN f : f[i] = c}

\* The order of ingest_documents: page by page, section by section, word by word.
Before(c, d) ==
  \/ c.source < d.source
  \/ c.source = d.source /\ c.section < d.section
  \/ /\ c.source = d.source /\ c.section = d.section
     /\ \E w \in c.text : \A v \in d.text : w < v

\* The chunks of each stamp, in that order.
Index ==
  [s \in Stamps |->
     LET w == Wiki[s.of]
         all == UNION {_chunk_document(n, w.documents[n], w.size, w.overlap) : n \in Read(s)}
     IN  CHOOSE f \in Orders(all) : \A i, j \in DOMAIN f : i < j => Before(f[i], f[j])]

IndexOf(c) == IF c = None THEN <<>> ELSE Index[c]

\* Both rankings score every chunk; cosines and the filter are on one scale.
ASSUME QuestionAssumption ==
  /\ Threshold \in Int
  /\ \A c \in Stamps \union {None} : \A q \in Questions(IndexOf(c)) :
       /\ q.cosine \in [DOMAIN IndexOf(c) -> Int]
       /\ q.lexical \in [DOMAIN IndexOf(c) -> Int]

\* The page of the chunk at position c.
Source(c) == IndexOf(chunks)[c].source

\* A process that ends leaves only its files.
Forgotten ==
  embedder' = None /\ chunks' = None /\ reranker' = "uninitialized" /\ answer' = None

Fault == faults < MaxFaults /\ faults' = faults + 1
NoFault == UNCHANGED faults

-----------------------------------------------------------------------------
(* Start-up *)

\* The service is stopped, and perhaps the wiki or the environment changed.
Deploy ==
  /\ phase \in {"down", "serving"} /\ phase' = "down"
  /\ deploys < MaxDeploys /\ deploys' = deploys + 1
  /\ setting' \in Settings
  /\ Forgotten
  /\ UNCHANGED <<loaded, cache, past, faults>>

\* The first step of lifespan.  Without documents nothing is ingested.
load ==
  /\ phase = "down"
  /\ loaded' \in {s \in Stamps : s.of = setting}
  /\ IF loaded'.lost = {} THEN NoFault ELSE Fault
  /\ past' = IF loaded \in {None, loaded'} THEN past ELSE past \union {loaded}
  /\ phase' = IF Read(loaded') = {} THEN "serving" ELSE "starting"
  /\ reranker' = IF Enabled THEN "uninitialized" ELSE "disabled"
  /\ UNCHANGED <<setting, embedder, chunks, cache, answer, deploys>>

\* The model is loaded, or the TF-IDF fallback takes its place for good.
initialize ==
  /\ phase = "starting" /\ phase' = "validating"
  /\ \/ embedder' = "sentence-transformer" /\ NoFault
     \/ embedder' = "tfidf" /\ Fault
  /\ UNCHANGED <<setting, loaded, chunks, reranker, cache, answer, past, deploys>>

_cache_is_readable == embedder # "tfidf"

\* What embeddings.json claims is what this life would compute.
Matches(stamp) == stamp = loaded

Complete(file) == file \notin {None, Torn}

\* Mutant: the vectors are taken without a look into the file.
_load_embeddings_cache_blind ==
  /\ phase = "validating"
  /\ IF _cache_is_readable /\ npz # None /\ Complete(meta) /\ Matches(meta)
     THEN chunks' = npz /\ phase' = "warming"
     ELSE UNCHANGED chunks /\ phase' = "computing"
  /\ UNCHANGED <<setting, loaded, embedder, reranker, cache, answer, bounds>>

\* Mutant: a file that cannot be parsed ends the start-up with an exception.
_load_embeddings_cache_raises ==
  /\ phase = "validating"
  /\ IF Torn \in {npz, meta} THEN phase' = "down" /\ Forgotten
     ELSE phase' = "computing" /\ UNCHANGED <<memory, answer>>
  /\ UNCHANGED <<setting, loaded, cache, bounds>>

\* Mutant: an index that was restored is served before the cross-encoder is warm.
_load_embeddings_cache_cold ==
  /\ phase = "validating"
  /\ IF _cache_is_readable /\ Complete(meta) /\ Complete(npz) /\ Matches(meta)
     THEN chunks' = npz /\ phase' = "serving"
     ELSE UNCHANGED chunks /\ phase' = "computing"
  /\ UNCHANGED <<setting, loaded, embedder, reranker, cache, answer, bounds>>

\* A missing, torn or foreign cache is recomputed.  Of what is in the npz only
\* the length is compared.
_load_embeddings_cache ==
  /\ phase = "validating"
  /\ IF /\ _cache_is_readable /\ Complete(meta) /\ Complete(npz)
        /\ Matches(meta)
        /\ Len(Index[npz]) = Len(Index[meta])
     THEN chunks' = npz /\ phase' = "warming"
     ELSE UNCHANGED chunks /\ phase' = "computing"
  /\ UNCHANGED <<setting, loaded, embedder, reranker, cache, answer, bounds>>

\* Chunking and embedding; the fallback writes no cache.
_compute_embeddings ==
  /\ phase = "computing"
  /\ chunks' = loaded
  /\ phase' = IF _cache_is_readable THEN "saving" ELSE "warming"
  /\ UNCHANGED <<setting, loaded, embedder, reranker, cache, answer, bounds>>

Write(from, to, vectors, stamp) ==
  /\ phase = from /\ phase' = to
  /\ npz' = vectors /\ meta' = stamp
  /\ NoFault

\* A step of the save raises: it is logged, and the ingest goes on.
SaveFails ==
  /\ phase \in {"saving", "filling", "describing", "stamping"}
  /\ phase' = "warming"
  /\ Fault
  /\ UNCHANGED cache

\* Mutant: embeddings.json is written before the vectors it describes.
_save_embeddings_cache_stamp_first ==
  /\ \/ Write("saving", "filling", npz, Torn)
     \/ Write("filling", "describing", npz, loaded)
     \/ Write("describing", "stamping", Torn, meta)
     \/ Write("stamping", "warming", loaded, meta)
     \/ SaveFails
  /\ UNCHANGED <<setting, loaded, memory, answer, past, deploys>>

\* Each of the two files is truncated in place and then completed.
_save_embeddings_cache ==
  /\ \/ Write("saving", "filling", Torn, meta)
     \/ Write("filling", "describing", loaded, meta)
     \/ Write("describing", "stamping", npz, Torn)
     \/ Write("stamping", "warming", npz, loaded)
     \/ SaveFails
  /\ UNCHANGED <<setting, loaded, memory, answer, past, deploys>>

\* ensure_loaded: one attempt in a life, and a failure is not raised.
ensure_loaded ==
  IF reranker # "uninitialized" THEN UNCHANGED reranker /\ NoFault
  ELSE \/ reranker' = "loaded" /\ NoFault
       \/ reranker' = "failed" /\ Fault

_warm_reranker ==
  /\ phase = "warming" /\ phase' = "serving"
  /\ ensure_loaded
  /\ UNCHANGED <<setting, loaded, embedder, chunks, cache, answer, past, deploys>>

-----------------------------------------------------------------------------
(* A question *)

\* By score; equal scores stay in the order of ingest_documents.
Ahead(score, c, d) == score[c] > score[d] \/ (score[c] = score[d] /\ c < d)

Firsts(S, score) ==
  {c \in S : \A d \in S \ {c} : Source(d) = Source(c) => Ahead(score, c, d)}

\* Mutant: the k best chunks, whatever pages they are of.
_one_chunk_per_page_any(S, score, k) ==
  {c \in S : Cardinality({d \in S : Ahead(score, d, c)}) < k}

\* The best chunk of each of the k best pages of S.
_one_chunk_per_page(S, score, k) ==
  LET firsts == Firsts(S, score)
  IN  {c \in firsts : Cardinality({d \in firsts : Ahead(score, d, c)}) < k}

\* The filter and the cut of retrieve.
Dense(q, k) ==
  _one_chunk_per_page({c \in DOMAIN IndexOf(chunks) : q.cosine[c] >= Threshold}, q.cosine, k)

\* What BM25 proposes for the last slot: a chunk of a page not in the list, and
\* nothing when no term of the question occurs.
Proposed(q, dense) ==
  LET pool == {c \in DOMAIN IndexOf(chunks) : \A d \in dense : Source(d) # Source(c)}
  IN  IF \A c \in pool : q.lexical[c] <= 0 THEN {}
      ELSE _one_chunk_per_page(pool, q.lexical, 1)

\* Mutant: the rescued chunk takes the first slot instead of the last.
_lexical_rescue_first(q, k) ==
  LET dense == Dense(q, k)
      rescued == IF Cardinality(dense) < k \/ k < MIN_RESCUE_TOP_K THEN {}
                 ELSE Proposed(q, dense)
  IN  [kept |-> IF rescued = {} THEN dense ELSE dense \ Dense(q, 1), rescued |-> rescued]

\* Mutant: a list that is not full is completed from the lexical ranking.
_lexical_rescue_fills(q, k) ==
  [kept |-> Dense(q, k - 1), rescued |-> Proposed(q, Dense(q, k - 1))]

\* A full list of at least MIN_RESCUE_TOP_K trades its last slot.
_lexical_rescue(q, k) ==
  LET dense == Dense(q, k)
      rescued == IF Cardinality(dense) < k \/ k < MIN_RESCUE_TOP_K THEN {}
                 ELSE Proposed(q, dense)
  IN  [kept |-> IF rescued = {} THEN dense ELSE Dense(q, k - 1), rescued |-> rescued]

\* The list before the cross-encoder: by cosine, the rescued chunk last.
Listed(q, chosen) ==
  CHOOSE f \in Orders(chosen.kept \union chosen.rescued) :
    \A i, j \in DOMAIN f : i < j =>
      \/ f[j] \in chosen.rescued
      \/ f[i] \in chosen.kept /\ f[j] \in chosen.kept /\ Ahead(q.cosine, f[i], f[j])

\* Mutant: the model that raised is not marked as failed.
rerank_forgives(list, served, reranked) ==
  \/ /\ reranker = "failed"
     /\ served = list /\ ~reranked /\ UNCHANGED reranker /\ NoFault
  \/ /\ reranker # "failed" /\ reranked
     /\ served \in Orders({list[i] : i \in DOMAIN list})
     /\ reranker' = "loaded" /\ NoFault
  \/ /\ reranker # "failed"
     /\ served = list /\ ~reranked /\ UNCHANGED reranker /\ Fault

\* The order the cross-encoder gives; or nothing, when it has failed before or
\* fails now, to be loaded or to predict, which it then does for good.
rerank(list, served, reranked) ==
  \/ /\ reranker = "failed"
     /\ served = list /\ ~reranked /\ UNCHANGED reranker /\ NoFault
  \/ /\ reranker # "failed" /\ reranked
     /\ served \in Orders({list[i] : i \in DOMAIN list})
     /\ reranker' = "loaded" /\ NoFault
  \/ /\ reranker # "failed"
     /\ served = list /\ ~reranked /\ reranker' = "failed" /\ Fault

\* Short lists, wide ones and disabled deployments skip the model.
_rerank(list, k, served, reranked) ==
  IF Enabled /\ k <= MAX_RERANK_TOP_K /\ Len(list) >= 2
  THEN rerank(list, served, reranked)
  ELSE served = list /\ ~reranked /\ UNCHANGED reranker /\ NoFault

retrieve(k) ==
  /\ phase = "serving" /\ answer = None
  /\ \E q \in Questions(IndexOf(chunks)) :
       LET list == Listed(q, _lexical_rescue(q, k)) IN
       \E served \in {list} \union Orders({list[i] : i \in DOMAIN list}), reranked \in BOOLEAN :
         /\ _rerank(list, k, served, reranked)
         /\ answer' = [q |-> q, k |-> k, served |-> served, reranked |-> reranked]
  /\ UNCHANGED <<setting, phase, loaded, embedder, chunks, cache, past, deploys>>

\* The context is in the prompt and the panel; the next question may come.
retrieve_with_context ==
  /\ answer # None /\ answer' = None
  /\ UNCHANGED <<setting, phase, loaded, memory, cache, bounds>>

\* The process dies, wherever it stands.
Kill ==
  /\ phase # "down" /\ phase' = "down"
  /\ Fault
  /\ Forgotten
  /\ UNCHANGED <<setting, loaded, cache, past, deploys>>

\* What health_check reports of the pipeline.
health_check ==
  (IF IndexOf(chunks) = <<>> THEN {"rag_chunks"} ELSE {})
  \union (IF embedder # "sentence-transformer" THEN {"rag_mode"} ELSE {})
  \union (IF reranker \notin {"loaded", "disabled"} THEN {"rerank_mode"} ELSE {})

-----------------------------------------------------------------------------
Init ==
  /\ setting \in Settings
  /\ phase = "down" /\ loaded = None
  /\ embedder = None /\ chunks = None /\ reranker = "uninitialized"
  /\ npz = None /\ meta = None
  /\ answer = None /\ past = {} /\ faults = 0 /\ deploys = 0

StartUp ==
  \/ load \/ initialize
  \/ _load_embeddings_cache \/ _compute_embeddings \/ _save_embeddings_cache
  \/ _warm_reranker

Next ==
  \/ Deploy \/ StartUp \/ Kill \/ retrieve_with_context
  \/ \E k \in Widths : retrieve(k)

\* systemd restarts the process (Restart=always), and lifespan waits for
\* nothing but its own steps.
Spec == Init /\ [][Next]_vars /\ WF_vars(StartUp)

-----------------------------------------------------------------------------
(* Properties *)

\* Types; in particular what is in memory was never read from a torn file.
TypeOK ==
  /\ setting \in Settings
  /\ phase \in Phases
  /\ loaded \in Stamps \union {None}
  /\ embedder \in {None, "sentence-transformer", "tfidf"}
  /\ chunks \in Stamps \union {None}
  /\ npz \in Stamps \union {None, Torn} /\ meta \in Stamps \union {None, Torn}
  /\ reranker \in {"uninitialized", "loaded", "failed", "disabled"}
  /\ past \subseteq Stamps
  /\ faults \in Nat /\ deploys \in Nat

\* A life that serves, serves the index of the documents it read, whatever was
\* killed while it wrote the cache; unless the service came back to documents
\* it had already left once (the npz does not name the stamp it belongs to).
FreshUnlessRolledBack ==
  phase = "serving" /\ chunks # None /\ loaded \notin past => chunks = loaded

\* Nobody waits for a model in the middle of a turn: no question ever finds the
\* cross-encoder not tried yet, on either way an index arrives.
NobodyWaitsForAModel ==
  [][phase = "serving" /\ reranker = "uninitialized" => reranker' = "uninitialized"]_vars

\* An answer holds at most k chunks, each of another page, in any order.
SlotsAreDistinctPages ==
  answer # None =>
    /\ Len(answer.served) <= answer.k
    /\ \A i, j \in DOMAIN answer.served :
         i # j => Source(answer.served[i]) # Source(answer.served[j])

\* The pages that fewer than n other pages reach in cosine, above the filter.
Strong(q, n) ==
  LET all == DOMAIN IndexOf(chunks)
      rivals(c) == {d \in all : Source(d) # Source(c) /\ q.cosine[d] >= q.cosine[c]}
  IN  {Source(c) : c \in {c \in all :
         q.cosine[c] >= Threshold /\ Cardinality({Source(d) : d \in rivals(c)}) < n}}

\* Neither the lexical rescue nor the cross-encoder costs a question one of its
\* k - 1 best pages.
StrongPagesSurvive ==
  answer # None =>
    Strong(answer.q, answer.k - 1)
      \subseteq {Source(answer.served[i]) : i \in DOMAIN answer.served}

\* A chunk the filter rejected is served alone, in a full list wide enough to
\* be rescued, and only on the word of a term of the question.
RescueIsAnException ==
  answer # None =>
    \A i \in DOMAIN answer.served :
      answer.q.cosine[answer.served[i]] < Threshold =>
        /\ answer.k >= MIN_RESCUE_TOP_K
        /\ answer.q.lexical[answer.served[i]] > 0
        /\ Cardinality(Strong(answer.q, Len(IndexOf(chunks)))) >= answer.k
        /\ \A j \in DOMAIN answer.served \ {i} :
             answer.q.cosine[answer.served[j]] >= Threshold

\* Health tells what the list itself cannot show: an answer that should have
\* been reordered and was not leaves the service reported as degraded.
DegradedIsReported ==
  /\ answer # None /\ Enabled
  /\ Len(answer.served) >= 2 /\ answer.k <= MAX_RERANK_TOP_K /\ ~answer.reranked
  => "rerank_mode" \in health_check

\* However often it is killed on the way, and whatever it finds in the cache,
\* the service comes up.
StartUpGetsThrough == phase = "down" ~> phase = "serving"
=============================================================================
