-------------------------- MODULE Retrieval_proofs --------------------------
(***************************************************************************)
(* What holds of Retrieval for every wiki, every question and any number   *)
(* of kills and deployments: the index that is served, the pages a list is *)
(* made of, and every answer.                                              *)
(*                                                                         *)
(* The index and the list are sorted sets, chosen by CHOOSE.  That they    *)
(* exist needs no induction (Sorting): the place of an element is the      *)
(* number of those before it, which tells the elements apart and therefore *)
(* reaches every place.                                                    *)
(***************************************************************************)
EXTENDS Retrieval, FiniteSetTheorems, FunctionTheorems

\* A life that has not reached an index has none in memory.
NothingYet == phase \in {"down", "starting", "validating", "computing"} => chunks = None

\* An index that is not of what was read came from a cache left behind earlier.
Provenance == chunks # None => chunks = loaded \/ loaded \in past

\* What embeddings.json describes is what this life or an earlier one read.
Stamped == meta \in Stamps => meta = loaded \/ meta \in past

\* Files that disagree were written by different lives, and the older is meta.
Disagreement == npz \in Stamps /\ meta \in Stamps /\ npz # meta => meta \in past

\* The stamp follows the vectors.
Ordered == phase \in {"describing", "stamping"} => npz = loaded

Computed == phase \in {"saving", "filling", "describing", "stamping"} => chunks = loaded

Begun == phase # "down" => loaded \in Stamps

IInv ==
  TypeOK /\ NothingYet /\ Provenance /\ Stamped /\ Disagreement /\ Ordered /\ Computed /\ Begun

LEMMA InitIInv == Init => IInv
<1> SUFFICES ASSUME Init PROVE IInv
  OBVIOUS
<1> QED
  BY RetrievalAssumption
  DEF Init, IInv, TypeOK, NothingYet, Provenance, Stamped, Disagreement, Ordered, Computed,
      Begun, Phases

LEMMA FaultType == ASSUME faults \in Nat, Fault \/ NoFault PROVE faults' \in Nat
  BY DEF Fault, NoFault

LEMMA NextIInv == IInv /\ [Next]_vars => IInv'
<1> SUFFICES ASSUME IInv, [Next]_vars PROVE IInv'
  OBVIOUS
<1> USE RetrievalAssumption
<1> USE DEF IInv, TypeOK, NothingYet, Provenance, Stamped, Disagreement, Ordered, Computed, Begun
<1>1. CASE Deploy
  BY <1>1 DEF Deploy, Forgotten, cache, Phases
<1>2. CASE load
  <2>1. faults' \in Nat /\ loaded' \in Stamps /\ past' \subseteq Stamps
    BY <1>2 DEF load, Fault, NoFault
  <2>2. phase' \in {"serving", "starting"} /\ chunks' = None
    BY <1>2 DEF load
  <2>3. reranker' \in {"uninitialized", "disabled"}
    BY <1>2 DEF load
  <2>4. loaded' = loaded \/ loaded = None \/ loaded \in past'
    BY <1>2 DEF load
  <2>5. past \subseteq past' /\ UNCHANGED <<setting, embedder, npz, meta, deploys>>
    BY <1>2 DEF load, cache
  <2>6. Stamped' /\ Disagreement'
    BY <2>4, <2>5
  <2> QED BY <2>1, <2>2, <2>3, <2>5, <2>6 DEF Phases
<1>3. CASE initialize
  BY <1>3 DEF initialize, Fault, NoFault, cache, Phases
<1>4. CASE _load_embeddings_cache
  <2>1. chunks' = None \/ (chunks' = npz /\ npz \in Stamps /\ meta \in Stamps /\ meta = loaded)
    BY <1>4 DEF _load_embeddings_cache, Complete, Matches
  <2>2. UNCHANGED <<setting, loaded, embedder, reranker, npz, meta, past, faults, deploys>>
    BY <1>4 DEF _load_embeddings_cache, cache, bounds
  <2>3. phase' = "warming" \/ (phase' = "computing" /\ chunks' = None)
    BY <1>4 DEF _load_embeddings_cache
  <2>4. phase = "validating"
    BY <1>4 DEF _load_embeddings_cache
  <2> QED BY <2>1, <2>2, <2>3, <2>4 DEF Phases
<1>5. CASE _compute_embeddings
  BY <1>5 DEF _compute_embeddings, cache, bounds, Phases
<1>6. CASE _save_embeddings_cache
  <2>1. UNCHANGED <<setting, loaded, embedder, chunks, reranker, past, deploys>>
    BY <1>6 DEF _save_embeddings_cache, memory
  <2>2. CASE SaveFails
    BY <2>1, <2>2 DEF SaveFails, Fault, cache, Phases
  <2>3. CASE Write("saving", "filling", Torn, meta)
    BY <2>1, <2>3 DEF Write, NoFault, Phases
  <2>4. CASE Write("filling", "describing", loaded, meta)
    BY <2>1, <2>4 DEF Write, NoFault, Phases
  <2>5. CASE Write("describing", "stamping", npz, Torn)
    BY <2>1, <2>5 DEF Write, NoFault, Phases
  <2>6. CASE Write("stamping", "warming", npz, loaded)
    BY <2>1, <2>6 DEF Write, NoFault, Phases
  <2> QED BY <1>6, <2>2, <2>3, <2>4, <2>5, <2>6 DEF _save_embeddings_cache
<1>7. CASE _warm_reranker
  <2>1. faults' \in Nat /\ reranker' \in {"uninitialized", "loaded", "failed", "disabled"}
    BY <1>7 DEF _warm_reranker, ensure_loaded, Fault, NoFault
  <2> QED BY <1>7, <2>1 DEF _warm_reranker, cache, Phases
<1>8. CASE Kill
  BY <1>8 DEF Kill, Fault, Forgotten, cache, Phases
<1>9. CASE retrieve_with_context
  BY <1>9 DEF retrieve_with_context, memory, cache, bounds
<1>10. ASSUME NEW k \in Widths, retrieve(k) PROVE IInv'
  <2>1. PICK list, served, reranked : _rerank(list, k, served, reranked)
    BY <1>10 DEF retrieve
  <2>2. faults' \in Nat /\ reranker' \in {"uninitialized", "loaded", "failed", "disabled"}
    BY <2>1 DEF _rerank, rerank, Fault, NoFault
  <2> QED BY <1>10, <2>2 DEF retrieve, cache
<1>11. CASE UNCHANGED vars
  BY <1>11 DEF vars, memory, cache, bounds
<1> QED
  BY <1>1, <1>2, <1>3, <1>4, <1>5, <1>6, <1>7, <1>8, <1>9, <1>10, <1>11 DEF Next, StartUp

LEMMA Inductive == Spec => []IInv
  BY InitIInv, NextIInv, PTL DEF Spec

\* Types, and with them that no torn file ever reaches memory.
THEOREM TypeCorrect == Spec => []TypeOK
<1>1. IInv => TypeOK
  BY DEF IInv
<1> QED BY <1>1, Inductive, PTL

\* For any wiki and any number of kills, an index that is not of the documents
\* that were read is only served after a return to documents already left.
THEOREM IndexIsFresh == Spec => []FreshUnlessRolledBack
<1>1. IInv => FreshUnlessRolledBack
  BY DEF IInv, Provenance, FreshUnlessRolledBack
<1> QED BY <1>1, Inductive, PTL

-----------------------------------------------------------------------------
(* The list, for any index and any question *)

Positions == DOMAIN IndexOf(chunks)

Question(q) == q.cosine \in [Positions -> Int] /\ q.lexical \in [Positions -> Int]

\* Whatever is ranked, no two chunks of the cut share a page.
LEMMA CutIsDistinct ==
  ASSUME NEW S \in SUBSET Int, NEW score, \A c \in S : score[c] \in Int, NEW k,
         NEW c \in _one_chunk_per_page(S, score, k), NEW d \in _one_chunk_per_page(S, score, k),
         Source(c) = Source(d)
  PROVE  c = d
<1>1. c \in S /\ d \in S /\ c \in Firsts(S, score) /\ d \in Firsts(S, score)
  BY DEF _one_chunk_per_page, Firsts
<1>2. SUFFICES ASSUME c # d PROVE FALSE
  OBVIOUS
<1>3. Ahead(score, c, d) /\ Ahead(score, d, c)
  BY <1>1, <1>2 DEF Firsts
<1>4. score[c] \in Int /\ score[d] \in Int /\ c \in Int /\ d \in Int
  BY <1>1
<1> QED BY <1>2, <1>3, <1>4 DEF Ahead

\* A smaller cut is part of a larger one.
LEMMA CutGrows ==
  ASSUME NEW S, IsFiniteSet(S), NEW score, NEW k \in Int, NEW l \in Int, k <= l
  PROVE  _one_chunk_per_page(S, score, k) \subseteq _one_chunk_per_page(S, score, l)
<1> SUFFICES ASSUME NEW c \in _one_chunk_per_page(S, score, k)
             PROVE  c \in _one_chunk_per_page(S, score, l)
  OBVIOUS
<1> DEFINE better == {d \in Firsts(S, score) : Ahead(score, d, c)}
<1>1. c \in Firsts(S, score) /\ Cardinality(better) < k
  BY DEF _one_chunk_per_page
<1>2. better \subseteq S
  BY DEF Firsts
<1>3. Cardinality(better) \in Nat
  BY <1>2, FS_Subset, FS_CardinalityType
<1>4. Cardinality(better) < l
  <2> HIDE DEF better
  <2> QED BY <1>1, <1>3
<1> QED BY <1>1, <1>4 DEF _one_chunk_per_page

\* The first k - 1 pages of the cosine ranking are in the list whatever the
\* lexical ranking proposes: _lexical_rescue gives up the last slot only.
THEOREM RescueKeepsTheRest ==
  ASSUME NEW q, NEW k \in Int, IsFiniteSet(Positions)
  PROVE  Dense(q, k - 1) \subseteq _lexical_rescue(q, k).kept
<1>1. IsFiniteSet({c \in Positions : q.cosine[c] >= Threshold})
  BY FS_Subset
<1>2. Dense(q, k - 1) \subseteq Dense(q, k)
  BY <1>1, CutGrows, k - 1 <= k DEF Dense, Positions
<1>3. _lexical_rescue(q, k).kept \in {Dense(q, k), Dense(q, k - 1)}
  BY DEF _lexical_rescue
<1> QED BY <1>2, <1>3

\* No two chunks of the list are of one page, the rescued one included: the
\* cross-encoder, which permutes, is given one chunk of each page it orders.
THEOREM ListIsDistinct ==
  ASSUME NEW q, Question(q), Positions \in SUBSET Int, IsFiniteSet(Positions), NEW k \in Int,
         NEW c \in _lexical_rescue(q, k).kept \union _lexical_rescue(q, k).rescued,
         NEW d \in _lexical_rescue(q, k).kept \union _lexical_rescue(q, k).rescued,
         Source(c) = Source(d)
  PROVE  c = d
<1> DEFINE above == {e \in Positions : q.cosine[e] >= Threshold}
           pool == {e \in Positions : \A f \in Dense(q, k) : Source(f) # Source(e)}
           kept == _lexical_rescue(q, k).kept
           rescued == _lexical_rescue(q, k).rescued
<1>1. IsFiniteSet(above) /\ above \in SUBSET Int
  BY FS_Subset
<1>2. Dense(q, k - 1) \subseteq Dense(q, k)
  BY <1>1, CutGrows, k - 1 <= k DEF Dense, Positions
<1>3. kept \subseteq Dense(q, k)
  BY <1>2 DEF _lexical_rescue
<1>4. rescued \subseteq _one_chunk_per_page(pool, q.lexical, 1)
  BY DEF _lexical_rescue, Proposed, Positions
<1>5. \A e \in kept, f \in rescued : Source(e) # Source(f)
  BY <1>3, <1>4 DEF _one_chunk_per_page, Firsts
<1>6. CASE c \in kept /\ d \in kept
  <2>1. c \in _one_chunk_per_page(above, q.cosine, k) /\ d \in _one_chunk_per_page(above, q.cosine, k)
    BY <1>3, <1>6 DEF Dense, Positions
  <2>2. \A e \in above : q.cosine[e] \in Int
    BY DEF Question
  <2> QED BY <1>1, <2>1, <2>2, CutIsDistinct
<1>7. CASE c \in rescued /\ d \in rescued
  <2>1. \A e \in pool : q.lexical[e] \in Int
    BY DEF Question
  <2>2. pool \in SUBSET Int
    OBVIOUS
  <2> QED BY <1>4, <1>7, <2>1, <2>2, CutIsDistinct
<1> QED BY <1>5, <1>6, <1>7

-----------------------------------------------------------------------------
(* Finite sets in order *)

\* R orders S strictly and totally.
StrictOrder(S, R) ==
  /\ \A c \in S : <<c, c>> \notin R
  /\ \A c, d \in S : c # d => <<c, d>> \in R \/ <<d, c>> \in R
  /\ \A c, d, e \in S : <<c, d>> \in R /\ <<d, e>> \in R => <<c, e>> \in R

\* f lists S, one element after the other, as R orders them.
Sorted(f, S, R) ==
  f \in Orders(S) /\ \A i, j \in DOMAIN f : i < j => <<f[i], f[j]>> \in R

\* A finite set that is totally ordered can be listed in that order: the place
\* of an element is the number of those before it.
LEMMA Sorting ==
  ASSUME NEW S, IsFiniteSet(S), NEW R, StrictOrder(S, R)
  PROVE  \E f : Sorted(f, S, R)
<1> DEFINE n == Cardinality(S)
           below(c) == {d \in S : <<d, c>> \in R}
           rank == [c \in S |-> Cardinality(below(c)) + 1]
<1>1. n \in Nat
  BY FS_CardinalityType
<1>2. ASSUME NEW c \in S
      PROVE  /\ IsFiniteSet(below(c)) /\ Cardinality(below(c)) \in Nat
             /\ rank[c] \in 1 .. n
  <2>1. below(c) \in SUBSET S /\ below(c) # S
    BY DEF StrictOrder
  <2>2. /\ IsFiniteSet(below(c)) /\ Cardinality(below(c)) <= n
        /\ Cardinality(below(c)) # n
    BY <2>1, FS_Subset
  <2>3. Cardinality(below(c)) \in Nat
    BY <2>2, FS_CardinalityType
  <2> HIDE DEF below, n
  <2> QED BY <1>1, <2>2, <2>3
<1>3. ASSUME NEW c \in S, NEW d \in S, <<c, d>> \in R
      PROVE  rank[c] < rank[d]
  <2>1. below(c) \in SUBSET below(d) /\ c \in below(d) /\ c \notin below(c)
    BY <1>3 DEF StrictOrder
  <2>2. /\ IsFiniteSet(below(d)) /\ Cardinality(below(d)) \in Nat
        /\ Cardinality(below(c)) \in Nat
    BY <1>2
  <2>3. Cardinality(below(c)) <= Cardinality(below(d))
        /\ Cardinality(below(c)) # Cardinality(below(d))
    <3> HIDE DEF below
    <3>1. below(c) # below(d)
      BY <2>1
    <3> QED BY <2>1, <2>2, <3>1, FS_Subset
  <2>4. rank[c] = Cardinality(below(c)) + 1 /\ rank[d] = Cardinality(below(d)) + 1
    OBVIOUS
  <2> HIDE DEF below, rank
  <2> QED BY <2>2, <2>3, <2>4
<1>4. rank \in [S -> 1 .. n]
  <2>1. \A c \in S : rank[c] \in 1 .. n
    BY <1>2
  <2>2. rank = [c \in S |-> rank[c]]
    OBVIOUS
  <2> HIDE DEF rank, n
  <2> QED BY <2>1, <2>2
<1> HIDE DEF below, rank, n
<1>5. rank \in Injection(S, 1 .. n)
  <2>1. ASSUME NEW c \in S, NEW d \in S, rank[c] = rank[d] PROVE c = d
    <3>1. rank[c] \in 1 .. n /\ rank[d] \in 1 .. n
      BY <1>4
    <3>2. ~ (rank[c] < rank[d]) /\ ~ (rank[d] < rank[c])
      BY <1>1, <2>1, <3>1
    <3> QED BY <1>3, <3>2 DEF StrictOrder
  <2> QED BY <1>4, <2>1 DEF Injection, IsInjective
<1>6. rank \in Surjection(S, 1 .. n)
  <2>1. IsFiniteSet(1 .. n) /\ Cardinality(1 .. n) = n
    BY <1>1, FS_Interval
  <2> QED BY <1>5, <2>1, FS_Injection DEF n
<1>7. \A i \in 1 .. n : \E c \in S : rank[c] = i
  BY <1>6 DEF Surjection
<1> DEFINE f == [i \in 1 .. n |-> CHOOSE c \in S : rank[c] = i]
<1>8. \A i \in 1 .. n : f[i] \in S /\ rank[f[i]] = i
  BY <1>7
<1>9. f \in [1 .. n -> S] /\ DOMAIN f = 1 .. n
  BY <1>8
<1> HIDE DEF f
<1>10. \A c \in S : \E i \in DOMAIN f : f[i] = c
  <2> TAKE c \in S
  <2>1. rank[c] \in 1 .. n
    BY <1>4
  <2>2. f[rank[c]] \in S /\ rank[f[rank[c]]] = rank[c]
    BY <1>8, <2>1
  <2>3. f[rank[c]] = c
    BY <1>5, <2>2 DEF Injection, IsInjective
  <2> QED BY <1>9, <2>1, <2>3
<1>11. ASSUME NEW i \in 1 .. n, NEW j \in 1 .. n, i < j
       PROVE  <<f[i], f[j]>> \in R
  <2>1. f[i] \in S /\ f[j] \in S /\ rank[f[i]] = i /\ rank[f[j]] = j
    BY <1>8
  <2>2. f[i] # f[j]
    BY <1>1, <1>11, <2>1
  <2>3. <<f[j], f[i]>> \notin R
    BY <1>1, <1>3, <1>11, <2>1
  <2> QED BY <2>1, <2>2, <2>3 DEF StrictOrder
<1>12. Sorted(f, S, R)
  BY <1>9, <1>10, <1>11 DEF Sorted, Orders, n
<1> QED BY <1>12

\* A list of a finite set is a sequence without repetitions.
LEMMA OrdersAreLists ==
  ASSUME NEW S, IsFiniteSet(S), NEW f \in Orders(S)
  PROVE  /\ Cardinality(S) \in Nat /\ f \in Seq(S) /\ Len(f) = Cardinality(S)
         /\ DOMAIN f = 1 .. Cardinality(S)
         /\ \A i \in DOMAIN f : f[i] \in S
         /\ \A c \in S : \E i \in DOMAIN f : f[i] = c
         /\ \A i, j \in DOMAIN f : f[i] = f[j] => i = j
         /\ {f[i] : i \in DOMAIN f} = S
<1> DEFINE n == Cardinality(S)
<1>1. n \in Nat
  BY FS_CardinalityType
<1>2. f \in [1 .. n -> S] /\ \A c \in S : \E i \in DOMAIN f : f[i] = c
  BY DEF Orders
<1>3. f \in Surjection(1 .. n, S)
  BY <1>2 DEF Surjection
<1>4. f \in Injection(1 .. n, S)
  <2>1. IsFiniteSet(1 .. n) /\ Cardinality(1 .. n) = n
    BY <1>1, FS_Interval
  <2> QED BY <1>3, <2>1, FS_SurjSameCardinalityImpliesInj
<1> HIDE DEF n
<1>5. f \in Seq(S) /\ Len(f) = n
  BY <1>1, <1>2
<1>6. \A i, j \in DOMAIN f : f[i] = f[j] => i = j
  BY <1>2, <1>4 DEF Injection, IsInjective
<1> QED BY <1>1, <1>2, <1>5, <1>6 DEF n

\* What a finite set is mapped to is finite.
LEMMA ImageIsFinite ==
  ASSUME NEW S, IsFiniteSet(S), NEW f, DOMAIN f = S
  PROVE  /\ IsFiniteSet({f[c] : c \in S})
         /\ Cardinality({f[c] : c \in S}) <= Cardinality(S)
         /\ (\A c, d \in S : f[c] = f[d] => c = d) =>
              Cardinality({f[c] : c \in S}) = Cardinality(S)
<1> DEFINE T == {f[c] : c \in S}
           g == [c \in S |-> f[c]]
<1>1. g \in Surjection(S, T)
  BY DEF Surjection
<1>2. /\ IsFiniteSet(T) /\ Cardinality(T) <= Cardinality(S)
      /\ Cardinality(T) = Cardinality(S) <=> g \in Injection(S, T)
  BY <1>1, FS_Surjection
<1>3. (\A c, d \in S : f[c] = f[d] => c = d) => g \in Injection(S, T)
  BY <1>1 DEF Injection, IsInjective, Surjection
<1> QED BY <1>2, <1>3

-----------------------------------------------------------------------------
(* The index of a wiki *)

Documents(s) == Wiki[s.of].documents
Size(s) == Wiki[s.of].size

\* What ingest_documents cuts the pages it read into.
Pile(s) ==
  UNION {_chunk_document(n, Documents(s)[n], Size(s), Wiki[s.of].overlap) : n \in Read(s)}

\* Where the window of a chunk begins.
Begins(c) == CHOOSE w \in c.text : \A v \in c.text : w <= v

\* The pages a life read have the shape of pages.
LEMMA StampShape ==
  ASSUME NEW s \in Stamps
  PROVE  /\ s.of \in Settings /\ Read(s) \subseteq DOMAIN Documents(s)
         /\ Documents(s) \in Seq([confidence : Confidence, sections : Seq(Section)])
         /\ Size(s) \in Nat \ {0} /\ Wiki[s.of].overlap \in Nat
         /\ IsFiniteSet(Read(s)) /\ Read(s) \subseteq Nat
         /\ \A n \in Read(s) :
              Documents(s)[n] \in [confidence : Confidence, sections : Seq(Section)]
<1>1. PICK t \in Settings : \E lost : s = [of |-> t, lost |-> lost]
  BY DEF Stamps
<1>2. s.of \in Settings
  BY <1>1
<1>3. /\ Documents(s) \in Seq([confidence : Confidence, sections : Seq(Section)])
      /\ Size(s) \in Nat \ {0} /\ Wiki[s.of].overlap \in Nat
  BY <1>2, WikiAssumption DEF Documents, Size
<1>4. Read(s) \subseteq DOMAIN Documents(s)
  BY DEF Read, Documents
<1>5. DOMAIN Documents(s) = 1 .. Len(Documents(s)) /\ Len(Documents(s)) \in Nat
  BY <1>3
<1>6. IsFiniteSet(Read(s)) /\ Read(s) \subseteq Nat
  <2>1. IsFiniteSet(1 .. Len(Documents(s)))
    BY <1>5, FS_Interval
  <2> QED BY <1>4, <1>5, <2>1, FS_Subset
<1>7. \A n \in Read(s) :
        Documents(s)[n] \in [confidence : Confidence, sections : Seq(Section)]
  <2> DEFINE T == [confidence : Confidence, sections : Seq(Section)]
  <2>1. Documents(s) \in Seq(T)
    BY <1>3
  <2> HIDE DEF T
  <2>2. \A n \in DOMAIN Documents(s) : Documents(s)[n] \in T
    BY <2>1
  <2>3. \A n \in Read(s) : Documents(s)[n] \in T
    BY <1>4, <2>2
  <2> QED BY <2>3 DEF T
<1> QED BY <1>2, <1>3, <1>4, <1>6, <1>7

\* A section is cut into finitely many windows, and each has a first word.
LEMMA PiecesAreFinite ==
  ASSUME NEW n \in Nat, NEW size \in Nat \ {0}, NEW overlap \in Nat
  PROVE  /\ IsFiniteSet(Pieces(n, size, overlap))
         /\ n > 0 => \A t \in Pieces(n, size, overlap) :
              \E w \in 0 .. n - 1 : t = Words(w, n, size)
<1>1. CASE n <= size
  <2>1. Pieces(n, size, overlap) = {Words(0, n, size)}
    BY <1>1 DEF Pieces
  <2>2. n > 0 => 0 \in 0 .. n - 1
    OBVIOUS
  <2> QED BY <2>1, <2>2, FS_Singleton
<1>2. CASE ~ (n <= size)
  <2> DEFINE S == Starts(n, size, overlap)
             f == [s \in S |-> Words(s, n, size)]
  <2>1. Pieces(n, size, overlap) = {f[s] : s \in S}
    BY <1>2 DEF Pieces
  <2>2. IsFiniteSet(S) /\ S \subseteq 0 .. n - 1
    <3>1. IsFiniteSet(0 .. n - 1)
      BY FS_Interval
    <3>2. S \subseteq 0 .. n - 1
      BY DEF Starts
    <3> QED BY <3>1, <3>2, FS_Subset
  <2>3. IsFiniteSet({f[s] : s \in S})
    <3>1. DOMAIN f = S
      OBVIOUS
    <3> HIDE DEF f, S
    <3> QED BY <2>2, <3>1, ImageIsFinite
  <2>4. \A t \in Pieces(n, size, overlap) : \E w \in 0 .. n - 1 : t = Words(w, n, size)
    BY <2>1, <2>2
  <2> QED BY <2>1, <2>3, <2>4
<1> QED BY <1>1, <1>2

\* A page is cut into finitely many chunks; each is a window of a section.
LEMMA PageIsCut ==
  ASSUME NEW name, NEW page \in [confidence : Confidence, sections : Seq(Section)],
         NEW size \in Nat \ {0}, NEW overlap \in Nat
  PROVE  /\ IsFiniteSet(_chunk_document(name, page, size, overlap))
         /\ \A c \in _chunk_document(name, page, size, overlap) :
              \E i \in DOMAIN page.sections :
                /\ i \in Nat /\ page.sections[i].words \in Nat
                /\ \E w \in 0 .. page.sections[i].words - 1 :
                     c = [source |-> name, section |-> i,
                          text |-> Words(w, page.sections[i].words, size)]
<1> DEFINE K == Kept(page)
           words(i) == page.sections[i].words
           P(i) == Pieces(words(i), size, overlap)
           C(i) == {[source |-> name, section |-> i, text |-> t] : t \in P(i)}
<1>1. /\ page.sections \in Seq(Section) /\ Len(page.sections) \in Nat
      /\ DOMAIN page.sections = 1 .. Len(page.sections)
  OBVIOUS
<1>2. /\ IsFiniteSet(K)
      /\ \A i \in K : /\ i \in DOMAIN page.sections /\ i \in Nat
                      /\ words(i) \in Nat /\ words(i) > 0
  <2>1. IsFiniteSet(1 .. Len(page.sections))
    BY <1>1, FS_Interval
  <2>2. K \subseteq 1 .. Len(page.sections)
    BY <1>1 DEF Kept
  <2>3. \A i \in K : page.sections[i] \in Section
    BY <1>1, <2>2
  <2>4. \A i \in K : words(i) \in Nat /\ words(i) > 0
    BY <2>3 DEF Section, Kept
  <2> QED BY <1>1, <2>1, <2>2, <2>4, FS_Subset
<1>3. ASSUME NEW i \in K PROVE IsFiniteSet(C(i))
  <2> DEFINE f == [t \in P(i) |-> [source |-> name, section |-> i, text |-> t]]
  <2>1. DOMAIN f = P(i) /\ C(i) = {f[t] : t \in P(i)}
    OBVIOUS
  <2>2. IsFiniteSet(P(i))
    BY <1>2, <1>3, PiecesAreFinite
  <2> HIDE DEF f, P
  <2> QED BY <2>1, <2>2, ImageIsFinite
<1>4. IsFiniteSet(UNION {C(i) : i \in K})
  <2> DEFINE g == [i \in K |-> C(i)]
  <2>1. DOMAIN g = K /\ {C(i) : i \in K} = {g[i] : i \in K}
    OBVIOUS
  <2>2. \A T \in {C(i) : i \in K} : IsFiniteSet(T)
    BY <1>3
  <2>3. IsFiniteSet(K)
    BY <1>2
  <2> HIDE DEF g, C, K
  <2>4. IsFiniteSet({g[i] : i \in K})
    BY <2>1, <2>3, ImageIsFinite
  <2>5. IsFiniteSet({C(i) : i \in K})
    BY <2>1, <2>4
  <2> QED BY <2>2, <2>5, FS_UNION
<1>5. _chunk_document(name, page, size, overlap) \in {{}, UNION {C(i) : i \in K}}
  BY DEF _chunk_document
<1>6. IsFiniteSet(_chunk_document(name, page, size, overlap))
  BY <1>4, <1>5, FS_EmptySet
<1>7. ASSUME NEW c \in _chunk_document(name, page, size, overlap)
      PROVE  \E i \in DOMAIN page.sections :
                /\ i \in Nat /\ page.sections[i].words \in Nat
                /\ \E w \in 0 .. page.sections[i].words - 1 :
                     c = [source |-> name, section |-> i,
                          text |-> Words(w, page.sections[i].words, size)]
  <2>1. PICK i \in K : c \in C(i)
    BY <1>5
  <2>2. PICK t \in P(i) : c = [source |-> name, section |-> i, text |-> t]
    BY <2>1
  <2>3. PICK w \in 0 .. words(i) - 1 : t = Words(w, words(i), size)
    BY <1>2, <2>2, PiecesAreFinite
  <2> QED BY <1>2, <2>2, <2>3
<1> QED BY <1>6, <1>7

\* What the pages are cut into is finite, and a chunk is known by its page, its
\* section and where it begins.
LEMMA PileIsFinite ==
  ASSUME NEW s \in Stamps
  PROVE  IsFiniteSet(Pile(s))
<1> DEFINE f == [n \in Read(s) |->
                   _chunk_document(n, Documents(s)[n], Size(s), Wiki[s.of].overlap)]
<1>1. DOMAIN f = Read(s) /\ Pile(s) = UNION {f[n] : n \in Read(s)}
  BY DEF Pile
<1>2. \A n \in Read(s) : IsFiniteSet(f[n])
  <2> TAKE n \in Read(s)
  <2>1. /\ Documents(s)[n] \in [confidence : Confidence, sections : Seq(Section)]
        /\ Size(s) \in Nat \ {0} /\ Wiki[s.of].overlap \in Nat
    BY StampShape
  <2>2. IsFiniteSet(_chunk_document(n, Documents(s)[n], Size(s), Wiki[s.of].overlap))
    BY <2>1, PageIsCut
  <2> QED BY <2>2
<1> HIDE DEF f
<1>3. IsFiniteSet({f[n] : n \in Read(s)})
  BY <1>1, StampShape, ImageIsFinite
<1> QED BY <1>1, <1>2, <1>3, FS_UNION

LEMMA ChunkShape ==
  ASSUME NEW s \in Stamps, NEW c \in Pile(s)
  PROVE  /\ c.source \in Nat /\ c.section \in Nat /\ Begins(c) \in Nat
         /\ Begins(c) \in c.text /\ \A v \in c.text : v \in Nat /\ Begins(c) <= v
         /\ c = [source |-> c.source, section |-> c.section,
                 text |-> Words(Begins(c), Documents(s)[c.source].sections[c.section].words,
                                Size(s))]
<1>1. PICK n \in Read(s) :
        c \in _chunk_document(n, Documents(s)[n], Size(s), Wiki[s.of].overlap)
  BY DEF Pile
<1> DEFINE page == Documents(s)[n]
           size == Size(s)
<1>2. /\ page \in [confidence : Confidence, sections : Seq(Section)] /\ n \in Nat
      /\ size \in Nat \ {0} /\ Wiki[s.of].overlap \in Nat
  BY <1>1, StampShape
<1>3. PICK i \in DOMAIN page.sections :
         /\ i \in Nat /\ page.sections[i].words \in Nat
         /\ \E w \in 0 .. page.sections[i].words - 1 :
              c = [source |-> n, section |-> i, text |-> Words(w, page.sections[i].words, size)]
  BY <1>1, <1>2, PageIsCut
<1> DEFINE m == page.sections[i].words
<1>4. PICK w \in 0 .. m - 1 : c = [source |-> n, section |-> i, text |-> Words(w, m, size)]
  BY <1>3
<1>5. m \in Nat /\ w \in Nat /\ w < m
  BY <1>3, <1>4
<1>6. w \in c.text /\ \A v \in c.text : v \in Nat /\ w <= v
  <2> HIDE DEF m, size
  <2>1. c.text = {v \in w .. w + size - 1 : v < m}
    BY <1>4 DEF Words
  <2> QED BY <1>2, <1>5, <2>1
<1>7. Begins(c) = w
  <2>1. Begins(c) \in c.text /\ \A v \in c.text : Begins(c) <= v
    BY <1>6 DEF Begins
  <2> QED BY <1>5, <1>6, <2>1
<1>8. c.source = n /\ c.section = i
  BY <1>4
<1> QED BY <1>2, <1>3, <1>4, <1>5, <1>6, <1>7, <1>8

\* Before tells any two chunks of an index apart.
LEMMA PileIsOrdered ==
  ASSUME NEW s \in Stamps
  PROVE  StrictOrder(Pile(s), {e \in Pile(s) \X Pile(s) : Before(e[1], e[2])})
<1> DEFINE S == Pile(s)
           R == {e \in S \X S : Before(e[1], e[2])}
<1>1. ASSUME NEW c \in S, NEW d \in S
      PROVE  /\ Before(c, d) <=> \/ c.source < d.source
                                 \/ c.source = d.source /\ c.section < d.section
                                 \/ /\ c.source = d.source /\ c.section = d.section
                                    /\ Begins(c) < Begins(d)
             /\ c.source = d.source /\ c.section = d.section /\ Begins(c) = Begins(d) => c = d
  <2>1. /\ Begins(c) \in Nat /\ Begins(c) \in c.text
        /\ \A v \in c.text : v \in Nat /\ Begins(c) <= v
    BY ChunkShape
  <2>2. /\ Begins(d) \in Nat /\ Begins(d) \in d.text
        /\ \A v \in d.text : v \in Nat /\ Begins(d) <= v
    BY ChunkShape
  <2>3. (\E w \in c.text : \A v \in d.text : w < v) <=> Begins(c) < Begins(d)
    <3>1. ASSUME NEW w \in c.text, \A v \in d.text : w < v PROVE Begins(c) < Begins(d)
      BY <2>1, <2>2, <3>1
    <3>2. ASSUME Begins(c) < Begins(d) PROVE \A v \in d.text : Begins(c) < v
      BY <2>1, <2>2, <3>2
    <3> QED BY <2>1, <3>1, <3>2
  <2>4. c.source = d.source /\ c.section = d.section /\ Begins(c) = Begins(d) => c = d
    <3> DEFINE Of(n, i, b) == [source |-> n, section |-> i,
                               text |-> Words(b, Documents(s)[n].sections[i].words, Size(s))]
    <3>1. c = Of(c.source, c.section, Begins(c)) /\ d = Of(d.source, d.section, Begins(d))
      BY ChunkShape
    <3> HIDE DEF Of
    <3> QED BY <3>1
  <2> QED BY <2>3, <2>4 DEF Before
<1>2. \A c \in S : c.source \in Nat /\ c.section \in Nat /\ Begins(c) \in Nat
  BY ChunkShape
<1>3. \A c, d \in S : <<c, d>> \in R <=> Before(c, d)
  OBVIOUS
<1> HIDE DEF S, R
<1>4. \A c \in S : <<c, c>> \notin R
  BY <1>1, <1>2, <1>3
<1>5. \A c, d \in S : c # d => <<c, d>> \in R \/ <<d, c>> \in R
  BY <1>1, <1>2, <1>3
<1>6. ASSUME NEW c \in S, NEW d \in S, NEW e \in S, <<c, d>> \in R, <<d, e>> \in R
      PROVE  <<c, e>> \in R
  BY <1>1, <1>2, <1>3, <1>6
<1>7. StrictOrder(S, R)
  BY <1>4, <1>5, <1>6 DEF StrictOrder
<1> QED BY <1>7 DEF S, R

\* The index exists: it lists the chunks of the pages that were read, in the
\* order of ingest_documents, each once.
LEMMA IndexIsList ==
  ASSUME NEW s \in Stamps
  PROVE  /\ Index[s] \in Orders(Pile(s))
         /\ \A i, j \in DOMAIN Index[s] : i < j => Before(Index[s][i], Index[s][j])
<1> DEFINE S == Pile(s)
           R == {e \in S \X S : Before(e[1], e[2])}
<1>1. PICK f : Sorted(f, S, R)
  BY PileIsFinite, PileIsOrdered, Sorting
<1>2. f \in Orders(S) /\ \A i, j \in DOMAIN f : i < j => Before(f[i], f[j])
  BY <1>1 DEF Sorted
<1>3. Index[s] = CHOOSE g \in Orders(S) : \A i, j \in DOMAIN g : i < j => Before(g[i], g[j])
  BY DEF Index, Pile, Documents, Size
<1> HIDE DEF S
<1>4. /\ Index[s] \in Orders(S)
      /\ \A i, j \in DOMAIN Index[s] : i < j => Before(Index[s][i], Index[s][j])
  BY <1>2, <1>3
<1> QED BY <1>4 DEF S

\* The positions of an index are 1..n.
LEMMA PositionsAreFinite ==
  ASSUME chunks \in Stamps \union {None}
  PROVE  /\ IsFiniteSet(Positions) /\ Positions \in SUBSET Nat
         /\ Len(IndexOf(chunks)) = Cardinality(Positions)
         /\ IndexOf(chunks) = <<>> <=> Positions = {}
<1>1. CASE chunks = None
  BY <1>1, FS_EmptySet DEF Positions, IndexOf
<1>2. CASE chunks \in Stamps
  <2>1. IndexOf(chunks) = Index[chunks]
    BY <1>2, RetrievalAssumption DEF IndexOf
  <2> DEFINE f == Index[chunks]
             n == Cardinality(Pile(chunks))
  <2>2. f \in Orders(Pile(chunks)) /\ IsFiniteSet(Pile(chunks))
    BY <1>2, IndexIsList, PileIsFinite
  <2>3. /\ f \in Seq(Pile(chunks)) /\ Len(f) = n /\ n \in Nat
        /\ DOMAIN f = 1 .. n
    BY <2>2, OrdersAreLists
  <2>4. IsFiniteSet(1 .. n) /\ Cardinality(1 .. n) = n
    BY <2>3, FS_Interval
  <2>5. f = <<>> <=> 1 .. n = {}
    BY <2>3
  <2> QED BY <2>1, <2>3, <2>4, <2>5 DEF Positions
<1> QED BY <1>1, <1>2

\* Nothing that was read is missing from the index, wherever the windows of the
\* chunks fall: every word of every section that is kept, of every page that is
\* not of low confidence, is in a chunk that a question can find.
THEOREM EveryWordIsFound ==
  ASSUME NEW s \in Stamps, Wiki[s.of].overlap < Wiki[s.of].size,
         NEW n \in Read(s), Wiki[s.of].documents[n].confidence # "low",
         NEW i \in Kept(Wiki[s.of].documents[n]),
         NEW w \in 0 .. Wiki[s.of].documents[n].sections[i].words - 1
  PROVE  \E c \in DOMAIN Index[s] :
           Index[s][c].source = n /\ Index[s][c].section = i /\ w \in Index[s][c].text
<1> DEFINE page == Documents(s)[n]
           words == page.sections[i].words
           overlap == Wiki[s.of].overlap
<1>1. /\ page \in [confidence : Confidence, sections : Seq(Section)]
      /\ Size(s) \in Nat \ {0} /\ overlap \in Nat /\ overlap < Size(s)
  BY StampShape DEF Size
<1>2. words \in Nat /\ i \in Kept(page) /\ w \in 0 .. words - 1
  <2>1. i \in DOMAIN page.sections /\ i \in Kept(page)
    BY DEF Kept, Documents
  <2>2. page.sections[i] \in Section
    BY <1>1, <2>1
  <2> QED BY <2>1, <2>2 DEF Section, Documents
<1>3. PICK t \in Pieces(words, Size(s), overlap) : w \in t
  <2> HIDE DEF words, overlap
  <2> QED BY <1>1, <1>2, EveryWordIsIndexed
<1> DEFINE chunk == [source |-> n, section |-> i, text |-> t]
<1>4. chunk \in Pile(s)
  <2>1. chunk \in _chunk_document(n, page, Size(s), overlap)
    <3> DEFINE C(j) == {[source |-> n, section |-> j, text |-> u] :
                          u \in Pieces(page.sections[j].words, Size(s), overlap)}
    <3>1. page.confidence # "low"
      BY DEF Documents
    <3>2. _chunk_document(n, page, Size(s), overlap) = UNION {C(j) : j \in Kept(page)}
      <4> HIDE DEF page, overlap
      <4> QED BY <3>1 DEF _chunk_document
    <3>3. chunk \in C(i)
      <4> HIDE DEF page
      <4> QED BY <1>3
    <3> HIDE DEF C, chunk
    <3> QED BY <1>2, <3>2, <3>3
  <2> HIDE DEF chunk
  <2> QED BY <2>1 DEF Pile
<1>5. PICK c \in DOMAIN Index[s] : Index[s][c] = chunk
  <2> HIDE DEF chunk
  <2>1. IsFiniteSet(Pile(s)) /\ Index[s] \in Orders(Pile(s))
    BY IndexIsList, PileIsFinite
  <2>2. \A d \in Pile(s) : \E c \in DOMAIN Index[s] : Index[s][c] = d
    BY <2>1, OrdersAreLists
  <2> QED BY <1>4, <2>2
<1> QED BY <1>3, <1>5

-----------------------------------------------------------------------------
(* The cut *)

\* Ahead is a strict order of any scored chunks: there are no ties.
LEMMA AheadOrders ==
  ASSUME NEW S \in SUBSET Int, NEW score, \A c \in S : score[c] \in Int
  PROVE  StrictOrder(S, {e \in S \X S : Ahead(score, e[1], e[2])})
<1> DEFINE R == {e \in S \X S : Ahead(score, e[1], e[2])}
<1>1. \A c, d \in S : <<c, d>> \in R <=> score[c] > score[d] \/ (score[c] = score[d] /\ c < d)
  BY DEF Ahead
<1> HIDE DEF R
<1>2. \A c \in S : <<c, c>> \notin R
  BY <1>1
<1>3. \A c, d \in S : c # d => <<c, d>> \in R \/ <<d, c>> \in R
  BY <1>1
<1>4. ASSUME NEW c \in S, NEW d \in S, NEW e \in S, <<c, d>> \in R, <<d, e>> \in R
      PROVE  <<c, e>> \in R
  BY <1>1, <1>4
<1>5. StrictOrder(S, R)
  BY <1>2, <1>3, <1>4 DEF StrictOrder
<1> QED BY <1>5 DEF R

\* The cut to k pages holds at most k chunks: the last of them has all others
\* ahead of it.
LEMMA CutIsSmall ==
  ASSUME NEW S \in SUBSET Int, IsFiniteSet(S), NEW score, \A c \in S : score[c] \in Int,
         NEW k \in Nat
  PROVE  /\ IsFiniteSet(_one_chunk_per_page(S, score, k))
         /\ Cardinality(_one_chunk_per_page(S, score, k)) <= k
<1> DEFINE T == _one_chunk_per_page(S, score, k)
           m == Cardinality(T)
           R == {e \in T \X T : Ahead(score, e[1], e[2])}
           better(c) == {d \in Firsts(S, score) : Ahead(score, d, c)}
<1>1. T \in SUBSET S /\ T \subseteq Firsts(S, score)
  BY DEF _one_chunk_per_page, Firsts
<1>2. IsFiniteSet(T) /\ m \in Nat
  BY <1>1, FS_Subset, FS_CardinalityType
<1>3. \A c \in T : Cardinality(better(c)) < k
  BY DEF _one_chunk_per_page
<1>4. PICK f : Sorted(f, T, R)
  <2>1. T \in SUBSET Int /\ \A c \in T : score[c] \in Int
    BY <1>1
  <2>2. StrictOrder(T, R)
    <3> HIDE DEF T
    <3> QED BY <2>1, AheadOrders
  <2> HIDE DEF T, R
  <2> QED BY <1>2, <2>2, Sorting
<1>5. ASSUME m > 0 PROVE m <= k
  <2>1. /\ DOMAIN f = 1 .. m /\ \A i \in DOMAIN f : f[i] \in T
        /\ \A c \in T : \E i \in DOMAIN f : f[i] = c
    <3> HIDE DEF T
    <3> QED BY <1>2, <1>4, OrdersAreLists DEF Sorted
  <2>2. m \in 1 .. m /\ f[m] \in T
    <3> HIDE DEF T, m
    <3> QED BY <1>2, <1>5, <2>1
  <2>3. T \ {f[m]} \subseteq better(f[m])
    <3> SUFFICES ASSUME NEW c \in T \ {f[m]} PROVE c \in better(f[m])
      OBVIOUS
    <3>1. PICK i \in 1 .. m : f[i] = c
      BY <2>1
    <3>2. i < m
      <4> HIDE DEF m, T
      <4> QED BY <1>2, <3>1
    <3>3. <<f[i], f[m]>> \in R
      <4> HIDE DEF R
      <4> QED BY <1>4, <2>1, <2>2, <3>2 DEF Sorted
    <3>4. Ahead(score, c, f[m]) /\ c \in Firsts(S, score)
      BY <1>1, <3>1, <3>3
    <3> QED BY <3>4
  <2>4. IsFiniteSet(better(f[m])) /\ Cardinality(better(f[m])) \in Nat
    <3>1. better(f[m]) \in SUBSET S
      BY DEF Firsts
    <3> QED BY <3>1, FS_Subset, FS_CardinalityType
  <2>5. Cardinality(T \ {f[m]}) = m - 1
    <3> HIDE DEF T
    <3> QED BY <1>2, <2>2, FS_RemoveElement DEF m
  <2>6. Cardinality(T \ {f[m]}) <= Cardinality(better(f[m]))
    <3> HIDE DEF T, better, m
    <3> QED BY <2>3, <2>4, FS_Subset
  <2>7. Cardinality(better(f[m])) < k
    BY <1>3, <2>2
  <2> HIDE DEF T, better, m
  <2> QED BY <1>2, <2>4, <2>5, <2>6, <2>7
<1>6. m <= k
  <2> HIDE DEF T, m
  <2> QED BY <1>2, <1>5
<1> QED BY <1>2, <1>6

\* Every page that has a chunk in S has one in the ranking, and the best.
LEMMA BestOfPage ==
  ASSUME NEW S \in SUBSET Int, IsFiniteSet(S), NEW score, \A c \in S : score[c] \in Int,
         NEW c \in S
  PROVE  \E b \in Firsts(S, score) : Source(b) = Source(c) /\ score[b] >= score[c]
<1> DEFINE T == {d \in S : Source(d) = Source(c)}
           R == {e \in T \X T : Ahead(score, e[1], e[2])}
           m == Cardinality(T)
<1>1. IsFiniteSet(T) /\ T \in SUBSET Int /\ (\A d \in T : score[d] \in Int) /\ c \in T
  BY FS_Subset
<1>2. PICK f : Sorted(f, T, R)
  <2> HIDE DEF T
  <2>1. StrictOrder(T, R)
    BY <1>1, AheadOrders
  <2> HIDE DEF R
  <2> QED BY <1>1, <2>1, Sorting
<1> HIDE DEF T, R, m
<1>3. /\ m \in Nat /\ DOMAIN f = 1 .. m /\ \A i \in DOMAIN f : f[i] \in T
      /\ \A d \in T : \E i \in DOMAIN f : f[i] = d
  BY <1>1, <1>2, OrdersAreLists DEF Sorted, m
<1>4. 1 \in 1 .. m
  <2>1. PICK i \in 1 .. m : f[i] = c
    BY <1>1, <1>3
  <2> QED BY <1>3, <2>1
<1>5. ASSUME NEW d \in T, d # f[1] PROVE Ahead(score, f[1], d)
  <2>1. PICK i \in 1 .. m : f[i] = d
    BY <1>3
  <2>2. 1 < i
    BY <1>3, <1>5, <2>1
  <2>3. <<f[1], f[i]>> \in R
    BY <1>2, <1>3, <1>4, <2>2 DEF Sorted
  <2> QED BY <2>1, <2>3 DEF R
<1>6. f[1] \in T
  BY <1>3, <1>4
<1>7. f[1] \in Firsts(S, score) /\ Source(f[1]) = Source(c)
  BY <1>5, <1>6 DEF Firsts, T
<1>8. score[f[1]] >= score[c]
  <2>1. CASE c = f[1]
    BY <1>1, <2>1
  <2>2. CASE c # f[1]
    <3>1. Ahead(score, f[1], c)
      BY <1>1, <1>5, <2>2
    <3>2. score[f[1]] \in Int /\ score[c] \in Int
      BY <1>1, <1>6
    <3> QED BY <3>1, <3>2 DEF Ahead
  <2> QED BY <2>1, <2>2
<1> QED BY <1>7, <1>8

-----------------------------------------------------------------------------
(* What is chosen for a question *)

\* A set of at most one element.
LEMMA AtMostOne ==
  ASSUME NEW S, IsFiniteSet(S), Cardinality(S) <= 1
  PROVE  \A c, d \in S : c = d
<1>1. Cardinality(S) \in Nat
  BY FS_CardinalityType
<1>2. Cardinality(S) = 0 \/ Cardinality(S) = 1
  BY <1>1
<1> QED BY <1>2, FS_EmptySet, FS_Singleton

\* The list is at most k chunks wide; what is kept passed the filter and holds
\* the k - 1 best; what is rescued is one chunk of a page that is not in the
\* list, and a term of the question occurs in it.
LEMMA Chosen ==
  ASSUME chunks \in Stamps \union {None}, NEW q, Question(q), NEW k \in Nat \ {0}
  PROVE  LET kept == _lexical_rescue(q, k).kept
             rescued == _lexical_rescue(q, k).rescued
         IN  /\ IsFiniteSet(kept \union rescued) /\ Cardinality(kept \union rescued) <= k
             /\ kept \subseteq Positions /\ rescued \subseteq Positions
             /\ kept \subseteq Dense(q, k) /\ Dense(q, k - 1) \subseteq kept
             /\ \A c \in kept : q.cosine[c] >= Threshold
             /\ kept \intersect rescued = {}
             /\ \A c, d \in rescued : c = d
             /\ rescued # {} =>
                  /\ k >= MIN_RESCUE_TOP_K /\ Cardinality(Dense(q, k)) >= k
                  /\ \A c \in rescued : q.lexical[c] > 0
<1> DEFINE above == {c \in Positions : q.cosine[c] >= Threshold}
           pool == {c \in Positions : \A d \in Dense(q, k) : Source(d) # Source(c)}
           kept == _lexical_rescue(q, k).kept
           rescued == _lexical_rescue(q, k).rescued
<1>1. /\ IsFiniteSet(Positions) /\ Positions \in SUBSET Int /\ k \in Nat /\ k - 1 \in Nat
      /\ \A c \in Positions : q.cosine[c] \in Int /\ q.lexical[c] \in Int
  BY PositionsAreFinite DEF Question
<1>2. /\ above \in SUBSET Positions /\ pool \in SUBSET Positions
      /\ IsFiniteSet(above) /\ IsFiniteSet(pool)
  BY <1>1, FS_Subset
<1>3. /\ above \in SUBSET Int /\ \A c \in above : q.cosine[c] \in Int
      /\ pool \in SUBSET Int /\ \A c \in pool : q.lexical[c] \in Int
  BY <1>1, <1>2
<1>4. \A n : Dense(q, n) = _one_chunk_per_page(above, q.cosine, n)
  BY DEF Dense, Positions
<1>5. \A n \in Nat : /\ IsFiniteSet(Dense(q, n)) /\ Cardinality(Dense(q, n)) <= n
                     /\ Dense(q, n) \subseteq above
  <2> HIDE DEF above
  <2>1. \A n : _one_chunk_per_page(above, q.cosine, n) \subseteq above
    BY DEF _one_chunk_per_page, Firsts
  <2> QED BY <1>2, <1>3, <1>4, <2>1, CutIsSmall
<1>6. /\ rescued \subseteq _one_chunk_per_page(pool, q.lexical, 1)
      /\ rescued # {} => /\ k >= MIN_RESCUE_TOP_K /\ ~ (Cardinality(Dense(q, k)) < k)
                         /\ kept = Dense(q, k - 1)
                         /\ ~ (\A c \in pool : q.lexical[c] <= 0)
      /\ rescued = {} => kept = Dense(q, k)
  <2>1. rescued = {} \/
          /\ rescued = Proposed(q, Dense(q, k))
          /\ ~ (Cardinality(Dense(q, k)) < k) /\ ~ (k < MIN_RESCUE_TOP_K)
    BY DEF _lexical_rescue
  <2>2. kept = IF rescued = {} THEN Dense(q, k) ELSE Dense(q, k - 1)
    BY DEF _lexical_rescue
  <2>3. Proposed(q, Dense(q, k)) =
          IF \A c \in pool : q.lexical[c] <= 0 THEN {}
          ELSE _one_chunk_per_page(pool, q.lexical, 1)
    BY DEF Proposed, Positions
  <2>4. k >= MIN_RESCUE_TOP_K \/ k < MIN_RESCUE_TOP_K
    BY <1>1, WidthAssumption
  <2> HIDE DEF rescued, kept, pool
  <2> QED BY <2>1, <2>2, <2>3, <2>4
<1> HIDE DEF kept, rescued, above
<1>7. Dense(q, k - 1) \subseteq Dense(q, k)
  <2>1. k - 1 <= k /\ k - 1 \in Int /\ k \in Int
    BY <1>1
  <2> QED BY <1>2, <1>4, <2>1, CutGrows
<1>8. kept \subseteq Dense(q, k) /\ Dense(q, k - 1) \subseteq kept /\ kept \subseteq above
  BY <1>1, <1>5, <1>6, <1>7
<1>9. /\ IsFiniteSet(rescued) /\ Cardinality(rescued) <= 1 /\ rescued \subseteq pool
      /\ IsFiniteSet(_one_chunk_per_page(pool, q.lexical, 1))
  <2> HIDE DEF pool
  <2>1. /\ IsFiniteSet(_one_chunk_per_page(pool, q.lexical, 1))
        /\ Cardinality(_one_chunk_per_page(pool, q.lexical, 1)) <= 1
    BY <1>2, <1>3, CutIsSmall
  <2>2. /\ IsFiniteSet(rescued)
        /\ Cardinality(rescued) <= Cardinality(_one_chunk_per_page(pool, q.lexical, 1))
    BY <1>6, <2>1, FS_Subset
  <2>3. /\ Cardinality(rescued) \in Nat
        /\ Cardinality(_one_chunk_per_page(pool, q.lexical, 1)) \in Nat
    BY <2>1, <2>2, FS_CardinalityType
  <2>4. rescued \subseteq pool
    BY <1>6 DEF _one_chunk_per_page, Firsts
  <2> QED BY <2>1, <2>2, <2>3, <2>4
<1>10. \A c, d \in rescued : c = d
  BY <1>9, AtMostOne
<1>11. kept \intersect rescued = {}
  BY <1>8, <1>9
<1>12. IsFiniteSet(kept \union rescued) /\ Cardinality(kept \union rescued) <= k
  <2>1. CASE rescued = {}
    <3>1. kept \union rescued = Dense(q, k)
      BY <1>6, <2>1
    <3> QED BY <1>1, <1>5, <3>1
  <2>2. CASE rescued # {}
    <3>1. IsFiniteSet(kept) /\ Cardinality(kept) <= k - 1
      BY <1>1, <1>5, <1>6, <2>2
    <3>2. /\ IsFiniteSet(kept \union rescued) /\ IsFiniteSet(kept \intersect rescued)
          /\ Cardinality(kept \union rescued)
               = Cardinality(kept) + Cardinality(rescued) - Cardinality(kept \intersect rescued)
      BY <1>9, <3>1, FS_Union, FS_Intersection
    <3>3. /\ Cardinality(kept) \in Nat /\ Cardinality(rescued) \in Nat
          /\ Cardinality(kept \intersect rescued) \in Nat
      BY <1>9, <3>1, <3>2, FS_CardinalityType
    <3> QED BY <1>1, <1>9, <3>1, <3>2, <3>3
  <2> QED BY <2>1, <2>2
<1>13. ASSUME NEW c \in rescued PROVE q.lexical[c] > 0
  <2>1. PICK e \in pool : ~ (q.lexical[e] <= 0)
    BY <1>6, <1>13
  <2>2. PICK b \in Firsts(pool, q.lexical) : Source(b) = Source(e) /\ q.lexical[b] >= q.lexical[e]
    <3> HIDE DEF pool
    <3> QED BY <1>2, <1>3, BestOfPage
  <2>3. /\ c \in Firsts(pool, q.lexical)
        /\ Cardinality({d \in Firsts(pool, q.lexical) : Ahead(q.lexical, d, c)}) < 1
    BY <1>6, <1>13 DEF _one_chunk_per_page
  <2>4. {d \in Firsts(pool, q.lexical) : Ahead(q.lexical, d, c)} = {}
    <3> DEFINE B == {d \in Firsts(pool, q.lexical) : Ahead(q.lexical, d, c)}
    <3>1. B \in SUBSET pool
      BY DEF Firsts
    <3>2. IsFiniteSet(B) /\ Cardinality(B) \in Nat
      BY <1>2, <3>1, FS_Subset, FS_CardinalityType
    <3>3. Cardinality(B) = 0
      BY <2>3, <3>2
    <3> HIDE DEF B
    <3>4. B = {}
      BY <3>2, <3>3, FS_EmptySet
    <3> QED BY <3>4 DEF B
  <2>5. ~ Ahead(q.lexical, b, c)
    BY <2>2, <2>4
  <2>6. b \in pool /\ c \in pool
    BY <2>2, <2>3 DEF Firsts
  <2>7. q.lexical[b] \in Int /\ q.lexical[c] \in Int /\ q.lexical[e] \in Int
    BY <1>3, <2>6
  <2> QED BY <2>1, <2>2, <2>5, <2>7 DEF Ahead
<1>14. \A c \in above : q.cosine[c] >= Threshold /\ c \in Positions
  BY DEF above
<1>15. rescued # {} => Cardinality(Dense(q, k)) >= k
  <2>1. Cardinality(Dense(q, k)) \in Nat
    BY <1>1, <1>5, FS_CardinalityType
  <2> QED BY <1>1, <1>6, <2>1
<1>16. rescued \subseteq Positions /\ kept \subseteq Positions
  BY <1>2, <1>8, <1>9, <1>14
<1>17. rescued # {} => k >= MIN_RESCUE_TOP_K
  BY <1>6
<1>18. /\ IsFiniteSet(kept \union rescued) /\ Cardinality(kept \union rescued) <= k
       /\ kept \subseteq Positions /\ rescued \subseteq Positions
       /\ kept \subseteq Dense(q, k) /\ Dense(q, k - 1) \subseteq kept
       /\ \A c \in kept : q.cosine[c] >= Threshold
       /\ kept \intersect rescued = {}
       /\ \A c, d \in rescued : c = d
       /\ rescued # {} =>
            /\ k >= MIN_RESCUE_TOP_K /\ Cardinality(Dense(q, k)) >= k
            /\ \A c \in rescued : q.lexical[c] > 0
  BY <1>8, <1>10, <1>11, <1>12, <1>13, <1>14, <1>15, <1>16, <1>17
<1> QED BY <1>18 DEF kept, rescued

\* The list exists: kept by cosine, rescued last.
LEMMA ListedIsList ==
  ASSUME chunks \in Stamps \union {None}, NEW q, Question(q), NEW k \in Nat \ {0}
  PROVE  Listed(q, _lexical_rescue(q, k))
           \in Orders(_lexical_rescue(q, k).kept \union _lexical_rescue(q, k).rescued)
<1> DEFINE chosen == _lexical_rescue(q, k)
           kept == chosen.kept
           rescued == chosen.rescued
           S == kept \union rescued
           precedes(c, d) == d \in rescued \/ (c \in kept /\ d \in kept /\ Ahead(q.cosine, c, d))
           R == {e \in S \X S : e[1] # e[2] /\ precedes(e[1], e[2])}
<1>1. /\ IsFiniteSet(S) /\ kept \subseteq Positions
      /\ kept \intersect rescued = {} /\ \A c, d \in rescued : c = d
  BY Chosen
<1>2. \A c \in kept : c \in Int /\ q.cosine[c] \in Int
  BY <1>1, PositionsAreFinite DEF Question
<1> HIDE DEF chosen, kept, rescued
<1>3. StrictOrder(S, R)
  <2>1. \A c, d \in S : <<c, d>> \in R <=> c # d /\ precedes(c, d)
    OBVIOUS
  <2>2. \A c, d \in kept : Ahead(q.cosine, c, d) <=>
          q.cosine[c] > q.cosine[d] \/ (q.cosine[c] = q.cosine[d] /\ c < d)
    BY DEF Ahead
  <2>3. \A c, d \in S : c # d => precedes(c, d) \/ precedes(d, c)
    BY <1>2, <2>2
  <2>4. ASSUME NEW c \in S, NEW d \in S, NEW e \in S,
               c # d, precedes(c, d), d # e, precedes(d, e)
        PROVE  c # e /\ precedes(c, e)
    <3>1. CASE e \in rescued
      BY <1>1, <2>4, <3>1
    <3>2. CASE e \notin rescued
      <4>1. d \in kept /\ e \in kept /\ Ahead(q.cosine, d, e)
        BY <2>4, <3>2
      <4>2. c \in kept /\ Ahead(q.cosine, c, d)
        BY <1>1, <2>4, <4>1
      <4>3. Ahead(q.cosine, c, e) /\ c # e
        BY <1>2, <4>1, <4>2, <2>2
      <4> QED BY <4>1, <4>2, <4>3
    <3> QED BY <3>1, <3>2
  <2> HIDE DEF R, precedes
  <2> QED BY <2>1, <2>3, <2>4 DEF StrictOrder
<1>4. PICK f : Sorted(f, S, R)
  <2> HIDE DEF S, R
  <2> QED BY <1>1, <1>3, Sorting
<1>5. f \in Orders(S) /\ \A i, j \in DOMAIN f : i < j => precedes(f[i], f[j])
  BY <1>4 DEF Sorted
<1>6. Listed(q, chosen) =
        CHOOSE g \in Orders(S) : \A i, j \in DOMAIN g : i < j =>
          \/ g[j] \in rescued
          \/ g[i] \in kept /\ g[j] \in kept /\ Ahead(q.cosine, g[i], g[j])
  BY DEF Listed, kept, rescued
<1>7. Listed(q, chosen) \in Orders(S)
  <2> HIDE DEF S
  <2> QED BY <1>5, <1>6
<1> QED BY <1>7 DEF chosen, kept, rescued

-----------------------------------------------------------------------------
(* The last answer *)

\* a is an answer to a question asked of the index in memory: it lists, in some
\* order, what the filter, the cut and the rescue chose.
AnswersIt(a) ==
  /\ Question(a.q) /\ a.k \in Widths
  /\ a.served \in Orders(_lexical_rescue(a.q, a.k).kept \union _lexical_rescue(a.q, a.k).rescued)

Unordered(a) == Enabled /\ Len(a.served) >= 2 /\ a.k <= MAX_RERANK_TOP_K /\ ~a.reranked

Answered ==
  \A a : answer = a /\ a # None =>
    phase = "serving" /\ AnswersIt(a) /\ (Unordered(a) => reranker = "failed")

\* A life that serves an index has tried the cross-encoder.
Tried == phase = "serving" /\ reranker = "uninitialized" => chunks = None

\* What was chosen is chosen again as long as the index stays.
LEMMA SameIndex ==
  ASSUME chunks' = chunks, NEW a
  PROVE  AnswersIt(a) => AnswersIt(a)'
<1>1. IndexOf(chunks)' = IndexOf(chunks)
  BY DEF IndexOf
<1>2. ASSUME NEW c PROVE Source(c)' = Source(c)
  BY <1>1 DEF Source
<1>3. ASSUME NEW S, NEW score PROVE Firsts(S, score)' = Firsts(S, score)
  <2>1. ASSUME NEW c \in S
        PROVE  (\A d \in S \ {c} : Source(d)' = Source(c)' => Ahead(score, c, d)) <=>
               (\A d \in S \ {c} : Source(d) = Source(c) => Ahead(score, c, d))
    BY <1>2
  <2> QED BY <2>1 DEF Firsts, Ahead
<1>4. ASSUME NEW S, NEW score, NEW k
      PROVE  _one_chunk_per_page(S, score, k)' = _one_chunk_per_page(S, score, k)
  BY <1>3 DEF _one_chunk_per_page, Ahead
<1>5. ASSUME NEW q, NEW k PROVE Dense(q, k)' = Dense(q, k)
  BY <1>1, <1>4 DEF Dense
<1>6. ASSUME NEW q, NEW dense PROVE Proposed(q, dense)' = Proposed(q, dense)
  BY <1>1, <1>2, <1>4 DEF Proposed
<1>7. ASSUME NEW q, NEW k PROVE _lexical_rescue(q, k)' = _lexical_rescue(q, k)
  BY <1>5, <1>6 DEF _lexical_rescue
<1>8. Positions' = Positions
  BY <1>1 DEF Positions
<1> QED BY <1>7, <1>8 DEF AnswersIt, Question

\* A question is answered from the index in memory, and an answer that was not
\* reordered although it should have been leaves a failed cross-encoder.
LEMMA RetrieveAnswers ==
  ASSUME TypeOK, NEW k \in Widths, retrieve(k)
  PROVE  /\ \A a : answer' = a /\ a # None =>
              phase' = "serving" /\ AnswersIt(a)' /\ (Unordered(a) => reranker' = "failed")
         /\ reranker' \in {reranker, "loaded", "failed"} /\ chunks' = chunks
         /\ chunks = None => reranker' = reranker
<1>1. PICK q \in Questions(IndexOf(chunks)) :
        LET list == Listed(q, _lexical_rescue(q, k)) IN
        \E served \in {list} \union Orders({list[i] : i \in DOMAIN list}), reranked \in BOOLEAN :
          /\ _rerank(list, k, served, reranked)
          /\ answer' = [q |-> q, k |-> k, served |-> served, reranked |-> reranked]
  BY DEF retrieve
<1> DEFINE list == Listed(q, _lexical_rescue(q, k))
           T == _lexical_rescue(q, k).kept \union _lexical_rescue(q, k).rescued
<1>2. PICK served \in {list} \union Orders({list[i] : i \in DOMAIN list}), reranked \in BOOLEAN :
        /\ _rerank(list, k, served, reranked)
        /\ answer' = [q |-> q, k |-> k, served |-> served, reranked |-> reranked]
  BY <1>1
<1>3. /\ chunks \in Stamps \union {None} /\ k \in Nat \ {0}
      /\ phase = "serving" /\ phase' = phase /\ chunks' = chunks
  BY WidthAssumption DEF TypeOK, retrieve
<1>4. Question(q)
  BY <1>3, QuestionAssumption DEF Question, Positions
<1>5. /\ IsFiniteSet(T) /\ T \subseteq Positions
      /\ list \in Orders(T)
  BY <1>3, <1>4, Chosen, ListedIsList
<1> HIDE DEF list, T
<1>6. /\ served \in Orders(T)
      /\ Len(list) = Cardinality(T) /\ Len(served) = Cardinality(T)
  <2>1. {list[i] : i \in DOMAIN list} = T /\ Len(list) = Cardinality(T)
    BY <1>5, OrdersAreLists
  <2>2. served \in Orders(T)
    BY <1>2, <1>5, <2>1
  <2> QED BY <1>5, <2>1, <2>2, OrdersAreLists
<1> DEFINE a == [q |-> q, k |-> k, served |-> served, reranked |-> reranked]
<1>7. AnswersIt(a)
  BY <1>4, <1>6 DEF AnswersIt, T
<1>8. AnswersIt(a)'
  <2> HIDE DEF a
  <2> QED BY <1>3, <1>7, SameIndex
<1>9. Unordered(a) => reranker' = "failed"
  <2> SUFFICES ASSUME Unordered(a) PROVE reranker' = "failed"
    OBVIOUS
  <2>1. Enabled /\ k <= MAX_RERANK_TOP_K /\ Len(list) >= 2 /\ ~reranked
    BY <1>6 DEF Unordered
  <2>2. rerank(list, served, reranked)
    BY <1>2, <2>1 DEF _rerank
  <2> QED BY <2>1, <2>2 DEF rerank
<1>10. reranker' \in {reranker, "loaded", "failed"}
  BY <1>2 DEF _rerank, rerank
<1>11. ASSUME chunks = None PROVE reranker' = reranker
  <2>1. Positions = {}
    BY <1>11 DEF Positions, IndexOf
  <2>2. T = {}
    BY <1>5, <2>1
  <2>3. Len(list) = 0
    BY <1>6, <2>2, FS_EmptySet
  <2>4. ~ (Len(list) >= 2)
    BY <2>3
  <2> QED BY <1>2, <2>4 DEF _rerank
<1>12. answer' = a
  BY <1>2
<1> HIDE DEF a
<1> QED BY <1>3, <1>8, <1>9, <1>10, <1>11, <1>12

LEMMA AnsweredStep ==
  ASSUME IInv, Answered, Tried, [Next]_vars
  PROVE  Answered' /\ Tried'
<1> USE DEF memory, cache, bounds
<1>1. CASE Deploy \/ Kill
  BY <1>1 DEF Deploy, Kill, Forgotten, Answered, Tried
<1>2. ASSUME answer' = answer, phase \notin {"serving"}
      PROVE  Answered'
  <2>1. answer = None
    BY <1>2 DEF Answered
  <2> QED BY <1>2, <2>1 DEF Answered
<1>3. CASE load
  <2>1. answer' = answer /\ phase = "down" /\ chunks' = chunks
    BY <1>3 DEF load
  <2>2. chunks = None
    BY <2>1 DEF IInv, NothingYet
  <2> QED BY <1>2, <2>1, <2>2 DEF Tried
<1>4. CASE initialize
  BY <1>2, <1>4 DEF initialize, Tried
<1>5. CASE _load_embeddings_cache
  BY <1>2, <1>5 DEF _load_embeddings_cache, Tried
<1>6. CASE _compute_embeddings
  BY <1>2, <1>6 DEF _compute_embeddings, Tried
<1>7. CASE _save_embeddings_cache
  BY <1>2, <1>7 DEF _save_embeddings_cache, Write, SaveFails, Tried
<1>8. CASE _warm_reranker
  BY <1>2, <1>8 DEF _warm_reranker, ensure_loaded, Tried
<1>9. CASE retrieve_with_context
  BY <1>9 DEF retrieve_with_context, Answered, Tried
<1>10. ASSUME NEW k \in Widths, retrieve(k) PROVE Answered' /\ Tried'
  <2>1. /\ \A a : answer' = a /\ a # None =>
             phase' = "serving" /\ AnswersIt(a)' /\ (Unordered(a) => reranker' = "failed")
        /\ reranker' \in {reranker, "loaded", "failed"} /\ chunks' = chunks
    BY <1>10, RetrieveAnswers DEF IInv
  <2>2. \A a : Unordered(a)' <=> Unordered(a)
    BY DEF Unordered
  <2>3. phase = "serving"
    BY <1>10 DEF retrieve
  <2> QED BY <2>1, <2>2, <2>3 DEF Answered, Tried
<1>11. CASE UNCHANGED vars
  <2>1. chunks' = chunks /\ answer' = answer /\ phase' = phase /\ reranker' = reranker
    BY <1>11 DEF vars
  <2>2. \A a : AnswersIt(a) => AnswersIt(a)'
    BY <2>1, SameIndex
  <2>3. \A a : Unordered(a)' <=> Unordered(a)
    BY DEF Unordered
  <2> QED BY <2>1, <2>2, <2>3 DEF Answered, Tried
<1> QED
  BY <1>1, <1>3, <1>4, <1>5, <1>6, <1>7, <1>8, <1>9, <1>10, <1>11 DEF Next, StartUp

LEMMA AlwaysAnswered == Spec => [](IInv /\ Answered /\ Tried)
<1>1. Init => Answered /\ Tried
  BY DEF Init, Answered, Tried
<1>2. IInv /\ Answered /\ Tried /\ [Next]_vars => (Answered /\ Tried)'
  BY AnsweredStep
<1> QED BY <1>1, <1>2, Inductive, PTL DEF Spec

\* The order of the cross-encoder costs an answer neither its width nor that its
\* pages are distinct.
LEMMA ChosenIsDistinct ==
  ASSUME chunks \in Stamps \union {None}, NEW a, AnswersIt(a)
  PROVE  /\ Len(a.served) <= a.k
         /\ \A i, j \in DOMAIN a.served :
              i # j => Source(a.served[i]) # Source(a.served[j])
<1> DEFINE S == _lexical_rescue(a.q, a.k).kept \union _lexical_rescue(a.q, a.k).rescued
<1>1. Question(a.q) /\ a.k \in Nat \ {0} /\ a.served \in Orders(S)
  BY WidthAssumption DEF AnswersIt
<1>2. IsFiniteSet(S) /\ Cardinality(S) <= a.k
  BY <1>1, Chosen
<1>3. Positions \in SUBSET Int /\ IsFiniteSet(Positions) /\ a.k \in Int
  BY <1>1, PositionsAreFinite
<1>4. \A c, d \in S : Source(c) = Source(d) => c = d
  BY <1>1, <1>3, ListIsDistinct
<1> HIDE DEF S
<1>5. /\ Len(a.served) = Cardinality(S)
      /\ \A i \in DOMAIN a.served : a.served[i] \in S
      /\ \A i, j \in DOMAIN a.served : a.served[i] = a.served[j] => i = j
  BY <1>1, <1>2, OrdersAreLists
<1> QED BY <1>2, <1>4, <1>5

\* A strong page is one of the k - 1 best, which the rescue does not touch.
LEMMA StrongIsKept ==
  ASSUME chunks \in Stamps \union {None}, NEW a, AnswersIt(a)
  PROVE  Strong(a.q, a.k - 1) \subseteq {Source(a.served[i]) : i \in DOMAIN a.served}
<1> DEFINE q == a.q
           n == a.k - 1
           above == {c \in Positions : q.cosine[c] >= Threshold}
           firsts == Firsts(above, q.cosine)
           S == _lexical_rescue(q, a.k).kept \union _lexical_rescue(q, a.k).rescued
           rivals(c) == {d \in Positions : Source(d) # Source(c) /\ q.cosine[d] >= q.cosine[c]}
<1>1. /\ Question(q) /\ a.k \in Nat \ {0} /\ a.served \in Orders(S)
      /\ n \in Nat
  <2>1. Question(q) /\ a.k \in Nat \ {0} /\ a.served \in Orders(S)
    BY WidthAssumption DEF AnswersIt
  <2>2. \A k \in Nat \ {0} : k - 1 \in Nat
    OBVIOUS
  <2> QED BY <2>1, <2>2
<1>2. /\ IsFiniteSet(S) /\ Dense(q, n) \subseteq S
  BY <1>1, Chosen
<1>3. /\ Positions \in SUBSET Int /\ IsFiniteSet(Positions) /\ Threshold \in Int
      /\ \A c \in Positions : q.cosine[c] \in Int
  BY <1>1, PositionsAreFinite, QuestionAssumption DEF Question
<1>4. /\ above \in SUBSET Int /\ above \subseteq Positions /\ IsFiniteSet(above)
      /\ \A c \in above : q.cosine[c] \in Int
  BY <1>3, FS_Subset
<1>5. SUFFICES ASSUME NEW p \in Strong(q, n)
               PROVE  \E c \in Dense(q, n) : Source(c) = p
  <2>1. \A c \in S : \E i \in DOMAIN a.served : a.served[i] = c
    <3> HIDE DEF S
    <3> QED BY <1>1, <1>2, OrdersAreLists
  <2> HIDE DEF S, q, n
  <2>2. ASSUME NEW p \in Strong(q, n), NEW c \in Dense(q, n), Source(c) = p
        PROVE  p \in {Source(a.served[i]) : i \in DOMAIN a.served}
    BY <1>2, <2>1, <2>2
  <2>3. Strong(q, n) \subseteq {Source(a.served[i]) : i \in DOMAIN a.served}
    BY <1>5, <2>2
  <2> QED BY <2>3 DEF q, n
<1>6. PICK c \in Positions : /\ q.cosine[c] >= Threshold /\ Source(c) = p
                             /\ Cardinality({Source(d) : d \in rivals(c)}) < n
  <2> HIDE DEF q, n
  <2> QED BY DEF Strong, Positions
<1>7. PICK b \in firsts : Source(b) = p /\ q.cosine[b] >= q.cosine[c]
  <2>1. c \in above
    BY <1>6
  <2> HIDE DEF above
  <2> QED BY <1>4, <1>6, <2>1, BestOfPage
<1> DEFINE better == {d \in firsts : Ahead(q.cosine, d, b)}
           named == {Source(d) : d \in better}
           others == {Source(d) : d \in rivals(c)}
<1>8. /\ firsts \subseteq above /\ better \subseteq above
      /\ b \in above /\ q.cosine[b] \in Int /\ q.cosine[c] \in Int
  BY <1>3, <1>4, <1>7 DEF Firsts
<1>9. \A d \in better : d \in rivals(c)
  <2> TAKE d \in better
  <2>1. Ahead(q.cosine, d, b) /\ d \in firsts /\ d \in above /\ d \in Positions
    BY <1>4, <1>8
  <2>2. q.cosine[d] \in Int /\ q.cosine[d] >= q.cosine[b] /\ d # b
    BY <1>3, <1>8, <2>1 DEF Ahead
  <2>3. Source(d) # Source(b)
    <3> SUFFICES ASSUME Source(d) = Source(b) PROVE FALSE
      OBVIOUS
    <3>1. Ahead(q.cosine, b, d)
      BY <1>7, <1>8, <2>1, <2>2 DEF Firsts
    <3> QED BY <1>4, <1>8, <2>1, <2>2, <3>1 DEF Ahead
  <2> QED BY <1>6, <1>7, <1>8, <2>1, <2>2, <2>3
<1>10. \A d, e \in better : Source(d) = Source(e) => d = e
  <2> SUFFICES ASSUME NEW d \in better, NEW e \in better, Source(d) = Source(e), d # e
               PROVE  FALSE
    OBVIOUS
  <2>1. Ahead(q.cosine, d, e) /\ Ahead(q.cosine, e, d)
    BY <1>8 DEF Firsts
  <2>2. d \in Int /\ e \in Int /\ q.cosine[d] \in Int /\ q.cosine[e] \in Int
    BY <1>4, <1>8
  <2> QED BY <2>1, <2>2 DEF Ahead
<1>11. IsFiniteSet(better) /\ IsFiniteSet(rivals(c))
  BY <1>3, <1>4, <1>8, FS_Subset
<1> HIDE DEF rivals, better
<1>12. IsFiniteSet(named) /\ Cardinality(named) = Cardinality(better)
  <2> DEFINE f == [d \in better |-> Source(d)]
  <2>1. DOMAIN f = better /\ named = {f[d] : d \in better}
        /\ \A d, e \in better : f[d] = f[e] => d = e
    BY <1>10
  <2> HIDE DEF f, named
  <2> QED BY <1>11, <2>1, ImageIsFinite
<1>13. IsFiniteSet(others)
  <2> DEFINE f == [d \in rivals(c) |-> Source(d)]
  <2>1. DOMAIN f = rivals(c) /\ others = {f[d] : d \in rivals(c)}
    OBVIOUS
  <2> HIDE DEF f, others
  <2> QED BY <1>11, <2>1, ImageIsFinite
<1>14. Cardinality(better) < n
  <2>1. named \in SUBSET others
    BY <1>9
  <2>2. Cardinality(others) < n
    BY <1>6
  <2> HIDE DEF named, others, n
  <2>3. Cardinality(named) <= Cardinality(others)
    BY <1>13, <2>1, FS_Subset
  <2>4. Cardinality(named) \in Nat /\ Cardinality(others) \in Nat
    BY <1>12, <1>13, FS_CardinalityType
  <2> QED BY <1>1, <1>12, <2>2, <2>3, <2>4
<1>15. b \in Dense(q, n)
  <2>1. Dense(q, n) = _one_chunk_per_page(above, q.cosine, n)
    BY DEF Dense, Positions
  <2>2. b \in _one_chunk_per_page(above, q.cosine, n)
    BY <1>7, <1>14 DEF _one_chunk_per_page, better
  <2> QED BY <2>1, <2>2
<1> QED BY <1>7, <1>15

\* A chunk below the filter is the rescued one.
LEMMA RescueIsAlone ==
  ASSUME chunks \in Stamps \union {None}, NEW a, AnswersIt(a),
         NEW i \in DOMAIN a.served, a.q.cosine[a.served[i]] < Threshold
  PROVE  /\ a.k >= MIN_RESCUE_TOP_K /\ a.q.lexical[a.served[i]] > 0
         /\ Cardinality(Strong(a.q, Len(IndexOf(chunks)))) >= a.k
         /\ \A j \in DOMAIN a.served \ {i} : a.q.cosine[a.served[j]] >= Threshold
<1> DEFINE q == a.q
           k == a.k
           kept == _lexical_rescue(q, k).kept
           rescued == _lexical_rescue(q, k).rescued
           S == kept \union rescued
           n == Len(IndexOf(chunks))
<1>1. Question(q) /\ k \in Nat \ {0} /\ a.served \in Orders(S)
  BY WidthAssumption DEF AnswersIt
<1>2. /\ IsFiniteSet(S) /\ kept \subseteq Positions /\ rescued \subseteq Positions
      /\ \A c \in kept : q.cosine[c] >= Threshold
      /\ \A c, d \in rescued : c = d
      /\ rescued # {} =>
           /\ k >= MIN_RESCUE_TOP_K /\ Cardinality(Dense(q, k)) >= k
           /\ \A c \in rescued : q.lexical[c] > 0
  BY <1>1, Chosen
<1>3. /\ Positions \in SUBSET Int /\ IsFiniteSet(Positions) /\ Threshold \in Int
      /\ n = Cardinality(Positions) /\ n \in Nat
      /\ \A c \in Positions : q.cosine[c] \in Int
  BY <1>1, PositionsAreFinite, FS_CardinalityType, QuestionAssumption DEF Question
<1> HIDE DEF kept, rescued
<1>4. /\ \A j \in DOMAIN a.served : a.served[j] \in S
      /\ \A j, l \in DOMAIN a.served : a.served[j] = a.served[l] => j = l
  <2> HIDE DEF S
  <2> QED BY <1>1, <1>2, OrdersAreLists
<1>5. a.served[i] \in rescued
  <2>1. a.served[i] \in Positions /\ a.served[i] \in S
    BY <1>2, <1>4
  <2> DEFINE x == q.cosine[a.served[i]]
  <2>3. x \in Int /\ x < Threshold /\ Threshold \in Int
    BY <1>3, <2>1
  <2>2. ~ (x >= Threshold)
    <3> HIDE DEF x
    <3> QED BY <2>3
  <2> QED BY <1>2, <2>1, <2>2
<1>6. \A j \in DOMAIN a.served \ {i} : a.q.cosine[a.served[j]] >= Threshold
  BY <1>2, <1>4, <1>5
<1>7. \A c \in Dense(q, k) : c \in Positions /\ q.cosine[c] >= Threshold
  BY DEF Dense, _one_chunk_per_page, Firsts, Positions
<1>8. \A c, d \in Dense(q, k) : Source(c) = Source(d) => c = d
  <2> DEFINE above == {c \in Positions : q.cosine[c] >= Threshold}
  <2>1. Dense(q, k) = _one_chunk_per_page(above, q.cosine, k)
    BY DEF Dense, Positions
  <2>2. above \in SUBSET Int /\ \A c \in above : q.cosine[c] \in Int
    BY <1>3
  <2> HIDE DEF above
  <2> QED BY <2>1, <2>2, CutIsDistinct
<1> HIDE DEF q, k, n
<1>9. ASSUME NEW c \in Dense(q, k) PROVE Source(c) \in Strong(q, n)
  <2> DEFINE rivals == {d \in Positions : Source(d) # Source(c) /\ q.cosine[d] >= q.cosine[c]}
             others == {Source(d) : d \in rivals}
             f == [d \in rivals |-> Source(d)]
  <2>1. rivals \in SUBSET Positions /\ c \in Positions /\ c \notin rivals
    BY <1>7
  <2>2. IsFiniteSet(rivals) /\ Cardinality(rivals) < n
    <3> HIDE DEF rivals
    <3>1. IsFiniteSet(rivals) /\ Cardinality(rivals) <= n /\ Cardinality(rivals) # n
      BY <1>3, <2>1, FS_Subset
    <3>2. Cardinality(rivals) \in Nat
      BY <3>1, FS_CardinalityType
    <3> QED BY <1>3, <3>1, <3>2
  <2>3. DOMAIN f = rivals /\ others = {f[d] : d \in rivals}
    OBVIOUS
  <2>4. Cardinality(others) < n
    <3> HIDE DEF f, others, rivals
    <3>1. IsFiniteSet(others) /\ Cardinality(others) <= Cardinality(rivals)
      BY <2>2, <2>3, ImageIsFinite
    <3>2. Cardinality(others) \in Nat /\ Cardinality(rivals) \in Nat
      BY <2>2, <3>1, FS_CardinalityType
    <3> QED BY <1>3, <2>2, <3>1, <3>2
  <2> QED BY <1>7, <2>1, <2>4 DEF Strong, Positions
<1> DEFINE D == Dense(q, k)
           pages == {Source(c) : c \in D}
           g == [c \in D |-> Source(c)]
<1>10. IsFiniteSet(D) /\ Cardinality(D) \in Nat
  <2>1. D \in SUBSET Positions
    BY <1>7
  <2> HIDE DEF D
  <2> QED BY <1>3, <2>1, FS_Subset, FS_CardinalityType
<1>11. Cardinality(pages) = Cardinality(D)
  <2>1. DOMAIN g = D /\ pages = {g[c] : c \in D}
        /\ \A c, d \in D : g[c] = g[d] => c = d
    BY <1>8
  <2> HIDE DEF g, pages, D
  <2> QED BY <1>10, <2>1, ImageIsFinite
<1>12. IsFiniteSet(Strong(q, n)) /\ Cardinality(Strong(q, n)) \in Nat
  <2> DEFINE h == [c \in Positions |-> Source(c)]
  <2>1. Strong(q, n) \in SUBSET {h[c] : c \in Positions}
    BY DEF Strong, Positions
  <2>3. IsFiniteSet(Positions) /\ DOMAIN h = Positions
    BY <1>3
  <2> HIDE DEF h
  <2>2. IsFiniteSet({h[c] : c \in Positions})
    BY <2>3, ImageIsFinite
  <2>4. IsFiniteSet(Strong(q, n))
    BY <2>1, <2>2, FS_Subset
  <2> QED BY <2>4, FS_CardinalityType
<1>13. Cardinality(pages) <= Cardinality(Strong(q, n))
  <2>1. pages \in SUBSET Strong(q, n)
    BY <1>9
  <2> HIDE DEF pages
  <2> QED BY <1>12, <2>1, FS_Subset
<1>14. Cardinality(D) >= k
  BY <1>2, <1>5
<1>15. Cardinality(Strong(q, n)) >= k
  <2>1. k \in Nat
    BY <1>1
  <2> HIDE DEF D, pages
  <2> QED BY <2>1, <1>10, <1>11, <1>12, <1>13, <1>14
<1>16. k >= MIN_RESCUE_TOP_K /\ q.lexical[a.served[i]] > 0
  BY <1>2, <1>5
<1> QED BY <1>6, <1>15, <1>16 DEF q, k, n

-----------------------------------------------------------------------------
(* Theorems about the answers *)

LEMMA AnswerOfIndex ==
  IInv /\ Answered /\ answer # None =>
    chunks \in Stamps \union {None} /\ AnswersIt(answer)
BY DEF IInv, TypeOK, Answered

\* Every answer holds at most top_k chunks, each of another page, whatever the
\* rescue proposed and in whatever order the cross-encoder put them.
THEOREM SlotsAreDistinct == Spec => []SlotsAreDistinctPages
<1>1. IInv /\ Answered => SlotsAreDistinctPages
  <2> SUFFICES ASSUME IInv, Answered, answer # None
               PROVE  /\ Len(answer.served) <= answer.k
                      /\ \A i, j \in DOMAIN answer.served :
                           i # j => Source(answer.served[i]) # Source(answer.served[j])
    BY DEF SlotsAreDistinctPages
  <2> QED BY AnswerOfIndex, ChosenIsDistinct
<1> QED BY <1>1, AlwaysAnswered, PTL

\* Neither _lexical_rescue nor the cross-encoder costs a question one of its
\* top_k - 1 best pages.
THEOREM StrongPagesAreServed == Spec => []StrongPagesSurvive
<1>1. IInv /\ Answered => StrongPagesSurvive
  BY AnswerOfIndex, StrongIsKept DEF StrongPagesSurvive
<1> QED BY <1>1, AlwaysAnswered, PTL

\* A chunk below the similarity threshold is served alone, in a full list, and
\* because a term of the question occurs in it.
THEOREM RescueIsRare == Spec => []RescueIsAnException
<1>1. IInv /\ Answered => RescueIsAnException
  BY AnswerOfIndex, RescueIsAlone DEF RescueIsAnException
<1> QED BY <1>1, AlwaysAnswered, PTL

\* An answer that was not reordered although it should have been leaves the
\* service reported as degraded.
THEOREM DegradedShows == Spec => []DegradedIsReported
<1>1. Answered => DegradedIsReported
  BY DEF Answered, Unordered, DegradedIsReported, health_check
<1> QED BY <1>1, AlwaysAnswered, PTL

\* No question loads the cross-encoder: on every way to serving an index it has
\* been tried before.
THEOREM NobodyWaits == Spec => NobodyWaitsForAModel
<1>1. ASSUME IInv, Tried, [Next]_vars, phase = "serving", reranker = "uninitialized"
      PROVE  reranker' = "uninitialized"
  <2>1. chunks = None
    BY <1>1 DEF Tried
  <2>2. CASE Deploy \/ Kill
    BY <2>2 DEF Deploy, Kill, Forgotten
  <2>3. ASSUME NEW k \in Widths, retrieve(k) PROVE reranker' = "uninitialized"
    BY <1>1, <2>1, <2>3, RetrieveAnswers DEF IInv
  <2>4. CASE StartUp
    BY <1>1, <2>4
    DEF StartUp, load, initialize, _load_embeddings_cache, _compute_embeddings,
        _save_embeddings_cache, Write, SaveFails, _warm_reranker
  <2>5. CASE retrieve_with_context \/ UNCHANGED vars
    BY <1>1, <2>5 DEF retrieve_with_context, vars, memory
  <2> QED BY <1>1, <2>2, <2>3, <2>4, <2>5 DEF Next
<1>2. IInv /\ Tried /\ [Next]_vars =>
        [phase = "serving" /\ reranker = "uninitialized" => reranker' = "uninitialized"]_vars
  BY <1>1
<1> QED BY <1>2, AlwaysAnswered, PTL DEF Spec, NobodyWaitsForAModel
=============================================================================
