------------------------------ MODULE Chunking ------------------------------
(***************************************************************************)
(* How RAGPipeline._chunk_document cuts a page of the wiki into chunks.    *)
(*                                                                         *)
(* A page is its confidence and the sections split_sections makes of it; a *)
(* section is its number of words and whether it states anything (a list   *)
(* of links or a heading without a body does not).  A chunk is the page it *)
(* comes from, its section and the positions of its words.                 *)
(***************************************************************************)
EXTENDS Integers, FiniteSets, TLAPS

Section == [words : Nat, states : BOOLEAN]
Confidence == {"low", "other"}

\* Mutant: the stride of a pipeline that leaves a gap of the overlap.
Starts_gap(n, size, overlap) == {s \in 0 .. n - 1 : \E k \in 0 .. n : s = k * (size + overlap)}

\* `start` through the while loop: start += chunk_size - chunk_overlap.
Starts(n, size, overlap) == {s \in 0 .. n - 1 : \E k \in 0 .. n : s = k * (size - overlap)}

\* words[start:min(start + chunk_size, len(words))]
Words(start, n, size) == {w \in start .. start + size - 1 : w < n}

\* The word sets of the chunks of a section of n words.
Pieces(n, size, overlap) ==
  IF n <= size THEN {Words(0, n, size)}
  ELSE {Words(s, n, size) : s \in Starts(n, size, overlap)}

\* A section that reaches the index: not a bare heading, not only links.
Kept(page) == {i \in DOMAIN page.sections : page.sections[i].states /\ page.sections[i].words > 0}

\* _chunk_document: a page of low confidence contributes nothing.
_chunk_document(name, page, size, overlap) ==
  IF page.confidence = "low" THEN {}
  ELSE UNION {{[source |-> name, section |-> i, text |-> t] :
                 t \in Pieces(page.sections[i].words, size, overlap)} : i \in Kept(page)}

-----------------------------------------------------------------------------
\* The loop visits a window around every word, for any section and any setting
\* in which the overlap is smaller than the chunk: nothing that was kept is
\* missing from the index.  (Nothing in config.py checks that condition; without
\* it the loop of the code does not advance.)
THEOREM EveryWordIsIndexed ==
  ASSUME NEW n \in Nat, NEW size \in Nat, NEW overlap \in Nat, overlap < size,
         NEW w \in 0 .. n - 1
  PROVE  \E t \in Pieces(n, size, overlap) : w \in t
<1>1. CASE n <= size
  <2>1. Words(0, n, size) \in Pieces(n, size, overlap)
    BY <1>1 DEF Pieces
  <2>2. w \in Words(0, n, size)
    BY <1>1 DEF Words
  <2> QED BY <2>1, <2>2
<1>2. CASE n > size
  <2> DEFINE step == size - overlap
             k == w \div step
  <2>1. step \in Nat \ {0} /\ step <= size
    OBVIOUS
  <2>2. k \in Nat /\ step * k <= w /\ w < step * k + step
    BY <2>1
  <2>3. k <= w
    BY <2>1, <2>2
  <2> HIDE DEF k, step
  <2>4. k * step = step * k /\ k * step \in 0 .. n - 1 /\ k \in 0 .. n
    BY <2>1, <2>2, <2>3
  <2>5. k * step \in Starts(n, size, overlap)
    BY <2>4 DEF Starts, step
  <2>6. w \in Words(k * step, n, size)
    BY <2>1, <2>2, <2>4 DEF Words
  <2> QED BY <1>2, <2>5, <2>6 DEF Pieces
<1> QED BY <1>1, <1>2
=============================================================================
