---------------------------- MODULE MCRetrieval ----------------------------
(***************************************************************************)
(* A small instance of Retrieval for TLC: a wiki of five pages, one of     *)
(* them long enough to be split and one of low confidence; the same wiki   *)
(* after an edit that leaves as many chunks; and a wiki of a single page.  *)
(***************************************************************************)
EXTENDS Retrieval

CONSTANTS first, edited, small

Stated(words) == [words |-> words, states |-> TRUE]
Links == [words |-> 1, states |-> FALSE]
Page(confidence, sections) == [confidence |-> confidence, sections |-> sections]

Pages ==
  << Page("other", <<Stated(4)>>), Page("other", <<Stated(1), Links>>),
     Page("other", <<Stated(2)>>), Page("other", <<Stated(1)>>),
     Page("low", <<Stated(2)>>) >>

MCWiki ==
  LET with(documents) == [documents |-> documents, size |-> 3, overlap |-> 1]
  IN  [s \in Settings |->
         CASE s = first  -> with(Pages)
           [] s = edited -> with([Pages EXCEPT ![2] = Page("other", <<Stated(2), Links>>)])
           [] s = small  -> with(<<Page("other", <<Stated(1)>>)>>)]

\* The cosines of the first chunks of the pages, of the other chunk of the split
\* page, and the page a term of the question occurs in.
MCQuestions(index) ==
  LET pages == {index[c].source : c \in DOMAIN index}
  IN  {[cosine |-> [c \in DOMAIN index |-> IF 0 \in index[c].text THEN f[index[c].source] ELSE rest],
        lexical |-> [c \in DOMAIN index |-> IF index[c].source = named THEN 1 ELSE 0]] :
         f \in [pages -> 0 .. 2], rest \in {0, 2}, named \in {0, 1, 4}}
=============================================================================
