----------------------------- MODULE MCArchive -----------------------------
(***************************************************************************)
(* A small instance of Archive for TLC.                                    *)
(***************************************************************************)
EXTENDS Archive, TLC

\* Nothing orders the labels of exchanges.
MCSymmetry == Permutations(Labels)

\* A host ahead of UTC and one behind it.
MCOffsets == {-1, 1}

\* A reader matters while a write is open, of the audio the oldest file, and the
\* clock while somebody looks at it.
OneThingAtATime ==
  /\ "reader" \in others' \ others => writers # {}
  /\ clips' \subseteq clips \/ now = 0
  /\ now' = now \/ proc = "up"
=============================================================================
