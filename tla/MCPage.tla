------------------------------- MODULE MCPage -------------------------------
(***************************************************************************)
(* A small instance of Page for TLC.                                       *)
(***************************************************************************)
EXTENDS Page

\* After these histories no property promises anything: the first states are
\* checked, and what follows on them is not, up to one turn of a hurried page.
MCStillPromised == ~twice /\ (hurried => \A t \in Turns : t > 1 => turn[t] = "unused")

\* For the shortest account of a goodbye.
MCUnhurried == ~hurried
=============================================================================
