----------------------------- MODULE Transcript -----------------------------
(***************************************************************************)
(* What the conversation store promises, without memory, threads, retries  *)
(* or clocks: every conversation has a transcript of numbered exchanges    *)
(* and a script of messages that grow together and are erased together,    *)
(* and a client is told the number of an exchange only after it was        *)
(* written.  ConversationStore implements this specification.              *)
(***************************************************************************)
EXTENDS Sequences

CONSTANTS Cids, Requests

VARIABLES
  entries,   \* the numbered exchanges on record, per conversation
  script,    \* the messages on record, per conversation, in order
  written,   \* every exchange that ever was on record
  acked      \* the numbers each client was told

Init ==
  /\ entries = [c \in Cids |-> {}]
  /\ script = [c \in Cids |-> <<>>]
  /\ written = [c \in Cids |-> {}]
  /\ acked = [r \in Requests |-> {}]

\* An exchange is written under a number no other exchange has.
Write(c, e) ==
  /\ \A f \in entries[c] : f.n # e.n
  /\ entries' = [entries EXCEPT ![c] = @ \cup {e}]
  /\ script' = [script EXCEPT ![c] = Append(@, e.text)]
  /\ written' = [written EXCEPT ![c] = @ \cup {e}]
  /\ UNCHANGED acked

\* Whole conversations are forgotten, never a part of one.
Erase(C) ==
  /\ entries' = [c \in Cids |-> IF c \in C THEN {} ELSE entries[c]]
  /\ script' = [c \in Cids |-> IF c \in C THEN <<>> ELSE script[c]]
  /\ UNCHANGED <<written, acked>>

Acknowledge(r, c, e) ==
  /\ acked[r] = {}
  /\ e \in written[c]
  /\ acked' = [acked EXCEPT ![r] = {e.n}]
  /\ UNCHANGED <<entries, script, written>>

\* The number is the implementation's to choose: the exchange is taken from the
\* history as it will be, which spares a quantifier over Nat.
Next ==
  \/ \E c \in Cids : \E e \in written'[c] : Write(c, e)
  \/ \E C \in SUBSET Cids : Erase(C)
  \/ \E r \in Requests, c \in Cids : \E e \in written[c] : Acknowledge(r, c, e)

Spec == Init /\ [][Next]_<<entries, script, written, acked>>
=============================================================================
