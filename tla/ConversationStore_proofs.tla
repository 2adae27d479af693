----------------------- MODULE ConversationStore_proofs -----------------------
(***************************************************************************)
(* Theorems about ConversationStore, for any number of conversations,      *)
(* requests, contents, restarts and faults, and a clock without limit.     *)
(*                                                                         *)
(* The argument goes from the disk outwards: only three kinds of step      *)
(* touch the tables (DiskSteps), which gives the consistency of what is on *)
(* disk; what is read from it or reported by it is therefore something     *)
(* that was committed (CommitInv); and that is enough for the refinement.  *)
(* What needs more is that both copies are the same (AgreeInv): it holds   *)
(* within the TTL and with one hydration of a conversation at a time.      *)
(***************************************************************************)
EXTENDS ConversationStore, FiniteSetTheorems, SequenceTheorems, TLAPS

-----------------------------------------------------------------------------
(* Lemmas about the operators *)

\* A sequence gains exactly the element that is appended to it.
LEMMA ElemsAppend ==
  ASSUME NEW S, NEW s \in Seq(S), NEW e \in S
  PROVE  Elems(Append(s, e)) = Elems(s) \cup {e}
<1>1. DOMAIN Append(s, e) = 1..(Len(s) + 1) /\ DOMAIN s = 1..Len(s)
  OBVIOUS
<1>2. \A i \in 1..Len(s) : Append(s, e)[i] = s[i]
  OBVIOUS
<1>3. Append(s, e)[Len(s) + 1] = e
  OBVIOUS
<1>4. 1..(Len(s) + 1) = (1..Len(s)) \cup {Len(s) + 1}
  OBVIOUS
<1> QED BY <1>1, <1>2, <1>3, <1>4 DEF Elems

\* Forgetting one conversation keeps the others.
LEMMA ClearedEntry ==
  ASSUME NEW S, NEW f \in [Cids -> Seq(S)], NEW c \in Cids
  PROVE  [f EXCEPT ![c] = <<>>] \in [Cids -> Seq(S)]
<1>1. <<>> \in Seq(S)
  OBVIOUS
<1> QED BY <1>1

\* Growing one sequence of a family keeps the family.
LEMMA AppendedEntry ==
  ASSUME NEW S, NEW f \in [Cids -> Seq(S)], NEW c \in Cids, NEW e \in S
  PROVE  [f EXCEPT ![c] = Append(@, e)] \in [Cids -> Seq(S)]
<1>1. Append(f[c], e) \in Seq(S)
  OBVIOUS
<1> QED BY <1>1

\* What SELECT ... ORDER BY n returns is a sequence of rows of the table.
LEMMA OrderedIsSeq ==
  ASSUME NEW S, IsFiniteSet(S), NEW s \in OrderedByN(S)
  PROVE  s \in Seq(S) /\ Elems(s) \subseteq S
<1>1. Cardinality(S) \in Nat
  BY FS_CardinalityType
<1>2. s \in [1..Cardinality(S) -> S]
  BY DEF OrderedByN
<1>3. s \in Seq(S)
  BY <1>1, <1>2, SeqDef
<1> QED BY <1>2, <1>3 DEF Elems

\* The number record_turn settles on is a natural number.
LEMMA CommittedNIsNat ==
  ASSUME NEW S \in SUBSET Turn, NEW k \in Nat, NEW n \in CommittedN(S, k)
  PROVE  n \in Nat
BY DEF CommittedN, NextFree, Numbers, Turn

-----------------------------------------------------------------------------
(* What happens to the tables *)

\* A step leaves the tables alone, adds a conversation row, commits one turn
\* of one request, or erases whole conversations.
LEMMA DiskSteps ==
  ASSUME TypeOK, [Next]_vars
  PROVE  \/ UNCHANGED <<stored, rows, log, ever>>
         \/ /\ stored \subseteq stored' /\ stored' \subseteq Cids
            /\ UNCHANGED <<rows, log, ever>>
         \/ \E r \in Requests, n \in Nat :
              /\ r \in Requests /\ pc[r] \in {"writing", "detached"}
              /\ commit_turn(r, n)
         \/ \E C \in SUBSET Cids : delete_rows(C)
<1>1. ASSUME NEW c \in Cids, create_conversation(c) \/ record_conversation(c)
      PROVE  /\ stored \subseteq stored' /\ stored' \subseteq Cids
             /\ UNCHANGED <<rows, log, ever>>
  BY <1>1 DEF create_conversation, record_conversation, TypeOK, diskVars
<1>2. ASSUME NEW r \in Requests, record_turn(r)
      PROVE  \/ UNCHANGED <<stored, rows, log, ever>>
             \/ \E n \in Nat : pc[r] \in {"writing", "detached"} /\ commit_turn(r, n)
  <2>1. rows[asked[r].cid] \in SUBSET Turn /\ wanted[r] \in Nat
    BY DEF TypeOK, Asked
  <2>2. CASE UNCHANGED <<diskVars, result>>
    BY <2>2 DEF diskVars
  <2>3. CASE \E n \in CommittedN(rows[asked[r].cid], wanted[r]) : commit_turn(r, n)
    BY <1>2, <2>1, <2>3, CommittedNIsNat DEF record_turn, Goto
  <2> QED BY <1>2, <2>2, <2>3 DEF record_turn
<1>3. ASSUME NEW r \in Requests,
             load_row(r) \/ load_turns(r) \/ load_messages(r) \/ hydrate(r)
               \/ abandon(r) \/ build_turn(r) \/ persist_turn(r) \/ disconnect(r)
      PROVE  UNCHANGED <<stored, rows, log, ever>>
  BY <1>3 DEF load_row, load_turns, load_messages, hydrate, abandon, build_turn,
     persist_turn, disconnect, diskVars
<1>4. ASSUME NEW r \in Requests, NEW q \in Asked, get_conversation(r, q)
      PROVE  UNCHANGED <<stored, rows, log, ever>>
  BY <1>4 DEF get_conversation, diskVars
<1>5. ASSUME evict_conversation \/ prune_conversations
      PROVE  \/ UNCHANGED <<stored, rows, log, ever>>
             \/ \E C \in SUBSET Cids : delete_rows(C)
  BY <1>5 DEF evict_conversation, prune_conversations, diskVars, TypeOK
<1>6. ASSUME evict_stale_conversations \/ record_report \/ evict_linked \/ evict_resume
      PROVE  UNCHANGED <<stored, rows, log, ever>>
  BY <1>6 DEF evict_stale_conversations, record_report, evict_linked, evict_resume,
     diskVars
<1>7. ASSUME Tick \/ Restart \/ UNCHANGED vars
      PROVE  UNCHANGED <<stored, rows, log, ever>>
  BY <1>7 DEF Tick, Restart, vars, diskVars
<1> QED BY <1>1, <1>2, <1>3, <1>4, <1>5, <1>6, <1>7 DEF Next, Serve, Sweep

-----------------------------------------------------------------------------
(* Type correctness and the consistency of the tables *)

\* load_turns is well typed only because a table is finite, so the two
\* invariants are proved together.
StoreInv == TypeOK /\ TranscriptConsistent

LEMMA InitStoreInv == Init => StoreInv
<1>1. Cids # {} /\ Texts # {}
  BY ConstantsAssumption
<1>2. (CHOOSE c \in Cids : TRUE) \in Cids
  BY <1>1
<1>3. (CHOOSE q \in Asked : TRUE) \in Asked
  <2>1. \A c \in Cids, t \in Texts : [cid |-> c, kind |-> "turn", text |-> t] \in Asked
    BY DEF Asked, Kinds
  <2> QED BY <1>1, <2>1
<1>4. IsFiniteSet({}) /\ Cardinality({}) = 0
  BY FS_EmptySet
<1> SUFFICES ASSUME Init PROVE StoreInv
  OBVIOUS
<1>5. TypeOK
  BY <1>2, <1>3 DEF Init, TypeOK, Loaded, NothingLoaded, Assembled, Stages, SweepStages
<1>6. TranscriptConsistent
  BY <1>4 DEF Init, TranscriptConsistent
<1> QED BY <1>5, <1>6 DEF StoreInv

LEMMA TypeStep == StoreInv /\ [Next]_vars => TypeOK'
<1> SUFFICES ASSUME TypeOK, TranscriptConsistent, [Next]_vars PROVE TypeOK'
  BY DEF StoreInv
<1> USE DEF TypeOK
<1>1. ASSUME NEW c \in Cids, create_conversation(c) PROVE TypeOK'
  BY <1>1 DEF create_conversation, clockVars, diskVars, reqVars, sweepVars
<1>2. ASSUME NEW c \in Cids, record_conversation(c) PROVE TypeOK'
  BY <1>2 DEF record_conversation, clockVars, memVars, reqVars, sweepVars
<1>3. ASSUME NEW r \in Requests, NEW q \in Asked, get_conversation(r, q) PROVE TypeOK'
  BY <1>3 DEF get_conversation, Finish, Stages, clockVars, memVars, diskVars, sweepVars
<1>4. ASSUME NEW r \in Requests, load_row(r) PROVE TypeOK'
  <2>1. asked[r].cid \in Cids
    BY DEF Asked
  <2>2. Assembled(dbActive[asked[r].cid], <<>>, <<>>) \in Loaded
    BY <2>1 DEF Assembled, Loaded
  <2>3. loaded' \in [Requests -> Loaded]
    BY <1>4, <2>2 DEF load_row
  <2>4. pc' \in [Requests -> Stages]
    BY <1>4 DEF load_row, Goto, Stages
  <2> QED BY <1>4, <2>3, <2>4 DEF load_row, clockVars, memVars, diskVars, sweepVars
<1>5. ASSUME NEW r \in Requests, load_turns(r) PROVE TypeOK'
  <2> DEFINE S == rows[asked[r].cid]
  <2>1. PICK s \in OrderedByN(S) :
           loaded' = [loaded EXCEPT ![r] = Assembled(@.active, s, <<>>)]
    BY <1>5 DEF load_turns
  <2>2. S \in SUBSET Turn /\ IsFiniteSet(S)
    BY DEF TranscriptConsistent, Asked
  <2>3. s \in Seq(Turn)
    BY <2>2, OrderedIsSeq, SeqMonotonic
  <2>4. loaded' \in [Requests -> Loaded]
    BY <2>1, <2>3 DEF Assembled, Loaded
  <2> QED BY <1>5, <2>4 DEF load_turns, Goto, Stages, clockVars, memVars, diskVars,
        sweepVars
<1>6. ASSUME NEW r \in Requests, load_messages(r) PROVE TypeOK'
  BY <1>6 DEF load_messages, Goto, Asked, Assembled, Loaded, Stages, clockVars,
     memVars, diskVars, sweepVars
<1>7. ASSUME NEW r \in Requests, hydrate(r) PROVE TypeOK'
  <2>1. asked[r].cid \in Cids
    BY DEF Asked
  <2>2. /\ loaded[r].active \in Nat /\ loaded[r].turns \in Seq(Turn)
        /\ loaded[r].messages \in Seq(Texts)
    BY DEF Loaded
  <2>3. /\ live' \subseteq Cids /\ turns' \in [Cids -> Seq(Turn)]
        /\ messages' \in [Cids -> Seq(Texts)] /\ active' \in [Cids -> Nat]
    BY <1>7, <2>1, <2>2 DEF hydrate
  <2>4. loaded' \in [Requests -> Loaded]
    BY <1>7 DEF hydrate, NothingLoaded, Assembled, Loaded
  <2>5. pc' \in [Requests -> Stages]
    BY <1>7 DEF hydrate, Goto, Stages
  <2> QED BY <1>7, <2>3, <2>4, <2>5 DEF hydrate, clockVars, diskVars, sweepVars
<1>8. ASSUME NEW r \in Requests, abandon(r) \/ disconnect(r) PROVE TypeOK'
  BY <1>8 DEF abandon, disconnect, Goto, Stages, clockVars, memVars, diskVars, sweepVars
<1>9. ASSUME NEW r \in Requests, build_turn(r) PROVE TypeOK'
  BY <1>9 DEF build_turn, Goto, Stages, clockVars, diskVars, sweepVars
<1>10. ASSUME NEW r \in Requests, record_turn(r) PROVE TypeOK'
  <2>1. rows[asked[r].cid] \in SUBSET Turn /\ wanted[r] \in Nat /\ asked[r].text \in Texts
        /\ asked[r].cid \in Cids
    BY DEF Asked
  <2>2. ASSUME NEW n \in Nat, commit_turn(r, n)
        PROVE  /\ stored' \subseteq Cids /\ rows' \in [Cids -> SUBSET Turn]
               /\ log' \in [Cids -> Seq(Texts)] /\ dbActive' \in [Cids -> Nat]
               /\ ever' \in [Cids -> SUBSET Turn]
               /\ result' \in [Requests -> Turn \cup {NoTurn}]
    <3> DEFINE t == [n |-> n, text |-> asked[r].text]
    <3>1. t \in Turn /\ t.text = asked[r].text
      BY <2>1 DEF Turn
    <3>2. stored' \subseteq Cids /\ dbActive' \in [Cids -> Nat]
      BY <2>1, <2>2 DEF commit_turn
    <3>3. /\ rows' = [rows EXCEPT ![asked[r].cid] = @ \cup {t}]
          /\ log' = [log EXCEPT ![asked[r].cid] = Append(@, asked[r].text)]
          /\ ever' = [ever EXCEPT ![asked[r].cid] = @ \cup {t}]
          /\ result' = [result EXCEPT ![r] = t]
      BY <2>2, <3>1 DEF commit_turn
    <3> HIDE DEF t
    <3>4. log' \in [Cids -> Seq(Texts)]
      BY <2>1, <3>3
    <3>5. rows' \in [Cids -> SUBSET Turn] /\ ever' \in [Cids -> SUBSET Turn]
      BY <2>1, <3>1, <3>3
    <3>6. result' \in [Requests -> Turn \cup {NoTurn}]
      BY <3>1, <3>3
    <3> QED BY <3>2, <3>4, <3>5, <3>6
  <2>3. pc' \in [Requests -> Stages]
    BY <1>10 DEF record_turn, Goto, Stages
  <2>4. /\ stored' \subseteq Cids /\ rows' \in [Cids -> SUBSET Turn]
        /\ log' \in [Cids -> Seq(Texts)] /\ dbActive' \in [Cids -> Nat]
        /\ ever' \in [Cids -> SUBSET Turn]
        /\ result' \in [Requests -> Turn \cup {NoTurn}]
    BY <1>10, <2>1, <2>2, CommittedNIsNat DEF record_turn, diskVars
  <2> QED BY <1>10, <2>3, <2>4 DEF record_turn, clockVars, memVars, sweepVars
<1>11. ASSUME NEW r \in Requests, persist_turn(r) PROVE TypeOK'
  <2>1. asked[r].cid \in Cids /\ asked[r].text \in Texts
    BY DEF Asked
  <2>2. PICK t \in Turn :
           \/ UNCHANGED <<turns, messages, told>>
           \/ /\ turns' = [turns EXCEPT ![asked[r].cid] = Append(@, t)]
              /\ messages' = [messages EXCEPT ![asked[r].cid] = Append(@, t.text)]
              /\ told' = [told EXCEPT ![r] = {t.n}]
    <3>1. Requested(r) \in Turn
      BY <2>1 DEF Requested, Turn
    <3>2. CASE result[r] # NoTurn
      BY <1>11, <3>2 DEF persist_turn
    <3>3. CASE result[r] = NoTurn
      BY <1>11, <3>1, <3>3 DEF persist_turn
    <3> QED BY <3>2, <3>3
  <2>3. /\ turns' \in [Cids -> Seq(Turn)] /\ messages' \in [Cids -> Seq(Texts)]
        /\ told' \in [Requests -> SUBSET Nat]
    <3>1. t.n \in Nat /\ t.text \in Texts
      BY DEF Turn
    <3>2. CASE UNCHANGED <<turns, messages, told>>
      BY <3>2
    <3>3. CASE /\ turns' = [turns EXCEPT ![asked[r].cid] = Append(@, t)]
               /\ messages' = [messages EXCEPT ![asked[r].cid] = Append(@, t.text)]
               /\ told' = [told EXCEPT ![r] = {t.n}]
      BY <2>1, <3>1, <3>3, AppendedEntry
    <3> QED BY <2>2, <3>2, <3>3
  <2>4. pc' \in [Requests -> Stages]
    BY <1>11 DEF persist_turn, Goto, Stages
  <2> QED BY <1>11, <2>3, <2>4 DEF persist_turn, clockVars, diskVars, sweepVars
<1>pop. ASSUME NEW c \in Cids, pop(c)
        PROVE  /\ live' \subseteq Cids /\ turns' \in [Cids -> Seq(Turn)]
               /\ messages' \in [Cids -> Seq(Texts)] /\ active' \in [Cids -> Nat]
  <2>1. turns' = [turns EXCEPT ![c] = <<>>] /\ messages' = [messages EXCEPT ![c] = <<>>]
    BY <1>pop DEF pop
  <2>3. turns' \in [Cids -> Seq(Turn)]
    BY <2>1, ClearedEntry
  <2>4. messages' \in [Cids -> Seq(Texts)]
    BY <2>1, ClearedEntry
  <2> QED BY <1>pop, <2>3, <2>4 DEF pop
<1>12. ASSUME NEW S \in SUBSET Cids, evict_next(S)
       PROVE  /\ live' \subseteq Cids /\ turns' \in [Cids -> Seq(Turn)]
              /\ messages' \in [Cids -> Seq(Texts)] /\ active' \in [Cids -> Nat]
              /\ todo' \subseteq Cids /\ victim' \in Cids /\ sweep' \in SweepStages
  BY <1>12, <1>pop DEF evict_next, memVars, SweepStages
<1>13. ASSUME evict_stale_conversations \/ evict_resume PROVE TypeOK'
  BY <1>12, <1>13 DEF evict_stale_conversations, evict_resume, clockVars, diskVars, reqVars
<1>14. ASSUME record_report \/ evict_linked PROVE TypeOK'
  BY <1>14, <1>pop DEF record_report, evict_linked, SweepStages, clockVars, memVars,
     diskVars, reqVars
<1>15. ASSUME evict_conversation \/ prune_conversations PROVE TypeOK'
  <2>1. ASSUME NEW C, delete_rows(C)
        PROVE  /\ stored' \subseteq Cids /\ rows' \in [Cids -> SUBSET Turn]
               /\ log' \in [Cids -> Seq(Texts)]
               /\ UNCHANGED <<dbActive, ever>>
    <3>1. <<>> \in Seq(Texts)
      OBVIOUS
    <3>2. log' \in [Cids -> Seq(Texts)]
      BY <2>1, <3>1 DEF delete_rows
    <3> QED BY <2>1, <3>2 DEF delete_rows
  <2>2. /\ stored' \subseteq Cids /\ rows' \in [Cids -> SUBSET Turn]
        /\ log' \in [Cids -> Seq(Texts)]
        /\ UNCHANGED <<dbActive, ever>>
    BY <1>15, <2>1 DEF evict_conversation, prune_conversations, diskVars
  <2>3. sweep' \in SweepStages
    BY <1>15 DEF evict_conversation, prune_conversations, SweepStages
  <2> QED BY <1>15, <2>2, <2>3 DEF evict_conversation, prune_conversations,
        clockVars, memVars, reqVars
<1>16. ASSUME Tick PROVE TypeOK'
  BY <1>16 DEF Tick, memVars, diskVars, reqVars, sweepVars
<1>18. ASSUME Restart PROVE TypeOK'
  <2>1. <<>> \in Seq(Turn) /\ <<>> \in Seq(Texts)
    OBVIOUS
  <2>2. turns' \in [Cids -> Seq(Turn)] /\ messages' \in [Cids -> Seq(Texts)]
    BY <1>18, <2>1 DEF Restart
  <2>3. loaded' \in [Requests -> Loaded]
    BY <1>18 DEF Restart, NothingLoaded, Assembled, Loaded
  <2>4. pc' \in [Requests -> Stages]
    BY <1>18 DEF Restart, Stages
  <2>5. phase' \in [Cids -> {"unborn", "creating", "open"}]
    BY <1>18 DEF Restart
  <2> QED BY <1>18, <2>2, <2>3, <2>4, <2>5 DEF Restart, SweepStages, diskVars
<1>17. ASSUME UNCHANGED vars PROVE TypeOK'
  BY <1>17 DEF vars, clockVars, memVars, diskVars, reqVars, sweepVars
<1> QED BY <1>1, <1>2, <1>3, <1>4, <1>5, <1>6, <1>7, <1>8, <1>9, <1>10, <1>11, <1>13,
      <1>14, <1>15, <1>16, <1>17, <1>18 DEF Next, Serve, Sweep

\* Adding a turn with a fresh number keeps numbers unique and the tables level.
LEMMA CommitKeepsTranscript ==
  ASSUME TypeOK, TranscriptConsistent, NEW r \in Requests, NEW n \in Nat,
         commit_turn(r, n)
  PROVE  TranscriptConsistent'
<1> DEFINE d == asked[r].cid
           t == [n |-> n, text |-> asked[r].text]
<1>1. d \in Cids /\ asked[r].text \in Texts /\ t \in Turn
  BY DEF TypeOK, Asked, Turn
<1>2. /\ rows' = [rows EXCEPT ![d] = @ \cup {t}]
      /\ log' = [log EXCEPT ![d] = Append(@, t.text)]
      /\ stored' = stored \cup {d}
      /\ n \notin Numbers(rows[d])
  BY DEF commit_turn
<1>3. /\ rows \in [Cids -> SUBSET Turn] /\ log \in [Cids -> Seq(Texts)]
  BY DEF TypeOK
<1>4. \A u \in rows[d] : u.n # n
  BY <1>2 DEF Numbers
<1>5. /\ IsFiniteSet(rows[d] \cup {t})
      /\ Cardinality(rows[d] \cup {t}) = Cardinality(rows[d]) + 1
  <2>1. t \notin rows[d]
    BY <1>4
  <2>2. IsFiniteSet(rows[d])
    BY <1>1 DEF TranscriptConsistent
  <2> QED BY <2>1, <2>2, FS_AddElement
<1>6. Len(Append(log[d], t.text)) = Len(log[d]) + 1
  BY <1>1, <1>3
<1> SUFFICES ASSUME NEW c \in Cids
             PROVE  /\ \A u, v \in rows'[c] : u.n = v.n => u = v
                    /\ IsFiniteSet(rows'[c]) /\ Len(log'[c]) = Cardinality(rows'[c])
                    /\ c \notin stored' => rows'[c] = {}
  BY DEF TranscriptConsistent
<1>7. CASE c = d
  <2>1. rows'[c] = rows[d] \cup {t} /\ log'[c] = Append(log[d], t.text) /\ c \in stored'
    BY <1>2, <1>3, <1>7
  <2>2. \A u, v \in rows[d] \cup {t} : u.n = v.n => u = v
    BY <1>1, <1>4 DEF TranscriptConsistent
  <2>3. Len(log[d]) = Cardinality(rows[d])
    BY <1>1 DEF TranscriptConsistent
  <2> QED BY <1>5, <1>6, <2>1, <2>2, <2>3
<1>8. CASE c # d
  <2>1. rows'[c] = rows[c] /\ log'[c] = log[c] /\ (c \in stored' <=> c \in stored)
    BY <1>2, <1>3, <1>8
  <2> QED BY <2>1 DEF TranscriptConsistent
<1> QED BY <1>7, <1>8

LEMMA TranscriptStep == StoreInv /\ [Next]_vars => TranscriptConsistent'
<1> SUFFICES ASSUME TypeOK, TranscriptConsistent, [Next]_vars
             PROVE  TranscriptConsistent'
  BY DEF StoreInv
<1>1. CASE UNCHANGED <<stored, rows, log, ever>>
  BY <1>1 DEF TranscriptConsistent
<1>2. CASE stored \subseteq stored' /\ UNCHANGED <<rows, log, ever>>
  BY <1>2 DEF TranscriptConsistent
<1>3. ASSUME NEW r \in Requests, NEW n \in Nat, commit_turn(r, n)
      PROVE  TranscriptConsistent'
  BY <1>3, CommitKeepsTranscript
<1>4. ASSUME NEW C \in SUBSET Cids, delete_rows(C)
      PROVE  TranscriptConsistent'
  <2> SUFFICES ASSUME NEW c \in Cids
               PROVE  /\ \A u, v \in rows'[c] : u.n = v.n => u = v
                      /\ IsFiniteSet(rows'[c]) /\ Len(log'[c]) = Cardinality(rows'[c])
                      /\ c \notin stored' => rows'[c] = {}
    BY DEF TranscriptConsistent
  <2>1. CASE c \in C
    <3>1. rows'[c] = {} /\ log'[c] = <<>>
      BY <1>4, <2>1 DEF delete_rows
    <3> QED BY <3>1, FS_EmptySet
  <2>2. CASE c \notin C
    <3>1. rows'[c] = rows[c] /\ log'[c] = log[c] /\ (c \in stored' <=> c \in stored)
      BY <1>4, <2>2 DEF delete_rows
    <3> QED BY <3>1 DEF TranscriptConsistent
  <2> QED BY <2>1, <2>2
<1> QED BY <1>1, <1>2, <1>3, <1>4, DiskSteps

LEMMA StoreInvariant == Spec => []StoreInv
<1>1. StoreInv /\ [Next]_vars => StoreInv'
  BY TypeStep, TranscriptStep DEF StoreInv
<1> QED BY <1>1, InitStoreInv, PTL DEF Spec

(***************************************************************************)
(* Every variable keeps its type, whatever the sizes of the constants.     *)
(***************************************************************************)
THEOREM TypeCorrect == Spec => []TypeOK
<1>1. StoreInv => TypeOK
  BY DEF StoreInv
<1> QED BY <1>1, StoreInvariant, PTL

(***************************************************************************)
(* Turn numbers on disk are unique and every turn has its message, with    *)
(* any number of writers, retries, evictions and crashes.                  *)
(***************************************************************************)
THEOREM TranscriptIsConsistent == Spec => []TranscriptConsistent
<1>1. StoreInv => TranscriptConsistent
  BY DEF StoreInv
<1> QED BY <1>1, StoreInvariant, PTL

-----------------------------------------------------------------------------
(* What is in memory, in a hydration or in a reply was committed *)

\* MemoryWasCommitted speaks of memory and replies; what is inductive also
\* speaks of the values on their way there: a dictionary half loaded, a result
\* that the event loop has not taken up, and a request that has not begun.
PartlyLoadedWasCommitted ==
  \A r \in Requests : Elems(loaded[r].turns) \subseteq ever[asked[r].cid]

ResultWasCommitted ==
  \A r \in Requests :
    result[r] # NoTurn =>
      result[r] \in ever[asked[r].cid] /\ result[r].text = asked[r].text

NothingBeforeTheRequest ==
  \A r \in Requests :
    /\ pc[r] = "idle" => result[r] = NoTurn /\ loaded[r] = NothingLoaded
    /\ pc[r] # "done" => told[r] = {}

RowsWereCommitted == \A c \in Cids : rows[c] \subseteq ever[c]

CommitInv ==
  /\ RowsWereCommitted
  /\ PartlyLoadedWasCommitted
  /\ ResultWasCommitted
  /\ NothingBeforeTheRequest
  /\ MemoryWasCommitted

LEMMA ElemsEmpty == Elems(<<>>) = {}
BY DEF Elems

LEMMA InitCommitInv == Init => CommitInv
BY ElemsEmpty DEF Init, CommitInv, RowsWereCommitted, PartlyLoadedWasCommitted,
   ResultWasCommitted, NothingBeforeTheRequest, MemoryWasCommitted, NothingLoaded,
   Assembled

\* Steps that leave the history and what requests have been told alone, and
\* that only take turns out of memory.
LEMMA QuietSteps ==
  ASSUME TypeOK, CommitInv,
         UNCHANGED <<ever, asked, loaded, result, told>>,
         \A c \in Cids : rows'[c] \subseteq rows[c],
         \A c \in Cids : turns'[c] = turns[c] \/ turns'[c] = <<>>,
         \A r \in Requests : pc'[r] = "idle" => pc[r] = "idle",
         \A r \in Requests : pc[r] = "done" => pc'[r] = "done"
  PROVE  CommitInv'
<1>1. RowsWereCommitted' /\ PartlyLoadedWasCommitted' /\ ResultWasCommitted'
  BY DEF CommitInv, RowsWereCommitted, PartlyLoadedWasCommitted, ResultWasCommitted
<1>2. NothingBeforeTheRequest'
  BY DEF CommitInv, NothingBeforeTheRequest
<1>3. MemoryWasCommitted'
  BY ElemsEmpty DEF CommitInv, MemoryWasCommitted
<1> QED BY <1>1, <1>2, <1>3 DEF CommitInv

LEMMA CommitStep ==
  ASSUME StoreEnabled
  PROVE  StoreInv /\ CommitInv /\ [Next]_vars => CommitInv'
<1> SUFFICES ASSUME TypeOK, TranscriptConsistent, CommitInv, [Next]_vars
             PROVE  CommitInv'
  BY DEF StoreInv
<1> USE DEF CommitInv
<1>1. ASSUME NEW c \in Cids, create_conversation(c) \/ record_conversation(c)
      PROVE  CommitInv'
  <2>1. /\ UNCHANGED <<ever, asked, loaded, result, told, rows, pc>>
        /\ \A d \in Cids : turns'[d] = turns[d] \/ turns'[d] = <<>>
    BY <1>1 DEF create_conversation, record_conversation, TypeOK, diskVars, reqVars,
       memVars
  <2> QED BY <2>1, QuietSteps
<1>2. ASSUME NEW r \in Requests, NEW q \in Asked, get_conversation(r, q)
      PROVE  CommitInv'
  <2>1. /\ pc[r] = "idle"
        /\ asked' = [asked EXCEPT ![r] = q]
        /\ pc' = [pc EXCEPT ![r] = pc'[r]] /\ pc'[r] # "idle"
        /\ UNCHANGED <<ever, loaded, result, told, rows, turns>>
    BY <1>2 DEF get_conversation, Finish, TypeOK, diskVars, memVars
  <2>2. result[r] = NoTurn /\ loaded[r].turns = <<>> /\ told[r] = {}
    BY <2>1 DEF NothingBeforeTheRequest, NothingLoaded, Assembled
  <2>3. \A s \in Requests \ {r} : asked'[s] = asked[s] /\ pc'[s] = pc[s]
    BY <2>1 DEF TypeOK
  <2>4. RowsWereCommitted'
    BY <2>1 DEF RowsWereCommitted
  <2>5. PartlyLoadedWasCommitted'
    BY <2>1, <2>2, <2>3, ElemsEmpty DEF PartlyLoadedWasCommitted
  <2>6. ResultWasCommitted'
    BY <2>1, <2>2, <2>3 DEF ResultWasCommitted
  <2>7. NothingBeforeTheRequest'
    BY <2>1, <2>2, <2>3 DEF NothingBeforeTheRequest
  <2>8. MemoryWasCommitted'
    BY <2>1, <2>2, <2>3 DEF MemoryWasCommitted
  <2> QED BY <2>4, <2>5, <2>6, <2>7, <2>8
<1>3. ASSUME NEW r \in Requests, load_row(r) \/ load_turns(r) \/ load_messages(r)
      PROVE  CommitInv'
  <2>1. /\ UNCHANGED <<ever, asked, result, told, rows, turns>>
        /\ pc[r] \in {"row", "turns", "messages"}
        /\ pc' = [pc EXCEPT ![r] = pc'[r]] /\ pc'[r] # "idle"
        /\ loaded' = [loaded EXCEPT ![r] = loaded'[r]]
    BY <1>3 DEF load_row, load_turns, load_messages, Goto, TypeOK, diskVars, memVars
  <2>2. Elems(loaded'[r].turns) \subseteq ever[asked[r].cid]
    <3>1. asked[r].cid \in Cids
      BY DEF TypeOK, Asked
    <3>2. CASE load_row(r)
      BY <3>2, ElemsEmpty DEF load_row, Assembled, TypeOK, PartlyLoadedWasCommitted
    <3>3. CASE load_turns(r)
      <4>1. PICK s \in OrderedByN(rows[asked[r].cid]) :
               loaded' = [loaded EXCEPT ![r] = Assembled(@.active, s, <<>>)]
        BY <3>3 DEF load_turns
      <4>2. IsFiniteSet(rows[asked[r].cid])
        BY <3>1 DEF TranscriptConsistent
      <4>3. Elems(s) \subseteq rows[asked[r].cid]
        BY <4>2, OrderedIsSeq
      <4>4. loaded'[r].turns = s
        BY <4>1 DEF Assembled, TypeOK
      <4> QED BY <3>1, <4>3, <4>4 DEF RowsWereCommitted
    <3>4. CASE load_messages(r)
      BY <3>4 DEF load_messages, Assembled, TypeOK, PartlyLoadedWasCommitted
    <3> QED BY <1>3, <3>2, <3>3, <3>4
  <2>3. \A s \in Requests \ {r} : loaded'[s] = loaded[s] /\ pc'[s] = pc[s]
    BY <2>1 DEF TypeOK
  <2>4. RowsWereCommitted' /\ ResultWasCommitted' /\ MemoryWasCommitted'
    BY <2>1 DEF RowsWereCommitted, ResultWasCommitted, MemoryWasCommitted
  <2>5. PartlyLoadedWasCommitted'
    BY <2>1, <2>2, <2>3 DEF PartlyLoadedWasCommitted
  <2>6. NothingBeforeTheRequest'
    BY <2>1, <2>3 DEF NothingBeforeTheRequest
  <2> QED BY <2>4, <2>5, <2>6
<1>4. ASSUME NEW r \in Requests, hydrate(r) PROVE CommitInv'
  <2>1. /\ UNCHANGED <<ever, asked, result, told, rows>>
        /\ pc[r] = "hydrate" /\ pc' = [pc EXCEPT ![r] = pc'[r]] /\ pc'[r] # "idle"
        /\ turns' = [turns EXCEPT ![asked[r].cid] = loaded[r].turns]
        /\ loaded' = [loaded EXCEPT ![r] = NothingLoaded]
    BY <1>4 DEF hydrate, Goto, TypeOK, diskVars
  <2>2. \A s \in Requests \ {r} : loaded'[s] = loaded[s] /\ pc'[s] = pc[s]
    BY <2>1 DEF TypeOK
  <2>3. loaded'[r].turns = <<>>
    BY <2>1 DEF TypeOK, NothingLoaded, Assembled
  <2>4. RowsWereCommitted' /\ ResultWasCommitted'
    BY <2>1 DEF RowsWereCommitted, ResultWasCommitted
  <2>5. PartlyLoadedWasCommitted'
    BY <2>1, <2>2, <2>3, ElemsEmpty DEF PartlyLoadedWasCommitted
  <2>6. NothingBeforeTheRequest'
    BY <2>1, <2>2 DEF NothingBeforeTheRequest
  <2>7. MemoryWasCommitted'
    BY <2>1 DEF MemoryWasCommitted, PartlyLoadedWasCommitted, TypeOK
  <2> QED BY <2>4, <2>5, <2>6, <2>7
<1>5. ASSUME NEW r \in Requests, abandon(r) \/ build_turn(r) \/ disconnect(r)
      PROVE  CommitInv'
  <2>1. /\ UNCHANGED <<ever, asked, loaded, result, told, rows, turns>>
        /\ pc[r] # "done" /\ pc' = [pc EXCEPT ![r] = pc'[r]] /\ pc'[r] # "idle"
    BY <1>5 DEF abandon, build_turn, disconnect, Goto, TypeOK, diskVars, memVars
  <2> QED BY <2>1, QuietSteps DEF TypeOK
<1>6. ASSUME NEW r \in Requests, record_turn(r) PROVE CommitInv'
  <2>1. /\ UNCHANGED <<turns, asked, loaded, told>>
        /\ pc[r] \in {"writing", "detached"}
        /\ pc' = [pc EXCEPT ![r] = pc'[r]] /\ pc'[r] \in {"written", "gone"}
    BY <1>6 DEF record_turn, Goto, TypeOK, memVars
  <2>2. \A s \in Requests \ {r} : pc'[s] = pc[s]
    BY <2>1 DEF TypeOK
  <2>3. NothingBeforeTheRequest' \/ result' # result
    BY <2>1, <2>2 DEF NothingBeforeTheRequest
  <2>4. CASE UNCHANGED <<diskVars, result>>
    <3>1. UNCHANGED <<ever, result, rows>>
      BY <2>4 DEF diskVars
    <3>2. RowsWereCommitted' /\ PartlyLoadedWasCommitted' /\ ResultWasCommitted'
          /\ MemoryWasCommitted'
      BY <2>1, <3>1 DEF RowsWereCommitted, PartlyLoadedWasCommitted, ResultWasCommitted,
         MemoryWasCommitted
    <3> QED BY <2>3, <3>1, <3>2
  <2>5. CASE \E n \in CommittedN(rows[asked[r].cid], wanted[r]) : commit_turn(r, n)
    <3>1. PICK n : commit_turn(r, n)
      BY <2>5
    <3> DEFINE d == asked[r].cid
               t == [n |-> n, text |-> asked[r].text]
    <3>2. /\ d \in Cids /\ t.text = asked[r].text
          /\ rows' = [rows EXCEPT ![d] = @ \cup {t}]
          /\ ever' = [ever EXCEPT ![d] = @ \cup {t}]
          /\ result' = [result EXCEPT ![r] = t]
      BY <3>1 DEF commit_turn, TypeOK, Asked
    <3>3. /\ \A c \in Cids : ever[c] \subseteq ever'[c]
          /\ t \in ever'[d] /\ result'[r] = t
          /\ \A s \in Requests \ {r} : result'[s] = result[s]
      BY <3>2 DEF TypeOK
    <3>4. \A s \in Requests : asked[s].cid \in Cids
      BY DEF TypeOK, Asked
    <3>5. RowsWereCommitted'
      BY <3>2 DEF RowsWereCommitted, TypeOK
    <3>6. PartlyLoadedWasCommitted'
      BY <2>1, <3>3, <3>4 DEF PartlyLoadedWasCommitted
    <3>7. ResultWasCommitted'
      BY <2>1, <3>2, <3>3, <3>4 DEF ResultWasCommitted
    <3>8. NothingBeforeTheRequest'
      BY <2>1, <2>2, <3>3 DEF NothingBeforeTheRequest
    <3>9. MemoryWasCommitted'
      BY <2>1, <3>3, <3>4 DEF MemoryWasCommitted
    <3> QED BY <3>5, <3>6, <3>7, <3>8, <3>9
  <2> QED BY <1>6, <2>4, <2>5 DEF record_turn
<1>7. ASSUME NEW r \in Requests, persist_turn(r) PROVE CommitInv'
  <2>1. /\ UNCHANGED <<ever, asked, loaded, result, rows>>
        /\ pc[r] = "written" /\ pc' = [pc EXCEPT ![r] = "done"]
    BY <1>7 DEF persist_turn, Goto, diskVars
  <2>2. \A s \in Requests \ {r} : pc'[s] = pc[s]
    BY <2>1 DEF TypeOK
  <2>3. pc'[r] = "done"
    BY <2>1 DEF TypeOK
  <2>4. CASE UNCHANGED <<turns, messages, told>>
    BY <2>1, <2>2, <2>3, <2>4, QuietSteps
  <2>5. CASE result[r] # NoTurn /\ ~UNCHANGED <<turns, messages, told>>
    <3> DEFINE d == asked[r].cid
               t == result[r]
    <3>1. /\ turns' = [turns EXCEPT ![d] = Append(@, t)]
          /\ told' = [told EXCEPT ![r] = {t.n}]
      BY <1>7, <2>5 DEF persist_turn
    <3>2. d \in Cids /\ t \in Turn
      BY <2>5 DEF TypeOK, Asked
    <3>3. t \in ever[d] /\ t.text = asked[r].text
      BY <2>5 DEF ResultWasCommitted
    <3>4. t = [n |-> t.n, text |-> asked[r].text]
      BY <3>2, <3>3 DEF Turn
    <3>5. Elems(turns'[d]) = Elems(turns[d]) \cup {t}
      <4>1. turns[d] \in Seq(Turn) /\ turns'[d] = Append(turns[d], t)
        BY <3>1, <3>2 DEF TypeOK
      <4> QED BY <3>2, <4>1, ElemsAppend
    <3>6. \A c \in Cids \ {d} : turns'[c] = turns[c]
      BY <3>1 DEF TypeOK
    <3>7. /\ told'[r] = {t.n}
          /\ \A s \in Requests \ {r} : told'[s] = told[s]
      BY <3>1 DEF TypeOK
    <3>8. RowsWereCommitted' /\ PartlyLoadedWasCommitted' /\ ResultWasCommitted'
      BY <2>1 DEF RowsWereCommitted, PartlyLoadedWasCommitted, ResultWasCommitted
    <3>9. NothingBeforeTheRequest'
      BY <2>1, <2>2, <2>3, <3>7 DEF NothingBeforeTheRequest
    <3>10. \A c \in Cids : Elems(turns'[c]) \subseteq ever'[c]
      BY <2>1, <3>2, <3>3, <3>5, <3>6 DEF MemoryWasCommitted
    <3>11. \A s \in Requests : \A m \in told'[s] :
             [n |-> m, text |-> asked'[s].text] \in ever'[asked'[s].cid]
      <4>1. ASSUME NEW m \in told'[r]
            PROVE  [n |-> m, text |-> asked'[r].text] \in ever'[asked'[r].cid]
        BY <2>1, <3>3, <3>4, <3>7, <4>1
      <4>2. ASSUME NEW s \in Requests \ {r}, NEW m \in told'[s]
            PROVE  [n |-> m, text |-> asked'[s].text] \in ever'[asked'[s].cid]
        BY <2>1, <3>7, <4>2 DEF MemoryWasCommitted
      <4> QED BY <4>1, <4>2
    <3>12. MemoryWasCommitted'
      BY <3>10, <3>11 DEF MemoryWasCommitted
    <3> QED BY <3>8, <3>9, <3>12
  <2> QED BY <1>7, <2>4, <2>5 DEF persist_turn
<1>8. ASSUME Sweep PROVE CommitInv'
  <2>1. ASSUME NEW S \in SUBSET Cids, evict_next(S)
        PROVE  \A c \in Cids : turns'[c] = turns[c] \/ turns'[c] = <<>>
    BY <2>1 DEF evict_next, pop, memVars, TypeOK
  <2>2. \A c \in Cids : turns'[c] = turns[c] \/ turns'[c] = <<>>
    <3>1. CASE evict_stale_conversations \/ evict_resume
      BY <2>1, <3>1 DEF evict_stale_conversations, evict_resume, TypeOK
    <3>2. CASE record_report \/ evict_linked
      BY <3>2 DEF record_report, evict_linked, pop, memVars, TypeOK
    <3>3. CASE evict_conversation \/ prune_conversations
      BY <3>3 DEF evict_conversation, prune_conversations, memVars
    <3> QED BY <1>8, <3>1, <3>2, <3>3 DEF Sweep
  <2>3. \A c \in Cids : rows'[c] \subseteq rows[c]
    <3>1. CASE evict_stale_conversations \/ evict_resume \/ record_report \/ evict_linked
      BY <3>1 DEF evict_stale_conversations, evict_resume, record_report, evict_linked,
         diskVars
    <3>2. CASE evict_conversation \/ prune_conversations
      BY <3>2 DEF evict_conversation, prune_conversations, delete_rows, diskVars
    <3> QED BY <1>8, <3>1, <3>2 DEF Sweep
  <2>4. UNCHANGED <<ever, asked, loaded, result, told, pc>>
    BY <1>8 DEF Sweep, evict_stale_conversations, evict_resume, record_report,
       evict_linked, evict_conversation, prune_conversations, delete_rows, diskVars,
       reqVars
  <2> QED BY <2>2, <2>3, <2>4, QuietSteps
<1>9. ASSUME Tick \/ UNCHANGED vars PROVE CommitInv'
  <2>1. UNCHANGED <<ever, asked, loaded, result, told, pc, rows, turns>>
    BY <1>9 DEF Tick, vars, memVars, diskVars, reqVars
  <2> QED BY <2>1, QuietSteps
<1>10. ASSUME Restart PROVE CommitInv'
  <2>1. /\ UNCHANGED <<ever, asked, result, told, rows>>
        /\ \A c \in Cids : turns'[c] = <<>>
        /\ \A r \in Requests : loaded'[r] = NothingLoaded
        /\ \A r \in Requests : pc'[r] = "idle" <=> pc[r] = "idle"
        /\ \A r \in Requests : pc'[r] = "done" <=> pc[r] = "done"
    BY <1>10 DEF Restart, diskVars
  <2>2. NothingLoaded.turns = <<>>
    BY DEF NothingLoaded, Assembled
  <2>3. RowsWereCommitted' /\ ResultWasCommitted'
    BY <2>1 DEF RowsWereCommitted, ResultWasCommitted
  <2>4. PartlyLoadedWasCommitted'
    BY <2>1, <2>2, ElemsEmpty DEF PartlyLoadedWasCommitted
  <2>5. NothingBeforeTheRequest'
    BY <2>1 DEF NothingBeforeTheRequest
  <2>6. MemoryWasCommitted'
    BY <2>1, ElemsEmpty DEF MemoryWasCommitted
  <2> QED BY <2>3, <2>4, <2>5, <2>6
<1> QED BY <1>1, <1>2, <1>3, <1>4, <1>5, <1>6, <1>7, <1>8, <1>9, <1>10 DEF Next, Serve

LEMMA CommitInvariant ==
  ASSUME StoreEnabled
  PROVE  Spec => [](StoreInv /\ CommitInv)
<1>1. Init => StoreInv /\ CommitInv
  BY InitStoreInv, InitCommitInv
<1>2. StoreInv /\ CommitInv /\ [Next]_vars => (StoreInv /\ CommitInv)'
  BY TypeStep, TranscriptStep, CommitStep DEF StoreInv
<1> QED BY <1>1, <1>2, PTL DEF Spec

(***************************************************************************)
(* With a store, what memory holds and what clients were told is what was  *)
(* committed: no failure, retry, hydration or crash makes up a turn or a   *)
(* number.                                                                 *)
(***************************************************************************)
THEOREM MemoryIsCommitted ==
  ASSUME StoreEnabled
  PROVE  Spec => []MemoryWasCommitted
<1>1. StoreInv /\ CommitInv => MemoryWasCommitted
  BY DEF CommitInv
<1> QED BY <1>1, CommitInvariant, PTL

-----------------------------------------------------------------------------
(* As long as nothing can expire, memory is never ahead of disk *)

\* The sweep has nothing to evict, so what was committed is still there.
NothingExpired ==
  /\ now <= MaxNow
  /\ sweep \in {"asleep", "pruning"} /\ todo = {}
  /\ \A c \in Cids : rows[c] = ever[c]

LEMMA NotStale ==
  ASSUME MaxNow <= TTL, TypeOK, now <= MaxNow, NEW moment \in Nat
  PROVE  ~Stale(moment)
BY ConstantsAssumption DEF Stale, TypeOK

LEMMA NothingExpiredStep ==
  ASSUME MaxNow <= TTL
  PROVE  StoreInv /\ NothingExpired /\ [Next]_vars => NothingExpired'
<1> SUFFICES ASSUME TypeOK, NothingExpired, [Next]_vars PROVE NothingExpired'
  BY DEF StoreInv
<1> USE DEF NothingExpired
<1>1. \A m \in Nat : ~Stale(m)
  BY NotStale
<1>2. CASE Sweep
  <2>1. CASE evict_stale_conversations
    <3>1. {c \in live : Stale(active[c])} = {}
      BY <1>1 DEF TypeOK
    <3>2. sweep' = "pruning" /\ UNCHANGED <<memVars, todo, victim>>
      BY <2>1, <3>1 DEF evict_stale_conversations, evict_next
    <3> QED BY <2>1, <3>2 DEF evict_stale_conversations, clockVars, diskVars
  <2>2. CASE prune_conversations
    <3>1. {c \in stored : Stale(dbActive[c])} = {}
      BY <1>1 DEF TypeOK
    <3>2. \A c \in Cids : rows'[c] = rows[c] /\ ever'[c] = ever[c]
      BY <2>2, <3>1 DEF prune_conversations, delete_rows, diskVars
    <3> QED BY <2>2, <3>2 DEF prune_conversations, clockVars
  <2>3. ~(record_report \/ evict_linked \/ evict_conversation \/ evict_resume)
    BY DEF record_report, evict_linked, evict_conversation, evict_resume
  <2> QED BY <1>2, <2>1, <2>2, <2>3 DEF Sweep
<1>3. ASSUME NEW r \in Requests, record_turn(r) PROVE NothingExpired'
  <2>1. UNCHANGED <<now, sweep, todo>>
    BY <1>3 DEF record_turn, clockVars, sweepVars
  <2>2. CASE UNCHANGED <<diskVars, result>>
    BY <2>1, <2>2 DEF diskVars
  <2>3. CASE \E n \in CommittedN(rows[asked[r].cid], wanted[r]) : commit_turn(r, n)
    <3>1. PICK t :
             /\ rows' = [rows EXCEPT ![asked[r].cid] = @ \cup {t}]
             /\ ever' = [ever EXCEPT ![asked[r].cid] = @ \cup {t}]
      BY <2>3 DEF commit_turn
    <3>2. rows \in [Cids -> SUBSET Turn] /\ ever \in [Cids -> SUBSET Turn]
      BY DEF TypeOK
    <3>3. \A c \in Cids : rows'[c] = ever'[c]
      BY <3>1, <3>2
    <3> QED BY <2>1, <3>3
  <2> QED BY <1>3, <2>2, <2>3 DEF record_turn
<1>4. ASSUME NEW r \in Requests,
             load_row(r) \/ load_turns(r) \/ load_messages(r) \/ hydrate(r)
               \/ abandon(r) \/ build_turn(r) \/ persist_turn(r) \/ disconnect(r)
      PROVE  NothingExpired'
  BY <1>4 DEF load_row, load_turns, load_messages, hydrate, abandon, build_turn,
     persist_turn, disconnect, clockVars, sweepVars, diskVars
<1>5. ASSUME NEW r \in Requests, NEW q \in Asked, get_conversation(r, q)
      PROVE  NothingExpired'
  BY <1>5 DEF get_conversation, clockVars, sweepVars, diskVars
<1>6. ASSUME NEW c \in Cids, create_conversation(c) \/ record_conversation(c)
      PROVE  NothingExpired'
  BY <1>6 DEF create_conversation, record_conversation, clockVars, sweepVars, diskVars
<1>7. CASE Tick
  BY <1>7, ConstantsAssumption DEF Tick, TypeOK, sweepVars, diskVars
<1>8. CASE Restart \/ UNCHANGED vars
  BY <1>8 DEF Restart, vars, clockVars, sweepVars, diskVars
<1> QED BY <1>2, <1>3, <1>4, <1>5, <1>6, <1>7, <1>8 DEF Next, Serve

(***************************************************************************)
(* "Memory can never be ahead of disk", for as long as the process has not *)
(* lived longer than the session TTL: with any number of clients, restarts,*)
(* failures and concurrent hydrations.  Beyond the TTL it does not hold:   *)
(* the prune of the store and the eviction from memory read two clocks.    *)
(***************************************************************************)
THEOREM NeverAheadWithinTTL ==
  ASSUME StoreEnabled, MaxNow <= TTL
  PROVE  Spec => []MemoryNeverAheadOfDisk
<1>1. Init => NothingExpired
  BY ConstantsAssumption DEF Init, NothingExpired
<1>2. StoreInv /\ NothingExpired /\ [Next]_vars => NothingExpired'
  BY NothingExpiredStep
<1>3. CommitInv /\ NothingExpired => MemoryNeverAheadOfDisk
  BY DEF CommitInv, MemoryWasCommitted, NothingExpired, MemoryNeverAheadOfDisk
<1> QED BY <1>1, <1>2, <1>3, StoreInvariant, CommitInvariant, PTL DEF Spec

-----------------------------------------------------------------------------
(* The store implements the abstract transcript *)

\* Only persist_turn tells a client a number, and it writes nothing.
LEMMA TellSteps ==
  ASSUME [Next]_vars
  PROVE  \/ UNCHANGED told
         \/ \E r \in Requests : persist_turn(r)
<1>1. ASSUME NEW r \in Requests,
             load_row(r) \/ load_turns(r) \/ load_messages(r) \/ hydrate(r)
               \/ abandon(r) \/ build_turn(r) \/ record_turn(r) \/ disconnect(r)
      PROVE  UNCHANGED told
  BY <1>1 DEF load_row, load_turns, load_messages, hydrate, abandon, build_turn,
     record_turn, disconnect
<1>2. ASSUME NEW r \in Requests, NEW q \in Asked, get_conversation(r, q)
      PROVE  UNCHANGED told
  BY <1>2 DEF get_conversation
<1>3. ASSUME NEW c \in Cids, create_conversation(c) \/ record_conversation(c)
      PROVE  UNCHANGED told
  BY <1>3 DEF create_conversation, record_conversation, reqVars
<1>4. CASE Sweep
  BY <1>4 DEF Sweep, evict_stale_conversations, evict_resume, record_report,
     evict_linked, evict_conversation, prune_conversations, reqVars
<1>5. CASE Tick \/ Restart \/ UNCHANGED vars
  BY <1>5 DEF Tick, Restart, vars, reqVars
<1> QED BY <1>1, <1>2, <1>3, <1>4, <1>5 DEF Next, Serve

LEMMA InitRefines == Init => T!Init
BY DEF Init, T!Init

LEMMA StepRefines ==
  ASSUME StoreEnabled
  PROVE  StoreInv /\ CommitInv /\ [Next]_vars => [T!Next]_<<rows, log, ever, told>>
<1> SUFFICES ASSUME TypeOK, CommitInv, [Next]_vars
             PROVE  [T!Next]_<<rows, log, ever, told>>
  BY DEF StoreInv
<1>1. ASSUME NEW r \in Requests, persist_turn(r)
      PROVE  T!Next \/ UNCHANGED <<rows, log, ever, told>>
  <2>1. UNCHANGED <<rows, log, ever>> /\ pc[r] = "written"
    BY <1>1 DEF persist_turn, Goto, diskVars
  <2>2. CASE UNCHANGED told
    BY <2>1, <2>2
  <2>3. CASE result[r] # NoTurn /\ ~UNCHANGED told
    <3>1. told' = [told EXCEPT ![r] = {result[r].n}]
      BY <1>1, <2>3 DEF persist_turn
    <3>2. told[r] = {}
      BY <2>1 DEF CommitInv, NothingBeforeTheRequest
    <3>3. asked[r].cid \in Cids /\ result[r] \in ever[asked[r].cid]
      BY <2>3 DEF CommitInv, ResultWasCommitted, TypeOK, Asked
    <3>4. T!Acknowledge(r, asked[r].cid, result[r])
      BY <2>1, <3>1, <3>2, <3>3 DEF T!Acknowledge
    <3> QED BY <3>3, <3>4 DEF T!Next
  <2> QED BY <1>1, <2>2, <2>3 DEF persist_turn
<1>2. CASE UNCHANGED told
  <2>1. CASE UNCHANGED <<rows, log, ever>>
    BY <1>2, <2>1
  <2>2. ASSUME NEW r \in Requests, NEW n \in Nat, commit_turn(r, n)
        PROVE  T!Next
    <3> DEFINE d == asked[r].cid
               t == [n |-> n, text |-> asked[r].text]
    <3>1. d \in Cids
      BY DEF TypeOK, Asked
    <3>2. \A u \in rows[d] : u.n # t.n
      BY <2>2 DEF commit_turn, Numbers
    <3>3. t \in ever'[d]
      BY <2>2, <3>1 DEF commit_turn, TypeOK
    <3>4. T!Write(d, t)
      BY <1>2, <2>2, <3>2 DEF commit_turn, T!Write
    <3> QED BY <3>1, <3>3, <3>4 DEF T!Next
  <2>3. ASSUME NEW C \in SUBSET Cids, delete_rows(C)
        PROVE  T!Next
    <3>1. T!Erase(C)
      BY <1>2, <2>3 DEF delete_rows, T!Erase
    <3> QED BY <3>1 DEF T!Next
  <2> QED BY <2>1, <2>2, <2>3, DiskSteps
<1> QED BY <1>1, <1>2, TellSteps

(***************************************************************************)
(* The tables and the replies implement Transcript: a turn and its message *)
(* appear together under a fresh number, whole conversations disappear,    *)
(* and a client hears at most one number, of a turn that was written.      *)
(***************************************************************************)
THEOREM ImplementsTranscript ==
  ASSUME StoreEnabled
  PROVE  Spec => TranscriptSpec
<1>1. Init => T!Init
  BY InitRefines
<1>2. StoreInv /\ CommitInv /\ [Next]_vars => [T!Next]_<<rows, log, ever, told>>
  BY StepRefines
<1> QED BY <1>1, <1>2, CommitInvariant, PTL DEF Spec, TranscriptSpec, T!Spec

-----------------------------------------------------------------------------
(* Within the TTL, and with one hydration at a time, memory and disk agree *)

Loading(r) == pc[r] \in {"row", "turns", "messages", "hydrate"}

\* Every element of the sequence is there once.
Once(s) == \A i, j \in DOMAIN s : s[i] = s[j] => i = j

\* Nothing is asked of a conversation, or written to it, before its id is out.
AskedWhenOpen ==
  /\ \A r \in Requests : pc[r] # "idle" => phase[asked[r].cid] = "open"
  /\ \A c \in Cids : phase[c] # "open" => rows[c] = {}

\* A conversation that is loaded is not in memory, and one request loads it.
OneLoads ==
  \A r \in Requests : Loading(r) =>
    /\ asked[r].cid \notin live
    /\ \A s \in Requests : Loading(s) /\ asked[s].cid = asked[r].cid => s = r

\* A turn is answered and written for a conversation that is in memory.
WritersInMemory ==
  \A r \in Requests :
    pc[r] \in {"answering", "writing", "detached", "written"} => asked[r].cid \in live

\* So nobody writes between the SELECTs of a hydration.
LoadedWhole ==
  \A r \in Requests :
    /\ pc[r] \in {"messages", "hydrate"} =>
         Once(loaded[r].turns) /\ Elems(loaded[r].turns) = rows[asked[r].cid]
    /\ pc[r] = "hydrate" => Len(loaded[r].messages) = Len(loaded[r].turns)

\* t was committed by a request that has not put it into memory (yet).
OnItsWay(t, c) ==
  \E r \in Requests :
    asked[r].cid = c /\ pc[r] \in {"written", "gone"} /\ result[r] = t

MemoryWhole ==
  \A c \in live :
    /\ Once(turns[c]) /\ Len(messages[c]) = Len(turns[c])
    /\ \A t \in rows[c] : t \in Elems(turns[c]) \/ OnItsWay(t, c)

\* A result has one owner, and is news to memory.
ResultsAreNews ==
  \A r \in Requests :
    /\ pc[r] \in {"row", "turns", "messages", "hydrate", "answering", "writing", "detached"} =>
         result[r] = NoTurn
    /\ pc[r] = "written" /\ result[r] # NoTurn =>
         /\ result[r] \notin Elems(turns[asked[r].cid])
         /\ \A s \in Requests :
              pc[s] = "written" /\ asked[s].cid = asked[r].cid /\ result[s] = result[r] =>
                s = r

\* No number beyond the next one is asked for.
NoHoleWanted ==
  \A r \in Requests :
    pc[r] \in {"writing", "detached"} => wanted[r] <= Cardinality(rows[asked[r].cid])

AgreeInv ==
  /\ AskedWhenOpen /\ OneLoads /\ WritersInMemory /\ LoadedWhole
  /\ MemoryWhole /\ ResultsAreNews /\ NoHoleWanted
  /\ NumbersAreDense /\ ToldTurnReadable

-----------------------------------------------------------------------------
(* Sequences without repetition, and the next number *)

LEMMA OnceAppend ==
  ASSUME NEW S, NEW s \in Seq(S), NEW e \in S, Once(s), e \notin Elems(s)
  PROVE  Once(Append(s, e))
<1>1. DOMAIN Append(s, e) = 1..(Len(s) + 1) /\ DOMAIN s = 1..Len(s) /\ Len(s) \in Nat
  OBVIOUS
<1>2. \A i \in 1..Len(s) : Append(s, e)[i] = s[i] /\ s[i] # e
  BY <1>1 DEF Elems
<1>3. Append(s, e)[Len(s) + 1] = e
  OBVIOUS
<1>4. \A i \in 1..(Len(s) + 1) : i \in 1..Len(s) \/ i = Len(s) + 1
  BY <1>1
<1> HIDE DEF Elems
<1> SUFFICES ASSUME NEW i \in 1..(Len(s) + 1), NEW j \in 1..(Len(s) + 1),
                    Append(s, e)[i] = Append(s, e)[j]
             PROVE  i = j
  BY <1>1 DEF Once
<1>5. CASE i \in 1..Len(s) /\ j \in 1..Len(s)
  BY <1>1, <1>2, <1>5 DEF Once
<1>6. CASE i = Len(s) + 1 \/ j = Len(s) + 1
  BY <1>2, <1>3, <1>4, <1>6
<1> QED BY <1>4, <1>5, <1>6

\* A sequence of distinct rows is no longer than the table, and as long when
\* it holds all of them.
LEMMA OnceCounts ==
  ASSUME NEW U, NEW s \in Seq(U), NEW S, IsFiniteSet(S), Once(s), Elems(s) \subseteq S
  PROVE  Len(s) <= Cardinality(S) /\ (Elems(s) = S => Len(s) = Cardinality(S))
<1>1. DOMAIN s = 1..Len(s) /\ Len(s) \in Nat
  OBVIOUS
<1>2. s \in Injection(1..Len(s), S)
  <2>1. s \in [1..Len(s) -> S]
    BY <1>1 DEF Elems
  <2> QED BY <1>1, <2>1 DEF Once, Injection, IsInjective
<1>3. Cardinality(1..Len(s)) = Len(s)
  BY <1>1, FS_Interval
<1>4. Len(s) <= Cardinality(S)
        /\ (Len(s) = Cardinality(S) <=> s \in Surjection(1..Len(s), S))
  BY <1>2, <1>3, FS_Injection
<1>5. ASSUME Elems(s) = S PROVE s \in Surjection(1..Len(s), S)
  <2>1. s \in [1..Len(s) -> S]
    BY <1>2 DEF Injection
  <2>2. \A t \in S : \E i \in 1..Len(s) : s[i] = t
    BY <1>1, <1>5 DEF Elems
  <2> QED BY <2>1, <2>2 DEF Surjection
<1> QED BY <1>4, <1>5

\* SELECT ... ORDER BY n returns every row, once.
LEMMA OrderedIsWhole ==
  ASSUME NEW S \in SUBSET Turn, IsFiniteSet(S), NEW s \in OrderedByN(S)
  PROVE  Once(s) /\ Elems(s) = S
<1>1. Cardinality(S) \in Nat
  BY FS_CardinalityType
<1>2. s \in [1..Cardinality(S) -> S]
      /\ \A i, j \in 1..Cardinality(S) : i < j => s[i].n < s[j].n
  BY DEF OrderedByN
<1>3. \A i \in 1..Cardinality(S) : s[i].n \in Nat
  BY <1>2 DEF Turn
<1>4. \A i, j \in 1..Cardinality(S) : s[i] = s[j] => i = j
  <2> SUFFICES ASSUME NEW i \in 1..Cardinality(S), NEW j \in 1..Cardinality(S), s[i] = s[j],
                      i # j
               PROVE  FALSE
    OBVIOUS
  <2>1. CASE i < j
    BY <1>2, <1>3, <2>1
  <2>2. CASE j < i
    BY <1>2, <1>3, <2>2
  <2> QED BY <1>1, <2>1, <2>2
<1>5. s \in Injection(1..Cardinality(S), S)
  BY <1>2, <1>4 DEF Injection, IsInjective
<1>6. Cardinality(1..Cardinality(S)) = Cardinality(S)
  BY <1>1, FS_Interval
<1>7. s \in Surjection(1..Cardinality(S), S)
  BY <1>5, <1>6, FS_Injection
<1>8. Elems(s) = S
  BY <1>2, <1>7 DEF Surjection, Elems
<1> QED BY <1>2, <1>4, <1>8 DEF Once

\* Asked for a number that leaves no hole, the store settles on the next one.
LEMMA NextNumber ==
  ASSUME NEW S \in SUBSET Turn, NEW C \in Nat, Numbers(S) = 0..(C - 1),
         NEW k \in Nat, k <= C, NEW n \in CommittedN(S, k)
  PROVE  n = C
<1>1. CASE k \notin Numbers(S)
  BY <1>1 DEF CommittedN
<1>2. CASE k \in Numbers(S)
  <2>1. n \in {m \in {j + 1 : j \in 0..(C - 1)} : \A j \in 0..(C - 1) : j < m}
    BY <1>2 DEF CommittedN, NextFree
  <2>2. C - 1 \in 0..(C - 1)
    BY <1>2
  <2> QED BY <2>1, <2>2
<1> QED BY <1>1, <1>2

-----------------------------------------------------------------------------
(* The steps *)

\* A request moves on between memory and disk, and writes to neither.
LEMMA RequestMoves ==
  ASSUME TypeOK, TypeOK', AgreeInv, NEW r \in Requests,
         UNCHANGED <<phase, live, turns, messages, rows, result, told, asked>>,
         \A s \in Requests \ {r} :
           pc'[s] = pc[s] /\ loaded'[s] = loaded[s] /\ wanted'[s] = wanted[s],
         pc[r] # "idle", pc'[r] # "idle",
         Loading(r)' => Loading(r),
         pc'[r] \in {"answering", "writing", "detached", "written"} =>
           pc[r] \in {"answering", "writing", "detached"},
         pc[r] = "written" => pc'[r] = "gone",
         pc[r] = "gone" => pc'[r] = "gone",
         pc'[r] \in {"messages", "hydrate"} =>
           Once(loaded'[r].turns) /\ Elems(loaded'[r].turns) = rows[asked[r].cid],
         pc'[r] = "hydrate" => Len(loaded'[r].messages) = Len(loaded'[r].turns),
         pc'[r] \in {"writing", "detached"} => wanted'[r] <= Cardinality(rows[asked[r].cid])
  PROVE  AgreeInv'
<1>1. AskedWhenOpen'
  BY DEF AgreeInv, AskedWhenOpen
<1>2. OneLoads'
  <2>1. \A s \in Requests : Loading(s)' => Loading(s)
    BY DEF Loading
  <2> QED BY <2>1 DEF AgreeInv, OneLoads
<1>3. WritersInMemory'
  BY DEF AgreeInv, WritersInMemory
<1>4. LoadedWhole'
  BY DEF AgreeInv, LoadedWhole
<1>5. MemoryWhole'
  <2>1. \A t, c : OnItsWay(t, c) => OnItsWay(t, c)'
    BY DEF OnItsWay
  <2> QED BY <2>1 DEF AgreeInv, MemoryWhole
<1>6. ResultsAreNews'
  <2>1. Loading(r)' \/ pc'[r] \in {"answering", "writing", "detached", "written"} =>
          result[r] = NoTurn
    BY DEF AgreeInv, ResultsAreNews, Loading
  <2>2. \A s \in Requests : pc'[s] = "written" /\ result[s] # NoTurn => pc[s] = "written"
    BY <2>1
  <2>3. \A s \in Requests :
          pc'[s] \in {"row", "turns", "messages", "hydrate", "answering", "writing",
                      "detached"} => result[s] = NoTurn
    BY <2>1 DEF AgreeInv, ResultsAreNews, Loading
  <2> QED BY <2>2, <2>3 DEF AgreeInv, ResultsAreNews
<1>7. NoHoleWanted'
  BY DEF AgreeInv, NoHoleWanted
<1>8. NumbersAreDense' /\ ToldTurnReadable'
  BY DEF AgreeInv, NumbersAreDense, ToldTurnReadable
<1> QED BY <1>1, <1>2, <1>3, <1>4, <1>5, <1>6, <1>7, <1>8 DEF AgreeInv

LEMMA LoadAgrees ==
  ASSUME TypeOK, TypeOK', TranscriptConsistent, AgreeInv, NEW r \in Requests,
         load_row(r) \/ load_turns(r) \/ load_messages(r)
  PROVE  AgreeInv'
<1> DEFINE c == asked[r].cid
<1>1. c \in Cids
  BY DEF TypeOK, Asked
<1>2. /\ UNCHANGED <<phase, live, turns, messages, rows, result, told, asked, wanted>>
      /\ pc[r] \in {"row", "turns", "messages"}
      /\ pc' = [pc EXCEPT ![r] = pc'[r]]
      /\ pc'[r] \in {"turns", "messages", "hydrate", "done"}
      /\ loaded' = [loaded EXCEPT ![r] = loaded'[r]]
  BY DEF load_row, load_turns, load_messages, Goto, TypeOK, diskVars, memVars
<1>3. \A s \in Requests \ {r} :
        pc'[s] = pc[s] /\ loaded'[s] = loaded[s] /\ wanted'[s] = wanted[s]
  BY <1>2 DEF TypeOK
<1>4. CASE load_row(r)
  <2>1. pc'[r] \in {"turns", "done"}
    BY <1>4 DEF load_row, Goto, TypeOK
  <2> QED BY <1>2, <1>3, <2>1, RequestMoves DEF Loading
<1>5. CASE load_turns(r)
  <2>1. PICK s \in OrderedByN(rows[c]) :
          loaded' = [loaded EXCEPT ![r] = Assembled(@.active, s, <<>>)]
    BY <1>5 DEF load_turns
  <2>2. rows[c] \in SUBSET Turn /\ IsFiniteSet(rows[c])
    BY <1>1 DEF TypeOK, TranscriptConsistent
  <2>3. Once(s) /\ Elems(s) = rows[c]
    BY <2>2, OrderedIsWhole
  <2>4. loaded'[r].turns = s /\ pc'[r] = "messages"
    BY <1>5, <2>1 DEF Assembled, TypeOK, load_turns, Goto
  <2> QED BY <1>2, <1>3, <2>3, <2>4, RequestMoves DEF Loading
<1>6. CASE load_messages(r)
  <2>1. /\ loaded'[r].turns = loaded[r].turns /\ loaded'[r].messages = log[c]
        /\ pc[r] = "messages" /\ pc'[r] = "hydrate"
    BY <1>6 DEF load_messages, Assembled, Goto, TypeOK
  <2>2. Once(loaded[r].turns) /\ Elems(loaded[r].turns) = rows[c]
    BY <2>1 DEF AgreeInv, LoadedWhole
  <2>3. Len(log[c]) = Cardinality(rows[c]) /\ IsFiniteSet(rows[c])
    BY <1>1 DEF TranscriptConsistent
  <2>4. loaded[r].turns \in Seq(Turn)
    BY DEF TypeOK, Loaded
  <2>5. Len(loaded[r].turns) = Cardinality(rows[c])
    BY <2>2, <2>3, <2>4, OnceCounts
  <2> QED BY <1>2, <1>3, <2>1, <2>2, <2>3, <2>5, RequestMoves DEF Loading
<1> QED BY <1>4, <1>5, <1>6

LEMMA TurnAgrees ==
  ASSUME TypeOK, TypeOK', TranscriptConsistent, MemoryNeverAheadOfDisk, AgreeInv,
         NEW r \in Requests, abandon(r) \/ build_turn(r) \/ disconnect(r)
  PROVE  AgreeInv'
<1> DEFINE c == asked[r].cid
<1>1. c \in Cids
  BY DEF TypeOK, Asked
<1>2. /\ UNCHANGED <<phase, live, turns, messages, rows, result, told, asked, loaded>>
      /\ pc[r] \in {"answering", "writing", "written"}
      /\ pc' = [pc EXCEPT ![r] = pc'[r]]
      /\ pc'[r] \in {"writing", "detached", "gone", "done"}
      /\ pc[r] = "written" => pc'[r] = "gone"
      /\ wanted' = [wanted EXCEPT ![r] = wanted'[r]]
  BY DEF abandon, build_turn, disconnect, Goto, TypeOK, diskVars, memVars
<1>3. \A s \in Requests \ {r} :
        pc'[s] = pc[s] /\ loaded'[s] = loaded[s] /\ wanted'[s] = wanted[s]
  BY <1>2 DEF TypeOK
<1>4. pc'[r] \in {"writing", "detached"} => wanted'[r] <= Cardinality(rows[c])
  <2>1. CASE abandon(r)
    BY <2>1 DEF abandon, Goto, TypeOK
  <2>2. CASE build_turn(r)
    <3>1. c \in live /\ wanted'[r] = Len(turns[c])
      BY <2>2 DEF build_turn, TypeOK
    <3>2. Once(turns[c]) /\ Elems(turns[c]) \subseteq rows[c]
      BY <1>1, <3>1 DEF AgreeInv, MemoryWhole, MemoryNeverAheadOfDisk
    <3>3. IsFiniteSet(rows[c]) /\ turns[c] \in Seq(Turn)
      BY <1>1 DEF TypeOK, TranscriptConsistent
    <3> QED BY <3>1, <3>2, <3>3, OnceCounts
  <2>3. CASE disconnect(r)
    <3>1. wanted' = wanted /\ (pc'[r] = "detached" => pc[r] = "writing")
          /\ pc'[r] \in {"detached", "gone"}
      BY <2>3 DEF disconnect, Goto, TypeOK
    <3> QED BY <3>1 DEF AgreeInv, NoHoleWanted
  <2> QED BY <2>1, <2>2, <2>3
<1>5. pc'[r] \in {"answering", "writing", "detached", "written"} =>
        pc[r] \in {"answering", "writing", "detached"}
  BY <1>2
<1> QED BY <1>2, <1>3, <1>4, <1>5, RequestMoves DEF Loading

\* A request that misses memory is the first to load its conversation.
LEMMA ArrivalAgrees ==
  ASSUME TypeOK, TypeOK', CommitInv, AgreeInv, OneLoaderAtATime,
         NEW r \in Requests, NEW q \in Asked, get_conversation(r, q)
  PROVE  AgreeInv'
<1>1. /\ pc[r] = "idle" /\ phase[q.cid] = "open"
      /\ asked' = [asked EXCEPT ![r] = q]
      /\ pc' = [pc EXCEPT ![r] = pc'[r]]
      /\ pc'[r] = IF q.cid \notin live THEN "row"
                  ELSE IF q.kind = "context" THEN "done" ELSE "answering"
      /\ UNCHANGED <<phase, live, turns, messages, rows, result, told, wanted, loaded>>
  BY DEF get_conversation, Finish, TypeOK, memVars, diskVars
<1>2. asked'[r] = q /\ \A s \in Requests \ {r} : asked'[s] = asked[s] /\ pc'[s] = pc[s]
  BY <1>1 DEF TypeOK
<1>3. result[r] = NoTurn /\ told[r] = {}
  BY <1>1 DEF CommitInv, NothingBeforeTheRequest
<1>4. AskedWhenOpen'
  BY <1>1, <1>2 DEF AgreeInv, AskedWhenOpen
<1>5. OneLoads'
  <2>1. \A s \in Requests \ {r} : Loading(s)' => Loading(s)
    BY <1>2 DEF Loading
  <2>2. Loading(r)' => /\ q.cid \notin live
                       /\ \A s \in Requests : Loading(s)' /\ asked'[s].cid = q.cid => s = r
    <3> SUFFICES ASSUME Loading(r)'
                 PROVE  /\ q.cid \notin live
                        /\ \A s \in Requests : Loading(s)' /\ asked'[s].cid = q.cid => s = r
      OBVIOUS
    <3>1. pc'[r] = "row" /\ q.cid \notin live
      BY <1>1 DEF Loading
    <3>2. \A s \in Requests \ {r} : Loading(s) => asked[s].cid # q.cid
      BY <1>1, <1>2, <3>1 DEF OneLoaderAtATime, Loading
    <3> QED BY <1>2, <2>1, <3>1, <3>2
  <2>3. ASSUME NEW s \in Requests \ {r}, Loading(s)'
        PROVE  /\ asked'[s].cid \notin live'
               /\ \A u \in Requests : Loading(u)' /\ asked'[u].cid = asked'[s].cid => u = s
    <3>1. Loading(s) /\ asked'[s] = asked[s]
      BY <1>2, <2>1, <2>3
    <3>2. \A u \in Requests \ {r} :
            Loading(u)' /\ asked'[u].cid = asked'[s].cid => u = s
      BY <1>2, <2>1, <3>1 DEF AgreeInv, OneLoads
    <3>3. Loading(r)' => asked'[r].cid # asked'[s].cid
      BY <1>2, <2>2, <2>3
    <3> QED BY <1>1, <3>1, <3>2, <3>3 DEF AgreeInv, OneLoads
  <2> HIDE DEF Loading
  <2> QED BY <1>1, <1>2, <2>2, <2>3 DEF OneLoads
<1>6. WritersInMemory'
  BY <1>1, <1>2 DEF AgreeInv, WritersInMemory
<1>7. LoadedWhole'
  <2>1. pc'[r] \notin {"messages", "hydrate"}
    BY <1>1
  <2> QED BY <1>1, <1>2, <2>1 DEF AgreeInv, LoadedWhole
<1>8. MemoryWhole'
  <2>1. \A t, c : OnItsWay(t, c) => OnItsWay(t, c)'
    BY <1>1, <1>2 DEF OnItsWay
  <2> QED BY <1>1, <2>1 DEF AgreeInv, MemoryWhole
<1>9. ResultsAreNews'
  <2>1. pc'[r] # "written"
    BY <1>1
  <2> QED BY <1>1, <1>2, <1>3, <2>1 DEF AgreeInv, ResultsAreNews
<1>10. NoHoleWanted'
  <2>1. pc'[r] \notin {"writing", "detached"}
    BY <1>1
  <2> QED BY <1>1, <1>2, <2>1 DEF AgreeInv, NoHoleWanted
<1>11. NumbersAreDense'
  BY <1>1 DEF AgreeInv, NumbersAreDense
<1>12. ToldTurnReadable'
  BY <1>1, <1>2, <1>3 DEF AgreeInv, ToldTurnReadable
<1> QED BY <1>4, <1>5, <1>6, <1>7, <1>8, <1>9, <1>10, <1>11, <1>12 DEF AgreeInv

\* A conversation nobody knows yet.
LEMMA OpeningAgrees ==
  ASSUME TypeOK, TypeOK', CommitInv, AgreeInv, NEW c \in Cids,
         create_conversation(c) \/ record_conversation(c)
  PROVE  AgreeInv'
<1>1. UNCHANGED <<rows, asked, pc, wanted, loaded, result, told>>
  BY DEF create_conversation, record_conversation, diskVars, reqVars
<1>2. phase[c] # "open" /\ rows[c] = {}
  BY DEF create_conversation, record_conversation, AgreeInv, AskedWhenOpen
<1>3. \A d \in Cids \ {c} : phase'[d] = phase[d] /\ turns'[d] = turns[d]
        /\ messages'[d] = messages[d] /\ (d \in live' <=> d \in live)
  BY DEF create_conversation, record_conversation, memVars, TypeOK
<1>4. \A r \in Requests : pc[r] # "idle" => asked[r].cid # c
  BY <1>2 DEF AgreeInv, AskedWhenOpen
<1>5. \A r \in Requests : asked[r].cid \in Cids
  BY DEF TypeOK, Asked
<1>6. \/ UNCHANGED <<live, turns, messages>>
      \/ c \in live' /\ turns'[c] = <<>> /\ messages'[c] = <<>>
  BY DEF create_conversation, record_conversation, memVars, TypeOK
<1>7. AskedWhenOpen'
  BY <1>1, <1>2, <1>3, <1>4, <1>5 DEF AgreeInv, AskedWhenOpen
<1>8. OneLoads'
  <2>1. \A r \in Requests : Loading(r) => asked[r].cid # c
    BY <1>4 DEF Loading
  <2> QED BY <1>1, <1>3, <1>5, <2>1 DEF AgreeInv, OneLoads, Loading
<1>9. WritersInMemory'
  BY <1>1, <1>3, <1>4, <1>5 DEF AgreeInv, WritersInMemory
<1>10. LoadedWhole'
  BY <1>1 DEF AgreeInv, LoadedWhole
<1>11. MemoryWhole'
  <2> SUFFICES ASSUME NEW d \in live'
               PROVE  /\ Once(turns'[d]) /\ Len(messages'[d]) = Len(turns'[d])
                      /\ \A t \in rows'[d] : t \in Elems(turns'[d]) \/ OnItsWay(t, d)'
    BY DEF MemoryWhole
  <2>2. \A t, e : OnItsWay(t, e) => OnItsWay(t, e)'
    BY <1>1 DEF OnItsWay
  <2>3. CASE d = c /\ turns'[c] = <<>> /\ messages'[c] = <<>>
    BY <1>1, <1>2, <2>3 DEF Once
  <2>4. CASE d \in live /\ turns'[d] = turns[d] /\ messages'[d] = messages[d]
    BY <1>1, <2>2, <2>4 DEF AgreeInv, MemoryWhole
  <2>5. d \in Cids
    BY DEF TypeOK
  <2> QED BY <1>3, <1>6, <2>3, <2>4, <2>5
<1>12. ResultsAreNews'
  BY <1>1, <1>3, <1>4, <1>5 DEF AgreeInv, ResultsAreNews
<1>13. NoHoleWanted' /\ NumbersAreDense'
  BY <1>1 DEF AgreeInv, NoHoleWanted, NumbersAreDense
<1>14. ToldTurnReadable'
  <2> SUFFICES ASSUME NEW r \in Requests
               PROVE  told'[r] \subseteq IF asked'[r].cid \in live'
                                         THEN Numbers(Elems(turns'[asked'[r].cid]))
                                         ELSE Numbers(rows'[asked'[r].cid])
    BY DEF ToldTurnReadable
  <2>1. CASE pc[r] = "idle"
    BY <1>1, <2>1 DEF CommitInv, NothingBeforeTheRequest
  <2>2. CASE pc[r] # "idle"
    <3>1. asked[r].cid \in Cids \ {c}
      BY <1>4, <1>5, <2>2
    <3> QED BY <1>1, <1>3, <3>1 DEF AgreeInv, ToldTurnReadable
  <2> QED BY <2>1, <2>2
<1> QED BY <1>7, <1>8, <1>9, <1>10, <1>11, <1>12, <1>13, <1>14 DEF AgreeInv

\* The conversation was not in memory, so nobody is writing to it.
LEMMA HydrationAgrees ==
  ASSUME TypeOK, TypeOK', AgreeInv, NEW r \in Requests, hydrate(r)
  PROVE  AgreeInv'
<1> DEFINE c == asked[r].cid
<1>1. c \in Cids /\ \A s \in Requests : asked[s].cid \in Cids
  BY DEF TypeOK, Asked
<1>2. /\ UNCHANGED <<phase, rows, asked, wanted, result, told>>
      /\ pc[r] = "hydrate" /\ pc'[r] \in {"answering", "done"}
      /\ pc' = [pc EXCEPT ![r] = pc'[r]]
      /\ live' = live \cup {c}
      /\ turns' = [turns EXCEPT ![c] = loaded[r].turns]
      /\ messages' = [messages EXCEPT ![c] = loaded[r].messages]
      /\ loaded' = [loaded EXCEPT ![r] = NothingLoaded]
  BY DEF hydrate, Goto, TypeOK, diskVars
<1>3. \A s \in Requests \ {r} : pc'[s] = pc[s] /\ loaded'[s] = loaded[s]
  BY <1>2 DEF TypeOK
<1>4. /\ turns'[c] = loaded[r].turns /\ messages'[c] = loaded[r].messages
      /\ \A d \in Cids \ {c} : turns'[d] = turns[d] /\ messages'[d] = messages[d]
  BY <1>1, <1>2 DEF TypeOK
<1>5. c \notin live /\ \A s \in Requests \ {r} : asked[s].cid = c => ~Loading(s)
  BY <1>2 DEF AgreeInv, OneLoads, Loading
<1>6. \A s \in Requests :
        pc[s] \in {"answering", "writing", "detached", "written"} => asked[s].cid # c
  BY <1>5 DEF AgreeInv, WritersInMemory
<1>7. /\ Once(loaded[r].turns) /\ Elems(loaded[r].turns) = rows[c]
      /\ Len(loaded[r].messages) = Len(loaded[r].turns)
  BY <1>2 DEF AgreeInv, LoadedWhole
<1>8. AskedWhenOpen'
  BY <1>2, <1>3 DEF AgreeInv, AskedWhenOpen
<1>9. OneLoads'
  <2>1. ~Loading(r)' /\ \A s \in Requests \ {r} : Loading(s)' => Loading(s)
    BY <1>2, <1>3 DEF Loading
  <2>2. \A s \in Requests \ {r} : Loading(s) => asked[s].cid # c
    BY <1>5
  <2> HIDE DEF Loading
  <2> QED BY <1>2, <2>1, <2>2 DEF AgreeInv, OneLoads
<1>10. WritersInMemory'
  BY <1>2, <1>3 DEF AgreeInv, WritersInMemory
<1>11. LoadedWhole'
  BY <1>2, <1>3 DEF AgreeInv, LoadedWhole
<1>12. MemoryWhole'
  <2> SUFFICES ASSUME NEW d \in live'
               PROVE  /\ Once(turns'[d]) /\ Len(messages'[d]) = Len(turns'[d])
                      /\ \A t \in rows'[d] : t \in Elems(turns'[d]) \/ OnItsWay(t, d)'
    BY DEF MemoryWhole
  <2>1. \A t, e : OnItsWay(t, e) => OnItsWay(t, e)'
    BY <1>2, <1>3 DEF OnItsWay
  <2>2. CASE d = c
    BY <1>2, <1>4, <1>7, <2>2
  <2>3. CASE d # c
    <3>1. d \in live /\ d \in Cids \ {c}
      BY <1>2, <2>3 DEF TypeOK
    <3> QED BY <1>2, <1>4, <2>1, <3>1 DEF AgreeInv, MemoryWhole
  <2> QED BY <2>2, <2>3
<1>13. ResultsAreNews'
  <2>1. result[r] = NoTurn
    BY <1>2 DEF AgreeInv, ResultsAreNews
  <2>2. \A s \in Requests : pc'[s] = "written" =>
          pc[s] = "written" /\ asked[s].cid \in Cids \ {c}
    BY <1>1, <1>2, <1>3, <1>6
  <2> QED BY <1>2, <1>3, <1>4, <2>1, <2>2 DEF AgreeInv, ResultsAreNews
<1>14. NoHoleWanted' /\ NumbersAreDense'
  <2>1. pc'[r] \notin {"writing", "detached"}
    BY <1>2
  <2> QED BY <1>2, <1>3, <2>1 DEF AgreeInv, NoHoleWanted, NumbersAreDense
<1>15. ToldTurnReadable'
  <2> SUFFICES ASSUME NEW s \in Requests
               PROVE  told[s] \subseteq IF asked[s].cid \in live'
                                        THEN Numbers(Elems(turns'[asked[s].cid]))
                                        ELSE Numbers(rows[asked[s].cid])
    BY <1>2 DEF ToldTurnReadable
  <2>1. CASE asked[s].cid = c
    <3>1. told[s] \subseteq Numbers(rows[c])
      BY <1>5, <2>1 DEF AgreeInv, ToldTurnReadable
    <3> QED BY <1>2, <1>4, <1>7, <2>1, <3>1
  <2>2. CASE asked[s].cid # c
    BY <1>1, <1>2, <1>4, <2>2 DEF AgreeInv, ToldTurnReadable
  <2> QED BY <2>1, <2>2
<1> QED BY <1>8, <1>9, <1>10, <1>11, <1>12, <1>13, <1>14, <1>15 DEF AgreeInv

\* The turn gets the next number, and is on its way to memory, or to nobody.
LEMMA CommitAgrees ==
  ASSUME TypeOK, TypeOK', TranscriptConsistent, TranscriptConsistent', AgreeInv,
         RowsWereCommitted, ResultWasCommitted, \A d \in Cids : rows[d] = ever[d],
         MemoryNeverAheadOfDisk,
         NEW r \in Requests, record_turn(r),
         NEW n \in CommittedN(rows[asked[r].cid], wanted[r]), commit_turn(r, n)
  PROVE  AgreeInv'
<1> DEFINE c == asked[r].cid
           t == [n |-> n, text |-> asked[r].text]
           C == Cardinality(rows[c])
<1>1. c \in Cids /\ \A s \in Requests : asked[s].cid \in Cids
  BY DEF TypeOK, Asked
<1>2. /\ UNCHANGED <<phase, live, turns, messages, asked, wanted, loaded, told>>
      /\ pc[r] \in {"writing", "detached"} /\ pc'[r] \in {"written", "gone"}
      /\ pc[r] = "detached" => pc'[r] = "gone"
      /\ pc' = [pc EXCEPT ![r] = pc'[r]]
      /\ rows' = [rows EXCEPT ![c] = @ \cup {t}]
      /\ result' = [result EXCEPT ![r] = t]
  BY DEF record_turn, commit_turn, Goto, TypeOK, memVars
<1>3. /\ result'[r] = t
      /\ \A s \in Requests \ {r} : pc'[s] = pc[s] /\ result'[s] = result[s]
  BY <1>2 DEF TypeOK
<1>4. rows'[c] = rows[c] \cup {t} /\ \A d \in Cids \ {c} : rows'[d] = rows[d]
  BY <1>1, <1>2 DEF TypeOK
<1>5. c \in live /\ result[r] = NoTurn /\ wanted[r] <= C
  BY <1>2 DEF AgreeInv, WritersInMemory, ResultsAreNews, NoHoleWanted
<1>6. IsFiniteSet(rows[c]) /\ C \in Nat /\ rows[c] \in SUBSET Turn
  BY <1>1, FS_CardinalityType DEF TypeOK, TranscriptConsistent
<1>7. n = C
  <2>1. Numbers(rows[c]) = 0..(C - 1) /\ wanted[r] \in Nat
    BY <1>1 DEF AgreeInv, NumbersAreDense, TypeOK
  <2> HIDE DEF C
  <2> QED BY <1>5, <1>6, <2>1, NextNumber DEF C
<1>8. t \notin rows[c] /\ t \in Turn
  <2>1. n \notin Numbers(rows[c])
    BY DEF commit_turn
  <2>2. n \in Nat /\ asked[r].text \in Texts
    BY <1>6, <1>7 DEF TypeOK, Asked
  <2>3. \A u \in rows[c] : u.n # n
    BY <2>1 DEF Numbers
  <2> QED BY <2>2, <2>3 DEF Turn
<1>9. Cardinality(rows'[c]) = C + 1
  <2> HIDE DEF t
  <2>1. Cardinality(rows[c] \cup {t}) = Cardinality(rows[c]) + 1
    BY <1>6, <1>8, FS_AddElement
  <2> QED BY <1>4, <2>1
<1>10. AskedWhenOpen'
  <2>1. phase[c] = "open"
    BY <1>2 DEF AgreeInv, AskedWhenOpen
  <2> QED BY <1>2, <1>3, <1>4, <2>1 DEF AgreeInv, AskedWhenOpen
<1>11. OneLoads' /\ \A s \in Requests : Loading(s)' => asked[s].cid # c
  <2>1. ~Loading(r)' /\ \A s \in Requests \ {r} : Loading(s)' => Loading(s)
    BY <1>2, <1>3 DEF Loading
  <2> HIDE DEF Loading
  <2> QED BY <1>2, <1>5, <2>1 DEF AgreeInv, OneLoads
<1>12. WritersInMemory'
  BY <1>2, <1>3, <1>5 DEF AgreeInv, WritersInMemory
<1>13. LoadedWhole'
  <2> SUFFICES ASSUME NEW s \in Requests, pc'[s] \in {"messages", "hydrate"}
               PROVE  /\ Once(loaded[s].turns) /\ Elems(loaded[s].turns) = rows'[asked[s].cid]
                      /\ pc'[s] = "hydrate" =>
                           Len(loaded[s].messages) = Len(loaded[s].turns)
    BY <1>2 DEF LoadedWhole
  <2>1. s # r /\ pc'[s] = pc[s]
    BY <1>2, <1>3
  <2>2. asked[s].cid \in Cids \ {c}
    BY <1>1, <1>11 DEF Loading
  <2> QED BY <1>4, <2>1, <2>2 DEF AgreeInv, LoadedWhole
<1>14. MemoryWhole'
  <2>1. \A u, d : OnItsWay(u, d) => OnItsWay(u, d)'
    BY <1>2, <1>3, <1>5 DEF OnItsWay
  <2>2. (pc[r] = "writing" \/ pc[r] = "detached") /\ asked'[r].cid = c /\ result'[r] = t
    BY <1>2, <1>3
  <2> SUFFICES ASSUME NEW d \in live
               PROVE  /\ Once(turns[d]) /\ Len(messages[d]) = Len(turns[d])
                      /\ \A u \in rows'[d] : u \in Elems(turns[d]) \/ OnItsWay(u, d)'
    BY <1>2 DEF MemoryWhole
  <2>3. Once(turns[d]) /\ Len(messages[d]) = Len(turns[d])
    BY DEF AgreeInv, MemoryWhole
  <2>4. \A u \in rows[d] : u \in Elems(turns[d]) \/ OnItsWay(u, d)'
    BY <2>1 DEF AgreeInv, MemoryWhole
  <2>5. d \in Cids
    BY DEF TypeOK
  <2> HIDE DEF t
  <2>6. CASE d = c
    <3> SUFFICES ASSUME NEW u \in rows'[d] PROVE u \in Elems(turns[d]) \/ OnItsWay(u, d)'
      BY <2>3
    <3>1. CASE u = t
      BY <1>2, <2>2, <2>6, <3>1 DEF OnItsWay
    <3>2. CASE u \in rows[d]
      BY <2>4, <3>2
    <3> QED BY <1>4, <2>6, <3>1, <3>2
  <2>7. CASE d # c
    BY <1>4, <2>3, <2>4, <2>5, <2>7
  <2> QED BY <2>6, <2>7
<1>15. ResultsAreNews'
  <2>1. t \notin Elems(turns[c])
    BY <1>1, <1>8 DEF MemoryNeverAheadOfDisk
  <2>2. \A s \in Requests : result[s] # NoTurn /\ asked[s].cid = c => result[s] # t
    BY <1>1, <1>8 DEF ResultWasCommitted
  <2>3. pc'[r] \notin {"row", "turns", "messages", "hydrate", "answering", "writing",
                       "detached"}
    BY <1>2
  <2>4. t # NoTurn
    BY <1>8, ConstantsAssumption
  <2> HIDE DEF t
  <2>5. ASSUME NEW s \in Requests
        PROVE  pc'[s] \in {"row", "turns", "messages", "hydrate", "answering", "writing",
                           "detached"} => result'[s] = NoTurn
    BY <1>3, <2>3 DEF AgreeInv, ResultsAreNews
  <2>6. ASSUME NEW s \in Requests, pc'[s] = "written", result'[s] # NoTurn
        PROVE  /\ result'[s] \notin Elems(turns[asked[s].cid])
               /\ \A u \in Requests :
                    pc'[u] = "written" /\ asked[u].cid = asked[s].cid
                      /\ result'[u] = result'[s] => u = s
    <3>1. CASE s = r
      BY <1>3, <2>1, <2>2, <2>4, <3>1
    <3>2. CASE s # r
      <4>1. pc[s] = "written" /\ result'[s] = result[s]
        BY <1>3, <2>6, <3>2
      <4>2. asked[s].cid = c => result[s] # t
        BY <2>2, <2>6, <4>1
      <4>3. \A u \in Requests \ {r} :
              pc'[u] = "written" /\ asked[u].cid = asked[s].cid
                /\ result'[u] = result'[s] => u = s
        BY <1>3, <2>6, <4>1 DEF AgreeInv, ResultsAreNews
      <4> QED BY <1>3, <2>6, <4>1, <4>2, <4>3 DEF AgreeInv, ResultsAreNews
    <3> QED BY <3>1, <3>2
  <2> QED BY <1>2, <2>5, <2>6 DEF ResultsAreNews
<1>16. NoHoleWanted'
  <2> SUFFICES ASSUME NEW s \in Requests, pc'[s] \in {"writing", "detached"}
               PROVE  wanted[s] <= Cardinality(rows'[asked[s].cid])
    BY <1>2 DEF NoHoleWanted
  <2>1. pc[s] \in {"writing", "detached"}
    BY <1>2, <1>3
  <2>2. wanted[s] <= Cardinality(rows[asked[s].cid]) /\ wanted[s] \in Nat
    BY <2>1 DEF AgreeInv, NoHoleWanted, TypeOK
  <2>3. CASE asked[s].cid = c
    <3>1. wanted[s] <= C
      BY <2>2, <2>3
    <3> HIDE DEF C
    <3> QED BY <1>6, <1>9, <2>2, <2>3, <3>1
  <2>4. CASE asked[s].cid # c
    BY <1>1, <1>4, <2>2, <2>4
  <2> QED BY <2>3, <2>4
<1>17. NumbersAreDense'
  <2> SUFFICES ASSUME NEW d \in Cids
               PROVE  Numbers(rows'[d]) = 0..(Cardinality(rows'[d]) - 1)
    BY DEF NumbersAreDense
  <2>1. CASE d = c
    <3>1. Numbers(rows[c]) = 0..(C - 1)
      BY <1>1 DEF AgreeInv, NumbersAreDense
    <3>2. Numbers(rows[c] \cup {t}) = Numbers(rows[c]) \cup {n}
      <4>1. t.n = n
        OBVIOUS
      <4> HIDE DEF t
      <4> QED BY <4>1 DEF Numbers
    <3>3. Numbers(rows'[c]) = (0..(C - 1)) \cup {C}
      BY <1>4, <1>7, <3>1, <3>2
    <3> HIDE DEF C
    <3>4. (0..(C - 1)) \cup {C} = 0..C
      BY <1>6
    <3>5. (C + 1) - 1 = C
      BY <1>6
    <3> QED BY <1>9, <2>1, <3>3, <3>4, <3>5
  <2>2. CASE d # c
    BY <1>4, <2>2 DEF AgreeInv, NumbersAreDense
  <2> QED BY <2>1, <2>2
<1>18. ToldTurnReadable'
  <2>1. \A d \in Cids : Numbers(rows[d]) \subseteq Numbers(rows'[d])
    BY <1>1, <1>4 DEF Numbers
  <2> HIDE DEF t
  <2> QED BY <1>1, <1>2, <2>1 DEF AgreeInv, ToldTurnReadable
<1> QED BY <1>10, <1>11, <1>12, <1>13, <1>14, <1>15, <1>16, <1>17, <1>18 DEF AgreeInv

\* Nothing was recorded: there is no result, and the client is not told one.
LEMMA NothingRecordedAgrees ==
  ASSUME TypeOK, TypeOK', AgreeInv, NEW r \in Requests, record_turn(r),
         UNCHANGED <<diskVars, result>>
  PROVE  AgreeInv'
<1>1. /\ UNCHANGED <<phase, live, turns, messages, rows, asked, wanted, loaded, told, result>>
      /\ pc[r] \in {"writing", "detached"} /\ pc'[r] \in {"written", "gone"}
      /\ pc' = [pc EXCEPT ![r] = pc'[r]]
  BY DEF record_turn, Goto, TypeOK, memVars, diskVars
<1>2. \A s \in Requests \ {r} :
        pc'[s] = pc[s] /\ loaded'[s] = loaded[s] /\ wanted'[s] = wanted[s]
  BY <1>1 DEF TypeOK
<1> QED BY <1>1, <1>2, RequestMoves DEF Loading

\* The turn, under the number the store gave it, goes into memory once.
LEMMA PersistAgrees ==
  ASSUME StoreEnabled, TypeOK, TypeOK', ResultWasCommitted, NothingBeforeTheRequest,
         \A c \in Cids : rows[c] = ever[c], AgreeInv,
         NEW r \in Requests, persist_turn(r)
  PROVE  AgreeInv'
<1> DEFINE c == asked[r].cid
           t == result[r]
<1>1. c \in Cids /\ \A s \in Requests : asked[s].cid \in Cids
  BY DEF TypeOK, Asked
<1>2. /\ UNCHANGED <<phase, live, rows, asked, wanted, loaded, result>>
      /\ pc[r] = "written" /\ pc'[r] = "done"
      /\ pc' = [pc EXCEPT ![r] = pc'[r]]
  BY DEF persist_turn, Goto, TypeOK, diskVars
<1>3. \A s \in Requests \ {r} :
        pc'[s] = pc[s] /\ loaded'[s] = loaded[s] /\ wanted'[s] = wanted[s]
  BY <1>2 DEF TypeOK
<1>4. c \in live
  BY <1>2 DEF AgreeInv, WritersInMemory
<1>5. /\ AskedWhenOpen' /\ OneLoads' /\ WritersInMemory' /\ LoadedWhole'
      /\ NoHoleWanted' /\ NumbersAreDense'
  <2>1. AskedWhenOpen'
    BY <1>2, <1>3 DEF AgreeInv, AskedWhenOpen
  <2>2. OneLoads'
    <3>1. ~Loading(r)' /\ \A s \in Requests \ {r} : Loading(s)' => Loading(s)
      BY <1>2, <1>3 DEF Loading
    <3> HIDE DEF Loading
    <3> QED BY <1>2, <3>1 DEF AgreeInv, OneLoads
  <2>3. WritersInMemory'
    BY <1>2, <1>3 DEF AgreeInv, WritersInMemory
  <2>4. LoadedWhole'
    BY <1>2, <1>3 DEF AgreeInv, LoadedWhole
  <2>5. NoHoleWanted' /\ NumbersAreDense'
    BY <1>2, <1>3 DEF AgreeInv, NoHoleWanted, NumbersAreDense
  <2> QED BY <2>1, <2>2, <2>3, <2>4, <2>5
<1>6. CASE t = NoTurn
  <2>1. UNCHANGED <<turns, messages, told>>
    BY <1>6 DEF persist_turn
  <2>2. \A u \in Turn : \A d : OnItsWay(u, d) => OnItsWay(u, d)'
    BY <1>2, <1>3, <1>6, ConstantsAssumption DEF OnItsWay
  <2>3. MemoryWhole'
    <3> SUFFICES ASSUME NEW d \in live
                 PROVE  /\ Once(turns[d]) /\ Len(messages[d]) = Len(turns[d])
                        /\ \A u \in rows[d] : u \in Elems(turns[d]) \/ OnItsWay(u, d)'
      BY <1>2, <2>1 DEF MemoryWhole
    <3>1. rows[d] \subseteq Turn
      BY DEF TypeOK
    <3> QED BY <2>2, <3>1 DEF AgreeInv, MemoryWhole
  <2>4. ResultsAreNews' /\ ToldTurnReadable'
    BY <1>2, <1>3, <2>1 DEF AgreeInv, ResultsAreNews, ToldTurnReadable
  <2> QED BY <1>5, <2>3, <2>4 DEF AgreeInv
<1>7. CASE t # NoTurn
  <2>1. /\ turns' = [turns EXCEPT ![c] = Append(@, t)]
        /\ messages' = [messages EXCEPT ![c] = Append(@, t.text)]
        /\ told' = [told EXCEPT ![r] = {t.n}]
    BY <1>4, <1>7 DEF persist_turn
  <2>2. /\ turns'[c] = Append(turns[c], t) /\ messages'[c] = Append(messages[c], t.text)
        /\ \A d \in Cids \ {c} : turns'[d] = turns[d] /\ messages'[d] = messages[d]
        /\ told'[r] = {t.n} /\ \A s \in Requests \ {r} : told'[s] = told[s]
    BY <1>1, <2>1 DEF TypeOK
  <2>3. turns[c] \in Seq(Turn) /\ messages[c] \in Seq(Texts) /\ t \in Turn /\ t.text \in Texts
    BY <1>1, <1>7 DEF TypeOK, Turn
  <2>4. t \notin Elems(turns[c])
    BY <1>2, <1>7 DEF AgreeInv, ResultsAreNews
  <2>5. Once(turns[c]) /\ Len(messages[c]) = Len(turns[c])
    BY <1>4 DEF AgreeInv, MemoryWhole
  <2>6. Elems(turns'[c]) = Elems(turns[c]) \cup {t}
    BY <2>2, <2>3, ElemsAppend
  <2>7. Once(turns'[c])
    BY <2>2, <2>3, <2>4, <2>5, OnceAppend
  <2>8. Len(messages'[c]) = Len(turns'[c])
    BY <2>2, <2>3, <2>5
  <2> HIDE DEF t
  <2>9. MemoryWhole'
    <3> SUFFICES ASSUME NEW d \in live, NEW u \in rows[d]
                 PROVE  /\ Once(turns'[d]) /\ Len(messages'[d]) = Len(turns'[d])
                        /\ u \in Elems(turns'[d]) \/ OnItsWay(u, d)'
      <4>1. \A d \in live : Once(turns'[d]) /\ Len(messages'[d]) = Len(turns'[d])
        BY <2>2, <2>7, <2>8 DEF AgreeInv, MemoryWhole, TypeOK
      <4> QED BY <1>2, <4>1 DEF MemoryWhole
    <3>1. d \in Cids
      BY DEF TypeOK
    <3>2. Once(turns[d]) /\ Len(messages[d]) = Len(turns[d])
      BY DEF AgreeInv, MemoryWhole
    <3>3. Elems(turns[d]) \subseteq Elems(turns'[d])
      BY <2>2, <2>6, <3>1
    <3>4. u \in Elems(turns[d]) \/ OnItsWay(u, d)
      BY DEF AgreeInv, MemoryWhole
    <3>5. ASSUME OnItsWay(u, d) PROVE u \in Elems(turns'[d]) \/ OnItsWay(u, d)'
      <4>1. PICK s \in Requests :
              asked[s].cid = d /\ pc[s] \in {"written", "gone"} /\ result[s] = u
        BY <3>5 DEF OnItsWay
      <4>2. CASE s = r
        BY <2>6, <4>1, <4>2 DEF t
      <4>3. CASE s # r
        BY <1>2, <1>3, <4>1, <4>3 DEF OnItsWay
      <4> QED BY <4>2, <4>3
    <3>6. Once(turns'[d]) /\ Len(messages'[d]) = Len(turns'[d])
      BY <2>2, <2>7, <2>8, <3>1, <3>2
    <3> QED BY <3>3, <3>4, <3>5, <3>6
  <2>10. ResultsAreNews'
    <3>1. ASSUME NEW s \in Requests
          PROVE  pc'[s] \in {"row", "turns", "messages", "hydrate", "answering", "writing",
                             "detached"} => result[s] = NoTurn
      BY <1>2, <1>3 DEF AgreeInv, ResultsAreNews
    <3>2. ASSUME NEW s \in Requests, pc'[s] = "written", result[s] # NoTurn
          PROVE  /\ result[s] \notin Elems(turns'[asked[s].cid])
                 /\ \A u \in Requests :
                      pc'[u] = "written" /\ asked[u].cid = asked[s].cid
                        /\ result[u] = result[s] => u = s
      <4>1. s # r /\ pc[s] = "written"
        BY <1>2, <1>3, <3>2
      <4>2. asked[s].cid = c => result[s] # t
        BY <1>2, <1>7, <4>1, <3>2 DEF AgreeInv, ResultsAreNews, t
      <4>3. result[s] \notin Elems(turns[asked[s].cid])
        BY <3>2, <4>1 DEF AgreeInv, ResultsAreNews
      <4>4. result[s] \notin Elems(turns'[asked[s].cid])
        BY <1>1, <2>2, <2>6, <4>2, <4>3
      <4> QED BY <1>2, <1>3, <3>2, <4>1, <4>4 DEF AgreeInv, ResultsAreNews
    <3> QED BY <1>2, <3>1, <3>2 DEF ResultsAreNews
  <2>11. ToldTurnReadable'
    <3> SUFFICES ASSUME NEW s \in Requests
                 PROVE  told'[s] \subseteq IF asked[s].cid \in live
                                           THEN Numbers(Elems(turns'[asked[s].cid]))
                                           ELSE Numbers(rows[asked[s].cid])
      BY <1>2 DEF ToldTurnReadable
    <3>1. \A d \in Cids : Elems(turns[d]) \subseteq Elems(turns'[d])
      BY <2>2, <2>6
    <3>2. CASE s = r
      BY <1>4, <2>2, <2>6, <3>2 DEF Numbers
    <3>3. CASE s # r
      <4>1. \A d \in Cids : Numbers(Elems(turns[d])) \subseteq Numbers(Elems(turns'[d]))
        BY <3>1 DEF Numbers
      <4>2. told'[s] = told[s]
        BY <2>2, <3>3
      <4> QED BY <1>1, <4>1, <4>2 DEF AgreeInv, ToldTurnReadable
    <3> QED BY <3>2, <3>3
  <2> QED BY <1>5, <2>9, <2>10, <2>11 DEF AgreeInv
<1> QED BY <1>6, <1>7

\* A killed process leaves the tables; nobody waits any more.
LEMMA RestartAgrees ==
  ASSUME TypeOK, MemoryWasCommitted, \A c \in Cids : rows[c] = ever[c], AgreeInv, Restart
  PROVE  AgreeInv'
<1>1. /\ live' = {} /\ UNCHANGED <<rows, asked, wanted, result, told>>
      /\ phase' = [c \in Cids |-> IF phase[c] = "creating" THEN "unborn" ELSE phase[c]]
      /\ \A r \in Requests : pc'[r] \in {"idle", "done", "gone"}
      /\ \A r \in Requests : pc'[r] = "idle" => pc[r] = "idle"
      /\ \A r \in Requests : pc[r] = "idle" => pc'[r] = "idle"
  BY DEF Restart, diskVars
<1>2. \A r \in Requests : asked[r].cid \in Cids
  BY DEF TypeOK, Asked
<1>3. AskedWhenOpen'
  BY <1>1, <1>2 DEF AgreeInv, AskedWhenOpen
<1>4. OneLoads' /\ WritersInMemory' /\ LoadedWhole' /\ ResultsAreNews' /\ NoHoleWanted'
  BY <1>1 DEF OneLoads, Loading, WritersInMemory, LoadedWhole, ResultsAreNews, NoHoleWanted
<1>5. MemoryWhole'
  BY <1>1 DEF MemoryWhole
<1>6. NumbersAreDense'
  BY <1>1 DEF AgreeInv, NumbersAreDense
<1>7. ToldTurnReadable'
  <2>1. ASSUME NEW r \in Requests, NEW n \in told[r] PROVE n \in Numbers(rows[asked[r].cid])
    <3>1. [n |-> n, text |-> asked[r].text] \in rows[asked[r].cid]
      BY <1>2 DEF MemoryWasCommitted
    <3> QED BY <3>1 DEF Numbers
  <2> QED BY <1>1, <2>1 DEF ToldTurnReadable
<1> QED BY <1>3, <1>4, <1>5, <1>6, <1>7 DEF AgreeInv

\* The sweep finds nothing expired; the clock and a stutter say nothing.
LEMMA IdleAgrees ==
  ASSUME MaxNow <= TTL, TypeOK, NothingExpired, AgreeInv, Sweep \/ Tick \/ UNCHANGED vars
  PROVE  AgreeInv'
<1>1. UNCHANGED <<phase, live, turns, messages, reqVars>>
      /\ \A c \in Cids : rows'[c] = rows[c]
  <2>1. \A m \in Nat : ~Stale(m)
    BY NotStale DEF NothingExpired
  <2>2. CASE evict_stale_conversations
    <3>1. {c \in live : Stale(active[c])} = {}
      BY <2>1 DEF TypeOK
    <3> QED BY <2>2, <3>1 DEF evict_stale_conversations, evict_next, memVars, diskVars
  <2>3. CASE prune_conversations
    <3>1. {c \in stored : Stale(dbActive[c])} = {}
      BY <2>1 DEF TypeOK
    <3> QED BY <2>3, <3>1 DEF prune_conversations, delete_rows, memVars, diskVars, TypeOK
  <2>4. ~(record_report \/ evict_linked \/ evict_conversation \/ evict_resume)
    BY DEF record_report, evict_linked, evict_conversation, evict_resume, NothingExpired
  <2>5. CASE Tick \/ UNCHANGED vars
    BY <2>5 DEF Tick, vars, memVars, diskVars
  <2> QED BY <2>2, <2>3, <2>4, <2>5 DEF Sweep
<1>2. \A r \in Requests : asked[r].cid \in Cids
  BY DEF TypeOK, Asked
<1>3. live \subseteq Cids
  BY DEF TypeOK
<1> USE <1>1 DEF reqVars
<1>4. AskedWhenOpen' /\ OneLoads' /\ WritersInMemory'
  BY DEF AgreeInv, AskedWhenOpen, OneLoads, Loading, WritersInMemory
<1>5. LoadedWhole' /\ ResultsAreNews' /\ NoHoleWanted'
  BY <1>2 DEF AgreeInv, LoadedWhole, ResultsAreNews, NoHoleWanted
<1>6. MemoryWhole'
  <2>1. \A t, c : OnItsWay(t, c) => OnItsWay(t, c)'
    BY DEF OnItsWay
  <2> QED BY <1>3, <2>1 DEF AgreeInv, MemoryWhole
<1>7. NumbersAreDense' /\ ToldTurnReadable'
  BY <1>2 DEF AgreeInv, NumbersAreDense, ToldTurnReadable
<1> QED BY <1>4, <1>5, <1>6, <1>7 DEF AgreeInv

LEMMA AgreeStep ==
  ASSUME StoreEnabled, MaxNow <= TTL
  PROVE  /\ StoreInv /\ CommitInv /\ NothingExpired /\ AgreeInv
         /\ StoreInv' /\ [Next]_vars /\ [OneLoaderAtATime]_vars
         => AgreeInv'
<1> SUFFICES ASSUME StoreInv, StoreInv', CommitInv, NothingExpired, AgreeInv, [Next]_vars,
                    [OneLoaderAtATime]_vars
             PROVE  AgreeInv'
  OBVIOUS
<1>1. /\ TypeOK /\ TypeOK' /\ TranscriptConsistent /\ TranscriptConsistent'
      /\ RowsWereCommitted /\ ResultWasCommitted /\ NothingBeforeTheRequest
      /\ MemoryWasCommitted /\ \A c \in Cids : rows[c] = ever[c]
  BY DEF StoreInv, CommitInv, NothingExpired
<1>2. MemoryNeverAheadOfDisk
  BY <1>1 DEF MemoryWasCommitted, MemoryNeverAheadOfDisk
<1>3. ASSUME NEW c \in Cids, create_conversation(c) \/ record_conversation(c)
      PROVE  AgreeInv'
  BY <1>1, <1>3, OpeningAgrees
<1>4. ASSUME NEW r \in Requests, NEW q \in Asked, get_conversation(r, q) PROVE AgreeInv'
  <2>1. OneLoaderAtATime
    <3>1. pc[r] = "idle" /\ pc'[r] # "idle"
      BY <1>1, <1>4 DEF get_conversation, Finish, TypeOK
    <3> QED BY <3>1 DEF vars, reqVars
  <2> QED BY <1>1, <1>4, <2>1, ArrivalAgrees
<1>5. ASSUME NEW r \in Requests, Serve(r) \/ disconnect(r) PROVE AgreeInv'
  <2>1. CASE load_row(r) \/ load_turns(r) \/ load_messages(r)
    BY <1>1, <2>1, LoadAgrees
  <2>2. CASE hydrate(r)
    BY <1>1, <2>2, HydrationAgrees
  <2>3. CASE abandon(r) \/ build_turn(r) \/ disconnect(r)
    BY <1>1, <1>2, <2>3, TurnAgrees
  <2>4. CASE record_turn(r)
    <3>1. CASE UNCHANGED <<diskVars, result>>
      BY <1>1, <2>4, <3>1, NothingRecordedAgrees
    <3>2. CASE \E n \in CommittedN(rows[asked[r].cid], wanted[r]) : commit_turn(r, n)
      BY <1>1, <1>2, <2>4, <3>2, CommitAgrees
    <3> QED BY <2>4, <3>1, <3>2 DEF record_turn
  <2>5. CASE persist_turn(r)
    BY <1>1, <2>5, PersistAgrees
  <2> QED BY <1>5, <2>1, <2>2, <2>3, <2>4, <2>5 DEF Serve
<1>6. CASE Sweep \/ Tick \/ UNCHANGED vars
  BY <1>1, <1>6, IdleAgrees
<1>7. CASE Restart
  BY <1>1, <1>7, RestartAgrees
<1> QED BY <1>3, <1>4, <1>5, <1>6, <1>7 DEF Next

LEMMA InitAgree == Init => AgreeInv
<1> SUFFICES ASSUME Init PROVE AgreeInv
  OBVIOUS
<1>1. AskedWhenOpen /\ OneLoads /\ WritersInMemory /\ LoadedWhole /\ MemoryWhole
      /\ ResultsAreNews /\ NoHoleWanted
  BY DEF Init, AskedWhenOpen, OneLoads, Loading, WritersInMemory, LoadedWhole, MemoryWhole,
     ResultsAreNews, NoHoleWanted
<1>2. NumbersAreDense
  <2>1. Cardinality({}) = 0 /\ Numbers({}) = {}
    BY FS_EmptySet DEF Numbers
  <2>2. 0..(0 - 1) = {}
    OBVIOUS
  <2> QED BY <2>1, <2>2 DEF Init, NumbersAreDense
<1>3. ToldTurnReadable
  BY DEF Init, ToldTurnReadable
<1> QED BY <1>1, <1>2, <1>3 DEF AgreeInv

\* Everything that holds as long as nothing expires and one request hydrates.
LEMMA AgreeInvariant ==
  ASSUME StoreEnabled, MaxNow <= TTL
  PROVE  Spec /\ [][OneLoaderAtATime]_vars =>
           [](StoreInv /\ CommitInv /\ NothingExpired /\ AgreeInv)
<1>1. Init => NothingExpired
  BY ConstantsAssumption DEF Init, NothingExpired
<1>2. StoreInv /\ NothingExpired /\ [Next]_vars => NothingExpired'
  BY NothingExpiredStep
<1>3. /\ StoreInv /\ CommitInv /\ NothingExpired /\ AgreeInv
      /\ StoreInv' /\ [Next]_vars /\ [OneLoaderAtATime]_vars
      => AgreeInv'
  BY AgreeStep
<1> QED BY <1>1, <1>2, <1>3, InitAgree, StoreInvariant, CommitInvariant, PTL DEF Spec

(***************************************************************************)
(* A collision is resolved at the next free number, and an interview has   *)
(* no gap in its numbers: with any number of clients, retries, failures,   *)
(* cut-off turns and restarts, the k-th turn on disk has number k - 1, as  *)
(* long as nothing expires and one request at a time hydrates it.          *)
(***************************************************************************)
THEOREM NumbersStayDense ==
  ASSUME StoreEnabled, MaxNow <= TTL
  PROVE  Spec /\ [][OneLoaderAtATime]_vars => []NumbersAreDense
<1>1. AgreeInv => NumbersAreDense
  BY DEF AgreeInv
<1> QED BY <1>1, AgreeInvariant, PTL

(***************************************************************************)
(* A number a client was sent can be asked about, in memory or after a     *)
(* restart, under the same two conditions; without the second it cannot    *)
(* (run store_hydration_race).                                             *)
(***************************************************************************)
THEOREM ToldTurnsStayReadable ==
  ASSUME StoreEnabled, MaxNow <= TTL
  PROVE  Spec /\ [][OneLoaderAtATime]_vars => []ToldTurnReadable
<1>1. AgreeInv => ToldTurnReadable
  BY DEF AgreeInv
<1> QED BY <1>1, AgreeInvariant, PTL

(***************************************************************************)
(* When all requests on a conversation are answered, its entry in memory   *)
(* holds exactly the rows of the store, each once, with their messages.    *)
(***************************************************************************)
THEOREM SettledMeansEqual ==
  ASSUME StoreEnabled, MaxNow <= TTL
  PROVE  Spec /\ [][OneLoaderAtATime]_vars => []AgreementWhenSettled
<1>1. StoreInv /\ CommitInv /\ NothingExpired /\ AgreeInv => AgreementWhenSettled
  <2> SUFFICES ASSUME StoreInv, CommitInv, NothingExpired, AgreeInv, NEW c \in live, Settled(c)
               PROVE  /\ Elems(turns[c]) = rows[c]
                      /\ Len(turns[c]) = Cardinality(rows[c])
                      /\ Len(messages[c]) = Len(turns[c])
    BY DEF AgreementWhenSettled
  <2>1. c \in Cids /\ turns[c] \in Seq(Turn) /\ IsFiniteSet(rows[c])
    BY DEF StoreInv, TypeOK, TranscriptConsistent
  <2>2. Elems(turns[c]) \subseteq rows[c]
    BY <2>1 DEF CommitInv, MemoryWasCommitted, NothingExpired
  <2>3. Once(turns[c]) /\ Len(messages[c]) = Len(turns[c])
    BY DEF AgreeInv, MemoryWhole
  <2>4. Elems(turns[c]) = rows[c]
    BY <2>2 DEF AgreeInv, MemoryWhole, OnItsWay, Settled
  <2> QED BY <2>1, <2>3, <2>4, OnceCounts
<1> QED BY <1>1, AgreeInvariant, PTL

-----------------------------------------------------------------------------
(* A collision loses no answer *)

\* Only a commit changes the history, and it adds to it.
LEMMA HistoryGrows ==
  ASSUME TypeOK, [Next]_vars
  PROVE  \A c \in Cids : ever[c] \subseteq ever'[c]
<1>1. CASE ever' = ever
  BY <1>1
<1>2. ASSUME NEW r \in Requests, NEW n \in Nat, commit_turn(r, n)
      PROVE  \A c \in Cids : ever[c] \subseteq ever'[c]
  BY <1>2 DEF commit_turn, TypeOK
<1>3. CASE \E C \in SUBSET Cids : delete_rows(C)
  BY <1>3 DEF delete_rows
<1> QED BY <1>1, <1>2, <1>3, DiskSteps

\* A request that has written, or has found itself written.
LEMMA KeptStep ==
  ASSUME StoreEnabled, "write" \notin Faults
  PROVE  StoreInv /\ CommitInv /\ AnswerKept /\ [Next]_vars => AnswerKept'
<1> SUFFICES ASSUME TypeOK, TranscriptConsistent, RowsWereCommitted, AnswerKept, [Next]_vars,
                    NEW r \in Requests, pc'[r] = "written"
             PROVE  \E t \in ever'[asked'[r].cid] : t.text = asked'[r].text
  BY DEF StoreInv, CommitInv, AnswerKept
<1>1. asked[r].cid \in Cids
  BY DEF TypeOK, Asked
<1>2. CASE record_turn(r)
  <2> DEFINE S == rows[asked[r].cid]
  <2>1. asked' = asked
    BY <1>2 DEF record_turn
  <2>2. CASE \E n \in CommittedN(S, wanted[r]) : commit_turn(r, n)
    <3>1. PICK n : commit_turn(r, n)
      BY <2>2
    <3>2. [n |-> n, text |-> asked[r].text] \in ever'[asked[r].cid]
      BY <1>1, <3>1 DEF commit_turn, TypeOK
    <3> QED BY <2>1, <3>2
  <2>3. CASE records_nothing(r) /\ UNCHANGED <<diskVars, result>>
    <3>1. \A n \in CommittedN(S, wanted[r]) : n \notin Numbers(S)
      <4> SUFFICES ASSUME NEW n \in CommittedN(S, wanted[r]) PROVE n \notin Numbers(S)
        OBVIOUS
      <4>1. \A k \in Numbers(S) : k \in Nat
        BY <1>1 DEF Numbers, TypeOK, Turn
      <4> HIDE DEF S
      <4>2. CASE wanted[r] \in Numbers(S)
        BY <4>1, <4>2 DEF CommittedN, NextFree
      <4>3. CASE wanted[r] \notin Numbers(S)
        BY <4>3 DEF CommittedN
      <4> QED BY <4>2, <4>3
    <3>2. Requested(r) \in S
      BY <2>3, <3>1 DEF records_nothing, MayFail
    <3>3. Requested(r) \in ever'[asked[r].cid]
      BY <1>1, <2>3, <3>2 DEF RowsWereCommitted, diskVars
    <3> QED BY <2>1, <3>3 DEF Requested
  <2> QED BY <1>2, <2>2, <2>3 DEF record_turn
<1>3. CASE pc[r] = "written" /\ asked'[r] = asked[r]
  BY <1>1, <1>3, HistoryGrows DEF AnswerKept
<1>4. record_turn(r) \/ (pc[r] = "written" /\ asked'[r] = asked[r])
  <2>1. ASSUME NEW c \in Cids, create_conversation(c) \/ record_conversation(c)
        PROVE  pc' = pc /\ asked' = asked
    BY <2>1 DEF create_conversation, record_conversation, reqVars
  <2>2. ASSUME NEW s \in Requests, NEW q \in Asked, get_conversation(s, q)
        PROVE  pc[r] = "written" /\ asked'[r] = asked[r]
    <3>1. pc[s] = "idle" /\ pc'[s] # "written"
      BY <2>2 DEF get_conversation, Finish, TypeOK
    <3> QED BY <2>2, <3>1 DEF get_conversation, Finish, TypeOK
  <2>3. ASSUME NEW s \in Requests, Serve(s) \/ disconnect(s)
        PROVE  record_turn(r) \/ (pc[r] = "written" /\ asked'[r] = asked[r])
    <3>1. CASE record_turn(s)
      BY <3>1 DEF record_turn, Goto, TypeOK
    <3>2. CASE \/ load_row(s) \/ load_turns(s) \/ load_messages(s) \/ hydrate(s)
               \/ abandon(s) \/ build_turn(s) \/ persist_turn(s) \/ disconnect(s)
      <4>1. asked' = asked /\ pc' = [pc EXCEPT ![s] = pc'[s]] /\ pc'[s] # "written"
        BY <3>2 DEF load_row, load_turns, load_messages, hydrate, abandon, build_turn,
           persist_turn, disconnect, Goto, TypeOK
      <4> QED BY <4>1 DEF TypeOK
    <3> QED BY <2>3, <3>1, <3>2 DEF Serve
  <2>4. CASE Sweep
    BY <2>4 DEF Sweep, evict_stale_conversations, record_report, evict_linked,
       evict_conversation, evict_resume, prune_conversations, reqVars
  <2>5. CASE Tick \/ UNCHANGED vars
    BY <2>5 DEF Tick, vars, reqVars
  <2>6. ~Restart
    BY DEF Restart
  <2> QED BY <2>1, <2>2, <2>3, <2>4, <2>5, <2>6 DEF Next
<1> QED BY <1>2, <1>3, <1>4

(***************************************************************************)
(* "Neither answer is lost" (record_turn): with a store whose writes go    *)
(* through, a request that comes back from record_turn finds its exchange  *)
(* committed, whoever took its number, whatever has expired and however    *)
(* many requests hydrate the conversation.                                 *)
(***************************************************************************)
THEOREM AnswersAreKept ==
  ASSUME StoreEnabled, "write" \notin Faults
  PROVE  Spec => []AnswerKept
<1>1. Init => AnswerKept
  BY DEF Init, AnswerKept
<1>2. StoreInv /\ CommitInv /\ AnswerKept /\ [Next]_vars => AnswerKept'
  BY KeptStep
<1> QED BY <1>1, <1>2, CommitInvariant, PTL DEF Spec
=============================================================================
