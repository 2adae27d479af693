------------------------- MODULE ConversationStore -------------------------
(***************************************************************************)
(* The two copies of an interview and everything that moves exchanges      *)
(* between them: the process-wide dictionary `conversations` of            *)
(* backend/conversation.py, the SQLite file of services/persistence.py,    *)
(* the requests that are turned into turns, the on-demand hydration after  *)
(* a restart, and the periodic sweep of backend/maintenance.py.            *)
(*                                                                         *)
(* The event loop is a single thread, so a handler is atomic between two   *)
(* awaits; every await on asyncio.to_thread(...) is a point where any      *)
(* other actor may run.  Each handler is therefore split exactly at its    *)
(* awaits, and the call made on the worker thread is an action of its own. *)
(*                                                                         *)
(* Covered failures: a read or a write of the store that fails (and is     *)
(* swallowed), a client that disconnects, a kill and restart of the        *)
(* process, and expiry of a conversation while it is in use.               *)
(*                                                                         *)
(* Abstracted: what is said (a member of Texts stands for the question,    *)
(* the answer and the passages, which is what the retry test compares),    *)
(* the rolling summary (a function of the turns), and the reports (module  *)
(* scope of services/report.py): of a report only the await matters here.  *)
(***************************************************************************)
EXTENDS Integers, Sequences, FiniteSets

CONSTANTS
  Cids,          \* conversation ids the uuid4 generator may hand out
  Texts,         \* contents of an exchange
  Requests,      \* HTTP requests that may arrive; each arrives at most once
  TTL,           \* SESSION_TTL_HOURS, in clock units
  MaxNow,        \* bound: the clock stops here
  MaxInFlight,   \* bound: requests the clients keep in flight at a time
  MaxRestarts,   \* bound: how often the process is killed and restarted
  StoreEnabled,  \* PersistenceService.is_enabled()
  Faults,        \* which failures the environment may inject
  NoTurn         \* Python's None where a committed turn is expected

FaultKinds == {"read", "write", "disconnect"}

Turn == [n : Nat, text : Texts]

ASSUME ConstantsAssumption ==
  /\ Cids # {} /\ Texts # {}
  /\ TTL \in Nat /\ MaxNow \in Nat /\ MaxInFlight \in Nat
  /\ MaxRestarts \in Nat
  /\ StoreEnabled \in BOOLEAN
  /\ Faults \subseteq FaultKinds
  /\ NoTurn \notin Turn

(***************************************************************************)
(* A request is a turn on one of the two message endpoints, a turn that    *)
(* the streaming endpoint recognises as a farewell, or a read of the       *)
(* Context panel.                                                          *)
(***************************************************************************)
Kinds == {"turn", "farewell", "context"}
Asked == [cid : Cids, kind : Kinds, text : Texts]
Loaded == [active : Nat, turns : Seq(Turn), messages : Seq(Texts)]

Assembled(a, t, m) == [active |-> a, turns |-> t, messages |-> m]
NothingLoaded == Assembled(0, <<>>, <<>>)

(***************************************************************************)
(* Where a request stands.  "row", "turns" and "messages" are the three    *)
(* SELECTs of load_conversation; "writing" waits for record_turn and       *)
(* "written" for the event loop to resume persist_turn.  "detached" is a   *)
(* record_turn whose coroutine was cancelled: the thread still runs.       *)
(* "done" answered its client; "gone" has no client to answer.             *)
(***************************************************************************)
Stages == {"idle", "row", "turns", "messages", "hydrate", "answering",
           "writing", "detached", "written", "done", "gone"}

SweepStages == {"asleep", "linking", "linked", "evicting", "evicted", "pruning"}

VARIABLES
  now,        \* the clock, in the unit of TTL
  phase,      \* per cid: "unborn", "creating" (client has no id yet), "open"
  live,       \* keys of the dictionary `conversations`
  turns,      \* conversations[c]["turns"]
  messages,   \* conversations[c]["messages"]
  active,     \* conversations[c]["last_activity_at"]
  stored,     \* ids with a row in table conversations
  rows,       \* table turns, per conversation
  log,        \* table messages in id order, per conversation
  dbActive,   \* conversations.last_activity_at on disk
  asked,      \* what each request asks for
  pc,         \* where each request stands
  wanted,     \* the n build_turn asked for
  loaded,     \* the dictionary load_conversation is assembling
  result,     \* what record_turn returned
  told,       \* turn numbers sent to the client in `done`/`interview_end`
  sweep,      \* where periodic_cleanup stands
  todo,       \* stale_ids not handled yet
  victim,     \* the id being evicted
  restarts,   \* how often the process was restarted
  ever        \* history: turns ever committed, per conversation

memVars  == <<live, turns, messages, active>>
diskVars == <<stored, rows, log, dbActive, ever>>
reqVars  == <<asked, pc, wanted, loaded, result, told>>
sweepVars == <<sweep, todo, victim>>
clockVars == <<now, restarts>>
vars == <<clockVars, phase, memVars, diskVars, reqVars, sweepVars>>

-----------------------------------------------------------------------------
(* Helpers *)

Numbers(S) == {t.n : t \in S}
Elems(s)   == {s[i] : i \in DOMAIN s}

\* moment < cutoff, and last_activity_at < cutoff in the DELETE of the prune.
Stale(moment) == moment + TTL < now

InFlight == {r \in Requests : pc[r] \notin {"idle", "detached", "done", "gone"}}

\* A failure of kind k is possible.
MayFail(k) == k \in Faults

\* Mutant: one more than needed.
NextFree_offByOne(S) ==
  {m \in {k + 2 : k \in Numbers(S)} : \A k \in Numbers(S) : k + 1 < m}

\* _next_free_n: MAX(n) + 1; a singleton, since it is asked only when n is taken.
NextFree(S) == {m \in {k + 1 : k \in Numbers(S)} : \A k \in Numbers(S) : k < m}

\* Mutant: the plain INSERT of the first version, which UNIQUE rejects.
CommittedN_requested(S, n) == {n}

\* committed_n of record_turn.
CommittedN(S, n) == IF n \in Numbers(S) THEN NextFree(S) ELSE {n}

\* SELECT ... FROM turns ORDER BY n.
OrderedByN(S) ==
  {s \in [1..Cardinality(S) -> S] : \A i, j \in DOMAIN s : i < j => s[i].n < s[j].n}

\* The request is over for its client.
Finish(r, stage) == pc' = [pc EXCEPT ![r] = stage]

Goto(r, from, to) ==
  /\ pc[r] = from
  /\ pc' = [pc EXCEPT ![r] = to]

-----------------------------------------------------------------------------
(* Opening a conversation: memory first, then the write-through. *)

create_conversation(c) ==
  /\ phase[c] = "unborn"
  /\ phase' = [phase EXCEPT ![c] = "creating"]
  /\ live' = live \cup {c}
  /\ turns' = [turns EXCEPT ![c] = <<>>]
  /\ messages' = [messages EXCEPT ![c] = <<>>]
  /\ active' = [active EXCEPT ![c] = now]
  /\ UNCHANGED <<clockVars, diskVars, reqVars, sweepVars>>

\* The worker's upsert and the response that hands the id to the client.
\* active[c] still holds the now_iso of the creation: no client knows the id.
record_conversation(c) ==
  /\ phase[c] = "creating"
  /\ phase' = [phase EXCEPT ![c] = "open"]
  /\ \/ /\ StoreEnabled
        /\ stored' = stored \cup {c}
        /\ dbActive' = [dbActive EXCEPT ![c] = active[c]]
     \/ /\ ~StoreEnabled \/ MayFail("write")
        /\ UNCHANGED <<stored, dbActive>>
  /\ UNCHANGED <<clockVars, memVars, rows, log, ever, reqVars, sweepVars>>

-----------------------------------------------------------------------------
(* get_conversation_or_hydrate, the first thing every request does. *)

\* A hit goes straight on; a miss starts load_conversation on a thread.
\* A context read that hits reads memory and answers without an await.
get_conversation(r, q) ==
  /\ pc[r] = "idle"
  /\ phase[q.cid] = "open"
  /\ Cardinality(InFlight) < MaxInFlight
  /\ asked' = [asked EXCEPT ![r] = q]
  /\ Finish(r, IF q.cid \notin live THEN "row"
               ELSE IF q.kind = "context" THEN "done" ELSE "answering")
  /\ UNCHANGED <<clockVars, phase, memVars, diskVars, wanted, loaded, result, told,
                 sweepVars>>

\* SELECT * FROM conversations; no row, a disabled or a failing store: 404.
load_row(r) ==
  LET c == asked[r].cid IN
  /\ \/ /\ c \in stored
        /\ Goto(r, "row", "turns")
        /\ loaded' = [loaded EXCEPT ![r] = Assembled(dbActive[c], <<>>, <<>>)]
     \/ /\ c \notin stored \/ MayFail("read")
        /\ Goto(r, "row", "done")
        /\ UNCHANGED loaded
  /\ UNCHANGED <<clockVars, phase, memVars, diskVars, asked, wanted, result, told,
                 sweepVars>>

load_turns(r) ==
  LET c == asked[r].cid IN
  /\ Goto(r, "turns", "messages")
  /\ \E s \in OrderedByN(rows[c]) :
       loaded' = [loaded EXCEPT ![r] = Assembled(@.active, s, <<>>)]
  /\ UNCHANGED <<clockVars, phase, memVars, diskVars, asked, wanted, result, told,
                 sweepVars>>

\* The three SELECTs share a connection but no transaction.
load_messages(r) ==
  LET c == asked[r].cid IN
  /\ Goto(r, "messages", "hydrate")
  /\ loaded' = [loaded EXCEPT ![r] = Assembled(@.active, @.turns, log[c])]
  /\ UNCHANGED <<clockVars, phase, memVars, diskVars, asked, wanted, result, told,
                 sweepVars>>

\* Back on the event loop: the dictionary entry is assigned, whatever it was.
hydrate(r) ==
  LET c == asked[r].cid IN
  /\ Goto(r, "hydrate", IF asked[r].kind = "context" THEN "done" ELSE "answering")
  /\ live' = live \cup {c}
  /\ turns' = [turns EXCEPT ![c] = loaded[r].turns]
  /\ messages' = [messages EXCEPT ![c] = loaded[r].messages]
  /\ active' = [active EXCEPT ![c] = loaded[r].active]
  /\ loaded' = [loaded EXCEPT ![r] = NothingLoaded]
  /\ UNCHANGED <<clockVars, phase, diskVars, asked, wanted, result, told, sweepVars>>

-----------------------------------------------------------------------------
(* The end of a turn: build_turn, touch_activity, persist_turn. *)

\* A turn that ends before it is stored: silence, a failed provider, a
\* conversation evicted under it (KeyError), or a client that left.
abandon(r) ==
  /\ Goto(r, "answering", "done")
  /\ UNCHANGED <<clockVars, phase, memVars, diskVars, asked, wanted, loaded, result,
                 told, sweepVars>>

\* Mutant: the number of the last turn instead of the next one.
build_turn_lastNumber(r) ==
  LET c == asked[r].cid IN
  /\ c \in live
  /\ Goto(r, "answering", "writing")
  /\ wanted' = [wanted EXCEPT ![r] = Len(turns[c]) - 1]
  /\ active' = [active EXCEPT ![c] = now]
  /\ UNCHANGED <<clockVars, phase, live, turns, messages, diskVars, asked, loaded,
                 result, told, sweepVars>>

\* n is derived from memory; a farewell does not stamp the activity.
build_turn(r) ==
  LET c == asked[r].cid IN
  /\ c \in live
  /\ Goto(r, "answering", "writing")
  /\ wanted' = [wanted EXCEPT ![r] = Len(turns[c])]
  /\ active' = IF asked[r].kind = "farewell" THEN active
               ELSE [active EXCEPT ![c] = now]
  /\ UNCHANGED <<clockVars, phase, live, turns, messages, diskVars, asked, loaded,
                 result, told, sweepVars>>

\* The client leaves while the coroutine is in persist_turn: CancelledError
\* at the await.  The thread is not cancelled with it.
disconnect(r) ==
  /\ MayFail("disconnect")
  /\ Goto(r, "writing", "detached") \/ Goto(r, "written", "gone")
  /\ UNCHANGED <<clockVars, phase, memVars, diskVars, asked, wanted, loaded, result,
                 told, sweepVars>>

\* The exchange as build_turn asked for it.
Requested(r) == [n |-> wanted[r], text |-> asked[r].text]

\* INSERT of the turn and of its message, with the upsert of the conversation
\* row, in one transaction.  UNIQUE(conversation_id, n) has the last word.
commit_turn(r, n) ==
  LET c == asked[r].cid
      t == [n |-> n, text |-> asked[r].text] IN
  /\ n \notin Numbers(rows[c])
  /\ stored' = stored \cup {c}
  /\ dbActive' = [dbActive EXCEPT ![c] = now]
  /\ rows' = [rows EXCEPT ![c] = @ \cup {t}]
  /\ log' = [log EXCEPT ![c] = Append(@, t.text)]
  /\ ever' = [ever EXCEPT ![c] = @ \cup {t}]
  /\ result' = [result EXCEPT ![r] = t]

\* What makes record_turn return None: a disabled store, an error, an
\* exchange that is there verbatim, or the UNIQUE index.
records_nothing(r) ==
  LET S == rows[asked[r].cid] IN
  \/ ~StoreEnabled
  \/ MayFail("write")
  \/ Requested(r) \in S
  \/ \E n \in CommittedN(S, wanted[r]) : n \in Numbers(S)

\* Mutant: the message of an identical retry is inserted all the same.
record_turn_logsRetry(r) ==
  LET c == asked[r].cid IN
  /\ Goto(r, "writing", "written") \/ Goto(r, "detached", "gone")
  /\ \/ /\ Requested(r) \notin rows[c]
        /\ \E n \in CommittedN(rows[c], wanted[r]) : commit_turn(r, n)
     \/ /\ Requested(r) \in rows[c]
        /\ log' = [log EXCEPT ![c] = Append(@, asked[r].text)]
        /\ UNCHANGED <<stored, rows, dbActive, ever, result>>
  /\ UNCHANGED <<clockVars, phase, memVars, asked, wanted, loaded, told, sweepVars>>

record_turn(r) ==
  LET S == rows[asked[r].cid] IN
  /\ Goto(r, "writing", "written") \/ Goto(r, "detached", "gone")
  /\ \/ /\ StoreEnabled
        /\ Requested(r) \notin S
        /\ \E n \in CommittedN(S, wanted[r]) : commit_turn(r, n)
     \/ /\ records_nothing(r)
        /\ UNCHANGED <<diskVars, result>>
  /\ UNCHANGED <<clockVars, phase, memVars, asked, wanted, loaded, told, sweepVars>>

\* Mutants of persist_turn: t goes into memory, n to the client.
remembers(r, t, n) ==
  LET c == asked[r].cid IN
  /\ c \in live
  /\ Goto(r, "written", "done")
  /\ turns' = [turns EXCEPT ![c] = Append(@, t)]
  /\ messages' = [messages EXCEPT ![c] = Append(@, t.text)]
  /\ told' = [told EXCEPT ![r] = {n}]
  /\ UNCHANGED <<clockVars, phase, live, active, diskVars, asked, wanted, loaded,
                 result, sweepVars>>

\* The provisional turn is kept and the committed number discarded.
persist_turn_provisional(r) ==
  /\ result[r] # NoTurn
  /\ remembers(r, Requested(r), wanted[r])

\* The provisional turn is kept, the committed number is sent.
persist_turn_twoNumbers(r) ==
  /\ result[r] # NoTurn
  /\ remembers(r, Requested(r), result[r].n)

\* None is taken for "stored as requested", also when it means a retry.
persist_turn_keepsRetry(r) ==
  LET t == IF result[r] # NoTurn THEN result[r] ELSE Requested(r) IN
  remembers(r, t, t.n)

\* persist_turn after its await.  None leaves memory alone unless the store
\* is off; an entry evicted meanwhile is a KeyError, and no number goes out.
persist_turn(r) ==
  LET c == asked[r].cid
      t == IF result[r] # NoTurn THEN result[r] ELSE Requested(r)
      keeps == (result[r] # NoTurn \/ ~StoreEnabled) /\ c \in live IN
  /\ Goto(r, "written", "done")
  /\ IF keeps
     THEN /\ turns' = [turns EXCEPT ![c] = Append(@, t)]
          /\ messages' = [messages EXCEPT ![c] = Append(@, t.text)]
          /\ told' = [told EXCEPT ![r] = {t.n}]
     ELSE UNCHANGED <<turns, messages, told>>
  /\ UNCHANGED <<clockVars, phase, live, active, diskVars, asked, wanted, loaded,
                 result, sweepVars>>

-----------------------------------------------------------------------------
(* The periodic sweep *)

\* conversations.pop(c, None)
pop(c) ==
  /\ live' = live \ {c}
  /\ turns' = [turns EXCEPT ![c] = <<>>]
  /\ messages' = [messages EXCEPT ![c] = <<>>]
  /\ UNCHANGED active

\* Mutant: a conversation without a report is skipped, not evicted.
evict_next_onlyReported(S) ==
  \/ /\ S = {}
     /\ sweep' = "pruning"
     /\ UNCHANGED <<memVars, todo, victim>>
  \/ \E c \in S :
       /\ victim' = c
       /\ todo' = S \ {c}
       /\ sweep' = IF messages[c] # <<>> THEN "linking" ELSE "evicted"
       /\ UNCHANGED memVars

\* The loop of evict_stale_conversations from one await to the next.  A report
\* is written only for a conversation with messages, and not if one exists or
\* the file system refuses; a report is linked before the entry is dropped.
evict_next(S) ==
  \/ /\ S = {}
     /\ sweep' = "pruning"
     /\ UNCHANGED <<memVars, todo, victim>>
  \/ \E c \in S :
       /\ victim' = c
       /\ todo' = S \ {c}
       /\ \/ /\ c \in live /\ messages[c] # <<>>
             /\ sweep' = "linking"
             /\ UNCHANGED memVars
          \/ /\ sweep' = "evicting"
             /\ pop(c)

\* The snapshot of stale ids is taken once, before the first await.
evict_stale_conversations ==
  /\ sweep = "asleep"
  /\ evict_next({c \in live : Stale(active[c])})
  /\ UNCHANGED <<clockVars, phase, diskVars, reqVars>>

\* record_report on its thread, then the pop when the loop resumes.
record_report ==
  /\ sweep = "linking"
  /\ sweep' = "linked"
  /\ UNCHANGED <<clockVars, phase, memVars, diskVars, reqVars, todo, victim>>

evict_linked ==
  /\ sweep = "linked"
  /\ sweep' = "evicting"
  /\ pop(victim)
  /\ UNCHANGED <<clockVars, phase, diskVars, reqVars, todo, victim>>

\* Mutant: the messages table lacks the cascade.
delete_rows_keepsMessages(C) ==
  /\ stored' = stored \ C
  /\ rows' = [c \in Cids |-> IF c \in C THEN {} ELSE rows[c]]
  /\ UNCHANGED <<log, dbActive, ever>>

\* DELETE FROM conversations; turns and messages go by ON DELETE CASCADE.
delete_rows(C) ==
  /\ stored' = stored \ C
  /\ rows' = [c \in Cids |-> IF c \in C THEN {} ELSE rows[c]]
  /\ log' = [c \in Cids |-> IF c \in C THEN <<>> ELSE log[c]]
  /\ UNCHANGED <<dbActive, ever>>

evict_conversation ==
  /\ sweep = "evicting"
  /\ sweep' = "evicted"
  /\ \/ delete_rows({victim} \cap stored)
     \/ MayFail("write") /\ UNCHANGED diskVars
  /\ UNCHANGED <<clockVars, phase, memVars, reqVars, todo, victim>>

evict_resume ==
  /\ sweep = "evicted"
  /\ evict_next(todo)
  /\ UNCHANGED <<clockVars, phase, diskVars, reqVars>>

prune_conversations ==
  /\ sweep = "pruning"
  /\ sweep' = "asleep"
  /\ \/ delete_rows({c \in stored : Stale(dbActive[c])})
     \/ MayFail("write") /\ UNCHANGED diskVars
  /\ UNCHANGED <<clockVars, phase, memVars, reqVars, todo, victim>>

-----------------------------------------------------------------------------
(* The environment *)

Tick ==
  /\ now < MaxNow
  /\ now' = now + 1
  /\ UNCHANGED <<restarts, phase, memVars, diskVars, reqVars, sweepVars>>

\* kill -9 and start again: memory, coroutines and threads are lost, committed
\* transactions are not.  An id whose client never heard of it is free again.
Restart ==
  /\ restarts < MaxRestarts
  /\ restarts' = restarts + 1
  /\ phase' = [c \in Cids |-> IF phase[c] = "creating" THEN "unborn" ELSE phase[c]]
  /\ live' = {}
  /\ turns' = [c \in Cids |-> <<>>]
  /\ messages' = [c \in Cids |-> <<>>]
  /\ pc' = [r \in Requests |-> IF pc[r] \in {"idle", "done"} THEN pc[r] ELSE "gone"]
  /\ loaded' = [r \in Requests |-> NothingLoaded]
  /\ sweep' = "asleep"
  /\ todo' = {}
  /\ UNCHANGED <<now, active, diskVars, asked, wanted, result, told, victim>>

Init ==
  /\ now = 0
  /\ restarts = 0
  /\ phase = [c \in Cids |-> "unborn"]
  /\ live = {}
  /\ turns = [c \in Cids |-> <<>>]
  /\ messages = [c \in Cids |-> <<>>]
  /\ active = [c \in Cids |-> 0]
  /\ stored = {}
  /\ rows = [c \in Cids |-> {}]
  /\ log = [c \in Cids |-> <<>>]
  /\ dbActive = [c \in Cids |-> 0]
  /\ asked = [r \in Requests |-> CHOOSE q \in Asked : TRUE]
  /\ pc = [r \in Requests |-> "idle"]
  /\ wanted = [r \in Requests |-> 0]
  /\ loaded = [r \in Requests |-> NothingLoaded]
  /\ result = [r \in Requests |-> NoTurn]
  /\ told = [r \in Requests |-> {}]
  /\ sweep = "asleep"
  /\ todo = {}
  /\ victim = CHOOSE c \in Cids : TRUE
  /\ ever = [c \in Cids |-> {}]

\* The steps of one request.
Serve(r) ==
  \/ load_row(r) \/ load_turns(r) \/ load_messages(r) \/ hydrate(r)
  \/ abandon(r) \/ build_turn(r) \/ record_turn(r) \/ persist_turn(r)

\* The steps of the periodic task.
Sweep ==
  \/ evict_stale_conversations \/ record_report \/ evict_linked
  \/ evict_conversation \/ evict_resume \/ prune_conversations

Next ==
  \/ \E c \in Cids : create_conversation(c) \/ record_conversation(c)
  \/ \E r \in Requests, q \in Asked : get_conversation(r, q)
  \/ \E r \in Requests : Serve(r) \/ disconnect(r)
  \/ Sweep
  \/ Tick
  \/ Restart

Spec == Init /\ [][Next]_vars

\* A condition on what clients do, under which memory and disk agree: a request
\* that misses memory does not arrive while another one hydrates the same
\* conversation.
OneLoaderAtATime ==
  \A r, s \in Requests :
    ~ /\ r # s
      /\ pc[r] = "idle" /\ pc'[r] = "row"
      /\ pc[s] \in {"row", "turns", "messages", "hydrate"}
      /\ asked[s].cid = asked'[r].cid

\* A prune whose DELETE goes through.
prune_succeeds ==
  /\ prune_conversations
  /\ stored' = {c \in stored : ~Stale(dbActive[c])}

\* asyncio resumes every ready task, to_thread calls return (SQLite gives up
\* after busy_timeout), the periodic task sleeps a finite time, and a store
\* that fails does not fail every prune from then on.
FairSpec ==
  /\ Spec
  /\ \A c \in Cids : WF_vars(record_conversation(c))
  /\ \A r \in Requests : WF_vars(Serve(r))
  /\ WF_vars(Sweep)
  /\ SF_vars(prune_succeeds)

-----------------------------------------------------------------------------
(* Properties *)

TypeOK ==
  /\ now \in Nat /\ restarts \in Nat
  /\ phase \in [Cids -> {"unborn", "creating", "open"}]
  /\ live \subseteq Cids
  /\ turns \in [Cids -> Seq(Turn)]
  /\ messages \in [Cids -> Seq(Texts)]
  /\ active \in [Cids -> Nat]
  /\ stored \subseteq Cids
  /\ rows \in [Cids -> SUBSET Turn]
  /\ log \in [Cids -> Seq(Texts)]
  /\ dbActive \in [Cids -> Nat]
  /\ asked \in [Requests -> Asked]
  /\ pc \in [Requests -> Stages]
  /\ wanted \in [Requests -> Nat]
  /\ loaded \in [Requests -> Loaded]
  /\ result \in [Requests -> Turn \cup {NoTurn}]
  /\ told \in [Requests -> SUBSET Nat]
  /\ sweep \in SweepStages
  /\ todo \subseteq Cids
  /\ victim \in Cids
  /\ ever \in [Cids -> SUBSET Turn]

(***************************************************************************)
(* What is on disk is a transcript: no two turns share a number, a turn    *)
(* and its message land together (one exchange is one row of each table),  *)
(* and neither table holds anything for a conversation without a row.      *)
(***************************************************************************)
TranscriptConsistent ==
  \A c \in Cids :
    /\ \A s, t \in rows[c] : s.n = t.n => s = t
    /\ IsFiniteSet(rows[c]) /\ Len(log[c]) = Cardinality(rows[c])
    /\ c \notin stored => rows[c] = {}

(***************************************************************************)
(* "Memory then matches what landed": every turn in memory, every turn in  *)
(* a dictionary being hydrated and every number a client was told is one   *)
(* the store committed, under that number, for that conversation.          *)
(***************************************************************************)
MemoryWasCommitted ==
  /\ \A c \in Cids : Elems(turns[c]) \subseteq ever[c]
  /\ \A r \in Requests : \A n \in told[r] :
       [n |-> n, text |-> asked[r].text] \in ever[asked[r].cid]

(***************************************************************************)
(* "Memory can never be ahead of disk": whatever the dictionary holds is   *)
(* a row of the store, so a restart forgets nothing a client was shown.    *)
(***************************************************************************)
MemoryNeverAheadOfDisk ==
  \A c \in Cids : Elems(turns[c]) \subseteq rows[c]

(***************************************************************************)
(* Turns are written in ascending order of n without holes, whichever of   *)
(* two in-flight turns wins: the k-th committed turn has number k - 1.     *)
(***************************************************************************)
NumbersAreDense ==
  \A c \in Cids : Numbers(rows[c]) = 0..(Cardinality(rows[c]) - 1)

(***************************************************************************)
(* The number in `done` is one the Context panel can ask about: the turn   *)
(* is found in memory, or on disk if the conversation must be hydrated.    *)
(***************************************************************************)
ToldTurnReadable ==
  \A r \in Requests :
    LET c == asked[r].cid IN
    told[r] \subseteq IF c \in live THEN Numbers(Elems(turns[c])) ELSE Numbers(rows[c])

(***************************************************************************)
(* When every request on a conversation has been answered, memory and disk *)
(* hold the same exchanges, each once, and as many messages as turns.      *)
(***************************************************************************)
Settled(c) == \A r \in Requests : asked[r].cid = c => pc[r] \in {"idle", "done"}

AgreementWhenSettled ==
  \A c \in live :
    Settled(c) =>
      /\ Elems(turns[c]) = rows[c]
      /\ Len(turns[c]) = Cardinality(rows[c])
      /\ Len(messages[c]) = Len(turns[c])

(***************************************************************************)
(* With a store that works, record_turn leaves the exchange on disk, at    *)
(* the number asked for or at another: a collision loses neither answer.   *)
(***************************************************************************)
AnswerKept ==
  \A r \in Requests :
    pc[r] = "written" => \E t \in ever[asked[r].cid] : t.text = asked[r].text

(***************************************************************************)
(* "Stamp the conversation as active; this is what TTL eviction reads": a  *)
(* conversation leaves memory only when it has expired, or with the        *)
(* process.                                                                *)
(***************************************************************************)
EvictsOnlyExpired ==
  [][\A c \in live \ live' : restarts' # restarts \/ Stale(active[c])]_vars

(***************************************************************************)
(* An expired conversation, in memory or on disk, does not stay: the sweep *)
(* or the prune removes it, or a turn makes it fresh again.                *)
(***************************************************************************)
Expired(c) ==
  \/ c \in live /\ Stale(active[c])
  \/ c \in stored /\ Stale(dbActive[c])

ExpiredIsReclaimed == \A c \in Cids : Expired(c) ~> ~Expired(c)

(***************************************************************************)
(* The two tables and the numbers sent to clients implement the abstract   *)
(* transcript: a turn and its message are one step, erased in one step,    *)
(* and a client hears, at most once, the number of a turn that was written.*)
(***************************************************************************)
T == INSTANCE Transcript WITH entries <- rows, script <- log, written <- ever,
                              acked <- told

TranscriptSpec == T!Spec
=============================================================================
