------------------------------ MODULE Archive ------------------------------
(***************************************************************************)
(* What is left of an interview when it is over: the report that           *)
(* services/report.py writes, by the goodbye of turns/streaming.py or by   *)
(* the sweep of maintenance.py, the rows of the conversation, and the      *)
(* audio files; with the retention of each, the start-up of main.py, and   *)
(* the store file of StoreFile underneath.                                 *)
(*                                                                         *)
(* Of table reports, which nothing in the program reads, only the awaits   *)
(* are here: "linking" is record_report, a point where others run.         *)
(*                                                                         *)
(* generate of the goodbye runs on a worker thread, that of the sweep on   *)
(* the event loop, which waits for it: while sweep = "writing" only        *)
(* threads move (LoopFree).  Between the glob and the write_text of either *)
(* the other may run.                                                      *)
(*                                                                         *)
(* Here a turn stamps the activity when it starts to be stored, a goodbye  *)
(* never does; what a turn needs before that, and the numbers of turns,    *)
(* are the business of ConversationStore.                                  *)
(***************************************************************************)
EXTENDS StoreFile

CONSTANTS
  Clips,       \* audio files
  TTL,         \* SESSION_TTL_HOURS
  Retention,   \* REPORT_RETENTION_DAYS, in the unit of the clock
  KeepAudio,   \* the hour of cleanup_stale_audio
  Offsets,     \* what local time minus UTC may be when an audio file is made
  MaxNow,      \* bound: the clock stops here
  WriteFaults  \* a report may fail to be written

ASSUME ArchiveAssumption ==
  /\ TTL \in Nat /\ Retention \in Nat /\ KeepAudio \in Nat /\ MaxNow \in Nat
  /\ Offsets \subseteq Int /\ WriteFaults \in BOOLEAN

\* An interview, seen from its goodbye: "storing" is the closing exchange in
\* persist_turn, "looking" and "writing" are generate on its thread, "linking"
\* is record_report.
Goodbyes == {"unborn", "talking", "storing", "looking", "writing", "linking", "said"}

Sweeps == {"asleep", "next", "writing", "linking", "pop", "evict",
           "audio", "reports", "rows"}

Report == [cid : Cids, by : {"goodbye", "sweep"}, whole : BOOLEAN, alone : BOOLEAN,
           born : Nat]

VARIABLES
  now,        \* the clock, in UTC
  goodbye,    \* where each interview stands
  live,       \* keys of the dictionary `conversations`
  said,       \* the messages of each, in memory
  active,     \* last_activity_at, in memory
  rowActive,  \* last_activity_at, in table conversations
  reports,    \* files under REPORTS_DIR
  clips,      \* files under AUDIO_DIR: when each was made, in UTC and in local time
  sweep, todo, victim,  \* where periodic_cleanup stands, stale_ids left, cid
  everTold,   \* history: conversations a client has an exchange of
  reported,   \* history: conversations a whole report was written of
  spoiled,    \* history: conversations of which a report failed to be written
  orphaned    \* history: conversations that were open when the process ended

memVars == <<live, said, active>>
reportVars == <<reports, reported, spoiled>>
sweepVars == <<sweep, todo, victim>>
pastVars == <<everTold, orphaned>>
archiveVars == <<now, goodbye, memVars, rowActive, reportVars, clips, sweepVars, pastVars>>
vars == <<storeVars, archiveVars>>

Init ==
  /\ StoreInit
  /\ now = 0
  /\ goodbye = [c \in Cids |-> "unborn"]
  /\ live = {} /\ said = [c \in Cids |-> {}]
  /\ active = [c \in Cids |-> 0] /\ rowActive = [c \in Cids |-> 0]
  /\ reports = {} /\ reported = {} /\ spoiled = {}
  /\ clips = {}
  /\ sweep = "asleep" /\ todo = {} /\ victim \in Cids
  /\ everTold = {} /\ orphaned = {}

-----------------------------------------------------------------------------
(* Helpers *)

LoopFree == proc = "up" /\ sweep # "writing"
Stale(moment) == moment + TTL < now
ReportsOf(c) == {r \in reports : r.cid = c}
Sealed == UNCHANGED storeVars

goto(c, from, to) ==
  /\ goodbye[c] = from
  /\ goodbye' = [goodbye EXCEPT ![c] = to]

Elapse ==
  /\ now < MaxNow
  /\ now' = now + 1
  /\ Sealed
  /\ UNCHANGED <<goodbye, memVars, rowActive, reportVars, clips, sweepVars, pastVars>>

-----------------------------------------------------------------------------
(* ReportService.generate *)

\* The other writer is not between its glob and its write.
alone(c, writer) == IF writer = "sweep" THEN goodbye[c] # "writing"
                    ELSE sweep # "writing" \/ victim # c

\* Mutant: only the writer's own report counts as one.
written_already_own(c, writer) == \E r \in ReportsOf(c) : r.by = writer

\* Any *.md in the directory of the conversation, a broken one included.
written_already(c, writer) == ReportsOf(c) # {}

report(c, writer, is_whole) ==
  [cid |-> c, by |-> writer, whole |-> is_whole, alone |-> alone(c, writer), born |-> now]

\* write_text: the whole report, a part of it, or nothing.
write_report(c, writer, outcome) ==
  /\ outcome # "whole" => WriteFaults
  /\ reports' = IF outcome = "nothing" THEN reports
                ELSE reports \cup {report(c, writer, outcome = "whole")}
  /\ reported' = IF outcome = "whole" THEN reported \cup {c} ELSE reported
  /\ spoiled' = IF outcome = "whole" THEN spoiled ELSE spoiled \cup {c}

Outcomes == {"whole", "part", "nothing"}

-----------------------------------------------------------------------------
(* The turns of an interview *)

create_conversation(c) ==
  /\ LoopFree /\ goto(c, "unborn", "talking")
  /\ live' = live \cup {c}
  /\ active' = [active EXCEPT ![c] = now]
  /\ rowActive' = [rowActive EXCEPT ![c] = now]
  /\ Sealed
  /\ UNCHANGED <<now, said, reportVars, clips, sweepVars, pastVars>>

\* After a restart: the dictionary entry is what the store has.
hydrate(c) ==
  /\ LoopFree /\ whole /\ goodbye[c] = "talking"
  /\ c \notin live /\ Of({c}, db) # {}
  /\ live' = live \cup {c}
  /\ said' = [said EXCEPT ![c] = Of({c}, db)]
  /\ active' = [active EXCEPT ![c] = rowActive[c]]
  /\ Sealed
  /\ UNCHANGED <<now, goodbye, rowActive, reportVars, clips, sweepVars, pastVars>>

\* touch_activity and persist_turn up to the COMMIT on its thread.
store_turn(x) ==
  LET c == x[1] IN
  /\ LoopFree /\ goodbye[c] = "talking" /\ c \in live
  /\ commit(x)
  /\ active' = [active EXCEPT ![c] = now]
  /\ rowActive' = [rowActive EXCEPT ![c] = now]
  /\ UNCHANGED <<now, goodbye, live, said, reportVars, clips, sweepVars, pastVars>>

\* The farewell of the stream: the same without the stamp, one for each interview.
store_farewell(x) ==
  LET c == x[1] IN
  /\ LoopFree /\ c \in live /\ Of({c}, writers) = {}
  /\ goto(c, "talking", "storing")
  /\ commit(x)
  /\ rowActive' = [rowActive EXCEPT ![c] = now]
  /\ UNCHANGED <<now, memVars, reportVars, clips, sweepVars, pastVars>>

\* persist_turn resumes.  It does not when its client has left, or the entry was
\* evicted meanwhile (a KeyError): then memory and client hear of no number, and
\* a goodbye is over, or, after the KeyError, goes on to a report of nothing.
turn_stored(x) ==
  LET c == x[1] IN
  /\ LoopFree
  /\ finish(x)
  /\ \E resumes \in BOOLEAN :
       /\ resumes => c \in live
       /\ said' = IF resumes THEN [said EXCEPT ![c] = @ \cup {x}] ELSE said
       /\ everTold' = IF resumes THEN everTold \cup {c} ELSE everTold
       /\ goodbye' = IF goodbye[c] # "storing" THEN goodbye
                     ELSE [goodbye EXCEPT ![c] = IF resumes THEN "looking" ELSE "said"]
  /\ UNCHANGED <<now, live, active, rowActive, reportVars, clips, sweepVars, orphaned>>

\* A goodbye whose exchange could not be stored.
farewell_unstored(c) ==
  /\ LoopFree /\ c \in live /\ said[c] # {}
  /\ goto(c, "talking", "looking")
  /\ Sealed
  /\ UNCHANGED <<now, memVars, rowActive, reportVars, clips, sweepVars, pastVars>>

-----------------------------------------------------------------------------
(* The report of the goodbye *)

\* A client that closes the stream on interview_end ends the goodbye, and one
\* that was evicted by then is handed to generate as None.
look(c) ==
  /\ proc = "up"
  /\ \/ goto(c, "looking", "said")
     \/ ~written_already(c, "goodbye") /\ goto(c, "looking", "writing")
  /\ Sealed
  /\ UNCHANGED <<now, memVars, rowActive, reportVars, clips, sweepVars, pastVars>>

\* A client that leaves now cancels the coroutine: the thread writes on, and
\* nobody links what it wrote.
write_farewell(c) ==
  /\ proc = "up"
  /\ \E outcome \in Outcomes :
       /\ write_report(c, "goodbye", outcome)
       /\ goto(c, "writing", "said") \/ (outcome = "whole" /\ goto(c, "writing", "linking"))
  /\ Sealed
  /\ UNCHANGED <<now, memVars, rowActive, clips, sweepVars, pastVars>>

link_farewell(c) ==
  /\ proc = "up"
  /\ goto(c, "linking", "said")
  /\ Sealed
  /\ UNCHANGED <<now, memVars, rowActive, reportVars, clips, sweepVars, pastVars>>

-----------------------------------------------------------------------------
(* evict_stale_conversations *)

pop(c) ==
  /\ live' = live \ {c}
  /\ said' = [said EXCEPT ![c] = {}]
  /\ active' = [active EXCEPT ![c] = 0]

\* Mutant: the entry is dropped first, and generate is handed nothing.
evict_next_popsFirst(S) ==
  \/ S = {} /\ sweep' = "audio" /\ todo' = {} /\ UNCHANGED <<victim, memVars>>
  \/ \E c \in S :
       /\ todo' = S \ {c} /\ victim' = c
       /\ sweep' = "evict"
       /\ pop(c)

\* The loop from one await to the next; S are the ids not handled yet.
evict_next(S) ==
  \/ S = {} /\ sweep' = "audio" /\ todo' = {} /\ UNCHANGED <<victim, memVars>>
  \/ \E c \in S :
       /\ todo' = S \ {c} /\ victim' = c
       /\ \/ /\ c \in live /\ said[c] # {} /\ ~written_already(c, "sweep")
             /\ sweep' = "writing"
             /\ UNCHANGED memVars
          \/ /\ c \notin live \/ said[c] = {} \/ written_already(c, "sweep")
             /\ sweep' = "evict"
             /\ pop(c)

evict_stale_conversations ==
  /\ LoopFree
  /\ \/ sweep = "asleep" /\ evict_next({c \in live : Stale(active[c])})
     \/ sweep = "next" /\ evict_next(todo)
  /\ Sealed
  /\ UNCHANGED <<now, goodbye, rowActive, reportVars, clips, pastVars>>

\* The write of generate, with the loop standing still.
write_evicted ==
  /\ proc = "up" /\ sweep = "writing"
  /\ \E outcome \in Outcomes :
       /\ write_report(victim, "sweep", outcome)
       /\ IF outcome = "whole" THEN sweep' = "linking" /\ UNCHANGED memVars
          ELSE sweep' = "evict" /\ pop(victim)
  /\ Sealed
  /\ UNCHANGED <<now, goodbye, rowActive, clips, todo, victim, pastVars>>

link_evicted ==
  /\ proc = "up" /\ sweep = "linking"
  /\ sweep' = "pop"
  /\ Sealed
  /\ UNCHANGED <<now, goodbye, memVars, rowActive, reportVars, clips, todo, victim, pastVars>>

pop_linked ==
  /\ LoopFree /\ sweep = "pop"
  /\ sweep' = "evict"
  /\ pop(victim)
  /\ Sealed
  /\ UNCHANGED <<now, goodbye, rowActive, reportVars, clips, todo, victim, pastVars>>

\* DELETE FROM conversations; the other tables cascade.
delete_rows(C) ==
  /\ erase(C)
  /\ rowActive' = [c \in Cids |-> IF c \in C THEN 0 ELSE rowActive[c]]

\* evict_conversation on its thread.  A failure leaves the rows to the prune.
evict_conversation ==
  /\ proc = "up" /\ sweep = "evict"
  /\ sweep' = "next"
  /\ delete_rows({victim}) \/ (Sealed /\ UNCHANGED rowActive)
  /\ UNCHANGED <<now, goodbye, memVars, reportVars, clips, todo, victim, pastVars>>

-----------------------------------------------------------------------------
(* Retention: audio, report files, their rows, rows of conversations *)

\* An answer is spoken.  The zone of the host and its summer time decide what the
\* clock on the wall says of that moment, then and later.
synthesize(f) ==
  /\ LoopFree
  /\ \A k \in clips : k[1] # f
  /\ \E o \in Offsets : clips' = clips \cup {<<f, now, now + o>>}
  /\ Sealed
  /\ UNCHANGED <<now, goodbye, memVars, rowActive, reportVars, sweepVars, pastVars>>


\* cleanup_stale_audio: the modification time is local, the cutoff is UTC.
stale_clips == {k \in clips : k[3] + KeepAudio < now}

expired_reports == {r \in reports : r.born + Retention <= now}

\* Both loops end at the first file that cannot be deleted.
cleanup_stale_audio ==
  /\ proc = "up" /\ sweep = "audio"
  /\ sweep' = "reports"
  /\ \E D \in SUBSET stale_clips : clips' = clips \ D
  /\ Sealed
  /\ UNCHANGED <<now, goodbye, memVars, rowActive, reportVars, todo, victim, pastVars>>

cleanup_expired ==
  /\ proc = "up" /\ sweep = "reports"
  /\ sweep' = "rows"
  /\ \E D \in SUBSET expired_reports : reports' = reports \ D
  /\ Sealed
  /\ UNCHANGED <<now, goodbye, memVars, rowActive, reported, spoiled, clips, todo,
                 victim, pastVars>>

\* By the column, whatever is in memory, and without a report.
prune_conversations ==
  /\ proc = "up" /\ sweep = "rows"
  /\ sweep' = "asleep"
  /\ \/ delete_rows({c \in Cids : Stale(rowActive[c])})
     \/ Sealed /\ UNCHANGED rowActive
  /\ UNCHANGED <<now, goodbye, memVars, reportVars, clips, todo, victim, pastVars>>

-----------------------------------------------------------------------------
(* Start-up and end of the process *)

\* What lifespan does between initialize and yield: the audio of earlier runs,
\* then the expired reports.
start_up ==
  /\ serve
  /\ clips' = clips \ stale_clips
  /\ \E D \in SUBSET expired_reports : reports' = reports \ D
  /\ UNCHANGED <<now, goodbye, memVars, rowActive, reported, spoiled, sweepVars,
                 pastVars>>

\* The write_texts that are under way, and by whom.
interrupted ==
  ({c \in Cids : goodbye[c] = "writing"} \X {"goodbye"})
  \cup (IF sweep = "writing" THEN {<<victim, "sweep">>} ELSE {})

\* Memory goes, a report that was being written stays as far as it was, and a
\* goodbye that was not over is over.  A stale audio file that cannot be
\* deleted ends start-up this way: nothing guards the call.
die ==
  /\ stop
  /\ live' = {} /\ said' = [c \in Cids |-> {}] /\ active' = [c \in Cids |-> 0]
  /\ goodbye' = [c \in Cids |-> IF goodbye[c] \in {"unborn", "talking"} THEN goodbye[c]
                                ELSE "said"]
  /\ sweep' = "asleep" /\ todo' = {}
  /\ \E W \in SUBSET interrupted :
       /\ reports' = reports \cup {report(w[1], w[2], FALSE) : w \in W}
       /\ spoiled' = spoiled \cup {w[1] : w \in W}
  /\ orphaned' = orphaned \cup live
  /\ UNCHANGED <<now, rowActive, reported, clips, victim, everTold>>

-----------------------------------------------------------------------------
StoreOnly == (Initialize \/ Environment \/ open_reader \/ close_reader)
             /\ UNCHANGED archiveVars

Turns ==
  \/ \E c \in Cids : create_conversation(c) \/ hydrate(c) \/ farewell_unstored(c)
  \/ \E x \in Exchanges : store_turn(x) \/ store_farewell(x) \/ turn_stored(x)

Farewell == \E c \in Cids : look(c) \/ write_farewell(c) \/ link_farewell(c)

Sweep ==
  \/ evict_stale_conversations \/ write_evicted \/ link_evicted \/ pop_linked
  \/ evict_conversation \/ cleanup_stale_audio \/ cleanup_expired
  \/ prune_conversations

Next ==
  \/ StoreOnly \/ Turns \/ Farewell \/ Sweep \/ start_up \/ die \/ Elapse
  \/ \E f \in Clips : synthesize(f)

Spec == Init /\ [][Next]_vars

-----------------------------------------------------------------------------
(* Properties *)

TypeOK ==
  /\ StoreTypeOK
  /\ now \in Nat
  /\ goodbye \in [Cids -> Goodbyes]
  /\ live \subseteq Cids /\ said \in [Cids -> SUBSET Exchanges]
  /\ active \in [Cids -> Nat] /\ rowActive \in [Cids -> Nat]
  /\ reports \subseteq Report
  /\ reported \subseteq Cids /\ spoiled \subseteq Cids
  /\ clips \subseteq Clips \X Nat \X Int
  /\ sweep \in Sweeps /\ todo \subseteq Cids /\ victim \in Cids
  /\ everTold \subseteq Cids /\ orphaned \subseteq Cids

\* "The report is the only record that survives eviction" (maintenance.py): an
\* interview a client has an answer of, and which is not in memory any more,
\* has left a whole report, unless one failed to be written or the process
\* ended while the interview was in memory.
GoneLeavesAReport == everTold \subseteq live \cup reported \cup spoiled \cup orphaned

\* "First writer wins" (report.py): the goodbye and the sweep, of which one
\* writes on a thread, leave two reports of an interview only when one wrote
\* between the glob and the write of the other, and never more than two.
FirstWriterWins ==
  \A r1, r2 \in reports : r1.cid = r2.cid /\ r1 # r2 =>
     r1.by # r2.by /\ ~(r1.alone /\ r2.alone)

=============================================================================
