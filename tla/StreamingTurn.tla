---------------------------- MODULE StreamingTurn ----------------------------
(***************************************************************************)
(* One conversation's streaming turns: backend/turns/streaming.py with the *)
(* LLM thread, the sentence syntheses and the audio directory they share.  *)
(*                                                                         *)
(* Five actors take turns on a stream: the generator (split at its awaits  *)
(* and yields), the LLM thread, which fills a queue and can only be asked  *)
(* to stop, one asyncio task per sentence that writes a file and then      *)
(* streams, the worker thread that stores the turn, and the client, which  *)
(* may vanish and whose absence the server notices late.                   *)
(*                                                                         *)
(* Abstracted: what is said.  A token either ends a sentence or it does    *)
(* not; of the store only what it answers matters (ConversationStore has   *)
(* the rest); retrieval and prompts are one step that may raise; STT and   *)
(* TTS are external calls that succeed or fail.  Two yields in a row with  *)
(* nothing between them are one step.                                      *)
(***************************************************************************)
EXTENDS Integers, Sequences, FiniteSets

CONSTANTS
  Turns,       \* the turns of the interview
  MaxTokens,   \* bound: tokens of the answer to each turn
  PageWaits    \* the page starts a turn only when no other one is running

ASSUME TurnAssumption == MaxTokens \in [Turns -> Nat \ {0}] /\ PageWaits \in BOOLEAN

Ids == UNION {0..(MaxTokens[t] - 1) : t \in Turns}   \* at most one sentence per token
Files == Turns \X Ids              \* sentence_{id}_{uuid}.mp3 of a turn

(***************************************************************************)
(* Where the generator stands.  "staged": the response exists and was not  *)
(* pulled.  "reciting" and "goodbye" wait for a synthesis, "storing",      *)
(* "truncating", "keeping" and "parting" for persist_turn, "reporting" for *)
(* the report.  "teardown" is the finally, "reaping" its gather.           *)
(***************************************************************************)
Stages == {"none", "staged", "stt", "transcribed", "reciting", "goodbye", "listening",
           "keeping", "parting", "truncating", "storing", "reporting", "teardown",
           "reaping", "closed"}

Storing == {"keeping", "parting", "truncating", "storing"}

TaskStates == {"none", "queued", "writing", "spoken", "failed", "cancelled", "taken"}

\* Terminal events; "+" names a committed turn, "~" one marked incomplete.
Terminals == {"done", "done+", "done~", "interview_end", "interview_end+"}
Events == {"transcription", "token", "audio_url", "error", "error(id)"} \cup Terminals

VARIABLES
  stage,      \* where each generator stands
  lost,       \* turns whose client is no longer there
  temp,       \* turns whose staged upload is on disk
  ending,     \* what each stream has yielded from its terminal event on
  llm,        \* the LLM thread: "off", "running" or "ended"
  llm_stop,   \* turns whose stop flag is set
  tokens,     \* tokens generated so far
  buffered,   \* turns whose SentenceBuffer holds an unfinished sentence
  queue,      \* the asyncio.Queue between thread and generator
  hearing,    \* turns with listening_to_llm
  next_id,    \* sentence_id
  tts,        \* state of each sentence's task
  dispatched, \* dispatched_sentences
  announced,  \* ids whose audio_url went out
  failed,     \* failed_sentences
  pre,        \* pre_existing_audio
  files,      \* sentence files in the conversation's directory
  mark,       \* turns handed to the store with incomplete=True
  write,      \* record_turn: "no", "pending", "committed" or "nothing"
  gone        \* the conversation was evicted from memory

llmVars  == <<llm, llm_stop, tokens, buffered, queue>>
loopVars == <<hearing, next_id>>
ttsVars  == <<tts, dispatched, announced, failed, pre, files>>
storeVars == <<mark, write>>
clientVars == <<lost, temp, gone>>
vars == <<stage, ending, clientVars, llmVars, loopVars, ttsVars, storeVars>>

-----------------------------------------------------------------------------
(* Helpers *)

Put(f, t, v) == [f EXCEPT ![t] = v]

At(t, s) == stage[t] = s
Goto(t, s) == stage' = Put(stage, t, s)

\* Before its terminal event, which is the last of what it yields with it, what
\* a stream says leaves no trace in the model.
Yield(t, es) ==
  ending' = Put(ending, t, CASE ending[t] # <<>> -> ending[t] \o es
                             [] ending[t] = <<>> /\ es[Len(es)] \in Terminals -> <<es[Len(es)]>>
                             [] OTHER -> <<>>)

\* A terminal sequence: what is yielded last, then the finally.
Terminate(t, es) == Goto(t, "teardown") /\ Yield(t, es)

\* except Exception: the broad handler.
Unexpected(t) == Terminate(t, <<"error", "done">>)

\* The tasks of tts_futures: synthesis that was asked for and not consumed.
Outstanding(t) == {i \in Ids : tts[t][i] \in {"queued", "writing", "spoken", "failed"}}

FilesOf(t, S) == {<<t, i>> : i \in S}

-----------------------------------------------------------------------------
(* The directory may hold the sentences of earlier turns: with two turns in  *)
(* Turns the second one finds those of the first.                            *)

Init ==
  /\ stage = [t \in Turns |-> "none"]
  /\ ending = [t \in Turns |-> <<>>]
  /\ lost = {} /\ temp = {} /\ gone = FALSE
  /\ llm = [t \in Turns |-> "off"] /\ llm_stop = {}
  /\ tokens = [t \in Turns |-> 0] /\ buffered = {}
  /\ queue = [t \in Turns |-> <<>>]
  /\ hearing = {} /\ next_id = [t \in Turns |-> 0]
  /\ tts = [t \in Turns |-> [i \in Ids |-> "none"]]
  /\ dispatched = [t \in Turns |-> {}]
  /\ announced = [t \in Turns |-> {}]
  /\ failed = [t \in Turns |-> {}]
  /\ pre = [t \in Turns |-> {}] /\ files = {}
  /\ mark = {} /\ write = [t \in Turns |-> "no"]

-----------------------------------------------------------------------------
(* From the upload to the transcription *)

\* stage_upload wrote the recording; the generator is built and not started.
send_message_stream(t) ==
  /\ At(t, "none")
  /\ ~gone
  /\ PageWaits => \A u \in Turns \ {t} : stage[u] \in {"none", "closed"}
  /\ Goto(t, "staged")
  /\ temp' = temp \cup {t}
  /\ UNCHANGED <<ending, lost, gone, llmVars, loopVars, ttsVars, storeVars>>

\* The first pull: transcribe runs on a thread.
begin(t) ==
  /\ At(t, "staged")
  /\ Goto(t, "stt")
  /\ UNCHANGED <<ending, clientVars, llmVars, loopVars, ttsVars, storeVars>>

transcribe(t) ==
  /\ At(t, "stt")
  /\ \/ Goto(t, "transcribed") /\ Yield(t, <<"transcription">>)
     \/ Unexpected(t)
  /\ UNCHANGED <<clientVars, llmVars, loopVars, ttsVars, storeVars>>

\* Silence; a farewell; a cached answer; or the LLM.  A farewell and a cached
\* answer go straight to synthesis.  Retrieval may raise.
answer_source(t) ==
  /\ At(t, "transcribed")
  /\ \/ Terminate(t, <<"error", "done">>)
     \/ Goto(t, "goodbye") /\ Yield(t, <<"token">>)
     \/ Goto(t, "reciting") /\ Yield(t, <<"token">>)
     \/ Unexpected(t)
  /\ UNCHANGED <<clientVars, llmVars, loopVars, ttsVars, storeVars>>

\* The thread is started and the directory listed in one go.
ask_llm(t) ==
  /\ At(t, "transcribed")
  /\ Goto(t, "listening")
  /\ llm' = Put(llm, t, "running")
  /\ hearing' = hearing \cup {t}
  /\ pre' = Put(pre, t, files)
  /\ UNCHANGED <<ending, clientVars, llm_stop, tokens, buffered, queue, next_id, tts,
                 dispatched, announced, failed, files, storeVars>>

-----------------------------------------------------------------------------
(* The store, seen from the stream *)

\* build_turn, touch_activity and the call of record_turn on its thread.
persist(t, s, incomplete) ==
  /\ ~gone
  /\ Goto(t, s)
  /\ write' = Put(write, t, "pending")
  /\ mark' = IF incomplete THEN mark \cup {t} ELSE mark

\* The thread; it is not cancelled with the coroutine that waits for it.
record_turn(t) ==
  /\ write[t] = "pending"
  /\ \E w \in {"committed", "nothing"} : write' = Put(write, t, w)
  /\ UNCHANGED <<stage, ending, clientVars, llmVars, loopVars, ttsVars, mark>>

\* What persist_turn does when the loop resumes it: hand the committed turn
\* over, return None, or raise KeyError because the entry is gone.
Stored(t)  == write[t] = "committed" /\ ~gone
Nothing(t) == write[t] = "nothing"
Evicted(t) == write[t] = "committed" /\ gone

-----------------------------------------------------------------------------
(* The two answers that are one file: FAQ cache and farewell *)

\* emit_cached_answer up to persist_turn.
recite(t) ==
  /\ At(t, "reciting")
  /\ \/ Terminate(t, <<"error", "done">>) /\ UNCHANGED storeVars
     \/ Unexpected(t) /\ UNCHANGED storeVars
     \/ persist(t, "keeping", FALSE) /\ UNCHANGED ending
  /\ UNCHANGED <<clientVars, llmVars, loopVars, ttsVars>>

\* ... and after it.
keep_cached(t) ==
  /\ At(t, "keeping")
  /\ \/ Stored(t) /\ Terminate(t, <<"audio_url", "done+">>)
     \/ Nothing(t) /\ Terminate(t, <<"audio_url", "done">>)
     \/ Evicted(t) /\ Unexpected(t)
  /\ UNCHANGED <<clientVars, llmVars, loopVars, ttsVars, storeVars>>

\* A goodbye that cannot be spoken is still said; build_turn may raise.
say_goodbye(t) ==
  /\ At(t, "goodbye")
  /\ \E said \in {"audio_url", "error"} :
       \/ persist(t, "parting", FALSE) /\ Yield(t, <<said>>)
       \/ gone /\ Terminate(t, <<said, "error", "done">>) /\ UNCHANGED storeVars
  /\ UNCHANGED <<clientVars, llmVars, loopVars, ttsVars>>

\* A write that raises is one that returned None: the interview still ends.
interview_end(t) ==
  /\ At(t, "parting") /\ write[t] # "pending"
  /\ Goto(t, "reporting")
  /\ Yield(t, <<IF Stored(t) THEN "interview_end+" ELSE "interview_end">>)
  /\ UNCHANGED <<clientVars, llmVars, loopVars, ttsVars, storeVars>>

\* Mutant: the broad handler does not ask whether the stream has ended.
report_reported(t) ==
  /\ At(t, "reporting")
  /\ \/ Goto(t, "teardown") /\ UNCHANGED ending
     \/ Unexpected(t)
  /\ UNCHANGED <<clientVars, llmVars, loopVars, ttsVars, storeVars>>

\* generate and record_report; what they raise comes after the terminal event.
report(t) ==
  /\ At(t, "reporting")
  /\ Goto(t, "teardown")
  /\ UNCHANGED <<ending, clientVars, llmVars, loopVars, ttsVars, storeVars>>

-----------------------------------------------------------------------------
(* run_llm_stream, on its thread.  Bound: a token completes one sentence at  *)
(* most.  A sentence that sanitize_for_tts empties is dropped by on_sentence. *)

\* A queue without a reader is not kept.
Enqueue(t, es) ==
  queue' = IF At(t, "closed") THEN queue ELSE Put(queue, t, queue[t] \o es)

llm_unchanged == UNCHANGED <<stage, ending, clientVars, loopVars, ttsVars, storeVars, llm_stop>>

\* The thread returns; the buffer and the count are its own.
thread_ends(t) ==
  /\ llm' = Put(llm, t, "ended")
  /\ tokens' = Put(tokens, t, 0)
  /\ buffered' = buffered \ {t}

\* Mutant: the sentence that was emitted stays in the buffer.
llm_token_keepsBuffer(t) ==
  /\ llm[t] = "running" /\ tokens[t] < MaxTokens[t]
  /\ t \notin llm_stop
  /\ tokens' = Put(tokens, t, tokens[t] + 1)
  /\ Enqueue(t, <<"token">>) \/ Enqueue(t, <<"token", "sentence">>)
  /\ buffered' = buffered \cup {t}
  /\ UNCHANGED llm
  /\ llm_unchanged

\* The flag is read once the provider has handed over the token.
llm_token(t) ==
  /\ llm[t] = "running" /\ tokens[t] < MaxTokens[t]
  /\ \/ t \in llm_stop /\ thread_ends(t) /\ UNCHANGED queue
     \/ /\ t \notin llm_stop
        /\ tokens' = Put(tokens, t, tokens[t] + 1)
        /\ \/ Enqueue(t, <<"token">>) /\ buffered' = buffered \cup {t}
           \/ Enqueue(t, <<"token", "sentence">>) /\ buffered' = buffered \ {t}
        /\ UNCHANGED llm
  /\ llm_unchanged

\* The provider is done: SentenceBuffer.flush.
llm_flush(t) ==
  /\ llm[t] = "running"
  /\ Enqueue(t, IF t \in buffered THEN <<"sentence", "done">> ELSE <<"done">>)
  /\ thread_ends(t)
  /\ llm_unchanged

llm_fails(t) ==
  /\ llm[t] = "running"
  /\ Enqueue(t, <<"error">>)
  /\ thread_ends(t)
  /\ llm_unchanged

-----------------------------------------------------------------------------
(* synthesize_sentence, one task per sentence: the file comes first. *)

SetTask(t, i, s) == tts' = Put(tts, t, Put(tts[t], i, s))

task_unchanged == UNCHANGED <<stage, ending, clientVars, llmVars, loopVars, storeVars,
                              dispatched, announced, failed, pre>>

tts_starts(t, i) ==
  /\ tts[t][i] = "queued"
  /\ \/ SetTask(t, i, "writing") /\ files' = files \cup {<<t, i>>}
     \/ SetTask(t, i, "failed") /\ UNCHANGED files
  /\ task_unchanged

tts_ends(t, i) ==
  /\ tts[t][i] = "writing"
  /\ \E s \in {"spoken", "failed"} : SetTask(t, i, s)
  /\ UNCHANGED files
  /\ task_unchanged

-----------------------------------------------------------------------------
(* The loop over the queue and the finished syntheses.  One event at a time: *)
(* asyncio.wait returns a set, which the code handles in an arbitrary order. *)

Heard(t, e) ==
  /\ At(t, "listening") /\ t \in hearing
  /\ queue[t] # <<>> /\ Head(queue[t]) = e
  /\ queue' = Put(queue, t, Tail(queue[t]))

hears_unchanged == UNCHANGED <<clientVars, llm, llm_stop, tokens, buffered>>

on_token(t) ==
  /\ Heard(t, "token")
  /\ Yield(t, <<"token">>)
  /\ hears_unchanged
  /\ UNCHANGED <<stage, loopVars, ttsVars, storeVars>>

\* Nothing speakable in it; a task; or no task, which is told and counted.
on_sentence(t) ==
  LET i == next_id[t] IN
  /\ Heard(t, "sentence")
  /\ \/ UNCHANGED <<ending, next_id, tts, dispatched, failed>>
     \/ /\ SetTask(t, i, "queued")
        /\ dispatched' = Put(dispatched, t, dispatched[t] \cup {i})
        /\ next_id' = Put(next_id, t, i + 1)
        /\ UNCHANGED <<ending, failed>>
     \/ /\ Yield(t, <<"error(id)">>)
        /\ failed' = Put(failed, t, failed[t] \cup {i})
        /\ next_id' = Put(next_id, t, i + 1)
        /\ UNCHANGED <<tts, dispatched>>
  /\ hears_unchanged
  /\ UNCHANGED <<stage, hearing, announced, pre, files, storeVars>>

on_done(t) ==
  /\ Heard(t, "done")
  /\ hearing' = hearing \ {t}
  /\ hears_unchanged
  /\ UNCHANGED <<stage, ending, next_id, ttsVars, storeVars>>

\* Mutant: the exchange of a provider that died is never stored.
on_error_drops(t) ==
  /\ Heard(t, "error")
  /\ Terminate(t, <<"error", "done">>)
  /\ hears_unchanged
  /\ UNCHANGED <<loopVars, ttsVars, storeVars>>

\* What was heard is kept as a truncated turn; an evicted conversation makes
\* _store_truncated_turn answer None.
on_error(t) ==
  /\ Heard(t, "error")
  /\ \/ announced[t] # {} /\ persist(t, "truncating", TRUE) /\ UNCHANGED ending
     \/ /\ announced[t] = {} \/ gone
        /\ Terminate(t, <<"error", "done">>)
        /\ UNCHANGED storeVars
  /\ hears_unchanged
  /\ UNCHANGED <<loopVars, ttsVars>>

truncated(t) ==
  /\ At(t, "truncating") /\ write[t] # "pending"
  /\ Terminate(t, <<"error", IF Stored(t) THEN "done~" ELSE "done">>)
  /\ UNCHANGED <<clientVars, llmVars, loopVars, ttsVars, storeVars>>

\* A finished synthesis leaves tts_futures, as audio or as a failure.
announce(t, i) ==
  /\ At(t, "listening") /\ tts[t][i] = "spoken"
  /\ SetTask(t, i, "taken")
  /\ announced' = Put(announced, t, announced[t] \cup {i})
  /\ Yield(t, <<"audio_url">>)
  /\ UNCHANGED <<stage, clientVars, llmVars, loopVars, dispatched, failed, pre, files,
                 storeVars>>

\* Mutant: the failure is told and not counted.
skip_chunk_uncounted(t, i) ==
  /\ At(t, "listening") /\ tts[t][i] = "failed"
  /\ SetTask(t, i, "taken")
  /\ Yield(t, <<"error(id)">>)
  /\ UNCHANGED <<stage, clientVars, llmVars, loopVars, dispatched, announced, failed, pre,
                 files, storeVars>>

\* Mutant: the entry of a failed task stays in tts_futures.
skip_chunk_keepsTask(t, i) ==
  /\ At(t, "listening") /\ tts[t][i] = "failed" /\ i \notin failed[t]
  /\ failed' = Put(failed, t, failed[t] \cup {i})
  /\ Yield(t, <<"error(id)">>)
  /\ UNCHANGED <<stage, clientVars, llmVars, loopVars, tts, dispatched, announced, pre,
                 files, storeVars>>

skip_chunk(t, i) ==
  /\ At(t, "listening") /\ tts[t][i] = "failed"
  /\ SetTask(t, i, "taken")
  /\ failed' = Put(failed, t, failed[t] \cup {i})
  /\ Yield(t, <<"error(id)">>)
  /\ UNCHANGED <<stage, clientVars, llmVars, loopVars, dispatched, announced, pre, files,
                 storeVars>>

\* The loop is over: asked and delivered nothing, or the answer is stored,
\* marked if part of it was not spoken.
conclude(t) ==
  /\ At(t, "listening") /\ t \notin hearing /\ Outstanding(t) = {}
  /\ IF dispatched[t] # {} /\ announced[t] = {}
     THEN Terminate(t, <<"error", "done">>) /\ UNCHANGED storeVars
     ELSE \/ /\ persist(t, "storing", announced[t] # {} /\ failed[t] # {})
             /\ UNCHANGED ending
          \/ gone /\ Unexpected(t) /\ UNCHANGED storeVars
  /\ UNCHANGED <<clientVars, llmVars, loopVars, ttsVars>>

\* Mutant: the number goes out without a look at what was stored.
answered_blindly(t) ==
  /\ At(t, "storing") /\ write[t] # "pending"
  /\ Terminate(t, <<IF t \in mark THEN "done~" ELSE "done+">>)
  /\ UNCHANGED <<clientVars, llmVars, loopVars, ttsVars, storeVars>>

answered(t) ==
  /\ At(t, "storing")
  /\ \/ Stored(t) /\ Terminate(t, <<IF t \in mark THEN "done~" ELSE "done+">>)
     \/ Nothing(t) /\ Terminate(t, <<"done">>)
     \/ Evicted(t) /\ Unexpected(t)
  /\ UNCHANGED <<clientVars, llmVars, loopVars, ttsVars, storeVars>>

-----------------------------------------------------------------------------
(* The finally *)

\* Mutant: everything unannounced goes, whoever wrote it.
sweep_all(t) ==
  files' = {f \in files : f[2] \notin dispatched[t] \/ f \in FilesOf(t, announced[t])}

\* _sweep_orphan_audio: by sentence id, minus announced_audio and the snapshot.
sweep(t) ==
  files' = {f \in files : \/ f[2] \notin dispatched[t]
                          \/ f \in FilesOf(t, announced[t])
                          \/ f \in pre[t]}

\* The last synchronous stretch: the sweep and the staged upload.  What the
\* generator alone could read goes with it.
close(t) ==
  /\ Goto(t, "closed")
  /\ sweep(t)
  /\ temp' = temp \ {t}
  /\ queue' = Put(queue, t, <<>>)
  /\ hearing' = hearing \ {t}
  /\ next_id' = Put(next_id, t, 0)

\* Mutant: the tasks in flight are forgotten instead of cancelled.
teardown_forgets(t) ==
  /\ At(t, "teardown")
  /\ llm_stop' = llm_stop \cup {t}
  /\ close(t)
  /\ UNCHANGED <<ending, lost, gone, llm, tokens, buffered, tts, dispatched, announced,
                 failed, pre, storeVars>>

\* The flag, the cancels, and a gather if there is something to gather.
teardown(t) ==
  /\ At(t, "teardown")
  /\ llm_stop' = llm_stop \cup {t}
  /\ tts' = Put(tts, t, [i \in Ids |-> IF tts[t][i] \in {"queued", "writing"}
                                       THEN "cancelled" ELSE tts[t][i]])
  /\ IF Outstanding(t) # {}
     THEN Goto(t, "reaping") /\ UNCHANGED <<temp, files, queue, loopVars>>
     ELSE close(t)
  /\ UNCHANGED <<ending, lost, gone, llm, tokens, buffered, dispatched, announced, failed,
                 pre, storeVars>>

\* The gather returned, or was itself cancelled.
reap(t) ==
  /\ At(t, "reaping")
  /\ close(t)
  /\ UNCHANGED <<ending, lost, gone, llm, llm_stop, tokens, buffered, tts, dispatched,
                 announced, failed, pre, storeVars>>

-----------------------------------------------------------------------------
(* The environment *)

\* The client closes the tab, loses the network or gives the stream up.
drop(t) ==
  /\ stage[t] \notin {"none", "closed"} /\ t \notin lost
  /\ lost' = lost \cup {t}
  /\ UNCHANGED <<stage, ending, temp, gone, llmVars, loopVars, ttsVars, storeVars>>

\* The server notices: GeneratorExit at a yield or CancelledError at an await.
\* A generator that was never pulled has no finally to run.
disconnect(t) ==
  /\ t \in lost
  /\ \/ At(t, "staged") /\ Goto(t, "closed")
     \/ stage[t] \notin {"none", "staged", "teardown", "reaping", "closed"} /\ Goto(t, "teardown")
  /\ UNCHANGED <<ending, clientVars, llmVars, loopVars, ttsVars, storeVars>>

\* evict_stale_conversations pops the entry under a running turn; between
\* turns it only makes the next request a 404.
evict ==
  /\ ~gone /\ gone' = TRUE
  /\ \E t \in Turns : stage[t] \notin {"none", "closed"}
  /\ UNCHANGED <<stage, ending, lost, temp, llmVars, loopVars, ttsVars, storeVars>>

-----------------------------------------------------------------------------
(* Every turn is over and every thread has ended: nothing is left to do. *)
Rest ==
  /\ \A t \in Turns : /\ stage[t] \in (IF gone THEN {"none", "closed"} ELSE {"closed"})
                      /\ llm[t] # "running" /\ write[t] # "pending"
  /\ UNCHANGED vars

Generator(t) ==
  \/ begin(t) \/ transcribe(t) \/ answer_source(t) \/ ask_llm(t)
  \/ recite(t) \/ keep_cached(t) \/ say_goodbye(t) \/ interview_end(t) \/ report(t)
  \/ on_token(t) \/ on_sentence(t) \/ on_done(t) \/ on_error(t) \/ truncated(t)
  \/ \E i \in Ids : announce(t, i) \/ skip_chunk(t, i)
  \/ conclude(t) \/ answered(t) \/ teardown(t) \/ reap(t)

LLMThread(t) == llm_token(t) \/ llm_flush(t) \/ llm_fails(t)

Synthesis(t, i) == tts_starts(t, i) \/ tts_ends(t, i)

Next ==
  \/ \E t \in Turns :
       \/ send_message_stream(t) \/ Generator(t) \/ LLMThread(t) \/ record_turn(t)
       \/ drop(t) \/ disconnect(t)
       \/ \E i \in Ids : Synthesis(t, i)
  \/ evict
  \/ Rest

Spec == Init /\ [][Next]_vars

(***************************************************************************)
(* The loop runs what is ready, threads are scheduled, and every external  *)
(* call returns or raises: the HTTP clients have timeouts.  A client need  *)
(* not send anything, leave, or be noticed.                                *)
(***************************************************************************)
Fairness ==
  \A t \in Turns :
    /\ WF_vars(Generator(t))
    /\ WF_vars(LLMThread(t))
    /\ WF_vars(record_turn(t))
    /\ \A i \in Ids : WF_vars(Synthesis(t, i))

FairSpec == Spec /\ Fairness

-----------------------------------------------------------------------------
(* Properties *)

\* The values every variable takes; the sentence ids stay within the answer.
TypeOK ==
  /\ stage \in [Turns -> Stages]
  /\ lost \subseteq Turns /\ temp \subseteq Turns /\ gone \in BOOLEAN
  /\ ending \in [Turns -> Seq(Events)]
  /\ llm \in [Turns -> {"off", "running", "ended"}] /\ llm_stop \subseteq Turns
  /\ tokens \in [Turns -> Nat] /\ next_id \in [Turns -> Nat]
  /\ \A t \in Turns : tokens[t] <= MaxTokens[t] /\ next_id[t] <= MaxTokens[t]
  /\ buffered \subseteq Turns
  /\ queue \in [Turns -> Seq({"token", "sentence", "done", "error"})]
  /\ hearing \subseteq Turns
  /\ tts \in [Turns -> [Ids -> TaskStates]]
  /\ dispatched \in [Turns -> SUBSET Ids]
  /\ announced \in [Turns -> SUBSET Ids]
  /\ failed \in [Turns -> SUBSET Ids]
  /\ pre \in [Turns -> SUBSET Files] /\ files \subseteq Files
  /\ mark \subseteq Turns
  /\ write \in [Turns -> {"no", "pending", "committed", "nothing"}]

\* Terminal-event contract: exactly one `done` or `interview_end` per stream,
\* and it is the last thing on the wire.  A stream whose client stayed has it
\* when it closes; no stream has two or goes on after one.
OneTerminal ==
  \A t \in Turns :
    /\ Len(ending[t]) <= 1
    /\ stage[t] = "closed" /\ t \notin lost => ending[t] # <<>>

\* A terminal event names a turn only when record_turn committed it, and
\* calls it whole only when it was not stored as incomplete.
NamesCommitted ==
  \A t \in Turns : \A i \in DOMAIN ending[t] :
    /\ ending[t][i] \in {"done+", "done~", "interview_end+"} => write[t] = "committed"
    /\ ending[t][i] = "done+" => t \notin mark
    /\ ending[t][i] = "done~" => t \in mark

\* The honesty mark: an answer of the LLM that is filed as whole was spoken
\* whole.  Every sentence the synthesiser was asked for went out, none was
\* skipped if any was heard, and the model had finished.
WholeMeansSpoken ==
  \A t \in Turns :
    write[t] # "no" /\ llm[t] # "off" /\ t \notin mark =>
      /\ announced[t] = dispatched[t]
      /\ announced[t] # {} => failed[t] = {}
      /\ llm[t] = "ended" /\ t \notin hearing /\ queue[t] = <<>>

\* What the candidate heard is kept: a stream that announced audio of an LLM
\* answer and kept its client hands the exchange to the store, marked if the
\* model died, unless the conversation was evicted meanwhile.
HeardIsKept ==
  \A t \in Turns :
    stage[t] = "closed" /\ t \notin lost /\ announced[t] # {} /\ ~gone => write[t] # "no"

\* No turn deletes audio that was announced: the page may still be playing it
\* and the transcript points at it.
AnnouncedSurvives == \A t \in Turns : FilesOf(t, announced[t]) \subseteq files

\* A closed stream leaves nothing behind: its upload is gone, no synthesis of
\* it will run, and of its sentences exactly the announced ones are on disk.
\* A generator that was never pulled is the exception, and keeps its upload.
NothingLeftBehind ==
  \A t \in Turns :
    stage[t] = "closed" /\ t \in llm_stop =>
      /\ t \notin temp
      /\ \A i \in Ids : tts[t][i] \notin {"queued", "writing"}
      /\ {f \in files : f[1] = t} \subseteq FilesOf(t, announced[t])

\* A turn whose synthesis produced nothing is a failed turn, not an answer: an
\* answer with sentences to speak of which none was heard is not stored.
SilenceIsNotStored ==
  \A t \in Turns : write[t] # "no" /\ failed[t] # {} => announced[t] # {}

\* Every stream that was opened closes.
StreamsClose == \A t \in Turns : stage[t] = "staged" ~> stage[t] = "closed"
=============================================================================
