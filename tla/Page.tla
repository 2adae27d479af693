-------------------------------- MODULE Page --------------------------------
(***************************************************************************)
(* The page (frontend/app.js) as the client of the stream: the button, the *)
(* recorder, the read loop of a turn and the playback queue.  A handler of *)
(* the page runs to its end, so each is one action; what lies between two  *)
(* (a prompt of the browser, a response, a media event) is where the user  *)
(* may press the button.                                                   *)
(*                                                                         *)
(* Retries are those of RateLimiter: here a request is answered with a     *)
(* stream, refused, or lost.  The stream says of each sentence of its      *)
(* answer, in any order, that it has a file or that it failed.  Left out:  *)
(* the play() that the pause of END rejects (it moves a cursor that the    *)
(* next turn resets), the wording of the status line, and what a recorder  *)
(* recorded.  Three histories are kept because the page gives no promise   *)
(* after them: twice, hole and hurried.                                    *)
(***************************************************************************)
EXTENDS Integers, FiniteSets, FiniteSetsExt

CONSTANTS
  LastSentence, \* bound: the ids of the sentences of an answer are 0..LastSentence
  MaxTurns,     \* bound: recordings sent
  MaxStarts     \* bound: how often START is pressed

ASSUME PageAssumption ==
  LastSentence \in Nat /\ MaxTurns \in Nat \ {0} /\ MaxStarts \in Nat

Sentences == 0..LastSentence
Turns == 1..MaxTurns
Nothing == <<0, 0>>

\* What the stream of a prepared answer, or of a farewell, has spoken of: its file.
OneFile == {-1}

\* The status of a turn: "open" until a terminal event settles it, "over" after
\* its finally, and where its controller was aborted before that "aborted" or,
\* when it was settled, "closed".
Live(status) == status \in {"open", "settled", "aborted", "closed"}

VARIABLES
  active,      \* isInterviewActive
  starting,    \* calls of startInterview that wait for their conversation
  starts,
  opening,     \* calls of startRecording that wait for the browser
  isRecording, \* of mediaRecorder
  orphans,     \* recorders that run, and mediaRecorder is another one
  stopping,    \* recorders whose onstop is to come
  isProcessing,
  turn,        \* the status of each turn
  given,       \* the sentences its stream has spoken of
  controller,  \* the turn turnAbortController is of, or 0
  turnAborted,
  audioQueue, nextChunkId, skippedChunkIds, isAudioPlaying, allChunksReceived,
  currentAudio,
  sounding,    \* audio elements that play, or load to play
  twice,       \* history: a sentence was abandoned twice, with others to come
  hole,        \* history: a stream ended that had not spoken of a sentence
               \* before one it spoke of
  hurried      \* history: END was pressed while a recorder was opened, ran or
               \* stopped, or START while a conversation was created

micVars == <<opening, isRecording, orphans, stopping>>
turnVars == <<isProcessing, turn, given, controller, turnAborted>>
queueVars == <<audioQueue, nextChunkId, skippedChunkIds, isAudioPlaying, currentAudio, sounding>>
startVars == <<starting, starts>>
histories == <<twice, hole, hurried>>
vars == <<active, startVars, micVars, turnVars, queueVars, allChunksReceived, histories>>

Init ==
  /\ active = FALSE /\ starting = 0 /\ starts = 0
  /\ opening = 0 /\ isRecording = FALSE /\ orphans = 0 /\ stopping = 0
  /\ isProcessing = FALSE
  /\ turn = [t \in Turns |-> "unused"] /\ given = [t \in Turns |-> {}]
  /\ controller = 0 /\ turnAborted = FALSE
  /\ audioQueue = {} /\ nextChunkId = 0 /\ skippedChunkIds = {}
  /\ isAudioPlaying = FALSE /\ allChunksReceived = FALSE
  /\ currentAudio = Nothing /\ sounding = {}
  /\ twice = FALSE /\ hole = FALSE /\ hurried = FALSE

-----------------------------------------------------------------------------
(* The playback queue, as functions of a player [queue, cursor, skipped,     *)
(* playing, current, sounding]                                               *)

player == [queue |-> audioQueue, cursor |-> nextChunkId, skipped |-> skippedChunkIds,
           playing |-> isAudioPlaying, current |-> currentAudio, sounding |-> sounding]
silent == [player EXCEPT !.queue = {}, !.cursor = 0, !.skipped = {}, !.playing = FALSE]

becomes(p) ==
  /\ audioQueue' = p.queue /\ nextChunkId' = p.cursor /\ skippedChunkIds' = p.skipped
  /\ isAudioPlaying' = p.playing /\ currentAudio' = p.current /\ sounding' = p.sounding

\* Mutant: a failed sentence is noted, and the cursor is left on it.
advancePastSkippedChunks_not(p) == p.cursor

advancePastSkippedChunks(p) ==
  Min({n \in p.cursor..(p.cursor + Cardinality(p.skipped)) : n \notin p.skipped})

tryPlayNextChunk(p) ==
  LET q == [p EXCEPT !.cursor = advancePastSkippedChunks(p)]
      next == {c \in q.queue : c[2] = q.cursor}
      chunk == CHOOSE c \in next : TRUE
  IN CASE p.playing -> p
       [] ~p.playing /\ next = {} -> q
       [] OTHER -> [q EXCEPT !.queue = @ \ {chunk}, !.playing = TRUE, !.current = chunk,
                             !.sounding = @ \cup {chunk}]

abandonCurrentChunk(p) ==
  tryPlayNextChunk([p EXCEPT !.cursor = @ + 1, !.playing = FALSE, !.current = Nothing])

-----------------------------------------------------------------------------
(* The microphone *)

\* Mutant: a stream that is still read does not keep the recorder shut.
startListening_busy == IF active /\ ~isRecording THEN 1 ELSE 0

\* How many calls of startRecording a call of startListening makes.
startListening == IF active /\ ~isProcessing /\ ~isRecording THEN 1 ELSE 0

\* Mutant: generation is over, so the turn is.
checkAllDone_early(p, all) == all /\ p.queue = {}

checkAllDone(p, all) == all /\ p.queue = {} /\ ~p.playing

\* The browser grants the microphone, or had granted it before.  A recorder of
\* an earlier call goes on, and mediaRecorder is not it any more.
startRecording ==
  /\ opening > 0
  /\ opening' = opening - 1
  /\ isRecording' = TRUE
  /\ orphans' = IF isRecording THEN orphans + 1 ELSE orphans
  /\ UNCHANGED <<active, startVars, stopping, turnVars, queueVars, allChunksReceived,
                 histories>>

abandonInterviewStart ==
  /\ opening > 0
  /\ opening' = opening - 1
  /\ active' = FALSE
  /\ UNCHANGED <<startVars, isRecording, orphans, stopping, turnVars, queueVars,
                 allChunksReceived, histories>>

\* A silence, or the cap of the recording.
stopRecording ==
  /\ isRecording /\ \E t \in Turns : turn[t] = "unused"
  /\ isRecording' = FALSE /\ stopping' = stopping + 1
  /\ UNCHANGED <<active, startVars, opening, orphans, turnVars, queueVars,
                 allChunksReceived, histories>>

-----------------------------------------------------------------------------
(* The button *)

\* The button is disabled while a turn is processed.
startInterview ==
  /\ ~active /\ ~isProcessing /\ starts < MaxStarts
  /\ starting' = starting + 1 /\ starts' = starts + 1
  /\ hurried' = (hurried \/ starting > 0)
  /\ UNCHANGED <<active, micVars, turnVars, queueVars, allChunksReceived, twice, hole>>

conversation_created ==
  /\ starting > 0
  /\ starting' = starting - 1
  /\ active' = TRUE
  /\ opening' = IF isProcessing \/ isRecording THEN opening ELSE opening + 1
  /\ UNCHANGED <<starts, isRecording, orphans, stopping, turnVars, queueVars,
                 allChunksReceived, histories>>

conversation_refused ==
  /\ starting > 0
  /\ starting' = starting - 1
  /\ UNCHANGED <<active, starts, micVars, turnVars, queueVars, allChunksReceived, histories>>

\* The turns when the controller has been aborted.
abortTurnStream ==
  [t \in Turns |-> CASE t = controller /\ turn[t] = "open" -> "aborted"
                     [] t = controller /\ turn[t] = "settled" -> "closed"
                     [] OTHER -> turn[t]]

\* stopInterview, apart from the turns.  What was recorded is not thrown away,
\* it is on its way to onstop; so is that of any other recorder of this stream.
stopped ==
  /\ active' = FALSE /\ turnAborted' = TRUE /\ controller' = 0
  /\ becomes([silent EXCEPT !.current = Nothing, !.sounding = @ \ {currentAudio}])
  /\ isRecording' = FALSE
  /\ \E k \in 0..orphans :
       /\ orphans' = orphans - k
       /\ stopping' = stopping + k + (IF isRecording THEN 1 ELSE 0)
  /\ UNCHANGED <<startVars, opening>>

\* END.  The button refuses it while a turn is processed; the sidebar's does not.
stopInterview ==
  /\ active
  /\ stopped
  /\ turn' = abortTurnStream /\ allChunksReceived' = FALSE
  /\ hurried' = (hurried \/ isRecording \/ opening + orphans + stopping > 0)
  /\ UNCHANGED <<isProcessing, given, twice, hole>>

-----------------------------------------------------------------------------
(* A turn *)

\* onstop.
processRecordingStream ==
  /\ stopping > 0
  /\ stopping' = stopping - 1
  /\ \E t \in Turns :
       /\ turn[t] = "unused" /\ \A u \in Turns : u < t => turn[u] # "unused"
       /\ turn' = [turn EXCEPT ![t] = "open"]
       /\ controller' = t
  /\ isProcessing' = TRUE /\ turnAborted' = FALSE
  /\ becomes(silent) /\ allChunksReceived' = FALSE
  /\ UNCHANGED <<active, startVars, opening, isRecording, orphans, given, histories>>

\* Only a recorder that END stopped at once has recorded nothing.
nothing_recorded ==
  /\ hurried /\ stopping > 0
  /\ stopping' = stopping - 1
  /\ UNCHANGED <<active, startVars, opening, isRecording, orphans, turnVars, queueVars,
                 allChunksReceived, histories>>

\* An event that leaves the turn open.
speaks(t, sentences, p) ==
  /\ given' = [given EXCEPT ![t] = @ \cup sentences]
  /\ becomes(p)
  /\ UNCHANGED <<active, startVars, micVars, isProcessing, turn, controller, turnAborted,
                 allChunksReceived, histories>>

\* A sentence has a file.  The one file of an answer carries no id.
audio_url(t) ==
  /\ turn[t] = "open" /\ given[t] # OneFile
  /\ \/ \E i \in Sentences \ given[t] :
          speaks(t, {i}, tryPlayNextChunk([player EXCEPT !.queue = @ \cup {<<t, i>>}]))
     \/ /\ given[t] = {}
        /\ speaks(t, OneFile,
                  tryPlayNextChunk([player EXCEPT !.queue = @ \cup {<<t, nextChunkId>>}]))

\* A sentence failed.
chunk_error(t) ==
  /\ turn[t] = "open" /\ given[t] # OneFile
  /\ \E i \in Sentences \ given[t] :
       LET p == [player EXCEPT !.skipped = @ \cup {i}]
           q == IF p.playing THEN p
                ELSE [p EXCEPT !.cursor = advancePastSkippedChunks(p)]
       IN speaks(t, {i}, tryPlayNextChunk(q))

\* Turn t is settled or over, and its stream had left a sentence out.
leaves_a_hole(t) ==
  hole' = (hole \/ (turn[t] = "open" /\ \E i \in given[t] : ~(0..i \subseteq given[t])))

\* done, after error where the answer could not be ended: then syntheses that
\* were under way are cancelled, and nobody speaks of their sentences.
done(t) ==
  /\ turn[t] = "open"
  /\ turn' = [turn EXCEPT ![t] = "settled"]
  /\ leaves_a_hole(t)
  /\ allChunksReceived' = TRUE
  /\ opening' = IF checkAllDone(player, TRUE) THEN opening + startListening ELSE opening
  /\ UNCHANGED <<active, startVars, isRecording, orphans, stopping, isProcessing, given,
                 controller, turnAborted, queueVars, twice, hurried>>

\* The goodbye has been announced, or could not be spoken.  It settles the turn
\* and is END.
interview_end(t) ==
  /\ turn[t] = "open" /\ given[t] \in {{}, OneFile}
  /\ stopped
  /\ turn' = IF t = controller THEN [turn EXCEPT ![t] = "closed"]
             ELSE [abortTurnStream EXCEPT ![t] = "settled"]
  /\ allChunksReceived' = FALSE
  /\ UNCHANGED <<isProcessing, given, histories>>

\* The finally, apart from what it asks checkAllDone.
finally(t, turns) ==
  /\ turn' = [turns EXCEPT ![t] = "over"]
  /\ given' = [given EXCEPT ![t] = {}]
  /\ isProcessing' = FALSE /\ controller' = 0

\* The finally has cleared isProcessing.
hears_again(all) ==
  opening' = IF checkAllDone(player, all) /\ active /\ ~isRecording
             THEN opening + 1 ELSE opening

\* The stream ends, with or without a terminal event; or the server refused the
\* recording for its size (413), which keeps the interview.
eof(t) ==
  /\ turn[t] \in {"open", "settled"}
  /\ finally(t, turn)
  /\ leaves_a_hole(t)
  /\ allChunksReceived' = (allChunksReceived \/ turn[t] = "open")
  /\ hears_again(allChunksReceived')
  /\ UNCHANGED <<active, startVars, isRecording, orphans, stopping, turnAborted, queueVars,
                 twice, hurried>>

\* A read is rejected because the controller was aborted.
stream_aborted(t) ==
  /\ Live(turn[t]) /\ turnAborted
  /\ finally(t, turn)
  /\ allChunksReceived' = (allChunksReceived \/ turn[t] \in {"open", "aborted"})
  /\ hears_again(allChunksReceived')
  /\ UNCHANGED <<active, startVars, isRecording, orphans, stopping, turnAborted, queueVars,
                 histories>>

\* Refused, lost, or silent for longer than a read may take: that is END.
stream_lost(t) ==
  /\ Live(turn[t]) /\ ~turnAborted
  /\ stopped
  /\ finally(t, abortTurnStream)
  /\ allChunksReceived' = (turn[t] \in {"open", "aborted"})
  /\ UNCHANGED histories

-----------------------------------------------------------------------------
(* Audio elements *)

\* Heard to its end, broken off, or refused by a browser that plays no audio.
ended(e) ==
  /\ e \in sounding
  /\ LET p == abandonCurrentChunk([player EXCEPT !.sounding = @ \ {e}])
     IN /\ becomes(p)
        /\ opening' = IF checkAllDone(p, allChunksReceived) THEN opening + startListening
                      ELSE opening
  /\ UNCHANGED <<active, startVars, isRecording, orphans, stopping, turnVars,
                 allChunksReceived, histories>>

\* A file that cannot be loaded: error is fired, and then the promise of play()
\* is rejected by the same task.  A recorder that the first opens is open before.
load_failed(e) ==
  /\ e \in sounding
  /\ LET p == abandonCurrentChunk([player EXCEPT !.sounding = @ \ {e}])
         q == abandonCurrentChunk(p)
         all == allChunksReceived
     IN /\ becomes(q)
        /\ opening' = IF checkAllDone(p, all) \/ checkAllDone(q, all)
                      THEN opening + startListening ELSE opening
        /\ twice' = (twice \/ ~checkAllDone(p, all))
  /\ UNCHANGED <<active, startVars, isRecording, orphans, stopping, turnVars,
                 allChunksReceived, hole, hurried>>

-----------------------------------------------------------------------------
Button == startInterview \/ stopInterview
Browser ==
  \/ conversation_created \/ conversation_refused
  \/ startRecording \/ abandonInterviewStart
  \/ processRecordingStream \/ nothing_recorded
Stream(t) ==
  \/ audio_url(t) \/ chunk_error(t) \/ done(t) \/ interview_end(t)
  \/ eof(t) \/ stream_aborted(t) \/ stream_lost(t)
Sound == \E e \in sounding : ended(e) \/ load_failed(e)

Next == Button \/ Browser \/ stopRecording \/ (\E t \in Turns : Stream(t)) \/ Sound

\* The browser answers, streams end (StreamsClose of StreamingTurn, and the
\* deadline of a read), and an element ends or fails.  The user owes nothing.
Spec == /\ Init /\ [][Next]_vars
        /\ WF_vars(Browser) /\ WF_vars(Sound) /\ \A t \in Turns : WF_vars(Stream(t))

-----------------------------------------------------------------------------
(* Properties *)

\* "'Escuchando...' can never arrive while the candidate is still being spoken
\* to" (checkAllDone): the recorder runs only when nothing sounds.  It may after
\* a sentence was abandoned twice: the one after it has lost the player.
MicNeverHearsTheAnswer == isRecording /\ ~twice /\ ~hurried => sounding = {}

\* Of recording, sending and reading an answer the page does one at a time: the
\* turns of a conversation, as this page sends them, never overlap, whatever is
\* refused, cut off, denied or ended, unless the user was faster than the page.
OneTurnAtATime ==
  \/ twice \/ hurried
  \/ opening + orphans + stopping + (IF isRecording THEN 1 ELSE 0)
       + Cardinality({t \in Turns : Live(turn[t])}) <= 1

\* A running interview always comes back to the recorder: a turn may be refused,
\* cut off, silent or broken, the microphone is open again when it is over,
\* unless the stream left a sentence out, or one was abandoned twice (either
\* leaves another one in the queue for good).
MicComesBack == active ~> (isRecording \/ ~active \/ hole \/ twice \/ hurried)

\* "Speak the farewell. Ending the interview in silence is the one failure the
\* candidate cannot forgive" (turns/streaming.py): when the server ends the
\* interview, a goodbye that sounds is left to sound.
GoodbyeIsHeard == [][\A t \in Turns : interview_end(t) => sounding \subseteq sounding']_vars
=============================================================================
