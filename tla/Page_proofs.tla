----------------------------- MODULE Page_proofs -----------------------------
(***************************************************************************)
(* Theorems about Page, for any length of answers, any number of turns and *)
(* of starts: the recorder never runs under an answer, turns never overlap *)
(* and a running interview never stands still, as long as the histories    *)
(* promise it.                                                             *)
(*                                                                         *)
(* What a page does at a time is counted in callbacks, recorders and open  *)
(* streams.  That the count stays at one rests on facts none of which is   *)
(* inductive alone: which turn may speak (Held), what END has silenced     *)
(* (Ended), and that the flag of the player tells whether an element       *)
(* sounds (OnePlayer), which is what a sentence abandoned twice breaks.    *)
(* That the interview goes on needs to know what the player knows of the   *)
(* sentences to come (Course while they are spoken of, Reachable after).   *)
(***************************************************************************)
EXTENDS Page, FiniteSetTheorems, WellFoundedInduction, TLAPS

Statuses == {"unused", "open", "settled", "aborted", "closed", "over"}

\* What is counted, and where a turn stands: of the rest only truth matters.
Types ==
  /\ starting \in Nat /\ opening \in Nat /\ orphans \in Nat /\ stopping \in Nat
  /\ isRecording \in BOOLEAN /\ active \in BOOLEAN /\ isProcessing \in BOOLEAN
  /\ hurried \in BOOLEAN /\ turn \in [Turns -> Statuses]

\* What the properties promise something about.
Calm == ~twice /\ ~hurried

\* Recorders, and callbacks on their way to one or from one.
Mic == opening + orphans + stopping + (IF isRecording THEN 1 ELSE 0)

Streams == {t \in Turns : Live(turn[t])}

(***************************************************************************)
(* One thing at a time, counted without cardinalities.                     *)
(***************************************************************************)
OneThing ==
  /\ Mic <= 1
  /\ Streams # {} => Mic = 0
  /\ \A t, u \in Streams : t = u

\* While a stream is read the page is processing.
Busy == Streams # {} => isProcessing

\* A stream that may still speak has the controller, and the interview goes on.
Held == \A t \in Turns : turn[t] \in {"open", "settled"} => controller = t /\ active

\* END leaves nothing that listens or sounds.
Ended == ~active => Mic = 0 /\ sounding = {}

\* A conversation is created by a page that does nothing else.
Creating == starting > 0 => starting = 1 /\ ~active /\ ~isProcessing

\* The flag of the player is true to the elements.
OnePlayer == sounding = IF isAudioPlaying THEN {currentAudio} ELSE {}

\* Nothing listens, or is about to, while something sounds.
Silence == sounding # {} => Mic = 0

Promised == OneThing /\ Busy /\ Held /\ Ended /\ Creating /\ OnePlayer /\ Silence

IInv == Types /\ (Calm => Promised)

-----------------------------------------------------------------------------
(* The player *)

Fields == {"queue", "cursor", "skipped", "playing", "current", "sounding"}

\* A player whose flag tells what sounds.
Tells(p) ==
  /\ DOMAIN p = Fields
  /\ p.sounding = IF p.playing THEN {p.current} ELSE {}

\* Taking the next chunk keeps the flag true.
LEMMA PlayNextTells ==
  ASSUME NEW p, Tells(p)
  PROVE  Tells(tryPlayNextChunk(p))
<1> DEFINE m == advancePastSkippedChunks(p)
           moved == [p EXCEPT !.cursor = m]
           next == {d \in moved.queue : d[2] = moved.cursor}
           chunk == CHOOSE d \in next : TRUE
           taken == [moved EXCEPT !.queue = @ \ {chunk}, !.playing = TRUE, !.current = chunk,
                                  !.sounding = @ \cup {chunk}]
<1>1. CASE p.playing
  <2>1. tryPlayNextChunk(p) = p
    BY <1>1 DEF tryPlayNextChunk
  <2> QED BY <2>1
<1>2. CASE ~p.playing
  <2>1. tryPlayNextChunk(p) \in {moved, taken}
    BY <1>2 DEF tryPlayNextChunk
  <2>2. DOMAIN moved = Fields /\ ~moved.playing /\ moved.sounding = {}
    <3> HIDE DEF m
    <3> QED BY <1>2 DEF Tells, Fields
  <2>3. DOMAIN taken = Fields /\ taken.playing = TRUE
        /\ taken.sounding = {chunk} /\ taken.current = chunk
    <3> HIDE DEF moved, chunk
    <3> QED BY <2>2 DEF Fields
  <2>4. Tells(moved) /\ Tells(taken)
    <3> HIDE DEF moved, taken, chunk, m
    <3> QED BY <2>2, <2>3 DEF Tells
  <2> QED BY <2>1, <2>4
<1> QED BY <1>1, <1>2

\* Giving up the only element that sounds, and taking the next chunk.
LEMMA AbandonTells ==
  ASSUME NEW p, DOMAIN p = Fields, p.sounding = {}
  PROVE  Tells(abandonCurrentChunk(p))
<1> DEFINE q == [p EXCEPT !.cursor = @ + 1, !.playing = FALSE, !.current = Nothing]
<1>1. Tells(q)
  BY DEF Tells, Fields
<1> HIDE DEF q
<1>2. Tells(tryPlayNextChunk(q))
  BY <1>1, PlayNextTells
<1> QED BY <1>2 DEF abandonCurrentChunk, q

\* With nothing queued, giving up leaves silence.
LEMMA AbandonLast ==
  ASSUME NEW p, DOMAIN p = Fields, p.queue = {}
  PROVE  abandonCurrentChunk(p).queue = {} /\ ~abandonCurrentChunk(p).playing
<1> DEFINE q == [p EXCEPT !.cursor = @ + 1, !.playing = FALSE, !.current = Nothing]
           m == advancePastSkippedChunks(q)
           moved == [q EXCEPT !.cursor = m]
<1>1. DOMAIN q = Fields /\ q.queue = {} /\ ~q.playing
  BY DEF Fields
<1>2. DOMAIN moved = Fields /\ moved.queue = {} /\ ~moved.playing
  <2> HIDE DEF q, m
  <2> QED BY <1>1 DEF Fields
<1>3. {d \in moved.queue : d[2] = moved.cursor} = {}
  <2> HIDE DEF moved
  <2> QED BY <1>2
<1>4. tryPlayNextChunk(q) = moved
  <2> HIDE DEF q
  <2> QED BY <1>1, <1>3 DEF tryPlayNextChunk
<1>5. abandonCurrentChunk(p) = moved
  BY <1>4 DEF abandonCurrentChunk
<1> QED BY <1>2, <1>5

\* The variables are those of the player they become.
LEMMA Becomes ==
  ASSUME NEW p, Tells(p), becomes(p)
  PROVE  OnePlayer' /\ isAudioPlaying' = p.playing /\ sounding' = p.sounding
  BY DEF Tells, becomes, OnePlayer

LEMMA PlayerTells ==
  ASSUME Types, OnePlayer
  PROVE  Tells(player) /\ player.playing = isAudioPlaying /\ player.sounding = sounding
         /\ player.queue = audioQueue
  BY DEF Types, OnePlayer, Tells, player, Fields

-----------------------------------------------------------------------------
(* The steps *)

LEMMA InitIInv == Init => IInv
<1> SUFFICES ASSUME Init PROVE IInv
  OBVIOUS
<1>1. Types
  BY DEF Init, Types, Statuses
<1>2. Streams = {} /\ Mic = 0
  BY DEF Init, Streams, Live, Mic
<1> QED BY <1>1, <1>2 DEF Init, IInv, Promised, Calm, OneThing, Busy, Held, Ended, Creating,
     OnePlayer, Silence

\* The microphone as it is counted.
LEMMA MicCounted ==
  ASSUME Types
  PROVE  /\ Mic \in Nat
         /\ Mic = 0 <=> opening = 0 /\ orphans = 0 /\ stopping = 0 /\ ~isRecording
  BY DEF Types, Mic

\* What a step keeps when it leaves turns and player alone, and counts no more.
LEMMA QuietKeeps ==
  ASSUME Types, Types', Promised, Mic' <= Mic,
         UNCHANGED <<turn, isProcessing, controller>>
  PROVE  OneThing' /\ Busy'
<1>1. Streams' = Streams
  BY DEF Streams
<1>2. Mic \in Nat
  BY MicCounted
<1>4. Mic' \in Nat
  <2>1. opening' \in Nat /\ orphans' \in Nat /\ stopping' \in Nat
    BY DEF Types
  <2>2. (IF isRecording' THEN 1 ELSE 0) \in Nat
    OBVIOUS
  <2>3. \A a, b, c, d \in Nat : a + b + c + d \in Nat
    OBVIOUS
  <2> QED BY <2>1, <2>2, <2>3, Zenon DEF Mic
<1>3. Mic' <= 1 /\ (Streams # {} => Mic' = 0)
  BY <1>2, <1>4 DEF Promised, OneThing
<1> QED BY <1>1, <1>3 DEF Promised, OneThing, Busy

LEMMA StartsKeep ==
  ASSUME Types, Types', Promised, Calm', startInterview
  PROVE  Promised'
<1> USE DEF startInterview, micVars, turnVars, queueVars
<1>1. Mic' = Mic
  BY DEF Mic
<1>2. OneThing' /\ Busy'
  BY <1>1, QuietKeeps, MicCounted
<1>3. Creating'
  <2>1. ~(starting > 0)
    BY DEF Calm, Types
  <2>2. starting' = 1
    BY <2>1 DEF Types
  <2> QED BY <2>2 DEF Creating
<1> QED BY <1>1, <1>2, <1>3 DEF Promised, Held, Ended, OnePlayer, Silence

LEMMA RefusalKeeps ==
  ASSUME Types, Types', Promised, conversation_refused
  PROVE  Promised'
<1> USE DEF conversation_refused, micVars, turnVars, queueVars
<1>1. Mic' = Mic
  BY DEF Mic
<1>2. OneThing' /\ Busy'
  BY <1>1, QuietKeeps, MicCounted
<1>3. Creating'
  BY DEF Creating, Promised, Types
<1> QED BY <1>1, <1>2, <1>3 DEF Promised, Held, Ended, OnePlayer, Silence

LEMMA CreationKeeps ==
  ASSUME Types, Types', Promised, conversation_created
  PROVE  Promised'
<1> USE DEF conversation_created, turnVars, queueVars
<1>1. starting = 1 /\ ~active /\ ~isProcessing
  BY DEF Promised, Creating
<1>2. Mic = 0 /\ sounding = {} /\ Streams = {}
  BY <1>1 DEF Promised, Ended, Busy
<1>3. Streams' = {} /\ sounding' = {} /\ active' /\ starting' = 0
  BY <1>1, <1>2 DEF Streams
<1>4. Mic' <= 1
  BY <1>2, MicCounted DEF Mic, Types
<1> QED BY <1>3, <1>4 DEF Promised, OneThing, Busy, Held, Ended, Creating, OnePlayer, Silence

LEMMA RecordingKeeps ==
  ASSUME Types, Types', Promised, startRecording \/ stopRecording
  PROVE  Promised'
<1> USE DEF startRecording, stopRecording, turnVars, queueVars, startVars
<1>1. Mic' = Mic
  <2>1. CASE startRecording
    <3>1. CASE isRecording
      BY <2>1, <3>1 DEF Mic, Types
    <3>2. CASE ~isRecording
      BY <2>1, <3>2 DEF Mic, Types
    <3> QED BY <3>1, <3>2
  <2>2. CASE stopRecording
    BY <2>2 DEF Mic, Types
  <2> QED BY <2>1, <2>2
<1>2. OneThing' /\ Busy'
  BY <1>1, QuietKeeps, MicCounted
<1> QED BY <1>1, <1>2 DEF Promised, Held, Ended, Creating, OnePlayer, Silence

\* A microphone that is denied was the one thing, so nothing is left.
LEMMA DenialKeeps ==
  ASSUME Types, Types', Promised, abandonInterviewStart
  PROVE  Promised'
<1> USE DEF abandonInterviewStart, turnVars, queueVars, startVars
<1>1. Mic # 0
  BY MicCounted DEF Types
<1>2. Mic = 1 /\ Mic' = 0
  BY <1>1, MicCounted DEF Promised, OneThing, Mic, Types
<1>3. Streams = {} /\ sounding = {}
  BY <1>1 DEF Promised, OneThing, Silence
<1>4. OneThing' /\ Busy'
  BY <1>2, QuietKeeps
<1>5. \A t \in Turns : ~(turn[t] \in {"open", "settled"})
  BY <1>3 DEF Streams, Live
<1> QED BY <1>2, <1>3, <1>4, <1>5 DEF Promised, Held, Ended, Creating, OnePlayer, Silence

\* END silences the one element that may sound, and what was to be recorded is
\* as much as before.
LEMMA StopSilences ==
  ASSUME Types, Promised, stopped
  PROVE  /\ active' = FALSE /\ sounding' = {} /\ isAudioPlaying' = FALSE /\ Mic' = Mic
         /\ isRecording' = FALSE /\ orphans' \in Nat /\ stopping' \in Nat
         /\ UNCHANGED <<starting, opening>>
<1> DEFINE p == [silent EXCEPT !.current = Nothing, !.sounding = @ \ {currentAudio}]
<1>1. DOMAIN player = Fields /\ player.sounding = sounding
  BY DEF player, Fields
<1>2. DOMAIN silent = Fields /\ silent.sounding = sounding /\ silent.playing = FALSE
  <2> HIDE DEF p
  <2> QED BY <1>1 DEF silent, Fields
<1>3. p.sounding = sounding \ {currentAudio} /\ p.playing = FALSE
  BY <1>2 DEF Fields
<1> HIDE DEF p
<1>4. becomes(p)
  BY DEF stopped, p
<1>5. sounding' = {} /\ isAudioPlaying' = FALSE
  BY <1>3, <1>4 DEF becomes, Promised, OnePlayer
<1>6. PICK k \in 0..orphans :
        /\ orphans' = orphans - k
        /\ stopping' = stopping + k + (IF isRecording THEN 1 ELSE 0)
  BY DEF stopped
<1>7. Mic' = Mic /\ orphans' \in Nat /\ stopping' \in Nat
  <2>1. opening' = opening /\ isRecording' = FALSE
    BY DEF stopped
  <2>2. CASE isRecording
    BY <1>6, <2>1, <2>2 DEF Mic, Types
  <2>3. CASE ~isRecording
    BY <1>6, <2>1, <2>3 DEF Mic, Types
  <2> QED BY <2>2, <2>3
<1> QED BY <1>5, <1>7 DEF stopped, startVars

\* Aborting a controller ends no stream, and begins none.
LEMMA AbortKeepsStreams ==
  ASSUME Types
  PROVE  /\ abortTurnStream \in [Turns -> Statuses]
         /\ \A t \in Turns : Live(abortTurnStream[t]) <=> Live(turn[t])
         /\ \A t \in Turns : abortTurnStream[t] \in {"open", "settled"} =>
              turn[t] \in {"open", "settled"} /\ t # controller
  BY DEF Types, Statuses, abortTurnStream, Live

LEMMA EndKeeps ==
  ASSUME Types, Types', Promised, Calm', stopInterview
  PROVE  Promised'
<1>1. /\ active' = FALSE /\ sounding' = {} /\ isAudioPlaying' = FALSE /\ Mic' = Mic
      /\ starting' = starting
  BY StopSilences DEF stopInterview
<1>2. Mic = 0
  <2>1. ~isRecording /\ ~(opening + orphans + stopping > 0)
    BY DEF Calm, stopInterview
  <2>2. opening = 0 /\ orphans = 0 /\ stopping = 0
    BY <2>1 DEF Types
  <2> QED BY <2>1, <2>2, MicCounted
<1>3. Streams' = Streams
  BY AbortKeepsStreams DEF Streams, stopInterview
<1>4. Held'
  BY AbortKeepsStreams DEF Held, Promised, stopInterview
<1>5. Creating' /\ Busy'
  BY <1>1, <1>3 DEF Creating, Busy, Promised, stopInterview
<1>6. OneThing'
  BY <1>1, <1>2, <1>3 DEF OneThing, Promised
<1> QED BY <1>1, <1>2, <1>4, <1>5, <1>6 DEF Promised, Ended, OnePlayer, Silence

\* What was recorded becomes a turn: the one thing is now a stream.
LEMMA SendingKeeps ==
  ASSUME Types, Types', Promised, processRecordingStream
  PROVE  Promised'
<1>1. Mic # 0
  BY MicCounted DEF processRecordingStream, Types
<1>2. Mic = 1 /\ Mic' = 0
  BY <1>1, MicCounted DEF processRecordingStream, Types, Mic, Promised, OneThing
<1>3. Streams = {} /\ sounding = {} /\ active
  BY <1>1 DEF Promised, OneThing, Silence, Ended, Types
<1>4. PICK t \in Turns : turn' = [turn EXCEPT ![t] = "open"] /\ controller' = t
  BY DEF processRecordingStream
<1>5. \A u \in Turns : turn'[u] \in {"open", "settled"} => u = t
  BY <1>3, <1>4 DEF Types, Streams, Live
<1>6. Streams' = {t}
  BY <1>3, <1>4 DEF Types, Streams, Live
<1>7. sounding' = {} /\ isAudioPlaying' = FALSE
  <2>1. DOMAIN player = Fields /\ player.sounding = sounding
    BY DEF player, Fields
  <2>2. silent.sounding = sounding /\ silent.playing = FALSE
    BY <2>1 DEF silent, Fields
  <2> QED BY <2>2, <1>3 DEF processRecordingStream, becomes
<1>8. isProcessing' /\ active' /\ starting' = starting
  BY <1>3 DEF processRecordingStream, startVars
<1>9. starting' = 0
  BY <1>3, <1>8 DEF Promised, Creating, Types
<1> QED BY <1>2, <1>4, <1>5, <1>6, <1>7, <1>8, <1>9
        DEF Promised, OneThing, Busy, Held, Ended, Creating, OnePlayer, Silence

-----------------------------------------------------------------------------
(* The stream of a turn *)

\* A stream that is read is the one thing the page does.
LEMMA Reading ==
  ASSUME Types, Promised, NEW t \in Turns, Live(turn[t])
  PROVE  Mic = 0 /\ isProcessing /\ starting = 0 /\ Streams = {t}
  BY DEF Types, Promised, OneThing, Busy, Creating, Streams

\* A sentence that is queued, or skipped.
LEMMA SpeakingKeeps ==
  ASSUME Types, Types', Promised, NEW t \in Turns, turn[t] = "open",
         NEW s, NEW p, Tells(p), speaks(t, s, p)
  PROVE  Promised'
<1>1. Mic = 0 /\ active
  BY Reading DEF Live, Promised, Held
<1>2. Mic' = 0 /\ active' = active /\ Streams' = Streams
  BY <1>1 DEF speaks, micVars, Mic, Streams
<1>3. OnePlayer'
  BY Becomes DEF speaks
<1> QED BY <1>1, <1>2, <1>3 DEF Promised, OneThing, Busy, Held, Ended, Creating, Silence,
     speaks, startVars

LEMMA PlayerMoves ==
  ASSUME NEW p, Tells(p), NEW x
  PROVE  /\ Tells([p EXCEPT !.queue = x])
         /\ Tells([p EXCEPT !.skipped = x])
         /\ Tells([p EXCEPT !.cursor = x])
  BY DEF Tells, Fields

LEMMA AudioKeeps ==
  ASSUME Types, Types', Promised, NEW t \in Turns, audio_url(t)
  PROVE  Promised'
<1>1. Tells(player) /\ player.queue = audioQueue
  BY PlayerTells DEF Promised
<1>2. turn[t] = "open"
  BY DEF audio_url
<1>3. \A c : Tells(tryPlayNextChunk([player EXCEPT !.queue = @ \cup {c}]))
  <2> TAKE c
  <2>1. Tells([player EXCEPT !.queue = @ \cup {c}])
    BY <1>1, PlayerMoves
  <2> HIDE DEF player
  <2> QED BY <2>1, PlayNextTells
<1>4. CASE \E i \in Sentences \ given[t] :
             speaks(t, {i}, tryPlayNextChunk([player EXCEPT !.queue = @ \cup {<<t, i>>}]))
  <2>1. PICK i \in Sentences \ given[t] :
          speaks(t, {i}, tryPlayNextChunk([player EXCEPT !.queue = @ \cup {<<t, i>>}]))
    BY <1>4
  <2>2. Tells(tryPlayNextChunk([player EXCEPT !.queue = @ \cup {<<t, i>>}]))
    BY <1>3
  <2> QED BY <2>1, <2>2, <1>2, SpeakingKeeps
<1>5. CASE speaks(t, OneFile,
                  tryPlayNextChunk([player EXCEPT !.queue = @ \cup {<<t, nextChunkId>>}]))
  <2>1. Tells(tryPlayNextChunk([player EXCEPT !.queue = @ \cup {<<t, nextChunkId>>}]))
    BY <1>3
  <2> QED BY <2>1, <1>5, <1>2, SpeakingKeeps
<1> QED BY <1>4, <1>5 DEF audio_url

LEMMA SkipKeeps ==
  ASSUME Types, Types', Promised, NEW t \in Turns, chunk_error(t)
  PROVE  Promised'
<1> DEFINE p(i) == [player EXCEPT !.skipped = @ \cup {i}]
           q(i) == IF p(i).playing THEN p(i)
                   ELSE [p(i) EXCEPT !.cursor = advancePastSkippedChunks(p(i))]
<1>1. \A i : Tells(p(i))
  BY PlayerTells, PlayerMoves DEF Promised
<1> HIDE DEF p
<1>2. \A i : Tells(q(i))
  BY <1>1, PlayerMoves
<1>3. PICK i \in Sentences \ given[t] : speaks(t, {i}, tryPlayNextChunk(q(i)))
  BY DEF chunk_error, p
<1> HIDE DEF q
<1>4. Tells(tryPlayNextChunk(q(i))) /\ turn[t] = "open"
  BY <1>2, PlayNextTells DEF chunk_error
<1> QED BY <1>3, <1>4, SpeakingKeeps

\* done settles the turn, and asks the player: the turn is not over, so nobody
\* listens yet.
LEMMA DoneKeeps ==
  ASSUME Types, Types', Promised, NEW t \in Turns, done(t)
  PROVE  Promised'
<1>1. turn[t] = "open" /\ turn' = [turn EXCEPT ![t] = "settled"]
  BY DEF done
<1>2. Mic = 0 /\ isProcessing /\ starting = 0 /\ Streams = {t}
  BY <1>1, Reading DEF Live
<1>3. controller = t /\ active
  BY <1>1 DEF Promised, Held
<1>4. Mic' = 0
  BY <1>2 DEF done, Mic, startListening, Types
<1>5. Streams' = {t}
  BY <1>1, <1>2 DEF Streams, Live, Types
<1>6. \A u \in Turns : turn'[u] \in {"open", "settled"} => u = t
  BY <1>5 DEF Streams, Live
<1>7. Held'
  BY <1>3, <1>6 DEF Held, done
<1> QED BY <1>2, <1>3, <1>4, <1>5, <1>7
        DEF Promised, OneThing, Busy, Ended, Creating, OnePlayer, Silence, done, startVars,
            queueVars

\* The goodbye is END: the turn it ends is that of the controller.
LEMMA GoodbyeKeeps ==
  ASSUME Types, Types', Promised, NEW t \in Turns, interview_end(t)
  PROVE  Promised'
<1>1. turn[t] = "open" /\ stopped /\ isProcessing' = isProcessing
  BY DEF interview_end
<1>2. Mic = 0 /\ isProcessing /\ starting = 0 /\ Streams = {t} /\ controller = t
  BY <1>1, Reading DEF Live, Promised, Held
<1>3. turn' = [turn EXCEPT ![t] = "closed"]
  BY <1>2 DEF interview_end
<1>4. /\ active' = FALSE /\ sounding' = {} /\ isAudioPlaying' = FALSE /\ Mic' = 0
      /\ starting' = 0
  BY <1>1, <1>2, StopSilences
<1>5. Streams' = {t}
  BY <1>2, <1>3 DEF Streams, Live, Types
<1>6. Held'
  BY <1>3, <1>5 DEF Held, Streams, Live, Types
<1> QED BY <1>1, <1>2, <1>4, <1>5, <1>6
        DEF Promised, OneThing, Busy, Ended, Creating, OnePlayer, Silence

\* The finally: the only stream is over.
LEMMA FinallyEnds ==
  ASSUME Types, Promised, NEW t \in Turns, Live(turn[t]),
         NEW turns, turns \in {turn, abortTurnStream}, finally(t, turns)
  PROVE  Streams' = {}
<1>1. Streams = {t}
  BY Reading
<1>2. \A u \in Turns : Live(turns[u]) => Live(turn[u])
  BY AbortKeepsStreams
<1>3. turns \in [Turns -> Statuses]
  BY AbortKeepsStreams DEF Types
<1>4. \A u \in Turns : Live(turn'[u]) => u # t /\ Live(turn[u])
  BY <1>2, <1>3 DEF finally, Live
<1> QED BY <1>1, <1>4 DEF Streams

\* The page listens again, unless something sounds.
LEMMA ListeningAgain ==
  ASSUME Types, Types', Promised, NEW t \in Turns, Live(turn[t]),
         NEW all, finally(t, turn), hears_again(all),
         UNCHANGED <<active, starting, isRecording, orphans, stopping, queueVars>>
  PROVE  Promised'
<1>1. Mic = 0 /\ isProcessing /\ starting = 0 /\ Streams = {t}
  BY Reading
<1>2. Streams' = {}
  BY FinallyEnds
<1>3. Held'
  BY <1>2 DEF Streams, Live, Held
<1>4. sounding' = sounding /\ OnePlayer'
  BY DEF queueVars, OnePlayer, Promised
<1>5. CASE Mic' = 0
  BY <1>1, <1>2, <1>3, <1>4, <1>5 DEF Promised, OneThing, Busy, Ended, Creating, Silence
<1>6. CASE opening' = opening + 1 /\ checkAllDone(player, all) /\ active
  <2>1. sounding = {}
    BY <1>6, PlayerTells DEF checkAllDone, Promised, OnePlayer
  <2>2. Mic' = 1
    BY <1>1, <1>6, MicCounted DEF Mic, Types
  <2> QED BY <1>1, <1>2, <1>3, <1>4, <1>6, <2>1, <2>2
          DEF Promised, OneThing, Busy, Ended, Creating, Silence
<1>7. Mic' = 0 \/ (opening' = opening + 1 /\ checkAllDone(player, all) /\ active)
  BY <1>1 DEF hears_again, Mic
<1> QED BY <1>5, <1>6, <1>7

LEMMA EofKeeps ==
  ASSUME Types, Types', Promised, NEW t \in Turns, eof(t)
  PROVE  Promised'
<1>1. Live(turn[t])
  BY DEF eof, Live
<1>2. /\ finally(t, turn) /\ hears_again(allChunksReceived')
      /\ UNCHANGED <<active, starting, isRecording, orphans, stopping, queueVars>>
  BY DEF eof, startVars
<1> QED BY <1>1, <1>2, ListeningAgain

LEMMA AbortedKeeps ==
  ASSUME Types, Types', Promised, NEW t \in Turns, stream_aborted(t)
  PROVE  Promised'
<1>1. Live(turn[t])
  BY DEF stream_aborted
<1>2. /\ finally(t, turn) /\ hears_again(allChunksReceived')
      /\ UNCHANGED <<active, starting, isRecording, orphans, stopping, queueVars>>
  BY DEF stream_aborted, startVars
<1> QED BY <1>1, <1>2, ListeningAgain

LEMMA LostKeeps ==
  ASSUME Types, Types', Promised, NEW t \in Turns, stream_lost(t)
  PROVE  Promised'
<1>1. Live(turn[t]) /\ stopped /\ finally(t, abortTurnStream)
  BY DEF stream_lost
<1>2. Mic = 0 /\ starting = 0
  BY <1>1, Reading
<1>3. /\ active' = FALSE /\ sounding' = {} /\ isAudioPlaying' = FALSE /\ Mic' = 0
      /\ starting' = 0
  BY <1>1, <1>2, StopSilences
<1>4. Streams' = {}
  BY <1>1, FinallyEnds
<1>5. Held'
  BY <1>4 DEF Held, Streams, Live
<1> QED BY <1>3, <1>4, <1>5
        DEF Promised, OneThing, Busy, Ended, Creating, OnePlayer, Silence

-----------------------------------------------------------------------------
(* The elements *)

\* The one element that sounds is given up.
LEMMA GivenUp ==
  ASSUME Types, Promised, NEW e \in sounding
  PROVE  LET p == abandonCurrentChunk([player EXCEPT !.sounding = @ \ {e}])
         IN Tells(p) /\ DOMAIN p = Fields
<1> DEFINE r == [player EXCEPT !.sounding = @ \ {e}]
<1>1. DOMAIN player = Fields /\ player.sounding = {e}
  BY PlayerTells DEF Promised, OnePlayer, Tells
<1>2. DOMAIN r = Fields /\ r.sounding = {}
  <2> HIDE DEF player
  <2> QED BY <1>1 DEF Fields
<1> HIDE DEF r
<1>3. Tells(abandonCurrentChunk(r))
  BY <1>2, AbandonTells
<1> QED BY <1>3 DEF Tells, r

\* What the page does when the player has moved on: it listens if the player
\* fell silent and the turn is over.
LEMMA MovingOnKeeps ==
  ASSUME Types, Types', Promised, sounding # {},
         NEW q, Tells(q), becomes(q),
         opening' \in {opening, opening + startListening},
         opening' # opening => ~q.playing,
         UNCHANGED <<active, starting, isRecording, orphans, stopping, turn, isProcessing,
                     controller>>
  PROVE  Promised'
<1>1. Mic = 0 /\ active
  BY DEF Promised, Silence, Ended
<1>2. Streams' = Streams
  BY DEF Streams
<1>3. OnePlayer' /\ (sounding' # {} => q.playing)
  BY Becomes DEF Tells
<1>4. CASE opening' = opening
  <2>1. Mic' = 0
    BY <1>1, <1>4 DEF Mic
  <2> QED BY <1>1, <1>2, <1>3, <2>1
          DEF Promised, OneThing, Busy, Held, Ended, Creating, Silence
<1>5. CASE opening' # opening
  <2>1. opening' = opening + 1 /\ ~isProcessing
    BY <1>5 DEF startListening, Types
  <2>2. Mic' = 1 /\ Streams = {} /\ sounding' = {}
    BY <1>1, <1>3, <1>5, <2>1, MicCounted DEF Mic, Promised, Busy, Types
  <2> QED BY <1>1, <1>2, <1>3, <2>2
          DEF Promised, OneThing, Busy, Held, Ended, Creating, Silence
<1> QED BY <1>4, <1>5

LEMMA EndedKeeps ==
  ASSUME Types, Types', Promised, NEW e, ended(e)
  PROVE  Promised'
<1> DEFINE p == abandonCurrentChunk([player EXCEPT !.sounding = @ \ {e}])
<1>1. e \in sounding /\ becomes(p)
      /\ opening' = IF checkAllDone(p, allChunksReceived) THEN opening + startListening
                    ELSE opening
  BY DEF ended
<1>2. Tells(p)
  BY <1>1, GivenUp
<1>3. UNCHANGED <<active, starting, isRecording, orphans, stopping, turn, isProcessing,
                  controller>>
  BY DEF ended, startVars, turnVars
<1> HIDE DEF p
<1>4. opening' # opening => ~p.playing
  BY <1>1 DEF checkAllDone
<1>5. opening' \in {opening, opening + startListening}
  BY <1>1
<1> QED BY <1>1, <1>2, <1>3, <1>4, <1>5, MovingOnKeeps

\* Given up twice by a page that is calm: nothing was queued after it.
LEMMA LoadFailedKeeps ==
  ASSUME Types, Types', Promised, Calm', NEW e, load_failed(e)
  PROVE  Promised'
<1> DEFINE p == abandonCurrentChunk([player EXCEPT !.sounding = @ \ {e}])
           q == abandonCurrentChunk(p)
<1>1. e \in sounding /\ becomes(q) /\ twice' = (twice \/ ~checkAllDone(p, allChunksReceived))
      /\ opening' = IF checkAllDone(p, allChunksReceived) \/ checkAllDone(q, allChunksReceived)
                    THEN opening + startListening ELSE opening
  BY DEF load_failed
<1>2. Tells(p) /\ DOMAIN p = Fields
  BY <1>1, GivenUp
<1>3. UNCHANGED <<active, starting, isRecording, orphans, stopping, turn, isProcessing,
                  controller>>
  BY DEF load_failed, startVars, turnVars
<1> HIDE DEF p
<1>4. checkAllDone(p, allChunksReceived)
  BY <1>1 DEF Calm
<1>5. p.queue = {} /\ p.sounding = {}
  BY <1>2, <1>4 DEF checkAllDone, Tells
<1>6. Tells(q) /\ ~q.playing
  BY <1>2, <1>5, AbandonTells, AbandonLast
<1> HIDE DEF q
<1>7. opening' \in {opening, opening + startListening}
  BY <1>1
<1> QED BY <1>1, <1>3, <1>6, <1>7, MovingOnKeeps

-----------------------------------------------------------------------------
(* The invariant *)

LEMMA TypesStep == Types /\ [Next]_vars => Types'
<1> SUFFICES ASSUME Types, [Next]_vars PROVE Types'
  OBVIOUS
<1> USE DEF Types, micVars, turnVars, queueVars, startVars, histories
<1>1. CASE startInterview
  BY <1>1 DEF startInterview
<1>2. CASE conversation_created \/ conversation_refused
  <2>1. opening' \in Nat
    BY <1>2 DEF conversation_created, conversation_refused
  <2>2. starting - 1 \in Nat
    BY <1>2 DEF conversation_created, conversation_refused
  <2> QED BY <1>2, <2>1, <2>2 DEF conversation_created, conversation_refused
<1>3. CASE startRecording \/ abandonInterviewStart \/ stopRecording \/ nothing_recorded
  <2>1. CASE startRecording
    <3>1. orphans' \in Nat
      BY <2>1 DEF startRecording
    <3> QED BY <2>1, <3>1 DEF startRecording
  <2>2. CASE abandonInterviewStart
    <3>1. opening - 1 \in Nat
      BY <2>2 DEF abandonInterviewStart
    <3> QED BY <2>2, <3>1 DEF abandonInterviewStart
  <2>3. CASE stopRecording
    <3>1. stopping + 1 \in Nat
      OBVIOUS
    <3> QED BY <2>3, <3>1 DEF stopRecording
  <2>4. CASE nothing_recorded
    BY <2>4 DEF nothing_recorded
  <2> QED BY <1>3, <2>1, <2>2, <2>3, <2>4
<1>4. ASSUME stopped
      PROVE  /\ active' \in BOOLEAN /\ isRecording' \in BOOLEAN /\ orphans' \in Nat
             /\ stopping' \in Nat /\ UNCHANGED <<starting, opening>>
  <2>1. PICK k \in 0..orphans :
          /\ orphans' = orphans - k
          /\ stopping' = stopping + k + (IF isRecording THEN 1 ELSE 0)
    BY <1>4 DEF stopped
  <2>2. orphans' \in Nat
    BY <2>1
  <2>3. stopping' \in Nat
    <3>1. CASE isRecording
      BY <2>1, <3>1
    <3>2. CASE ~isRecording
      BY <2>1, <3>2
    <3> QED BY <3>1, <3>2
  <2> QED BY <1>4, <2>2, <2>3 DEF stopped
<1>5. CASE stopInterview
  <2>1. stopped /\ turn' = abortTurnStream /\ isProcessing' = isProcessing
        /\ hurried' \in BOOLEAN
    BY <1>5 DEF stopInterview
  <2> QED BY <1>4, <2>1, AbortKeepsStreams
<1>6. CASE processRecordingStream
  <2>1. PICK t \in Turns : turn' = [turn EXCEPT ![t] = "open"]
    BY <1>6 DEF processRecordingStream
  <2>2. turn' \in [Turns -> Statuses]
    BY <2>1 DEF Statuses
  <2> QED BY <1>6, <2>2 DEF processRecordingStream
<1>7. ASSUME NEW t \in Turns, Stream(t) PROVE Types'
  <2>1. CASE audio_url(t) \/ chunk_error(t)
    <3>1. PICK s, p : speaks(t, s, p)
      BY <2>1 DEF audio_url, chunk_error
    <3> QED BY <3>1 DEF speaks
  <2>2. CASE done(t)
    <3>1. turn' \in [Turns -> Statuses]
      BY <2>2 DEF done, Statuses
    <3>2. startListening \in {0, 1}
      BY DEF startListening
    <3>3. opening' \in {opening, opening + startListening}
      BY <2>2 DEF done
    <3>4. opening' \in Nat
      BY <3>2, <3>3
    <3> QED BY <2>2, <3>1, <3>4 DEF done
  <2>3. CASE interview_end(t)
    <3>1. turn' \in [Turns -> Statuses]
      BY <2>3, AbortKeepsStreams DEF interview_end, Statuses
    <3> QED BY <2>3, <3>1, <1>4 DEF interview_end
  <2>4. CASE eof(t) \/ stream_aborted(t)
    <3>1. turn' \in [Turns -> Statuses]
      BY <2>4 DEF eof, stream_aborted, finally, Statuses
    <3>2. opening' \in Nat
      BY <2>4 DEF eof, stream_aborted, hears_again
    <3> QED BY <2>4, <3>1, <3>2 DEF eof, stream_aborted, finally
  <2>5. CASE stream_lost(t)
    <3>1. turn' \in [Turns -> Statuses]
      BY <2>5, AbortKeepsStreams DEF stream_lost, finally, Statuses
    <3> QED BY <2>5, <3>1, <1>4 DEF stream_lost, finally
  <2> QED BY <1>7, <2>1, <2>2, <2>3, <2>4, <2>5 DEF Stream
<1>8. CASE Sound
  <2>1. PICK e \in sounding : ended(e) \/ load_failed(e)
    BY <1>8 DEF Sound
  <2>2. startListening \in Nat
    BY DEF startListening
  <2> QED BY <2>1, <2>2 DEF ended, load_failed
<1>9. CASE UNCHANGED vars
  BY <1>9 DEF vars
<1> QED BY <1>1, <1>2, <1>3, <1>5, <1>6, <1>7, <1>8, <1>9 DEF Next, Button, Browser

\* A page that has been hurried, or has lost its player, never is calm again.
LEMMA CalmBefore == [Next]_vars /\ Calm' => Calm
<1> SUFFICES ASSUME [Next]_vars, Calm' PROVE Calm
  OBVIOUS
<1> USE DEF Calm, histories
<1>1. CASE Button \/ Browser \/ stopRecording
  <2>1. CASE startInterview \/ stopInterview
    <3>1. twice' = twice /\ (hurried => hurried')
      BY <2>1 DEF startInterview, stopInterview
    <3> QED BY <3>1
  <2>2. CASE ~(startInterview \/ stopInterview)
    BY <1>1, <2>2 DEF Button, Browser, conversation_created, conversation_refused,
       startRecording, abandonInterviewStart, processRecordingStream, nothing_recorded,
       stopRecording
  <2> QED BY <2>1, <2>2
<1>2. ASSUME NEW t \in Turns, Stream(t) PROVE Calm
  <2>1. CASE audio_url(t) \/ chunk_error(t)
    <3>1. PICK s, p : speaks(t, s, p)
      BY <2>1 DEF audio_url, chunk_error
    <3> QED BY <3>1 DEF speaks
  <2>2. CASE ~(audio_url(t) \/ chunk_error(t))
    <3>1. UNCHANGED <<twice, hurried>>
      BY <1>2, <2>2 DEF Stream, done, interview_end, eof, stream_aborted, stream_lost
    <3> QED BY <3>1
  <2> QED BY <2>1, <2>2
<1>3. CASE Sound
  <2>1. PICK e \in sounding : ended(e) \/ load_failed(e)
    BY <1>3 DEF Sound
  <2>2. CASE ended(e)
    BY <2>2 DEF ended
  <2>3. CASE load_failed(e)
    <3>1. hurried' = hurried /\ (twice => twice')
      BY <2>3 DEF load_failed
    <3> QED BY <3>1
  <2> QED BY <2>1, <2>2, <2>3
<1>4. CASE UNCHANGED vars
  BY <1>4 DEF vars
<1> QED BY <1>1, <1>2, <1>3, <1>4 DEF Next

LEMMA NextIInv == IInv /\ [Next]_vars => IInv'
<1> SUFFICES ASSUME IInv, [Next]_vars PROVE IInv'
  OBVIOUS
<1>1. Types /\ Types'
  BY TypesStep DEF IInv
<1>2. SUFFICES ASSUME Calm' PROVE Promised'
  BY <1>1 DEF IInv, Promised
<1>3. Promised
  BY <1>2, CalmBefore DEF IInv, Promised
<1>4. CASE Button
  BY <1>1, <1>2, <1>3, <1>4, StartsKeep, EndKeeps DEF Button
<1>5. CASE Browser \/ stopRecording
  <2>1. ~nothing_recorded
    BY <1>2 DEF nothing_recorded, Calm, histories
  <2> QED BY <1>1, <1>3, <1>5, <2>1, CreationKeeps, RefusalKeeps, RecordingKeeps, DenialKeeps,
          SendingKeeps DEF Browser
<1>6. ASSUME NEW t \in Turns, Stream(t) PROVE Promised'
  BY <1>1, <1>3, <1>6, AudioKeeps, SkipKeeps, DoneKeeps, GoodbyeKeeps, EofKeeps, AbortedKeeps,
     LostKeeps DEF Stream
<1>7. CASE Sound
  BY <1>1, <1>2, <1>3, <1>7, EndedKeeps, LoadFailedKeeps DEF Sound
<1>8. CASE UNCHANGED vars
  BY <1>3, <1>8 DEF vars, micVars, turnVars, queueVars, startVars, Promised, OneThing, Mic,
     Streams, Busy, Held, Ended, Creating, OnePlayer, Silence
<1> QED BY <1>4, <1>5, <1>6, <1>7, <1>8 DEF Next

LEMMA PageInvariant == Spec => []IInv
  BY InitIInv, NextIInv, PTL DEF Spec

-----------------------------------------------------------------------------
(* The theorems *)

\* checkAllDone: "'Escuchando...' can never arrive while the candidate is still
\* being spoken to".  Whatever the order of audio events, failures, ENDs and
\* streams that break off, the recorder never runs while an element sounds.
THEOREM MicNeverHears == Spec => []MicNeverHearsTheAnswer
<1>1. IInv => MicNeverHearsTheAnswer
  BY MicCounted DEF IInv, Promised, Calm, Silence, MicNeverHearsTheAnswer
<1> QED BY <1>1, PageInvariant, PTL

\* Recording, sending and reading an answer exclude each other: the page never
\* sends a turn while the one before is still read.
THEOREM TurnsNeverOverlap == Spec => []OneTurnAtATime
<1>1. ASSUME IInv PROVE OneTurnAtATime
  <2>1. CASE ~Calm
    BY <2>1 DEF Calm, OneTurnAtATime
  <2>2. CASE Calm
    <3>1. OneThing /\ Types
      BY <1>1, <2>2 DEF IInv, Promised
    <3>2. CASE Streams = {}
      BY <3>1, <3>2, FS_EmptySet, MicCounted DEF OneThing, OneTurnAtATime, Mic, Streams
    <3>3. CASE Streams # {}
      <4>1. PICK t \in Streams : Streams = {t}
        BY <3>1, <3>3 DEF OneThing
      <4>2. Cardinality(Streams) = 1 /\ Mic = 0
        BY <3>1, <4>1, FS_Singleton DEF OneThing
      <4> QED BY <4>2 DEF OneTurnAtATime, Mic, Streams
    <3> QED BY <3>2, <3>3
  <2> QED BY <2>1, <2>2
<1> QED BY <1>1, PageInvariant, PTL

-----------------------------------------------------------------------------
(* Never stranded                                                            *)

Ids(queue) == {c[2] : c \in queue}

\* The first sentence the player has not come to.
Front(p) == IF p.playing THEN p.cursor + 1 ELSE p.cursor

\* What the player knows of the sentences to come.
Ready(p) == Ids(p.queue) \cup p.skipped

\* The queue holds sentences to come, each once, and none that failed.
Ordered(p) ==
  /\ DOMAIN p = Fields /\ p.playing \in BOOLEAN /\ p.cursor \in Nat
  /\ p.skipped \in SUBSET Nat /\ IsFiniteSet(p.skipped)
  /\ \A c \in p.queue : c[2] \in Nat /\ c[2] >= Front(p) /\ c[2] \notin p.skipped
  /\ \A c, d \in p.queue : c[2] = d[2] => c = d

\* A silent player waits for a sentence nobody has spoken of.
Waits(p) == ~p.playing => p.cursor \notin Ready(p)

\* What a stream has spoken of is behind the player, or the player knows of it.
Covers(p, sentences) ==
  /\ Ready(p) \subseteq sentences
  /\ 0..(Front(p) - 1) \subseteq sentences
  /\ \A i \in sentences : i >= Front(p) => i \in Ready(p)

\* The player will reach all of the queue.
Gapless(p) == \A i \in Ids(p.queue) : Front(p)..i \subseteq Ready(p)

Playing == Ordered(player) /\ Waits(player)

\* While its stream is read, the player knows what the stream has said.
Course ==
  \A t \in Turns : turn[t] = "open" =>
    IF given[t] = OneFile THEN audioQueue = {}
    ELSE given[t] \subseteq Sentences /\ Covers(player, given[t])

\* A stream that ended without leaving a sentence out left no gap.
Reachable == ~hole /\ (\A t \in Turns : turn[t] # "open") => Gapless(player)

\* A turn that is not read has said nothing.
Said == given \in [Turns -> SUBSET Int] /\ \A t \in Turns : ~Live(turn[t]) => given[t] = {}

\* allChunksReceived is what its name says.
Received ==
  /\ \A t \in Turns : /\ turn[t] = "open" => ~allChunksReceived
                      /\ turn[t] = "settled" => allChunksReceived
  /\ Streams = {} /\ sounding # {} => allChunksReceived

\* Only END aborts a stream, and a page that processes reads one.
Reads ==
  /\ active => \A t \in Streams : turn[t] \in {"open", "settled"}
  /\ isProcessing => Streams # {}
  /\ turnAborted => \A t \in Turns : turn[t] \notin {"open", "settled"}

\* A running interview records, is about to, reads an answer or plays one.
Awake == active => isRecording \/ opening + stopping > 0 \/ Streams # {} \/ sounding # {}

Onward ==
  /\ orphans = 0 /\ Playing /\ Course /\ Reachable /\ Said /\ Received /\ Reads
  /\ ~hole => Awake


\* A set of naturals that is not empty has a least member.
LEMMA LeastExists ==
  ASSUME NEW S \in SUBSET Nat, S # {}
  PROVE  Min(S) \in S /\ \A n \in S : Min(S) <= n
<1>1. PICK m \in S : \A n \in S : <<n, m>> \notin OpToRel(<, Nat)
  BY NatLessThanWellFounded, WFMin
<1>2. \A n \in S : m <= n
  <2> TAKE n \in S
  <2>1. ~(n < m)
    BY <1>1 DEF OpToRel
  <2> QED BY <2>1
<1> QED BY <1>1, <1>2 DEF Min

\* The cursor goes past the sentences that failed, and no further.
LEMMA Advances ==
  ASSUME NEW p, p.cursor \in Nat, p.skipped \in SUBSET Nat, IsFiniteSet(p.skipped)
  PROVE  LET m == advancePastSkippedChunks(p)
         IN /\ m \in Nat /\ m >= p.cursor /\ m \notin p.skipped
            /\ p.cursor..(m - 1) \subseteq p.skipped
<1> DEFINE c == p.cursor
           k == Cardinality(p.skipped)
           I == c..(c + k)
           S == {n \in I : n \notin p.skipped}
           m == Min(S)
<1>1. k \in Nat
  BY FS_CardinalityType
<1>2. S # {}
  <2> SUFFICES ASSUME S = {} PROVE FALSE
    OBVIOUS
  <2>1. I \subseteq p.skipped
    OBVIOUS
  <2>2. Cardinality(I) = k + 1
    <3>1. Cardinality(I) = c + k - c + 1
      BY <1>1, FS_Interval
    <3> HIDE DEF I
    <3> QED BY <1>1, <3>1
  <2>3. Cardinality(I) <= k
    BY <2>1, FS_Subset
  <2> HIDE DEF I, k
  <2> QED BY <1>1, <2>2, <2>3
<1>3. S \in SUBSET Nat
  BY <1>1
<1>4. m \in S /\ \A n \in S : m <= n
  BY <1>2, <1>3, LeastExists
<1>5. m \in Nat /\ m >= c /\ m <= c + k /\ m \notin p.skipped
  <2> HIDE DEF m, k
  <2> QED BY <1>1, <1>4
<1>6. ASSUME NEW i \in c..(m - 1) PROVE i \in p.skipped
  <2>1. i \in I /\ ~(m <= i)
    <3> HIDE DEF m, k
    <3> QED BY <1>1, <1>5
  <2> QED BY <1>4, <2>1
<1> QED BY <1>5, <1>6 DEF advancePastSkippedChunks

\* A silent player that takes the next chunk, if the queue holds it, or waits.
LEMMA TakesNext ==
  ASSUME NEW p, Ordered(p), ~p.playing
  PROVE  LET r == tryPlayNextChunk(p)
             m == advancePastSkippedChunks(p)
         IN /\ DOMAIN r = Fields /\ r.cursor = m /\ r.skipped = p.skipped
            /\ \/ ~r.playing /\ r.playing \in BOOLEAN /\ r.queue = p.queue /\ m \notin Ids(p.queue)
               \/ /\ r.playing = TRUE
                  /\ \E c \in p.queue : c[2] = m /\ r.queue = p.queue \ {c}
<1> DEFINE m == advancePastSkippedChunks(p)
           q == [p EXCEPT !.cursor = m]
           next == {d \in q.queue : d[2] = q.cursor}
           chunk == CHOOSE d \in next : TRUE
           taken == [q EXCEPT !.queue = @ \ {chunk}, !.playing = TRUE, !.current = chunk,
                              !.sounding = @ \cup {chunk}]
           r == tryPlayNextChunk(p)
<1>1. /\ DOMAIN q = Fields /\ q.cursor = m /\ q.skipped = p.skipped
      /\ q.queue = p.queue /\ q.playing = p.playing /\ q.playing \in BOOLEAN
  <2> HIDE DEF m
  <2> QED BY DEF Ordered, Fields
<1>2. r = IF next = {} THEN q ELSE taken
  BY DEF tryPlayNextChunk
<1>3. CASE next = {}
  <2>1. m \notin Ids(p.queue)
    <3> HIDE DEF q, m
    <3> QED BY <1>1, <1>3 DEF Ids
  <2> HIDE DEF q, m, next, taken, r
  <2> QED BY <1>1, <1>2, <1>3, <2>1 DEF m, r
<1>4. CASE next # {}
  <2>1. chunk \in p.queue /\ chunk[2] = m
    <3>1. chunk \in next
      BY <1>4
    <3> HIDE DEF q, m, chunk
    <3> QED BY <1>1, <3>1
  <2>2. /\ DOMAIN taken = Fields /\ taken.cursor = m /\ taken.skipped = p.skipped
        /\ taken.playing = TRUE /\ taken.queue = p.queue \ {chunk}
    <3> HIDE DEF q, m, chunk
    <3> QED BY <1>1 DEF Fields
  <2> HIDE DEF q, m, next, taken, r, chunk
  <2> QED BY <1>2, <1>4, <2>1, <2>2 DEF m, r
<1> QED BY <1>3, <1>4

\* Then the queue is still in order, nothing said is lost, and no gap arises.
LEMMA NextKeeps ==
  ASSUME NEW p, Ordered(p), ~p.playing
  PROVE  LET r == tryPlayNextChunk(p)
         IN /\ Ordered(r) /\ Waits(r)
            /\ \A G \in SUBSET Int : Covers(p, G) => Covers(r, G)
            /\ Gapless(p) => Gapless(r)
<1> DEFINE r == tryPlayNextChunk(p)
           m == advancePastSkippedChunks(p)
<1>1. /\ m \in Nat /\ m >= p.cursor /\ m \notin p.skipped
      /\ p.cursor..(m - 1) \subseteq p.skipped
  BY Advances DEF Ordered
<1>2. /\ DOMAIN r = Fields /\ r.cursor = m /\ r.skipped = p.skipped
      /\ \/ ~r.playing /\ r.playing \in BOOLEAN /\ r.queue = p.queue /\ m \notin Ids(p.queue)
         \/ /\ r.playing = TRUE
            /\ \E c \in p.queue : c[2] = m /\ r.queue = p.queue \ {c}
  BY TakesNext
<1> HIDE DEF m, r
<1>3. Front(p) = p.cursor
  BY DEF Front
<1>4. \A i \in Nat : i >= p.cursor /\ i \notin p.skipped => i >= m
  BY <1>1 DEF Ordered
<1>5. CASE ~r.playing /\ r.playing \in BOOLEAN /\ r.queue = p.queue /\ m \notin Ids(p.queue)
  <2>1. Front(r) = m /\ Ready(r) = Ready(p) /\ Ids(r.queue) = Ids(p.queue)
    BY <1>2, <1>5 DEF Front, Ready
  <2>2. Ordered(r)
    BY <1>1, <1>2, <1>3, <1>4, <1>5, <2>1 DEF Ordered
  <2>3. Waits(r)
    BY <1>1, <1>2, <1>5, <2>1 DEF Waits, Ready
  <2>4. ASSUME NEW G \in SUBSET Int, Covers(p, G) PROVE Covers(r, G)
    <3>1. 0..(m - 1) \subseteq G
      BY <1>1, <1>3, <2>4 DEF Covers, Ready, Ordered
    <3>2. \A i \in G : i >= m => i \in Ready(p)
      BY <1>1, <1>3, <2>4, <3>1 DEF Covers, Ordered
    <3> QED BY <2>1, <2>4, <3>1, <3>2 DEF Covers
  <2>5. ASSUME Gapless(p) PROVE Gapless(r)
    BY <1>1, <1>3, <2>1, <2>5 DEF Gapless, Ids, Ordered
  <2> QED BY <2>2, <2>3, <2>4, <2>5 DEF r
<1>6. ASSUME r.playing = TRUE, NEW c \in p.queue, c[2] = m, r.queue = p.queue \ {c}
      PROVE  /\ Ordered(r) /\ Waits(r)
             /\ \A G \in SUBSET Int : Covers(p, G) => Covers(r, G)
             /\ Gapless(p) => Gapless(r)
  <2>1. Front(r) = m + 1
    BY <1>2, <1>6 DEF Front
  <2>2. \A d \in r.queue : d \in p.queue /\ d[2] \in Nat /\ d[2] # m
    BY <1>6 DEF Ordered
  <2>3. Ids(r.queue) = Ids(p.queue) \ {m} /\ m \in Ids(p.queue)
    BY <1>6, <2>2 DEF Ids
  <2>4. Ready(r) = Ready(p) \ {m} /\ m \in Ready(p)
    BY <1>1, <1>2, <2>3 DEF Ready
  <2>5. Ordered(r)
    <3>1. \A d \in r.queue : d[2] >= m + 1
      BY <1>1, <1>3, <1>4, <2>2 DEF Ordered
    <3>2. \A d \in r.queue : d[2] \in Nat /\ d[2] >= Front(r) /\ d[2] \notin r.skipped
      BY <1>2, <2>1, <2>2, <3>1 DEF Ordered
    <3>3. \A d, e \in r.queue : d[2] = e[2] => d = e
      BY <2>2 DEF Ordered
    <3>4. r.skipped \in SUBSET Nat /\ IsFiniteSet(r.skipped)
      BY <1>2 DEF Ordered
    <3> QED BY <1>1, <1>2, <1>6, <3>2, <3>3, <3>4 DEF Ordered
  <2>6. Waits(r)
    BY <1>6 DEF Waits
  <2>7. ASSUME NEW G \in SUBSET Int, Covers(p, G) PROVE Covers(r, G)
    <3>1. 0..m \subseteq G
      BY <1>1, <1>3, <2>4, <2>7 DEF Covers, Ready, Ordered
    <3>2. \A i \in G : i >= m + 1 => i \in Ready(p) /\ i # m
      <4> SUFFICES ASSUME NEW i \in G, i >= m + 1 PROVE i \in Ready(p) /\ i # m
        OBVIOUS
      <4> QED BY <1>1, <1>3, <2>7 DEF Covers, Ordered
    <3>3. Ready(r) \subseteq G
      BY <2>4, <2>7 DEF Covers
    <3>4. 0..(Front(r) - 1) \subseteq G
      <4> SUFFICES ASSUME NEW j \in 0..(Front(r) - 1) PROVE j \in G
        OBVIOUS
      <4>1. j \in 0..m
        BY <1>1, <2>1
      <4> QED BY <3>1, <4>1
    <3>5. \A i \in G : i >= Front(r) => i \in Ready(r)
      BY <2>1, <2>4, <3>2
    <3> QED BY <3>3, <3>4, <3>5 DEF Covers
  <2>8. ASSUME Gapless(p) PROVE Gapless(r)
    <3> SUFFICES ASSUME NEW i \in Ids(r.queue), NEW j \in (m + 1)..i PROVE j \in Ready(r)
      BY <2>1 DEF Gapless
    <3>1. i \in Nat /\ j \in Nat /\ i \in Ids(p.queue)
      BY <1>1, <2>2, <2>3 DEF Ids
    <3>2. j \in p.cursor..i
      BY <1>1, <3>1 DEF Ordered
    <3> QED BY <1>1, <1>3, <2>4, <2>8, <3>1, <3>2 DEF Gapless
  <2> QED BY <2>5, <2>6, <2>7, <2>8
<1> QED BY <1>2, <1>5, <1>6 DEF r

\* Giving up the element that sounds moves the player on, and loses nothing.
LEMMA AbandonKeeps ==
  ASSUME NEW p, Ordered(p), p.playing, NEW x
  PROVE  LET r == abandonCurrentChunk([p EXCEPT !.sounding = x])
         IN /\ Ordered(r) /\ Waits(r)
            /\ \A G \in SUBSET Int : Covers(p, G) => Covers(r, G)
            /\ Gapless(p) => Gapless(r)
<1> DEFINE s == [p EXCEPT !.sounding = x]
           q == [s EXCEPT !.cursor = @ + 1, !.playing = FALSE, !.current = Nothing]
           r == abandonCurrentChunk(s)
<1>1. DOMAIN s = Fields /\ s.cursor = p.cursor /\ s.skipped = p.skipped /\ s.queue = p.queue
  BY DEF Ordered, Fields
<1>2. /\ DOMAIN q = Fields /\ q.cursor = p.cursor + 1 /\ q.playing = FALSE
      /\ q.skipped = p.skipped /\ q.queue = p.queue
  <2> HIDE DEF s
  <2> QED BY <1>1 DEF Fields
<1>3. r = tryPlayNextChunk(q)
  BY DEF abandonCurrentChunk
<1> HIDE DEF s, q, r
<1>4. Front(q) = Front(p) /\ Ready(q) = Ready(p)
  BY <1>2 DEF Front, Ready
<1>5. Ordered(q)
  <2>1. p.cursor + 1 \in Nat /\ p.skipped \in SUBSET Nat /\ IsFiniteSet(p.skipped)
    BY DEF Ordered
  <2>2. \A c \in q.queue : c[2] \in Nat /\ c[2] >= Front(q) /\ c[2] \notin q.skipped
    BY <1>2, <1>4 DEF Ordered
  <2>3. \A c, d \in q.queue : c[2] = d[2] => c = d
    BY <1>2 DEF Ordered
  <2> QED BY <1>2, <2>1, <2>2, <2>3 DEF Ordered
<1>6. /\ \A G : Covers(p, G) => Covers(q, G)
      /\ Gapless(p) => Gapless(q)
  BY <1>2, <1>4 DEF Covers, Gapless
<1>7. /\ Ordered(r) /\ Waits(r)
      /\ \A G \in SUBSET Int : Covers(q, G) => Covers(r, G)
      /\ Gapless(q) => Gapless(r)
  BY <1>2, <1>3, <1>5, NextKeeps
<1> QED BY <1>6, <1>7 DEF r, s

\* Giving up when nothing is queued and nothing plays moves the cursor, no more.
LEMMA AbandonIdle ==
  ASSUME NEW p, Ordered(p), p.queue = {}, ~p.playing
  PROVE  LET r == abandonCurrentChunk(p)
         IN Ordered(r) /\ Waits(r) /\ r.queue = {} /\ ~r.playing
<1> DEFINE q == [p EXCEPT !.cursor = @ + 1, !.playing = FALSE, !.current = Nothing]
           r == abandonCurrentChunk(p)
<1>1. /\ DOMAIN q = Fields /\ q.cursor = p.cursor + 1 /\ q.playing = FALSE
      /\ q.skipped = p.skipped /\ q.queue = {}
  BY DEF Ordered, Fields
<1>2. r = tryPlayNextChunk(q)
  BY DEF abandonCurrentChunk
<1>3. r.queue = {} /\ ~r.playing
  BY AbandonLast DEF Ordered
<1> HIDE DEF q, r
<1>4. Ordered(q)
  <2>1. p.cursor + 1 \in Nat /\ p.skipped \in SUBSET Nat /\ IsFiniteSet(p.skipped)
    BY DEF Ordered
  <2> QED BY <1>1, <2>1 DEF Ordered
<1>5. Ordered(r) /\ Waits(r)
  BY <1>1, <1>2, <1>4, NextKeeps
<1> QED BY <1>3, <1>5 DEF r

\* A sentence nobody has spoken of is still to come.
LEMMA StillToCome ==
  ASSUME NEW p, Ordered(p), NEW G, Covers(p, G), NEW i \in Nat, i \notin G
  PROVE  i >= Front(p) /\ i \notin Ready(p)
<1>1. Front(p) \in Nat
  BY DEF Ordered, Front
<1>2. ~(i < Front(p))
  BY <1>1 DEF Covers
<1> QED BY <1>1, <1>2 DEF Covers

\* The stream has said that sentence i has a file.
LEMMA FileKeeps ==
  ASSUME NEW p, Ordered(p), Waits(p), NEW G \in SUBSET Int, Covers(p, G),
         NEW i \in Nat, i \notin G, NEW t
  PROVE  LET r == tryPlayNextChunk([p EXCEPT !.queue = @ \cup {<<t, i>>}])
         IN Ordered(r) /\ Waits(r) /\ Covers(r, G \cup {i})
<1> DEFINE c == <<t, i>>
           q == [p EXCEPT !.queue = @ \cup {c}]
           r == tryPlayNextChunk(q)
<1>1. /\ DOMAIN q = Fields /\ q.cursor = p.cursor /\ q.playing = p.playing
      /\ q.skipped = p.skipped /\ q.queue = p.queue \cup {c}
  <2> HIDE DEF c
  <2> QED BY DEF Ordered, Fields
<1>2. i >= Front(p) /\ i \notin Ready(p)
  BY StillToCome
<1>3. c[2] = i
  OBVIOUS
<1> HIDE DEF c, q
<1>4. Ids(q.queue) = Ids(p.queue) \cup {i}
  BY <1>1, <1>3 DEF Ids
<1>5. Ready(q) = Ready(p) \cup {i} /\ Front(q) = Front(p)
  BY <1>1, <1>4 DEF Ready, Front
<1>6. Ordered(q)
  <2>1. \A d \in q.queue : d[2] \in Nat /\ d[2] >= Front(q) /\ d[2] \notin q.skipped
    BY <1>1, <1>2, <1>3, <1>5 DEF Ordered, Ready
  <2>2. \A d \in p.queue : d[2] # i
    BY <1>2 DEF Ready, Ids
  <2>3. \A d, e \in q.queue : d[2] = e[2] => d = e
    BY <1>1, <1>3, <2>2 DEF Ordered
  <2> QED BY <1>1, <2>1, <2>3 DEF Ordered
<1>7. Covers(q, G \cup {i})
  BY <1>2, <1>5 DEF Covers
<1>8. CASE q.playing
  <2>1. r = q
    BY <1>8 DEF tryPlayNextChunk
  <2> QED BY <1>6, <1>7, <1>8, <2>1 DEF Waits, q, c
<1>9. CASE ~q.playing
  <2>1. Ordered(r) /\ Waits(r) /\ Covers(r, G \cup {i})
    BY <1>6, <1>7, <1>9, NextKeeps
  <2> QED BY <2>1 DEF q, c
<1> QED BY <1>8, <1>9

\* The stream has said that sentence i failed.
LEMMA FailureKeeps ==
  ASSUME NEW p, Ordered(p), Waits(p), NEW G \in SUBSET Int, Covers(p, G),
         NEW i \in Nat, i \notin G
  PROVE  LET s == [p EXCEPT !.skipped = @ \cup {i}]
             q == IF p.playing THEN s
                  ELSE [s EXCEPT !.cursor = advancePastSkippedChunks(s)]
             r == tryPlayNextChunk(q)
         IN Ordered(r) /\ Waits(r) /\ Covers(r, G \cup {i})
<1> DEFINE s == [p EXCEPT !.skipped = @ \cup {i}]
           m == advancePastSkippedChunks(s)
           f == [s EXCEPT !.cursor = m]
           r == tryPlayNextChunk(f)
<1>1. /\ DOMAIN s = Fields /\ s.cursor = p.cursor /\ s.playing = p.playing
      /\ s.skipped = p.skipped \cup {i} /\ s.queue = p.queue
  BY DEF Ordered, Fields
<1>2. i >= Front(p) /\ i \notin Ready(p)
  BY StillToCome
<1>3. Front(s) = Front(p) /\ Ready(s) = Ready(p) \cup {i}
  <2> HIDE DEF s
  <2> QED BY <1>1 DEF Front, Ready
<1> HIDE DEF s
<1>4. IsFiniteSet(s.skipped) /\ s.skipped \in SUBSET Nat
  BY <1>1, FS_AddElement DEF Ordered
<1>5. Ordered(s)
  <2>1. \A d \in p.queue : d[2] # i
    BY <1>2 DEF Ready, Ids
  <2> QED BY <1>1, <1>3, <1>4, <2>1 DEF Ordered
<1>6. Covers(s, G \cup {i})
  BY <1>2, <1>3 DEF Covers
<1>7. CASE p.playing
  <2>1. tryPlayNextChunk(s) = s
    BY <1>1, <1>7 DEF tryPlayNextChunk
  <2>2. Waits(s)
    BY <1>1, <1>7 DEF Waits
  <2> QED BY <1>5, <1>6, <1>7, <2>1, <2>2 DEF s
<1>8. CASE ~p.playing
  <2>1. /\ m \in Nat /\ m >= s.cursor /\ m \notin s.skipped
        /\ s.cursor..(m - 1) \subseteq s.skipped
    BY Advances, <1>5 DEF Ordered
  <2> HIDE DEF m
  <2>2. /\ DOMAIN f = Fields /\ f.cursor = m /\ f.playing = s.playing
        /\ f.skipped = s.skipped /\ f.queue = s.queue
    BY <1>5 DEF Ordered, Fields
  <2> HIDE DEF f
  <2>3. Front(s) = s.cursor /\ Front(f) = m /\ Ready(f) = Ready(s)
    BY <1>1, <1>8, <2>2 DEF Front, Ready
  <2>4. \A j \in Nat : j >= s.cursor /\ j \notin s.skipped => j >= m
    BY <1>5, <2>1 DEF Ordered
  <2>5. Ordered(f)
    BY <1>5, <2>1, <2>2, <2>3, <2>4 DEF Ordered
  <2>6. Covers(f, G \cup {i})
    <3>1. 0..(m - 1) \subseteq G \cup {i}
      <4> SUFFICES ASSUME NEW j \in 0..(m - 1) PROVE j \in G \cup {i}
        OBVIOUS
      <4>1. CASE j < s.cursor
        <5>1. j \in 0..(s.cursor - 1)
          BY <1>5, <2>1, <4>1 DEF Ordered
        <5> QED BY <1>6, <2>3, <5>1 DEF Covers
      <4>2. CASE ~(j < s.cursor)
        <5>1. j \in s.skipped
          BY <1>5, <2>1, <4>2 DEF Ordered
        <5> QED BY <1>6, <5>1 DEF Covers, Ready
      <4> QED BY <4>1, <4>2
    <3>2. \A j \in G \cup {i} : j >= m => j \in Ready(s)
      <4> SUFFICES ASSUME NEW j \in G \cup {i}, j >= m PROVE j \in Ready(s)
        OBVIOUS
      <4>1. j >= s.cursor
        BY <1>5, <2>1 DEF Ordered
      <4> QED BY <1>6, <2>3, <4>1 DEF Covers
    <3>3. Ready(f) \subseteq G \cup {i}
      BY <1>6, <2>3 DEF Covers
    <3>4. 0..(Front(f) - 1) \subseteq G \cup {i}
      BY <2>3, <3>1
    <3>5. \A j \in G \cup {i} : j >= Front(f) => j \in Ready(f)
      BY <2>3, <3>2
    <3> QED BY <3>3, <3>4, <3>5 DEF Covers
  <2>7. Ordered(r) /\ Waits(r) /\ Covers(r, G \cup {i})
    <3>1. G \cup {i} \in SUBSET Int
      OBVIOUS
    <3> HIDE DEF r
    <3>2. \A H \in SUBSET Int : Covers(f, H) => Covers(r, H)
      BY <1>1, <1>8, <2>2, <2>5, NextKeeps DEF r
    <3>3. Ordered(r) /\ Waits(r)
      BY <1>1, <1>8, <2>2, <2>5, NextKeeps DEF r
    <3> QED BY <2>6, <3>1, <3>2, <3>3
  <2> QED BY <1>8, <2>7 DEF f, m, s
<1> QED BY <1>7, <1>8

\* The variables are those of the player they become.
LEMMA Becoming ==
  ASSUME NEW p, becomes(p), Ordered(p)
  PROVE  /\ Ordered(player)' /\ (Waits(p) => Waits(player)')
         /\ \A G : Covers(p, G) => Covers(player, G)'
         /\ Gapless(p) => Gapless(player)'
<1>1. /\ player'.queue = p.queue /\ player'.cursor = p.cursor /\ player'.skipped = p.skipped
      /\ player'.playing = p.playing
  BY DEF becomes, player
<1>2. DOMAIN player' = Fields
  BY DEF player, Fields
<1>3. Front(player') = Front(p) /\ Ready(player') = Ready(p)
      /\ Ids(player'.queue) = Ids(p.queue)
  BY <1>1 DEF Front, Ready
<1> QED BY <1>1, <1>2, <1>3 DEF Ordered, Waits, Covers, Gapless

-----------------------------------------------------------------------------
(* The steps, once more                                                      *)

\* A player that has nothing and knows of nothing.
LEMMA EmptyPlayer ==
  ASSUME NEW p, DOMAIN p = Fields, p.queue = {}, p.cursor = 0, p.skipped = {},
         p.playing = FALSE
  PROVE  Ordered(p) /\ Waits(p) /\ Covers(p, {}) /\ Gapless(p)
<1>1. Front(p) = 0 /\ Ids(p.queue) = {} /\ Ready(p) = {}
  BY DEF Front, Ids, Ready
<1>2. IsFiniteSet({})
  BY FS_EmptySet
<1>3. Ordered(p)
  <2>1. p.cursor \in Nat
    OBVIOUS
  <2>2. p.skipped \in SUBSET Nat /\ IsFiniteSet(p.skipped)
    BY <1>2
  <2>3. p.playing \in BOOLEAN
    BY Zenon
  <2> QED BY <2>1, <2>2, <2>3 DEF Ordered
<1>4. Waits(p) /\ Gapless(p)
  BY <1>1 DEF Waits, Gapless
<1>5. 0..(0 - 1) = {}
  OBVIOUS
<1>6. Covers(p, {})
  <2>1. 0..(Front(p) - 1) \subseteq {}
    BY <1>1, <1>5
  <2> QED BY <1>1, <2>1 DEF Covers
<1> QED BY <1>3, <1>4, <1>6

LEMMA InitOnward == Init => Onward
<1> SUFFICES ASSUME Init PROVE Onward
  OBVIOUS
<1>1. /\ player.queue = {} /\ player.cursor = 0 /\ player.skipped = {} /\ player.playing = FALSE
      /\ DOMAIN player = Fields
  BY DEF Init, player, Fields
<1> HIDE DEF player
<1>3. Playing /\ Gapless(player)
  BY <1>1, EmptyPlayer DEF Playing
<1>4. Streams = {} /\ \A t \in Turns : turn[t] = "unused" /\ ~Live(turn[t])
  BY DEF Init, Streams, Live
<1> QED BY <1>3, <1>4 DEF Init, Onward, Course, Reachable, Said, Received, Reads, Awake

\* A step of the microphone or the button that ends nothing.
LEMMA MicOnward ==
  ASSUME Onward, UNCHANGED <<turnVars, queueVars, allChunksReceived, hole>>,
         orphans' = 0, active' => active \/ Streams = {}, ~hole' => Awake'
  PROVE  Onward'
<1>1. player' = player /\ Streams' = Streams
  BY DEF player, Streams, queueVars, turnVars
<1>2. Playing' /\ Course' /\ Reachable'
  BY <1>1 DEF Onward, Playing, Course, Reachable, turnVars, queueVars
<1>3. Said' /\ Received' /\ Reads'
  BY <1>1 DEF Onward, Said, Received, Reads, turnVars, queueVars
<1> QED BY <1>2, <1>3 DEF Onward

LEMMA ButtonAndBrowser ==
  ASSUME Types, Types', Promised, Onward,
         \/ startInterview \/ conversation_created \/ conversation_refused
         \/ startRecording \/ abandonInterviewStart \/ stopRecording
  PROVE  Onward'
<1>1. UNCHANGED <<turnVars, queueVars, allChunksReceived, hole>>
  BY DEF startInterview, conversation_created, conversation_refused, startRecording,
     abandonInterviewStart, stopRecording, histories
<1>2. orphans' = 0 /\ (active' => active \/ Streams = {}) /\ Awake'
  <2>1. CASE startInterview
    BY <2>1 DEF startInterview, micVars, Onward, Awake
  <2>2. CASE conversation_created
    <3>1. starting > 0 /\ ~active /\ ~isProcessing
      BY <2>2 DEF conversation_created, Promised, Creating
    <3>2. Mic = 0 /\ Streams = {}
      BY <3>1 DEF Promised, Ended, Busy
    <3>3. ~isRecording /\ opening \in Nat
      BY <3>2, MicCounted DEF Types
    <3>4. opening' = opening + 1 /\ stopping' = stopping /\ orphans' = orphans
      BY <2>2, <3>1, <3>3 DEF conversation_created
    <3>5. opening' + stopping' > 0
      BY <3>3, <3>4 DEF Types
    <3> QED BY <3>2, <3>4, <3>5 DEF Awake, Onward
  <2>3. CASE conversation_refused
    <3>1. ~active
      BY <2>3 DEF conversation_refused, Promised, Creating
    <3> QED BY <2>3, <3>1 DEF conversation_refused, micVars, Onward, Awake
  <2>4. CASE startRecording
    <3>1. ~isRecording
      BY <2>4 DEF startRecording, Promised, OneThing, Mic, Types
    <3> QED BY <2>4, <3>1 DEF startRecording, Onward, Awake
  <2>5. CASE abandonInterviewStart
    BY <2>5 DEF abandonInterviewStart, Onward, Awake
  <2>6. CASE stopRecording
    <3>1. stopping' = stopping + 1 /\ opening' = opening
      BY <2>6 DEF stopRecording
    <3>2. opening' + stopping' > 0
      BY <3>1 DEF Types
    <3> QED BY <2>6, <3>2 DEF stopRecording, Onward, Awake
  <2> QED BY <2>1, <2>2, <2>3, <2>4, <2>5, <2>6
<1> QED BY <1>1, <1>2, MicOnward

\* END empties the queue, and no stream may speak after it.
LEMMA EndOnward ==
  ASSUME Types, Promised, Onward, stopped, Said',
         \A t \in Turns : turn'[t] \notin {"open", "settled"},
         isProcessing' => Streams' # {}
  PROVE  Onward'
<1> DEFINE p == [silent EXCEPT !.current = Nothing, !.sounding = @ \ {currentAudio}]
<1>1. active' = FALSE /\ sounding' = {}
  BY StopSilences
<1>2. orphans' = 0
  BY DEF stopped, Onward
<1>3. /\ DOMAIN silent = Fields /\ silent.queue = {} /\ silent.cursor = 0
      /\ silent.skipped = {} /\ silent.playing = FALSE
  <2>1. DOMAIN player = Fields
    BY DEF player, Fields
  <2> QED BY <2>1 DEF silent, Fields
<1>4. /\ DOMAIN p = Fields /\ p.queue = {} /\ p.cursor = 0 /\ p.skipped = {}
      /\ p.playing = FALSE
  BY <1>3 DEF Fields
<1>5. becomes(p)
  BY DEF stopped
<1> HIDE DEF p
<1>7. Ordered(p) /\ Waits(p) /\ Gapless(p)
  BY <1>4, EmptyPlayer
<1>8. Playing' /\ Gapless(player)'
  BY <1>5, <1>7, Becoming DEF Playing
<1> QED BY <1>1, <1>2, <1>8 DEF Onward, Course, Reachable, Received, Reads, Awake

LEMMA NoneSpeaks ==
  ASSUME Types, Promised
  PROVE  \A t \in Turns : abortTurnStream[t] \notin {"open", "settled"}
  BY AbortKeepsStreams DEF Promised, Held

LEMMA StopOnward ==
  ASSUME Types, Promised, Onward, stopInterview
  PROVE  Onward'
<1>1. turn' = abortTurnStream /\ given' = given /\ isProcessing' = isProcessing /\ stopped
  BY DEF stopInterview
<1>2. Streams' = Streams
  BY <1>1, AbortKeepsStreams DEF Streams
<1>3. Said'
  BY <1>1, AbortKeepsStreams DEF Said, Onward
<1> QED BY <1>1, <1>2, <1>3, NoneSpeaks, EndOnward DEF Onward, Reads

LEMMA GoodbyeOnward ==
  ASSUME Types, Promised, Onward, NEW t \in Turns, interview_end(t)
  PROVE  Onward'
<1>1. turn[t] = "open" /\ stopped /\ isProcessing' = isProcessing /\ given' = given
  BY DEF interview_end
<1>2. Streams = {t} /\ controller = t
  BY <1>1, Reading DEF Live, Promised, Held
<1>3. turn' = [turn EXCEPT ![t] = "closed"]
  BY <1>2 DEF interview_end
<1>4. \A u \in Turns : turn'[u] \notin {"open", "settled"} /\ (Live(turn'[u]) <=> u = t)
  BY <1>2, <1>3 DEF Streams, Live, Types
<1>5. Streams' # {}
  BY <1>4 DEF Streams
<1>6. Said'
  BY <1>1, <1>2, <1>4 DEF Said, Onward, Streams
<1> QED BY <1>1, <1>4, <1>5, <1>6, EndOnward

LEMMA LostOnward ==
  ASSUME Types, Promised, Onward, NEW t \in Turns, stream_lost(t)
  PROVE  Onward'
<1>1. Live(turn[t]) /\ stopped /\ finally(t, abortTurnStream)
  BY DEF stream_lost
<1>2. Streams' = {} /\ isProcessing' = FALSE
  BY <1>1, FinallyEnds DEF finally
<1>3. \A u \in Turns : ~Live(turn'[u])
  BY <1>2 DEF Streams
<1>4. Streams = {t}
  BY <1>1, Reading
<1>5. Said'
  <2>1. given' = [given EXCEPT ![t] = {}]
    BY <1>1 DEF finally
  <2> QED BY <1>4, <2>1 DEF Said, Onward, Streams
<1> QED BY <1>1, <1>2, <1>3, <1>5, EndOnward DEF Live

\* The recording becomes a turn, and the queue is as new.
LEMMA SendingOnward ==
  ASSUME Types, Types', Promised, Onward, processRecordingStream
  PROVE  Onward'
<1>1. Mic # 0
  BY MicCounted DEF processRecordingStream, Types
<1>2. Streams = {} /\ active
  BY <1>1 DEF Promised, OneThing, Ended, Types
<1>3. PICK t \in Turns : turn[t] = "unused" /\ turn' = [turn EXCEPT ![t] = "open"]
  BY DEF processRecordingStream
<1>4. Streams' = {t} /\ turn'[t] = "open"
  BY <1>2, <1>3 DEF Types, Streams, Live
<1>5. \A u \in Turns : turn'[u] \in {"open", "settled"} => u = t
  BY <1>4 DEF Streams, Live
<1>6. given' = given /\ given[t] = {} /\ orphans' = 0
  BY <1>3 DEF processRecordingStream, Said, Onward, Live
<1>7. /\ DOMAIN silent = Fields /\ silent.queue = {} /\ silent.cursor = 0
      /\ silent.skipped = {} /\ silent.playing = FALSE
  <2>1. DOMAIN player = Fields
    BY DEF player, Fields
  <2> QED BY <2>1 DEF silent, Fields
<1>9. Ordered(silent) /\ Waits(silent) /\ Covers(silent, {})
  BY <1>7, EmptyPlayer
<1>10. Playing' /\ Covers(player, {})'
  BY <1>9, Becoming DEF processRecordingStream, Playing
<1>11. Course'
  BY <1>5, <1>6, <1>10 DEF Course, OneFile
<1>12. Said'
  BY <1>3, <1>4, <1>6 DEF Said, Onward, Types, Live
<1>13. allChunksReceived' = FALSE /\ turnAborted' = FALSE /\ active' = active
  BY DEF processRecordingStream
<1>14. Received' /\ Reads'
  BY <1>4, <1>5, <1>13 DEF Received, Reads
<1> QED BY <1>4, <1>6, <1>10, <1>11, <1>12, <1>14 DEF Onward, Reachable, Awake

-----------------------------------------------------------------------------
(* What a stream says                                                        *)

LEMMA SpeakingOnward ==
  ASSUME Types, Promised, Onward, NEW t \in Turns, turn[t] = "open",
         NEW s \in SUBSET Int, NEW p, speaks(t, s, p), Ordered(p), Waits(p),
         LET G == given[t] \cup s
         IN IF G = OneFile THEN p.queue = {} ELSE G \subseteq Sentences /\ Covers(p, G)
  PROVE  Onward'
<1>1. Streams = {t}
  BY Reading DEF Live
<1>2. UNCHANGED <<active, orphans, isProcessing, turn, turnAborted, allChunksReceived, hole>>
      /\ becomes(p) /\ given' = [given EXCEPT ![t] = @ \cup s]
  BY DEF speaks, micVars, histories
<1>3. Streams' = {t} /\ turn' = turn
  BY <1>1, <1>2 DEF Streams
<1>4. \A u \in Turns : turn[u] = "open" => u = t
  BY <1>1 DEF Streams, Live
<1>5. Playing' /\ \A G : Covers(p, G) => Covers(player, G)'
  BY <1>2, Becoming DEF Playing
<1>6. given' \in [Turns -> SUBSET Int] /\ given'[t] = given[t] \cup s
      /\ \A u \in Turns : u # t => given'[u] = given[u]
  BY <1>2 DEF Onward, Said
<1>7. Course'
  <2>1. audioQueue' = p.queue
    BY <1>2 DEF becomes
  <2>2. given'[t] # OneFile => given'[t] \subseteq Sentences /\ Covers(p, given'[t])
    BY <1>6
  <2>3. given'[t] # OneFile => Covers(player', given'[t])
    <3>1. \A G : Covers(p, G) => Covers(player', G)
      BY <1>5
    <3> QED BY <2>2, <3>1
  <2>4. given'[t] = OneFile => audioQueue' = {}
    BY <1>6, <2>1
  <2> QED BY <1>3, <1>4, <2>2, <2>3, <2>4 DEF Course
<1>8. Said'
  BY <1>3, <1>6 DEF Onward, Said, Live
<1>9. Received' /\ Reads'
  BY <1>1, <1>2, <1>3 DEF Onward, Received, Reads
<1> QED BY <1>2, <1>3, <1>5, <1>7, <1>8, <1>9 DEF Onward, Reachable, Awake

\* The one file of an answer is played at once.
LEMMA OneFilePlays ==
  ASSUME NEW p, Ordered(p), Waits(p), Covers(p, {}), NEW t
  PROVE  LET r == tryPlayNextChunk([p EXCEPT !.queue = @ \cup {<<t, p.cursor>>}])
         IN Ordered(r) /\ Waits(r) /\ r.queue = {}
<1> DEFINE c == <<t, p.cursor>>
           q == [p EXCEPT !.queue = @ \cup {c}]
           r == tryPlayNextChunk(q)
           m == advancePastSkippedChunks(q)
<1>1. p.cursor = 0 /\ ~p.playing
  <2>1. Front(p) \in Nat /\ 0..(Front(p) - 1) = {}
    BY DEF Covers, Ordered, Front
  <2>2. Front(p) = 0
    <3>1. 0 \notin 0..(Front(p) - 1)
      BY <2>1
    <3> QED BY <2>1, <3>1
  <2> QED BY <2>2 DEF Front, Ordered
<1>2. p.queue = {} /\ p.skipped = {}
  BY DEF Covers, Ready, Ids
<1>3. c[2] = 0
  BY <1>1
<1>4. /\ DOMAIN q = Fields /\ q.cursor = 0 /\ q.playing = FALSE
      /\ q.skipped = {} /\ q.queue = {c}
  <2> HIDE DEF c
  <2>1. p.playing = FALSE
    BY <1>1 DEF Ordered
  <2> QED BY <1>1, <1>2, <2>1 DEF Ordered, Fields
<1> HIDE DEF c, q
<1>5. Front(q) = 0
  BY <1>4 DEF Front
<1>6. Ordered(q)
  <2>1. IsFiniteSet({})
    BY FS_EmptySet
  <2>2. \A d \in q.queue : d[2] \in Nat /\ d[2] >= Front(q) /\ d[2] \notin q.skipped
    BY <1>3, <1>4, <1>5
  <2>3. q.cursor \in Nat
    BY <1>4
  <2>4. q.skipped \in SUBSET Nat /\ IsFiniteSet(q.skipped)
    BY <1>4, <2>1
  <2>5. \A d, g \in q.queue : d[2] = g[2] => d = g
    BY <1>4
  <2>6. q.playing \in BOOLEAN
    BY <1>4, Zenon
  <2> QED BY <1>4, <2>2, <2>3, <2>4, <2>5, <2>6 DEF Ordered
<1>7. Ordered(r) /\ Waits(r)
  BY <1>4, <1>6, NextKeeps
<1>8. m = 0
  <2>1. m \in Nat /\ q.cursor..(m - 1) \subseteq q.skipped
    BY <1>4, FS_EmptySet, Advances
  <2> HIDE DEF m
  <2>2. 0 \notin 0..(m - 1)
    BY <1>4, <2>1
  <2> QED BY <2>1, <2>2
<1>9. r.queue = {}
  <2>1. \/ r.queue = q.queue /\ m \notin Ids(q.queue)
        \/ \E d \in q.queue : d[2] = m /\ r.queue = q.queue \ {d}
    BY <1>4, <1>6, TakesNext
  <2>2. m \in Ids(q.queue)
    BY <1>3, <1>4, <1>8 DEF Ids
  <2> HIDE DEF m, r
  <2> QED BY <1>4, <2>1, <2>2
<1> QED BY <1>7, <1>9 DEF q, c

LEMMA AudioOnward ==
  ASSUME Types, Promised, Onward, NEW t \in Turns, audio_url(t)
  PROVE  Onward'
<1>1. turn[t] = "open" /\ given[t] # OneFile /\ Ordered(player) /\ Waits(player)
  BY DEF audio_url, Onward, Playing
<1>2. given[t] \subseteq Sentences /\ Covers(player, given[t]) /\ Sentences \subseteq Nat
  BY <1>1, PageAssumption DEF Onward, Course, Sentences
<1>3. ASSUME NEW i \in Sentences \ given[t],
             speaks(t, {i}, tryPlayNextChunk([player EXCEPT !.queue = @ \cup {<<t, i>>}]))
      PROVE  Onward'
  <2> DEFINE r == tryPlayNextChunk([player EXCEPT !.queue = @ \cup {<<t, i>>}])
  <2>1. i \in Nat /\ i \notin given[t] /\ {i} \in SUBSET Int /\ given[t] \in SUBSET Int
    BY <1>2, <1>3
  <2>2. Ordered(r) /\ Waits(r) /\ Covers(r, given[t] \cup {i})
    <3> HIDE DEF player
    <3> QED BY <1>1, <1>2, <2>1, FileKeeps
  <2>3. given[t] \cup {i} # OneFile /\ given[t] \cup {i} \subseteq Sentences
    BY <1>2, <2>1 DEF OneFile
  <2> HIDE DEF r
  <2>4. speaks(t, {i}, r)
    BY <1>3 DEF r
  <2> QED BY <1>1, <2>1, <2>2, <2>3, <2>4, SpeakingOnward
<1>4. ASSUME given[t] = {},
             speaks(t, OneFile, tryPlayNextChunk([player EXCEPT !.queue = @ \cup {<<t, nextChunkId>>}]))
      PROVE  Onward'
  <2> DEFINE r == tryPlayNextChunk([player EXCEPT !.queue = @ \cup {<<t, nextChunkId>>}])
  <2>1. player.cursor = nextChunkId
    BY DEF player
  <2>2. Ordered(r) /\ Waits(r) /\ r.queue = {}
    <3> HIDE DEF player
    <3> QED BY <1>1, <1>2, <1>4, <2>1, OneFilePlays
  <2>3. OneFile \in SUBSET Int /\ given[t] \cup OneFile = OneFile
    BY <1>4 DEF OneFile
  <2> HIDE DEF r
  <2>4. speaks(t, OneFile, r)
    BY <1>4 DEF r
  <2> QED BY <1>1, <2>2, <2>3, <2>4, SpeakingOnward
<1> QED BY <1>3, <1>4 DEF audio_url

LEMMA SkipOnward ==
  ASSUME Types, Promised, Onward, NEW t \in Turns, chunk_error(t)
  PROVE  Onward'
<1> DEFINE p(i) == [player EXCEPT !.skipped = @ \cup {i}]
           q(i) == IF player.playing THEN p(i)
                   ELSE [p(i) EXCEPT !.cursor = advancePastSkippedChunks(p(i))]
<1>1. turn[t] = "open" /\ given[t] # OneFile /\ Ordered(player) /\ Waits(player)
  BY DEF chunk_error, Onward, Playing
<1>2. given[t] \subseteq Sentences /\ Covers(player, given[t]) /\ Sentences \subseteq Nat
  BY <1>1, PageAssumption DEF Onward, Course, Sentences
<1>3. PICK i \in Sentences \ given[t] : speaks(t, {i}, tryPlayNextChunk(q(i)))
  <2>1. \A i : p(i).playing = player.playing
    <3>1. "playing" \in DOMAIN player
      BY <1>1 DEF Ordered, Fields
    <3> HIDE DEF player
    <3> QED BY <3>1
  <2> QED BY <2>1 DEF chunk_error
<1>4. i \in Nat /\ i \notin given[t] /\ {i} \in SUBSET Int /\ given[t] \in SUBSET Int
  BY <1>2, <1>3
<1> DEFINE r == tryPlayNextChunk(q(i))
<1>5. Ordered(r) /\ Waits(r) /\ Covers(r, given[t] \cup {i})
  <2> HIDE DEF player
  <2> QED BY <1>1, <1>2, <1>4, FailureKeeps
<1>6. given[t] \cup {i} # OneFile /\ given[t] \cup {i} \subseteq Sentences
  BY <1>2, <1>4 DEF OneFile
<1> HIDE DEF q
<1>7. speaks(t, {i}, r)
  BY <1>3
<1> HIDE DEF r
<1> QED BY <1>1, <1>4, <1>5, <1>6, <1>7, SpeakingOnward

-----------------------------------------------------------------------------
(* The end of a stream                                                       *)

\* A stream that spoke of every sentence before one it spoke of leaves no gap.
LEMMA NoHoleNoGap ==
  ASSUME Types, Onward, NEW t \in Turns, turn[t] = "open",
         \A i \in given[t] : 0..i \subseteq given[t]
  PROVE  Gapless(player)
<1>1. CASE given[t] = OneFile
  <2>1. player.queue = {}
    BY <1>1 DEF Onward, Course, player
  <2> QED BY <2>1 DEF Gapless, Ids
<1>2. CASE given[t] # OneFile
  <2>1. Covers(player, given[t]) /\ Ordered(player)
    BY <1>2 DEF Onward, Course, Playing
  <2> HIDE DEF player
  <2> SUFFICES ASSUME NEW i \in Ids(player.queue), NEW j \in Front(player)..i
               PROVE  j \in Ready(player)
    BY DEF Gapless
  <2>2. i \in Nat /\ Front(player) \in Nat
    BY <2>1 DEF Ordered, Ids, Front
  <2>3. i \in given[t]
    BY <2>1 DEF Covers, Ready
  <2>4. j \in 0..i /\ j >= Front(player)
    BY <2>2
  <2> QED BY <2>1, <2>3, <2>4 DEF Covers
<1> QED BY <1>1, <1>2

\* A silent player of a queue without gaps has played all of it.
LEMMA SilentIsEmpty ==
  ASSUME NEW p, Ordered(p), Waits(p), Gapless(p), ~p.playing
  PROVE  p.queue = {}
<1> SUFFICES ASSUME NEW c \in p.queue PROVE FALSE
  OBVIOUS
<1>1. c[2] \in Ids(p.queue) /\ c[2] \in Nat /\ c[2] >= p.cursor /\ p.cursor \in Nat
      /\ Front(p) = p.cursor
  BY DEF Ids, Ordered, Front
<1>2. p.cursor \in Ready(p)
  BY <1>1 DEF Gapless
<1> QED BY <1>2 DEF Waits

LEMMA DoneOnward ==
  ASSUME Types, Promised, Onward, NEW t \in Turns, done(t)
  PROVE  Onward'
<1>1. turn[t] = "open" /\ turn' = [turn EXCEPT ![t] = "settled"] /\ allChunksReceived' = TRUE
  BY DEF done
<1>2. UNCHANGED <<active, orphans, isProcessing, given, turnAborted, queueVars>>
  BY DEF done
<1>3. Streams = {t}
  BY <1>1, Reading DEF Live
<1>4. \A u \in Turns : (Live(turn'[u]) <=> u = t) /\ (turn'[u] = "open" => FALSE)
                       /\ (turn'[u] = "settled" => u = t)
  BY <1>1, <1>3 DEF Streams, Live, Types
<1>5. Streams' = {t} /\ player' = player
  BY <1>2, <1>4 DEF Streams, player, queueVars
<1>6. ~turnAborted
  BY <1>1 DEF Onward, Reads
<1>7. Playing' /\ Course' /\ Said'
  BY <1>2, <1>3, <1>4, <1>5 DEF Onward, Playing, Course, Said, Streams
<1>8. Reachable'
  <2> SUFFICES ASSUME ~hole' PROVE Gapless(player)
    BY <1>5 DEF Reachable
  <2>1. \A i \in given[t] : 0..i \subseteq given[t]
    BY <1>1 DEF done, leaves_a_hole
  <2> QED BY <1>1, <2>1, NoHoleNoGap
<1>9. turn'[t] = "settled"
  BY <1>1 DEF Types
<1>10. Received' /\ Reads'
  BY <1>1, <1>2, <1>4, <1>5, <1>6, <1>9 DEF Received, Reads
<1> QED BY <1>2, <1>5, <1>7, <1>8, <1>10 DEF Onward, Awake

\* A stream is over, and nobody reads one: the page listens again, if nothing
\* sounds and the queue is played.
LEMMA OverOnward ==
  ASSUME Types, Promised, Onward, NEW t \in Turns, Live(turn[t]),
         finally(t, turn), hears_again(allChunksReceived'),
         UNCHANGED <<active, isRecording, orphans, stopping, queueVars>>,
         active => allChunksReceived', ~hole' => Gapless(player)
  PROVE  Onward'
<1>1. Mic = 0 /\ Streams = {t}
  BY Reading
<1>2. Streams' = {} /\ isProcessing' = FALSE /\ player' = player /\ sounding' = sounding
  BY FinallyEnds DEF finally, player, queueVars
<1>3. \A u \in Turns : ~Live(turn'[u])
  BY <1>2 DEF Streams
<1>4. Playing' /\ Course' /\ Reachable'
  BY <1>2, <1>3 DEF Onward, Playing, Course, Reachable, Live
<1>5. Said'
  <2>1. given' = [given EXCEPT ![t] = {}]
    BY DEF finally
  <2> QED BY <1>1, <1>3, <2>1 DEF Said, Onward, Streams
<1>6. Received' /\ Reads'
  BY <1>2, <1>3 DEF Received, Reads, Live, Promised, Ended
<1>7. ASSUME ~hole', active, sounding = {} PROVE opening' + stopping' > 0
  <2>1. ~player.playing /\ player.queue = audioQueue
    BY <1>7, PlayerTells DEF Promised, OnePlayer
  <2>2. Ordered(player) /\ Waits(player) /\ Gapless(player)
    BY <1>7 DEF Onward, Playing
  <2>3. player.queue = {}
    <3> HIDE DEF player
    <3> QED BY <2>1, <2>2, SilentIsEmpty
  <2>4. checkAllDone(player, allChunksReceived')
    BY <1>7, <2>1, <2>3 DEF checkAllDone
  <2>5. ~isRecording /\ opening = 0 /\ stopping = 0
    BY <1>1, MicCounted
  <2>6. opening' = opening + 1
    BY <1>7, <2>4, <2>5 DEF hears_again
  <2> QED BY <2>5, <2>6
<1>8. ~hole' => Awake'
  BY <1>2, <1>7 DEF Awake
<1> QED BY <1>4, <1>5, <1>6, <1>8 DEF Onward

LEMMA EofOnward ==
  ASSUME Types, Promised, Onward, NEW t \in Turns, eof(t)
  PROVE  Onward'
<1>1. Live(turn[t]) /\ turn[t] \in {"open", "settled"}
  BY DEF eof, Live
<1>2. /\ finally(t, turn) /\ hears_again(allChunksReceived') /\ leaves_a_hole(t)
      /\ UNCHANGED <<active, isRecording, orphans, stopping, queueVars>>
  BY DEF eof
<1>3. allChunksReceived'
  <2>1. CASE turn[t] = "open"
    BY <2>1 DEF eof
  <2>2. CASE turn[t] = "settled"
    BY <2>2 DEF eof, Onward, Received
  <2> QED BY <1>1, <2>1, <2>2
<1>4. ASSUME ~hole' PROVE Gapless(player)
  <2>1. CASE turn[t] = "open"
    BY <1>2, <1>4, <2>1, NoHoleNoGap DEF leaves_a_hole
  <2>2. CASE turn[t] = "settled"
    <3>1. \A u \in Turns : turn[u] # "open"
      BY <1>1, <2>2, Reading DEF Streams, Live
    <3> QED BY <1>2, <1>4, <3>1 DEF leaves_a_hole, Onward, Reachable
  <2> QED BY <1>1, <2>1, <2>2
<1> QED BY <1>1, <1>2, <1>3, <1>4, OverOnward

LEMMA AbortedOnward ==
  ASSUME Types, Promised, Onward, NEW t \in Turns, stream_aborted(t)
  PROVE  Onward'
<1>1. Live(turn[t]) /\ turnAborted
  BY DEF stream_aborted
<1>2. /\ finally(t, turn) /\ hears_again(allChunksReceived') /\ hole' = hole
      /\ UNCHANGED <<active, isRecording, orphans, stopping, queueVars>>
  BY DEF stream_aborted, histories
<1>3. turn[t] \notin {"open", "settled"} /\ Streams = {t}
  BY <1>1, Reading DEF Onward, Reads
<1>4. ~active
  BY <1>3 DEF Onward, Reads
<1>5. \A u \in Turns : turn[u] # "open"
  BY <1>3 DEF Streams, Live
<1>6. ~hole' => Gapless(player)
  BY <1>2, <1>5 DEF Onward, Reachable
<1> QED BY <1>1, <1>2, <1>4, <1>6, OverOnward

-----------------------------------------------------------------------------
(* The end of an element                                                     *)

\* The player has moved on: it plays, or the page listens if the turn is over.
LEMMA MovedOnward ==
  ASSUME Types, Types', Promised, Onward, sounding # {},
         NEW q, becomes(q), Ordered(q), Waits(q), Tells(q),
         audioQueue = {} => q.queue = {},
         \A t \in Turns : turn[t] = "open" =>
           \A G \in SUBSET Int : Covers(player, G) => Covers(q, G),
         Gapless(player) => Gapless(q),
         ~hole /\ Streams = {} /\ ~q.playing => opening' = opening + startListening,
         UNCHANGED <<active, isRecording, orphans, stopping, turnVars, allChunksReceived, hole>>
  PROVE  Onward'
<1>1. Streams' = Streams /\ turn' = turn /\ given' = given /\ audioQueue' = q.queue
      /\ turnAborted' = turnAborted /\ isProcessing' = isProcessing
  BY DEF Streams, turnVars, becomes
<1>2. /\ Playing' /\ (Gapless(q) => Gapless(player)')
      /\ \A G : Covers(q, G) => Covers(player', G)
  <2>1. \A G : Covers(q, G) => Covers(player, G)'
    BY Becoming
  <2> QED BY <2>1, Becoming DEF Playing
<1>3. Course'
  <2> SUFFICES ASSUME NEW t \in Turns, turn[t] = "open"
               PROVE  IF given[t] = OneFile THEN audioQueue' = {}
                      ELSE given[t] \subseteq Sentences /\ Covers(player', given[t])
    BY <1>1 DEF Course
  <2>1. given[t] \in SUBSET Int
    BY DEF Onward, Said
  <2> QED BY <1>1, <1>2, <2>1 DEF Onward, Course
<1>4. Reachable'
  BY <1>1, <1>2 DEF Onward, Reachable
<1>5. Said' /\ Received' /\ Reads'
  BY <1>1 DEF Onward, Said, Received, Reads
<1>6. ASSUME ~hole, active, Streams = {}, sounding' = {} PROVE opening' + stopping' > 0
  <2>1. ~q.playing
    BY <1>6 DEF becomes, Tells
  <2>2. Mic = 0 /\ ~isProcessing
    BY <1>6 DEF Promised, Silence, Onward, Reads
  <2>3. ~isRecording /\ opening = 0 /\ stopping = 0
    BY <2>2, MicCounted
  <2>4. opening' = 1
    BY <1>6, <2>1, <2>2, <2>3 DEF startListening
  <2> QED BY <2>3, <2>4
<1>7. ~hole' => Awake'
  BY <1>1, <1>6 DEF Awake
<1> QED BY <1>2, <1>3, <1>4, <1>5, <1>7 DEF Onward

LEMMA EndedOnward ==
  ASSUME Types, Types', Promised, Onward, NEW e, ended(e)
  PROVE  Onward'
<1> DEFINE r == [player EXCEPT !.sounding = @ \ {e}]
           p == abandonCurrentChunk(r)
<1>1. e \in sounding /\ becomes(p)
      /\ opening' = IF checkAllDone(p, allChunksReceived) THEN opening + startListening
                    ELSE opening
  BY DEF ended
<1>2. UNCHANGED <<active, isRecording, orphans, stopping, turnVars, allChunksReceived, hole>>
  BY DEF ended, histories
<1>3. Tells(p)
  BY <1>1, GivenUp
<1>4. player.playing /\ Ordered(player) /\ player.queue = audioQueue
  BY <1>1, PlayerTells DEF Promised, OnePlayer, Onward, Playing
<1>5. /\ Ordered(p) /\ Waits(p) /\ (Gapless(player) => Gapless(p))
      /\ \A G \in SUBSET Int : Covers(player, G) => Covers(p, G)
  <2> HIDE DEF player
  <2>1. r = [player EXCEPT !.sounding = player.sounding \ {e}]
    BY DEF r
  <2> HIDE DEF r
  <2> QED BY <1>4, <2>1, AbandonKeeps
<1>6. ASSUME audioQueue = {} PROVE p.queue = {}
  <2>1. DOMAIN r = Fields /\ r.queue = {}
    <3> HIDE DEF player
    <3> QED BY <1>4, <1>6 DEF Ordered, Fields
  <2> HIDE DEF r
  <2> QED BY <2>1, AbandonLast
<1> HIDE DEF p
<1>7. ASSUME ~hole, Streams = {}, ~p.playing PROVE opening' = opening + startListening
  <2>1. allChunksReceived /\ Gapless(player)
    BY <1>1, <1>7 DEF Onward, Received, Reachable, Streams, Live
  <2>2. p.queue = {}
    BY <1>5, <1>7, <2>1, SilentIsEmpty
  <2> QED BY <1>1, <1>7, <2>1, <2>2 DEF checkAllDone
<1> QED BY <1>1, <1>2, <1>3, <1>5, <1>6, <1>7, MovedOnward

LEMMA LoadFailedOnward ==
  ASSUME Types, Types', Promised, Onward, Calm', NEW e, load_failed(e)
  PROVE  Onward'
<1> DEFINE r == [player EXCEPT !.sounding = @ \ {e}]
           p == abandonCurrentChunk(r)
           q == abandonCurrentChunk(p)
<1>1. e \in sounding /\ becomes(q) /\ twice' = (twice \/ ~checkAllDone(p, allChunksReceived))
      /\ opening' = IF checkAllDone(p, allChunksReceived) \/ checkAllDone(q, allChunksReceived)
                    THEN opening + startListening ELSE opening
  BY DEF load_failed
<1>2. UNCHANGED <<active, isRecording, orphans, stopping, turnVars, allChunksReceived, hole>>
  BY DEF load_failed
<1>3. Tells(p)
  BY <1>1, GivenUp
<1>4. player.playing /\ Ordered(player)
  BY <1>1, PlayerTells DEF Promised, OnePlayer, Onward, Playing
<1>5. Ordered(p)
  <2> HIDE DEF player
  <2>1. r = [player EXCEPT !.sounding = player.sounding \ {e}]
    BY DEF r
  <2> HIDE DEF r
  <2> QED BY <1>4, <2>1, AbandonKeeps
<1> HIDE DEF p
<1>6. checkAllDone(p, allChunksReceived)
  BY <1>1 DEF Calm
<1>7. p.queue = {} /\ ~p.playing /\ p.sounding = {} /\ DOMAIN p = Fields /\ allChunksReceived
  BY <1>3, <1>6 DEF checkAllDone, Tells
<1>8. Ordered(q) /\ Waits(q) /\ q.queue = {} /\ Tells(q)
  BY <1>5, <1>7, AbandonIdle, AbandonTells
<1> HIDE DEF q
<1>9. Gapless(q)
  BY <1>8 DEF Gapless, Ids
<1>10. \A t \in Turns : turn[t] # "open"
  BY <1>7 DEF Onward, Received
<1>11. opening' = opening + startListening
  BY <1>1, <1>6
<1> QED BY <1>1, <1>2, <1>8, <1>9, <1>10, <1>11, MovedOnward

LEMMA NextOnward == IInv /\ (Calm => Onward) /\ [Next]_vars => (Calm => Onward)'
<1> SUFFICES ASSUME IInv, Calm => Onward, [Next]_vars, Calm' PROVE Onward'
  BY DEF Calm
<1>1. Types /\ Types' /\ Calm /\ Promised /\ Onward
  BY TypesStep, CalmBefore DEF IInv
<1>2. CASE Button
  BY <1>1, <1>2, ButtonAndBrowser, StopOnward DEF Button
<1>3. CASE Browser \/ stopRecording
  <2>1. ~nothing_recorded
    BY <1>1 DEF nothing_recorded, Calm
  <2> QED BY <1>1, <1>3, <2>1, ButtonAndBrowser, SendingOnward DEF Browser
<1>4. ASSUME NEW t \in Turns, Stream(t) PROVE Onward'
  BY <1>1, <1>4, AudioOnward, SkipOnward, DoneOnward, GoodbyeOnward, EofOnward, AbortedOnward,
     LostOnward DEF Stream
<1>5. CASE Sound
  BY <1>1, <1>5, EndedOnward, LoadFailedOnward DEF Sound
<1>6. CASE UNCHANGED vars
  <2>1. player' = player /\ Streams' = Streams
    BY <1>6 DEF vars, queueVars, turnVars, player, Streams
  <2> QED BY <1>1, <1>6, <2>1 DEF vars, micVars, turnVars, queueVars, histories, Onward, Playing,
          Course, Reachable, Said, Received, Reads, Awake
<1> QED BY <1>2, <1>3, <1>4, <1>5, <1>6 DEF Next

\* MicComesBack without its fairness: whatever the order of files, failures,
\* terminal events, refusals and ENDs, there is no state of a running interview
\* in which nothing is left to happen.  It records, the browser owes it a
\* recorder or a recording, a stream is read, or an element sounds.
THEOREM NeverStranded ==
  Spec => [](active /\ ~twice /\ ~hurried /\ ~hole =>
               isRecording \/ opening + stopping > 0 \/ Streams # {} \/ sounding # {})
<1>1. Init => (Calm => Onward)
  BY InitOnward
<1>2. IInv /\ (Calm => Onward) =>
        (active /\ ~twice /\ ~hurried /\ ~hole =>
           isRecording \/ opening + stopping > 0 \/ Streams # {} \/ sounding # {})
  BY DEF Calm, Onward, Awake
<1> QED BY <1>1, <1>2, NextOnward, PageInvariant, PTL DEF Spec
=============================================================================
