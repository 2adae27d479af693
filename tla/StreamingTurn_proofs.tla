------------------------ MODULE StreamingTurn_proofs ------------------------
(***************************************************************************)
(* Theorems about StreamingTurn, for any turns and any length of answer.   *)
(*                                                                         *)
(* The inductive invariant has one predicate for each concern of a turn.   *)
(* Its least obvious part is Room: that a sentence which is heard has an   *)
(* id at all needs a bound on the sentences in the queue, which a running  *)
(* count of them gives without recursion.                                  *)
(***************************************************************************)
EXTENDS StreamingTurn, SequenceTheorems, TLAPS

USE DEF Put, At, Goto, llmVars, loopVars, ttsVars, storeVars, clientVars

\* What the queue carries.
Kinds == {"token", "sentence", "done", "error"}

(***************************************************************************)
(* A queue holds at most n sentences: a running count of them says so.     *)
(***************************************************************************)
Running(q, c) ==
  /\ c \in [0..Len(q) -> Nat]
  /\ c[0] = 0
  /\ \A k \in 1..Len(q) : c[k] = c[k - 1] + (IF q[k] = "sentence" THEN 1 ELSE 0)
  /\ \A j, k \in 0..Len(q) : j <= k => c[j] <= c[k]

AtMost(q, n) == \E c \in [0..Len(q) -> Nat] : Running(q, c) /\ c[Len(q)] <= n

\* An empty queue holds none.
LEMMA NoneInEmpty ==
  ASSUME NEW n \in Nat
  PROVE  AtMost(<<>>, n)
<1> DEFINE c == [k \in 0..0 |-> 0]
<1>1. Running(<<>>, c) /\ c[Len(<<>>)] <= n
  BY DEF Running
<1>2. c \in [0..Len(<<>>) -> Nat]
  BY <1>1 DEF Running
<1> HIDE DEF c
<1> QED BY <1>1, <1>2 DEF AtMost

\* A looser bound is a bound.
LEMMA AtMostMore ==
  ASSUME NEW q \in Seq(Kinds), NEW n \in Int, NEW m \in Int, n <= m, AtMost(q, n)
  PROVE  AtMost(q, m)
<1>1. PICK c \in [0..Len(q) -> Nat] : Running(q, c) /\ c[Len(q)] <= n
  BY DEF AtMost
<1>2. c[Len(q)] \in Nat
  BY LenProperties
<1>3. c[Len(q)] <= m
  BY <1>1, <1>2
<1> QED BY <1>1, <1>3 DEF AtMost

\* What is put at the end counts if it is a sentence.
LEMMA AtMostPut ==
  ASSUME NEW q \in Seq(Kinds), NEW n \in Int, AtMost(q, n), NEW e \in Kinds
  PROVE  AtMost(q \o <<e>>, n + (IF e = "sentence" THEN 1 ELSE 0))
<1> DEFINE d == IF e = "sentence" THEN 1 ELSE 0
           r == q \o <<e>>
           l == Len(q)
<1>1. PICK c \in [0..l -> Nat] : Running(q, c) /\ c[l] <= n
  BY DEF AtMost
<1>2. l \in Nat /\ Len(r) = l + 1 /\ d \in Nat
  BY LenProperties
<1>3. \A k \in 1..l : r[k] = q[k]
  BY <1>2
<1>4. r[l + 1] = e
  BY <1>2
<1> HIDE DEF r, l
<1> DEFINE b == [k \in 0..(l + 1) |-> IF k <= l THEN c[k] ELSE c[l] + d]
<1>5. b \in [0..(l + 1) -> Nat]
  BY <1>1, <1>2
<1>6. b[0] = 0
  BY <1>1, <1>2 DEF Running, l
<1>7. b[l + 1] <= n + d
  BY <1>1, <1>2
<1>8. ASSUME NEW k \in 1..(l + 1)
      PROVE  b[k] = b[k - 1] + (IF r[k] = "sentence" THEN 1 ELSE 0)
  <2>1. CASE k <= l
    BY <2>1, <1>1, <1>2, <1>3 DEF Running, l
  <2>2. CASE k = l + 1
    BY <2>2, <1>2, <1>4
  <2> QED BY <2>1, <2>2, <1>2
<1>9. \A j, k \in 0..(l + 1) : j <= k => b[j] <= b[k]
  <2>1. \A j, k \in 0..l : j <= k => c[j] <= c[k]
    BY <1>1 DEF Running, l
  <2> QED BY <2>1, <1>1, <1>2
<1> HIDE DEF b, d
<1>10. AtMost(r, n + d)
  BY <1>2, <1>5, <1>6, <1>7, <1>8, <1>9 DEF AtMost, Running
<1> QED BY <1>10 DEF r, d

\* What is taken from the front does not count any more.
LEMMA AtMostTake ==
  ASSUME NEW q \in Seq(Kinds), NEW n \in Int, AtMost(q, n), q # <<>>
  PROVE  AtMost(Tail(q), n - (IF Head(q) = "sentence" THEN 1 ELSE 0))
<1> DEFINE d == IF Head(q) = "sentence" THEN 1 ELSE 0
           r == Tail(q)
           l == Len(q)
<1>1. PICK c \in [0..l -> Nat] : Running(q, c) /\ c[l] <= n
  BY DEF AtMost
<1>2. l \in Nat \ {0} /\ Len(r) = l - 1 /\ d \in 0..1
  BY LenProperties, HeadTailProperties, EmptySeq
<1>3. \A k \in 1..(l - 1) : r[k] = q[k + 1]
  BY <1>2
<1>4. q[1] = Head(q)
  BY <1>2
<1> HIDE DEF r, l
<1>5. c[1] = d
  BY <1>1, <1>2, <1>4 DEF Running, l
<1>6. \A j, k \in 0..l : j <= k => c[j] <= c[k]
  BY <1>1 DEF Running, l
<1> DEFINE b == [k \in 0..(l - 1) |-> c[k + 1] - d]
<1>7. \A k \in 1..l : c[k] >= d
  BY <1>1, <1>2, <1>5, <1>6
<1>8. b \in [0..(l - 1) -> Nat]
  BY <1>1, <1>2, <1>7
<1>9. b[0] = 0
  BY <1>2, <1>5
<1>10. b[l - 1] <= n - d
  BY <1>1, <1>2
<1>11. ASSUME NEW k \in 1..(l - 1)
      PROVE  b[k] = b[k - 1] + (IF r[k] = "sentence" THEN 1 ELSE 0)
  <2>1. k + 1 \in 1..l /\ (k + 1) - 1 = k /\ k - 1 \in 0..(l - 1) /\ (k - 1) + 1 = k
    BY <1>2
  <2>2. c[k + 1] = c[k] + (IF q[k + 1] = "sentence" THEN 1 ELSE 0)
    BY <1>1, <2>1 DEF Running, l
  <2>3. c[k] \in Nat /\ c[k + 1] \in Nat /\ d \in Nat
    BY <1>1, <1>2, <2>1
  <2>4. b[k] = c[k + 1] - d /\ b[k - 1] = c[k] - d
    BY <2>1
  <2>5. r[k] = q[k + 1]
    BY <1>3
  <2> QED BY <2>2, <2>3, <2>4, <2>5
<1>12. \A j, k \in 0..(l - 1) : j <= k => b[j] <= b[k]
  BY <1>1, <1>2, <1>6
<1> HIDE DEF b, d
<1>13. AtMost(r, n - d)
  BY <1>2, <1>8, <1>9, <1>10, <1>11, <1>12 DEF AtMost, Running
<1> QED BY <1>13 DEF r, d

\* Two values put at the end count one after the other.
LEMMA AtMostPutTwo ==
  ASSUME NEW q \in Seq(Kinds), NEW n \in Int, AtMost(q, n), NEW e \in Kinds, NEW f \in Kinds
  PROVE  AtMost(q \o <<e, f>>, n + (IF e = "sentence" THEN 1 ELSE 0)
                                 + (IF f = "sentence" THEN 1 ELSE 0))
<1> DEFINE d == IF e = "sentence" THEN 1 ELSE 0
<1>1. AtMost(q \o <<e>>, n + d)
  BY AtMostPut
<1>2. q \o <<e>> \in Seq(Kinds) /\ n + d \in Int
  OBVIOUS
<1> HIDE DEF d
<1>3. AtMost((q \o <<e>>) \o <<f>>, (n + d) + (IF f = "sentence" THEN 1 ELSE 0))
  BY <1>1, <1>2, AtMostPut
<1>4. (q \o <<e>>) \o <<f>> = q \o <<e, f>>
  <2> DEFINE s == (q \o <<e>>) \o <<f>>
             r == q \o <<e, f>>
  <2>1. q \o <<e>> \in Seq(Kinds) /\ <<e, f>> \in Seq(Kinds) /\ <<f>> \in Seq(Kinds)
    OBVIOUS
  <2>2. s \in Seq(Kinds) /\ r \in Seq(Kinds)
    BY <2>1
  <2>3. Len(s) = Len(r)
    BY <2>1
  <2>4. ASSUME NEW k \in 1..Len(s) PROVE s[k] = r[k]
    BY <2>1
  <2> HIDE DEF s, r
  <2>5. s = r
    BY <2>2, <2>3, <2>4, SeqEqual
  <2> QED BY <2>5 DEF s, r
<1> QED BY <1>3, <1>4 DEF d

\* There is no bound below zero.
LEMMA AtMostNat ==
  ASSUME NEW q \in Seq(Kinds), NEW n \in Int, AtMost(q, n)
  PROVE  n >= 0
<1>1. PICK c \in [0..Len(q) -> Nat] : c[Len(q)] <= n
  BY DEF AtMost
<1>2. c[Len(q)] \in Nat
  BY LenProperties
<1> QED BY <1>1, <1>2
-----------------------------------------------------------------------------
(* The inductive invariant, one predicate for each concern of a turn *)

Early == {"none", "staged", "stt", "transcribed", "reciting", "goodbye"}

\* The kinds of values, without the bounds of TypeOK: these need Room.
Sorts ==
  /\ stage \in [Turns -> Stages]
  /\ lost \subseteq Turns /\ temp \subseteq Turns /\ gone \in BOOLEAN
  /\ ending \in [Turns -> Seq(Events)]
  /\ llm \in [Turns -> {"off", "running", "ended"}] /\ llm_stop \subseteq Turns
  /\ tokens \in [Turns -> Nat] /\ next_id \in [Turns -> Nat]
  /\ buffered \subseteq Turns
  /\ queue \in [Turns -> Seq(Kinds)]
  /\ hearing \subseteq Turns
  /\ tts \in [Turns -> [Ids -> TaskStates]]
  /\ dispatched \in [Turns -> SUBSET Ids]
  /\ announced \in [Turns -> SUBSET Ids]
  /\ failed \in [Turns -> SUBSET Ids]
  /\ pre \in [Turns -> SUBSET Files] /\ files \subseteq Files
  /\ mark \subseteq Turns
  /\ write \in [Turns -> {"no", "pending", "committed", "nothing"}]

\* Sentences get their ids in the order of tokens.  The ids left to a turn are
\* the tokens that have none yet, without the one in the buffer; when the
\* thread has ended its count is gone and only the bound is known.
Left(t) ==
  IF llm[t] = "running" THEN tokens[t] - next_id[t] - (IF t \in buffered THEN 1 ELSE 0)
                        ELSE MaxTokens[t] - next_id[t]

\* There is one for every sentence in the queue.
Room(t) ==
  /\ tokens[t] <= MaxTokens[t]
  /\ llm[t] = "off" => queue[t] = <<>> /\ next_id[t] = 0 /\ tokens[t] = 0 /\ t \notin buffered
  /\ llm[t] # "off" => AtMost(queue[t], Left(t))

\* How far the turn has come, as far as the LLM and the store show it.
Course(t) ==
  /\ stage[t] \in Early \cup {"keeping", "parting", "reporting"} => llm[t] = "off"
  /\ stage[t] \in {"listening", "truncating", "storing"} => llm[t] # "off"
  /\ stage[t] \in Early \cup {"listening"} => write[t] = "no" /\ t \notin mark
  /\ stage[t] \in Storing \cup {"reporting"} => write[t] # "no"
  /\ stage[t] = "truncating" => t \in mark
  /\ t \in mark => llm[t] # "off" /\ write[t] # "no"
  /\ t \in llm_stop => stage[t] \in {"reaping", "closed"}
  /\ llm[t] = "off" =>
       /\ t \notin hearing /\ dispatched[t] = {} /\ announced[t] = {} /\ failed[t] = {}
       /\ \A i \in Ids : tts[t][i] = "none"

\* A stream has ended when it is torn down, unless its client left.
Ends(t) ==
  /\ Len(ending[t]) <= 1
  /\ stage[t] \notin {"reporting", "teardown", "reaping", "closed"} => ending[t] = <<>>
  /\ stage[t] = "reporting" => ending[t] # <<>>
  /\ stage[t] \in {"teardown", "reaping", "closed"} /\ t \notin lost => ending[t] # <<>>

Names(t) ==
  \A i \in DOMAIN ending[t] :
    /\ ending[t][i] \in {"done+", "done~", "interview_end+"} => write[t] = "committed"
    /\ ending[t][i] = "done+" => t \notin mark
    /\ ending[t][i] = "done~" => t \in mark

\* The thread's last word is the last in the queue, and the loop listens for it.
LastWord(t) ==
  /\ \A k \in 1..(Len(queue[t]) - 1) : queue[t][k] \notin {"done", "error"}
  /\ llm[t] = "running" => \A k \in 1..Len(queue[t]) : queue[t][k] \notin {"done", "error"}
  /\ stage[t] = "listening" /\ t \notin hearing => llm[t] = "ended" /\ queue[t] = <<>>

\* A task that left the dictionary was heard or has failed.
Tasks(t) ==
  /\ announced[t] \subseteq dispatched[t]
  /\ \A i \in Ids : tts[t][i] # "none" <=> i \in dispatched[t]
  /\ \A i \in Ids : tts[t][i] = "taken" => i \in announced[t] \cup failed[t]
  /\ \A i \in Ids : stage[t] = "listening" => tts[t][i] # "cancelled"

Whole(t) ==
  write[t] # "no" /\ llm[t] # "off" /\ t \notin mark =>
    /\ announced[t] = dispatched[t]
    /\ announced[t] # {} => failed[t] = {}
    /\ llm[t] = "ended" /\ t \notin hearing /\ queue[t] = <<>>

\* HeardIsKept, from the finally on.
Kept(t) ==
  stage[t] \in {"teardown", "reaping", "closed"} /\ t \notin lost /\ announced[t] # {} /\ ~gone
    => write[t] # "no"

\* Whose files there are, and what the finally leaves.
Tidy(t) ==
  /\ \A f \in files : f[1] = t => f[2] \in dispatched[t]
  /\ \A f \in pre[t] : f[1] # t
  /\ t \in llm_stop => \A i \in Ids : tts[t][i] \notin {"queued", "writing"}
  /\ stage[t] = "closed" /\ t \in llm_stop =>
       t \notin temp /\ {f \in files : f[1] = t} \subseteq FilesOf(t, announced[t])

IInv == Sorts /\ \A t \in Turns :
  /\ Room(t) /\ Course(t) /\ Ends(t) /\ Names(t) /\ LastWord(t) /\ Tasks(t) /\ Whole(t)
  /\ Kept(t) /\ Tidy(t)

\* Of a page that waits, at most one turn is under way, and what it found on
\* disk includes all that was announced before.
UnderWay(t) == stage[t] \notin {"none", "closed"}

Safe(t) ==
  /\ \A u \in Turns \ {t} : UnderWay(t) => ~UnderWay(u)
  /\ FilesOf(t, announced[t]) \subseteq files
  /\ \A i \in Ids :
       stage[t] = "listening" /\ tts[t][i] \in {"writing", "spoken"} => <<t, i>> \in files
  /\ UnderWay(t) /\ llm[t] # "off" =>
        \A u \in Turns \ {t} : FilesOf(u, announced[u]) \subseteq pre[t]

-----------------------------------------------------------------------------
(* What a step of the generator does to a stream that has not ended *)

Passes(t, s) == stage' = Put(stage, t, s) /\ UNCHANGED <<ending, write, mark>>

Finishes(t, s, e) ==
  stage' = Put(stage, t, s) /\ ending' = Put(ending, t, <<e>>) /\ UNCHANGED <<write, mark>>

Asks(t, s, incomplete) ==
  /\ stage' = Put(stage, t, s) /\ write' = Put(write, t, "pending") /\ UNCHANGED ending
  /\ mark' = IF incomplete THEN mark \cup {t} ELSE mark

\* What a stream that has not ended yields leaves no trace before a terminal event.
LEMMA Speaks ==
  ASSUME Sorts, NEW t \in Turns, ending[t] = <<>>
  PROVE  \A e \in Events \ Terminals : Yield(t, <<e>>) => ending' = ending
<1> SUFFICES ASSUME NEW e \in Events \ Terminals, Yield(t, <<e>>) PROVE ending' = ending
  OBVIOUS
<1>1. <<e>>[Len(<<e>>)] = e /\ Put(ending, t, <<>>) = ending
  BY DEF Sorts
<1> QED BY <1>1 DEF Yield

\* A stream that has not ended and yields a terminal event holds that one alone.
LEMMA Says ==
  ASSUME Sorts, NEW t \in Turns, ending[t] = <<>>
  PROVE  \A e \in Terminals, x \in Events, y \in Events :
           /\ Yield(t, <<e>>) => ending' = Put(ending, t, <<e>>)
           /\ Yield(t, <<x, e>>) => ending' = Put(ending, t, <<e>>)
           /\ Yield(t, <<x, y, e>>) => ending' = Put(ending, t, <<e>>)
<1> SUFFICES ASSUME NEW e \in Terminals, NEW x \in Events, NEW y \in Events
             PROVE  /\ Yield(t, <<e>>) => ending' = Put(ending, t, <<e>>)
                    /\ Yield(t, <<x, e>>) => ending' = Put(ending, t, <<e>>)
                    /\ Yield(t, <<x, y, e>>) => ending' = Put(ending, t, <<e>>)
  OBVIOUS
<1>1. <<e>>[Len(<<e>>)] = e /\ <<x, e>>[Len(<<x, e>>)] = e /\ <<x, y, e>>[Len(<<x, y, e>>)] = e
  OBVIOUS
<1> QED BY <1>1 DEF Yield

\* The recogniser is done: the transcription goes out or the stream ends with `done`.
LEMMA TranscribeEffect ==
  ASSUME Sorts, NEW t \in Turns, Ends(t), transcribe(t)
  PROVE  /\ stage[t] = "stt"
         /\ \/ Passes(t, "transcribed")
            \/ Finishes(t, "teardown", "done")
<1>1. ending[t] = <<>> /\ stage[t] = "stt"
  BY DEF transcribe, Ends
<1>2. Yield(t, <<"error", "done">>) => ending' = Put(ending, t, <<"done">>)
  BY <1>1, Says DEF Events, Terminals
<1>3. Yield(t, <<"transcription">>) => ending' = ending
  BY <1>1, Speaks DEF Events, Terminals
<1> QED BY <1>1, <1>2, <1>3 DEF transcribe, Terminate, Unexpected, Passes, Finishes, Asks

\* A farewell and a cached answer go on to be spoken; silence and failure end the stream.
LEMMA AnswerSourceEffect ==
  ASSUME Sorts, NEW t \in Turns, Ends(t), answer_source(t)
  PROVE  /\ stage[t] = "transcribed"
         /\ \/ Passes(t, "goodbye")
            \/ Passes(t, "reciting")
            \/ Finishes(t, "teardown", "done")
<1>1. ending[t] = <<>> /\ stage[t] = "transcribed"
  BY DEF answer_source, Ends
<1>2. Yield(t, <<"error", "done">>) => ending' = Put(ending, t, <<"done">>)
  BY <1>1, Says DEF Events, Terminals
<1>3. Yield(t, <<"token">>) => ending' = ending
  BY <1>1, Speaks DEF Events, Terminals
<1> QED BY <1>1, <1>2, <1>3 DEF answer_source, Terminate, Unexpected, Passes, Finishes, Asks

\* A recital is handed to the store, or the stream ends with `done`.
LEMMA ReciteEffect ==
  ASSUME Sorts, NEW t \in Turns, Ends(t), recite(t)
  PROVE  /\ stage[t] = "reciting"
         /\ \/ Asks(t, "keeping", FALSE)
            \/ Finishes(t, "teardown", "done")
<1>1. ending[t] = <<>> /\ stage[t] = "reciting"
  BY DEF recite, Ends
<1>2. Yield(t, <<"error", "done">>) => ending' = Put(ending, t, <<"done">>)
  BY <1>1, Says DEF Events, Terminals
<1> QED BY <1>1, <1>2 DEF recite, Terminate, Unexpected, persist, Passes, Finishes, Asks

\* A recital is `done`, by its number if it was stored.
LEMMA KeepCachedEffect ==
  ASSUME Sorts, NEW t \in Turns, Ends(t), keep_cached(t)
  PROVE  /\ stage[t] = "keeping"
         /\ \/ Stored(t) /\ Finishes(t, "teardown", "done+")
            \/ Finishes(t, "teardown", "done")
<1>1. ending[t] = <<>> /\ stage[t] = "keeping"
  BY DEF keep_cached, Ends
<1> QED BY <1>1, Says, Speaks DEF keep_cached, Terminate, Unexpected, Stored, Nothing,
      Evicted, Events, Terminals, Passes, Finishes, Asks

\* A farewell is handed to the store, or the stream ends with `done`.
LEMMA SayGoodbyeEffect ==
  ASSUME Sorts, NEW t \in Turns, Ends(t), say_goodbye(t)
  PROVE  /\ stage[t] = "goodbye"
         /\ \/ Asks(t, "parting", FALSE)
            \/ Finishes(t, "teardown", "done")
<1>1. ending[t] = <<>> /\ stage[t] = "goodbye"
  BY DEF say_goodbye, Ends
<1>2. Yield(t, <<"audio_url", "error", "done">>) => ending' = Put(ending, t, <<"done">>)
  BY <1>1, Says DEF Events, Terminals
<1>3. Yield(t, <<"error", "error", "done">>) => ending' = Put(ending, t, <<"done">>)
  BY <1>1, Says DEF Events, Terminals
<1>4. Yield(t, <<"audio_url">>) => ending' = ending
  BY <1>1, Speaks DEF Events, Terminals
<1>5. Yield(t, <<"error">>) => ending' = ending
  BY <1>1, Speaks DEF Events, Terminals
<1> QED BY <1>1, <1>2, <1>3, <1>4, <1>5 DEF say_goodbye, Terminate, Unexpected, persist,
      Passes, Finishes, Asks

\* The interview ends, with the number of the farewell if it was stored.
LEMMA InterviewEndEffect ==
  ASSUME Sorts, NEW t \in Turns, Ends(t), interview_end(t)
  PROVE  /\ stage[t] = "parting"
         /\ \/ Stored(t) /\ Finishes(t, "reporting", "interview_end+")
            \/ Finishes(t, "reporting", "interview_end")
<1>1. ending[t] = <<>> /\ stage[t] = "parting"
  BY DEF interview_end, Ends
<1> QED BY <1>1, Says, Speaks DEF interview_end, Terminate, Unexpected, Stored, Events,
      Terminals, Passes, Finishes, Asks

\* A provider that died leaves a truncated turn if anything was heard of it.
LEMMA OnErrorEffect ==
  ASSUME Sorts, NEW t \in Turns, Ends(t), on_error(t)
  PROVE  /\ stage[t] = "listening"
         /\ \/ announced[t] # {} /\ Asks(t, "truncating", TRUE)
            \/ (announced[t] = {} \/ gone) /\ Finishes(t, "teardown", "done")
<1>1. ending[t] = <<>> /\ stage[t] = "listening"
  BY DEF on_error, Ends, Heard
<1> QED BY <1>1, Says, Speaks DEF on_error, Terminate, Unexpected, persist, Heard, Events,
      Terminals, Passes, Finishes, Asks

\* The stream of a truncated turn is `done`, by its number if it was stored.
LEMMA TruncatedEffect ==
  ASSUME Sorts, NEW t \in Turns, Ends(t), truncated(t)
  PROVE  /\ stage[t] = "truncating"
         /\ \/ Stored(t) /\ Finishes(t, "teardown", "done~")
            \/ Finishes(t, "teardown", "done")
<1>1. ending[t] = <<>> /\ stage[t] = "truncating"
  BY DEF truncated, Ends
<1> QED BY <1>1, Says, Speaks DEF truncated, Terminate, Unexpected, Stored, Events,
      Terminals, Passes, Finishes, Asks

\* An answer is stored unless it was asked for and none of it was heard.
LEMMA ConcludeEffect ==
  ASSUME Sorts, NEW t \in Turns, Ends(t), conclude(t)
  PROVE  /\ stage[t] = "listening"
         /\ \/ (announced[t] = {} \/ gone) /\ Finishes(t, "teardown", "done")
            \/ /\ dispatched[t] = {} \/ announced[t] # {}
               /\ Asks(t, "storing", announced[t] # {} /\ failed[t] # {})
<1>1. ending[t] = <<>> /\ stage[t] = "listening"
  BY DEF conclude, Ends
<1>2. Yield(t, <<"error", "done">>) => ending' = Put(ending, t, <<"done">>)
  BY <1>1, Says DEF Events, Terminals
<1>3. CASE dispatched[t] # {} /\ announced[t] = {}
  <2>1. Terminate(t, <<"error", "done">>) /\ UNCHANGED storeVars
    BY <1>3 DEF conclude
  <2>2. Finishes(t, "teardown", "done")
    BY <1>2, <2>1 DEF Terminate, Finishes
  <2> QED BY <1>1, <1>3, <2>2
<1>4. CASE ~(dispatched[t] # {} /\ announced[t] = {})
  <2>1. CASE gone /\ Unexpected(t) /\ UNCHANGED storeVars
    <3>1. Finishes(t, "teardown", "done")
      BY <1>2, <2>1 DEF Unexpected, Terminate, Finishes
    <3> QED BY <1>1, <2>1, <3>1
  <2>2. CASE /\ persist(t, "storing", announced[t] # {} /\ failed[t] # {})
             /\ UNCHANGED ending
    <3> DEFINE b == announced[t] # {} /\ failed[t] # {}
    <3>1. Asks(t, "storing", b)
      BY <2>2 DEF persist, Asks
    <3> QED BY <1>1, <1>4, <3>1
  <2> QED BY <1>4, <2>1, <2>2 DEF conclude
<1> QED BY <1>3, <1>4

\* The stream of an answer is `done`, by its number if it was stored.
LEMMA AnsweredEffect ==
  ASSUME Sorts, NEW t \in Turns, Ends(t), answered(t)
  PROVE  /\ stage[t] = "storing"
         /\ \/ Stored(t) /\ t \in mark /\ Finishes(t, "teardown", "done~")
            \/ Stored(t) /\ t \notin mark /\ Finishes(t, "teardown", "done+")
            \/ Finishes(t, "teardown", "done")
<1>1. ending[t] = <<>> /\ stage[t] = "storing"
  BY DEF answered, Ends
<1> QED BY <1>1, Says, Speaks DEF answered, Terminate, Unexpected, Stored, Nothing, Evicted,
      Events, Terminals, Passes, Finishes, Asks

\* The steps at which a stream tells how it goes on, or hands its turn over.
Telling(t) ==
  \/ transcribe(t) \/ answer_source(t) \/ recite(t) \/ keep_cached(t) \/ say_goodbye(t)
  \/ interview_end(t) \/ on_error(t) \/ truncated(t) \/ conclude(t) \/ answered(t)

\* What they have in common: no synthesis, no file and no client is touched.
Moved(t) ==
  /\ stage[t] \notin {"none", "staged", "teardown", "reaping", "closed"}
  /\ \E s \in Stages \ {"none", "staged", "stt", "listening", "reaping", "closed"} :
       stage' = Put(stage, t, s)
  /\ ending' = ending \/ \E e \in Events : ending' = Put(ending, t, <<e>>)
  /\ write' = write \/ write' = Put(write, t, "pending")
  /\ mark' = mark \/ mark' = mark \cup {t}
  /\ queue' = queue \/ (queue[t] # <<>> /\ queue' = Put(queue, t, Tail(queue[t])))
  /\ UNCHANGED <<clientVars, llm, llm_stop, tokens, buffered, loopVars, ttsVars>>

\* Each of them is such a move.
LEMMA Moves ==
  ASSUME Sorts, \A u \in Turns : Ends(u), NEW t \in Turns, Telling(t)
  PROVE  Moved(t)
<1> DEFINE Spoken(s) ==
      /\ s \in Stages \ {"none", "staged", "stt", "listening", "reaping", "closed"}
      /\ \/ Passes(t, s)
         \/ \E e \in Events : Finishes(t, s, e)
         \/ Asks(t, s, TRUE) \/ Asks(t, s, FALSE)
<1>1. ASSUME NEW s, Spoken(s),
             stage[t] \notin {"none", "staged", "teardown", "reaping", "closed"},
             queue' = queue \/ (queue[t] # <<>> /\ queue' = Put(queue, t, Tail(queue[t]))),
             UNCHANGED <<clientVars, llm, llm_stop, tokens, buffered, loopVars, ttsVars>>
      PROVE  Moved(t)
  BY <1>1 DEF Moved, Passes, Finishes, Asks
<1>2. CASE transcribe(t)
  <2>1. /\ stage[t] \notin {"none", "staged", "teardown", "reaping", "closed"}
        /\ \E s \in Stages : Spoken(s)
    BY <1>2, TranscribeEffect DEF Stages, Events, Terminals
  <2>2. UNCHANGED <<clientVars, llm, llm_stop, tokens, buffered, loopVars, ttsVars>>
    BY <1>2 DEF transcribe
  <2>3. queue' = queue
    BY <1>2 DEF transcribe
  <2> QED BY <2>1, <2>2, <2>3, <1>1
<1>3. CASE answer_source(t)
  <2>1. /\ stage[t] \notin {"none", "staged", "teardown", "reaping", "closed"}
        /\ \E s \in Stages : Spoken(s)
    BY <1>3, AnswerSourceEffect DEF Stages, Events, Terminals
  <2>2. UNCHANGED <<clientVars, llm, llm_stop, tokens, buffered, loopVars, ttsVars>>
    BY <1>3 DEF answer_source
  <2>3. queue' = queue
    BY <1>3 DEF answer_source
  <2> QED BY <2>1, <2>2, <2>3, <1>1
<1>4. CASE recite(t)
  <2>1. /\ stage[t] \notin {"none", "staged", "teardown", "reaping", "closed"}
        /\ \E s \in Stages : Spoken(s)
    BY <1>4, ReciteEffect DEF Stages, Events, Terminals
  <2>2. UNCHANGED <<clientVars, llm, llm_stop, tokens, buffered, loopVars, ttsVars>>
    BY <1>4 DEF recite
  <2>3. queue' = queue
    BY <1>4 DEF recite
  <2> QED BY <2>1, <2>2, <2>3, <1>1
<1>5. CASE keep_cached(t)
  <2>1. /\ stage[t] \notin {"none", "staged", "teardown", "reaping", "closed"}
        /\ \E s \in Stages : Spoken(s)
    BY <1>5, KeepCachedEffect DEF Stages, Events, Terminals
  <2>2. UNCHANGED <<clientVars, llm, llm_stop, tokens, buffered, loopVars, ttsVars>>
    BY <1>5 DEF keep_cached
  <2>3. queue' = queue
    BY <1>5 DEF keep_cached
  <2> QED BY <2>1, <2>2, <2>3, <1>1
<1>6. CASE say_goodbye(t)
  <2>1. /\ stage[t] \notin {"none", "staged", "teardown", "reaping", "closed"}
        /\ \E s \in Stages : Spoken(s)
    BY <1>6, SayGoodbyeEffect DEF Stages, Events, Terminals
  <2>2. UNCHANGED <<clientVars, llm, llm_stop, tokens, buffered, loopVars, ttsVars>>
    BY <1>6 DEF say_goodbye
  <2>3. queue' = queue
    BY <1>6 DEF say_goodbye
  <2> QED BY <2>1, <2>2, <2>3, <1>1
<1>7. CASE interview_end(t)
  <2>1. /\ stage[t] \notin {"none", "staged", "teardown", "reaping", "closed"}
        /\ \E s \in Stages : Spoken(s)
    BY <1>7, InterviewEndEffect DEF Stages, Events, Terminals
  <2>2. UNCHANGED <<clientVars, llm, llm_stop, tokens, buffered, loopVars, ttsVars>>
    BY <1>7 DEF interview_end
  <2>3. queue' = queue
    BY <1>7 DEF interview_end
  <2> QED BY <2>1, <2>2, <2>3, <1>1
<1>8. CASE on_error(t)
  <2>1. /\ stage[t] \notin {"none", "staged", "teardown", "reaping", "closed"}
        /\ \E s \in Stages : Spoken(s)
    BY <1>8, OnErrorEffect DEF Stages, Events, Terminals
  <2>2. UNCHANGED <<clientVars, llm, llm_stop, tokens, buffered, loopVars, ttsVars>>
    BY <1>8 DEF on_error, Heard, hears_unchanged
  <2>3. queue[t] # <<>> /\ queue' = Put(queue, t, Tail(queue[t]))
    BY <1>8 DEF on_error, Heard
  <2> QED BY <2>1, <2>2, <2>3, <1>1
<1>9. CASE truncated(t)
  <2>1. /\ stage[t] \notin {"none", "staged", "teardown", "reaping", "closed"}
        /\ \E s \in Stages : Spoken(s)
    BY <1>9, TruncatedEffect DEF Stages, Events, Terminals
  <2>2. UNCHANGED <<clientVars, llm, llm_stop, tokens, buffered, loopVars, ttsVars>>
    BY <1>9 DEF truncated
  <2>3. queue' = queue
    BY <1>9 DEF truncated
  <2> QED BY <2>1, <2>2, <2>3, <1>1
<1>10. CASE conclude(t)
  <2>1. /\ stage[t] \notin {"none", "staged", "teardown", "reaping", "closed"}
        /\ \E s \in Stages : Spoken(s)
    BY <1>10, ConcludeEffect DEF Stages, Events, Terminals, Passes, Asks
  <2>2. UNCHANGED <<clientVars, llm, llm_stop, tokens, buffered, loopVars, ttsVars>>
    BY <1>10 DEF conclude
  <2>3. queue' = queue
    BY <1>10 DEF conclude
  <2> QED BY <2>1, <2>2, <2>3, <1>1
<1>11. CASE answered(t)
  <2>1. /\ stage[t] \notin {"none", "staged", "teardown", "reaping", "closed"}
        /\ \E s \in Stages : Spoken(s)
    BY <1>11, AnsweredEffect DEF Stages, Events, Terminals
  <2>2. UNCHANGED <<clientVars, llm, llm_stop, tokens, buffered, loopVars, ttsVars>>
    BY <1>11 DEF answered
  <2>3. queue' = queue
    BY <1>11 DEF answered
  <2> QED BY <2>1, <2>2, <2>3, <1>1
<1> QED BY <1>2, <1>3, <1>4, <1>5, <1>6, <1>7, <1>8, <1>9, <1>10, <1>11 DEF Telling

\* What is left is a number, and covers the queue.
LEMMA LeftType ==
  ASSUME Sorts, NEW t \in Turns
  PROVE  Left(t) \in Int /\ MaxTokens[t] \in Nat /\ queue[t] \in Seq(Kinds)
BY TurnAssumption DEF Sorts, Left

\* An id is never missing, and none is above the bound.
LEMMA LeftNat ==
  ASSUME Sorts, NEW t \in Turns, Room(t)
  PROVE  Left(t) >= 0 /\ next_id[t] <= MaxTokens[t]
<1>1. CASE llm[t] = "off"
  BY <1>1, LeftType DEF Room, Left
<1>2. CASE llm[t] # "off"
  <2>1. Left(t) >= 0
    BY <1>2, LeftType, AtMostNat DEF Room
  <2>2. tokens[t] \in Nat /\ next_id[t] \in Nat /\ tokens[t] <= MaxTokens[t]
    BY DEF Sorts, Room
  <2> QED BY <2>1, <2>2, LeftType DEF Left
<1> QED BY <1>1, <1>2

\* A sentence that is heard has an id.
LEMMA SentenceHasId ==
  ASSUME Sorts, NEW t \in Turns, Room(t), queue[t] # <<>>, Head(queue[t]) = "sentence"
  PROVE  next_id[t] \in Ids
<1>1. llm[t] # "off" /\ AtMost(queue[t], Left(t))
  BY DEF Room
<1>2. AtMost(Tail(queue[t]), Left(t) - 1)
  BY <1>1, LeftType, AtMostTake
<1>3. Tail(queue[t]) \in Seq(Kinds) /\ Left(t) - 1 \in Int
  BY LeftType, HeadTailProperties
<1>4. Left(t) - 1 >= 0
  BY <1>2, <1>3, AtMostNat
<1>5. next_id[t] \in Nat /\ tokens[t] \in Nat /\ tokens[t] <= MaxTokens[t]
  BY DEF Sorts, Room
<1>6. next_id[t] \in 0..(MaxTokens[t] - 1)
  BY <1>4, <1>5, LeftType DEF Left
<1> QED BY <1>6 DEF Ids

\* What the loop hears leaves the queue, a sentence with or without its id.
LEMMA HearsRoom ==
  ASSUME Sorts, NEW t \in Turns, Room(t), queue[t] # <<>>,
         queue'[t] = Tail(queue[t]), UNCHANGED <<tokens, buffered, llm>>,
         \/ next_id'[t] = next_id[t]
         \/ Head(queue[t]) = "sentence" /\ next_id'[t] = next_id[t] + 1
  PROVE  Room(t)'
<1>0. PICK d \in {0, 1} : /\ d = 1 => Head(queue[t]) = "sentence"
                          /\ next_id'[t] = next_id[t] + d
  BY DEF Sorts
<1>1. llm[t] # "off" /\ AtMost(queue[t], Left(t))
  BY DEF Room
<1>2. AtMost(Tail(queue[t]), Left(t) - (IF Head(queue[t]) = "sentence" THEN 1 ELSE 0))
  BY <1>1, LeftType, AtMostTake
<1>3. Left(t)' = Left(t) - d
  <2>1. tokens[t] \in Nat /\ next_id[t] \in Nat /\ MaxTokens[t] \in Nat /\ d \in Int
    BY <1>0, LeftType DEF Sorts
  <2>2. Left(t)' = IF llm[t] = "running"
                   THEN tokens[t] - next_id'[t] - (IF t \in buffered THEN 1 ELSE 0)
                   ELSE MaxTokens[t] - next_id'[t]
    BY DEF Left
  <2>3. next_id'[t] = next_id[t] + d /\ next_id'[t] \in Int
    BY <1>0, <2>1
  <2> DEFINE b == IF t \in buffered THEN 1 ELSE 0
  <2>4. b \in Int
    OBVIOUS
  <2> HIDE DEF b
  <2>5. CASE llm[t] = "running"
    <3>1. Left(t)' = tokens[t] - next_id'[t] - b /\ Left(t) = tokens[t] - next_id[t] - b
      BY <2>2, <2>5 DEF Left, b
    <3> QED BY <2>1, <2>3, <2>4, <3>1
  <2>6. CASE llm[t] # "running"
    <3>1. Left(t)' = MaxTokens[t] - next_id'[t] /\ Left(t) = MaxTokens[t] - next_id[t]
      BY <2>2, <2>6 DEF Left
    <3> QED BY <2>1, <2>3, <3>1
  <2> QED BY <2>5, <2>6
<1>4. Tail(queue[t]) \in Seq(Kinds) /\ Left(t) \in Int
  BY LeftType, HeadTailProperties
<1>5. AtMost(Tail(queue[t]), Left(t) - d)
  <2> DEFINE k == IF Head(queue[t]) = "sentence" THEN 1 ELSE 0
  <2>1. k \in Int /\ d \in Int /\ d <= k
    BY <1>0
  <2>2. AtMost(Tail(queue[t]), Left(t) - k)
    BY <1>2
  <2> HIDE DEF k
  <2>3. Left(t) - k \in Int /\ Left(t) - d \in Int /\ Left(t) - k <= Left(t) - d
    BY <1>4, <2>1
  <2> QED BY <1>4, <2>2, <2>3, AtMostMore
<1> QED BY <1>1, <1>3, <1>5 DEF Room

\* A stream that closes gives its ids back.
LEMMA ClosesRoom ==
  ASSUME Sorts, NEW t \in Turns, Room(t), queue'[t] = <<>>, next_id'[t] = 0,
         UNCHANGED <<tokens, buffered, llm>>
  PROVE  Room(t)'
<1>1. next_id[t] \in Nat /\ Left(t)' = Left(t) + next_id[t]
  BY LeftType DEF Left, Sorts
<1>2. Left(t)' \in Nat
  BY <1>1, LeftType, LeftNat
<1> QED BY <1>2, NoneInEmpty DEF Room

\* What the thread puts into the queue has room there.
LEMMA SpeaksRoom ==
  ASSUME Sorts, NEW t \in Turns, Room(t), llm[t] # "off",
         NEW n \in Int, Left(t) <= n, NEW e \in Kinds,
         e = "sentence" => Left(t) + 1 <= n
  PROVE  /\ AtMost(queue[t], n)
         /\ AtMost(queue[t] \o <<e>>, n)
         /\ \A f \in {"token", "done"} : /\ AtMost(queue[t] \o <<e, f>>, n)
                                         /\ AtMost(queue[t] \o <<f, e>>, n)
<1> DEFINE d == IF e = "sentence" THEN 1 ELSE 0
<1>1. AtMost(queue[t], Left(t)) /\ queue[t] \in Seq(Kinds) /\ Left(t) \in Int
  BY LeftType DEF Room
<1>2. Left(t) + d <= n /\ Left(t) + d \in Int
  BY <1>1
<1>3. AtMost(queue[t], n)
  BY <1>1, AtMostMore
<1>4. AtMost(queue[t] \o <<e>>, Left(t) + d)
  BY <1>1, AtMostPut
<1>5. ASSUME NEW f \in {"token", "done"}
      PROVE  AtMost(queue[t] \o <<e, f>>, Left(t) + d) /\ AtMost(queue[t] \o <<f, e>>,
      Left(t) + d)
  <2>1. f \in Kinds /\ f # "sentence"
    BY DEF Kinds
  <2>2. AtMost(queue[t] \o <<e, f>>, Left(t) + d + 0)
    BY <1>1, <2>1, AtMostPutTwo
  <2>3. AtMost(queue[t] \o <<f, e>>, Left(t) + 0 + d)
    BY <1>1, <2>1, AtMostPutTwo
  <2>4. Left(t) + d + 0 = Left(t) + d /\ Left(t) + 0 + d = Left(t) + d
    BY <1>1
  <2> QED BY <2>2, <2>3, <2>4
<1> HIDE DEF d
<1>6. \A q \in Seq(Kinds) : AtMost(q, Left(t) + d) => AtMost(q, n)
  BY <1>2, AtMostMore
<1>7. /\ queue[t] \o <<e>> \in Seq(Kinds)
      /\ \A f \in {"token", "done"} : /\ queue[t] \o <<e, f>> \in Seq(Kinds)
                                      /\ queue[t] \o <<f, e>> \in Seq(Kinds)
  BY <1>1 DEF Kinds
<1> QED BY <1>3, <1>4, <1>5, <1>6, <1>7

\* A turn whose queue and counts stay as they are keeps its room.
LEMMA SameRoom ==
  ASSUME NEW t \in Turns, Room(t), tokens'[t] = tokens[t], llm'[t] = llm[t],
         queue'[t] = queue[t], next_id'[t] = next_id[t], t \in buffered' <=> t \in buffered
  PROVE  Room(t)'
<1>1. Left(t)' = Left(t)
  BY DEF Left
<1> QED BY <1>1 DEF Room

\* Each step keeps the kinds of values.
LEMMA SortsStep ==
  ASSUME Sorts, \A u \in Turns : Room(u), \A u \in Turns : Ends(u), [Next]_vars
  PROVE  Sorts'
<1>1. ASSUME UNCHANGED <<stage, lost, temp, gone, ending, llm, llm_stop, tokens, next_id,
                         buffered, queue, hearing, tts, dispatched, announced, failed, pre,
                         files, mark, write>> PROVE Sorts'
  BY <1>1 DEF Sorts, Stages, Events, Kinds, TaskStates, Terminals
<1>2. ASSUME NEW t \in Turns, Telling(t) PROVE Sorts'
  <2>1. Moved(t)
    BY <1>2, Moves
  <2>2. stage' \in [Turns -> Stages]
    BY <2>1 DEF Moved, Sorts
  <2>3. ending' \in [Turns -> Seq(Events)]
    <3>1. ending \in [Turns -> Seq(Events)] /\ \A e \in Events : <<e>> \in Seq(Events)
      BY DEF Sorts
    <3> QED BY <2>1, <3>1 DEF Moved
  <2>4. write' \in [Turns -> {"no", "pending", "committed", "nothing"}] /\ mark' \subseteq Turns
    BY <2>1 DEF Moved, Sorts
  <2>5. queue' \in [Turns -> Seq(Kinds)]
    <3>1. queue \in [Turns -> Seq(Kinds)] /\ (queue[t] # <<>> => Tail(queue[t]) \in Seq(Kinds))
      BY HeadTailProperties DEF Sorts
    <3> QED BY <2>1, <3>1 DEF Moved
  <2> QED BY <2>1, <2>2, <2>3, <2>4, <2>5 DEF Moved, Sorts
<1>3. ASSUME NEW t \in Turns, send_message_stream(t) PROVE Sorts'
  BY <1>3 DEF send_message_stream, Sorts, Stages, Events, Kinds, TaskStates, Terminals
<1>4. ASSUME NEW t \in Turns, begin(t) PROVE Sorts'
  BY <1>4 DEF begin, Sorts, Stages, Events, Kinds, TaskStates, Terminals
<1>5. ASSUME NEW t \in Turns, ask_llm(t) PROVE Sorts'
  BY <1>5 DEF ask_llm, Sorts, Stages, Events, Kinds, TaskStates, Terminals
<1>6. ASSUME NEW t \in Turns, report(t) PROVE Sorts'
  BY <1>6 DEF report, Sorts, Stages, Events, Kinds, TaskStates, Terminals
<1>7. ASSUME NEW t \in Turns, record_turn(t) PROVE Sorts'
  BY <1>7 DEF record_turn, Sorts, Stages, Events, Kinds, TaskStates, Terminals
<1>8. ASSUME NEW t \in Turns, llm_token(t) PROVE Sorts'
  <2>1. UNCHANGED <<stage, ending, clientVars, loopVars, ttsVars, storeVars, llm_stop>>
    BY <1>8 DEF llm_token, llm_unchanged
  <2>2. /\ llm' \in [Turns -> {"off", "running", "ended"}]
        /\ tokens' \in [Turns -> Nat]
        /\ buffered' \subseteq Turns
    <3>1. \/ llm' = llm
          \/ llm' = [llm EXCEPT ![t] = "ended"]
      BY <1>8 DEF llm_token, thread_ends
    <3>2. \/ tokens' = [tokens EXCEPT ![t] = tokens[t] + 1]
          \/ tokens' = [tokens EXCEPT ![t] = 0]
      BY <1>8 DEF llm_token, thread_ends
    <3>3. buffered' \subseteq buffered \cup {t}
      BY <1>8, Zenon DEF llm_token, thread_ends
    <3>4. llm' \in [Turns -> {"off", "running", "ended"}]
      BY <3>1 DEF Sorts
    <3>5. tokens' \in [Turns -> Nat]
      <4>1. tokens \in [Turns -> Nat] /\ tokens[t] + 1 \in Nat
        BY DEF Sorts
      <4> QED BY <3>2, <4>1
    <3>6. buffered' \subseteq Turns
      BY <3>3 DEF Sorts
    <3> QED BY <3>4, <3>5, <3>6
  <2>3. \/ queue' = queue
        \/ queue' = [queue EXCEPT ![t] = queue[t] \o <<"token">>]
        \/ queue' = [queue EXCEPT ![t] = queue[t] \o <<"token", "sentence">>]
    BY <1>8 DEF llm_token, Enqueue
  <2>4. \A q \in Seq(Kinds) : \A x,
        y \in Kinds : q \o <<x>> \in Seq(Kinds) /\ q \o <<x, y>> \in Seq(Kinds)
    OBVIOUS
  <2>5. queue' \in [Turns -> Seq(Kinds)]
    <3>1. queue[t] \in Seq(Kinds) /\ {"token", "sentence", "done"} \subseteq Kinds
      BY DEF Sorts, Kinds
    <3>2. PICK q \in Seq(Kinds) : queue' = queue \/ queue' = [queue EXCEPT ![t] = q]
      BY <2>3, <2>4, <3>1
    <3> QED BY <3>2 DEF Sorts
  <2> QED BY <2>1, <2>2, <2>5 DEF Sorts
<1>9. ASSUME NEW t \in Turns, llm_flush(t) PROVE Sorts'
  <2>1. UNCHANGED <<stage, ending, clientVars, loopVars, ttsVars, storeVars, llm_stop>>
    BY <1>9 DEF llm_flush, llm_unchanged
  <2>2. /\ llm' \in [Turns -> {"off", "running", "ended"}]
        /\ tokens' \in [Turns -> Nat]
        /\ buffered' \subseteq Turns
    <3>1. \/ llm' = llm
          \/ llm' = [llm EXCEPT ![t] = "ended"]
      BY <1>9 DEF llm_flush, thread_ends
    <3>2. \/ tokens' = [tokens EXCEPT ![t] = tokens[t] + 1]
          \/ tokens' = [tokens EXCEPT ![t] = 0]
      BY <1>9 DEF llm_flush, thread_ends
    <3>3. buffered' \subseteq buffered \cup {t}
      BY <1>9, Zenon DEF llm_flush, thread_ends
    <3>4. llm' \in [Turns -> {"off", "running", "ended"}]
      BY <3>1 DEF Sorts
    <3>5. tokens' \in [Turns -> Nat]
      <4>1. tokens \in [Turns -> Nat] /\ tokens[t] + 1 \in Nat
        BY DEF Sorts
      <4> QED BY <3>2, <4>1
    <3>6. buffered' \subseteq Turns
      BY <3>3 DEF Sorts
    <3> QED BY <3>4, <3>5, <3>6
  <2>3. \/ queue' = queue
        \/ queue' = [queue EXCEPT ![t] = queue[t] \o <<"done">>]
        \/ queue' = [queue EXCEPT ![t] = queue[t] \o <<"sentence", "done">>]
    BY <1>9 DEF llm_flush, Enqueue
  <2>4. \A q \in Seq(Kinds) : \A x,
        y \in Kinds : q \o <<x>> \in Seq(Kinds) /\ q \o <<x, y>> \in Seq(Kinds)
    OBVIOUS
  <2>5. queue' \in [Turns -> Seq(Kinds)]
    <3>1. queue[t] \in Seq(Kinds) /\ {"token", "sentence", "done"} \subseteq Kinds
      BY DEF Sorts, Kinds
    <3>2. PICK q \in Seq(Kinds) : queue' = queue \/ queue' = [queue EXCEPT ![t] = q]
      BY <2>3, <2>4, <3>1
    <3> QED BY <3>2 DEF Sorts
  <2> QED BY <2>1, <2>2, <2>5 DEF Sorts
<1>10. ASSUME NEW t \in Turns, llm_fails(t) PROVE Sorts'
  BY <1>10 DEF llm_fails, Enqueue, thread_ends, llm_unchanged, Sorts, Stages, Events,
     Kinds, TaskStates, Terminals
<1>11. ASSUME NEW t \in Turns, NEW i \in Ids, tts_starts(t, i) PROVE Sorts'
  <2>1. UNCHANGED <<stage, ending, clientVars, llmVars, loopVars, storeVars, dispatched,
                    announced, failed, pre>>
    BY <1>11 DEF tts_starts, task_unchanged
  <2>2. PICK s \in {"writing", "failed"} : tts' = [tts EXCEPT ![t] = [tts[t] EXCEPT ![i] = s]]
    BY <1>11 DEF tts_starts, SetTask
  <2>3. files' \subseteq Files
    BY <1>11 DEF tts_starts, Sorts, Files
  <2> QED BY <2>1, <2>2, <2>3 DEF Sorts, TaskStates
<1>12. ASSUME NEW t \in Turns, NEW i \in Ids, tts_ends(t, i) PROVE Sorts'
  BY <1>12 DEF tts_ends, SetTask, task_unchanged, Sorts, Stages, Events, Kinds,
     TaskStates, Terminals
<1>13. ASSUME NEW t \in Turns, on_token(t) PROVE Sorts'
  <2>1. stage[t] = "listening"
    BY <1>13 DEF on_token, Heard
  <2>2. Yield(t, <<"token">>) => ending' = ending
    BY <2>1, Speaks DEF Ends, Events, Terminals
  <2>3. queue' = [queue EXCEPT ![t] = Tail(queue[t])] /\ queue[t] # <<>>
    BY <1>13 DEF on_token, Heard
  <2>4. UNCHANGED <<ending, stage, clientVars, llm, llm_stop, tokens, buffered, loopVars,
                    ttsVars, storeVars>>
    BY <1>13, <2>2 DEF on_token, hears_unchanged
  <2> QED BY <2>3, <2>4 DEF Sorts, Stages, Events, Kinds, TaskStates, Terminals
<1>14. ASSUME NEW t \in Turns, on_sentence(t) PROVE Sorts'
  <2>1. stage[t] = "listening"
    BY <1>14 DEF on_sentence, Heard
  <2>2. Yield(t, <<"error(id)">>) => ending' = ending
    BY <2>1, Speaks DEF Ends, Events, Terminals
  <2>3. queue' = [queue EXCEPT ![t] = Tail(queue[t])] /\ queue[t] # <<>>
    BY <1>14 DEF on_sentence, Heard
  <2>4. UNCHANGED <<ending, stage, clientVars, llm, llm_stop, tokens, buffered, hearing,
                    announced, pre, files, storeVars>>
    BY <1>14, <2>2 DEF on_sentence, hears_unchanged
  <2>5. PICK i \in Ids : i = next_id[t]
    BY <1>14, SentenceHasId DEF on_sentence, Heard
  <2>6. \/ tts' = tts
        \/ tts' = [tts EXCEPT ![t] = [tts[t] EXCEPT ![i] = "queued"]]
    BY <1>14, <2>5 DEF on_sentence, SetTask
  <2>7. /\ \/ dispatched' = dispatched
           \/ dispatched' = [dispatched EXCEPT ![t] = dispatched[t] \cup {i}]
        /\ \/ failed' = failed
           \/ failed' = [failed EXCEPT ![t] = failed[t] \cup {i}]
        /\ \/ next_id' = next_id
           \/ next_id' = [next_id EXCEPT ![t] = next_id[t] + 1]
    BY <1>14, <2>5 DEF on_sentence
  <2>8. tts' \in [Turns -> [Ids -> TaskStates]]
    <3>1. tts \in [Turns -> [Ids -> TaskStates]] /\ "queued" \in TaskStates
      BY DEF Sorts, TaskStates
    <3>2. [tts[t] EXCEPT ![i] = "queued"] \in [Ids -> TaskStates]
      BY <3>1
    <3> QED BY <2>6, <3>1, <3>2
  <2>9. dispatched' \in [Turns -> SUBSET Ids]
    <3>1. dispatched \in [Turns -> SUBSET Ids] /\ dispatched[t] \cup {i} \in SUBSET Ids
      BY DEF Sorts
    <3> QED BY <2>7, <3>1
  <2>10. failed' \in [Turns -> SUBSET Ids]
    <3>1. failed \in [Turns -> SUBSET Ids] /\ failed[t] \cup {i} \in SUBSET Ids
      BY DEF Sorts
    <3> QED BY <2>7, <3>1
  <2>11. next_id' \in [Turns -> Nat]
    <3>1. next_id \in [Turns -> Nat] /\ next_id[t] + 1 \in Nat
      BY DEF Sorts
    <3> QED BY <2>7, <3>1
  <2>12. queue' \in [Turns -> Seq(Kinds)]
    BY <2>3, HeadTailProperties DEF Sorts
  <2> QED BY <2>4, <2>8, <2>9, <2>10, <2>11, <2>12 DEF Sorts
<1>15. ASSUME NEW t \in Turns, on_done(t) PROVE Sorts'
  BY <1>15 DEF on_done, Heard, hears_unchanged, Sorts, Stages, Events, Kinds, TaskStates,
     Terminals
<1>16. ASSUME NEW t \in Turns, NEW i \in Ids, announce(t, i) PROVE Sorts'
  <2>1. stage[t] = "listening"
    BY <1>16 DEF announce, Heard
  <2>2. Yield(t, <<"audio_url">>) => ending' = ending
    BY <2>1, Speaks DEF Ends, Events, Terminals
  <2>3. UNCHANGED <<ending, stage, clientVars, llmVars, loopVars, dispatched, failed, pre,
                    files, storeVars>>
    BY <1>16, <2>2 DEF announce
  <2>4. /\ tts' = [tts EXCEPT ![t] = [tts[t] EXCEPT ![i] = "taken"]]
        /\ announced' = [announced EXCEPT ![t] = announced[t] \cup {i}]
    BY <1>16 DEF announce, SetTask
  <2> QED BY <2>3, <2>4 DEF Sorts, Stages, Events, Kinds, TaskStates, Terminals
<1>17. ASSUME NEW t \in Turns, NEW i \in Ids, skip_chunk(t, i) PROVE Sorts'
  <2>1. stage[t] = "listening"
    BY <1>17 DEF skip_chunk, Heard
  <2>2. Yield(t, <<"error(id)">>) => ending' = ending
    BY <2>1, Speaks DEF Ends, Events, Terminals
  <2>3. UNCHANGED <<ending, stage, clientVars, llmVars, loopVars, dispatched, announced, pre,
                    files, storeVars>>
    BY <1>17, <2>2 DEF skip_chunk
  <2>4. /\ tts' = [tts EXCEPT ![t] = [tts[t] EXCEPT ![i] = "taken"]]
        /\ failed' = [failed EXCEPT ![t] = failed[t] \cup {i}]
    BY <1>17 DEF skip_chunk, SetTask
  <2> QED BY <2>3, <2>4 DEF Sorts, Stages, Events, Kinds, TaskStates, Terminals
<1>18. ASSUME NEW t \in Turns, teardown(t) PROVE Sorts'
  <2>1. UNCHANGED <<ending, lost, gone, llm, tokens, buffered, dispatched, announced, failed,
                    pre, storeVars>>
    BY <1>18 DEF teardown
  <2>2. tts' \in [Turns -> [Ids -> TaskStates]] /\ llm_stop' \subseteq Turns
    BY <1>18 DEF teardown, Sorts, TaskStates
  <2>3. CASE stage' = [stage EXCEPT ![t] = "reaping"] /\ UNCHANGED <<temp, files, queue,
                                                                     loopVars>>
    BY <2>1, <2>2, <2>3 DEF Sorts, Stages
  <2>4. CASE close(t)
    <3>1. stage' \in [Turns -> Stages] /\ files' \subseteq Files /\ temp' \subseteq Turns
      BY <2>4 DEF close, sweep, Sorts, Stages
    <3>2. /\ queue' \in [Turns -> Seq(Kinds)] /\ hearing' \subseteq Turns
          /\ next_id' \in [Turns -> Nat]
      BY <2>4 DEF close, Sorts
    <3> QED BY <2>1, <2>2, <3>1, <3>2 DEF Sorts
  <2> QED BY <1>18, <2>3, <2>4 DEF teardown
<1>19. ASSUME NEW t \in Turns, reap(t) PROVE Sorts'
  BY <1>19 DEF reap, close, sweep, Outstanding, Sorts, Stages, Events, Kinds, TaskStates,
     Terminals
<1>20. ASSUME NEW t \in Turns, drop(t) PROVE Sorts'
  BY <1>20 DEF drop, Sorts, Stages, Events, Kinds, TaskStates, Terminals
<1>21. ASSUME NEW t \in Turns, disconnect(t) PROVE Sorts'
  BY <1>21 DEF disconnect, Sorts, Stages, Events, Kinds, TaskStates, Terminals
<1>22. ASSUME evict PROVE Sorts'
  BY <1>22 DEF evict, Sorts, Stages, Events, Kinds, TaskStates, Terminals
<1>23. CASE UNCHANGED vars
  BY <1>23, <1>1 DEF vars
<1> QED BY <1>2, <1>3, <1>4, <1>5, <1>6, <1>7, <1>8, <1>9, <1>10, <1>11, <1>12, <1>13, <1>14,
   <1>15, <1>16, <1>17, <1>18, <1>19, <1>20, <1>21, <1>22, <1>23 DEF Next, Generator,
   LLMThread, Synthesis, Rest, Telling

\* Each step leaves room for the sentences to come.
LEMMA RoomStep ==
  ASSUME Sorts, \A u \in Turns : Room(u), \A u \in Turns : Course(u), [Next]_vars
  PROVE  \A u \in Turns : Room(u)'
<1>1. ASSUME UNCHANGED <<tokens, llm, queue, next_id, buffered>> PROVE \A u \in Turns : Room(u)'
  BY <1>1, SameRoom DEF Sorts, Room
<1>2. ASSUME NEW t \in Turns, ask_llm(t) PROVE \A u \in Turns : Room(u)'
  <2>1. \A u \in Turns \ {t} : /\ tokens'[u] = tokens[u] /\ llm'[u] = llm[u]
                              /\ queue'[u] = queue[u] /\ next_id'[u] = next_id[u]
                              /\ (u \in buffered' <=> u \in buffered)
    BY <1>2 DEF ask_llm, Sorts
  <2>2. ASSUME NEW u \in Turns \ {t} PROVE Room(u)'
    BY <2>1, SameRoom
  <2>3. llm[t] = "off" /\ llm'[t] = "running"
    BY <1>2 DEF ask_llm, Course, Early, Sorts
  <2>4. queue[t] = <<>> /\ next_id[t] = 0 /\ tokens[t] = 0 /\ t \notin buffered
    BY <2>3 DEF Room
  <2>5. UNCHANGED <<queue, next_id, tokens, buffered>>
    BY <1>2 DEF ask_llm
  <2>6. Left(t)' = 0 /\ AtMost(queue'[t], 0)
    BY <2>3, <2>4, <2>5, NoneInEmpty DEF Left
  <2>7. Room(t)'
    BY <2>3, <2>4, <2>5, <2>6, LeftType DEF Room
  <2> QED BY <2>2, <2>7
<1>3. ASSUME NEW t \in Turns, llm_token(t) PROVE \A u \in Turns : Room(u)'
  <2>1. \A u \in Turns \ {t} : /\ tokens'[u] = tokens[u] /\ llm'[u] = llm[u]
                              /\ queue'[u] = queue[u] /\ next_id'[u] = next_id[u]
                              /\ (u \in buffered' <=> u \in buffered)
    BY <1>3 DEF llm_token, Enqueue, thread_ends, llm_unchanged, Sorts
  <2>2. ASSUME NEW u \in Turns \ {t} PROVE Room(u)'
    BY <2>1, SameRoom
  <2>3. llm[t] = "running" /\ tokens[t] < MaxTokens[t] /\ next_id' = next_id
    BY <1>3 DEF llm_token, llm_unchanged
  <2>4. CASE thread_ends(t) /\ UNCHANGED queue
    <3>1. llm'[t] = "ended" /\ tokens'[t] = 0 /\ queue'[t] = queue[t]
      BY <2>4 DEF thread_ends, Sorts
    <3>2. Left(t)' \in Int /\ Left(t) <= Left(t)'
      BY <2>3, <3>1, LeftType DEF Left, Sorts
    <3>3. AtMost(queue[t], Left(t)')
      BY <2>3, <3>2, SpeaksRoom DEF Kinds
    <3>4. Room(t)'
      BY <3>1, <3>3, LeftType DEF Room
    <3> QED BY <2>2, <3>4
  <2>5. CASE /\ tokens' = [tokens EXCEPT ![t] = tokens[t] + 1] /\ llm' = llm
             /\ \/ Enqueue(t, <<"token">>) /\ buffered' = buffered \cup {t}
                \/ Enqueue(t, <<"token", "sentence">>) /\ buffered' = buffered \ {t}
    <3>1. tokens'[t] = tokens[t] + 1 /\ tokens'[t] <= MaxTokens[t]
      BY <2>3, <2>5, LeftType DEF Sorts
    <3>2. Left(t)' \in Int /\ Left(t) <= Left(t)'
      BY <2>3, <2>5, <3>1, LeftType DEF Left, Sorts
    <3>3. \/ queue'[t] = queue[t]
          \/ queue'[t] = queue[t] \o <<"token">>
          \/ t \notin buffered' /\ queue'[t] = queue[t] \o <<"token", "sentence">>
      BY <2>5 DEF Enqueue, Sorts
    <3>4. ASSUME queue'[t] = queue[t] \/ queue'[t] = queue[t] \o <<"token">>
          PROVE  AtMost(queue'[t], Left(t)')
      BY <2>3, <3>2, <3>4, SpeaksRoom DEF Kinds
    <3>5. ASSUME t \notin buffered', queue'[t] = queue[t] \o <<"token", "sentence">>
          PROVE  AtMost(queue'[t], Left(t)')
      <4>1. Left(t) + 1 <= Left(t)'
        BY <2>3, <2>5, <3>1, <3>5, LeftType DEF Left, Sorts
      <4> QED BY <2>3, <3>2, <3>5, <4>1, SpeaksRoom DEF Kinds
    <3>6. AtMost(queue'[t], Left(t)')
      BY <3>3, <3>4, <3>5
    <3>7. Room(t)'
      BY <2>3, <2>5, <3>1, <3>6, LeftType DEF Room
    <3> QED BY <2>2, <3>7
  <2> QED BY <1>3, <2>4, <2>5 DEF llm_token
<1>4. ASSUME NEW t \in Turns, llm_flush(t) PROVE \A u \in Turns : Room(u)'
  <2>1. \A u \in Turns \ {t} : /\ tokens'[u] = tokens[u] /\ llm'[u] = llm[u]
                              /\ queue'[u] = queue[u] /\ next_id'[u] = next_id[u]
                              /\ (u \in buffered' <=> u \in buffered)
    BY <1>4 DEF llm_flush, Enqueue, thread_ends, llm_unchanged, Sorts
  <2>2. ASSUME NEW u \in Turns \ {t} PROVE Room(u)'
    BY <2>1, SameRoom
  <2>3. llm[t] = "running" /\ llm'[t] = "ended" /\ tokens'[t] = 0 /\ next_id' = next_id
    BY <1>4 DEF llm_flush, thread_ends, llm_unchanged, Sorts
  <2>4. Left(t)' = MaxTokens[t] - next_id[t]
    BY <2>3 DEF Left
  <2>5. /\ Left(t)' \in Int /\ Left(t) <= Left(t)'
        /\ t \in buffered => Left(t) + 1 <= Left(t)'
    BY <2>3, <2>4, LeftType DEF Left, Room, Sorts
  <2>6. \/ queue'[t] = queue[t]
        \/ queue'[t] = queue[t] \o <<"done">>
        \/ t \in buffered /\ queue'[t] = queue[t] \o <<"sentence", "done">>
    BY <1>4 DEF llm_flush, Enqueue, Sorts
  <2>7. ASSUME queue'[t] = queue[t] \/ queue'[t] = queue[t] \o <<"done">>
        PROVE  AtMost(queue'[t], Left(t)')
    BY <2>3, <2>5, <2>7, SpeaksRoom DEF Kinds
  <2>8. ASSUME t \in buffered, queue'[t] = queue[t] \o <<"sentence", "done">>
        PROVE  AtMost(queue'[t], Left(t)')
    BY <2>3, <2>5, <2>8, SpeaksRoom DEF Kinds
  <2>9. AtMost(queue'[t], Left(t)')
    BY <2>6, <2>7, <2>8
  <2>10. Room(t)'
    BY <2>3, <2>9, LeftType DEF Room
  <2> QED BY <2>2, <2>10
<1>5. ASSUME NEW t \in Turns, llm_fails(t) PROVE \A u \in Turns : Room(u)'
  <2>1. \A u \in Turns \ {t} : /\ tokens'[u] = tokens[u] /\ llm'[u] = llm[u]
                              /\ queue'[u] = queue[u] /\ next_id'[u] = next_id[u]
                              /\ (u \in buffered' <=> u \in buffered)
    BY <1>5 DEF llm_fails, Enqueue, thread_ends, llm_unchanged, Sorts
  <2>2. ASSUME NEW u \in Turns \ {t} PROVE Room(u)'
    BY <2>1, SameRoom
  <2>3. llm[t] = "running" /\ llm'[t] = "ended" /\ tokens'[t] = 0 /\ next_id' = next_id
    BY <1>5 DEF llm_fails, thread_ends, llm_unchanged, Sorts
  <2>4. Left(t)' = MaxTokens[t] - next_id[t]
    BY <2>3 DEF Left
  <2>5. /\ Left(t)' \in Int /\ Left(t) <= Left(t)'
        /\ t \in buffered => Left(t) + 1 <= Left(t)'
    BY <2>3, <2>4, LeftType DEF Left, Room, Sorts
  <2>6. queue'[t] = queue[t] \/ queue'[t] = queue[t] \o <<"error">>
    BY <1>5 DEF llm_fails, Enqueue, Sorts
  <2>7. AtMost(queue'[t], Left(t)')
    BY <2>3, <2>5, <2>6, SpeaksRoom DEF Kinds
  <2>8. Room(t)'
    BY <2>3, <2>7, LeftType DEF Room
  <2> QED BY <2>2, <2>8
<1>6. ASSUME NEW t \in Turns, on_token(t) PROVE \A u \in Turns : Room(u)'
  <2>1. \A u \in Turns \ {t} : /\ tokens'[u] = tokens[u] /\ llm'[u] = llm[u]
                              /\ queue'[u] = queue[u] /\ next_id'[u] = next_id[u]
                              /\ (u \in buffered' <=> u \in buffered)
    BY <1>6 DEF on_token, Heard, hears_unchanged, Sorts
  <2>2. ASSUME NEW u \in Turns \ {t} PROVE Room(u)'
    BY <2>1, SameRoom
  <2>3. /\ queue[t] # <<>> /\ queue' = [queue EXCEPT ![t] = Tail(queue[t])]
        /\ UNCHANGED <<next_id, tokens, buffered, llm>>
    BY <1>6 DEF on_token, Heard, hears_unchanged
  <2>4. queue'[t] = Tail(queue[t]) /\ next_id'[t] = next_id[t]
    BY <2>3 DEF Sorts
  <2>5. Room(t)'
    BY <2>3, <2>4, HearsRoom
  <2> QED BY <2>2, <2>5
<1>7. ASSUME NEW t \in Turns, on_sentence(t) PROVE \A u \in Turns : Room(u)'
  <2>1. \A u \in Turns \ {t} : /\ tokens'[u] = tokens[u] /\ llm'[u] = llm[u]
                              /\ queue'[u] = queue[u] /\ next_id'[u] = next_id[u]
                              /\ (u \in buffered' <=> u \in buffered)
    BY <1>7 DEF on_sentence, Heard, hears_unchanged, Sorts
  <2>2. ASSUME NEW u \in Turns \ {t} PROVE Room(u)'
    BY <2>1, SameRoom
  <2>3. /\ queue[t] # <<>> /\ Head(queue[t]) = "sentence"
        /\ queue' = [queue EXCEPT ![t] = Tail(queue[t])]
        /\ UNCHANGED <<tokens, buffered, llm>>
    BY <1>7 DEF on_sentence, Heard, hears_unchanged
  <2>4. next_id' = next_id \/ next_id' = [next_id EXCEPT ![t] = next_id[t] + 1]
    BY <1>7 DEF on_sentence
  <2>5. queue'[t] = Tail(queue[t]) /\ next_id'[t] \in {next_id[t], next_id[t] + 1}
    BY <2>3, <2>4 DEF Sorts
  <2>6. Room(t)'
    BY <2>3, <2>5, HearsRoom
  <2> QED BY <2>2, <2>6
<1>8. ASSUME NEW t \in Turns, on_done(t) PROVE \A u \in Turns : Room(u)'
  <2>1. \A u \in Turns \ {t} : /\ tokens'[u] = tokens[u] /\ llm'[u] = llm[u]
                              /\ queue'[u] = queue[u] /\ next_id'[u] = next_id[u]
                              /\ (u \in buffered' <=> u \in buffered)
    BY <1>8 DEF on_done, Heard, hears_unchanged, Sorts
  <2>2. ASSUME NEW u \in Turns \ {t} PROVE Room(u)'
    BY <2>1, SameRoom
  <2>3. /\ queue[t] # <<>> /\ queue' = [queue EXCEPT ![t] = Tail(queue[t])]
        /\ UNCHANGED <<next_id, tokens, buffered, llm>>
    BY <1>8 DEF on_done, Heard, hears_unchanged
  <2>4. queue'[t] = Tail(queue[t]) /\ next_id'[t] = next_id[t]
    BY <2>3 DEF Sorts
  <2>5. Room(t)'
    BY <2>3, <2>4, HearsRoom
  <2> QED BY <2>2, <2>5
<1>9. ASSUME NEW t \in Turns, on_error(t) PROVE \A u \in Turns : Room(u)'
  <2>1. \A u \in Turns \ {t} : /\ tokens'[u] = tokens[u] /\ llm'[u] = llm[u]
                              /\ queue'[u] = queue[u] /\ next_id'[u] = next_id[u]
                              /\ (u \in buffered' <=> u \in buffered)
    BY <1>9 DEF on_error, Heard, hears_unchanged, Sorts
  <2>2. ASSUME NEW u \in Turns \ {t} PROVE Room(u)'
    BY <2>1, SameRoom
  <2>3. /\ queue[t] # <<>> /\ queue' = [queue EXCEPT ![t] = Tail(queue[t])]
        /\ UNCHANGED <<next_id, tokens, buffered, llm>>
    BY <1>9 DEF on_error, Heard, hears_unchanged
  <2>4. queue'[t] = Tail(queue[t]) /\ next_id'[t] = next_id[t]
    BY <2>3 DEF Sorts
  <2>5. Room(t)'
    BY <2>3, <2>4, HearsRoom
  <2> QED BY <2>2, <2>5
<1>10. ASSUME NEW t \in Turns, teardown(t) PROVE \A u \in Turns : Room(u)'
  <2>1. \A u \in Turns \ {t} : /\ tokens'[u] = tokens[u] /\ llm'[u] = llm[u]
                              /\ queue'[u] = queue[u] /\ next_id'[u] = next_id[u]
                              /\ (u \in buffered' <=> u \in buffered)
    BY <1>10 DEF teardown, close, Sorts
  <2>2. ASSUME NEW u \in Turns \ {t} PROVE Room(u)'
    BY <2>1, SameRoom
  <2>3. UNCHANGED <<tokens, buffered, llm>>
    BY <1>10 DEF teardown
  <2>4. \/ queue'[t] = <<>> /\ next_id'[t] = 0
        \/ UNCHANGED <<queue, next_id>>
    BY <1>10 DEF teardown, close, Sorts
  <2>5. CASE queue'[t] = <<>> /\ next_id'[t] = 0
    BY <2>2, <2>3, <2>5, ClosesRoom
  <2>6. CASE UNCHANGED <<queue, next_id>>
    BY <2>2, <2>3, <2>6, SameRoom
  <2> QED BY <2>4, <2>5, <2>6
<1>11. ASSUME NEW t \in Turns, reap(t) PROVE \A u \in Turns : Room(u)'
  <2>1. \A u \in Turns \ {t} : /\ tokens'[u] = tokens[u] /\ llm'[u] = llm[u]
                              /\ queue'[u] = queue[u] /\ next_id'[u] = next_id[u]
                              /\ (u \in buffered' <=> u \in buffered)
    BY <1>11 DEF reap, close, Sorts
  <2>2. ASSUME NEW u \in Turns \ {t} PROVE Room(u)'
    BY <2>1, SameRoom
  <2>3. UNCHANGED <<tokens, buffered, llm>> /\ queue'[t] = <<>> /\ next_id'[t] = 0
    BY <1>11 DEF reap, close, Sorts
  <2>4. Room(t)'
    BY <2>3, ClosesRoom
  <2> QED BY <2>2, <2>4
<1>12. CASE \/ evict
         \/ \E t \in Turns :
           \/ send_message_stream(t) \/ begin(t) \/ transcribe(t) \/ answer_source(t)
           \/ recite(t) \/ keep_cached(t) \/ say_goodbye(t) \/ interview_end(t)
           \/ report(t) \/ record_turn(t) \/ truncated(t) \/ conclude(t) \/ answered(t)
           \/ drop(t) \/ disconnect(t)
           \/ \E i \in Ids : tts_starts(t, i) \/ tts_ends(t, i) \/ announce(t, i) \/ skip_chunk(t, i)
  <2>1. UNCHANGED <<tokens, llm, queue, next_id, buffered>>
    BY <1>12 DEF send_message_stream, begin, transcribe, Terminate, Unexpected,
       answer_source, recite, persist, keep_cached, Stored, Nothing, Evicted,
       say_goodbye, interview_end, report, record_turn, tts_starts, SetTask,
       task_unchanged, tts_ends, truncated, announce, skip_chunk, conclude, Outstanding,
       answered, drop, disconnect, evict
  <2> QED BY <2>1, <1>1
<1>13. CASE UNCHANGED vars
  BY <1>13, <1>1 DEF vars
<1> QED BY <1>2, <1>3, <1>4, <1>5, <1>6, <1>7, <1>8, <1>9, <1>10, <1>11, <1>12, <1>13 DEF Next,
   Generator, LLMThread, Synthesis, Rest

\* Each step keeps the order of a turn.
LEMMA CourseStep ==
  ASSUME Sorts, \A u \in Turns : Course(u), [Next]_vars
  PROVE  \A u \in Turns : Course(u)'
<1>1. ASSUME UNCHANGED <<stage, llm, write, mark, llm_stop, hearing, dispatched, announced,
                         failed, tts>> PROVE \A u \in Turns : Course(u)'
  BY <1>1 DEF Sorts, Course, Early, Storing
<1>2. ASSUME NEW t \in Turns, send_message_stream(t) PROVE \A u \in Turns : Course(u)'
  BY <1>2 DEF send_message_stream, Sorts, Course, Early, Storing
<1>3. ASSUME NEW t \in Turns, begin(t) PROVE \A u \in Turns : Course(u)'
  BY <1>3 DEF begin, Sorts, Course, Early, Storing
<1>4. ASSUME NEW t \in Turns, transcribe(t) PROVE \A u \in Turns : Course(u)'
  <2>1. /\ stage[t] = "stt"
        /\ \/ stage' = [stage EXCEPT ![t] = "transcribed"]
           \/ stage' = [stage EXCEPT ![t] = "teardown"]
        /\ UNCHANGED <<llm, write, mark, llm_stop, hearing, dispatched, announced, failed, tts>>
    BY <1>4, Zenon DEF transcribe, Terminate, Unexpected
  <2>2. CASE stage' = [stage EXCEPT ![t] = "transcribed"]
    BY <2>1, <2>2 DEF Sorts, Course, Early, Storing
  <2>3. CASE stage' = [stage EXCEPT ![t] = "teardown"]
    BY <2>1, <2>3 DEF Sorts, Course, Early, Storing
  <2> QED BY <2>1, <2>2, <2>3
<1>5. ASSUME NEW t \in Turns, answer_source(t) PROVE \A u \in Turns : Course(u)'
  <2>1. /\ stage[t] = "transcribed"
        /\ \/ stage' = [stage EXCEPT ![t] = "goodbye"]
           \/ stage' = [stage EXCEPT ![t] = "reciting"]
           \/ stage' = [stage EXCEPT ![t] = "teardown"]
        /\ UNCHANGED <<llm, write, mark, llm_stop, hearing, dispatched, announced, failed, tts>>
    BY <1>5, Zenon DEF answer_source, Terminate, Unexpected
  <2>2. CASE stage' = [stage EXCEPT ![t] = "goodbye"]
    BY <2>1, <2>2 DEF Sorts, Course, Early, Storing
  <2>3. CASE stage' = [stage EXCEPT ![t] = "reciting"]
    BY <2>1, <2>3 DEF Sorts, Course, Early, Storing
  <2>4. CASE stage' = [stage EXCEPT ![t] = "teardown"]
    BY <2>1, <2>4 DEF Sorts, Course, Early, Storing
  <2> QED BY <2>1, <2>2, <2>3, <2>4
<1>6. ASSUME NEW t \in Turns, ask_llm(t) PROVE \A u \in Turns : Course(u)'
  BY <1>6 DEF ask_llm, Sorts, Course, Early, Storing
<1>7. ASSUME NEW t \in Turns, recite(t) PROVE \A u \in Turns : Course(u)'
  BY <1>7 DEF recite, Terminate, Unexpected, persist, Sorts, Course, Early, Storing
<1>8. ASSUME NEW t \in Turns, keep_cached(t) PROVE \A u \in Turns : Course(u)'
  BY <1>8 DEF keep_cached, Terminate, Unexpected, Stored, Nothing, Evicted, Sorts,
     Course, Early, Storing
<1>9. ASSUME NEW t \in Turns, say_goodbye(t) PROVE \A u \in Turns : Course(u)'
  BY <1>9 DEF say_goodbye, Terminate, Unexpected, persist, Sorts, Course, Early, Storing
<1>10. ASSUME NEW t \in Turns, interview_end(t) PROVE \A u \in Turns : Course(u)'
  BY <1>10 DEF interview_end, Terminate, Unexpected, Stored, Nothing, Evicted, Sorts,
     Course, Early, Storing
<1>11. ASSUME NEW t \in Turns, report(t) PROVE \A u \in Turns : Course(u)'
  BY <1>11 DEF report, Sorts, Course, Early, Storing
<1>12. ASSUME NEW t \in Turns, record_turn(t) PROVE \A u \in Turns : Course(u)'
  BY <1>12 DEF record_turn, Sorts, Course, Early, Storing
<1>13. ASSUME NEW t \in Turns, llm_token(t) PROVE \A u \in Turns : Course(u)'
  BY <1>13 DEF llm_token, Enqueue, thread_ends, llm_unchanged, Sorts, Course, Early,
     Storing
<1>14. ASSUME NEW t \in Turns, llm_flush(t) PROVE \A u \in Turns : Course(u)'
  BY <1>14 DEF llm_flush, Enqueue, thread_ends, llm_unchanged, Sorts, Course, Early,
     Storing
<1>15. ASSUME NEW t \in Turns, llm_fails(t) PROVE \A u \in Turns : Course(u)'
  BY <1>15 DEF llm_fails, Enqueue, thread_ends, llm_unchanged, Sorts, Course, Early,
     Storing
<1>16. ASSUME NEW t \in Turns, NEW i \in Ids, tts_starts(t, i) PROVE \A u \in Turns : Course(u)'
  <2>1. llm[t] # "off"
    BY <1>16 DEF tts_starts, Course
  <2>2. UNCHANGED <<stage, llm, write, mark, llm_stop, hearing, dispatched, announced, failed>>
    BY <1>16 DEF tts_starts, task_unchanged
  <2>3. \A u \in Turns \ {t} : tts'[u] = tts[u]
    BY <1>16 DEF tts_starts, SetTask, Sorts
  <2> QED BY <2>1, <2>2, <2>3 DEF Course
<1>17. ASSUME NEW t \in Turns, NEW i \in Ids, tts_ends(t, i) PROVE \A u \in Turns : Course(u)'
  BY <1>17 DEF tts_ends, SetTask, task_unchanged, Sorts, Course, Early, Storing
<1>18. ASSUME NEW t \in Turns, on_sentence(t) PROVE \A u \in Turns : Course(u)'
  BY <1>18 DEF on_sentence, Terminate, Unexpected, Heard, hears_unchanged, SetTask,
     task_unchanged, Sorts, Course, Early, Storing
<1>19. ASSUME NEW t \in Turns, on_done(t) PROVE \A u \in Turns : Course(u)'
  BY <1>19 DEF on_done, Heard, hears_unchanged, Sorts, Course, Early, Storing
<1>20. ASSUME NEW t \in Turns, on_error(t) PROVE \A u \in Turns : Course(u)'
  BY <1>20 DEF on_error, Terminate, Unexpected, Heard, hears_unchanged, persist, Sorts,
     Course, Early, Storing
<1>21. ASSUME NEW t \in Turns, truncated(t) PROVE \A u \in Turns : Course(u)'
  BY <1>21 DEF truncated, Terminate, Unexpected, Stored, Nothing, Evicted, Sorts, Course,
     Early, Storing
<1>22. ASSUME NEW t \in Turns, NEW i \in Ids, announce(t, i) PROVE \A u \in Turns : Course(u)'
  BY <1>22 DEF announce, Terminate, Unexpected, SetTask, task_unchanged, Sorts, Course,
     Early, Storing
<1>23. ASSUME NEW t \in Turns, NEW i \in Ids, skip_chunk(t, i) PROVE \A u \in Turns : Course(u)'
  BY <1>23 DEF skip_chunk, Terminate, Unexpected, SetTask, task_unchanged, Sorts, Course,
     Early, Storing
<1>24. ASSUME NEW t \in Turns, conclude(t) PROVE \A u \in Turns : Course(u)'
  BY <1>24 DEF conclude, Terminate, Unexpected, persist, Outstanding, Sorts, Course,
     Early, Storing
<1>25. ASSUME NEW t \in Turns, answered(t) PROVE \A u \in Turns : Course(u)'
  <2>1. /\ stage[t] = "storing"
        /\ stage' = [stage EXCEPT ![t] = "teardown"]
        /\ UNCHANGED <<llm, write, mark, llm_stop, hearing, dispatched, announced, failed, tts>>
    BY <1>25, Zenon DEF answered, Terminate, Unexpected, Stored, Nothing, Evicted
  <2> QED BY <2>1 DEF Sorts, Course, Early, Storing
<1>26. ASSUME NEW t \in Turns, teardown(t) PROVE \A u \in Turns : Course(u)'
  BY <1>26 DEF teardown, close, sweep, Outstanding, Sorts, Course, Early, Storing
<1>27. ASSUME NEW t \in Turns, reap(t) PROVE \A u \in Turns : Course(u)'
  BY <1>27 DEF reap, close, sweep, Outstanding, Sorts, Course, Early, Storing
<1>28. ASSUME NEW t \in Turns, disconnect(t) PROVE \A u \in Turns : Course(u)'
  BY <1>28 DEF disconnect, Sorts, Course, Early, Storing
<1>29. CASE \/ evict
         \/ \E t \in Turns :
           \/ on_token(t) \/ drop(t)
  <2>1. UNCHANGED <<stage, llm, write, mark, llm_stop, hearing, dispatched, announced,
                    failed, tts>>
    BY <1>29 DEF on_token, Terminate, Unexpected, Heard, hears_unchanged, drop, evict
  <2> QED BY <2>1, <1>1
<1>30. CASE UNCHANGED vars
  BY <1>30, <1>1 DEF vars
<1> QED BY <1>2, <1>3, <1>4, <1>5, <1>6, <1>7, <1>8, <1>9, <1>10, <1>11, <1>12, <1>13, <1>14,
   <1>15, <1>16, <1>17, <1>18, <1>19, <1>20, <1>21, <1>22, <1>23, <1>24, <1>25, <1>26,
   <1>27, <1>28, <1>29, <1>30 DEF Next, Generator, LLMThread, Synthesis, Rest

\* Each step says at most one terminal event, and last.
LEMMA EndsStep ==
  ASSUME Sorts, \A u \in Turns : Ends(u), [Next]_vars
  PROVE  \A u \in Turns : Ends(u)'
<1>1. ASSUME UNCHANGED <<stage, ending, lost>> PROVE \A u \in Turns : Ends(u)'
  BY <1>1 DEF Sorts, Ends
<1>2. ASSUME NEW t \in Turns, send_message_stream(t) PROVE \A u \in Turns : Ends(u)'
  BY <1>2 DEF send_message_stream, Sorts, Ends
<1>3. ASSUME NEW t \in Turns, begin(t) PROVE \A u \in Turns : Ends(u)'
  BY <1>3 DEF begin, Sorts, Ends
<1>4. ASSUME NEW t \in Turns, transcribe(t) PROVE \A u \in Turns : Ends(u)'
  <2>1. /\ stage[t] = "stt"
        /\ \/ Passes(t, "transcribed")
           \/ Finishes(t, "teardown", "done")
    BY <1>4, TranscribeEffect
  <2>2. UNCHANGED <<lost>>
    BY <1>4 DEF transcribe, Terminate, Unexpected
  <2>3. CASE Passes(t, "transcribed")
    BY <2>1, <2>2, <2>3 DEF Passes, Sorts, Ends
  <2>4. CASE Finishes(t, "teardown", "done")
    BY <2>1, <2>2, <2>4 DEF Finishes, Sorts, Ends
  <2> QED BY <2>1, <2>3, <2>4
<1>5. ASSUME NEW t \in Turns, answer_source(t) PROVE \A u \in Turns : Ends(u)'
  <2>1. /\ stage[t] = "transcribed"
        /\ \/ Passes(t, "goodbye")
           \/ Passes(t, "reciting")
           \/ Finishes(t, "teardown", "done")
    BY <1>5, AnswerSourceEffect
  <2>2. UNCHANGED <<lost>>
    BY <1>5 DEF answer_source, Terminate, Unexpected
  <2>3. CASE Passes(t, "goodbye")
    BY <2>1, <2>2, <2>3 DEF Passes, Sorts, Ends
  <2>4. CASE Passes(t, "reciting")
    BY <2>1, <2>2, <2>4 DEF Passes, Sorts, Ends
  <2>5. CASE Finishes(t, "teardown", "done")
    BY <2>1, <2>2, <2>5 DEF Finishes, Sorts, Ends
  <2> QED BY <2>1, <2>3, <2>4, <2>5
<1>6. ASSUME NEW t \in Turns, ask_llm(t) PROVE \A u \in Turns : Ends(u)'
  BY <1>6 DEF ask_llm, Sorts, Ends
<1>7. ASSUME NEW t \in Turns, recite(t) PROVE \A u \in Turns : Ends(u)'
  <2>1. /\ stage[t] = "reciting"
        /\ \/ Asks(t, "keeping", FALSE)
           \/ Finishes(t, "teardown", "done")
    BY <1>7, ReciteEffect
  <2>2. UNCHANGED <<lost>>
    BY <1>7 DEF recite, Terminate, Unexpected, persist
  <2>3. CASE Asks(t, "keeping", FALSE)
    BY <2>1, <2>2, <2>3 DEF Asks, Sorts, Ends
  <2>4. CASE Finishes(t, "teardown", "done")
    BY <2>1, <2>2, <2>4 DEF Finishes, Sorts, Ends
  <2> QED BY <2>1, <2>3, <2>4
<1>8. ASSUME NEW t \in Turns, keep_cached(t) PROVE \A u \in Turns : Ends(u)'
  <2>1. /\ stage[t] = "keeping"
        /\ \/ Stored(t) /\ Finishes(t, "teardown", "done+")
           \/ Finishes(t, "teardown", "done")
    BY <1>8, KeepCachedEffect
  <2>2. UNCHANGED <<lost>>
    BY <1>8 DEF keep_cached, Terminate, Unexpected, Stored, Nothing, Evicted
  <2>3. CASE Stored(t) /\ Finishes(t, "teardown", "done+")
    BY <2>1, <2>2, <2>3 DEF Finishes, Stored, Sorts, Ends
  <2>4. CASE Finishes(t, "teardown", "done")
    BY <2>1, <2>2, <2>4 DEF Finishes, Sorts, Ends
  <2> QED BY <2>1, <2>3, <2>4
<1>9. ASSUME NEW t \in Turns, say_goodbye(t) PROVE \A u \in Turns : Ends(u)'
  <2>1. /\ stage[t] = "goodbye"
        /\ \/ Asks(t, "parting", FALSE)
           \/ Finishes(t, "teardown", "done")
    BY <1>9, SayGoodbyeEffect
  <2>2. UNCHANGED <<lost>>
    BY <1>9 DEF say_goodbye, Terminate, Unexpected, persist
  <2>3. CASE Asks(t, "parting", FALSE)
    BY <2>1, <2>2, <2>3 DEF Asks, Sorts, Ends
  <2>4. CASE Finishes(t, "teardown", "done")
    BY <2>1, <2>2, <2>4 DEF Finishes, Sorts, Ends
  <2> QED BY <2>1, <2>3, <2>4
<1>10. ASSUME NEW t \in Turns, interview_end(t) PROVE \A u \in Turns : Ends(u)'
  <2>1. /\ stage[t] = "parting"
        /\ \/ Stored(t) /\ Finishes(t, "reporting", "interview_end+")
           \/ Finishes(t, "reporting", "interview_end")
    BY <1>10, InterviewEndEffect
  <2>2. UNCHANGED <<lost>>
    BY <1>10 DEF interview_end, Terminate, Unexpected, Stored, Nothing, Evicted
  <2>3. CASE Stored(t) /\ Finishes(t, "reporting", "interview_end+")
    BY <2>1, <2>2, <2>3 DEF Finishes, Stored, Sorts, Ends
  <2>4. CASE Finishes(t, "reporting", "interview_end")
    BY <2>1, <2>2, <2>4 DEF Finishes, Sorts, Ends
  <2> QED BY <2>1, <2>3, <2>4
<1>11. ASSUME NEW t \in Turns, report(t) PROVE \A u \in Turns : Ends(u)'
  BY <1>11 DEF report, Sorts, Ends
<1>12. ASSUME NEW t \in Turns, on_token(t) PROVE \A u \in Turns : Ends(u)'
  <2>1. stage[t] = "listening"
    BY <1>12 DEF on_token, Heard
  <2>2. Yield(t, <<"token">>) => ending' = ending
    BY <2>1, Speaks DEF Ends, Events, Terminals
  <2>3. UNCHANGED <<stage, ending, lost>>
    BY <1>12, <2>2 DEF on_token, Terminate, Unexpected, Heard, hears_unchanged
  <2> QED BY <2>3, <1>1
<1>13. ASSUME NEW t \in Turns, on_sentence(t) PROVE \A u \in Turns : Ends(u)'
  <2>1. stage[t] = "listening"
    BY <1>13 DEF on_sentence, Heard
  <2>2. Yield(t, <<"error(id)">>) => ending' = ending
    BY <2>1, Speaks DEF Ends, Events, Terminals
  <2>3. UNCHANGED <<stage, ending, lost>>
    BY <1>13, <2>2 DEF on_sentence, Terminate, Unexpected, Heard, hears_unchanged,
       SetTask, task_unchanged
  <2> QED BY <2>3, <1>1
<1>14. ASSUME NEW t \in Turns, on_error(t) PROVE \A u \in Turns : Ends(u)'
  <2>1. /\ stage[t] = "listening"
        /\ \/ announced[t] # {} /\ Asks(t, "truncating", TRUE)
           \/ (announced[t] = {} \/ gone) /\ Finishes(t, "teardown", "done")
    BY <1>14, OnErrorEffect
  <2>2. UNCHANGED <<lost>>
    BY <1>14 DEF on_error, Terminate, Unexpected, Heard, hears_unchanged, persist
  <2>3. CASE announced[t] # {} /\ Asks(t, "truncating", TRUE)
    BY <2>1, <2>2, <2>3 DEF Asks, Sorts, Ends
  <2>4. CASE (announced[t] = {} \/ gone) /\ Finishes(t, "teardown", "done")
    BY <2>1, <2>2, <2>4 DEF Finishes, Sorts, Ends
  <2> QED BY <2>1, <2>3, <2>4
<1>15. ASSUME NEW t \in Turns, truncated(t) PROVE \A u \in Turns : Ends(u)'
  <2>1. /\ stage[t] = "truncating"
        /\ \/ Stored(t) /\ Finishes(t, "teardown", "done~")
           \/ Finishes(t, "teardown", "done")
    BY <1>15, TruncatedEffect
  <2>2. UNCHANGED <<lost>>
    BY <1>15 DEF truncated, Terminate, Unexpected, Stored, Nothing, Evicted
  <2>3. CASE Stored(t) /\ Finishes(t, "teardown", "done~")
    BY <2>1, <2>2, <2>3 DEF Finishes, Stored, Sorts, Ends
  <2>4. CASE Finishes(t, "teardown", "done")
    BY <2>1, <2>2, <2>4 DEF Finishes, Sorts, Ends
  <2> QED BY <2>1, <2>3, <2>4
<1>16. ASSUME NEW t \in Turns, NEW i \in Ids, announce(t, i) PROVE \A u \in Turns : Ends(u)'
  <2>1. stage[t] = "listening"
    BY <1>16 DEF announce, Heard
  <2>2. Yield(t, <<"audio_url">>) => ending' = ending
    BY <2>1, Speaks DEF Ends, Events, Terminals
  <2>3. UNCHANGED <<stage, ending, lost>>
    BY <1>16, <2>2 DEF announce, Terminate, Unexpected, SetTask, task_unchanged
  <2> QED BY <2>3, <1>1
<1>17. ASSUME NEW t \in Turns, NEW i \in Ids, skip_chunk(t, i) PROVE \A u \in Turns : Ends(u)'
  <2>1. stage[t] = "listening"
    BY <1>17 DEF skip_chunk, Heard
  <2>2. Yield(t, <<"error(id)">>) => ending' = ending
    BY <2>1, Speaks DEF Ends, Events, Terminals
  <2>3. UNCHANGED <<stage, ending, lost>>
    BY <1>17, <2>2 DEF skip_chunk, Terminate, Unexpected, SetTask, task_unchanged
  <2> QED BY <2>3, <1>1
<1>18. ASSUME NEW t \in Turns, conclude(t) PROVE \A u \in Turns : Ends(u)'
  <2>1. /\ stage[t] = "listening"
        /\ \/ (announced[t] = {} \/ gone) /\ Finishes(t, "teardown", "done")
           \/ /\ dispatched[t] = {} \/ announced[t] # {}
              /\ Asks(t, "storing", announced[t] # {} /\ failed[t] # {})
    BY <1>18, ConcludeEffect
  <2>2. UNCHANGED <<lost>>
    BY <1>18 DEF conclude, Terminate, Unexpected, persist, Outstanding
  <2>3. CASE (announced[t] = {} \/ gone) /\ Finishes(t, "teardown", "done")
    BY <2>1, <2>2, <2>3 DEF Finishes, Sorts, Ends
  <2>4. CASE /\ dispatched[t] = {} \/ announced[t] # {}
            /\ Asks(t, "storing", announced[t] # {} /\ failed[t] # {})
    BY <2>1, <2>2, <2>4 DEF Asks, Sorts, Ends
  <2> QED BY <2>1, <2>3, <2>4
<1>19. ASSUME NEW t \in Turns, answered(t) PROVE \A u \in Turns : Ends(u)'
  <2>1. /\ stage[t] = "storing"
        /\ \/ Stored(t) /\ t \in mark /\ Finishes(t, "teardown", "done~")
           \/ Stored(t) /\ t \notin mark /\ Finishes(t, "teardown", "done+")
           \/ Finishes(t, "teardown", "done")
    BY <1>19, AnsweredEffect
  <2>2. UNCHANGED <<lost>>
    BY <1>19 DEF answered, Terminate, Unexpected, Stored, Nothing, Evicted
  <2>3. CASE Stored(t) /\ t \in mark /\ Finishes(t, "teardown", "done~")
    BY <2>1, <2>2, <2>3 DEF Finishes, Stored, Sorts, Ends
  <2>4. CASE Stored(t) /\ t \notin mark /\ Finishes(t, "teardown", "done+")
    BY <2>1, <2>2, <2>4 DEF Finishes, Stored, Sorts, Ends
  <2>5. CASE Finishes(t, "teardown", "done")
    BY <2>1, <2>2, <2>5 DEF Finishes, Sorts, Ends
  <2> QED BY <2>1, <2>3, <2>4, <2>5
<1>20. ASSUME NEW t \in Turns, teardown(t) PROVE \A u \in Turns : Ends(u)'
  BY <1>20 DEF teardown, close, sweep, Outstanding, Sorts, Ends
<1>21. ASSUME NEW t \in Turns, reap(t) PROVE \A u \in Turns : Ends(u)'
  BY <1>21 DEF reap, close, sweep, Outstanding, Sorts, Ends
<1>22. ASSUME NEW t \in Turns, drop(t) PROVE \A u \in Turns : Ends(u)'
  BY <1>22 DEF drop, Sorts, Ends
<1>23. ASSUME NEW t \in Turns, disconnect(t) PROVE \A u \in Turns : Ends(u)'
  BY <1>23 DEF disconnect, Sorts, Ends
<1>24. CASE \/ evict
         \/ \E t \in Turns :
           \/ record_turn(t) \/ llm_token(t) \/ llm_flush(t) \/ llm_fails(t)
           \/ on_done(t) \/ \E i \in Ids : tts_starts(t, i) \/ tts_ends(t, i)
  <2>1. UNCHANGED <<stage, ending, lost>>
    BY <1>24 DEF record_turn, llm_token, Enqueue, thread_ends, llm_unchanged, llm_flush,
       llm_fails, tts_starts, SetTask, task_unchanged, tts_ends, on_done, Heard,
       hears_unchanged, evict
  <2> QED BY <2>1, <1>1
<1>25. CASE UNCHANGED vars
  BY <1>25, <1>1 DEF vars
<1> QED BY <1>2, <1>3, <1>4, <1>5, <1>6, <1>7, <1>8, <1>9, <1>10, <1>11, <1>12, <1>13, <1>14,
   <1>15, <1>16, <1>17, <1>18, <1>19, <1>20, <1>21, <1>22, <1>23, <1>24, <1>25 DEF Next,
   Generator, LLMThread, Synthesis, Rest

\* Each step names what the store says.
LEMMA NamesStep ==
  ASSUME Sorts, \A u \in Turns : Course(u), \A u \in Turns : Ends(u),
  \A u \in Turns : Names(u), [Next]_vars
  PROVE  \A u \in Turns : Names(u)'
<1>1. ASSUME UNCHANGED <<ending, write, mark>> PROVE \A u \in Turns : Names(u)'
  BY <1>1 DEF Sorts, Course, Ends, Names, Early, Storing
<1>2. ASSUME NEW t \in Turns, transcribe(t) PROVE \A u \in Turns : Names(u)'
  <2>1. /\ stage[t] = "stt"
        /\ \/ Passes(t, "transcribed")
           \/ Finishes(t, "teardown", "done")
    BY <1>2, TranscribeEffect
  <2>2. CASE Passes(t, "transcribed")
    BY <2>1, <2>2 DEF Passes, Sorts, Course, Ends, Names, Early, Storing
  <2>3. CASE Finishes(t, "teardown", "done")
    BY <2>1, <2>3 DEF Finishes, Sorts, Course, Ends, Names, Early, Storing
  <2> QED BY <2>1, <2>2, <2>3
<1>3. ASSUME NEW t \in Turns, answer_source(t) PROVE \A u \in Turns : Names(u)'
  <2>1. /\ stage[t] = "transcribed"
        /\ \/ Passes(t, "goodbye")
           \/ Passes(t, "reciting")
           \/ Finishes(t, "teardown", "done")
    BY <1>3, AnswerSourceEffect
  <2>2. CASE Passes(t, "goodbye")
    BY <2>1, <2>2 DEF Passes, Sorts, Course, Ends, Names, Early, Storing
  <2>3. CASE Passes(t, "reciting")
    BY <2>1, <2>3 DEF Passes, Sorts, Course, Ends, Names, Early, Storing
  <2>4. CASE Finishes(t, "teardown", "done")
    BY <2>1, <2>4 DEF Finishes, Sorts, Course, Ends, Names, Early, Storing
  <2> QED BY <2>1, <2>2, <2>3, <2>4
<1>4. ASSUME NEW t \in Turns, recite(t) PROVE \A u \in Turns : Names(u)'
  <2>1. /\ stage[t] = "reciting"
        /\ \/ Asks(t, "keeping", FALSE)
           \/ Finishes(t, "teardown", "done")
    BY <1>4, ReciteEffect
  <2>2. CASE Asks(t, "keeping", FALSE)
    BY <2>1, <2>2 DEF Asks, Sorts, Course, Ends, Names, Early, Storing
  <2>3. CASE Finishes(t, "teardown", "done")
    BY <2>1, <2>3 DEF Finishes, Sorts, Course, Ends, Names, Early, Storing
  <2> QED BY <2>1, <2>2, <2>3
<1>5. ASSUME NEW t \in Turns, keep_cached(t) PROVE \A u \in Turns : Names(u)'
  <2>1. /\ stage[t] = "keeping"
        /\ \/ Stored(t) /\ Finishes(t, "teardown", "done+")
           \/ Finishes(t, "teardown", "done")
    BY <1>5, KeepCachedEffect
  <2>2. CASE Stored(t) /\ Finishes(t, "teardown", "done+")
    BY <2>1, <2>2 DEF Finishes, Stored, Sorts, Course, Ends, Names, Early, Storing
  <2>3. CASE Finishes(t, "teardown", "done")
    BY <2>1, <2>3 DEF Finishes, Sorts, Course, Ends, Names, Early, Storing
  <2> QED BY <2>1, <2>2, <2>3
<1>6. ASSUME NEW t \in Turns, say_goodbye(t) PROVE \A u \in Turns : Names(u)'
  <2>1. /\ stage[t] = "goodbye"
        /\ \/ Asks(t, "parting", FALSE)
           \/ Finishes(t, "teardown", "done")
    BY <1>6, SayGoodbyeEffect
  <2>2. CASE Asks(t, "parting", FALSE)
    BY <2>1, <2>2 DEF Asks, Sorts, Course, Ends, Names, Early, Storing
  <2>3. CASE Finishes(t, "teardown", "done")
    BY <2>1, <2>3 DEF Finishes, Sorts, Course, Ends, Names, Early, Storing
  <2> QED BY <2>1, <2>2, <2>3
<1>7. ASSUME NEW t \in Turns, interview_end(t) PROVE \A u \in Turns : Names(u)'
  <2>1. /\ stage[t] = "parting"
        /\ \/ Stored(t) /\ Finishes(t, "reporting", "interview_end+")
           \/ Finishes(t, "reporting", "interview_end")
    BY <1>7, InterviewEndEffect
  <2>2. CASE Stored(t) /\ Finishes(t, "reporting", "interview_end+")
    BY <2>1, <2>2 DEF Finishes, Stored, Sorts, Course, Ends, Names, Early, Storing
  <2>3. CASE Finishes(t, "reporting", "interview_end")
    BY <2>1, <2>3 DEF Finishes, Sorts, Course, Ends, Names, Early, Storing
  <2> QED BY <2>1, <2>2, <2>3
<1>8. ASSUME NEW t \in Turns, record_turn(t) PROVE \A u \in Turns : Names(u)'
  BY <1>8 DEF record_turn, Sorts, Course, Ends, Names, Early, Storing
<1>9. ASSUME NEW t \in Turns, on_token(t) PROVE \A u \in Turns : Names(u)'
  <2>1. stage[t] = "listening"
    BY <1>9 DEF on_token, Heard
  <2>2. Yield(t, <<"token">>) => ending' = ending
    BY <2>1, Speaks DEF Ends, Events, Terminals
  <2>3. UNCHANGED <<ending, write, mark>>
    BY <1>9, <2>2 DEF on_token, Terminate, Unexpected, Heard, hears_unchanged
  <2> QED BY <2>3, <1>1
<1>10. ASSUME NEW t \in Turns, on_sentence(t) PROVE \A u \in Turns : Names(u)'
  <2>1. stage[t] = "listening"
    BY <1>10 DEF on_sentence, Heard
  <2>2. Yield(t, <<"error(id)">>) => ending' = ending
    BY <2>1, Speaks DEF Ends, Events, Terminals
  <2>3. UNCHANGED <<ending, write, mark>>
    BY <1>10, <2>2 DEF on_sentence, Terminate, Unexpected, Heard, hears_unchanged,
       SetTask, task_unchanged
  <2> QED BY <2>3, <1>1
<1>11. ASSUME NEW t \in Turns, on_error(t) PROVE \A u \in Turns : Names(u)'
  <2>1. /\ stage[t] = "listening"
        /\ \/ announced[t] # {} /\ Asks(t, "truncating", TRUE)
           \/ (announced[t] = {} \/ gone) /\ Finishes(t, "teardown", "done")
    BY <1>11, OnErrorEffect
  <2>2. CASE announced[t] # {} /\ Asks(t, "truncating", TRUE)
    BY <2>1, <2>2 DEF Asks, Sorts, Course, Ends, Names, Early, Storing
  <2>3. CASE (announced[t] = {} \/ gone) /\ Finishes(t, "teardown", "done")
    BY <2>1, <2>3 DEF Finishes, Sorts, Course, Ends, Names, Early, Storing
  <2> QED BY <2>1, <2>2, <2>3
<1>12. ASSUME NEW t \in Turns, truncated(t) PROVE \A u \in Turns : Names(u)'
  <2>1. /\ stage[t] = "truncating"
        /\ \/ Stored(t) /\ Finishes(t, "teardown", "done~")
           \/ Finishes(t, "teardown", "done")
    BY <1>12, TruncatedEffect
  <2>2. CASE Stored(t) /\ Finishes(t, "teardown", "done~")
    BY <2>1, <2>2 DEF Finishes, Stored, Sorts, Course, Ends, Names, Early, Storing
  <2>3. CASE Finishes(t, "teardown", "done")
    BY <2>1, <2>3 DEF Finishes, Sorts, Course, Ends, Names, Early, Storing
  <2> QED BY <2>1, <2>2, <2>3
<1>13. ASSUME NEW t \in Turns, NEW i \in Ids, announce(t, i) PROVE \A u \in Turns : Names(u)'
  <2>1. stage[t] = "listening"
    BY <1>13 DEF announce, Heard
  <2>2. Yield(t, <<"audio_url">>) => ending' = ending
    BY <2>1, Speaks DEF Ends, Events, Terminals
  <2>3. UNCHANGED <<ending, write, mark>>
    BY <1>13, <2>2 DEF announce, Terminate, Unexpected, SetTask, task_unchanged
  <2> QED BY <2>3, <1>1
<1>14. ASSUME NEW t \in Turns, NEW i \in Ids, skip_chunk(t, i) PROVE \A u \in Turns : Names(u)'
  <2>1. stage[t] = "listening"
    BY <1>14 DEF skip_chunk, Heard
  <2>2. Yield(t, <<"error(id)">>) => ending' = ending
    BY <2>1, Speaks DEF Ends, Events, Terminals
  <2>3. UNCHANGED <<ending, write, mark>>
    BY <1>14, <2>2 DEF skip_chunk, Terminate, Unexpected, SetTask, task_unchanged
  <2> QED BY <2>3, <1>1
<1>15. ASSUME NEW t \in Turns, conclude(t) PROVE \A u \in Turns : Names(u)'
  <2>1. /\ stage[t] = "listening"
        /\ \/ (announced[t] = {} \/ gone) /\ Finishes(t, "teardown", "done")
           \/ /\ dispatched[t] = {} \/ announced[t] # {}
              /\ Asks(t, "storing", announced[t] # {} /\ failed[t] # {})
    BY <1>15, ConcludeEffect
  <2>2. CASE (announced[t] = {} \/ gone) /\ Finishes(t, "teardown", "done")
    BY <2>1, <2>2 DEF Finishes, Sorts, Course, Ends, Names, Early, Storing
  <2>3. CASE /\ dispatched[t] = {} \/ announced[t] # {}
            /\ Asks(t, "storing", announced[t] # {} /\ failed[t] # {})
    BY <2>1, <2>3 DEF Asks, Sorts, Course, Ends, Names, Early, Storing
  <2> QED BY <2>1, <2>2, <2>3
<1>16. ASSUME NEW t \in Turns, answered(t) PROVE \A u \in Turns : Names(u)'
  <2>1. /\ stage[t] = "storing"
        /\ \/ Stored(t) /\ t \in mark /\ Finishes(t, "teardown", "done~")
           \/ Stored(t) /\ t \notin mark /\ Finishes(t, "teardown", "done+")
           \/ Finishes(t, "teardown", "done")
    BY <1>16, AnsweredEffect
  <2>2. CASE Stored(t) /\ t \in mark /\ Finishes(t, "teardown", "done~")
    BY <2>1, <2>2 DEF Finishes, Stored, Sorts, Course, Ends, Names, Early, Storing
  <2>3. CASE Stored(t) /\ t \notin mark /\ Finishes(t, "teardown", "done+")
    BY <2>1, <2>3 DEF Finishes, Stored, Sorts, Course, Ends, Names, Early, Storing
  <2>4. CASE Finishes(t, "teardown", "done")
    BY <2>1, <2>4 DEF Finishes, Sorts, Course, Ends, Names, Early, Storing
  <2> QED BY <2>1, <2>2, <2>3, <2>4
<1>17. CASE \/ evict
         \/ \E t \in Turns :
           \/ send_message_stream(t) \/ begin(t) \/ ask_llm(t) \/ report(t)
           \/ llm_token(t) \/ llm_flush(t) \/ llm_fails(t) \/ on_done(t) \/ teardown(t)
           \/ reap(t) \/ drop(t) \/ disconnect(t)
           \/ \E i \in Ids : tts_starts(t, i) \/ tts_ends(t, i)
  <2>1. UNCHANGED <<ending, write, mark>>
    BY <1>17 DEF send_message_stream, begin, ask_llm, report, llm_token, Enqueue,
       thread_ends, llm_unchanged, llm_flush, llm_fails, tts_starts, SetTask,
       task_unchanged, tts_ends, on_done, Heard, hears_unchanged, teardown, close, sweep,
       Outstanding, reap, drop, disconnect, evict
  <2> QED BY <2>1, <1>1
<1>18. CASE UNCHANGED vars
  BY <1>18, <1>1 DEF vars
<1> QED BY <1>2, <1>3, <1>4, <1>5, <1>6, <1>7, <1>8, <1>9, <1>10, <1>11, <1>12, <1>13, <1>14,
   <1>15, <1>16, <1>17, <1>18 DEF Next, Generator, LLMThread, Synthesis, Rest

\* Each step leaves the last word the last.
LEMMA LastWordStep ==
  ASSUME Sorts, \A u \in Turns : Room(u), \A u \in Turns : Course(u),
  \A u \in Turns : Ends(u), \A u \in Turns : LastWord(u), [Next]_vars
  PROVE  \A u \in Turns : LastWord(u)'
<1>1. ASSUME UNCHANGED <<queue, llm, stage, hearing>> PROVE \A u \in Turns : LastWord(u)'
  BY <1>1 DEF Sorts, Course, LastWord, Early
<1>2. ASSUME NEW t \in Turns, Telling(t) PROVE \A u \in Turns : LastWord(u)'
  <2>1. Moved(t)
    BY <1>2, Moves
  <2>2. /\ UNCHANGED <<llm, hearing>>
        /\ \A u \in Turns : stage'[u] = "listening" => stage[u] = "listening" /\ u # t
    BY <2>1 DEF Moved, Sorts
  <2>3. CASE queue' = queue
    BY <2>2, <2>3 DEF LastWord
  <2>4. CASE queue[t] # <<>> /\ queue' = [queue EXCEPT ![t] = Tail(queue[t])]
    <3>1. /\ queue'[t] = Tail(queue[t])
          /\ \A u \in Turns \ {t} : queue'[u] = queue[u]
      BY <2>4 DEF Sorts
    <3>2. /\ queue[t] \in Seq(Kinds) /\ Len(queue'[t]) = Len(queue[t]) - 1
          /\ \A k \in 1..Len(queue'[t]) : queue'[t][k] = queue[t][k + 1]
      BY <2>4, <3>1 DEF Sorts
    <3>3. LastWord(t)'
      BY <2>2, <3>2 DEF LastWord
    <3>4. ASSUME NEW u \in Turns \ {t} PROVE LastWord(u)'
      BY <2>2, <3>1 DEF LastWord
    <3> QED BY <3>3, <3>4
  <2> QED BY <2>1, <2>3, <2>4 DEF Moved
<1>3. ASSUME NEW t \in Turns, send_message_stream(t) PROVE \A u \in Turns : LastWord(u)'
  BY <1>3 DEF send_message_stream, Sorts, Course, LastWord, Early
<1>4. ASSUME NEW t \in Turns, begin(t) PROVE \A u \in Turns : LastWord(u)'
  BY <1>4 DEF begin, Sorts, Course, LastWord, Early
<1>5. ASSUME NEW t \in Turns, ask_llm(t) PROVE \A u \in Turns : LastWord(u)'
  <2>1. stage[t] = "transcribed" /\ llm[t] = "off" /\ stage' = [stage EXCEPT ![t] = "listening"]
    BY <1>5 DEF ask_llm, Course, Early
  <2>2. queue' = queue /\ hearing' = hearing \cup {t} /\ llm' = [llm EXCEPT ![t] = "running"]
    BY <1>5 DEF ask_llm
  <2>3. queue[t] = <<>>
    BY <2>1 DEF Room
  <2> QED BY <2>1, <2>2, <2>3 DEF Sorts, LastWord
<1>6. ASSUME NEW t \in Turns, report(t) PROVE \A u \in Turns : LastWord(u)'
  BY <1>6 DEF report, Sorts, Course, LastWord, Early
<1>7. ASSUME NEW t \in Turns, llm_token(t) PROVE \A u \in Turns : LastWord(u)'
  <2>1. llm[t] = "running" /\ ~(stage[t] = "listening" /\ t \notin hearing)
    BY <1>7 DEF llm_token, LastWord
  <2>2. UNCHANGED <<stage, hearing>>
    BY <1>7 DEF llm_token, llm_unchanged
  <2>3. \/ llm' = llm
        \/ llm' = [llm EXCEPT ![t] = "ended"] /\ queue' = queue
    BY <1>7, Zenon DEF llm_token, thread_ends
  <2>4. \/ queue' = queue
        \/ queue' = [queue EXCEPT ![t] = queue[t] \o <<"token">>]
        \/ queue' = [queue EXCEPT ![t] = queue[t] \o <<"token", "sentence">>]
    BY <1>7 DEF llm_token, Enqueue
  <2>5. ASSUME NEW u \in Turns \ {t} PROVE LastWord(u)'
    BY <2>2, <2>3, <2>4 DEF Sorts, LastWord
  <2>6. CASE queue' = queue
    BY <2>1, <2>2, <2>3, <2>5, <2>6 DEF Sorts, LastWord
  <2>7. CASE queue' = [queue EXCEPT ![t] = queue[t] \o <<"token">>]
    BY <2>1, <2>2, <2>3, <2>5, <2>7 DEF Sorts, LastWord
  <2>8. CASE queue' = [queue EXCEPT ![t] = queue[t] \o <<"token", "sentence">>]
    BY <2>1, <2>2, <2>3, <2>5, <2>8 DEF Sorts, LastWord
  <2> QED BY <2>4, <2>6, <2>7, <2>8
<1>8. ASSUME NEW t \in Turns, llm_flush(t) PROVE \A u \in Turns : LastWord(u)'
  BY <1>8 DEF llm_flush, Enqueue, thread_ends, llm_unchanged, Sorts, Course, LastWord,
     Early
<1>9. ASSUME NEW t \in Turns, llm_fails(t) PROVE \A u \in Turns : LastWord(u)'
  BY <1>9 DEF llm_fails, Enqueue, thread_ends, llm_unchanged, Sorts, Course, LastWord,
     Early
<1>10. ASSUME NEW t \in Turns, on_token(t) PROVE \A u \in Turns : LastWord(u)'
  BY <1>10 DEF on_token, Terminate, Unexpected, Heard, hears_unchanged, Sorts, Course,
     LastWord, Early
<1>11. ASSUME NEW t \in Turns, on_sentence(t) PROVE \A u \in Turns : LastWord(u)'
  BY <1>11 DEF on_sentence, Terminate, Unexpected, Heard, hears_unchanged, SetTask,
     task_unchanged, Sorts, Course, LastWord, Early
<1>12. ASSUME NEW t \in Turns, on_done(t) PROVE \A u \in Turns : LastWord(u)'
  BY <1>12 DEF on_done, Heard, hears_unchanged, Sorts, Course, LastWord, Early
<1>13. ASSUME NEW t \in Turns, teardown(t) PROVE \A u \in Turns : LastWord(u)'
  BY <1>13 DEF teardown, close, sweep, Outstanding, Sorts, Course, LastWord, Early
<1>14. ASSUME NEW t \in Turns, reap(t) PROVE \A u \in Turns : LastWord(u)'
  BY <1>14 DEF reap, close, sweep, Outstanding, Sorts, Course, LastWord, Early
<1>15. ASSUME NEW t \in Turns, disconnect(t) PROVE \A u \in Turns : LastWord(u)'
  BY <1>15 DEF disconnect, Sorts, Course, LastWord, Early
<1>16. CASE \/ evict
         \/ \E t \in Turns :
           \/ record_turn(t) \/ drop(t)
           \/ \E i \in Ids : tts_starts(t, i) \/ tts_ends(t, i) \/ announce(t, i) \/ skip_chunk(t, i)
  <2>1. UNCHANGED <<queue, llm, stage, hearing>>
    BY <1>16 DEF record_turn, tts_starts, SetTask, task_unchanged, tts_ends, announce,
       Terminate, Unexpected, skip_chunk, drop, evict
  <2> QED BY <2>1, <1>1
<1>17. CASE UNCHANGED vars
  BY <1>17, <1>1 DEF vars
<1> QED BY <1>2, <1>3, <1>4, <1>5, <1>6, <1>7, <1>8, <1>9, <1>10, <1>11, <1>12, <1>13, <1>14,
   <1>15, <1>16, <1>17 DEF Next, Generator, LLMThread, Synthesis, Rest, Telling

\* Each step accounts for the tasks.
LEMMA TasksStep ==
  ASSUME Sorts, \A u \in Turns : Course(u), \A u \in Turns : Ends(u),
  \A u \in Turns : Tasks(u), [Next]_vars
  PROVE  \A u \in Turns : Tasks(u)'
<1>1. ASSUME UNCHANGED <<announced, dispatched, tts, failed,
                         stage>> PROVE \A u \in Turns : Tasks(u)'
  BY <1>1 DEF Sorts, Course, Tasks, Early
<1>2. ASSUME NEW t \in Turns, Telling(t) PROVE \A u \in Turns : Tasks(u)'
  <2>1. Moved(t)
    BY <1>2, Moves
  <2> QED BY <2>1 DEF Moved, Sorts, Course, Tasks, Early
<1>3. ASSUME NEW t \in Turns, send_message_stream(t) PROVE \A u \in Turns : Tasks(u)'
  BY <1>3 DEF send_message_stream, Sorts, Course, Tasks, Early
<1>4. ASSUME NEW t \in Turns, begin(t) PROVE \A u \in Turns : Tasks(u)'
  BY <1>4 DEF begin, Sorts, Course, Tasks, Early
<1>5. ASSUME NEW t \in Turns, ask_llm(t) PROVE \A u \in Turns : Tasks(u)'
  BY <1>5 DEF ask_llm, Sorts, Course, Tasks, Early
<1>6. ASSUME NEW t \in Turns, report(t) PROVE \A u \in Turns : Tasks(u)'
  BY <1>6 DEF report, Sorts, Course, Tasks, Early
<1>7. ASSUME NEW t \in Turns, NEW i \in Ids, tts_starts(t, i) PROVE \A u \in Turns : Tasks(u)'
  <2>1. UNCHANGED <<stage, dispatched, announced, failed>>
    BY <1>7 DEF tts_starts, task_unchanged
  <2>2. PICK s \in {"writing", "failed"} : tts' = [tts EXCEPT ![t] = [tts[t] EXCEPT ![i] = s]]
    BY <1>7 DEF tts_starts, SetTask
  <2>3. tts[t][i] = "queued"
    BY <1>7 DEF tts_starts
  <2> QED BY <2>1, <2>2, <2>3 DEF Sorts, Tasks
<1>8. ASSUME NEW t \in Turns, NEW i \in Ids, tts_ends(t, i) PROVE \A u \in Turns : Tasks(u)'
  BY <1>8 DEF tts_ends, SetTask, task_unchanged, Sorts, Course, Tasks, Early
<1>9. ASSUME NEW t \in Turns, on_sentence(t) PROVE \A u \in Turns : Tasks(u)'
  BY <1>9 DEF on_sentence, Terminate, Unexpected, Heard, hears_unchanged, SetTask,
     task_unchanged, Sorts, Course, Tasks, Early
<1>10. ASSUME NEW t \in Turns, NEW i \in Ids, announce(t, i) PROVE \A u \in Turns : Tasks(u)'
  BY <1>10 DEF announce, Terminate, Unexpected, SetTask, task_unchanged, Sorts, Course,
     Tasks, Early
<1>11. ASSUME NEW t \in Turns, NEW i \in Ids, skip_chunk(t, i) PROVE \A u \in Turns : Tasks(u)'
  BY <1>11 DEF skip_chunk, Terminate, Unexpected, SetTask, task_unchanged, Sorts, Course,
     Tasks, Early
<1>12. ASSUME NEW t \in Turns, teardown(t) PROVE \A u \in Turns : Tasks(u)'
  BY <1>12 DEF teardown, close, sweep, Outstanding, Sorts, Course, Tasks, Early
<1>13. ASSUME NEW t \in Turns, reap(t) PROVE \A u \in Turns : Tasks(u)'
  BY <1>13 DEF reap, close, sweep, Outstanding, Sorts, Course, Tasks, Early
<1>14. ASSUME NEW t \in Turns, disconnect(t) PROVE \A u \in Turns : Tasks(u)'
  BY <1>14 DEF disconnect, Sorts, Course, Tasks, Early
<1>15. CASE \/ evict
         \/ \E t \in Turns :
           \/ record_turn(t) \/ llm_token(t) \/ llm_flush(t) \/ llm_fails(t)
           \/ on_token(t) \/ on_done(t) \/ drop(t)
  <2>1. UNCHANGED <<announced, dispatched, tts, failed, stage>>
    BY <1>15 DEF record_turn, llm_token, Enqueue, thread_ends, llm_unchanged, llm_flush,
       llm_fails, on_token, Terminate, Unexpected, Heard, hears_unchanged, on_done, drop,
       evict
  <2> QED BY <2>1, <1>1
<1>16. CASE UNCHANGED vars
  BY <1>16, <1>1 DEF vars
<1> QED BY <1>2, <1>3, <1>4, <1>5, <1>6, <1>7, <1>8, <1>9, <1>10, <1>11, <1>12, <1>13, <1>14,
   <1>15, <1>16 DEF Next, Generator, LLMThread, Synthesis, Rest, Telling

\* Each step keeps what is filed as whole whole.
LEMMA WholeStep ==
  ASSUME Sorts, \A u \in Turns : Course(u), \A u \in Turns : Ends(u),
  \A u \in Turns : LastWord(u), \A u \in Turns : Tasks(u), \A u \in Turns : Whole(u), [Next]_vars
  PROVE  \A u \in Turns : Whole(u)'
<1>1. ASSUME UNCHANGED <<write, llm, mark, announced, dispatched, failed, hearing,
                         queue>> PROVE \A u \in Turns : Whole(u)'
  BY <1>1 DEF Sorts, Course, LastWord, Tasks, Whole, Early, Storing
<1>2. ASSUME NEW t \in Turns, ask_llm(t) PROVE \A u \in Turns : Whole(u)'
  <2>1. write[t] = "no" /\ UNCHANGED <<write, mark>>
    BY <1>2 DEF ask_llm, Course, Early
  <2>2. UNCHANGED <<announced, dispatched, failed, queue>>
    BY <1>2 DEF ask_llm
  <2>3. \A u \in Turns \ {t} : llm'[u] = llm[u] /\ (u \in hearing' <=> u \in hearing)
    BY <1>2 DEF ask_llm, Sorts
  <2> QED BY <2>1, <2>2, <2>3 DEF Whole
<1>3. ASSUME NEW t \in Turns, recite(t) PROVE \A u \in Turns : Whole(u)'
  <2>1. /\ stage[t] = "reciting"
        /\ \/ Asks(t, "keeping", FALSE)
           \/ Finishes(t, "teardown", "done")
    BY <1>3, ReciteEffect
  <2>2. UNCHANGED <<llm, announced, dispatched, failed, hearing, queue>>
    BY <1>3 DEF recite, Terminate, Unexpected, persist
  <2>3. CASE Asks(t, "keeping", FALSE)
    BY <2>1, <2>2, <2>3 DEF Asks, Sorts, Course, LastWord, Tasks, Whole, Early, Storing
  <2>4. CASE Finishes(t, "teardown", "done")
    BY <2>1, <2>2, <2>4 DEF Finishes, Sorts, Course, LastWord, Tasks, Whole, Early,
       Storing
  <2> QED BY <2>1, <2>3, <2>4
<1>4. ASSUME NEW t \in Turns, say_goodbye(t) PROVE \A u \in Turns : Whole(u)'
  <2>1. /\ stage[t] = "goodbye"
        /\ \/ Asks(t, "parting", FALSE)
           \/ Finishes(t, "teardown", "done")
    BY <1>4, SayGoodbyeEffect
  <2>2. UNCHANGED <<llm, announced, dispatched, failed, hearing, queue>>
    BY <1>4 DEF say_goodbye, Terminate, Unexpected, persist
  <2>3. CASE Asks(t, "parting", FALSE)
    BY <2>1, <2>2, <2>3 DEF Asks, Sorts, Course, LastWord, Tasks, Whole, Early, Storing
  <2>4. CASE Finishes(t, "teardown", "done")
    BY <2>1, <2>2, <2>4 DEF Finishes, Sorts, Course, LastWord, Tasks, Whole, Early,
       Storing
  <2> QED BY <2>1, <2>3, <2>4
<1>5. ASSUME NEW t \in Turns, record_turn(t) PROVE \A u \in Turns : Whole(u)'
  BY <1>5 DEF record_turn, Sorts, Course, LastWord, Tasks, Whole, Early, Storing
<1>6. ASSUME NEW t \in Turns, llm_token(t) PROVE \A u \in Turns : Whole(u)'
  <2>1. llm[t] = "running"
    BY <1>6 DEF llm_token
  <2>2. UNCHANGED <<write, mark, announced, dispatched, failed, hearing>>
    BY <1>6 DEF llm_token, llm_unchanged
  <2>3. \A u \in Turns \ {t} : llm'[u] = llm[u] /\ queue'[u] = queue[u]
    BY <1>6 DEF llm_token, Enqueue, thread_ends, Sorts
  <2>4. ~(write[t] # "no" /\ t \notin mark)
    BY <2>1 DEF Whole
  <2> QED BY <2>2, <2>3, <2>4 DEF Whole
<1>7. ASSUME NEW t \in Turns, llm_flush(t) PROVE \A u \in Turns : Whole(u)'
  BY <1>7 DEF llm_flush, Enqueue, thread_ends, llm_unchanged, Sorts, Course, LastWord,
     Tasks, Whole, Early, Storing
<1>8. ASSUME NEW t \in Turns, llm_fails(t) PROVE \A u \in Turns : Whole(u)'
  BY <1>8 DEF llm_fails, Enqueue, thread_ends, llm_unchanged, Sorts, Course, LastWord,
     Tasks, Whole, Early, Storing
<1>9. ASSUME NEW t \in Turns, on_token(t) PROVE \A u \in Turns : Whole(u)'
  BY <1>9 DEF on_token, Terminate, Unexpected, Heard, hears_unchanged, Sorts, Course,
     LastWord, Tasks, Whole, Early, Storing
<1>10. ASSUME NEW t \in Turns, on_sentence(t) PROVE \A u \in Turns : Whole(u)'
  <2>1. write[t] = "no" /\ UNCHANGED <<write, mark, llm>>
    BY <1>10 DEF on_sentence, Heard, hears_unchanged, Course, Early
  <2>2. \A u \in Turns \ {t} : /\ dispatched'[u] = dispatched[u] /\ failed'[u] = failed[u]
                              /\ queue'[u] = queue[u]
    BY <1>10 DEF on_sentence, Heard, Sorts
  <2>3. UNCHANGED <<announced, hearing>>
    BY <1>10 DEF on_sentence
  <2> QED BY <2>1, <2>2, <2>3 DEF Whole
<1>11. ASSUME NEW t \in Turns, on_done(t) PROVE \A u \in Turns : Whole(u)'
  BY <1>11 DEF on_done, Heard, hears_unchanged, Sorts, Course, LastWord, Tasks, Whole,
     Early, Storing
<1>12. ASSUME NEW t \in Turns, on_error(t) PROVE \A u \in Turns : Whole(u)'
  <2>1. /\ stage[t] = "listening"
        /\ \/ announced[t] # {} /\ Asks(t, "truncating", TRUE)
           \/ (announced[t] = {} \/ gone) /\ Finishes(t, "teardown", "done")
    BY <1>12, OnErrorEffect
  <2>2. UNCHANGED <<llm, announced, dispatched, failed, hearing>>
    BY <1>12 DEF on_error, Terminate, Unexpected, Heard, hears_unchanged, persist
  <2>3. queue' = Put(queue, t, Tail(queue[t])) /\ queue[t] # <<>>
    BY <1>12 DEF on_error, Heard
  <2>4. CASE announced[t] # {} /\ Asks(t, "truncating", TRUE)
    BY <2>1, <2>2, <2>3, <2>4 DEF Asks, Sorts, Course, LastWord, Tasks, Whole, Early,
       Storing
  <2>5. CASE (announced[t] = {} \/ gone) /\ Finishes(t, "teardown", "done")
    BY <2>1, <2>2, <2>3, <2>5 DEF Finishes, Sorts, Course, LastWord, Tasks, Whole, Early,
       Storing
  <2> QED BY <2>1, <2>4, <2>5
<1>13. ASSUME NEW t \in Turns, NEW i \in Ids, announce(t, i) PROVE \A u \in Turns : Whole(u)'
  BY <1>13 DEF announce, Terminate, Unexpected, SetTask, task_unchanged, Sorts, Course,
     LastWord, Tasks, Whole, Early, Storing
<1>14. ASSUME NEW t \in Turns, NEW i \in Ids, skip_chunk(t, i) PROVE \A u \in Turns : Whole(u)'
  BY <1>14 DEF skip_chunk, Terminate, Unexpected, SetTask, task_unchanged, Sorts, Course,
     LastWord, Tasks, Whole, Early, Storing
<1>15. ASSUME NEW t \in Turns, conclude(t) PROVE \A u \in Turns : Whole(u)'
  <2>1. /\ stage[t] = "listening" /\ t \notin hearing /\ Outstanding(t) = {}
        /\ UNCHANGED <<llm, announced, dispatched, failed, hearing, queue>>
    BY <1>15 DEF conclude
  <2>2. CASE UNCHANGED <<write, mark>>
    BY <2>1, <2>2 DEF Whole
  <2>3. CASE /\ ~(dispatched[t] # {} /\ announced[t] = {})
             /\ Asks(t, "storing", announced[t] # {} /\ failed[t] # {})
    <3>1. write' = [write EXCEPT ![t] = "pending"]
      BY <2>3 DEF Asks
    <3>2. mark' = IF announced[t] # {} /\ failed[t] # {} THEN mark \cup {t} ELSE mark
      BY <2>3, Zenon DEF Asks
    <3>3. llm[t] = "ended" /\ queue[t] = <<>>
      BY <2>1 DEF LastWord
    <3>4. ASSUME t \notin mark'
          PROVE announced[t] = dispatched[t] /\ (announced[t] # {} => failed[t] = {})
      <4>1. announced[t] # {} => failed[t] = {}
        BY <3>2, <3>4
      <4>2. CASE announced[t] = {}
        BY <2>3, <4>1, <4>2
      <4>3. CASE announced[t] # {}
        <5>1. \A i \in Ids : tts[t][i] \in {"none", "taken"}
          BY <2>1 DEF Outstanding, Sorts, TaskStates, Tasks, Course
        <5>2. \A i \in dispatched[t] : i \in announced[t]
          BY <4>1, <4>3, <5>1 DEF Sorts, Tasks
        <5> QED BY <4>1, <5>2 DEF Tasks
      <4> QED BY <4>2, <4>3
    <3>5. Whole(t)'
      BY <2>1, <3>3, <3>4 DEF Whole
    <3>6. ASSUME NEW u \in Turns \ {t} PROVE Whole(u)'
      BY <2>1, <3>1, <3>2 DEF Sorts, Whole
    <3> QED BY <3>5, <3>6
  <2>4. \/ UNCHANGED <<write, mark>>
        \/ /\ ~(dispatched[t] # {} /\ announced[t] = {})
           /\ Asks(t, "storing", announced[t] # {} /\ failed[t] # {})
    BY <1>15, ConcludeEffect DEF Finishes
  <2> QED BY <2>2, <2>3, <2>4
<1>16. ASSUME NEW t \in Turns, teardown(t) PROVE \A u \in Turns : Whole(u)'
  <2>1. UNCHANGED <<write, llm, mark, announced, dispatched, failed>>
    BY <1>16 DEF teardown
  <2>2. \/ UNCHANGED <<queue, hearing>>
        \/ queue' = [queue EXCEPT ![t] = <<>>] /\ hearing' = hearing \ {t}
    BY <1>16 DEF teardown, close
  <2> QED BY <2>1, <2>2 DEF Sorts, Whole
<1>17. ASSUME NEW t \in Turns, reap(t) PROVE \A u \in Turns : Whole(u)'
  BY <1>17 DEF reap, close, sweep, Outstanding, Sorts, Course, LastWord, Tasks, Whole,
     Early, Storing
<1>18. CASE \/ evict
         \/ \E t \in Turns :
           \/ send_message_stream(t) \/ begin(t) \/ transcribe(t) \/ answer_source(t)
           \/ keep_cached(t) \/ interview_end(t) \/ report(t) \/ truncated(t)
           \/ answered(t) \/ drop(t) \/ disconnect(t)
           \/ \E i \in Ids : tts_starts(t, i) \/ tts_ends(t, i)
  <2>1. UNCHANGED <<write, llm, mark, announced, dispatched, failed, hearing, queue>>
    BY <1>18 DEF send_message_stream, begin, transcribe, Terminate, Unexpected,
       answer_source, keep_cached, Stored, Nothing, Evicted, interview_end, report,
       tts_starts, SetTask, task_unchanged, tts_ends, truncated, answered, drop,
       disconnect, evict
  <2> QED BY <2>1, <1>1
<1>19. CASE UNCHANGED vars
  BY <1>19, <1>1 DEF vars
<1> QED BY <1>2, <1>3, <1>4, <1>5, <1>6, <1>7, <1>8, <1>9, <1>10, <1>11, <1>12, <1>13, <1>14,
   <1>15, <1>16, <1>17, <1>18, <1>19 DEF Next, Generator, LLMThread, Synthesis, Rest

\* Each step keeps what was heard.
LEMMA KeptStep ==
  ASSUME Sorts, \A u \in Turns : Course(u), \A u \in Turns : Ends(u),
  \A u \in Turns : Kept(u), [Next]_vars
  PROVE  \A u \in Turns : Kept(u)'
<1>1. ASSUME UNCHANGED <<stage, lost, announced, gone, write>> PROVE \A u \in Turns : Kept(u)'
  BY <1>1 DEF Sorts, Course, Kept, Early, Storing
<1>2. ASSUME NEW t \in Turns, send_message_stream(t) PROVE \A u \in Turns : Kept(u)'
  BY <1>2 DEF send_message_stream, Sorts, Course, Kept, Early, Storing
<1>3. ASSUME NEW t \in Turns, begin(t) PROVE \A u \in Turns : Kept(u)'
  BY <1>3 DEF begin, Sorts, Course, Kept, Early, Storing
<1>4. ASSUME NEW t \in Turns, transcribe(t) PROVE \A u \in Turns : Kept(u)'
  <2>1. /\ stage[t] = "stt"
        /\ \/ Passes(t, "transcribed")
           \/ Finishes(t, "teardown", "done")
    BY <1>4, TranscribeEffect
  <2>2. UNCHANGED <<lost, announced, gone>>
    BY <1>4 DEF transcribe, Terminate, Unexpected
  <2>3. CASE Passes(t, "transcribed")
    BY <2>1, <2>2, <2>3 DEF Passes, Sorts, Course, Kept, Early, Storing
  <2>4. CASE Finishes(t, "teardown", "done")
    BY <2>1, <2>2, <2>4 DEF Finishes, Sorts, Course, Kept, Early, Storing
  <2> QED BY <2>1, <2>3, <2>4
<1>5. ASSUME NEW t \in Turns, answer_source(t) PROVE \A u \in Turns : Kept(u)'
  <2>1. /\ stage[t] = "transcribed"
        /\ \/ Passes(t, "goodbye")
           \/ Passes(t, "reciting")
           \/ Finishes(t, "teardown", "done")
    BY <1>5, AnswerSourceEffect
  <2>2. UNCHANGED <<lost, announced, gone>>
    BY <1>5 DEF answer_source, Terminate, Unexpected
  <2>3. CASE Passes(t, "goodbye")
    BY <2>1, <2>2, <2>3 DEF Passes, Sorts, Course, Kept, Early, Storing
  <2>4. CASE Passes(t, "reciting")
    BY <2>1, <2>2, <2>4 DEF Passes, Sorts, Course, Kept, Early, Storing
  <2>5. CASE Finishes(t, "teardown", "done")
    BY <2>1, <2>2, <2>5 DEF Finishes, Sorts, Course, Kept, Early, Storing
  <2> QED BY <2>1, <2>3, <2>4, <2>5
<1>6. ASSUME NEW t \in Turns, ask_llm(t) PROVE \A u \in Turns : Kept(u)'
  BY <1>6 DEF ask_llm, Sorts, Course, Kept, Early, Storing
<1>7. ASSUME NEW t \in Turns, recite(t) PROVE \A u \in Turns : Kept(u)'
  <2>1. /\ stage[t] = "reciting"
        /\ \/ Asks(t, "keeping", FALSE)
           \/ Finishes(t, "teardown", "done")
    BY <1>7, ReciteEffect
  <2>2. UNCHANGED <<lost, announced, gone>>
    BY <1>7 DEF recite, Terminate, Unexpected, persist
  <2>3. CASE Asks(t, "keeping", FALSE)
    BY <2>1, <2>2, <2>3 DEF Asks, Sorts, Course, Kept, Early, Storing
  <2>4. CASE Finishes(t, "teardown", "done")
    BY <2>1, <2>2, <2>4 DEF Finishes, Sorts, Course, Kept, Early, Storing
  <2> QED BY <2>1, <2>3, <2>4
<1>8. ASSUME NEW t \in Turns, keep_cached(t) PROVE \A u \in Turns : Kept(u)'
  <2>1. /\ stage[t] = "keeping"
        /\ \/ Stored(t) /\ Finishes(t, "teardown", "done+")
           \/ Finishes(t, "teardown", "done")
    BY <1>8, KeepCachedEffect
  <2>2. UNCHANGED <<lost, announced, gone>>
    BY <1>8 DEF keep_cached, Terminate, Unexpected, Stored, Nothing, Evicted
  <2>3. CASE Stored(t) /\ Finishes(t, "teardown", "done+")
    BY <2>1, <2>2, <2>3 DEF Finishes, Stored, Sorts, Course, Kept, Early, Storing
  <2>4. CASE Finishes(t, "teardown", "done")
    BY <2>1, <2>2, <2>4 DEF Finishes, Sorts, Course, Kept, Early, Storing
  <2> QED BY <2>1, <2>3, <2>4
<1>9. ASSUME NEW t \in Turns, say_goodbye(t) PROVE \A u \in Turns : Kept(u)'
  <2>1. /\ stage[t] = "goodbye"
        /\ \/ Asks(t, "parting", FALSE)
           \/ Finishes(t, "teardown", "done")
    BY <1>9, SayGoodbyeEffect
  <2>2. UNCHANGED <<lost, announced, gone>>
    BY <1>9 DEF say_goodbye, Terminate, Unexpected, persist
  <2>3. CASE Asks(t, "parting", FALSE)
    BY <2>1, <2>2, <2>3 DEF Asks, Sorts, Course, Kept, Early, Storing
  <2>4. CASE Finishes(t, "teardown", "done")
    BY <2>1, <2>2, <2>4 DEF Finishes, Sorts, Course, Kept, Early, Storing
  <2> QED BY <2>1, <2>3, <2>4
<1>10. ASSUME NEW t \in Turns, interview_end(t) PROVE \A u \in Turns : Kept(u)'
  <2>1. /\ stage[t] = "parting"
        /\ \/ Stored(t) /\ Finishes(t, "reporting", "interview_end+")
           \/ Finishes(t, "reporting", "interview_end")
    BY <1>10, InterviewEndEffect
  <2>2. UNCHANGED <<lost, announced, gone>>
    BY <1>10 DEF interview_end, Terminate, Unexpected, Stored, Nothing, Evicted
  <2>3. CASE Stored(t) /\ Finishes(t, "reporting", "interview_end+")
    BY <2>1, <2>2, <2>3 DEF Finishes, Stored, Sorts, Course, Kept, Early, Storing
  <2>4. CASE Finishes(t, "reporting", "interview_end")
    BY <2>1, <2>2, <2>4 DEF Finishes, Sorts, Course, Kept, Early, Storing
  <2> QED BY <2>1, <2>3, <2>4
<1>11. ASSUME NEW t \in Turns, report(t) PROVE \A u \in Turns : Kept(u)'
  BY <1>11 DEF report, Sorts, Course, Kept, Early, Storing
<1>12. ASSUME NEW t \in Turns, record_turn(t) PROVE \A u \in Turns : Kept(u)'
  BY <1>12 DEF record_turn, Sorts, Course, Kept, Early, Storing
<1>13. ASSUME NEW t \in Turns, on_error(t) PROVE \A u \in Turns : Kept(u)'
  <2>1. /\ stage[t] = "listening"
        /\ \/ announced[t] # {} /\ Asks(t, "truncating", TRUE)
           \/ (announced[t] = {} \/ gone) /\ Finishes(t, "teardown", "done")
    BY <1>13, OnErrorEffect
  <2>2. UNCHANGED <<lost, announced, gone>>
    BY <1>13 DEF on_error, Terminate, Unexpected, Heard, hears_unchanged, persist
  <2>3. CASE announced[t] # {} /\ Asks(t, "truncating", TRUE)
    BY <2>1, <2>2, <2>3 DEF Asks, Sorts, Course, Kept, Early, Storing
  <2>4. CASE (announced[t] = {} \/ gone) /\ Finishes(t, "teardown", "done")
    BY <2>1, <2>2, <2>4 DEF Finishes, Sorts, Course, Kept, Early, Storing
  <2> QED BY <2>1, <2>3, <2>4
<1>14. ASSUME NEW t \in Turns, truncated(t) PROVE \A u \in Turns : Kept(u)'
  <2>1. /\ stage[t] = "truncating"
        /\ \/ Stored(t) /\ Finishes(t, "teardown", "done~")
           \/ Finishes(t, "teardown", "done")
    BY <1>14, TruncatedEffect
  <2>2. UNCHANGED <<lost, announced, gone>>
    BY <1>14 DEF truncated, Terminate, Unexpected, Stored, Nothing, Evicted
  <2>3. CASE Stored(t) /\ Finishes(t, "teardown", "done~")
    BY <2>1, <2>2, <2>3 DEF Finishes, Stored, Sorts, Course, Kept, Early, Storing
  <2>4. CASE Finishes(t, "teardown", "done")
    BY <2>1, <2>2, <2>4 DEF Finishes, Sorts, Course, Kept, Early, Storing
  <2> QED BY <2>1, <2>3, <2>4
<1>15. ASSUME NEW t \in Turns, NEW i \in Ids, announce(t, i) PROVE \A u \in Turns : Kept(u)'
  BY <1>15 DEF announce, Terminate, Unexpected, SetTask, task_unchanged, Sorts, Course,
     Kept, Early, Storing
<1>16. ASSUME NEW t \in Turns, conclude(t) PROVE \A u \in Turns : Kept(u)'
  <2>1. /\ stage[t] = "listening"
        /\ \/ (announced[t] = {} \/ gone) /\ Finishes(t, "teardown", "done")
           \/ /\ dispatched[t] = {} \/ announced[t] # {}
              /\ Asks(t, "storing", announced[t] # {} /\ failed[t] # {})
    BY <1>16, ConcludeEffect
  <2>2. UNCHANGED <<lost, announced, gone>>
    BY <1>16 DEF conclude, Terminate, Unexpected, persist, Outstanding
  <2>3. CASE (announced[t] = {} \/ gone) /\ Finishes(t, "teardown", "done")
    BY <2>1, <2>2, <2>3 DEF Finishes, Sorts, Course, Kept, Early, Storing
  <2>4. CASE /\ dispatched[t] = {} \/ announced[t] # {}
            /\ Asks(t, "storing", announced[t] # {} /\ failed[t] # {})
    BY <2>1, <2>2, <2>4 DEF Asks, Sorts, Course, Kept, Early, Storing
  <2> QED BY <2>1, <2>3, <2>4
<1>17. ASSUME NEW t \in Turns, answered(t) PROVE \A u \in Turns : Kept(u)'
  <2>1. /\ stage[t] = "storing"
        /\ \/ Stored(t) /\ t \in mark /\ Finishes(t, "teardown", "done~")
           \/ Stored(t) /\ t \notin mark /\ Finishes(t, "teardown", "done+")
           \/ Finishes(t, "teardown", "done")
    BY <1>17, AnsweredEffect
  <2>2. UNCHANGED <<lost, announced, gone>>
    BY <1>17 DEF answered, Terminate, Unexpected, Stored, Nothing, Evicted
  <2>3. CASE Stored(t) /\ t \in mark /\ Finishes(t, "teardown", "done~")
    BY <2>1, <2>2, <2>3 DEF Finishes, Stored, Sorts, Course, Kept, Early, Storing
  <2>4. CASE Stored(t) /\ t \notin mark /\ Finishes(t, "teardown", "done+")
    BY <2>1, <2>2, <2>4 DEF Finishes, Stored, Sorts, Course, Kept, Early, Storing
  <2>5. CASE Finishes(t, "teardown", "done")
    BY <2>1, <2>2, <2>5 DEF Finishes, Sorts, Course, Kept, Early, Storing
  <2> QED BY <2>1, <2>3, <2>4, <2>5
<1>18. ASSUME NEW t \in Turns, teardown(t) PROVE \A u \in Turns : Kept(u)'
  <2>1. UNCHANGED <<lost, announced, gone, write>> /\ stage[t] = "teardown"
    BY <1>18 DEF teardown
  <2>2. \A u \in Turns \ {t} : stage'[u] = stage[u]
    BY <1>18 DEF teardown, close, Sorts
  <2> QED BY <2>1, <2>2 DEF Kept
<1>19. ASSUME NEW t \in Turns, reap(t) PROVE \A u \in Turns : Kept(u)'
  BY <1>19 DEF reap, close, sweep, Outstanding, Sorts, Course, Kept, Early, Storing
<1>20. ASSUME NEW t \in Turns, drop(t) PROVE \A u \in Turns : Kept(u)'
  BY <1>20 DEF drop, Sorts, Course, Kept, Early, Storing
<1>21. ASSUME NEW t \in Turns, disconnect(t) PROVE \A u \in Turns : Kept(u)'
  <2>1. UNCHANGED <<lost, announced, gone, write>> /\ t \in lost
    BY <1>21 DEF disconnect
  <2>2. \A u \in Turns \ {t} : stage'[u] = stage[u]
    BY <1>21 DEF disconnect, Sorts
  <2> QED BY <2>1, <2>2 DEF Kept
<1>22. ASSUME evict PROVE \A u \in Turns : Kept(u)'
  BY <1>22 DEF evict, Sorts, Course, Kept, Early, Storing
<1>23. CASE \E t \in Turns :
           \/ llm_token(t) \/ llm_flush(t) \/ llm_fails(t) \/ on_token(t)
           \/ on_sentence(t) \/ on_done(t)
           \/ \E i \in Ids : tts_starts(t, i) \/ tts_ends(t, i) \/ skip_chunk(t, i)
  <2>1. UNCHANGED <<stage, lost, announced, gone, write>>
    BY <1>23 DEF llm_token, Enqueue, thread_ends, llm_unchanged, llm_flush, llm_fails,
       tts_starts, SetTask, task_unchanged, tts_ends, on_token, Terminate, Unexpected,
       Heard, hears_unchanged, on_sentence, on_done, skip_chunk
  <2> QED BY <2>1, <1>1
<1>24. CASE UNCHANGED vars
  BY <1>24, <1>1 DEF vars
<1> QED BY <1>2, <1>3, <1>4, <1>5, <1>6, <1>7, <1>8, <1>9, <1>10, <1>11, <1>12, <1>13, <1>14,
   <1>15, <1>16, <1>17, <1>18, <1>19, <1>20, <1>21, <1>22, <1>23, <1>24 DEF Next,
   Generator, LLMThread, Synthesis, Rest

\* Each step keeps the directory tidy.
LEMMA TidyStep ==
  ASSUME Sorts, \A u \in Turns : Course(u), \A u \in Turns : Ends(u),
  \A u \in Turns : Tasks(u), \A u \in Turns : Tidy(u), [Next]_vars
  PROVE  \A u \in Turns : Tidy(u)'
<1>1. ASSUME UNCHANGED <<files, dispatched, pre, llm_stop, tts, temp, stage,
                         announced>> PROVE \A u \in Turns : Tidy(u)'
  BY <1>1 DEF Sorts, Course, Tasks, Tidy, Early, FilesOf, Files
<1>2. ASSUME NEW t \in Turns, Telling(t) PROVE \A u \in Turns : Tidy(u)'
  <2>1. Moved(t)
    BY <1>2, Moves
  <2> QED BY <2>1 DEF Moved, Sorts, Course, Tasks, Tidy, Early, FilesOf, Files
<1>3. ASSUME NEW t \in Turns, send_message_stream(t) PROVE \A u \in Turns : Tidy(u)'
  BY <1>3 DEF send_message_stream, Sorts, Course, Tasks, Tidy, Early, FilesOf, Files
<1>4. ASSUME NEW t \in Turns, begin(t) PROVE \A u \in Turns : Tidy(u)'
  BY <1>4 DEF begin, Sorts, Course, Tasks, Tidy, Early, FilesOf, Files
<1>5. ASSUME NEW t \in Turns, ask_llm(t) PROVE \A u \in Turns : Tidy(u)'
  BY <1>5 DEF ask_llm, Sorts, Course, Tasks, Tidy, Early, FilesOf, Files
<1>6. ASSUME NEW t \in Turns, report(t) PROVE \A u \in Turns : Tidy(u)'
  BY <1>6 DEF report, Sorts, Course, Tasks, Tidy, Early, FilesOf, Files
<1>7. ASSUME NEW t \in Turns, NEW i \in Ids, tts_starts(t, i) PROVE \A u \in Turns : Tidy(u)'
  <2>1. UNCHANGED <<dispatched, pre, llm_stop, temp, stage, announced>>
    BY <1>7 DEF tts_starts, task_unchanged
  <2>2. tts[t][i] = "queued" /\ i \in dispatched[t] /\ t \notin llm_stop
    BY <1>7 DEF tts_starts, Tasks, Tidy
  <2>3. \A u \in Turns \ {t} : tts'[u] = tts[u]
    BY <1>7 DEF tts_starts, SetTask, Sorts
  <2>4. files \subseteq files' /\ files' \subseteq files \cup {<<t, i>>}
    BY <1>7 DEF tts_starts
  <2>5. \A f \in files' : f \in files \/ (f[1] = t /\ f[2] = i)
    BY <2>4
  <2>6. ASSUME NEW u \in Turns \ {t} PROVE Tidy(u)'
    <3>1. {f \in files' : f[1] = u} = {f \in files : f[1] = u}
      BY <2>4, <2>5
    <3> QED BY <2>1, <2>3, <2>5, <3>1 DEF Tidy, FilesOf
  <2>7. Tidy(t)'
    BY <2>1, <2>2, <2>5 DEF Tidy
  <2> QED BY <2>6, <2>7
<1>8. ASSUME NEW t \in Turns, NEW i \in Ids, tts_ends(t, i) PROVE \A u \in Turns : Tidy(u)'
  BY <1>8 DEF tts_ends, SetTask, task_unchanged, Sorts, Course, Tasks, Tidy, Early,
     FilesOf, Files
<1>9. ASSUME NEW t \in Turns, on_sentence(t) PROVE \A u \in Turns : Tidy(u)'
  <2>1. UNCHANGED <<files, pre, llm_stop, temp, stage, announced>> /\ stage[t] = "listening"
    BY <1>9 DEF on_sentence, Heard, hears_unchanged
  <2>2. t \notin llm_stop
    BY <2>1 DEF Course
  <2>3. /\ \A u \in Turns \ {t} : tts'[u] = tts[u] /\ dispatched'[u] = dispatched[u]
        /\ dispatched[t] \subseteq dispatched'[t]
    BY <1>9 DEF on_sentence, SetTask, Sorts
  <2> QED BY <2>1, <2>2, <2>3 DEF Tidy
<1>10. ASSUME NEW t \in Turns, NEW i \in Ids, announce(t, i) PROVE \A u \in Turns : Tidy(u)'
  BY <1>10 DEF announce, Terminate, Unexpected, SetTask, task_unchanged, Sorts, Course,
     Tasks, Tidy, Early, FilesOf, Files
<1>11. ASSUME NEW t \in Turns, NEW i \in Ids, skip_chunk(t, i) PROVE \A u \in Turns : Tidy(u)'
  BY <1>11 DEF skip_chunk, Terminate, Unexpected, SetTask, task_unchanged, Sorts, Course,
     Tasks, Tidy, Early, FilesOf, Files
<1>12. ASSUME NEW t \in Turns, teardown(t) PROVE \A u \in Turns : Tidy(u)'
  BY <1>12 DEF teardown, close, sweep, Outstanding, Sorts, Course, Tasks, Tidy, Early,
     FilesOf, Files
<1>13. ASSUME NEW t \in Turns, reap(t) PROVE \A u \in Turns : Tidy(u)'
  BY <1>13 DEF reap, close, sweep, Outstanding, Sorts, Course, Tasks, Tidy, Early,
     FilesOf, Files
<1>14. ASSUME NEW t \in Turns, disconnect(t) PROVE \A u \in Turns : Tidy(u)'
  BY <1>14 DEF disconnect, Sorts, Course, Tasks, Tidy, Early, FilesOf, Files
<1>15. CASE \/ evict
         \/ \E t \in Turns :
           \/ record_turn(t) \/ llm_token(t) \/ llm_flush(t) \/ llm_fails(t)
           \/ on_token(t) \/ on_done(t) \/ drop(t)
  <2>1. UNCHANGED <<files, dispatched, pre, llm_stop, tts, temp, stage, announced>>
    BY <1>15 DEF record_turn, llm_token, Enqueue, thread_ends, llm_unchanged, llm_flush,
       llm_fails, on_token, Terminate, Unexpected, Heard, hears_unchanged, on_done, drop,
       evict
  <2> QED BY <2>1, <1>1
<1>16. CASE UNCHANGED vars
  BY <1>16, <1>1 DEF vars
<1> QED BY <1>2, <1>3, <1>4, <1>5, <1>6, <1>7, <1>8, <1>9, <1>10, <1>11, <1>12, <1>13, <1>14,
   <1>15, <1>16 DEF Next, Generator, LLMThread, Synthesis, Rest, Telling

\* Each step keeps what was announced, if the page waits.
LEMMA SafeStep ==
  ASSUME PageWaits = TRUE, Sorts, \A u \in Turns : Course(u), \A u \in Turns : Ends(u),
  \A u \in Turns : Tasks(u), \A u \in Turns : Safe(u), [Next]_vars
  PROVE  \A u \in Turns : Safe(u)'
<1>1. ASSUME UNCHANGED <<stage, files, tts, announced, llm, pre>> PROVE \A u \in Turns : Safe(u)'
  BY <1>1 DEF Sorts, Course, Tasks, Safe, UnderWay, Early, FilesOf, Files
<1>2. ASSUME NEW t \in Turns, Telling(t) PROVE \A u \in Turns : Safe(u)'
  <2>1. Moved(t)
    BY <1>2, Moves
  <2> QED BY <2>1 DEF Moved, Sorts, Course, Tasks, Safe, UnderWay, Early, FilesOf, Files
<1>3. ASSUME NEW t \in Turns, send_message_stream(t) PROVE \A u \in Turns : Safe(u)'
  BY <1>3 DEF send_message_stream, Sorts, Course, Tasks, Safe, UnderWay, Early, FilesOf,
     Files
<1>4. ASSUME NEW t \in Turns, begin(t) PROVE \A u \in Turns : Safe(u)'
  BY <1>4 DEF begin, Sorts, Course, Tasks, Safe, UnderWay, Early, FilesOf, Files
<1>5. ASSUME NEW t \in Turns, ask_llm(t) PROVE \A u \in Turns : Safe(u)'
  BY <1>5 DEF ask_llm, Sorts, Course, Tasks, Safe, UnderWay, Early, FilesOf, Files
<1>6. ASSUME NEW t \in Turns, report(t) PROVE \A u \in Turns : Safe(u)'
  BY <1>6 DEF report, Sorts, Course, Tasks, Safe, UnderWay, Early, FilesOf, Files
<1>7. ASSUME NEW t \in Turns, llm_token(t) PROVE \A u \in Turns : Safe(u)'
  BY <1>7 DEF llm_token, Enqueue, thread_ends, llm_unchanged, Sorts, Course, Tasks, Safe,
     UnderWay, Early, FilesOf, Files
<1>8. ASSUME NEW t \in Turns, llm_flush(t) PROVE \A u \in Turns : Safe(u)'
  BY <1>8 DEF llm_flush, Enqueue, thread_ends, llm_unchanged, Sorts, Course, Tasks, Safe,
     UnderWay, Early, FilesOf, Files
<1>9. ASSUME NEW t \in Turns, llm_fails(t) PROVE \A u \in Turns : Safe(u)'
  BY <1>9 DEF llm_fails, Enqueue, thread_ends, llm_unchanged, Sorts, Course, Tasks, Safe,
     UnderWay, Early, FilesOf, Files
<1>10. ASSUME NEW t \in Turns, NEW i \in Ids, tts_starts(t, i) PROVE \A u \in Turns : Safe(u)'
  <2>1. UNCHANGED <<dispatched, pre, llm, stage, announced>>
    BY <1>10 DEF tts_starts, task_unchanged
  <2>2. files \subseteq files'
    BY <1>10 DEF tts_starts
  <2>3. PICK s \in {"writing", "failed"} :
          /\ tts' = [tts EXCEPT ![t] = [tts[t] EXCEPT ![i] = s]]
          /\ s = "writing" => <<t, i>> \in files'
    BY <1>10 DEF tts_starts, SetTask
  <2>4. ASSUME NEW u \in Turns, NEW j \in Ids, stage[u] = "listening",
               tts'[u][j] \in {"writing", "spoken"}
        PROVE  <<u, j>> \in files'
    <3>1. CASE u = t /\ j = i
      BY <2>3, <2>4, <3>1 DEF Sorts
    <3>2. CASE ~(u = t /\ j = i)
      <4>1. tts'[u][j] = tts[u][j]
        BY <2>3, <3>2 DEF Sorts
      <4> QED BY <2>2, <2>4, <4>1 DEF Safe
    <3> QED BY <3>1, <3>2
  <2>5. ASSUME NEW u \in Turns PROVE Safe(u)'
    BY <2>1, <2>2, <2>4 DEF Safe, UnderWay
  <2> QED BY <2>5
<1>11. ASSUME NEW t \in Turns, NEW i \in Ids, tts_ends(t, i) PROVE \A u \in Turns : Safe(u)'
  BY <1>11 DEF tts_ends, SetTask, task_unchanged, Sorts, Course, Tasks, Safe, UnderWay,
     Early, FilesOf, Files
<1>12. ASSUME NEW t \in Turns, on_sentence(t) PROVE \A u \in Turns : Safe(u)'
  <2>1. UNCHANGED <<files, pre, llm, stage, announced>>
    BY <1>12 DEF on_sentence, Heard, hears_unchanged
  <2>2. tts' = tts \/ tts' = [tts EXCEPT ![t] = [tts[t] EXCEPT ![next_id[t]] = "queued"]]
    BY <1>12 DEF on_sentence, SetTask
  <2>3. ASSUME NEW u \in Turns,
        NEW j \in Ids PROVE tts'[u][j] = tts[u][j] \/ tts'[u][j] = "queued"
    <3>1. CASE tts' = tts
      BY <3>1
    <3>2. CASE tts' = [tts EXCEPT ![t] = [tts[t] EXCEPT ![next_id[t]] = "queued"]]
      <4>1. tts \in [Turns -> [Ids -> TaskStates]]
        BY DEF Sorts
      <4>2. CASE u # t
        BY <3>2, <4>1, <4>2
      <4>3. CASE u = t /\ j # next_id[t]
        BY <3>2, <4>1, <4>3
      <4>4. CASE u = t /\ j = next_id[t]
        BY <3>2, <4>1, <4>4
      <4> QED BY <4>2, <4>3, <4>4
    <3> QED BY <2>2, <3>1, <3>2
  <2>4. ASSUME NEW u \in Turns, NEW j \in Ids, stage[u] = "listening",
               tts'[u][j] \in {"writing", "spoken"}
        PROVE  <<u, j>> \in files
    BY <2>3, <2>4 DEF Safe
  <2>5. ASSUME NEW u \in Turns PROVE Safe(u)'
    BY <2>1, <2>4 DEF Safe, UnderWay
  <2> QED BY <2>5
<1>13. ASSUME NEW t \in Turns, NEW i \in Ids, announce(t, i) PROVE \A u \in Turns : Safe(u)'
  BY <1>13 DEF announce, Terminate, Unexpected, SetTask, task_unchanged, Sorts, Course,
     Tasks, Safe, UnderWay, Early, FilesOf, Files
<1>14. ASSUME NEW t \in Turns, NEW i \in Ids, skip_chunk(t, i) PROVE \A u \in Turns : Safe(u)'
  BY <1>14 DEF skip_chunk, Terminate, Unexpected, SetTask, task_unchanged, Sorts, Course,
     Tasks, Safe, UnderWay, Early, FilesOf, Files
<1>15. ASSUME NEW t \in Turns, teardown(t) PROVE \A u \in Turns : Safe(u)'
  BY <1>15 DEF teardown, close, sweep, Outstanding, Sorts, Course, Tasks, Safe, UnderWay,
     Early, FilesOf, Files
<1>16. ASSUME NEW t \in Turns, reap(t) PROVE \A u \in Turns : Safe(u)'
  <2>1. stage[t] = "reaping" /\ stage' = [stage EXCEPT ![t] = "closed"]
    BY <1>16 DEF reap, close
  <2>2. UNCHANGED <<tts, dispatched, announced, pre, llm>>
    BY <1>16 DEF reap
  <2>3. files' = {f \in files : \/ f[2] \notin dispatched[t]
                               \/ f \in FilesOf(t, announced[t])
                               \/ f \in pre[t]}
    BY <1>16 DEF reap, close, sweep
  <2>4. \A u \in Turns : UnderWay(u)' => u # t /\ UnderWay(u)
    BY <2>1 DEF Sorts, UnderWay
  <2>5. ASSUME NEW u \in Turns PROVE FilesOf(u, announced[u]) \subseteq files'
    <3>1. CASE u = t
      BY <2>3, <3>1 DEF Safe
    <3>2. CASE u # t /\ llm[t] = "off"
      BY <2>3, <3>2 DEF Safe, Course
    <3>3. CASE u # t /\ llm[t] # "off"
      BY <2>1, <2>3, <3>3 DEF Safe, UnderWay
    <3> QED BY <3>1, <3>2, <3>3
  <2>6. ASSUME NEW u \in Turns, stage'[u] = "listening" PROVE FALSE
    BY <2>1, <2>6 DEF Sorts, Safe, UnderWay
  <2>7. ASSUME NEW u \in Turns PROVE Safe(u)'
    BY <2>2, <2>4, <2>5, <2>6 DEF Safe
  <2> QED BY <2>7
<1>17. ASSUME NEW t \in Turns, disconnect(t) PROVE \A u \in Turns : Safe(u)'
  BY <1>17 DEF disconnect, Sorts, Course, Tasks, Safe, UnderWay, Early, FilesOf, Files
<1>18. CASE \/ evict
         \/ \E t \in Turns :
           \/ record_turn(t) \/ on_token(t) \/ on_done(t) \/ drop(t)
  <2>1. UNCHANGED <<stage, files, tts, announced, llm, pre>>
    BY <1>18 DEF record_turn, on_token, Terminate, Unexpected, Heard, hears_unchanged,
       on_done, drop, evict
  <2> QED BY <2>1, <1>1
<1>19. CASE UNCHANGED vars
  BY <1>19, <1>1 DEF vars
<1> QED BY <1>2, <1>3, <1>4, <1>5, <1>6, <1>7, <1>8, <1>9, <1>10, <1>11, <1>12, <1>13, <1>14,
   <1>15, <1>16, <1>17, <1>18, <1>19 DEF Next, Generator, LLMThread, Synthesis, Rest,
   Telling

-----------------------------------------------------------------------------
(* Theorems *)

\* The invariant holds of a process that has served nothing yet.
LEMMA Initially == Init => IInv
<1> SUFFICES ASSUME Init PROVE IInv
  OBVIOUS
<1>1. Sorts
  <2>1. <<>> \in Seq(Events) /\ <<>> \in Seq(Kinds)
    OBVIOUS
  <2>2. ending \in [Turns -> Seq(Events)] /\ queue \in [Turns -> Seq(Kinds)]
    BY <2>1 DEF Init
  <2>3. /\ stage \in [Turns -> Stages] /\ tts \in [Turns -> [Ids -> TaskStates]]
        /\ llm \in [Turns -> {"off", "running", "ended"}]
        /\ write \in [Turns -> {"no", "pending", "committed", "nothing"}]
    BY DEF Init, Stages, TaskStates
  <2>4. /\ tokens \in [Turns -> Nat] /\ next_id \in [Turns -> Nat]
        /\ dispatched \in [Turns -> SUBSET Ids] /\ announced \in [Turns -> SUBSET Ids]
        /\ failed \in [Turns -> SUBSET Ids] /\ pre \in [Turns -> SUBSET Files]
    BY DEF Init
  <2> QED BY <2>2, <2>3, <2>4 DEF Init, Sorts
<1>2. ASSUME NEW t \in Turns PROVE Room(t)
  BY TurnAssumption DEF Init, Room
<1>3. ASSUME NEW t \in Turns
      PROVE  Course(t) /\ Ends(t) /\ Names(t) /\ LastWord(t) /\ Tasks(t)
  <2>1. Course(t) /\ Tasks(t)
    BY DEF Init, Course, Tasks, Early, Storing
  <2>2. Ends(t) /\ Names(t)
    BY DEF Init, Ends, Names
  <2>3. LastWord(t)
    BY DEF Init, LastWord
  <2> QED BY <2>1, <2>2, <2>3
<1>4. ASSUME NEW t \in Turns PROVE Whole(t) /\ Kept(t) /\ Tidy(t)
  BY DEF Init, Whole, Kept, Tidy
<1> QED BY <1>1, <1>2, <1>3, <1>4 DEF IInv

\* Every step keeps it.
LEMMA Inductive == IInv /\ [Next]_vars => IInv'
<1> SUFFICES ASSUME IInv, [Next]_vars PROVE IInv'
  OBVIOUS
<1>1. /\ Sorts /\ \A t \in Turns : Room(t)
      /\ \A t \in Turns : Course(t) /\ Ends(t) /\ Names(t) /\ LastWord(t) /\ Tasks(t)
      /\ \A t \in Turns : Whole(t) /\ Kept(t) /\ Tidy(t)
  BY DEF IInv
<1>2. Sorts' /\ \A t \in Turns : Room(t)'
  BY <1>1, SortsStep, RoomStep
<1>3. \A t \in Turns : Course(t)' /\ Ends(t)' /\ Names(t)' /\ LastWord(t)' /\ Tasks(t)'
  BY <1>1, CourseStep, EndsStep, NamesStep, LastWordStep, TasksStep
<1>4. \A t \in Turns : Whole(t)' /\ Kept(t)' /\ Tidy(t)'
  BY <1>1, WholeStep, KeptStep, TidyStep
<1> QED BY <1>2, <1>3, <1>4 DEF IInv

\* The invariant of a stream, whatever its client, its provider and its store do.
THEOREM Invariant == Spec => []IInv
  BY Initially, Inductive, PTL DEF Spec

\* Every variable keeps its type, and no sentence id goes beyond the answer.
THEOREM TypeCorrect == Spec => []TypeOK
<1>1. IInv => TypeOK
  <2> SUFFICES ASSUME IInv PROVE TypeOK
    OBVIOUS
  <2>1. Sorts /\ \A t \in Turns : tokens[t] <= MaxTokens[t] /\ next_id[t] <= MaxTokens[t]
    BY LeftNat DEF IInv, Room
  <2> QED BY <2>1 DEF Sorts, TypeOK, Kinds
<1> QED BY <1>1, Invariant, PTL

\* The terminal-event contract of the stream: one terminal event, the last, and
\* none missing where the client stayed.
THEOREM OneTerminalEvent == Spec => []OneTerminal
<1>1. IInv => OneTerminal
  BY DEF IInv, Ends, OneTerminal
<1> QED BY <1>1, Invariant, PTL

\* A terminal event names a turn only when it was committed, and says of it
\* what was stored of it.
THEOREM NamedTurnsAreCommitted == Spec => []NamesCommitted
<1>1. IInv => NamesCommitted
  BY DEF IInv, Names, NamesCommitted
<1> QED BY <1>1, Invariant, PTL

\* What is stored without the mark of an incomplete turn was spoken whole.
THEOREM UnmarkedIsWhole == Spec => []WholeMeansSpoken
<1>1. IInv => WholeMeansSpoken
  BY DEF IInv, Whole, WholeMeansSpoken
<1> QED BY <1>1, Invariant, PTL

\* What a client that stayed has heard reaches the store, unless the
\* conversation was evicted.
THEOREM HeardReachesTheStore == Spec => []HeardIsKept
<1>1. IInv => HeardIsKept
  BY DEF IInv, Kept, HeardIsKept
<1> QED BY <1>1, Invariant, PTL

\* A stream that was torn down leaves no upload, no synthesis and no file that
\* was not announced.
THEOREM TornDownIsTidy == Spec => []NothingLeftBehind
<1>1. IInv => NothingLeftBehind
  <2> SUFFICES ASSUME IInv, NEW t \in Turns, stage[t] = "closed", t \in llm_stop
               PROVE  /\ t \notin temp
                      /\ \A i \in Ids : tts[t][i] \notin {"queued", "writing"}
                      /\ {f \in files : f[1] = t} \subseteq FilesOf(t, announced[t])
    BY DEF NothingLeftBehind
  <2> QED BY DEF IInv, Tidy
<1> QED BY <1>1, Invariant, PTL

\* No announced file is deleted, of a page that waits for a stream to end
\* before it starts the next turn; turn_overlap shows the page that does not.
THEOREM AnnouncedAudioSurvives ==
  ASSUME PageWaits = TRUE
  PROVE  Spec => []AnnouncedSurvives
<1> DEFINE AllSafe == \A t \in Turns : Safe(t)
<1>1. Init => AllSafe
  BY DEF Init, Safe, UnderWay, FilesOf
<1>2. IInv /\ AllSafe /\ [Next]_vars => AllSafe'
  <2> SUFFICES ASSUME IInv, AllSafe, [Next]_vars PROVE AllSafe'
    OBVIOUS
  <2>1. Sorts /\ \A t \in Turns : Course(t) /\ Ends(t) /\ Tasks(t)
    BY DEF IInv
  <2> QED BY <2>1, SafeStep
<1>3. AllSafe => AnnouncedSurvives
  BY DEF Safe, AnnouncedSurvives
<1> QED BY <1>1, <1>2, <1>3, Invariant, PTL DEF Spec
=============================================================================
