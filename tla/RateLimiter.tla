---------------------------- MODULE RateLimiter ----------------------------
(***************************************************************************)
(* The budget of a client and the page that obeys it: the sliding window   *)
(* and the body guard of backend/middleware.py, the pruning of that window *)
(* by periodic_cleanup, and what frontend/app.js sends: the creation of a  *)
(* conversation, once for each START, the turns, with the retry policy of  *)
(* the one request that writes a turn (fetchWithBackoff), and the reads    *)
(* that are exempt.                                                        *)
(*                                                                         *)
(* dispatch has no await between reading the list of an address and        *)
(* writing it back, and the pruning loop has none at all, so each is one   *)
(* action.  What is between them is the network: a request or its response *)
(* is lost, or the gateway answers in the place of the application.        *)
(*                                                                         *)
(* The clock counts fractions of a second (Second of them), because        *)
(* Retry-After is a whole number of seconds and the window is not.         *)
(***************************************************************************)
EXTENDS Integers, Sequences

CONSTANTS
  Pages,         \* browser tabs that hold an interview
  Addresses,     \* what resolve_client_ip may return, "unknown" included
  AddressOf,     \* the address each page comes from
  MaxRequests,   \* max_requests, RATE_LIMIT_PER_MINUTE
  Window,        \* window of the middleware
  PruneWindow,   \* the literal 60 of periodic_cleanup
  Second,        \* clock units in a second
  Schedule,      \* SCHEDULE_MS
  Budget,        \* MAX_TOTAL_WAIT_MS
  Flaky,         \* pages whose requests may fail on the way or in the handler
  Steady,        \* pages that leave Pace between two utterances, and create
                 \* one conversation in a Window
  Pace,          \* that distance
  MaxStarting,   \* bound: presses of START under way at a time
  MaxNow         \* bound: the clock stops here

ASSUME LimiterAssumption ==
  /\ AddressOf \in [Pages -> Addresses]
  /\ MaxRequests \in Nat \ {0} /\ Window \in Nat \ {0}
  /\ PruneWindow \in Nat /\ PruneWindow >= Window
  /\ Second \in Nat \ {0}
  /\ Schedule \in Seq(Nat) /\ Schedule # <<>>
  /\ Budget \in Nat /\ Pace \in Nat /\ MaxStarting \in Nat /\ MaxNow \in Nat
  /\ Flaky \subseteq Pages /\ Steady \subseteq Pages

\* A page without an interview.  "off": none was started, or it is over;
\* "denied": its creation met a 429; "refused": the status of an utterance was
\* shown, which ends the interview; "unsure": fetch rejected, the user was told
\* it is not known whether the turn was kept, and the interview ends too.
Inactive == {"off", "denied", "refused", "unsure"}

\* With one: where its utterance stands.  "heard": a 200 arrived and the context
\* of the turn is read next; "cut": the body was too large, and the interview
\* goes on.
Stages == Inactive \cup {"idle", "sending", "handling", "waiting", "heard", "cut"}

Bodies == {"fits", "oversized"}

VARIABLES
  now,        \* time.time()
  store,      \* _rate_limit_store; an absent key is the empty list
  served,     \* history: when each address was let through, never pruned
  body,       \* whether what was recorded exceeds MAX_AUDIO_SIZE
  page,       \* whether a page holds an interview, and where its utterance stands
  creating,   \* its POST /api/conversation under way
  attempt,    \* fetchWithBackoff: attempt
  waited,     \* fetchWithBackoff: waitedMs
  due,        \* when the pending setTimeout fires
  reached,    \* when an utterance of a steady page last reached the server
  started,    \* when a creation of a steady page was last let through
  rejections, \* history: the 429s this utterance met since something of its page
              \* was let through
  pipelines   \* history: how often this utterance started a pipeline

serverVars == <<store, served>>
retryVars == <<attempt, waited, due>>
paceVars == <<reached, started>>
clientVars == <<page, body, creating, retryVars, paceVars>>
historyVars == <<rejections, pipelines>>
vars == <<now, serverVars, clientVars, historyVars>>

-----------------------------------------------------------------------------
(* The window *)

Larger(a, b) == IF a >= b THEN a ELSE b
Smaller(a, b) == IF a <= b THEN a ELSE b

\* Mutant: entries leave the window one unit early.
Within_early(s, w) ==
  {SubSeq(s, k + 1, Len(s)) :
     k \in {j \in 0 .. Len(s) : \A i \in DOMAIN s : i <= j <=> now - s[i] >= w - 1}}

\* [t for t in s if now - t < w], as a singleton: the list is ordered, so what
\* the comprehension drops is a prefix.
Within(s, w) ==
  {SubSeq(s, k + 1, Len(s)) :
     k \in {j \in 0 .. Len(s) : \A i \in DOMAIN s : i <= j <=> now - s[i] >= w}}

\* Mutant: the seconds are truncated.
RetryAfter_truncated(oldest) ==
  {s \in 1 .. Window : s = Larger(1, (oldest + Window - now) \div Second)}

\* max(1, ceil(timestamps[0] + window - now)) as a singleton: the least whole
\* number of seconds, at least one, that covers what is left of the window.
RetryAfter(oldest) ==
  LET left == oldest + Window - now
  IN  {s \in 1 .. Window : s * Second >= left /\ (s = 1 \/ (s - 1) * Second < left)}

\* Mutant: the list of exempt paths without the evidence panel.
is_rate_limit_exempt_polls(path) == path \in {"health", "config"}

\* A turn and the creation of a conversation share a prefix with the read of the
\* panel, and stay charged.
is_rate_limit_exempt(path) == path \in {"health", "config", "context"}

\* resolve_client_ip
resolve_client_ip(p) == AddressOf[p]

Charge(a, fresh) ==
  /\ Len(fresh) < MaxRequests
  /\ store' = [store EXCEPT ![a] = Append(fresh, now)]
  /\ served' = [served EXCEPT ![a] = Append(@, now)]

\* dispatch lets a request through.
Admit(p, path) ==
  LET a == resolve_client_ip(p)
  IN  IF is_rate_limit_exempt(path) THEN UNCHANGED serverVars
      ELSE \E fresh \in Within(store[a], Window) : Charge(a, fresh)

\* Or it answers 429: the full lists, of which it writes nothing back.
Full(p, path) ==
  {fresh \in Within(store[resolve_client_ip(p)], Window) :
     ~is_rate_limit_exempt(path) /\ Len(fresh) >= MaxRequests}

-----------------------------------------------------------------------------
(* The retry policy of the page *)

\* delayFor: the waiting time as a singleton, or nothing (null).
delayFor(n, asked, spent) ==
  LET local == Schedule[Smaller(n + 1, Len(Schedule))]
  IN  {d \in {Larger(local, asked)} : spent + d <= Budget}

maxAttempts == Len(Schedule) + 1

\* Mutant: the attempts that are left are counted from a zero nobody set.
Settle_countdown(p, outcome) ==
  /\ page' = [page EXCEPT ![p] = outcome]
  /\ attempt' = [attempt EXCEPT ![p] = @ - 1]
  /\ waited' = [waited EXCEPT ![p] = 0]
  /\ due' = [due EXCEPT ![p] = 0]

\* fetchWithBackoff returns or throws: its variables are gone.
Settle(p, outcome) ==
  /\ page' = [page EXCEPT ![p] = outcome]
  /\ attempt' = [attempt EXCEPT ![p] = 0]
  /\ waited' = [waited EXCEPT ![p] = 0]
  /\ due' = [due EXCEPT ![p] = 0]

\* A response with a status: wait and send again, or surface it.  asked is
\* Retry-After in clock units, 0 when the header is absent.
Backoff(p, asked, retryable) ==
  LET delays == IF retryable /\ attempt[p] < maxAttempts - 1
                THEN delayFor(attempt[p], asked, waited[p]) ELSE {}
  IN  \/ delays = {} /\ Settle(p, "refused")
      \/ \E d \in delays :
           /\ page' = [page EXCEPT ![p] = "waiting"]
           /\ waited' = [waited EXCEPT ![p] = @ + d]
           /\ attempt' = [attempt EXCEPT ![p] = @ + 1]
           /\ due' = [due EXCEPT ![p] = now + d]

\* Mutant: a lost connection is retried like a status.
Rejected_replayed(p) == Backoff(p, 0, TRUE)

\* fetch rejected, and the request writes: it is never sent again.
Rejected(p) == Settle(p, "unsure")

-----------------------------------------------------------------------------
(* The page *)

\* START.  Nothing asks whether an earlier press is still under way.
startInterview(p) ==
  /\ page[p] \in Inactive /\ creating[p] < MaxStarting
  /\ p \in Steady => creating[p] = 0 /\ (started[p] = 0 \/ now - started[p] >= Window)
  /\ creating' = [creating EXCEPT ![p] = @ + 1]
  /\ UNCHANGED <<now, serverVars, page, body, retryVars, paceVars, historyVars>>

\* END, at any time.  A request it aborts on the way has arrived before or never
\* does, and the timer of a retry finds its signal aborted.
stopInterview(p) ==
  /\ page[p] \notin Inactive
  /\ Settle(p, "off")
  /\ \/ UNCHANGED pipelines
     \/ page[p] = "handling" /\ pipelines' = [pipelines EXCEPT ![p] = @ + 1]
  /\ UNCHANGED <<now, serverVars, body, creating, paceVars, rejections>>

\* A recorded utterance is sent for the first time.
Speak(p) ==
  /\ page[p] \in {"idle", "cut"}
  /\ p \in Steady => reached[p] = 0 \/ now - reached[p] >= Pace
  /\ page' = [page EXCEPT ![p] = "sending"]
  /\ \E b \in Bodies : body' = [body EXCEPT ![p] = b]
  /\ rejections' = [rejections EXCEPT ![p] = 0]
  /\ pipelines' = [pipelines EXCEPT ![p] = 0]
  /\ UNCHANGED <<now, serverVars, creating, retryVars, paceVars>>

\* The timer of a pending retry fires, perhaps late.
Resend(p) ==
  /\ page[p] = "waiting" /\ now >= due[p]
  /\ page' = [page EXCEPT ![p] = "sending"]
  /\ UNCHANGED <<now, serverVars, body, creating, retryVars, paceVars, historyVars>>

\* The panel of the turn: an exempt read, sent once and never retried.
fetchContext(p) ==
  /\ page[p] = "heard"
  /\ page' = [page EXCEPT ![p] = "idle"]
  /\ Admit(p, "context") \/ (Full(p, "context") # {} /\ UNCHANGED serverVars)
  /\ UNCHANGED <<now, body, creating, retryVars, paceVars, historyVars>>

-----------------------------------------------------------------------------
(* The network: a request or a response is lost, or nginx answers *)

Lose(p) ==
  /\ page[p] = "sending" /\ p \in Flaky
  /\ Rejected(p)
  /\ UNCHANGED <<now, serverVars, body, creating, paceVars, historyVars>>

\* The same for a creation, and what the gateway answers for it: START says that
\* there is no connection, and tries no second time.
LoseCreation(p) ==
  /\ creating[p] > 0 /\ p \in Flaky
  /\ creating' = [creating EXCEPT ![p] = @ - 1]
  /\ UNCHANGED <<now, serverVars, page, body, retryVars, paceVars, historyVars>>

\* 502, 503 or 504: the application has not begun to answer.
Gateway(p) ==
  /\ page[p] = "sending" /\ p \in Flaky
  /\ Backoff(p, 0, TRUE)
  /\ UNCHANGED <<now, serverVars, body, creating, paceVars, historyVars>>

-----------------------------------------------------------------------------
(* The server *)

\* MaxBodySizeMiddleware.dispatch, the outer one of the two: 413 before the
\* limiter has seen the request.  Of all statuses, this one leaves the page its
\* interview.
BodyGuard(p) ==
  /\ page[p] = "sending" /\ body[p] = "oversized"
  /\ Settle(p, "cut")
  /\ UNCHANGED <<now, serverVars, body, creating, paceVars, historyVars>>

\* RateLimitMiddleware.dispatch of a turn: let through to the route, or 429.
Dispatch(p) ==
  /\ page[p] = "sending" /\ body[p] = "fits"
  /\ \/ /\ Admit(p, "turn")
        /\ page' = [page EXCEPT ![p] = "handling"]
        /\ reached' = IF p \in Steady THEN [reached EXCEPT ![p] = now] ELSE reached
        /\ rejections' = [rejections EXCEPT ![p] = 0]
        /\ UNCHANGED retryVars
     \/ \E fresh \in Full(p, "turn") : \E s \in RetryAfter(fresh[1]) :
          /\ Backoff(p, s * Second, TRUE)
          /\ rejections' = [rejections EXCEPT ![p] = @ + 1]
          /\ UNCHANGED <<serverVars, reached>>
  /\ UNCHANGED <<now, body, creating, started, pipelines>>

\* The same of a creation.  Let through, it opens an interview, unless it fails
\* or its response is lost; a page that holds one already changes over to it.
create_conversation(p) ==
  /\ creating[p] > 0
  /\ creating' = [creating EXCEPT ![p] = @ - 1]
  /\ \/ /\ Admit(p, "conversation")
        /\ page' = IF page[p] \in Inactive THEN [page EXCEPT ![p] = "idle"] ELSE page
        /\ started' = IF p \in Steady THEN [started EXCEPT ![p] = now] ELSE started
        /\ rejections' = [rejections EXCEPT ![p] = 0]
     \/ /\ Admit(p, "conversation") /\ p \in Flaky
        /\ rejections' = [rejections EXCEPT ![p] = 0]
        /\ started' = IF p \in Steady THEN [started EXCEPT ![p] = now] ELSE started
        /\ UNCHANGED page
     \/ /\ Full(p, "conversation") # {}
        /\ page' = IF page[p] \in Inactive THEN [page EXCEPT ![p] = "denied"] ELSE page
        /\ UNCHANGED <<serverVars, started, rejections>>
  /\ UNCHANGED <<now, body, retryVars, reached, pipelines>>

\* The route refuses the turn (404, 422): charged, and not retried.
Refuse(p) ==
  /\ page[p] = "handling"
  /\ Backoff(p, 0, FALSE)
  /\ UNCHANGED <<now, serverVars, body, creating, paceVars, historyVars>>

\* The route fails before it returns its StreamingResponse: 500.
Fail(p) ==
  /\ page[p] = "handling" /\ p \in Flaky
  /\ Backoff(p, 0, TRUE)
  /\ UNCHANGED <<now, serverVars, body, creating, paceVars, historyVars>>

\* The stream starts, and with it the pipeline; its status line may be lost.
Answer(p) ==
  /\ page[p] = "handling"
  /\ pipelines' = [pipelines EXCEPT ![p] = @ + 1]
  /\ \/ Settle(p, "heard")
     \/ p \in Flaky /\ Rejected(p)
  /\ UNCHANGED <<now, serverVars, body, creating, paceVars, rejections>>

\* The pruning step of periodic_cleanup.
Prune ==
  /\ store' \in [Addresses -> UNION {Within(store[a], PruneWindow) : a \in Addresses}]
  /\ \A a \in Addresses : store'[a] \in Within(store[a], PruneWindow)
  /\ UNCHANGED <<now, served, clientVars, historyVars>>

Tick ==
  /\ now < MaxNow
  /\ now' = now + 1
  /\ UNCHANGED <<serverVars, clientVars, historyVars>>

-----------------------------------------------------------------------------
Init ==
  /\ now = 1
  /\ store = [a \in Addresses |-> <<>>]
  /\ served = [a \in Addresses |-> <<>>]
  /\ page = [p \in Pages |-> "off"]
  /\ creating = [p \in Pages |-> 0]
  /\ body = [p \in Pages |-> "fits"]
  /\ attempt = [p \in Pages |-> 0]
  /\ waited = [p \in Pages |-> 0]
  /\ due = [p \in Pages |-> 0]
  /\ reached = [p \in Pages |-> 0]
  /\ started = [p \in Pages |-> 0]
  /\ rejections = [p \in Pages |-> 0]
  /\ pipelines = [p \in Pages |-> 0]

Next ==
  \/ \E p \in Pages :
       \/ startInterview(p) \/ stopInterview(p)
       \/ Speak(p) \/ Resend(p) \/ fetchContext(p)
       \/ Lose(p) \/ LoseCreation(p) \/ Gateway(p)
       \/ BodyGuard(p) \/ Dispatch(p) \/ create_conversation(p)
       \/ Refuse(p) \/ Fail(p) \/ Answer(p)
  \/ Prune
  \/ Tick

Spec == Init /\ [][Next]_vars

-----------------------------------------------------------------------------
(* Properties *)

\* Types of the variables of the limiter and of the retry helper.
TypeOK ==
  /\ now \in Nat
  /\ store \in [Addresses -> Seq(Nat)]
  /\ served \in [Addresses -> Seq(Nat)]
  /\ page \in [Pages -> Stages]
  /\ creating \in [Pages -> Nat]
  /\ body \in [Pages -> Bodies]
  /\ attempt \in [Pages -> Nat]
  /\ waited \in [Pages -> Nat]
  /\ due \in [Pages -> Nat]
  /\ reached \in [Pages -> Nat]
  /\ started \in [Pages -> Nat]
  /\ rejections \in [Pages -> Nat]
  /\ pipelines \in [Pages -> Nat]

\* Whatever the pruning and the filtering threw away, no address is let
\* through more than MaxRequests times in any window: the request that comes
\* MaxRequests later comes at least a window later.
WindowBound ==
  \A a \in Addresses : \A i \in 1 .. (Len(served[a]) - MaxRequests) :
    served[a][i + MaxRequests] - served[a][i] >= Window

Alone(p) == \A q \in Pages : q # p => AddressOf[q] # AddressOf[p]

\* Retry-After is honest: a page with an address of its own that waits as long
\* as it was told is not rejected again, however the fractions of a second
\* fall, unless it took the place itself with the creation of a conversation.
ObeyingIsEnough == \A p \in Pages : Alone(p) => rejections[p] <= 1

\* A candidate who leaves a share of the window between two utterances is never
\* limited, although each turn is two requests wide: the read of the evidence
\* panel is free.  The creation of the conversation is not, so the shares are
\* those of one request less than the budget.
SteadyIsNeverLimited ==
  \A p \in Steady \ Flaky :
    Alone(p) /\ (MaxRequests - 1) * Pace >= Window =>
      rejections[p] = 0 /\ page[p] # "denied"

\* An utterance starts at most one pipeline however often it is sent, and one
\* that was refused with a status started none: only the loss of the
\* connection, which is told apart, leaves the user unsure.
NeverAnsweredTwice ==
  \A p \in Pages :
    /\ pipelines[p] <= 1
    /\ page[p] \in {"refused", "sending", "handling", "waiting"} => pipelines[p] = 0
=============================================================================
