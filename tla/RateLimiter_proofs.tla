------------------------ MODULE RateLimiter_proofs ------------------------
(***************************************************************************)
(* Theorems about RateLimiter, for any number of pages and addresses, any  *)
(* budget, window and retry schedule.                                      *)
(*                                                                         *)
(* The key is what the list of an address means (Ledger): it is the end of *)
(* the history of that address, and whatever was dropped from it left the  *)
(* window.  The bound on the history follows from it, and so does the      *)
(* honesty of Retry-After: the first entry of a full list is the one       *)
(* MaxRequests places from the end of the history.  For the same reason a  *)
(* page that keeps the pace never finds a full list (Pacing): of what is   *)
(* listed at most one entry is a creation, and the others are Pace apart.  *)
(***************************************************************************)
EXTENDS RateLimiter, SequenceTheorems, TLAPS

\* st is what is left of sv: its end, never longer than the budget, and what
\* is missing left the window.  The history is in order and not in the future.
Ledger(st, sv) ==
  /\ Len(st) <= Len(sv) /\ Len(st) <= MaxRequests
  /\ \A i \in 1 .. Len(st) : st[i] = sv[Len(sv) - Len(st) + i]
  /\ \A i \in 1 .. (Len(sv) - Len(st)) : sv[i] + Window <= now
  /\ \A i \in 1 .. Len(sv) : sv[i] <= now
  /\ \A i, j \in 1 .. Len(sv) : i <= j => sv[i] <= sv[j]

Spaced(sv) ==
  \A i \in 1 .. (Len(sv) - MaxRequests) : sv[i + MaxRequests] - sv[i] >= Window

Books == \A a \in Addresses : Ledger(store[a], served[a]) /\ Spaced(served[a])

\* At time t an address with history sv has room for one more.
RoomAt(sv, t) ==
  Len(sv) >= MaxRequests => sv[Len(sv) - MaxRequests + 1] + Window <= t

\* What a page with an address of its own may rely on after a rejection.
Promise(p) ==
  Alone(p) =>
    /\ rejections[p] <= 1
    /\ page[p] = "handling" => rejections[p] = 0
    /\ rejections[p] = 1 /\ page[p] = "waiting" => RoomAt(served[AddressOf[p]], due[p])
    /\ rejections[p] = 1 /\ page[p] = "sending" => RoomAt(served[AddressOf[p]], now)

Promises == \A p \in Pages : Promise(p)

-----------------------------------------------------------------------------
(* Lemmas about the operators *)

\* Filtering keeps an end of the list whose entries are young, and drops only
\* entries that are not.
LEMMA WithinIsEnd ==
  ASSUME NEW s \in Seq(Nat), NEW w \in Nat, now \in Nat, NEW f \in Within(s, w)
  PROVE  /\ f \in Seq(Nat) /\ Len(f) <= Len(s)
         /\ \A i \in 1 .. Len(f) : f[i] = s[Len(s) - Len(f) + i] /\ f[i] + w > now
         /\ \A i \in 1 .. (Len(s) - Len(f)) : s[i] + w <= now
<1>1. PICK k \in 0 .. Len(s) :
         /\ f = SubSeq(s, k + 1, Len(s))
         /\ \A i \in DOMAIN s : i <= k <=> now - s[i] >= w
  BY DEF Within
<1>0. k \in Nat /\ Len(s) \in Nat /\ k <= Len(s)
  OBVIOUS
<1>2. k \in Nat /\ k + 1 \in Nat /\ Len(s) \in Nat /\ k <= Len(s) /\ DOMAIN s = 1 .. Len(s)
  OBVIOUS
<1>3. \A i \in k + 1 .. Len(s) : s[i] \in Nat
  BY <1>2
<1>4. /\ f \in Seq(Nat) /\ Len(f) = Len(s) - k
      /\ \A i \in 1 .. Len(f) : f[i] = s[k + i]
  <2>1. /\ f \in Seq(Nat)
        /\ Len(f) = (IF k + 1 <= Len(s) THEN Len(s) - (k + 1) + 1 ELSE 0)
        /\ \A i \in 1 .. Len(s) - (k + 1) + 1 : f[i] = s[k + 1 + i - 1]
    BY <1>1, <1>2, <1>3, SubSeqProperties
  <2>2. Len(f) = Len(s) - k
    <3>1. CASE k + 1 <= Len(s)
      BY <2>1, <1>2, <3>1
    <3>2. CASE ~ (k + 1 <= Len(s))
      <4>1. Len(f) = 0
        BY <2>1, <3>2
      <4>2. k = Len(s)
        BY <1>0, <3>2
      <4> QED BY <4>1, <4>2, <1>2
    <3> QED BY <3>1, <3>2
  <2> QED BY <2>1, <2>2, <1>2
<1>5. \A i \in 1 .. Len(s) : s[i] \in Nat
  BY <1>2
<1>6. \A i \in 1 .. Len(f) : f[i] = s[Len(s) - Len(f) + i] /\ f[i] + w > now
  <2> TAKE i \in 1 .. Len(f)
  <2>1. k + i \in 1 .. Len(s) /\ ~ (k + i <= k)
    BY <1>2, <1>4
  <2>2. ~ (now - s[k + i] >= w)
    BY <1>1, <1>2, <2>1
  <2> QED BY <1>2, <1>4, <1>5, <2>1, <2>2
<1>7. \A i \in 1 .. (Len(s) - Len(f)) : s[i] + w <= now
  <2> TAKE i \in 1 .. (Len(s) - Len(f))
  <2>1. i \in 1 .. Len(s) /\ i <= k
    BY <1>2, <1>4
  <2>2. now - s[i] >= w
    BY <1>1, <1>2, <2>1
  <2> QED BY <1>5, <2>1, <2>2
<1> QED BY <1>2, <1>4, <1>6, <1>7

\* What is filtered out of a ledger with at least the middleware's window
\* leaves a ledger.
LEMMA FilteredLedger ==
  ASSUME NEW st \in Seq(Nat), NEW sv \in Seq(Nat), now \in Nat, Ledger(st, sv),
         NEW w \in Nat, w >= Window, NEW f \in Within(st, w)
  PROVE  Ledger(f, sv)
<1>1. /\ f \in Seq(Nat) /\ Len(f) <= Len(st)
      /\ \A i \in 1 .. Len(f) : f[i] = st[Len(st) - Len(f) + i]
      /\ \A i \in 1 .. (Len(st) - Len(f)) : st[i] + w <= now
  BY WithinIsEnd
<1>2. Len(st) \in Nat /\ Len(sv) \in Nat /\ Len(f) \in Nat /\ Len(st) <= Len(sv)
      /\ Window \in Nat /\ MaxRequests \in Nat /\ Len(st) <= MaxRequests
  BY <1>1, LimiterAssumption DEF Ledger
<1>3. \A i \in 1 .. Len(sv) : sv[i] \in Nat
  OBVIOUS
<1>4. \A i \in 1 .. Len(f) : f[i] = sv[Len(sv) - Len(f) + i]
  <2> TAKE i \in 1 .. Len(f)
  <2>1. Len(st) - Len(f) + i \in 1 .. Len(st)
    BY <1>1, <1>2
  <2>2. st[Len(st) - Len(f) + i] = sv[Len(sv) - Len(st) + (Len(st) - Len(f) + i)]
    BY <2>1 DEF Ledger
  <2>3. Len(sv) - Len(st) + (Len(st) - Len(f) + i) = Len(sv) - Len(f) + i
    BY <1>2
  <2> QED BY <1>1, <2>2, <2>3
<1>5. \A i \in 1 .. (Len(sv) - Len(f)) : sv[i] + Window <= now
  <2> TAKE i \in 1 .. (Len(sv) - Len(f))
  <2>1. CASE i <= Len(sv) - Len(st)
    BY <2>1, <1>2 DEF Ledger
  <2>2. CASE i > Len(sv) - Len(st)
    <3> DEFINE j == i - (Len(sv) - Len(st))
    <3>1. j \in 1 .. (Len(st) - Len(f)) /\ j \in 1 .. Len(st) /\ Len(sv) - Len(st) + j = i
      BY <1>1, <1>2, <2>2
    <3>2. st[j] + w <= now
      BY <1>1, <3>1
    <3>3. st[j] = sv[i] /\ i \in 1 .. Len(sv)
      BY <3>1, <1>2 DEF Ledger
    <3> QED BY <3>2, <3>3, <1>2, <1>3
  <2> QED BY <2>1, <2>2, <1>2
<1> QED BY <1>1, <1>2, <1>4, <1>5 DEF Ledger

\* Letting one more through keeps the books.
LEMMA ChargedLedger ==
  ASSUME NEW f \in Seq(Nat), NEW sv \in Seq(Nat), now \in Nat, Ledger(f, sv),
         Spaced(sv), Len(f) < MaxRequests
  PROVE  Ledger(Append(f, now), Append(sv, now)) /\ Spaced(Append(sv, now))
<1> DEFINE g == Append(f, now)
           tv == Append(sv, now)
<1>1. /\ Len(f) \in Nat /\ Len(sv) \in Nat /\ Len(f) <= Len(sv)
      /\ Window \in Nat \ {0} /\ MaxRequests \in Nat \ {0}
  BY LimiterAssumption DEF Ledger
<1>2. Len(g) = Len(f) + 1 /\ Len(tv) = Len(sv) + 1
  OBVIOUS
<1>3. /\ \A i \in 1 .. Len(f) : g[i] = f[i]
      /\ \A i \in 1 .. Len(sv) : tv[i] = sv[i] /\ sv[i] \in Nat
      /\ g[Len(f) + 1] = now /\ tv[Len(sv) + 1] = now
  OBVIOUS
<1> HIDE DEF g, tv
<1>4. \A i \in 1 .. Len(g) : g[i] = tv[Len(tv) - Len(g) + i]
  <2> TAKE i \in 1 .. Len(g)
  <2>1. CASE i = Len(f) + 1
    BY <2>1, <1>1, <1>2, <1>3
  <2>2. CASE i \in 1 .. Len(f)
    <3>1. f[i] = sv[Len(sv) - Len(f) + i] /\ Len(sv) - Len(f) + i \in 1 .. Len(sv)
      BY <2>2, <1>1 DEF Ledger
    <3>2. Len(tv) - Len(g) + i = Len(sv) - Len(f) + i
      BY <1>1, <1>2, <2>2
    <3> QED BY <3>1, <3>2, <1>3, <2>2
  <2> QED BY <2>1, <2>2, <1>1, <1>2
<1>5. \A i \in 1 .. (Len(tv) - Len(g)) : tv[i] + Window <= now
  <2> TAKE i \in 1 .. (Len(tv) - Len(g))
  <2>1. i \in 1 .. (Len(sv) - Len(f)) /\ i \in 1 .. Len(sv)
    BY <1>1, <1>2
  <2> QED BY <2>1, <1>3 DEF Ledger
<1>6. \A i \in 1 .. Len(tv) : tv[i] <= now
  <2> TAKE i \in 1 .. Len(tv)
  <2>1. CASE i = Len(sv) + 1
    BY <2>1, <1>3
  <2>2. CASE i \in 1 .. Len(sv)
    BY <2>2, <1>3 DEF Ledger
  <2> QED BY <2>1, <2>2, <1>1, <1>2
<1>7. \A i, j \in 1 .. Len(tv) : i <= j => tv[i] <= tv[j]
  <2> TAKE i, j \in 1 .. Len(tv)
  <2>1. CASE j = Len(sv) + 1
    BY <2>1, <1>3, <1>6
  <2>2. CASE j \in 1 .. Len(sv)
    <3> SUFFICES ASSUME i <= j PROVE tv[i] <= tv[j]
      OBVIOUS
    <3>1. i \in 1 .. Len(sv)
      BY <2>2, <1>1, <1>2
    <3>2. sv[i] <= sv[j]
      BY <2>2, <3>1 DEF Ledger
    <3> QED BY <2>2, <3>1, <3>2, <1>3
  <2> QED BY <2>1, <2>2, <1>1, <1>2
<1>8. ASSUME NEW i \in 1 .. (Len(tv) - MaxRequests)
      PROVE  tv[i + MaxRequests] - tv[i] >= Window
  <2>1. i \in 1 .. Len(sv) /\ i + MaxRequests \in 1 .. Len(tv)
    BY <1>1, <1>2
  <2>2. CASE i + MaxRequests <= Len(sv)
    <3>1. i \in 1 .. (Len(sv) - MaxRequests) /\ i + MaxRequests \in 1 .. Len(sv)
      BY <2>1, <2>2, <1>1
    <3> QED BY <3>1, <2>1, <1>3 DEF Spaced
  <2>3. CASE i + MaxRequests = Len(sv) + 1
    <3>1. i \in 1 .. (Len(sv) - Len(f))
      BY <2>1, <2>3, <1>1
    <3>2. sv[i] + Window <= now
      BY <3>1 DEF Ledger
    <3> QED BY <3>2, <2>1, <2>3, <1>1, <1>3
  <2> QED BY <2>1, <2>2, <2>3, <1>1, <1>2
<1>9. Ledger(g, tv) /\ Spaced(tv)
  BY <1>1, <1>2, <1>4, <1>5, <1>6, <1>7, <1>8 DEF Ledger, Spaced
<1> QED BY <1>9 DEF g, tv

\* A page that waits as long as it is told waits until the oldest entry left.
LEMMA WaitIsEnough ==
  ASSUME NEW oldest \in Nat, now \in Nat, NEW s \in RetryAfter(oldest)
  PROVE  s * Second \in Nat /\ oldest + Window <= now + s * Second
<1>1. s \in Nat /\ Second \in Nat /\ Window \in Nat
  BY LimiterAssumption DEF RetryAfter
<1>2. s * Second \in Nat /\ s * Second >= oldest + Window - now
  BY <1>1 DEF RetryAfter
<1> QED BY <1>1, <1>2

\* delayFor never waits less than the server asked for.
LEMMA DelayRespectsServer ==
  ASSUME NEW n \in Nat, NEW asked \in Nat, NEW spent \in Nat,
         NEW d \in delayFor(n, asked, spent)
  PROVE  d \in Nat /\ d >= asked
<1>1. Len(Schedule) \in Nat \ {0} /\ \A i \in 1 .. Len(Schedule) : Schedule[i] \in Nat
  BY LimiterAssumption
<1>2. Smaller(n + 1, Len(Schedule)) \in 1 .. Len(Schedule)
  BY <1>1 DEF Smaller
<1>3. Schedule[Smaller(n + 1, Len(Schedule))] \in Nat
  BY <1>1, <1>2
<1> QED BY <1>3 DEF delayFor, Larger

-----------------------------------------------------------------------------
(* Type correctness *)

\* What the retry helper does keeps its variables typed, and does nothing else
\* to the page than to send it waiting or to settle it.
LEMMA BackoffStep ==
  ASSUME TypeOK, NEW p \in Pages, NEW asked \in Nat, NEW retryable \in BOOLEAN,
         Backoff(p, asked, retryable)
  PROVE  /\ page' \in [Pages -> Stages] /\ attempt' \in [Pages -> Nat]
         /\ waited' \in [Pages -> Nat] /\ due' \in [Pages -> Nat]
         /\ page'[p] \in {"refused", "waiting"}
         /\ \A q \in Pages : q # p => page'[q] = page[q] /\ due'[q] = due[q]
         /\ page'[p] = "waiting" => due'[p] >= now + asked
<1>1. CASE Settle(p, "refused")
  BY <1>1 DEF Settle, TypeOK, Stages, Inactive
<1>2. ASSUME NEW n \in Nat, NEW d \in delayFor(attempt[p], asked, waited[p]),
             /\ page' = [page EXCEPT ![p] = "waiting"]
             /\ waited' = [waited EXCEPT ![p] = @ + d]
             /\ attempt' = [attempt EXCEPT ![p] = @ + 1]
             /\ due' = [due EXCEPT ![p] = now + d]
      PROVE  /\ page' \in [Pages -> Stages] /\ attempt' \in [Pages -> Nat]
             /\ waited' \in [Pages -> Nat] /\ due' \in [Pages -> Nat]
             /\ page'[p] \in {"refused", "waiting"}
             /\ \A q \in Pages : q # p => page'[q] = page[q] /\ due'[q] = due[q]
             /\ page'[p] = "waiting" => due'[p] >= now + asked
  <2>1. attempt[p] \in Nat /\ waited[p] \in Nat /\ now \in Nat
    BY DEF TypeOK
  <2>2. d \in Nat /\ d >= asked
    BY <1>2, <2>1, DelayRespectsServer
  <2>3. attempt' \in [Pages -> Nat] /\ waited' \in [Pages -> Nat]
    BY <1>2, <2>1, <2>2 DEF TypeOK
  <2>4. page' \in [Pages -> Stages] /\ page'[p] = "waiting"
    BY <1>2 DEF TypeOK, Stages
  <2>5. due' \in [Pages -> Nat] /\ due'[p] = now + d
    BY <1>2, <2>1, <2>2 DEF TypeOK
  <2>6. \A q \in Pages : q # p => page'[q] = page[q] /\ due'[q] = due[q]
    BY <1>2 DEF TypeOK
  <2> QED BY <2>1, <2>2, <2>3, <2>4, <2>5, <2>6
<1> QED BY <1>1, <1>2 DEF Backoff

\* Settling keeps the variables typed.
LEMMA SettleStep ==
  ASSUME TypeOK, NEW p \in Pages, NEW o \in Stages, Settle(p, o)
  PROVE  /\ page' \in [Pages -> Stages] /\ attempt' \in [Pages -> Nat]
         /\ waited' \in [Pages -> Nat] /\ due' \in [Pages -> Nat]
         /\ page'[p] = o
         /\ \A q \in Pages : q # p => page'[q] = page[q] /\ due'[q] = due[q]
BY DEF Settle, TypeOK

\* Of what the limiter lets through, a turn and a creation are charged.
LEMMA AdmitCharges ==
  ASSUME NEW p \in Pages, NEW path \in {"turn", "conversation"}, Admit(p, path)
  PROVE  \E f \in Within(store[AddressOf[p]], Window) : Charge(AddressOf[p], f)
BY DEF Admit, is_rate_limit_exempt, resolve_client_ip

\* The panel is not.
LEMMA ContextIsFree ==
  ASSUME NEW p \in Pages, fetchContext(p)
  PROVE  UNCHANGED serverVars
BY DEF fetchContext, Admit, is_rate_limit_exempt

\* A charge keeps the ledgers.
LEMMA AdmitBooks ==
  ASSUME TypeOK, Books, NEW p \in Pages, NEW path \in {"turn", "conversation"},
         Admit(p, path), now' = now
  PROVE  /\ store' \in [Addresses -> Seq(Nat)] /\ served' \in [Addresses -> Seq(Nat)]
         /\ Books'
<1> DEFINE a == AddressOf[p]
<1>0. a \in Addresses
  BY LimiterAssumption
<1>1. store[a] \in Seq(Nat) /\ served[a] \in Seq(Nat) /\ now \in Nat
      /\ Ledger(store[a], served[a]) /\ Spaced(served[a]) /\ Window \in Nat
  BY <1>0, LimiterAssumption DEF TypeOK, Books
<1>2. PICK f \in Within(store[a], Window) : Charge(a, f)
  BY AdmitCharges
<1> HIDE DEF a
<1>3. f \in Seq(Nat) /\ Ledger(f, served[a])
  <2>1. store[a] \in Seq(Nat) /\ served[a] \in Seq(Nat) /\ Window \in Nat /\ now \in Nat
        /\ Ledger(store[a], served[a]) /\ Window >= Window
    BY <1>1
  <2>2. f \in Seq(Nat)
    BY <2>1, WithinIsEnd
  <2>3. Ledger(f, served[a])
    BY <2>1, FilteredLedger
  <2> QED BY <2>2, <2>3
<1>4. /\ Ledger(Append(f, now), Append(served[a], now))
      /\ Spaced(Append(served[a], now))
  BY <1>1, <1>2, <1>3, ChargedLedger DEF Charge
<1>5. /\ store' = [store EXCEPT ![a] = Append(f, now)]
      /\ served' = [served EXCEPT ![a] = Append(served[a], now)]
  BY <1>2 DEF Charge
<1>6. Append(f, now) \in Seq(Nat) /\ Append(served[a], now) \in Seq(Nat)
  BY <1>1, <1>3
<1>7. store' \in [Addresses -> Seq(Nat)] /\ served' \in [Addresses -> Seq(Nat)]
  BY <1>5, <1>6 DEF TypeOK
<1>8. ASSUME NEW b \in Addresses
      PROVE  Ledger(store[b], served[b])' /\ Spaced(served[b])'
  <2>1. CASE b = a
    BY <2>1, <1>4, <1>5 DEF TypeOK, Ledger, Spaced
  <2>2. CASE b # a
    <3>1. store'[b] = store[b] /\ served'[b] = served[b]
      BY <2>2, <1>5 DEF TypeOK
    <3> QED BY <3>1 DEF Books, Ledger, Spaced
  <2> QED BY <2>1, <2>2
<1> QED BY <1>7, <1>8 DEF Books, Ledger, Spaced

\* An action that leaves the limiter and the clock alone leaves the books alone.
LEMMA QuietBooks ==
  ASSUME TypeOK, Books, UNCHANGED <<now, serverVars>>
  PROVE  Books' /\ now' \in Nat /\ store' \in [Addresses -> Seq(Nat)]
         /\ served' \in [Addresses -> Seq(Nat)]
BY DEF TypeOK, Books, Ledger, Spaced, serverVars

\* Every step keeps the types and the books.
LEMMA TypeAndBooksStep ==
  ASSUME TypeOK, Books, [Next]_vars
  PROVE  TypeOK' /\ Books'
<1> USE DEF historyVars, retryVars, paceVars
<1>1. ASSUME NEW p \in Pages, Speak(p)
      PROVE  TypeOK' /\ Books'
  <2>1. Books' /\ now' \in Nat /\ store' \in [Addresses -> Seq(Nat)]
         /\ served' \in [Addresses -> Seq(Nat)]
    BY <1>1, QuietBooks DEF Speak
  <2> QED BY <1>1, <2>1 DEF Speak, TypeOK, Stages, Inactive
<1>2. ASSUME NEW p \in Pages, Resend(p)
      PROVE  TypeOK' /\ Books'
  <2>1. Books' /\ now' \in Nat /\ store' \in [Addresses -> Seq(Nat)]
         /\ served' \in [Addresses -> Seq(Nat)]
    BY <1>2, QuietBooks DEF Resend
  <2> QED BY <1>2, <2>1 DEF Resend, TypeOK, Stages, Inactive
<1>3. ASSUME NEW p \in Pages, fetchContext(p)
      PROVE  TypeOK' /\ Books'
  <2>1. UNCHANGED serverVars
    BY <1>3, ContextIsFree
  <2>2. Books' /\ now' \in Nat /\ store' \in [Addresses -> Seq(Nat)]
         /\ served' \in [Addresses -> Seq(Nat)]
    BY <1>3, <2>1, QuietBooks DEF fetchContext
  <2> QED BY <1>3, <2>2 DEF fetchContext, TypeOK, Stages, Inactive
<1>4. ASSUME NEW p \in Pages, Lose(p)
      PROVE  TypeOK' /\ Books'
  <2>1. Books' /\ now' \in Nat /\ store' \in [Addresses -> Seq(Nat)]
         /\ served' \in [Addresses -> Seq(Nat)]
    BY <1>4, QuietBooks DEF Lose
  <2>2. "unsure" \in Stages /\ Settle(p, "unsure")
    BY <1>4 DEF Lose, Rejected, Stages, Inactive
  <2> QED BY <1>4, <2>1, <2>2, SettleStep DEF Lose, TypeOK
<1>5. ASSUME NEW p \in Pages, Gateway(p) \/ BodyGuard(p) \/ Refuse(p) \/ Fail(p)
      PROVE  TypeOK' /\ Books'
  <2>1. UNCHANGED <<now, serverVars, body, creating, paceVars, historyVars>>
    BY <1>5 DEF Gateway, BodyGuard, Refuse, Fail
  <2>2. Books' /\ now' \in Nat /\ store' \in [Addresses -> Seq(Nat)]
         /\ served' \in [Addresses -> Seq(Nat)]
    BY <2>1, QuietBooks
  <2>3. Backoff(p, 0, TRUE) \/ Backoff(p, 0, FALSE) \/ Settle(p, "cut")
    BY <1>5 DEF Gateway, BodyGuard, Refuse, Fail
  <2>4. "cut" \in Stages
    BY DEF Stages
  <2>5. /\ page' \in [Pages -> Stages] /\ attempt' \in [Pages -> Nat]
        /\ waited' \in [Pages -> Nat] /\ due' \in [Pages -> Nat]
    BY <2>3, <2>4, BackoffStep, SettleStep
  <2> QED BY <2>1, <2>2, <2>5 DEF TypeOK
<1>6. ASSUME NEW p \in Pages, Dispatch(p)
      PROVE  TypeOK' /\ Books'
  <2>1. now \in Nat /\ now' = now /\ body' = body /\ pipelines' = pipelines
        /\ creating' = creating /\ started' = started
    BY <1>6 DEF Dispatch, TypeOK
  <2>2. CASE /\ Admit(p, "turn")
             /\ page' = [page EXCEPT ![p] = "handling"]
             /\ reached' = IF p \in Steady THEN [reached EXCEPT ![p] = now] ELSE reached
             /\ rejections' = [rejections EXCEPT ![p] = 0]
             /\ UNCHANGED retryVars
    <3>0. Books' /\ store' \in [Addresses -> Seq(Nat)] /\ served' \in [Addresses -> Seq(Nat)]
      BY <2>1, <2>2, AdmitBooks
    <3>1. page' \in [Pages -> Stages]
      BY <2>2 DEF TypeOK, Stages
    <3>2. reached' \in [Pages -> Nat] /\ rejections' \in [Pages -> Nat]
      BY <2>1, <2>2 DEF TypeOK
    <3>3. attempt' = attempt /\ waited' = waited /\ due' = due
      BY <2>2
    <3> QED BY <2>1, <3>0, <3>1, <3>2, <3>3 DEF TypeOK
  <2>3. ASSUME NEW f \in Full(p, "turn"), NEW s \in RetryAfter(f[1]),
               /\ Backoff(p, s * Second, TRUE)
               /\ rejections' = [rejections EXCEPT ![p] = @ + 1]
               /\ UNCHANGED <<serverVars, reached>>
        PROVE  TypeOK' /\ Books'
    <3>0. Books' /\ now' \in Nat /\ store' \in [Addresses -> Seq(Nat)]
          /\ served' \in [Addresses -> Seq(Nat)]
      BY <2>1, <2>3, QuietBooks
    <3>1. s * Second \in Nat
      BY LimiterAssumption DEF RetryAfter
    <3>2. /\ page' \in [Pages -> Stages] /\ attempt' \in [Pages -> Nat]
          /\ waited' \in [Pages -> Nat] /\ due' \in [Pages -> Nat]
      BY <2>3, <3>1, BackoffStep
    <3>3. reached' \in [Pages -> Nat] /\ rejections' \in [Pages -> Nat]
      BY <2>3 DEF TypeOK
    <3> QED BY <2>1, <3>0, <3>2, <3>3 DEF TypeOK
  <2> QED BY <1>6, <2>2, <2>3 DEF Dispatch
<1>11. ASSUME NEW p \in Pages, create_conversation(p)
      PROVE  TypeOK' /\ Books'
  <2>1. now \in Nat /\ now' = now /\ body' = body /\ pipelines' = pipelines
        /\ reached' = reached /\ attempt' = attempt /\ waited' = waited /\ due' = due
    BY <1>11 DEF create_conversation, TypeOK
  <2>2. creating' \in [Pages -> Nat]
    BY <1>11 DEF create_conversation, TypeOK
  <2>3. Books' /\ store' \in [Addresses -> Seq(Nat)] /\ served' \in [Addresses -> Seq(Nat)]
    <3>1. CASE Admit(p, "conversation")
      BY <2>1, <3>1, AdmitBooks
    <3>2. CASE UNCHANGED serverVars
      BY <2>1, <3>2, QuietBooks
    <3> QED BY <1>11, <3>1, <3>2 DEF create_conversation
  <2>4. page' \in [Pages -> Stages]
    BY <1>11 DEF create_conversation, TypeOK, Stages, Inactive
  <2>5. started' \in [Pages -> Nat] /\ rejections' \in [Pages -> Nat]
    <3>1. started' \in {started, [started EXCEPT ![p] = now]}
      BY <1>11 DEF create_conversation
    <3>2. rejections' \in {rejections, [rejections EXCEPT ![p] = 0]}
      BY <1>11 DEF create_conversation
    <3>3. now \in Nat /\ started \in [Pages -> Nat] /\ rejections \in [Pages -> Nat]
      BY DEF TypeOK
    <3>4. started' \in [Pages -> Nat]
      BY <3>1, <3>3
    <3>5. rejections' \in [Pages -> Nat]
      BY <3>2, <3>3
    <3> QED BY <3>4, <3>5
  <2>6. /\ now' \in Nat /\ body' \in [Pages -> Bodies] /\ pipelines' \in [Pages -> Nat]
        /\ reached' \in [Pages -> Nat] /\ attempt' \in [Pages -> Nat]
        /\ waited' \in [Pages -> Nat] /\ due' \in [Pages -> Nat]
    BY <2>1 DEF TypeOK
  <2> QED BY <2>2, <2>3, <2>4, <2>5, <2>6 DEF TypeOK
<1>12. ASSUME NEW p \in Pages, startInterview(p) \/ LoseCreation(p)
      PROVE  TypeOK' /\ Books'
  <2>1. UNCHANGED <<now, serverVars, page, body, retryVars, paceVars, historyVars>>
    BY <1>12 DEF startInterview, LoseCreation
  <2>2. Books' /\ now' \in Nat /\ store' \in [Addresses -> Seq(Nat)]
         /\ served' \in [Addresses -> Seq(Nat)]
    BY <2>1, QuietBooks
  <2>3. creating' \in [Pages -> Nat]
    <3>1. creating \in [Pages -> Nat]
      BY DEF TypeOK
    <3>2. \/ creating' = [creating EXCEPT ![p] = @ + 1]
          \/ creating[p] > 0 /\ creating' = [creating EXCEPT ![p] = @ - 1]
      BY <1>12 DEF startInterview, LoseCreation
    <3> QED BY <3>1, <3>2
  <2> QED BY <2>1, <2>2, <2>3 DEF TypeOK
<1>13. ASSUME NEW p \in Pages, stopInterview(p)
      PROVE  TypeOK' /\ Books'
  <2>1. UNCHANGED <<now, serverVars, body, creating, paceVars, rejections>>
    BY <1>13 DEF stopInterview
  <2>2. Books' /\ now' \in Nat /\ store' \in [Addresses -> Seq(Nat)]
         /\ served' \in [Addresses -> Seq(Nat)]
    BY <2>1, QuietBooks
  <2>3. Settle(p, "off") /\ "off" \in Stages
    BY <1>13 DEF stopInterview, Stages, Inactive
  <2>4. /\ page' \in [Pages -> Stages] /\ attempt' \in [Pages -> Nat]
        /\ waited' \in [Pages -> Nat] /\ due' \in [Pages -> Nat]
    BY <2>3, SettleStep
  <2>5. pipelines' \in [Pages -> Nat]
    <3>1. pipelines \in [Pages -> Nat]
      BY DEF TypeOK
    <3>2. pipelines' = pipelines \/ pipelines' = [pipelines EXCEPT ![p] = @ + 1]
      BY <1>13 DEF stopInterview
    <3> QED BY <3>1, <3>2
  <2> QED BY <2>1, <2>2, <2>4, <2>5 DEF TypeOK
<1>7. ASSUME NEW p \in Pages, Answer(p)
      PROVE  TypeOK' /\ Books'
  <2>1. Books' /\ now' \in Nat /\ store' \in [Addresses -> Seq(Nat)]
         /\ served' \in [Addresses -> Seq(Nat)]
    BY <1>7, QuietBooks DEF Answer
  <2>2. "unsure" \in Stages /\ "heard" \in Stages
        /\ (Settle(p, "unsure") \/ Settle(p, "heard"))
    BY <1>7 DEF Answer, Rejected, Stages, Inactive
  <2>3. /\ page' \in [Pages -> Stages] /\ attempt' \in [Pages -> Nat]
        /\ waited' \in [Pages -> Nat] /\ due' \in [Pages -> Nat]
    BY <2>2, SettleStep
  <2>4. /\ pipelines' \in [Pages -> Nat] /\ rejections' \in [Pages -> Nat]
        /\ body' \in [Pages -> Bodies] /\ reached' \in [Pages -> Nat]
        /\ creating' \in [Pages -> Nat] /\ started' \in [Pages -> Nat]
    BY <1>7 DEF Answer, TypeOK
  <2> QED BY <2>1, <2>3, <2>4 DEF TypeOK
<1>8. CASE Prune
  <2>1. now' = now /\ served' = served /\ now \in Nat
    BY <1>8 DEF Prune, TypeOK
  <2>2. ASSUME NEW a \in Addresses
        PROVE  /\ store'[a] \in Seq(Nat)
               /\ Ledger(store[a], served[a])' /\ Spaced(served[a])'
    <3>1. store[a] \in Seq(Nat) /\ served[a] \in Seq(Nat)
          /\ Ledger(store[a], served[a]) /\ Spaced(served[a])
      BY DEF TypeOK, Books
    <3>2. store'[a] \in Within(store[a], PruneWindow)
      BY <1>8 DEF Prune
    <3>3. store'[a] \in Seq(Nat)
      BY <2>1, <3>1, <3>2, LimiterAssumption, WithinIsEnd
    <3>4. Ledger(store'[a], served[a])
      BY <2>1, <3>1, <3>2, LimiterAssumption, FilteredLedger
    <3> QED BY <2>1, <3>1, <3>3, <3>4 DEF Ledger, Spaced
  <2>3. store' \in [Addresses -> Seq(Nat)]
    BY <1>8, <2>2 DEF Prune
  <2> QED BY <1>8, <2>1, <2>2, <2>3 DEF Prune, TypeOK, Books, clientVars
<1>9. CASE Tick
  <2>1. now' \in Nat /\ now' >= now /\ UNCHANGED serverVars
    BY <1>9 DEF Tick, TypeOK
  <2>2. ASSUME NEW a \in Addresses
        PROVE  Ledger(store[a], served[a])' /\ Spaced(served[a])'
    <3> DEFINE st == store[a]
               sv == served[a]
    <3>1. store'[a] = st /\ served'[a] = sv
      BY <2>1 DEF serverVars
    <3>2. /\ Ledger(st, sv) /\ Spaced(sv)
          /\ \A i \in 1 .. Len(sv) : sv[i] \in Nat
          /\ Len(sv) \in Nat /\ Len(st) \in Nat
          /\ Window \in Nat /\ now \in Nat
      BY LimiterAssumption DEF TypeOK, Books
    <3> HIDE DEF st, sv
    <3>3. /\ \A i \in 1 .. (Len(sv) - Len(st)) : sv[i] + Window <= now'
          /\ \A i \in 1 .. Len(sv) : sv[i] <= now'
      <4>1. ASSUME NEW i \in 1 .. (Len(sv) - Len(st))
            PROVE  sv[i] + Window <= now'
        <5>1. sv[i] + Window <= now /\ i \in 1 .. Len(sv)
          BY <3>2 DEF Ledger
        <5> QED BY <5>1, <3>2, <2>1
      <4>2. ASSUME NEW i \in 1 .. Len(sv)
            PROVE  sv[i] <= now'
        BY <3>2, <2>1 DEF Ledger
      <4> QED BY <4>1, <4>2
    <3> QED BY <3>1, <3>2, <3>3 DEF Ledger, Spaced
  <2> QED BY <1>9, <2>1, <2>2 DEF Tick, TypeOK, Books, clientVars, serverVars
<1>10. CASE UNCHANGED vars
  BY <1>10 DEF vars, clientVars, serverVars, TypeOK, Books, Ledger, Spaced
<1> QED BY <1>1, <1>2, <1>3, <1>4, <1>5, <1>6, <1>7, <1>8, <1>9, <1>10, <1>11, <1>12, <1>13
        DEF Next

\* The books are right from the start.
LEMMA InitBooks == Init => TypeOK /\ Books
<1> SUFFICES ASSUME Init PROVE TypeOK /\ Books
  OBVIOUS
<1>1. TypeOK
  BY DEF Init, TypeOK, Stages, Inactive, Bodies
<1>2. ASSUME NEW a \in Addresses
      PROVE  Ledger(store[a], served[a]) /\ Spaced(served[a])
  <2>1. store[a] = <<>> /\ served[a] = <<>>
    BY DEF Init
  <2>2. Ledger(<<>>, <<>>) /\ Spaced(<<>>)
    BY LimiterAssumption DEF Ledger, Spaced
  <2> QED BY <2>1, <2>2
<1> QED BY <1>1, <1>2 DEF Books

-----------------------------------------------------------------------------
(* One pipeline for an utterance *)

LEMMA OnePipelineStep ==
  ASSUME TypeOK, NeverAnsweredTwice, [Next]_vars
  PROVE  NeverAnsweredTwice'
<1>1. ASSUME NEW p \in Pages, Speak(p) \/ Resend(p) \/ fetchContext(p)
      PROVE  NeverAnsweredTwice'
  BY <1>1 DEF Speak, Resend, fetchContext, historyVars, TypeOK, NeverAnsweredTwice
<1>2. ASSUME NEW p \in Pages, Lose(p)
      PROVE  NeverAnsweredTwice'
  BY <1>2 DEF Lose, Rejected, Settle, historyVars, TypeOK, NeverAnsweredTwice
<1>3. ASSUME NEW p \in Pages, Gateway(p) \/ BodyGuard(p) \/ Refuse(p) \/ Fail(p)
      PROVE  NeverAnsweredTwice'
  <2>1. /\ page[p] \in {"sending", "handling"} /\ pipelines' = pipelines
        /\ Backoff(p, 0, TRUE) \/ Backoff(p, 0, FALSE) \/ Settle(p, "cut")
    BY <1>3 DEF Gateway, BodyGuard, Refuse, Fail, historyVars
  <2>0. "cut" \in Stages
    BY DEF Stages
  <2>2. \A q \in Pages : q # p => page'[q] = page[q]
    BY <2>0, <2>1, BackoffStep, SettleStep
  <2> QED BY <2>1, <2>2 DEF NeverAnsweredTwice
<1>4. ASSUME NEW p \in Pages, Dispatch(p)
      PROVE  NeverAnsweredTwice'
  <2>1. page[p] = "sending" /\ pipelines' = pipelines
    BY <1>4 DEF Dispatch
  <2>2. \A q \in Pages : q # p => page'[q] = page[q]
    <3>1. \/ page' = [page EXCEPT ![p] = "handling"]
          \/ \E s \in Nat : Backoff(p, s * Second, TRUE)
      <4>1. \A x : RetryAfter(x) \subseteq Nat
        BY DEF RetryAfter
      <4> QED BY <1>4, <4>1 DEF Dispatch
    <3>2. ASSUME NEW s \in Nat, Backoff(p, s * Second, TRUE)
          PROVE  \A q \in Pages : q # p => page'[q] = page[q]
      <4>1. s * Second \in Nat
        BY LimiterAssumption
      <4> QED BY <3>2, <4>1, BackoffStep
    <3> QED BY <3>1, <3>2 DEF TypeOK
  <2> QED BY <2>1, <2>2 DEF NeverAnsweredTwice
<1>5. ASSUME NEW p \in Pages, Answer(p)
      PROVE  NeverAnsweredTwice'
  <2>1. pipelines[p] = 0
    BY <1>5 DEF Answer, NeverAnsweredTwice
  <2> QED BY <1>5, <2>1 DEF Answer, Rejected, Settle, TypeOK, NeverAnsweredTwice
<1>6. CASE Prune \/ Tick \/ UNCHANGED vars
  BY <1>6 DEF Prune, Tick, vars, clientVars, historyVars, NeverAnsweredTwice
<1>7. ASSUME NEW p \in Pages,
             startInterview(p) \/ LoseCreation(p) \/ create_conversation(p)
      PROVE  NeverAnsweredTwice'
  <2>1. pipelines' = pipelines
    BY <1>7 DEF startInterview, LoseCreation, create_conversation, historyVars
  <2>2. \A q \in Pages : page'[q] = page[q] \/ page'[q] \in {"idle", "denied"}
    BY <1>7 DEF startInterview, LoseCreation, create_conversation, TypeOK
  <2> QED BY <2>1, <2>2 DEF NeverAnsweredTwice
<1>8. ASSUME NEW p \in Pages, stopInterview(p)
      PROVE  NeverAnsweredTwice'
  <2>1. page'[p] = "off" /\ \A q \in Pages : q # p => page'[q] = page[q]
    BY <1>8 DEF stopInterview, Settle, TypeOK
  <2>2. pipelines'[p] <= 1
    <3>1. CASE pipelines' = pipelines
      BY <3>1 DEF NeverAnsweredTwice
    <3>2. CASE page[p] = "handling" /\ pipelines' = [pipelines EXCEPT ![p] = @ + 1]
      <4>1. pipelines[p] = 0
        BY <3>2 DEF NeverAnsweredTwice
      <4> QED BY <3>2, <4>1 DEF TypeOK
    <3> QED BY <1>8, <3>1, <3>2 DEF stopInterview
  <2>3. \A q \in Pages : q # p => pipelines'[q] = pipelines[q]
    BY <1>8 DEF stopInterview, TypeOK
  <2> QED BY <2>1, <2>2, <2>3 DEF NeverAnsweredTwice
<1> QED BY <1>1, <1>2, <1>3, <1>4, <1>5, <1>6, <1>7, <1>8 DEF Next

-----------------------------------------------------------------------------
(* What a rejected page may rely on *)

\* Room now is room later.
LEMMA RoomStays ==
  ASSUME NEW sv \in Seq(Nat), NEW t \in Nat, NEW u \in Nat, t <= u, RoomAt(sv, t)
  PROVE  RoomAt(sv, u)
<1> SUFFICES ASSUME Len(sv) >= MaxRequests
             PROVE  sv[Len(sv) - MaxRequests + 1] + Window <= u
  BY DEF RoomAt
<1>1. Len(sv) \in Nat /\ MaxRequests \in Nat \ {0} /\ Window \in Nat
  BY LimiterAssumption
<1>2. Len(sv) - MaxRequests + 1 \in 1 .. Len(sv)
  BY <1>1
<1>3. sv[Len(sv) - MaxRequests + 1] \in Nat
  BY <1>2
<1> QED BY <1>1, <1>3 DEF RoomAt

\* A full list begins MaxRequests places from the end of the history.
LEMMA FullList ==
  ASSUME NEW st \in Seq(Nat), NEW sv \in Seq(Nat), now \in Nat, Ledger(st, sv),
         NEW f \in Within(st, Window), Len(f) >= MaxRequests
  PROVE  /\ Len(sv) >= MaxRequests /\ f[1] \in Nat
         /\ f[1] = sv[Len(sv) - MaxRequests + 1] /\ f[1] + Window > now
<1>1. Window \in Nat /\ MaxRequests \in Nat \ {0}
  BY LimiterAssumption
<1>2. f \in Seq(Nat) /\ \A i \in 1 .. Len(f) : f[i] + Window > now
  BY <1>1, WithinIsEnd
<1>3. Ledger(f, sv)
  BY <1>1, FilteredLedger
<1>4. Len(f) \in Nat /\ Len(sv) \in Nat /\ Len(f) = MaxRequests /\ Len(f) <= Len(sv)
  BY <1>1, <1>2, <1>3 DEF Ledger
<1>5. 1 \in 1 .. Len(f)
  BY <1>1, <1>4
<1> QED BY <1>2, <1>3, <1>4, <1>5 DEF Ledger

\* A step that leaves the histories alone, does not turn the clock back and
\* does nothing to a page but what is listed keeps the promise made to it.
LEMMA QuietPromise ==
  ASSUME TypeOK, NEW p \in Pages, Promise(p), served' = served,
         now' \in Nat, now' >= now, due' \in [Pages -> Nat],
         rejections'[p] \in {0, rejections[p]},
         \/ rejections'[p] = 0
         \/ page'[p] = page[p] /\ due'[p] = due[p]
         \/ /\ page[p] \in {"sending", "handling"}
            /\ page'[p] = "waiting" /\ due'[p] >= now
         \/ page[p] = "waiting" /\ page'[p] = "sending" /\ now' >= due[p]
         \/ page'[p] \notin {"sending", "handling", "waiting"}
  PROVE  Promise(p)'
<1> DEFINE sv == served[AddressOf[p]]
<1>1. /\ sv \in Seq(Nat) /\ now \in Nat /\ due[p] \in Nat /\ due'[p] \in Nat
      /\ rejections[p] \in Nat
  BY LimiterAssumption DEF TypeOK
<1> SUFFICES ASSUME Alone(p)
             PROVE  /\ rejections'[p] <= 1
                    /\ page'[p] = "handling" => rejections'[p] = 0
                    /\ rejections'[p] = 1 /\ page'[p] = "waiting" => RoomAt(sv, due'[p])
                    /\ rejections'[p] = 1 /\ page'[p] = "sending" => RoomAt(sv, now')
  BY DEF Promise, Alone, RoomAt
<1> HIDE DEF sv
<1>2. /\ rejections[p] <= 1
      /\ page[p] = "handling" => rejections[p] = 0
      /\ rejections[p] = 1 /\ page[p] = "waiting" => RoomAt(sv, due[p])
      /\ rejections[p] = 1 /\ page[p] = "sending" => RoomAt(sv, now)
  BY DEF Promise, sv
<1>3. RoomAt(sv, now) => RoomAt(sv, now')
  BY <1>1, RoomStays
<1>4. RoomAt(sv, now) /\ due'[p] >= now => RoomAt(sv, due'[p])
  BY <1>1, RoomStays
<1>5. RoomAt(sv, due[p]) /\ now' >= due[p] => RoomAt(sv, now')
  BY <1>1, RoomStays
<1> QED BY <1>1, <1>2, <1>3, <1>4, <1>5

\* What the limiter lets through owes its page nothing more, and is on no account
\* of another page with an address of its own.
LEMMA AdmitPromises ==
  ASSUME TypeOK, Promises, NEW p \in Pages, NEW path \in {"turn", "conversation"},
         Admit(p, path), now' = now, due' = due, rejections' = [rejections EXCEPT ![p] = 0],
         \A q \in Pages : q # p => page'[q] = page[q]
  PROVE  Promises'
<1>1. ASSUME NEW q \in Pages, Alone(q), q # p
      PROVE  /\ served'[AddressOf[q]] = served[AddressOf[q]]
             /\ rejections'[q] = rejections[q]
  <2>1. AddressOf[q] # AddressOf[p] /\ AddressOf[q] \in Addresses
    BY <1>1, LimiterAssumption DEF Alone
  <2>2. \E f \in Within(store[AddressOf[p]], Window) : Charge(AddressOf[p], f)
    BY AdmitCharges
  <2> QED BY <1>1, <2>1, <2>2 DEF Charge, TypeOK
<1>2. rejections'[p] = 0
  BY DEF TypeOK
<1> QED BY <1>1, <1>2 DEF Promises, Promise, Alone, RoomAt

\* A rejected page is told how long to wait, and was not told before.
LEMMA RejectPromises ==
  ASSUME TypeOK, Books, Promises, NEW p \in Pages, page[p] = "sending", now' = now,
         NEW f \in Full(p, "turn"), NEW s \in RetryAfter(f[1]), Backoff(p, s * Second, TRUE),
         rejections' = [rejections EXCEPT ![p] = @ + 1], UNCHANGED serverVars
  PROVE  Promises'
<1> DEFINE a == AddressOf[p]
           sv == served[a]
<1>1. a \in Addresses /\ now \in Nat /\ f \in Within(store[a], Window)
      /\ Len(f) >= MaxRequests
  BY LimiterAssumption DEF TypeOK, Full, resolve_client_ip
<1>2. store[a] \in Seq(Nat) /\ sv \in Seq(Nat) /\ Ledger(store[a], sv)
  BY <1>1 DEF TypeOK, Books
<1>3. /\ Len(sv) >= MaxRequests /\ f[1] \in Nat
      /\ f[1] = sv[Len(sv) - MaxRequests + 1] /\ f[1] + Window > now
  BY <1>1, <1>2, FullList
<1>4. s * Second \in Nat /\ f[1] + Window <= now + s * Second
  BY <1>1, <1>3, WaitIsEnough
<1>5. /\ due' \in [Pages -> Nat] /\ page'[p] \in {"refused", "waiting"}
      /\ \A q \in Pages : q # p => page'[q] = page[q] /\ due'[q] = due[q]
      /\ page'[p] = "waiting" => due'[p] >= now + s * Second
  BY <1>4, BackoffStep
<1>6. served' = served
  BY DEF serverVars
<1>7. ASSUME NEW q \in Pages, q # p
      PROVE  Promise(q)'
  <2>1. page'[q] = page[q] /\ due'[q] = due[q] /\ rejections'[q] = rejections[q]
    BY <1>5, <1>7 DEF TypeOK
  <2> QED BY <1>6, <1>7, <2>1 DEF Promises, Promise, Alone, RoomAt
<1>8. Promise(p)'
  <2> SUFFICES ASSUME Alone(p)
               PROVE  /\ rejections'[p] = 1
                      /\ page'[p] = "waiting" => RoomAt(sv, due'[p])
    BY <1>1, <1>5, <1>6 DEF Promise, Alone, RoomAt
  <2>1. ~ RoomAt(sv, now)
    <3>1. f[1] + Window \in Nat
      BY <1>3, LimiterAssumption
    <3> QED BY <1>1, <1>3, <3>1 DEF RoomAt
  <2>2. rejections[p] = 0
    <3>1. rejections[p] <= 1 /\ (rejections[p] = 1 => RoomAt(sv, now))
      BY DEF Promises, Promise
    <3>2. rejections[p] \in Nat
      BY DEF TypeOK
    <3> QED BY <2>1, <3>1, <3>2
  <2>3. ASSUME page'[p] = "waiting" PROVE RoomAt(sv, due'[p])
    <3>1. due'[p] >= now + s * Second /\ due'[p] \in Nat
      BY <1>5, <2>3
    <3>2. f[1] + Window <= due'[p]
      BY <1>1, <1>3, <1>4, <3>1, LimiterAssumption
    <3> QED BY <1>3, <3>2 DEF RoomAt
  <2> QED BY <2>2, <2>3 DEF TypeOK
<1> QED BY <1>7, <1>8 DEF Promises

\* Every step keeps the promises.
LEMMA PromiseStep ==
  ASSUME TypeOK, Books, Promises, [Next]_vars
  PROVE  Promises'
<1> USE DEF historyVars, retryVars
<1>0. TypeOK' /\ now \in Nat /\ due \in [Pages -> Nat] /\ due' \in [Pages -> Nat] /\ now' \in Nat
      /\ rejections \in [Pages -> Nat] /\ page \in [Pages -> Stages]
  BY TypeAndBooksStep DEF TypeOK
<1>1. ASSUME NEW p \in Pages, Speak(p) \/ Resend(p) \/ fetchContext(p)
      PROVE  Promises'
  <2>1. served' = served /\ now' = now /\ due' = due
    BY <1>1, ContextIsFree DEF Speak, Resend, fetchContext, serverVars
  <2>2. ASSUME NEW q \in Pages
        PROVE  Promise(q)'
    <3>1. /\ rejections'[q] \in {0, rejections[q]}
          /\ \/ rejections'[q] = 0
             \/ page'[q] = page[q] /\ due'[q] = due[q]
             \/ page[q] = "waiting" /\ page'[q] = "sending" /\ now' >= due[q]
             \/ page'[q] = "idle"
      BY <1>0, <1>1, <2>1 DEF Speak, Resend, fetchContext
    <3> QED BY <1>0, <2>1, <3>1, QuietPromise DEF Promises
  <2> QED BY <2>2 DEF Promises
<1>2. ASSUME NEW p \in Pages,
             \/ Lose(p) \/ Gateway(p) \/ BodyGuard(p) \/ Refuse(p) \/ Fail(p) \/ Answer(p)
             \/ stopInterview(p)
      PROVE  Promises'
  <2>1. served' = served /\ now' = now /\ rejections' = rejections
    BY <1>2 DEF Lose, Gateway, BodyGuard, Refuse, Fail, Answer, stopInterview, serverVars
  <2>2. \/ page[p] \in {"sending", "handling"} /\ (Backoff(p, 0, TRUE) \/ Backoff(p, 0, FALSE))
        \/ \E o \in {"unsure", "heard", "cut", "off"} : Settle(p, o)
    BY <1>2 DEF Lose, Gateway, BodyGuard, Refuse, Fail, Answer, Rejected, stopInterview
  <2>3. /\ \/ page'[p] \in {"refused", "unsure", "heard", "cut", "off"}
           \/ /\ page[p] \in {"sending", "handling"}
              /\ page'[p] = "waiting" /\ due'[p] >= now
        /\ \A q \in Pages : q # p => page'[q] = page[q] /\ due'[q] = due[q]
    <3>1. {"unsure", "heard", "cut", "off"} \subseteq Stages
      BY DEF Stages, Inactive
    <3>2. CASE /\ page[p] \in {"sending", "handling"}
               /\ Backoff(p, 0, TRUE) \/ Backoff(p, 0, FALSE)
      <4>1. /\ page'[p] \in {"refused", "waiting"}
            /\ \A q \in Pages : q # p => page'[q] = page[q] /\ due'[q] = due[q]
            /\ page'[p] = "waiting" => due'[p] >= now + 0
        BY <3>2, BackoffStep
      <4> QED BY <1>0, <3>2, <4>1
    <3>3. ASSUME NEW o \in {"unsure", "heard", "cut", "off"}, Settle(p, o)
          PROVE  /\ page'[p] = o
                 /\ \A q \in Pages : q # p => page'[q] = page[q] /\ due'[q] = due[q]
      BY <3>1, <3>3, SettleStep
    <3> QED BY <2>2, <3>2, <3>3
  <2>4. ASSUME NEW q \in Pages
        PROVE  Promise(q)'
    <3>1. CASE q = p
      BY <1>0, <2>1, <2>3, <3>1, QuietPromise DEF Promises
    <3>2. CASE q # p
      BY <1>0, <2>1, <2>3, <3>2, QuietPromise DEF Promises
    <3> QED BY <3>1, <3>2
  <2> QED BY <2>4 DEF Promises
<1>3. ASSUME NEW p \in Pages, Dispatch(p)
      PROVE  Promises'
  <2>1. page[p] = "sending" /\ now' = now
    BY <1>3 DEF Dispatch
  <2>2. CASE /\ Admit(p, "turn")
             /\ page' = [page EXCEPT ![p] = "handling"]
             /\ rejections' = [rejections EXCEPT ![p] = 0]
             /\ UNCHANGED retryVars
    <3>1. due' = due /\ \A q \in Pages : q # p => page'[q] = page[q]
      BY <2>2 DEF TypeOK
    <3> QED BY <2>1, <2>2, <3>1, AdmitPromises
  <2>3. ASSUME NEW f \in Full(p, "turn"), NEW s \in RetryAfter(f[1]),
               /\ Backoff(p, s * Second, TRUE)
               /\ rejections' = [rejections EXCEPT ![p] = @ + 1]
               /\ UNCHANGED <<serverVars, reached>>
        PROVE  Promises'
    BY <2>1, <2>3, RejectPromises
  <2> QED BY <1>3, <2>2, <2>3 DEF Dispatch
<1>4. CASE Prune \/ Tick \/ UNCHANGED vars
  <2>1. served' = served /\ now' >= now /\ rejections' = rejections
        /\ page' = page /\ due' = due
    BY <1>0, <1>4 DEF Prune, Tick, vars, clientVars, serverVars
  <2>2. ASSUME NEW q \in Pages
        PROVE  Promise(q)'
    BY <1>0, <2>1, QuietPromise DEF Promises
  <2> QED BY <2>2 DEF Promises
<1>5. ASSUME NEW p \in Pages, startInterview(p) \/ LoseCreation(p)
      PROVE  Promises'
  <2>1. served' = served /\ now' = now /\ rejections' = rejections
        /\ page' = page /\ due' = due
    BY <1>5 DEF startInterview, LoseCreation, serverVars
  <2> QED BY <2>1 DEF Promises, Promise, Alone, RoomAt
<1>6. ASSUME NEW p \in Pages, create_conversation(p)
      PROVE  Promises'
  <2>1. now' = now /\ due' = due /\ page' \in [Pages -> Stages]
        /\ \A q \in Pages :
             page'[q] \in {page[q], "idle", "denied"} /\ (q # p => page'[q] = page[q])
    BY <1>0, <1>6 DEF create_conversation, TypeOK
  <2>2. CASE Admit(p, "conversation") /\ rejections' = [rejections EXCEPT ![p] = 0]
    BY <2>1, <2>2, AdmitPromises
  <2>3. CASE UNCHANGED <<serverVars, rejections>>
    <3>1. served' = served /\ rejections' = rejections
      BY <2>3 DEF serverVars
    <3>2. ASSUME NEW q \in Pages
          PROVE  Promise(q)'
      <4>1. now' >= now
        BY <1>0, <2>1
      <4>2. CASE page'[q] = page[q]
        BY <1>0, <2>1, <3>1, <4>1, <4>2, QuietPromise DEF Promises
      <4>3. CASE page'[q] \in {"idle", "denied"}
        BY <1>0, <2>1, <3>1, <4>1, <4>3, QuietPromise DEF Promises
      <4> QED BY <2>1, <4>2, <4>3
    <3> QED BY <3>2 DEF Promises
  <2> QED BY <1>6, <2>2, <2>3 DEF create_conversation
<1> QED BY <1>1, <1>2, <1>3, <1>4, <1>5, <1>6 DEF Next

-----------------------------------------------------------------------------
(* Who keeps the pace is never limited *)

\* An entry of the history sv of an address, of whose page the last utterance is
\* of time r and the last creation of time c.  Either a creation came a window
\* after the entry; or as many utterances as there are entries after it, Pace
\* apart; or one less, and a creation.
Dated(sv, i, r, c) ==
  \/ c - sv[i] >= Window
  \/ r - sv[i] >= (Len(sv) - i) * Pace
  \/ c >= sv[i] /\ (i = Len(sv) \/ r - sv[i] >= (Len(sv) - i - 1) * Pace)

\* An utterance is not sent before its time, nor is a creation.
SpeaksAt(p, t) == reached[p] = 0 \/ t - reached[p] >= Pace
StartsAt(p, t) == started[p] = 0 \/ t - started[p] >= Window

\* Where a page stands that keeps the pace.
OnPace(p) ==
  /\ rejections[p] = 0 /\ page[p] \notin {"waiting", "denied"}
  /\ reached[p] <= now /\ started[p] <= now /\ creating[p] <= 1
  /\ \A i \in 1 .. Len(served[AddressOf[p]]) :
       /\ served[AddressOf[p]][i] > 0
       /\ Dated(served[AddressOf[p]], i, reached[p], started[p])
  /\ page[p] = "sending" => SpeaksAt(p, now)
  /\ creating[p] > 0 => StartsAt(p, now)

Undisturbed(p) ==
  p \in Steady \ Flaky /\ Alone(p) /\ (MaxRequests - 1) * Pace >= Window

Pacing == now > 0 /\ \A p \in Pages : Undisturbed(p) => OnPace(p)

\* One more utterance, or one more creation, leaves a history that is dated.
LEMMA DatedGrows ==
  ASSUME NEW sv \in Seq(Nat), NEW r \in Nat, NEW c \in Nat, NEW t \in Nat, t > 0,
         r <= t, c <= t,
         \A i \in 1 .. Len(sv) : sv[i] > 0 /\ sv[i] <= t /\ Dated(sv, i, r, c)
  PROVE  /\ (r = 0 \/ t - r >= Pace) =>
              \A i \in 1 .. Len(Append(sv, t)) : Dated(Append(sv, t), i, t, c)
         /\ (c = 0 \/ t - c >= Window) =>
              \A i \in 1 .. Len(Append(sv, t)) : Dated(Append(sv, t), i, r, t)
<1> DEFINE tv == Append(sv, t)
           n == Len(sv)
<1>1. /\ n \in Nat /\ Len(tv) = n + 1 /\ tv[n + 1] = t
      /\ Pace \in Nat /\ Window \in Nat \ {0}
      /\ \A i \in 1 .. n : tv[i] = sv[i] /\ sv[i] \in Nat /\ sv[i] > 0 /\ sv[i] <= t
  BY LimiterAssumption
<1>2. \A i \in 1 .. n :
        \/ c - sv[i] >= Window
        \/ r - sv[i] >= (n - i) * Pace
        \/ c >= sv[i] /\ (i = n \/ r - sv[i] >= (n - i - 1) * Pace)
  BY DEF Dated
<1>3. \A k \in Nat : k * Pace \in Nat /\ (k + 1) * Pace = k * Pace + Pace
  BY <1>1
<1> HIDE DEF tv, n
<1>4. ASSUME NEW i \in 1 .. n + 1, r = 0 \/ t - r >= Pace
      PROVE  \/ c - tv[i] >= Window
             \/ t - tv[i] >= ((n + 1) - i) * Pace
             \/ c >= tv[i] /\ (i = n + 1 \/ t - tv[i] >= ((n + 1) - i - 1) * Pace)
  <2>1. CASE i = n + 1
    <3>1. (n + 1) - i = 0 /\ 0 * Pace = 0 /\ t - tv[i] = 0
      BY <1>1, <2>1
    <3>2. ((n + 1) - i) * Pace = 0
      BY <3>1
    <3> QED BY <3>1, <3>2
  <2>2. CASE i \in 1 .. n
    <3> DEFINE x == sv[i]
               k == n - i
    <3>1. x \in Nat /\ x > 0 /\ x <= t /\ tv[i] = x /\ k \in Nat /\ (n + 1) - i = k + 1
          /\ (n + 1) - i - 1 = k
      BY <1>1, <2>2
    <3>2. \/ c - x >= Window
          \/ r - x >= k * Pace
          \/ c >= x /\ (i = n \/ r - x >= (k - 1) * Pace)
      BY <1>2, <2>2
    <3>3. i = n => k = 0
      BY <1>1
    <3>4. k # 0 => k - 1 \in Nat /\ k = (k - 1) + 1
      BY <3>1
    <3> HIDE DEF x, k
    <3>5. CASE c - x >= Window
      BY <3>1, <3>5
    <3>6. CASE r - x >= k * Pace
      <4>1. k * Pace \in Nat /\ (k + 1) * Pace = k * Pace + Pace
        BY <1>3, <3>1
      <4>2. r > 0
        BY <3>1, <3>6, <4>1
      <4>3. t - x >= (k + 1) * Pace
        BY <1>1, <1>4, <3>1, <3>6, <4>1, <4>2
      <4> QED BY <3>1, <4>3
    <3>7. CASE c >= x /\ k = 0
      <4>1. k * Pace = 0
        BY <1>1, <3>7
      <4> QED BY <3>1, <3>7, <4>1
    <3>8. CASE c >= x /\ k # 0 /\ r - x >= (k - 1) * Pace
      <4>1. (k - 1) * Pace \in Nat /\ k * Pace = (k - 1) * Pace + Pace
        BY <1>3, <3>4, <3>8
      <4>2. r > 0
        BY <3>1, <3>8, <4>1
      <4>3. t - x >= k * Pace
        BY <1>1, <1>4, <3>1, <3>8, <4>1, <4>2
      <4> QED BY <3>1, <3>8, <4>3
    <3>9. CASE c >= x /\ k = 0 /\ r - x >= (k - 1) * Pace
      BY <3>7, <3>9
    <3> QED BY <3>2, <3>3, <3>5, <3>6, <3>7, <3>8, <3>9
  <2> QED BY <1>1, <2>1, <2>2
<1>5. ASSUME NEW i \in 1 .. n + 1, c = 0 \/ t - c >= Window
      PROVE  \/ t - tv[i] >= Window
             \/ r - tv[i] >= ((n + 1) - i) * Pace
             \/ t >= tv[i] /\ (i = n + 1 \/ r - tv[i] >= ((n + 1) - i - 1) * Pace)
  <2>1. CASE i = n + 1
    BY <1>1, <2>1
  <2>2. CASE i \in 1 .. n
    <3> DEFINE x == sv[i]
    <3>1. x \in Nat /\ x > 0 /\ x <= t /\ tv[i] = x /\ (n + 1) - i - 1 = n - i
      BY <1>1, <2>2
    <3>2. c - x >= Window \/ r - x >= (n - i) * Pace \/ c >= x
      BY <1>2, <2>2
    <3> HIDE DEF x
    <3>3. CASE r - x >= (n - i) * Pace
      BY <3>1, <3>3
    <3>4. CASE c - x >= Window \/ c >= x
      <4>1. c >= x /\ c > 0
        BY <1>1, <3>1, <3>4
      <4>2. t - x >= Window
        BY <1>1, <1>5, <3>1, <4>1
      <4> QED BY <3>1, <4>2
    <3> QED BY <3>2, <3>3, <3>4
  <2> QED BY <1>1, <2>1, <2>2
<1>6. (r = 0 \/ t - r >= Pace) => \A i \in 1 .. Len(tv) : Dated(tv, i, t, c)
  BY <1>1, <1>4 DEF Dated
<1>7. (c = 0 \/ t - c >= Window) => \A i \in 1 .. Len(tv) : Dated(tv, i, r, t)
  BY <1>1, <1>5 DEF Dated
<1> QED BY <1>6, <1>7 DEF tv

\* The list of a page that keeps the pace is not full when an utterance or a
\* creation arrives.
LEMMA PaceLeavesRoom ==
  ASSUME TypeOK, Books, Pacing, NEW p \in Pages, Undisturbed(p),
         page[p] = "sending" \/ creating[p] > 0,
         NEW f \in Within(store[AddressOf[p]], Window)
  PROVE  ~ (Len(f) >= MaxRequests)
<1> SUFFICES ASSUME Len(f) >= MaxRequests PROVE FALSE
  OBVIOUS
<1> DEFINE sv == served[AddressOf[p]]
           n == Len(sv)
           m == MaxRequests
           x == f[1]
           r == reached[p]
           c == started[p]
<1>1. /\ AddressOf[p] \in Addresses /\ now \in Nat /\ Pace \in Nat /\ Window \in Nat \ {0}
      /\ m \in Nat \ {0} /\ (m - 1) * Pace >= Window /\ r \in Nat /\ c \in Nat
  BY LimiterAssumption DEF TypeOK, Undisturbed
<1>2. store[AddressOf[p]] \in Seq(Nat) /\ sv \in Seq(Nat) /\ Ledger(store[AddressOf[p]], sv)
  BY <1>1 DEF TypeOK, Books
<1>3. n >= m /\ x \in Nat /\ x = sv[n - m + 1] /\ x + Window > now
  BY <1>1, <1>2, FullList
<1>4. OnPace(p)
  BY DEF Pacing
<1>5. n \in Nat /\ n - m + 1 \in 1 .. n /\ n - (n - m + 1) = m - 1
      /\ (n - m + 1 = n => m = 1)
  <2>1. n \in Nat
    BY <1>2
  <2> HIDE DEF n
  <2> QED BY <1>1, <1>3, <2>1
<1>6. x > 0 /\ Dated(sv, n - m + 1, r, c)
  BY <1>3, <1>4, <1>5 DEF OnPace
<1>7. /\ r <= now /\ c <= now
      /\ (r = 0 \/ now - r >= Pace) \/ (c = 0 \/ now - c >= Window)
  BY <1>4 DEF OnPace, SpeaksAt, StartsAt
<1>8. \/ c - x >= Window
      \/ r - x >= (m - 1) * Pace
      \/ c >= x /\ (m = 1 \/ r - x >= (m - 1 - 1) * Pace)
  BY <1>3, <1>5, <1>6 DEF Dated
<1> HIDE DEF sv, n, m, x, r, c
<1>9. m # 1 /\ m - 1 - 1 \in Nat
  <2>1. m = 1 => (m - 1) * Pace = 0
    BY <1>1
  <2>2. m # 1
    BY <1>1, <2>1
  <2> QED BY <1>1, <2>2
<1>10. (m - 1) * Pace = (m - 1 - 1) * Pace + Pace /\ (m - 1 - 1) * Pace \in Nat
       /\ (m - 1) * Pace \in Nat
  <2>1. \A k \in Nat : (k + 1) * Pace = k * Pace + Pace /\ k * Pace \in Nat
    BY <1>1
  <2>2. m - 1 = (m - 1 - 1) + 1 /\ m - 1 \in Nat
    BY <1>1
  <2> QED BY <1>9, <2>1, <2>2
<1>11. CASE c - x >= Window
  BY <1>1, <1>3, <1>7, <1>11
<1>12. CASE r - x >= (m - 1) * Pace
  BY <1>1, <1>3, <1>7, <1>10, <1>12
<1>13. CASE c >= x /\ r - x >= (m - 1 - 1) * Pace
  <2>1. r > 0 /\ c > 0
    BY <1>1, <1>3, <1>6, <1>10, <1>13
  <2>2. CASE now - r >= Pace
    <3>1. now - x >= (m - 1 - 1) * Pace + Pace
      BY <1>1, <1>3, <1>10, <1>13, <2>2
    <3> QED BY <1>1, <1>3, <1>10, <3>1
  <2>3. CASE now - c >= Window
    BY <1>1, <1>3, <1>13, <2>3
  <2> QED BY <1>7, <2>1, <2>2, <2>3
<1> QED BY <1>8, <1>9, <1>11, <1>12, <1>13

\* What lets nothing of the page through and turns no clock back keeps it on pace.
LEMMA QuietPace ==
  ASSUME TypeOK, NEW p \in Pages, OnPace(p), now' \in Nat, now' >= now,
         served'[AddressOf[p]] = served[AddressOf[p]],
         reached'[p] = reached[p], started'[p] = started[p], creating'[p] <= 1,
         rejections'[p] = 0, page'[p] \notin {"waiting", "denied"},
         page'[p] = "sending" => page[p] = "sending" \/ SpeaksAt(p, now),
         creating'[p] > 0 => creating[p] > 0 \/ StartsAt(p, now)
  PROVE  OnPace(p)'
<1>1. /\ now \in Nat /\ reached[p] \in Nat /\ started[p] \in Nat
      /\ Pace \in Nat /\ Window \in Nat
  BY LimiterAssumption DEF TypeOK
<1>2. SpeaksAt(p, now) => SpeaksAt(p, now')
  BY <1>1 DEF SpeaksAt
<1>3. StartsAt(p, now) => StartsAt(p, now')
  BY <1>1 DEF StartsAt
<1>4. /\ page'[p] = "sending" => SpeaksAt(p, now')
      /\ creating'[p] > 0 => StartsAt(p, now')
  BY <1>2, <1>3 DEF OnPace
<1>5. /\ page'[p] = "sending" => reached'[p] = 0 \/ now' - reached'[p] >= Pace
      /\ creating'[p] > 0 => started'[p] = 0 \/ now' - started'[p] >= Window
  BY <1>4 DEF SpeaksAt, StartsAt
<1>6. reached'[p] <= now' /\ started'[p] <= now'
  BY <1>1 DEF OnPace
<1>7. \A i \in 1 .. Len(served'[AddressOf[p]]) :
        /\ served'[AddressOf[p]][i] > 0
        /\ Dated(served'[AddressOf[p]], i, reached'[p], started'[p])
  BY DEF OnPace
<1> QED BY <1>5, <1>6, <1>7 DEF OnPace, SpeaksAt, StartsAt, Dated

\* A request that is let through on time is dated.
LEMMA AdmitDated ==
  ASSUME TypeOK, Books, Pacing, NEW p \in Pages, Undisturbed(p),
         NEW path \in {"turn", "conversation"}, Admit(p, path)
  PROVE  LET tv == served'[AddressOf[p]] IN
         /\ \A i \in 1 .. Len(tv) : tv[i] > 0
         /\ SpeaksAt(p, now) => \A i \in 1 .. Len(tv) : Dated(tv, i, now, started[p])
         /\ StartsAt(p, now) => \A i \in 1 .. Len(tv) : Dated(tv, i, reached[p], now)
<1> DEFINE sv == served[AddressOf[p]]
<1>1. /\ AddressOf[p] \in Addresses /\ now \in Nat /\ now > 0 /\ sv \in Seq(Nat)
      /\ reached[p] \in Nat /\ started[p] \in Nat /\ Ledger(store[AddressOf[p]], sv)
  BY LimiterAssumption DEF TypeOK, Pacing, Books
<1>2. served'[AddressOf[p]] = Append(sv, now)
  <2>1. \E f \in Within(store[AddressOf[p]], Window) : Charge(AddressOf[p], f)
    BY AdmitCharges
  <2> QED BY <1>1, <2>1 DEF Charge, TypeOK
<1>3. OnPace(p)
  BY DEF Pacing
<1>4. \A i \in 1 .. Len(sv) :
        sv[i] > 0 /\ sv[i] <= now /\ Dated(sv, i, reached[p], started[p])
  BY <1>1, <1>3 DEF OnPace, Ledger
<1>5. reached[p] <= now /\ started[p] <= now
  BY <1>3 DEF OnPace
<1> HIDE DEF sv
<1>6. /\ (reached[p] = 0 \/ now - reached[p] >= Pace) =>
           \A i \in 1 .. Len(Append(sv, now)) : Dated(Append(sv, now), i, now, started[p])
      /\ (started[p] = 0 \/ now - started[p] >= Window) =>
           \A i \in 1 .. Len(Append(sv, now)) : Dated(Append(sv, now), i, reached[p], now)
  BY <1>1, <1>4, <1>5, DatedGrows
<1>7. \A i \in 1 .. Len(Append(sv, now)) : Append(sv, now)[i] > 0
  <2>1. Len(Append(sv, now)) = Len(sv) + 1 /\ Len(sv) \in Nat
    BY <1>1
  <2>2. \A i \in 1 .. Len(sv) + 1 :
          Append(sv, now)[i] = IF i = Len(sv) + 1 THEN now ELSE sv[i]
    BY <1>1
  <2>3. \A i \in 1 .. Len(sv) + 1 : i = Len(sv) + 1 \/ i \in 1 .. Len(sv)
    BY <2>1
  <2> QED BY <1>1, <1>4, <2>1, <2>2, <2>3
<1> QED BY <1>2, <1>6, <1>7 DEF SpeaksAt, StartsAt

\* What another page does is not seen by a page with an address of its own.
LEMMA OthersKeepPace ==
  ASSUME TypeOK, NEW q \in Pages, Undisturbed(q), OnPace(q),
         NEW p \in Pages, p # q, now' = now,
         \/ startInterview(p) \/ stopInterview(p)
         \/ Speak(p) \/ Resend(p) \/ fetchContext(p)
         \/ Lose(p) \/ LoseCreation(p) \/ Gateway(p)
         \/ BodyGuard(p) \/ Dispatch(p) \/ create_conversation(p)
         \/ Refuse(p) \/ Fail(p) \/ Answer(p)
  PROVE  OnPace(q)'
<1> USE DEF historyVars, retryVars, paceVars
<1>1. served'[AddressOf[q]] = served[AddressOf[q]]
  <2>1. \/ UNCHANGED serverVars
        \/ Admit(p, "turn") \/ Admit(p, "conversation")
    BY ContextIsFree
       DEF startInterview, stopInterview, Speak, Resend, Lose, LoseCreation, Gateway,
           BodyGuard, Dispatch, create_conversation, Refuse, Fail, Answer
  <2>2. AddressOf[q] # AddressOf[p] /\ AddressOf[q] \in Addresses
    BY LimiterAssumption DEF Undisturbed, Alone
  <2>3. CASE Admit(p, "turn") \/ Admit(p, "conversation")
    <3>1. \E f \in Within(store[AddressOf[p]], Window) : Charge(AddressOf[p], f)
      BY <2>3, AdmitCharges
    <3> QED BY <2>2, <3>1 DEF Charge, TypeOK
  <2>4. CASE UNCHANGED serverVars
    BY <2>4 DEF serverVars
  <2> QED BY <2>1, <2>3, <2>4
<1>2. page'[q] = page[q]
  <2>1. CASE Lose(p) \/ Gateway(p) \/ BodyGuard(p) \/ Refuse(p) \/ Fail(p) \/ Answer(p)
             \/ stopInterview(p)
    BY <2>1 DEF Lose, Gateway, BodyGuard, Refuse, Fail, Answer, stopInterview,
                Backoff, Rejected, Settle, TypeOK
  <2>2. CASE Dispatch(p)
    BY <2>2 DEF Dispatch, Backoff, Settle, TypeOK
  <2>3. CASE startInterview(p) \/ LoseCreation(p) \/ Speak(p) \/ Resend(p)
             \/ fetchContext(p) \/ create_conversation(p)
    BY <2>3 DEF startInterview, LoseCreation, Speak, Resend, fetchContext,
                create_conversation, TypeOK
  <2> QED BY <2>1, <2>2, <2>3
<1>3. creating'[q] = creating[q] /\ reached'[q] = reached[q] /\ started'[q] = started[q]
  BY DEF startInterview, stopInterview, Speak, Resend, fetchContext, Lose, LoseCreation,
         Gateway, BodyGuard, Dispatch, create_conversation, Refuse, Fail, Answer, TypeOK
<1>4. rejections'[q] = rejections[q]
  BY DEF startInterview, stopInterview, Speak, Resend, fetchContext, Lose, LoseCreation,
         Gateway, BodyGuard, Dispatch, create_conversation, Refuse, Fail, Answer, TypeOK
<1>5. now' \in Nat /\ now' >= now
  BY DEF TypeOK
<1>6. rejections[q] = 0 /\ page[q] \notin {"waiting", "denied"} /\ creating[q] <= 1
  BY DEF OnPace
<1> QED BY <1>1, <1>2, <1>3, <1>4, <1>5, <1>6, QuietPace

\* Nor does the page itself leave the pace: the limiter lets it through.
LEMMA OwnStepKeepsPace ==
  ASSUME TypeOK, Books, Pacing, NEW p \in Pages, Undisturbed(p), now' = now,
         \/ startInterview(p) \/ stopInterview(p)
         \/ Speak(p) \/ Resend(p) \/ fetchContext(p)
         \/ Lose(p) \/ LoseCreation(p) \/ Gateway(p)
         \/ BodyGuard(p) \/ Dispatch(p) \/ create_conversation(p)
         \/ Refuse(p) \/ Fail(p) \/ Answer(p)
  PROVE  OnPace(p)'
<1> USE DEF historyVars, retryVars, paceVars
<1>1. OnPace(p) /\ p \in Steady /\ p \notin Flaky /\ now \in Nat /\ now > 0
      /\ creating[p] \in Nat /\ now' \in Nat /\ now' >= now
  BY DEF Pacing, Undisturbed, TypeOK
<1>2. rejections[p] = 0 /\ page[p] \notin {"waiting", "denied"} /\ creating[p] <= 1
      /\ reached[p] <= now /\ started[p] <= now
  BY <1>1 DEF OnPace
<1>3. ~ (Resend(p) \/ Lose(p) \/ LoseCreation(p) \/ Gateway(p) \/ Fail(p))
  BY <1>1, <1>2 DEF Resend, Lose, LoseCreation, Gateway, Fail
<1>4. CASE startInterview(p)
  <2>1. /\ creating'[p] = 1 /\ StartsAt(p, now) /\ page' = page /\ served' = served
        /\ reached' = reached /\ started' = started /\ rejections' = rejections
    BY <1>1, <1>4 DEF startInterview, StartsAt, serverVars, TypeOK
  <2> QED BY <1>1, <1>2, <2>1, QuietPace
<1>5. CASE Speak(p)
  <2>1. /\ SpeaksAt(p, now) /\ page'[p] = "sending" /\ served' = served
        /\ creating' = creating /\ rejections'[p] = 0
        /\ reached' = reached /\ started' = started
    BY <1>1, <1>5 DEF Speak, SpeaksAt, serverVars, TypeOK
  <2> QED BY <1>1, <1>2, <2>1, QuietPace
<1>6. CASE fetchContext(p)
  <2>1. /\ page'[p] = "idle" /\ served' = served /\ creating' = creating
        /\ reached' = reached /\ started' = started /\ rejections' = rejections
    BY <1>6, ContextIsFree DEF fetchContext, serverVars, TypeOK
  <2> QED BY <1>1, <1>2, <2>1, QuietPace
<1>7. CASE stopInterview(p) \/ BodyGuard(p) \/ Refuse(p) \/ Answer(p)
  <2>1. \E o \in {"off", "cut", "refused", "heard"} : Settle(p, o)
    BY <1>1, <1>7 DEF stopInterview, BodyGuard, Refuse, Answer, Backoff
  <2>2. page'[p] \in {"off", "cut", "refused", "heard"}
    BY <2>1 DEF Settle, TypeOK
  <2>3. /\ served' = served /\ creating' = creating
        /\ reached' = reached /\ started' = started /\ rejections' = rejections
    BY <1>7 DEF stopInterview, BodyGuard, Refuse, Answer, serverVars
  <2> QED BY <1>1, <1>2, <2>2, <2>3, QuietPace
<1>8. CASE Dispatch(p)
  <2>1. page[p] = "sending" /\ Full(p, "turn") = {}
    BY <1>8, PaceLeavesRoom DEF Dispatch, Full, resolve_client_ip
  <2>2. /\ Admit(p, "turn") /\ page'[p] = "handling" /\ reached'[p] = now
        /\ rejections'[p] = 0 /\ started' = started /\ creating' = creating
    BY <1>1, <1>8, <2>1 DEF Dispatch, TypeOK
  <2>3. SpeaksAt(p, now)
    BY <1>1, <2>1 DEF OnPace
  <2>4. \A i \in 1 .. Len(served'[AddressOf[p]]) :
          /\ served'[AddressOf[p]][i] > 0
          /\ Dated(served'[AddressOf[p]], i, now, started[p])
    BY <2>2, <2>3, AdmitDated
  <2>5. creating[p] > 0 => started[p] = 0 \/ now - started[p] >= Window
    BY <1>1 DEF OnPace, StartsAt
  <2> QED BY <1>1, <1>2, <2>2, <2>4, <2>5 DEF OnPace, Dated, SpeaksAt, StartsAt
<1>9. CASE create_conversation(p)
  <2>1. creating[p] > 0 /\ creating'[p] = 0 /\ Full(p, "conversation") = {}
    <3>1. creating[p] > 0 /\ creating'[p] = creating[p] - 1
      BY <1>9 DEF create_conversation, TypeOK
    <3>2. Full(p, "conversation") = {}
      BY <3>1, PaceLeavesRoom DEF Full, resolve_client_ip
    <3> QED BY <1>1, <1>2, <3>1, <3>2
  <2>2. /\ Admit(p, "conversation") /\ page'[p] \in {"idle", page[p]} /\ started'[p] = now
        /\ rejections'[p] = 0 /\ reached' = reached
    BY <1>1, <1>9, <2>1 DEF create_conversation, TypeOK
  <2>3. StartsAt(p, now)
    BY <1>1, <2>1 DEF OnPace
  <2>4. \A i \in 1 .. Len(served'[AddressOf[p]]) :
          /\ served'[AddressOf[p]][i] > 0
          /\ Dated(served'[AddressOf[p]], i, reached[p], now)
    BY <2>2, <2>3, AdmitDated
  <2>5. page[p] = "sending" => reached[p] = 0 \/ now - reached[p] >= Pace
    BY <1>1 DEF OnPace, SpeaksAt
  <2>6. page'[p] = "sending" => page[p] = "sending"
    BY <2>2
  <2> QED BY <1>1, <1>2, <2>1, <2>2, <2>4, <2>5, <2>6 DEF OnPace, Dated, SpeaksAt, StartsAt
<1> QED BY <1>3, <1>4, <1>5, <1>6, <1>7, <1>8, <1>9

\* Every step keeps the pages on pace.
LEMMA PacingStep ==
  ASSUME TypeOK, Books, Pacing, [Next]_vars
  PROVE  Pacing'
<1>1. ASSUME NEW p \in Pages,
             \/ startInterview(p) \/ stopInterview(p)
             \/ Speak(p) \/ Resend(p) \/ fetchContext(p)
             \/ Lose(p) \/ LoseCreation(p) \/ Gateway(p)
             \/ BodyGuard(p) \/ Dispatch(p) \/ create_conversation(p)
             \/ Refuse(p) \/ Fail(p) \/ Answer(p)
      PROVE  Pacing'
  <2>1. now' = now
    BY <1>1 DEF startInterview, stopInterview, Speak, Resend, fetchContext, Lose, LoseCreation,
                Gateway, BodyGuard, Dispatch, create_conversation, Refuse, Fail, Answer
  <2>2. ASSUME NEW q \in Pages, Undisturbed(q)
        PROVE  OnPace(q)'
    <3>1. CASE q = p
      BY <1>1, <2>1, <2>2, <3>1, OwnStepKeepsPace
    <3>2. CASE q # p
      <4>1. OnPace(q)
        BY <2>2 DEF Pacing
      <4> QED BY <1>1, <2>1, <2>2, <3>2, <4>1, OthersKeepPace
    <3> QED BY <3>1, <3>2
  <2> QED BY <2>1, <2>2 DEF Pacing, Undisturbed, Alone
<1>2. CASE Prune \/ Tick \/ UNCHANGED vars
  <2>1. /\ served' = served /\ rejections' = rejections /\ page' = page
        /\ creating' = creating /\ reached' = reached /\ started' = started
    BY <1>2 DEF Prune, Tick, vars, clientVars, serverVars, historyVars, retryVars, paceVars
  <2>2. now' \in Nat /\ now' >= now
    BY <1>2 DEF Prune, Tick, vars, TypeOK
  <2>3. ASSUME NEW q \in Pages, Undisturbed(q)
        PROVE  OnPace(q)'
    <3>1. OnPace(q)
      BY <2>3 DEF Pacing
    <3>2. rejections[q] = 0 /\ page[q] \notin {"waiting", "denied"} /\ creating[q] <= 1
      BY <3>1 DEF OnPace
    <3> QED BY <2>1, <2>2, <2>3, <3>1, <3>2, QuietPace
  <2>4. now' > 0
    BY <2>2 DEF Pacing, TypeOK
  <2> QED BY <2>3, <2>4 DEF Pacing, Undisturbed, Alone
<1> QED BY <1>1, <1>2 DEF Next

-----------------------------------------------------------------------------
(* Theorems *)

\* Every variable of the limiter and of the retry helper keeps its type, and
\* the list of an address stays the end of its history.
THEOREM TypeCorrect == Spec => [](TypeOK /\ Books)
<1>1. Init => TypeOK /\ Books
  BY InitBooks
<1>2. TypeOK /\ Books /\ [Next]_vars => (TypeOK /\ Books)'
  BY TypeAndBooksStep
<1> QED BY <1>1, <1>2, PTL DEF Spec

\* The limiter keeps its promise over the whole history: no address is let
\* through more than MaxRequests times in any window.
THEOREM WindowIsBounded == Spec => []WindowBound
<1>1. Books => WindowBound
  BY DEF Books, Spaced, WindowBound
<1> QED BY <1>1, TypeCorrect, PTL

\* No utterance starts a second pipeline, and one that was refused with a
\* status started none.
THEOREM AnsweredOnce == Spec => []NeverAnsweredTwice
<1>1. Init => NeverAnsweredTwice
  <2> SUFFICES ASSUME Init, NEW p \in Pages
               PROVE  pipelines[p] = 0 /\ pipelines[p] <= 1
    BY DEF NeverAnsweredTwice
  <2>1. pipelines[p] = 0
    BY DEF Init
  <2>2. pipelines[p] <= 1
    BY <2>1
  <2> QED BY <2>1, <2>2
<1>2. TypeOK /\ NeverAnsweredTwice /\ [Next]_vars => NeverAnsweredTwice'
  BY OnePipelineStep
<1> QED BY <1>1, <1>2, TypeCorrect, PTL DEF Spec

\* A page with an address of its own that obeys Retry-After is never rejected
\* twice unless something of the page was let through in between.
THEOREM RetryAfterIsEnough == Spec => []ObeyingIsEnough
<1>1. ASSUME Init, NEW p \in Pages
      PROVE  Promise(p)
  <2>1. rejections[p] = 0 /\ page[p] = "off"
    BY <1>1 DEF Init
  <2>2. rejections[p] <= 1
    BY <2>1
  <2> QED BY <2>1, <2>2 DEF Promise
<1>2. TypeOK /\ Books /\ Promises /\ [Next]_vars => Promises'
  BY PromiseStep
<1>3. Promises => ObeyingIsEnough
  BY DEF Promises, Promise, ObeyingIsEnough
<1>4. Init => Promises
  BY <1>1 DEF Promises
<1> QED BY <1>2, <1>3, <1>4, TypeCorrect, PTL DEF Spec

\* A page with an address of its own, whose requests are not lost on the way,
\* which leaves a share of the window between two utterances, in shares of one
\* request less than the budget, and which creates one conversation in a window,
\* never meets a 429.
THEOREM SteadyIsFree == Spec => []SteadyIsNeverLimited
<1>1. ASSUME Init
      PROVE  Pacing
  <2>1. now > 0
    BY <1>1 DEF Init
  <2>2. ASSUME NEW p \in Pages
        PROVE  OnPace(p)
    <3>1. /\ served[AddressOf[p]] = <<>> /\ reached[p] = 0 /\ rejections[p] = 0
          /\ started[p] = 0 /\ creating[p] = 0 /\ page[p] = "off" /\ now \in Nat
      BY <1>1, LimiterAssumption DEF Init
    <3> QED BY <2>1, <3>1 DEF OnPace
  <2> QED BY <2>1, <2>2 DEF Pacing
<1>2. TypeOK /\ Books /\ Pacing /\ [Next]_vars => Pacing'
  BY PacingStep
<1>3. Pacing => SteadyIsNeverLimited
  BY LimiterAssumption DEF Pacing, OnPace, Undisturbed, SteadyIsNeverLimited
<1>4. Init => Pacing
  BY <1>1
<1> QED BY <1>2, <1>3, <1>4, TypeCorrect, PTL DEF Spec
=============================================================================
