--------------------------- MODULE KeySet_proofs ----------------------------
(***************************************************************************)
(* The key set's cache and budget, for any kids, any number of concurrent  *)
(* requests and any constants in the proportions of TimeAssumption; then   *)
(* its transport, for any cap and any chunks, and the key set over it.     *)
(***************************************************************************)
EXTENDS KeyFetch, TLAPS

Active(r) == at[r] \in Waiting \cup Runnable

\* The fetch in flight, or the last one, seen from the clock.
FlightInv ==
  /\ lastAttemptAt <= now
  /\ lastAttemptAt < 0 => lastAttemptAt = Never
  /\ flight # "none" => lastAttemptAt >= 0 /\ now <= lastAttemptAt + FetchTimeout

\* A fetch that succeeded left a set that outlives the budget it spent.
CarriedInv ==
  flight \in {"none", "settled"} /\ lastAttemptAt >= 0 /\ ~lastFailed =>
    cacheKeys # {} /\ expiresAt >= lastAttemptAt + MinTTL

\* A request that is waiting has a fetch to wait for, and came during it; one that
\* is about to run came during the last fetch or just now.
HeldInv(r) ==
  /\ at[r] \in Waiting => flight # "none" /\ startedAt[r] >= lastAttemptAt
  /\ Active(r) => /\ startedAt[r] <= now
                  /\ \/ startedAt[r] = now
                     \/ startedAt[r] >= lastAttemptAt /\ now <= lastAttemptAt + FetchTimeout

KeySetInv ==
  /\ TypeOK
  /\ FlightInv
  /\ CarriedInv
  /\ \A r \in Requests : HeldInv(r)

-----------------------------------------------------------------------------
\* The clamp keeps a time to live between its two bounds.
LEMMA ClampBounds ==
  ASSUME NEW age \in Nat
  PROVE  Clamp(age) \in Nat /\ MinTTL <= Clamp(age) /\ Clamp(age) <= MaxTTL
  BY TimeAssumption DEF Clamp

\* What attempt() does to the fetch.
LEMMA AttemptFacts ==
  ASSUME TypeOK, FlightInv, CarriedInv, Attempt
  PROVE  /\ lastFailed' = lastFailed
         /\ reply' \subseteq Kids
         /\ \/ flight # "none" /\ UNCHANGED <<flight, reply, lastAttemptAt>>
            \/ /\ flight = "none" /\ now - lastAttemptAt >= FetchInterval
               /\ flight' = "sent" /\ lastAttemptAt' = now
         /\ flight' # "none" /\ flight' \in {"sent", "replied", "settled"}
         /\ lastAttemptAt' \in Int
<1>1. CASE flight # "none"
  BY <1>1 DEF Attempt, CanAttempt, TypeOK
<1>2. CASE flight = "none"
  BY <1>2 DEF Attempt, CanAttempt, BudgetOpen, TypeOK
<1> QED BY <1>1, <1>2

\* Answering a request changes its own place, keys and history only.
LEMMA AnswerFacts ==
  ASSUME TypeOK, NEW r \in Requests, NEW answer \in Answered, AnswerWith(r, answer)
  PROVE  /\ at' \in [Requests -> {"idle"} \cup Waiting \cup Runnable \cup Answered]
         /\ keys' \in [Requests -> SUBSET Kids]
         /\ startedAt' \in [Requests -> Nat]
         /\ kid' = kid
         /\ at'[r] = answer
         /\ \A q \in Requests : q # r => at'[q] = at[q] /\ startedAt'[q] = startedAt[q]
  BY DEF AnswerWith, Goto, TypeOK

\* Nothing a request does on its own disturbs another request's part, as long as the
\* fetch stays what it was or a new one starts when the budget allows.
LEMMA OthersHeld ==
  ASSUME KeySetInv, NEW q \in Requests,
         now' = now, at'[q] = at[q], startedAt'[q] = startedAt[q],
         \/ UNCHANGED <<flight, lastAttemptAt>>
         \/ flight = "none" /\ now - lastAttemptAt >= FetchInterval /\ lastAttemptAt' = now
  PROVE  HeldInv(q)'
<1> USE TimeAssumption
<1>1. CASE UNCHANGED <<flight, lastAttemptAt>>
  BY <1>1 DEF KeySetInv, HeldInv, Active
<1>2. CASE flight = "none" /\ now - lastAttemptAt >= FetchInterval /\ lastAttemptAt' = now
  <2>1. at[q] \notin Waiting
    BY <1>2 DEF KeySetInv, HeldInv
  <2>2. Active(q) => startedAt[q] = now
    BY <1>2 DEF KeySetInv, HeldInv, TypeOK
  <2>3. now \in Int
    BY DEF KeySetInv, TypeOK
  <2> QED BY <1>2, <2>1, <2>2, <2>3 DEF HeldInv, Active
<1> QED BY <1>1, <1>2

\* An attempt keeps the flight's and the cache's part.
LEMMA AttemptInv ==
  ASSUME KeySetInv, Attempt, UNCHANGED <<now, cacheKeys, expiresAt>>
  PROVE  FlightInv' /\ CarriedInv'
<1>1. CASE flight # "none" /\ UNCHANGED <<flight, reply, lastAttemptAt>> /\ lastFailed' = lastFailed
  BY <1>1 DEF KeySetInv, FlightInv, CarriedInv, Never
<1>2. CASE flight = "none" /\ flight' = "sent" /\ lastAttemptAt' = now
  BY <1>2, TimeAssumption DEF KeySetInv, FlightInv, CarriedInv, TypeOK
<1> QED BY <1>1, <1>2, AttemptFacts DEF KeySetInv

\* The invariant holds before the first request.
LEMMA InitKeySetInv == ASSUME Init PROVE KeySetInv
<1> USE TimeAssumption
<1>1. TypeOK
  <2>1. now \in 0 .. Horizon /\ lastAttemptAt \in Int
    BY DEF Init, Never
  <2>2. status \in [Kids -> {"future", "published", "retired"}] /\ since \in [Kids -> Nat]
    BY DEF Init
  <2>3. at \in [Requests -> {"idle"} \cup Waiting \cup Runnable \cup Answered]
    BY DEF Init
  <2>4. /\ kid \in [Requests -> Kids \cup {Forged}] /\ keys \in [Requests -> SUBSET Kids]
        /\ startedAt \in [Requests -> Nat]
    BY DEF Init
  <2> QED BY <2>1, <2>2, <2>3, <2>4 DEF Init, TypeOK
<1>2. FlightInv
  BY DEF Init, FlightInv, Never
<1>3. CarriedInv
  BY DEF Init, CarriedInv, Never
<1>4. \A r \in Requests : HeldInv(r)
  BY DEF Init, HeldInv, Active, Waiting, Runnable
<1> QED BY <1>1, <1>2, <1>3, <1>4 DEF KeySetInv

\* Step 2.
LEMMA CurrentKeepsInv ==
  ASSUME KeySetInv, NEW r \in Requests, NEW k \in Kids \cup {Forged}, Current(r, k)
  PROVE  KeySetInv'
<1>1. /\ at[r] = "idle" /\ kid' = [kid EXCEPT ![r] = k]
      /\ UNCHANGED <<now, cacheKeys, expiresAt, status, since>>
  BY DEF Current, cacheVars, issuerVars
<1>2. TypeOK /\ FlightInv /\ CarriedInv /\ now \in Nat /\ now \in Int
  BY TimeAssumption DEF KeySetInv, TypeOK
<1>3. Unexpired \subseteq Kids
  BY <1>2 DEF Unexpired, TypeOK
<1>4. CASE Hand(r, Unexpired) /\ startedAt' = [startedAt EXCEPT ![r] = now] /\ UNCHANGED flightVars
  <2>1. /\ at'[r] = "keyed" /\ startedAt'[r] = now
        /\ \A q \in Requests : q # r => at'[q] = at[q] /\ startedAt'[q] = startedAt[q]
        /\ UNCHANGED <<flight, reply, lastAttemptAt, lastFailed>>
    BY <1>2, <1>4 DEF Hand, Goto, TypeOK, flightVars
  <2>2. TypeOK'
    BY <1>1, <1>2, <1>3, <1>4, <2>1 DEF Hand, Goto, TypeOK, Runnable
  <2>3. FlightInv' /\ CarriedInv'
    BY <1>1, <1>2, <2>1 DEF FlightInv, CarriedInv, Never
  <2>4. HeldInv(r)'
    BY <1>1, <1>2, <2>1 DEF HeldInv, Active, Waiting
  <2>5. \A q \in Requests : q # r => HeldInv(q)'
    BY <1>1, <2>1, OthersHeld
  <2> QED BY <2>2, <2>3, <2>4, <2>5 DEF KeySetInv
<1>5. CASE /\ Attempt /\ Goto(r, "awaitingCurrent")
           /\ startedAt' = [startedAt EXCEPT ![r] = now] /\ UNCHANGED keys
  <2>1. /\ at'[r] = "awaitingCurrent" /\ startedAt'[r] = now
        /\ \A q \in Requests : q # r => at'[q] = at[q] /\ startedAt'[q] = startedAt[q]
    BY <1>2, <1>5 DEF Goto, TypeOK
  <2>2. TypeOK'
    BY <1>1, <1>2, <1>5, AttemptFacts DEF Goto, TypeOK, Waiting
  <2>3. FlightInv' /\ CarriedInv'
    BY <1>1, <1>5, AttemptInv
  <2>4. HeldInv(r)'
    <3>1. lastAttemptAt' <= now /\ flight' # "none"
      BY <1>2, <1>5, AttemptFacts DEF FlightInv
    <3> QED BY <1>1, <1>2, <2>1, <3>1 DEF HeldInv, Active
  <2>5. \A q \in Requests : q # r => HeldInv(q)'
    BY <1>1, <1>2, <1>5, <2>1, AttemptFacts, OthersHeld
  <2> QED BY <2>2, <2>3, <2>4, <2>5 DEF KeySetInv
<1>6. CASE Goto(r, "unavailable") /\ UNCHANGED <<keys, startedAt, flightVars>>
  <2>1. /\ at'[r] = "unavailable"
        /\ \A q \in Requests : q # r => at'[q] = at[q]
        /\ UNCHANGED <<keys, startedAt, flight, reply, lastAttemptAt, lastFailed>>
    BY <1>2, <1>6 DEF Goto, TypeOK, flightVars
  <2>2. TypeOK'
    BY <1>1, <1>2, <1>6, <2>1 DEF Goto, TypeOK, Answered
  <2>3. FlightInv' /\ CarriedInv'
    BY <1>1, <1>2, <2>1 DEF FlightInv, CarriedInv, Never
  <2>4. HeldInv(r)'
    BY <2>1 DEF HeldInv, Active, Waiting, Runnable
  <2>5. \A q \in Requests : q # r => HeldInv(q)'
    BY <1>1, <2>1, OthersHeld
  <2> QED BY <2>2, <2>3, <2>4, <2>5 DEF KeySetInv
<1> QED BY <1>4, <1>5, <1>6 DEF Current

\* A request that is answered, by whichever step.
LEMMA AnswerKeepsInv ==
  ASSUME KeySetInv, NEW r \in Requests, NEW answer \in Answered, AnswerWith(r, answer),
         UNCHANGED <<now, cacheVars, flightVars, issuerVars>>
  PROVE  KeySetInv'
<1>1. /\ UNCHANGED <<now, cacheKeys, expiresAt, flight, reply, lastAttemptAt, lastFailed,
                     status, since>>
      /\ TypeOK /\ FlightInv /\ CarriedInv
  BY DEF cacheVars, flightVars, issuerVars, KeySetInv
<1>2. /\ at' \in [Requests -> {"idle"} \cup Waiting \cup Runnable \cup Answered]
      /\ keys' \in [Requests -> SUBSET Kids]
      /\ startedAt' \in [Requests -> Nat]
      /\ kid' = kid
      /\ at'[r] = answer
      /\ \A q \in Requests : q # r => at'[q] = at[q] /\ startedAt'[q] = startedAt[q]
  BY <1>1, AnswerFacts
<1>3. TypeOK'
  BY <1>1, <1>2 DEF TypeOK
<1>4. FlightInv' /\ CarriedInv'
  BY <1>1 DEF FlightInv, CarriedInv, Never
<1>5. HeldInv(r)'
  BY <1>2 DEF HeldInv, Active, Waiting, Runnable, Answered
<1>6. \A q \in Requests : q # r => HeldInv(q)'
  BY <1>1, <1>2, OthersHeld
<1> QED BY <1>3, <1>4, <1>5, <1>6 DEF KeySetInv

\* Step 3.
LEMMA LookUpKeepsInv ==
  ASSUME KeySetInv, NEW r \in Requests, LookUp(r)
  PROVE  KeySetInv'
<1>1. /\ at[r] = "keyed"
      /\ UNCHANGED <<now, cacheVars, issuerVars, cacheKeys, expiresAt, status, since>>
      /\ TypeOK /\ FlightInv /\ CarriedInv
  BY DEF LookUp, cacheVars, issuerVars, KeySetInv
<1>2. CASE AnswerWith(r, "verified") /\ UNCHANGED flightVars
  <2>1. "verified" \in Answered
    BY DEF Answered
  <2> QED BY <1>1, <1>2, <2>1, AnswerKeepsInv
<1>3. CASE Attempt /\ Goto(r, "awaitingRefresh") /\ UNCHANGED <<kid, keys, startedAt>>
  <2>1. /\ at'[r] = "awaitingRefresh"
        /\ \A q \in Requests : q # r => at'[q] = at[q]
        /\ UNCHANGED <<kid, keys, startedAt>>
    BY <1>1, <1>3 DEF Goto, TypeOK
  <2>2. TypeOK'
    BY <1>1, <1>3, AttemptFacts DEF Goto, TypeOK, Waiting
  <2>3. FlightInv' /\ CarriedInv'
    BY <1>1, <1>3, AttemptInv
  <2>4. HeldInv(r)'
    <3>1. now \in Int /\ lastAttemptAt \in Int /\ startedAt[r] \in Int
      BY <1>1 DEF TypeOK
    <3>2. /\ startedAt[r] <= now
          /\ \/ startedAt[r] = now
             \/ startedAt[r] >= lastAttemptAt /\ now <= lastAttemptAt + FetchTimeout
      BY <1>1 DEF KeySetInv, HeldInv, Active, Runnable
    <3>3. startedAt[r] >= lastAttemptAt' /\ flight' # "none"
      BY <1>1, <1>3, <3>1, <3>2, AttemptFacts, TimeAssumption DEF FlightInv
    <3>4. \/ startedAt[r] = now
          \/ startedAt[r] >= lastAttemptAt' /\ now <= lastAttemptAt' + FetchTimeout
      BY <1>1, <1>3, <3>1, <3>2, AttemptFacts, TimeAssumption DEF FlightInv
    <3> QED BY <1>1, <2>1, <3>2, <3>3, <3>4 DEF HeldInv, Active
  <2>5. \A q \in Requests : q # r => HeldInv(q)'
    BY <1>1, <1>3, <2>1, AttemptFacts, OthersHeld
  <2> QED BY <2>2, <2>3, <2>4, <2>5 DEF KeySetInv
<1>4. CASE /\ AnswerWith(r, IF kid[r] \in Unexpired THEN "verified" ELSE "unknown")
           /\ UNCHANGED flightVars
  <2>1. (IF kid[r] \in Unexpired THEN "verified" ELSE "unknown") \in Answered
    BY DEF Answered
  <2> QED BY <1>1, <1>4, <2>1, AnswerKeepsInv
<1> QED BY <1>2, <1>3, <1>4 DEF LookUp

\* The two resumptions.
LEMMA ResumeKeepsInv ==
  ASSUME KeySetInv, NEW r \in Requests, ResumeCurrent(r) \/ ResumeRefresh(r)
  PROVE  KeySetInv'
<1>1. CASE ResumeCurrent(r) /\ Unexpired = {}
  <2>1. "unavailable" \in Answered
    BY DEF Answered
  <2> QED BY <1>1, <2>1, AnswerKeepsInv DEF ResumeCurrent
<1>2. CASE ResumeCurrent(r) /\ Unexpired # {}
  <2>1. /\ UNCHANGED <<now, cacheKeys, expiresAt, flight, reply, lastAttemptAt, lastFailed,
                       status, since, kid, startedAt>>
        /\ at[r] = "resumedCurrent" /\ Hand(r, Unexpired)
        /\ TypeOK /\ FlightInv /\ CarriedInv
    BY <1>2 DEF ResumeCurrent, cacheVars, flightVars, issuerVars, KeySetInv
  <2>2. at'[r] = "keyed" /\ \A q \in Requests : q # r => at'[q] = at[q]
    BY <2>1 DEF Hand, Goto, TypeOK
  <2>3. TypeOK'
    BY <2>1 DEF Hand, Goto, TypeOK, Runnable, Unexpired
  <2>4. FlightInv' /\ CarriedInv'
    BY <2>1 DEF FlightInv, CarriedInv, Never
  <2>5. HeldInv(r)'
    BY <2>1, <2>2 DEF KeySetInv, HeldInv, Active, Waiting, Runnable
  <2>6. \A q \in Requests : q # r => HeldInv(q)'
    BY <2>1, <2>2, OthersHeld
  <2> QED BY <2>3, <2>4, <2>5, <2>6 DEF KeySetInv
<1>3. CASE ResumeRefresh(r)
  <2>1. (IF kid[r] \in Unexpired THEN "verified" ELSE "unknown") \in Answered
    BY DEF Answered
  <2> QED BY <1>3, <2>1, AnswerKeepsInv DEF ResumeRefresh
<1> QED BY <1>1, <1>2, <1>3

\* An answered request leaves.
LEMMA LeaveKeepsInv ==
  ASSUME KeySetInv, NEW r \in Requests, Leave(r)
  PROVE  KeySetInv'
<1>1. /\ UNCHANGED <<now, cacheKeys, expiresAt, flight, reply, lastAttemptAt, lastFailed,
                     status, since, keys, startedAt>>
      /\ TypeOK /\ FlightInv /\ CarriedInv
  BY DEF Leave, cacheVars, flightVars, issuerVars, KeySetInv
<1>2. at'[r] = "idle" /\ \A q \in Requests : q # r => at'[q] = at[q]
  BY <1>1 DEF Leave, Goto, TypeOK
<1>3. TypeOK'
  BY <1>1 DEF Leave, Goto, TypeOK
<1>4. FlightInv' /\ CarriedInv'
  BY <1>1 DEF FlightInv, CarriedInv, Never
<1>5. HeldInv(r)'
  BY <1>2 DEF HeldInv, Active, Waiting, Runnable
<1>6. \A q \in Requests : q # r => HeldInv(q)'
  BY <1>1, <1>2, OthersHeld
<1> QED BY <1>3, <1>4, <1>5, <1>6 DEF KeySetInv

\* A fetch that goes from one stage of its flight to the next: everyone's wait goes on.
LEMMA FlightGoesOn ==
  ASSUME KeySetInv, flight # "none", flight' # "none", UNCHANGED <<now, lastAttemptAt>>,
         UNCHANGED requestVars
  PROVE  FlightInv' /\ \A r \in Requests : HeldInv(r)'
<1>1. UNCHANGED <<at, kid, keys, startedAt>>
  BY DEF requestVars
<1>2. FlightInv'
  BY DEF KeySetInv, FlightInv, Never
<1>3. ASSUME NEW r \in Requests PROVE HeldInv(r)'
  BY <1>1 DEF KeySetInv, HeldInv, Active
<1> QED BY <1>2, <1>3

\* The four steps of the fetch.
LEMMA FetchKeepsInv ==
  ASSUME KeySetInv,
         IssuerReplies \/ (\E age \in MaxAges : StoreKeys(age)) \/ FailFetch \/ ClearInFlight
  PROVE  KeySetInv'
<1> TypeOK /\ FlightInv /\ CarriedInv
  BY DEF KeySetInv
<1>1. CASE IssuerReplies
  <2>1. FlightInv' /\ \A r \in Requests : HeldInv(r)'
    BY <1>1, FlightGoesOn DEF IssuerReplies
  <2>2. TypeOK'
    BY <1>1 DEF IssuerReplies, TypeOK, cacheVars, issuerVars, requestVars, Published
  <2>3. CarriedInv'
    BY <1>1 DEF IssuerReplies, CarriedInv
  <2> QED BY <2>1, <2>2, <2>3 DEF KeySetInv
<1>2. ASSUME NEW age \in MaxAges, StoreKeys(age) PROVE KeySetInv'
  <2>1. FlightInv' /\ \A r \in Requests : HeldInv(r)'
    BY <1>2, FlightGoesOn DEF StoreKeys
  <2>2. Clamp(age) \in Nat /\ MinTTL <= Clamp(age) /\ now \in Nat /\ MinTTL \in Nat
    BY KidAssumption, TimeAssumption, ClampBounds DEF TypeOK
  <2>3. expiresAt' \in Nat /\ expiresAt' >= now + MinTTL
    BY <1>2, <2>2 DEF StoreKeys
  <2>4. TypeOK'
    BY <1>2, <2>3 DEF StoreKeys, TypeOK, issuerVars, requestVars
  <2>5. CarriedInv'
    BY <1>2, <2>2, <2>3 DEF StoreKeys, CarriedInv, FlightInv, TypeOK
  <2> QED BY <2>1, <2>4, <2>5 DEF KeySetInv
<1>3. CASE FailFetch
  <2>1. FlightInv' /\ \A r \in Requests : HeldInv(r)'
    BY <1>3, FlightGoesOn DEF FailFetch
  <2>2. TypeOK'
    BY <1>3 DEF FailFetch, TypeOK, cacheVars, issuerVars, requestVars
  <2>3. CarriedInv'
    BY <1>3 DEF FailFetch, CarriedInv
  <2> QED BY <2>1, <2>2, <2>3 DEF KeySetInv
<1>4. CASE ClearInFlight
  <2>1. /\ flight = "settled" /\ flight' = "none"
        /\ UNCHANGED <<now, cacheKeys, expiresAt, reply, lastAttemptAt, lastFailed, status, since,
                       kid, keys, startedAt>>
    BY <1>4 DEF ClearInFlight, cacheVars, issuerVars
  <2>2. ASSUME NEW r \in Requests
        PROVE  /\ at[r] \in Waiting => at'[r] \in Runnable
               /\ at[r] \notin Waiting => at'[r] = at[r]
               /\ at'[r] \notin Waiting
    BY <1>4 DEF ClearInFlight, Waiting, Runnable
  <2>3. at' \in [Requests -> {"idle"} \cup Waiting \cup Runnable \cup Answered]
    <3>1. \A r \in Requests : at'[r] \in {"idle"} \cup Waiting \cup Runnable \cup Answered
      BY <2>2 DEF TypeOK
    <3>2. DOMAIN at' = Requests /\ at' = [r \in Requests |-> at'[r]]
      BY <1>4 DEF ClearInFlight
    <3> QED BY <3>1, <3>2
  <2>4. TypeOK'
    BY <2>1, <2>3 DEF TypeOK
  <2>5. FlightInv' /\ CarriedInv'
    BY <2>1 DEF FlightInv, CarriedInv, Never
  <2>6. ASSUME NEW r \in Requests PROVE HeldInv(r)'
    <3>1. CASE at[r] \in Waiting
      BY <2>1, <2>2, <3>1 DEF KeySetInv, HeldInv, Active, FlightInv
    <3>2. CASE at[r] \notin Waiting
      BY <2>1, <2>2, <3>2 DEF KeySetInv, HeldInv, Active
    <3> QED BY <3>1, <3>2
  <2> QED BY <2>4, <2>5, <2>6 DEF KeySetInv
<1> QED BY <1>1, <1>2, <1>3, <1>4

\* The issuer's changes touch nothing of the service.
LEMMA IssuerKeepsInv ==
  ASSUME KeySetInv, NEW k \in Kids, Publish(k) \/ Retire(k)
  PROVE  KeySetInv'
<1>1. /\ UNCHANGED <<now, cacheKeys, expiresAt, flight, reply, lastAttemptAt, lastFailed,
                     at, kid, keys, startedAt>>
      /\ TypeOK /\ FlightInv /\ CarriedInv
  BY DEF Publish, Retire, cacheVars, flightVars, requestVars, KeySetInv
<1>2. now \in Nat
  BY <1>1, TimeAssumption DEF TypeOK
<1>3. status' \in [Kids -> {"future", "published", "retired"}] /\ since' \in [Kids -> Nat]
  BY <1>1, <1>2 DEF Publish, Retire, TypeOK
<1>4. TypeOK'
  BY <1>1, <1>3 DEF TypeOK
<1>5. FlightInv' /\ CarriedInv'
  BY <1>1 DEF FlightInv, CarriedInv, Never
<1>6. \A r \in Requests : HeldInv(r)'
  BY <1>1 DEF KeySetInv, HeldInv, Active
<1> QED BY <1>4, <1>5, <1>6 DEF KeySetInv

\* Time passes with nothing left to run: whoever is held waits for the fetch.
LEMMA TickKeepsInv ==
  ASSUME KeySetInv, Tick
  PROVE  KeySetInv'
<1>1. /\ UNCHANGED <<cacheKeys, expiresAt, flight, reply, lastAttemptAt, lastFailed, status, since,
                     at, kid, keys, startedAt>>
      /\ now' = now + 1 /\ now < Horizon
      /\ flight # "none" => now < lastAttemptAt + FetchTimeout
      /\ \A r \in Requests : at[r] \notin Runnable
      /\ TypeOK /\ FlightInv /\ CarriedInv
  BY DEF Tick, cacheVars, flightVars, issuerVars, requestVars, KeySetInv
<1>2. /\ now \in Nat /\ lastAttemptAt \in Int /\ FetchTimeout \in Nat /\ Horizon \in Nat
      /\ \A r \in Requests : startedAt[r] \in Nat
  BY <1>1, TimeAssumption DEF TypeOK
<1>3. TypeOK'
  BY <1>1, <1>2 DEF TypeOK
<1>4. FlightInv' /\ CarriedInv'
  BY <1>1, <1>2 DEF FlightInv, CarriedInv, Never
<1>5. ASSUME NEW r \in Requests PROVE HeldInv(r)'
  BY <1>1, <1>2 DEF KeySetInv, HeldInv, Active
<1> QED BY <1>3, <1>4, <1>5 DEF KeySetInv

\* Every step of the module.
LEMMA NextKeepsInv ==
  ASSUME KeySetInv, [Next]_vars
  PROVE  KeySetInv'
<1>1. CASE UNCHANGED vars
  <2>1. UNCHANGED <<now, cacheKeys, expiresAt, flight, reply, lastAttemptAt, lastFailed, status,
                    since, at, kid, keys, startedAt>>
    BY <1>1 DEF vars, cacheVars, flightVars, issuerVars, requestVars
  <2> QED BY <2>1 DEF KeySetInv, TypeOK, FlightInv, CarriedInv, HeldInv, Active, Never
<1>2. CASE Next
  BY <1>2, CurrentKeepsInv, LookUpKeepsInv, ResumeKeepsInv, LeaveKeepsInv, FetchKeepsInv,
     IssuerKeepsInv, TickKeepsInv DEF Next, RequestStep
<1> QED BY <1>1, <1>2

\* The key set's inductive invariant.
THEOREM KeySetInvariant == Spec => []KeySetInv
<1>1. Init => KeySetInv
  BY InitKeySetInv
<1>2. KeySetInv /\ [Next]_vars => KeySetInv'
  BY NextKeepsInv
<1> QED BY <1>1, <1>2, PTL DEF Spec

-----------------------------------------------------------------------------
\* Every variable of the key set keeps its type.
THEOREM KeySetTyped == Spec => []TypeOK
<1>1. KeySetInv => TypeOK
  BY DEF KeySetInv
<1> QED BY <1>1, KeySetInvariant, PTL

\* No 503 for want of keys follows a fetch that succeeded: the shortest life a set may
\* have is no shorter than the interval between two fetches.
THEOREM KeySetNoBlackout == Spec => []NoBlackoutAfterSuccess
<1>1. KeySetInv => NoBlackoutAfterSuccess
  <2> SUFFICES ASSUME KeySetInv, Unexpired = {}, ~CanAttempt PROVE lastFailed
    BY DEF NoBlackoutAfterSuccess
  <2>1. /\ TypeOK /\ FlightInv /\ CarriedInv
        /\ flight = "none" /\ ~(now - lastAttemptAt >= FetchInterval)
    BY DEF KeySetInv, CanAttempt, BudgetOpen
  <2>2. /\ now \in Nat /\ lastAttemptAt \in Int /\ expiresAt \in Nat
        /\ FetchInterval \in Nat /\ MinTTL \in Nat /\ FetchInterval <= MinTTL
    BY <2>1, TimeAssumption DEF TypeOK
  <2>3. lastAttemptAt >= 0
    BY <2>1, <2>2 DEF FlightInv, Never
  <2>4. CASE ~lastFailed
    <3>1. cacheKeys # {} /\ expiresAt >= lastAttemptAt + MinTTL
      BY <2>1, <2>3, <2>4 DEF CarriedInv
    <3>2. now < expiresAt
      BY <2>1, <2>2, <3>1
    <3> QED BY <3>1, <3>2 DEF Unexpired
  <2> QED BY <2>1, <2>4 DEF TypeOK
<1> QED BY <1>1, KeySetInvariant, PTL

\* No request waits longer than the deadline of one fetch, whichever of its two awaits
\* it comes to and however many requests share the fetch.
THEOREM KeySetHeldForOneFetch == Spec => []HeldForOneFetch
<1>1. KeySetInv => HeldForOneFetch
  <2> SUFFICES ASSUME KeySetInv, NEW r \in Requests, at[r] \notin {"idle"} \cup Answered
               PROVE  now - startedAt[r] <= FetchTimeout
    BY DEF HeldForOneFetch
  <2>1. TypeOK /\ FlightInv /\ HeldInv(r)
    BY DEF KeySetInv
  <2>2. /\ now \in Nat /\ lastAttemptAt \in Int /\ startedAt[r] \in Nat /\ FetchTimeout \in Nat
    BY <2>1, TimeAssumption DEF TypeOK
  <2>3. Active(r)
    BY <2>1 DEF TypeOK, Active
  <2> QED BY <2>1, <2>2, <2>3 DEF HeldInv
<1> QED BY <1>1, KeySetInvariant, PTL

-----------------------------------------------------------------------------
(* Rotation.  How old what the service holds may be, against what the issuer has      *)
(* published and retired since: of the cache, of a reply on its way to it, and of the *)
(* set a request was handed and has not looked into yet.                              *)

\* The kid is published, or was until at most a fetch and the longest life before `until`.
Aged(k, until) ==
  \/ status[k] = "published"
  \/ status[k] = "retired" /\ until <= since[k] + FetchTimeout + MaxTTL

CacheAged ==
  /\ expiresAt <= now + MaxTTL
  /\ \A k \in cacheKeys : Aged(k, expiresAt)

ReplyAged ==
  flight = "replied" =>
    \A k \in reply :
      \/ status[k] = "published"
      \/ status[k] = "retired" /\ lastAttemptAt <= since[k]

\* A kid that was published before the last attempt is in what that attempt brought.
Noticed ==
  \A k \in Published :
    since[k] < lastAttemptAt =>
      /\ flight = "replied" => k \in reply
      /\ flight \in {"none", "settled"} /\ ~lastFailed => k \in cacheKeys

KeyedInv(r) == at[r] = "keyed" => \A k \in keys[r] : Aged(k, now + 1)

\* Whoever has waited for a refetch looks at the cache that refetch left.
RefreshedInv(r) ==
  at[r] = "resumedRefresh" =>
    flight = "none" /\ lastAttemptAt >= 0 /\ now <= lastAttemptAt + FetchTimeout

RotationInv ==
  /\ CacheAged
  /\ ReplyAged
  /\ Noticed
  /\ \A r \in Requests : KeyedInv(r) /\ RefreshedInv(r)

\* What the type invariant says of the numbers.
LEMMA Numbers ==
  ASSUME TypeOK
  PROVE  /\ now \in Nat /\ expiresAt \in Nat /\ lastAttemptAt \in Int
         /\ \A k \in Kids : since[k] \in Nat
         /\ {MinTTL, MaxTTL, FetchInterval, FetchTimeout} \subseteq Nat
         /\ 0 < FetchTimeout /\ FetchTimeout < FetchInterval /\ FetchInterval <= MinTTL
  BY TimeAssumption DEF TypeOK

\* What is handed to a request is as young as the cache.
LEMMA HandedAged ==
  ASSUME KeySetInv, RotationInv, NEW k \in Unexpired
  PROVE  k \in Kids /\ k \in cacheKeys /\ now < expiresAt /\ Aged(k, now + 1)
<1>1. TypeOK /\ k \in cacheKeys /\ now < expiresAt
  BY DEF KeySetInv, Unexpired
<1>2. k \in Kids /\ Aged(k, expiresAt)
  BY <1>1 DEF TypeOK, RotationInv, CacheAged
<1> QED BY <1>1, <1>2, Numbers DEF Aged

\* A request's step keeps what is known of ages, as long as it is handed nothing but the
\* cache: a fetch that it starts finds nobody who has just waited for another.
LEMMA RequestRotates ==
  ASSUME KeySetInv, RotationInv, NEW r \in Requests,
         UNCHANGED <<now, cacheKeys, expiresAt, status, since>>,
         \A q \in Requests : q # r => at'[q] = at[q] /\ keys'[q] = keys[q],
         at'[r] = "keyed" => keys'[r] = Unexpired, at'[r] # "resumedRefresh",
         UNCHANGED <<flight, reply, lastAttemptAt, lastFailed>> \/ Attempt
  PROVE  RotationInv'
<1> USE DEF RotationInv, Aged
<1>1. TypeOK /\ FlightInv /\ CarriedInv
  BY DEF KeySetInv
<1>2. CacheAged'
  BY DEF CacheAged
<1>3. ASSUME NEW q \in Requests PROVE KeyedInv(q)'
  <2>1. CASE q = r
    BY <2>1, HandedAged DEF KeyedInv
  <2>2. CASE q # r
    BY <2>2 DEF KeyedInv
  <2> QED BY <2>1, <2>2
<1>4. CASE UNCHANGED <<flight, reply, lastAttemptAt, lastFailed>>
  <2>1. ReplyAged' /\ Noticed'
    BY <1>4 DEF ReplyAged, Noticed, Published
  <2>2. \A q \in Requests : RefreshedInv(q)'
    BY <1>4 DEF RefreshedInv
  <2> QED BY <1>2, <1>3, <2>1, <2>2
<1>5. CASE /\ flight = "none" /\ now - lastAttemptAt >= FetchInterval
           /\ flight' = "sent" /\ lastAttemptAt' = now
  <2>1. ReplyAged' /\ Noticed'
    BY <1>5 DEF ReplyAged, Noticed
  <2>2. \A q \in Requests : at[q] # "resumedRefresh"
    BY <1>1, <1>5, Numbers DEF RefreshedInv
  <2>3. \A q \in Requests : RefreshedInv(q)'
    BY <2>2 DEF RefreshedInv
  <2> QED BY <1>2, <1>3, <2>1, <2>3
<1> QED BY <1>1, <1>4, <1>5, AttemptFacts

\* Steps 2 and 3 and the request's leaving.
LEMMA RequestStepRotates ==
  ASSUME KeySetInv, RotationInv, NEW r \in Requests,
         (\E k \in Kids \cup {Forged} : Current(r, k)) \/ RequestStep(r) \/ Leave(r)
  PROVE  RotationInv'
<1> TypeOK
  BY DEF KeySetInv
<1>1. ASSUME NEW k \in Kids \cup {Forged}, Current(r, k) PROVE RotationInv'
  <2>1. /\ UNCHANGED <<now, cacheKeys, expiresAt, status, since>>
        /\ UNCHANGED <<flight, reply, lastAttemptAt, lastFailed>> \/ Attempt
        /\ \A q \in Requests : q # r => at'[q] = at[q] /\ keys'[q] = keys[q]
        /\ at'[r] # "resumedRefresh" /\ (at'[r] = "keyed" => keys'[r] = Unexpired)
    BY <1>1 DEF Current, Hand, Goto, TypeOK, cacheVars, issuerVars, flightVars
  <2> QED BY <2>1, RequestRotates
<1>2. CASE LookUp(r)
  <2>1. /\ UNCHANGED <<now, cacheKeys, expiresAt, status, since>>
        /\ UNCHANGED <<flight, reply, lastAttemptAt, lastFailed>> \/ Attempt
        /\ \A q \in Requests : q # r => at'[q] = at[q] /\ keys'[q] = keys[q]
        /\ at'[r] # "resumedRefresh" /\ at'[r] # "keyed"
    BY <1>2 DEF LookUp, AnswerWith, Goto, TypeOK, cacheVars, issuerVars, flightVars
  <2> QED BY <2>1, RequestRotates
<1>3. CASE ResumeCurrent(r) \/ ResumeRefresh(r)
  <2>1. /\ UNCHANGED <<now, cacheKeys, expiresAt, status, since>>
        /\ UNCHANGED <<flight, reply, lastAttemptAt, lastFailed>>
        /\ \A q \in Requests : q # r => at'[q] = at[q] /\ keys'[q] = keys[q]
        /\ at'[r] # "resumedRefresh" /\ (at'[r] = "keyed" => keys'[r] = Unexpired)
    BY <1>3 DEF ResumeCurrent, ResumeRefresh, AnswerWith, Hand, Goto, TypeOK, cacheVars,
                issuerVars, flightVars
  <2> QED BY <2>1, RequestRotates
<1>4. CASE Leave(r)
  <2>1. /\ UNCHANGED <<now, cacheKeys, expiresAt, status, since>>
        /\ UNCHANGED <<flight, reply, lastAttemptAt, lastFailed>>
        /\ \A q \in Requests : q # r => at'[q] = at[q] /\ keys'[q] = keys[q]
        /\ at'[r] = "idle"
    BY <1>4 DEF Leave, Goto, TypeOK, cacheVars, issuerVars, flightVars
  <2> QED BY <2>1, RequestRotates
<1> QED BY <1>1, <1>2, <1>3, <1>4 DEF RequestStep

\* The fetch: what the issuer answers is what it publishes, and the cache is what it answered
\* within a fetch of that.
LEMMA FetchRotates ==
  ASSUME KeySetInv, RotationInv,
         IssuerReplies \/ (\E age \in MaxAges : StoreKeys(age)) \/ FailFetch \/ ClearInFlight
  PROVE  RotationInv'
<1> USE DEF RotationInv, Aged
<1>1. TypeOK /\ FlightInv
  BY DEF KeySetInv
<1>2. ASSUME UNCHANGED requestVars, flight # "none", UNCHANGED <<now, status, since>>
      PROVE  \A r \in Requests : KeyedInv(r)' /\ RefreshedInv(r)'
  BY <1>2 DEF requestVars, KeyedInv, RefreshedInv
<1>3. CASE IssuerReplies
  <2>1. /\ flight # "none" /\ flight' = "replied" /\ reply' = Published
        /\ UNCHANGED <<now, cacheKeys, expiresAt, lastAttemptAt, lastFailed, status, since>>
        /\ UNCHANGED requestVars
    BY <1>3 DEF IssuerReplies, cacheVars, issuerVars
  <2>2. CacheAged' /\ ReplyAged' /\ Noticed'
    BY <2>1 DEF CacheAged, ReplyAged, Noticed, Published
  <2> QED BY <1>2, <2>1, <2>2
<1>4. ASSUME NEW age \in MaxAges, StoreKeys(age) PROVE RotationInv'
  <2>1. /\ flight = "replied" /\ flight' = "settled" /\ cacheKeys' = reply
        /\ expiresAt' = now + Clamp(age) /\ lastFailed' = FALSE
        /\ UNCHANGED <<now, reply, lastAttemptAt, status, since>> /\ UNCHANGED requestVars
    BY <1>4 DEF StoreKeys, issuerVars
  <2>2. Clamp(age) \in Nat /\ Clamp(age) <= MaxTTL
    BY KidAssumption, ClampBounds
  <2>3. now <= lastAttemptAt + FetchTimeout
    BY <1>1, <2>1 DEF FlightInv
  <2>4. ASSUME NEW k \in reply PROVE Aged(k, now + Clamp(age))
    BY <1>1, <2>1, <2>2, <2>3, <2>4, Numbers DEF ReplyAged, TypeOK
  <2>5. CacheAged'
    BY <1>1, <2>1, <2>2, <2>4, Numbers DEF CacheAged
  <2>6. ReplyAged' /\ Noticed'
    BY <2>1 DEF ReplyAged, Noticed, Published
  <2> QED BY <1>2, <2>1, <2>5, <2>6
<1>5. CASE FailFetch
  <2>1. /\ flight # "none" /\ flight' = "settled" /\ lastFailed' = TRUE
        /\ UNCHANGED <<now, cacheKeys, expiresAt, reply, lastAttemptAt, status, since>>
        /\ UNCHANGED requestVars
    BY <1>5 DEF FailFetch, cacheVars, issuerVars
  <2>2. CacheAged' /\ ReplyAged' /\ Noticed'
    BY <2>1 DEF CacheAged, ReplyAged, Noticed
  <2> QED BY <1>2, <2>1, <2>2
<1>6. CASE ClearInFlight
  <2>1. /\ flight = "settled" /\ flight' = "none"
        /\ UNCHANGED <<now, cacheKeys, expiresAt, reply, lastAttemptAt, lastFailed, status, since,
                       kid, keys, startedAt>>
        /\ \A r \in Requests : at'[r] = "keyed" => at[r] = "keyed"
    BY <1>6 DEF ClearInFlight, cacheVars, issuerVars
  <2>2. CacheAged' /\ ReplyAged' /\ Noticed'
    BY <2>1 DEF CacheAged, ReplyAged, Noticed, Published
  <2>3. \A r \in Requests : KeyedInv(r)' /\ RefreshedInv(r)'
    BY <1>1, <2>1 DEF KeyedInv, RefreshedInv, FlightInv
  <2> QED BY <2>2, <2>3
<1> QED BY <1>3, <1>4, <1>5, <1>6

\* The issuer: a kid that is retired now was held, answered and handed out before now.
LEMMA IssuerRotates ==
  ASSUME KeySetInv, RotationInv, NEW k \in Kids, Publish(k) \/ Retire(k)
  PROVE  RotationInv'
<1> USE DEF RotationInv
<1>1. TypeOK /\ FlightInv
  BY DEF KeySetInv
<1>2. /\ UNCHANGED <<now, cacheKeys, expiresAt, flight, reply, lastAttemptAt, lastFailed,
                     at, kid, keys, startedAt>>
      /\ \A j \in Kids : j # k => status'[j] = status[j] /\ since'[j] = since[j]
      /\ since'[k] = now /\ status[k] # "retired"
      /\ \/ status[k] = "future" /\ status'[k] = "published"
         \/ status[k] = "published" /\ status'[k] = "retired"
  BY <1>1 DEF Publish, Retire, TypeOK, cacheVars, flightVars, requestVars
<1>3. CacheAged'
  <2>1. ASSUME NEW j \in cacheKeys PROVE Aged(j, expiresAt)'
    <3>1. j \in Kids /\ Aged(j, expiresAt) /\ expiresAt <= now + MaxTTL
      BY <1>1 DEF TypeOK, CacheAged
    <3>2. CASE j = k
      BY <1>1, <1>2, <3>1, <3>2, Numbers DEF Aged
    <3>3. CASE j # k
      BY <1>2, <3>1, <3>3 DEF Aged
    <3> QED BY <3>2, <3>3
  <2> QED BY <1>2, <2>1 DEF CacheAged
<1>4. ReplyAged'
  BY <1>1, <1>2 DEF ReplyAged, FlightInv, TypeOK
<1>5. Noticed'
  BY <1>1, <1>2, Numbers DEF Noticed, Published, FlightInv
<1>6. ASSUME NEW r \in Requests PROVE KeyedInv(r)' /\ RefreshedInv(r)'
  <2>1. ASSUME at[r] = "keyed", NEW j \in keys[r] PROVE Aged(j, now + 1)'
    <3>1. j \in Kids /\ Aged(j, now + 1)
      BY <1>1, <2>1 DEF TypeOK, KeyedInv
    <3>2. CASE j = k
      BY <1>1, <1>2, <3>1, <3>2, Numbers DEF Aged
    <3>3. CASE j # k
      BY <1>2, <3>1, <3>3 DEF Aged
    <3> QED BY <3>2, <3>3
  <2> QED BY <1>2, <2>1 DEF KeyedInv, RefreshedInv
<1> QED BY <1>3, <1>4, <1>5, <1>6

\* The clock: nobody holds a set while it moves.
LEMMA TickRotates ==
  ASSUME KeySetInv, RotationInv, Tick
  PROVE  RotationInv'
<1> USE DEF RotationInv, Aged
<1>1. /\ UNCHANGED <<cacheKeys, expiresAt, flight, reply, lastAttemptAt, lastFailed, status, since,
                     at, kid, keys, startedAt>>
      /\ now' = now + 1
      /\ \A r \in Requests : at[r] # "keyed" /\ at[r] # "resumedRefresh"
      /\ TypeOK
  BY DEF Tick, cacheVars, flightVars, issuerVars, requestVars, KeySetInv, Runnable
<1>2. CacheAged'
  BY <1>1, Numbers DEF CacheAged
<1>3. ReplyAged' /\ Noticed'
  BY <1>1 DEF ReplyAged, Noticed, Published
<1>4. \A r \in Requests : KeyedInv(r)' /\ RefreshedInv(r)'
  BY <1>1 DEF KeyedInv, RefreshedInv
<1> QED BY <1>2, <1>3, <1>4

\* Every step keeps the ages.
LEMMA NextRotates ==
  ASSUME KeySetInv, RotationInv, [Next]_vars
  PROVE  RotationInv'
<1>1. CASE UNCHANGED vars
  <2>1. UNCHANGED <<now, cacheKeys, expiresAt, flight, reply, lastAttemptAt, lastFailed, status,
                    since, at, kid, keys, startedAt>>
    BY <1>1 DEF vars, cacheVars, flightVars, issuerVars, requestVars
  <2> QED BY <2>1 DEF RotationInv, CacheAged, ReplyAged, Noticed, Published, KeyedInv,
                      RefreshedInv, Aged
<1>2. CASE Next
  BY <1>2, RequestStepRotates, FetchRotates, IssuerRotates, TickRotates DEF Next
<1> QED BY <1>1, <1>2

\* The ages are an invariant of the key set.
THEOREM KeySetRotation == Spec => []RotationInv
<1>1. Init => RotationInv
  <2> SUFFICES ASSUME Init PROVE RotationInv
    OBVIOUS
  <2>1. CacheAged /\ ReplyAged
    BY TimeAssumption DEF Init, CacheAged, ReplyAged
  <2>2. Noticed
    <3>1. \A k \in Kids : since[k] = 0
      BY DEF Init
    <3>2. ~(0 < lastAttemptAt)
      BY TimeAssumption DEF Init, Never
    <3> QED BY <3>1, <3>2 DEF Noticed, Published
  <2>3. \A r \in Requests : KeyedInv(r) /\ RefreshedInv(r)
    BY DEF Init, KeyedInv, RefreshedInv
  <2> QED BY <2>1, <2>2, <2>3 DEF RotationInv
<1>2. KeySetInv /\ RotationInv /\ [Next]_vars => RotationInv'
  BY NextRotates
<1> QED BY <1>1, <1>2, KeySetInvariant, PTL DEF Spec

\* Which steps verify a token, and under what.
LEMMA VerifyingStep ==
  ASSUME KeySetInv, [Next]_vars, NEW r \in Requests, at[r] # "verified", at'[r] = "verified"
  PROVE  kid[r] \in Unexpired \/ (at[r] = "keyed" /\ kid[r] \in keys[r])
<1> TypeOK
  BY DEF KeySetInv
<1>1. ASSUME NEW q \in Requests, NEW k \in Kids \cup {Forged}, Current(q, k) PROVE FALSE
  BY <1>1 DEF Current, Hand, Goto, TypeOK
<1>2. ASSUME NEW q \in Requests, LookUp(q)
      PROVE  kid[r] \in Unexpired \/ (at[r] = "keyed" /\ kid[r] \in keys[r])
  BY <1>2 DEF LookUp, AnswerWith, Goto, TypeOK
<1>3. ASSUME NEW q \in Requests, ResumeCurrent(q) \/ ResumeRefresh(q)
      PROVE  kid[r] \in Unexpired
  BY <1>3 DEF ResumeCurrent, ResumeRefresh, AnswerWith, Hand, Goto, TypeOK
<1>4. ASSUME NEW q \in Requests, Leave(q) PROVE FALSE
  BY <1>4 DEF Leave, Goto, TypeOK
<1>5. ASSUME ClearInFlight PROVE FALSE
  BY <1>5 DEF ClearInFlight
<1>6. ASSUME \/ IssuerReplies \/ (\E age \in MaxAges : StoreKeys(age)) \/ FailFetch \/ Tick
             \/ (\E k \in Kids : Publish(k) \/ Retire(k)) \/ UNCHANGED vars
      PROVE  FALSE
  BY <1>6 DEF IssuerReplies, StoreKeys, FailFetch, Tick, Publish, Retire, vars, requestVars
<1> QED BY <1>1, <1>2, <1>3, <1>4, <1>5, <1>6 DEF Next, RequestStep

\* Which steps refuse a token's kid as unknown, and when.
LEMMA RefusingStep ==
  ASSUME KeySetInv, [Next]_vars, NEW r \in Requests, at[r] # "unknown", at'[r] = "unknown"
  PROVE  kid[r] \notin Unexpired /\ (~CanAttempt \/ at[r] = "resumedRefresh")
<1> TypeOK
  BY DEF KeySetInv
<1>1. ASSUME NEW q \in Requests, NEW k \in Kids \cup {Forged}, Current(q, k) PROVE FALSE
  BY <1>1 DEF Current, Hand, Goto, TypeOK
<1>2. ASSUME NEW q \in Requests, LookUp(q)
      PROVE  kid[r] \notin Unexpired /\ ~CanAttempt
  BY <1>2 DEF LookUp, AnswerWith, Goto, TypeOK
<1>3. ASSUME NEW q \in Requests, ResumeCurrent(q) PROVE FALSE
  BY <1>3 DEF ResumeCurrent, AnswerWith, Hand, Goto, TypeOK
<1>4. ASSUME NEW q \in Requests, ResumeRefresh(q)
      PROVE  kid[r] \notin Unexpired /\ at[r] = "resumedRefresh"
  BY <1>4 DEF ResumeRefresh, AnswerWith, Goto, TypeOK
<1>5. ASSUME NEW q \in Requests, Leave(q) PROVE FALSE
  BY <1>5 DEF Leave, Goto, TypeOK
<1>6. ASSUME ClearInFlight PROVE FALSE
  BY <1>6 DEF ClearInFlight
<1>7. ASSUME \/ IssuerReplies \/ (\E age \in MaxAges : StoreKeys(age)) \/ FailFetch \/ Tick
             \/ (\E k \in Kids : Publish(k) \/ Retire(k)) \/ UNCHANGED vars
      PROVE  FALSE
  BY <1>7 DEF IssuerReplies, StoreKeys, FailFetch, Tick, Publish, Retire, vars, requestVars
<1> QED BY <1>1, <1>2, <1>3, <1>4, <1>5, <1>6, <1>7 DEF Next, RequestStep

\* A retired key verifies nothing once the longest life of a cached set and one fetch have
\* passed since it was retired, whichever of the three sets the request looked into.
THEOREM KeySetRetiredKeyBound == Spec => RetiredKeyBound
<1>1. KeySetInv /\ RotationInv /\ [Next]_vars =>
        \A r \in Requests :
          at[r] # "verified" /\ at'[r] = "verified" =>
            \/ kid[r] \in Published
            \/ /\ kid[r] \in Kids /\ status[kid[r]] = "retired"
               /\ now < since[kid[r]] + FetchTimeout + MaxTTL
  <2> SUFFICES ASSUME KeySetInv, RotationInv, [Next]_vars, NEW r \in Requests,
                      at[r] # "verified", at'[r] = "verified"
               PROVE  \/ kid[r] \in Published
                      \/ /\ kid[r] \in Kids /\ status[kid[r]] = "retired"
                         /\ now < since[kid[r]] + FetchTimeout + MaxTTL
    OBVIOUS
  <2>1. kid[r] \in Kids /\ Aged(kid[r], now + 1)
    <3>1. CASE kid[r] \in Unexpired
      BY <3>1, HandedAged
    <3>2. CASE at[r] = "keyed" /\ kid[r] \in keys[r]
      BY <3>2 DEF KeySetInv, TypeOK, RotationInv, KeyedInv
    <3> QED BY <3>1, <3>2, VerifyingStep
  <2> QED BY <2>1, Numbers DEF KeySetInv, Aged, Published
<1> QED BY <1>1, KeySetInvariant, KeySetRotation, PTL DEF Spec, RetiredKeyBound

\* A rotation is noticed: with the key published for an interval, only a fetch that failed
\* lets its tokens be refused as unknown.
THEOREM KeySetRotationNoticed == Spec => RotationNoticed
<1>1. KeySetInv /\ RotationInv /\ [Next]_vars =>
        \A r \in Requests :
          /\ at[r] # "unknown" /\ at'[r] = "unknown"
          /\ kid[r] \in Published /\ now - since[kid[r]] >= FetchInterval
          => lastFailed
  <2> SUFFICES ASSUME KeySetInv, RotationInv, [Next]_vars, NEW r \in Requests,
                      at[r] # "unknown", at'[r] = "unknown",
                      kid[r] \in Published, now - since[kid[r]] >= FetchInterval,
                      ~lastFailed
               PROVE  FALSE
    BY DEF KeySetInv, TypeOK
  <2>1. kid[r] \notin Unexpired /\ (~CanAttempt \/ at[r] = "resumedRefresh")
    BY RefusingStep
  <2>2. TypeOK /\ FlightInv /\ CarriedInv /\ kid[r] \in Kids
    BY DEF KeySetInv, Published
  <2>3. /\ flight = "none" /\ lastAttemptAt >= 0 /\ since[kid[r]] < lastAttemptAt
        /\ now < lastAttemptAt + FetchInterval
    <3>1. CASE ~CanAttempt
      BY <2>2, <3>1, Numbers DEF CanAttempt, BudgetOpen, FlightInv, Never
    <3>2. CASE at[r] = "resumedRefresh"
      BY <2>2, <3>2, Numbers DEF RotationInv, RefreshedInv
    <3> QED BY <2>1, <3>1, <3>2
  <2>4. kid[r] \in cacheKeys
    BY <2>3 DEF RotationInv, Noticed
  <2>5. now < expiresAt
    BY <2>2, <2>3, Numbers DEF CarriedInv
  <2> QED BY <2>1, <2>4, <2>5 DEF Unexpired
<1> QED BY <1>1, KeySetInvariant, KeySetRotation, PTL DEF Spec, RotationNoticed

-----------------------------------------------------------------------------
(* The transport, and the key set over it *)

\* A settled exchange: a whole body within the cap, or a failure whose request is no longer
\* open; in either case no timer.
SettledInv ==
  /\ promise = "resolved" =>
       response = "ended" /\ kept = received /\ kept <= Cap /\ outgoing = "open"
  /\ promise = "rejected" => outgoing # "open"
  /\ Settled => ~deadline

\* Until it is settled an exchange has its timer, its request and every byte that came.
ExchangeInv ==
  /\ ExchangeOK
  /\ SettledInv
  /\ promise = "pending" =>
       /\ deadline /\ outgoing = "open" /\ response \in {"none", "reading"}
       /\ kept = received /\ kept <= Cap

\* fail(), at any moment of an exchange.
LEMMA FailSettles ==
  ASSUME ExchangeInv, Fail, received' \in Nat, kept' = kept,
         response' \in {"none", "refused", "reading", "ended", "broken"},
         promise = "resolved" => response' = response /\ received' = received
  PROVE  ExchangeInv'
<1> USE DEF ExchangeInv, ExchangeOK, SettledInv, Settled
<1>1. CASE Settled
  BY <1>1 DEF Fail
<1>2. CASE ~Settled
  BY <1>2 DEF Fail
<1> QED BY <1>1, <1>2

\* Whatever the network does, and in whatever order, the exchange is settled once.
LEMMA NetworkKeepsExchange ==
  ASSUME ExchangeInv, NetworkStep
  PROVE  ExchangeInv'
<1> USE CapAssumption
<1>1. /\ promise \in {"none", "pending", "resolved", "rejected"} /\ received \in Nat /\ kept \in Nat
      /\ response \in {"none", "refused", "reading", "ended", "broken"}
      /\ promise = "resolved" => response = "ended"
      /\ Settled <=> promise # "pending"
  BY DEF ExchangeInv, ExchangeOK, SettledInv, Settled
<1>2. ASSUME NEW ok \in BOOLEAN, NEW declared \in {Undeclared, Cap, Cap + 1}, Respond(ok, declared)
      PROVE  ExchangeInv'
  <2>1. CASE response' = "refused" /\ Fail
    BY <1>1, <1>2, <2>1, FailSettles DEF Respond
  <2>2. CASE response' = "reading" /\ UNCHANGED <<promise, deadline, outgoing>>
    BY <1>1, <1>2, <2>2 DEF Respond, ExchangeInv, ExchangeOK, SettledInv, Settled
  <2> QED BY <1>2, <2>1, <2>2 DEF Respond
<1>3. ASSUME NEW n \in Chunks, Data(n) PROVE ExchangeInv'
  <2>1. n \in Nat /\ received' = received + n /\ received' \in Nat /\ promise = "pending"
    BY <1>1, <1>3 DEF Data
  <2>2. CASE received' > Cap
    BY <1>1, <1>3, <2>1, <2>2, FailSettles DEF Data
  <2>3. CASE ~(received' > Cap)
    BY <1>1, <1>3, <2>1, <2>3
    DEF Data, ExchangeInv, ExchangeOK, SettledInv, Settled
  <2> QED BY <2>2, <2>3
<1>4. CASE End
  BY <1>1, <1>4 DEF End, ExchangeInv, ExchangeOK, SettledInv, Settled
<1>5. CASE BreakResponse
  BY <1>1, <1>5, FailSettles DEF BreakResponse
<1>6. CASE BreakRequest
  BY <1>1, <1>6, FailSettles DEF BreakRequest
<1> QED BY <1>2, <1>3, <1>4, <1>5, <1>6 DEF NetworkStep

\* An exchange opened has all it needs to be settled; one that could not be is settled.
LEMMA OpenStarts ==
  ASSUME Open
  PROVE  ExchangeInv'
<1>1. 0 \in Nat /\ 0 <= Cap
  BY CapAssumption
<1>2. response' = "none" /\ received' = 0 /\ kept' = 0
  BY DEF Open
<1>3. CASE promise' = "pending" /\ deadline' = TRUE /\ outgoing' = "open"
  <2>1. deadline' /\ deadline' \in BOOLEAN
    BY <1>3
  <2> QED BY <1>1, <1>2, <1>3, <2>1 DEF ExchangeInv, ExchangeOK, SettledInv, Settled
<1>4. CASE promise' = "rejected" /\ deadline' = FALSE /\ outgoing' = "none"
  <2>1. ~deadline' /\ deadline' \in BOOLEAN
    BY <1>4
  <2> QED BY <1>1, <1>2, <1>4, <2>1 DEF ExchangeInv, ExchangeOK, SettledInv, Settled
<1> QED BY <1>3, <1>4 DEF Open

\* So it is with the timer, and with the next fetch, which is another exchange.
LEMMA FetchNextKeepsExchange ==
  ASSUME ExchangeInv, [FetchNext]_fetchVars
  PROVE  ExchangeInv'
<1>1. CASE UNCHANGED exchangeVars
  BY <1>1 DEF exchangeVars, ExchangeInv, ExchangeOK, SettledInv, Settled
<1>2. CASE Open
  BY <1>2, OpenStarts
<1>3. CASE NetworkStep
  BY <1>3, NetworkKeepsExchange
<1>4. CASE Deadline
  BY <1>4, FailSettles DEF Deadline, Ring, ExchangeInv, ExchangeOK
<1> QED
  BY <1>1, <1>2, <1>3, <1>4 DEF FetchNext, fetchVars, Fetching, Deliver, Parse, TimePasses

\* Every exchange is well typed: a pending one has its timer, its request and every byte that
\* came, a settled one a whole body within the cap or none.
THEOREM ExchangeInvariant == FetchSpec => []ExchangeInv
<1>1. FetchInit => ExchangeInv
  <2> SUFFICES ASSUME FetchInit PROVE ExchangeInv
    OBVIOUS
  <2>1. ~deadline /\ deadline \in BOOLEAN
    BY DEF FetchInit, NoExchange
  <2> QED
    BY <2>1 DEF FetchInit, NoExchange, ExchangeInv, ExchangeOK, SettledInv, Settled
<1>2. ExchangeInv /\ [FetchNext]_fetchVars => ExchangeInv'
  BY FetchNextKeepsExchange
<1> QED BY <1>1, <1>2, PTL DEF FetchSpec

\* What the network and the timer do to an exchange that is settled.
LEMMA SettledStays ==
  ASSUME ExchangeInv, Settled, NetworkStep \/ Ring
  PROVE  UNCHANGED <<promise, deadline, outgoing, kept>>
<1>1. Fail => UNCHANGED <<promise, deadline, outgoing>>
  BY DEF Fail
<1>2. ~deadline
  BY DEF ExchangeInv, SettledInv
<1> QED BY <1>1, <1>2 DEF NetworkStep, Respond, Data, End, BreakResponse, BreakRequest, Ring

\* And to one that is pending: it is settled with what SettledInv says, its request destroyed
\* if it failed, or it is not.
LEMMA PendingSettles ==
  ASSUME ExchangeInv, ~Settled, NetworkStep \/ Ring
  PROVE  promise' = "rejected" => outgoing' = "destroyed"
<1>1. promise = "pending" /\ outgoing = "open"
  BY DEF Settled, ExchangeInv
<1>2. Fail => outgoing' = "destroyed"
  BY <1>1 DEF Fail, Settled
<1>3. UNCHANGED promise => promise' # "rejected"
  BY <1>1
<1>4. promise' = "resolved" => promise' # "rejected"
  OBVIOUS
<1> QED
  BY <1>1, <1>2, <1>3, <1>4
  DEF NetworkStep, Respond, Data, End, BreakResponse, BreakRequest, Ring

\* The promise fetchJwks() returns is settled once: afterwards no event changes it, what was
\* read or the request, only the next fetch does.
THEOREM FetchSettlesOnce == FetchSpec => ExchangeSettlesOnce
<1> DEFINE Once ==
      /\ Settled => Open \/ UNCHANGED <<promise, deadline, outgoing, kept>>
      /\ ~Settled /\ Settled' =>
           /\ ~deadline'
           /\ promise' = "resolved" =>
                response' = "ended" /\ kept' = received' /\ kept' <= Cap /\ outgoing' = "open"
           /\ promise' = "rejected" => outgoing' = "destroyed"
      /\ ~Settled' => deadline'
<1>1. ExchangeInv /\ ExchangeInv' /\ [FetchNext]_fetchVars => [Once]_exchangeVars
  <2> SUFFICES ASSUME ExchangeInv, ExchangeInv', [FetchNext]_fetchVars
               PROVE  Once \/ UNCHANGED exchangeVars
    OBVIOUS
  <2>1. UNCHANGED exchangeVars \/ Open \/ NetworkStep \/ Ring
    BY DEF FetchNext, fetchVars, Fetching, Deliver, Parse, TimePasses, Deadline
  <2>2. ~Settled' => deadline'
    BY DEF Settled, ExchangeInv
  <2>3. Settled' => ~deadline'
    BY DEF ExchangeInv, SettledInv
  <2>4. promise' = "resolved" =>
          response' = "ended" /\ kept' = received' /\ kept' <= Cap /\ outgoing' = "open"
    BY DEF ExchangeInv, SettledInv
  <2>5. CASE Open
    <3>1. Settled
      BY <2>5 DEF Open
    <3> QED BY <2>2, <2>5, <3>1
  <2>6. CASE NetworkStep \/ Ring
    BY <2>2, <2>3, <2>4, <2>6, SettledStays, PendingSettles
  <2> QED BY <2>1, <2>5, <2>6
<1> QED BY <1>1, ExchangeInvariant, PTL DEF FetchSpec, ExchangeSettlesOnce

\* A step of the key set over the transport is a step of the key set or is hidden in the
\* transport: time does not pass the deadline of a fetch in flight because it does not
\* pass an armed timer.
LEMMA FetchNextRefines ==
  ASSUME KeySetInv, ExchangeInv, [FetchNext]_fetchVars
  PROVE  [Next]_vars
<1>1. CASE UNCHANGED keySetVars
  BY <1>1 DEF keySetVars
<1>2. CASE \/ \E r \in Requests :
                \/ \E k \in Kids \cup {Forged} : Current(r, k)
                \/ RequestStep(r)
                \/ Leave(r)
           \/ IssuerReplies
           \/ \E age \in MaxAges : StoreKeys(age)
           \/ FailFetch
           \/ ClearInFlight
           \/ \E k \in Kids : Publish(k) \/ Retire(k)
  BY <1>2 DEF Next
<1>3. CASE TimePasses
  <2>1. TypeOK /\ FlightInv
    BY DEF KeySetInv
  <2>2. flight # "none" => flight = "sent" /\ promise = "pending"
    BY <1>3, <2>1 DEF TimePasses, TypeOK
  <2>3. flight # "none" => ~Due
    BY <1>3, <2>2 DEF TimePasses, ExchangeInv
  <2>4. flight # "none" => now < lastAttemptAt + FetchTimeout
    BY <2>1, <2>3, Numbers DEF Due, FlightInv
  <2> QED BY <1>3, <2>4 DEF TimePasses, Tick, Next
<1> QED
  BY <1>1, <1>2, <1>3
  DEF FetchNext, fetchVars, Fetching, Deliver, Delivered, Parse, Deadline

\* The key set over its transport is the key set: every behaviour of the two is one of
\* KeySet, so what is proved of KeySet holds of them.
THEOREM KeyFetchIsKeySet == FetchSpec => Spec
<1>1. FetchInit => Init /\ KeySetInv
  BY InitKeySetInv DEF FetchInit
<1>2. KeySetInv /\ ExchangeInv /\ [FetchNext]_fetchVars => [Next]_vars /\ KeySetInv'
  BY FetchNextRefines, NextKeepsInv
<1> QED BY <1>1, <1>2, ExchangeInvariant, PTL DEF FetchSpec, Spec

=============================================================================
