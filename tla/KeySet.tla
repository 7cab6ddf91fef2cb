------------------------------- MODULE KeySet -------------------------------
(***************************************************************************)
(* The issuer's key set as a request sees it: the cache and the single     *)
(* in-flight fetch of packages/workload-identity/src/key-set.mjs, steps 2  *)
(* and 3 of authenticate.mjs, which read it, and the one deadline of       *)
(* https-transport.mjs.                                                    *)
(*                                                                         *)
(* JavaScript runs to completion between awaits, so an action is what runs *)
(* between two awaits.  A settled fetch stores its keys, then its finally  *)
(* clears inFlight, then its waiters resume: three microtasks, between     *)
(* which another request's may run.  The clock is discrete, and a tick is  *)
(* longer than the microtask queue takes to drain.                         *)
(***************************************************************************)
EXTENDS Integers, FiniteSets

CONSTANTS
  Requests,        \* the requests that can be in authenticate at one time
  Kids,            \* the key ids the issuer ever publishes
  Forged,          \* a kid it never publishes
  MaxAges,         \* the max-age values a response may declare
  MinTTL, MaxTTL,  \* JWKS_MIN_TTL_S, JWKS_MAX_TTL_S
  FetchInterval,   \* JWKS_MIN_FETCH_INTERVAL_MS
  FetchTimeout,    \* JWKS_TIMEOUT_MS
  Horizon          \* the clock stops here

ASSUME KidAssumption == Forged \notin Kids /\ MaxAges \subseteq Nat
ASSUME TimeAssumption ==
  /\ {MinTTL, MaxTTL, FetchInterval, FetchTimeout, Horizon} \subseteq Nat
  /\ 0 < FetchTimeout /\ FetchTimeout < FetchInterval
  /\ FetchInterval <= MinTTL /\ MinTTL <= MaxTTL

VARIABLES
  now,            \* the clock
  cacheKeys,      \* the kids of cache.keys, {} while cache is null
  expiresAt,      \* cache.expiresAt
  flight,         \* inFlight: "none", or how far its fetch has come
  reply,          \* the kids of the set the issuer answered the fetch with
  lastAttemptAt,  \* the time of the last attempt
  lastFailed,     \* history: the last fetch to settle failed
  status,         \* the issuer's: whether it will publish, publishes or has retired a kid
  since,          \* history: when that last changed
  at,             \* where each request is in steps 2 and 3
  kid,            \* the kid of its token
  keys,           \* the key set current() handed it
  startedAt       \* history: when it entered step 2, 0 outside

cacheVars == <<cacheKeys, expiresAt>>
flightVars == <<flight, reply, lastAttemptAt, lastFailed>>
issuerVars == <<status, since>>
requestVars == <<at, kid, keys, startedAt>>
vars == <<now, cacheVars, flightVars, issuerVars, requestVars>>

Answered == {"verified", "unavailable", "unknown"}
Waiting == {"awaitingCurrent", "awaitingRefresh"}
Runnable == {"keyed", "resumedCurrent", "resumedRefresh"}

Published == {k \in Kids : status[k] = "published"}

\* A clock that has run for an interval stands in for lastAttemptAt = -Infinity.
Never == -FetchInterval

TypeOK ==
  /\ now \in 0 .. Horizon
  /\ cacheKeys \subseteq Kids
  /\ expiresAt \in Nat
  /\ flight \in {"none", "sent", "replied", "settled"}
  /\ reply \subseteq Kids
  /\ lastAttemptAt \in Int
  /\ lastFailed \in BOOLEAN
  /\ status \in [Kids -> {"future", "published", "retired"}]
  /\ since \in [Kids -> Nat]
  /\ at \in [Requests -> {"idle"} \cup Waiting \cup Runnable \cup Answered]
  /\ kid \in [Requests -> Kids \cup {Forged}]
  /\ keys \in [Requests -> SUBSET Kids]
  /\ startedAt \in [Requests -> Nat]

Init ==
  /\ now = 0
  /\ cacheKeys = {}
  /\ expiresAt = 0
  /\ flight = "none"
  /\ reply = {}
  /\ lastAttemptAt = Never
  /\ lastFailed = FALSE
  /\ status \in [Kids -> {"future", "published"}]
  /\ since = [k \in Kids |-> 0]
  /\ at = [r \in Requests |-> "idle"]
  /\ kid = [r \in Requests |-> Forged]
  /\ keys = [r \in Requests |-> {}]
  /\ startedAt = [r \in Requests |-> 0]

-----------------------------------------------------------------------------
(* The cache *)

\* unexpired(): {} is null.
Unexpired == IF now < expiresAt THEN cacheKeys ELSE {}

\* Mutants: the clamp without its floor, and without its ceiling.
ClampAbove(age) == IF age > MaxTTL THEN MaxTTL ELSE age
ClampBelow(age) == IF age < MinTTL THEN MinTTL ELSE age

\* maxAgeSeconds(), of a header that declares `age`.
Clamp(age) == IF age < MinTTL THEN MinTTL ELSE IF age > MaxTTL THEN MaxTTL ELSE age

\* Mutant: no budget.
NoBudget == now - lastAttemptAt >= 0

BudgetOpen == now - lastAttemptAt >= FetchInterval

CanAttempt == flight # "none" \/ BudgetOpen

\* attempt(): join the fetch in flight, or start one.
Attempt ==
  /\ CanAttempt
  /\ IF flight # "none"
       THEN UNCHANGED <<flight, reply, lastAttemptAt>>
       ELSE flight' = "sent" /\ reply' = {} /\ lastAttemptAt' = now
  /\ UNCHANGED lastFailed

-----------------------------------------------------------------------------
(* A request *)

Goto(r, place) == at' = [at EXCEPT ![r] = place]

\* An answered request's history is of no more use.
AnswerWith(r, answer) ==
  /\ Goto(r, answer)
  /\ keys' = [keys EXCEPT ![r] = {}]
  /\ startedAt' = [startedAt EXCEPT ![r] = 0]
  /\ UNCHANGED kid

Hand(r, set) ==
  /\ Goto(r, "keyed")
  /\ keys' = [keys EXCEPT ![r] = set]

\* Step 2: current(), up to its await or its return.
Current(r, k) ==
  /\ at[r] = "idle"
  /\ kid' = [kid EXCEPT ![r] = k]
  /\ \/ /\ Unexpired # {}
        /\ Hand(r, Unexpired)
        /\ startedAt' = [startedAt EXCEPT ![r] = now]
        /\ UNCHANGED flightVars
     \/ /\ Unexpired = {} /\ Attempt
        /\ Goto(r, "awaitingCurrent")
        /\ startedAt' = [startedAt EXCEPT ![r] = now]
        /\ UNCHANGED keys
     \/ /\ Unexpired = {} /\ ~CanAttempt
        /\ Goto(r, "unavailable")
        /\ UNCHANGED <<keys, startedAt, flightVars>>
  /\ UNCHANGED <<now, cacheVars, issuerVars>>

\* Mutant: an unknown kid is refused from the cache.
LookUpOnce(r) ==
  /\ at[r] = "keyed"
  /\ AnswerWith(r, IF kid[r] \in keys[r] THEN "verified" ELSE "unknown")
  /\ UNCHANGED <<now, cacheVars, flightVars, issuerVars>>

\* Step 3's lookup, and refreshForUnknownKid() up to its await or its return.
LookUp(r) ==
  /\ at[r] = "keyed"
  /\ \/ kid[r] \in keys[r] /\ AnswerWith(r, "verified") /\ UNCHANGED flightVars
     \/ /\ kid[r] \notin keys[r] /\ Attempt
        /\ Goto(r, "awaitingRefresh")
        /\ UNCHANGED <<kid, keys, startedAt>>
     \/ /\ kid[r] \notin keys[r] /\ ~CanAttempt
        /\ AnswerWith(r, IF kid[r] \in Unexpired THEN "verified" ELSE "unknown")
        /\ UNCHANGED flightVars
  /\ UNCHANGED <<now, cacheVars, issuerVars>>

\* After the await of current().
ResumeCurrent(r) ==
  /\ at[r] = "resumedCurrent"
  /\ \/ Unexpired = {} /\ AnswerWith(r, "unavailable")
     \/ Unexpired # {} /\ Hand(r, Unexpired) /\ UNCHANGED <<kid, startedAt>>
  /\ UNCHANGED <<now, cacheVars, flightVars, issuerVars>>

\* After the await of refreshForUnknownKid().
ResumeRefresh(r) ==
  /\ at[r] = "resumedRefresh"
  /\ AnswerWith(r, IF kid[r] \in Unexpired THEN "verified" ELSE "unknown")
  /\ UNCHANGED <<now, cacheVars, flightVars, issuerVars>>

\* The request is answered and its place is free for another.
Leave(r) ==
  /\ at[r] \in Answered
  /\ Goto(r, "idle")
  /\ kid' = [kid EXCEPT ![r] = Forged]
  /\ UNCHANGED <<now, cacheVars, flightVars, issuerVars, keys, startedAt>>

-----------------------------------------------------------------------------
(* The fetch *)

\* Mutant: an entry that is no usable key is kept.
KeepUnusable ==
  /\ flight = "sent"
  /\ flight' = "replied"
  /\ reply' = Published \cup {Forged}
  /\ UNCHANGED <<now, cacheVars, lastAttemptAt, lastFailed, issuerVars, requestVars>>

\* What the issuer answers is what it publishes when it answers.
IssuerReplies ==
  /\ flight = "sent"
  /\ flight' = "replied"
  /\ reply' = Published
  /\ UNCHANGED <<now, cacheVars, lastAttemptAt, lastFailed, issuerVars, requestVars>>

\* A usable response: the set and its time to live are the cache from now on.
StoreKeys(age) ==
  /\ flight = "replied" /\ reply # {}
  /\ flight' = "settled"
  /\ cacheKeys' = reply
  /\ expiresAt' = now + Clamp(age)
  /\ lastFailed' = FALSE
  /\ UNCHANGED <<now, reply, lastAttemptAt, issuerVars, requestVars>>

\* Any failure of the exchange, an unusable set, or the deadline: nothing changes.
FailFetch ==
  /\ flight \in {"sent", "replied"}
  /\ flight' = "settled"
  /\ lastFailed' = TRUE
  /\ UNCHANGED <<now, cacheVars, reply, lastAttemptAt, issuerVars, requestVars>>

\* fetchOnce's finally; everyone who awaits the promise resumes after it.
ClearInFlight ==
  /\ flight = "settled"
  /\ flight' = "none"
  /\ at' = [r \in Requests |-> CASE at[r] = "awaitingCurrent" -> "resumedCurrent"
                                 [] at[r] = "awaitingRefresh" -> "resumedRefresh"
                                 [] OTHER -> at[r]]
  /\ UNCHANGED <<now, cacheVars, reply, lastAttemptAt, lastFailed, issuerVars, kid, keys,
                 startedAt>>

-----------------------------------------------------------------------------
(* The issuer and the clock *)

Publish(k) ==
  /\ status[k] = "future"
  /\ status' = [status EXCEPT ![k] = "published"]
  /\ since' = [since EXCEPT ![k] = now]
  /\ UNCHANGED <<now, cacheVars, flightVars, requestVars>>

Retire(k) ==
  /\ status[k] = "published"
  /\ status' = [status EXCEPT ![k] = "retired"]
  /\ since' = [since EXCEPT ![k] = now]
  /\ UNCHANGED <<now, cacheVars, flightVars, requestVars>>

\* Time passes once the microtask queue is empty, and not past the fetch's deadline.
Tick ==
  /\ now < Horizon
  /\ flight # "settled"
  /\ \A r \in Requests : at[r] \notin Runnable
  /\ flight # "none" => now < lastAttemptAt + FetchTimeout
  /\ now' = now + 1
  /\ UNCHANGED <<cacheVars, flightVars, issuerVars, requestVars>>

RequestStep(r) == LookUp(r) \/ ResumeCurrent(r) \/ ResumeRefresh(r)

Next ==
  \/ \E r \in Requests :
       \/ \E k \in Kids \cup {Forged} : Current(r, k)
       \/ RequestStep(r)
       \/ Leave(r)
  \/ IssuerReplies
  \/ \E age \in MaxAges : StoreKeys(age)
  \/ FailFetch
  \/ ClearInFlight
  \/ \E k \in Kids : Publish(k) \/ Retire(k)
  \/ Tick

Spec == Init /\ [][Next]_vars

\* Microtasks run, and the deadline ends a fetch that nothing else has ended.
FairSpec ==
  /\ Spec
  /\ \A r \in Requests : WF_vars(RequestStep(r))
  /\ WF_vars(ClearInFlight)
  /\ WF_vars(FailFetch)

-----------------------------------------------------------------------------
(* Properties *)

\* A successful fetch carries the service to the next one: whenever no unexpired set
\* is cached and none can be fetched yet, the last fetch failed.  So no 503 follows
\* a fetch that succeeded.
NoBlackoutAfterSuccess ==
  Unexpired = {} /\ ~CanAttempt => lastFailed

\* No request is held for more than one fetch, however its two awaits fall: the
\* refetch for an unknown kid never follows the fetch it has just waited for.
HeldForOneFetch ==
  \A r \in Requests :
    at[r] \notin {"idle"} \cup Answered => now - startedAt[r] <= FetchTimeout

\* A token verifies only under a key the issuer published, and after the key's
\* retirement only for the longest cache life and one fetch: whatever max-age was
\* declared, whenever the response was on its way, whichever set current() handed out.
RetiredKeyBound ==
  [][\A r \in Requests :
       at[r] # "verified" /\ at'[r] = "verified" =>
         \/ kid[r] \in Published
         \/ /\ kid[r] \in Kids /\ status[kid[r]] = "retired"
            /\ now < since[kid[r]] + FetchTimeout + MaxTTL]_vars

\* A key the issuer has published for an interval is refused as unknown only when
\* the fetch that should have brought it failed.
RotationNoticed ==
  [][\A r \in Requests :
       /\ at[r] # "unknown" /\ at'[r] = "unknown"
       /\ kid[r] \in Published /\ now - since[kid[r]] >= FetchInterval
       => lastFailed]_vars

\* Every request in step 2 or 3 is answered, also when the issuer never replies.
RequestsAreAnswered ==
  \A r \in Requests : at[r] # "idle" ~> at[r] \in Answered

\* ADR-0003, Keys and rotation, fail closed: without an unexpired set, 503 - so a
\* request is told that its kid is unknown only while there is one to be unknown in.
FailClosed ==
  [][\A r \in Requests :
       at[r] # "unknown" /\ at'[r] = "unknown" => Unexpired # {}]_vars

\* RR-13 of the threat model: only an outage longer than the cached set's remaining
\* life is answered 503.  So a fetch that failed while an unexpired set was cached, and
\* was not repeated since, is no reason to refuse a request when that set has expired.
WorkingCacheSurvives ==
  [][\A r \in Requests :
       at[r] = "idle" /\ at'[r] = "unavailable" =>
         ~(cacheKeys # {} /\ lastAttemptAt < expiresAt)]_vars

=============================================================================
