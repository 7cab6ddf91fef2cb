------------------------------- MODULE KeyFetch -------------------------------
(***************************************************************************)
(* The key set over its transport: KeySet, whose fetch is the exchange of  *)
(* HttpsTransport.  KeySet says that a fetch is replied to or fails, and   *)
(* that it ends by its deadline.  Here the reply is the exchange's end,    *)
(* the failure any of the exchange's, and the deadline its own timer; that *)
(* this implements KeySet is a property.                                   *)
(***************************************************************************)
EXTENDS KeySet, HttpsTransport

keySetVars == vars
fetchVars == <<keySetVars, exchangeVars>>

FetchInit == Init /\ NoExchange

\* A step of the key set that may start a fetch: with it the exchange is opened.
Fetching(Step) ==
  /\ Step
  /\ IF flight # "sent" /\ flight' = "sent" THEN Open ELSE UNCHANGED exchangeVars

\* How the exchange's outcome reaches fetchOnce: a microtask of its own.
Delivered ==
  \/ promise = "resolved" /\ IssuerReplies
  \/ promise = "rejected" /\ FailFetch

Deliver ==
  /\ flight = "sent"
  /\ Delivered
  /\ UNCHANGED exchangeVars

\* parseKeySet: a usable set or not.
Parse ==
  /\ flight = "replied"
  /\ \/ \E age \in MaxAges : StoreKeys(age)
     \/ FailFetch
  /\ UNCHANGED exchangeVars

\* The timer is due at its time; the end of the clock stands in for a later one.
Due == now = lastAttemptAt + FetchTimeout \/ now = Horizon

Deadline ==
  /\ Due
  /\ Ring
  /\ UNCHANGED keySetVars

\* Time passes when no microtask can run, and not past an armed timer.
TimePasses ==
  /\ now < Horizon
  /\ flight = "sent" => promise = "pending"
  /\ flight \notin {"replied", "settled"}
  /\ \A r \in Requests : at[r] \notin Runnable
  /\ deadline => ~Due
  /\ now' = now + 1
  /\ UNCHANGED <<cacheVars, flightVars, issuerVars, requestVars, exchangeVars>>

FetchNext ==
  \/ \E r \in Requests :
       \/ \E k \in Kids \cup {Forged} : Fetching(Current(r, k))
       \/ Fetching(RequestStep(r))
       \/ Leave(r) /\ UNCHANGED exchangeVars
  \/ Deliver
  \/ Parse
  \/ ClearInFlight /\ UNCHANGED exchangeVars
  \/ \E k \in Kids : (Publish(k) \/ Retire(k)) /\ UNCHANGED exchangeVars
  \/ NetworkStep /\ UNCHANGED keySetVars
  \/ Deadline
  \/ TimePasses

\* Microtasks run, a timer that is due fires, and time passes however many requests come
\* (strong fairness: each of them stops the clock while it runs).  The network owes nothing.
FetchSpec ==
  /\ FetchInit /\ [][FetchNext]_fetchVars
  /\ \A r \in Requests : WF_fetchVars(Fetching(RequestStep(r)))
  /\ WF_fetchVars(Deliver)
  /\ WF_fetchVars(Parse)
  /\ WF_fetchVars(ClearInFlight /\ UNCHANGED exchangeVars)
  /\ WF_fetchVars(Deadline)
  /\ SF_fetchVars(TimePasses)

-----------------------------------------------------------------------------
(* Properties *)

\* The key set over the transport is KeySet: a fetch ends by its deadline and once,
\* whatever the order of the transport's events, and nothing else of it is visible.
ImplementsKeySet == FairSpec

=============================================================================
