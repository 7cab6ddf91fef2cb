---------------------------- MODULE HttpsTransport ----------------------------
(***************************************************************************)
(* One exchange of packages/workload-identity/src/https-transport.mjs: the *)
(* request, the response's events, the deadline, and the promise they      *)
(* settle between them.                                                    *)
(*                                                                         *)
(* Each callback runs to its end, so each is an action.  The network is    *)
(* free: a response may come late, be cut, stream for ever or never come,  *)
(* and errors may follow an exchange that has already been settled.  What  *)
(* a body says is left out; how long it is is not.  The module has no      *)
(* clock: KeyFetch says when the deadline is due.                          *)
(***************************************************************************)
EXTENDS Integers

CONSTANTS
  Cap,        \* JWKS_MAX_BYTES
  Chunks,     \* the sizes a chunk may have
  Undeclared  \* no content-length

ASSUME CapAssumption == Cap \in Nat /\ Chunks \subseteq Nat \ {0} /\ Undeclared \notin Nat

VARIABLES
  promise,   \* "none" before the first fetch; then pending, resolved or rejected
  deadline,  \* whether the timer is armed
  outgoing,  \* the request: none, open or destroyed
  response,  \* none, refused (no listener is attached), reading, ended or broken
  received,  \* the bytes counted
  kept       \* the bytes in `chunks`

exchangeVars == <<promise, deadline, outgoing, response, received, kept>>

ExchangeOK ==
  /\ promise \in {"none", "pending", "resolved", "rejected"}
  /\ deadline \in BOOLEAN
  /\ outgoing \in {"none", "open", "destroyed"}
  /\ response \in {"none", "refused", "reading", "ended", "broken"}
  /\ {received, kept} \subseteq Nat

NoExchange ==
  /\ promise = "none" /\ deadline = FALSE
  /\ outgoing = "none" /\ response = "none"
  /\ received = 0 /\ kept = 0

Settled == promise # "pending"

\* Mutant: fail() does not look whether the exchange is settled.
FailAnew ==
  /\ promise' = "rejected" /\ deadline' = FALSE
  /\ outgoing' = IF outgoing = "open" THEN "destroyed" ELSE outgoing

\* fail(): the first to settle the exchange ends it, everything later changes nothing.
Fail ==
  IF Settled THEN UNCHANGED <<promise, deadline, outgoing>>
  ELSE /\ promise' = "rejected" /\ deadline' = FALSE
       /\ outgoing' = IF outgoing = "open" THEN "destroyed" ELSE outgoing

\* fetchJwks() up to its last line, the request made or, for any reason, not.
Open ==
  /\ Settled
  /\ \/ promise' = "pending" /\ deadline' = TRUE /\ outgoing' = "open"
     \/ promise' = "rejected" /\ deadline' = FALSE /\ outgoing' = "none"
  /\ response' = "none" /\ received' = 0 /\ kept' = 0

\* onResponse(), for a status of 200 or another and a content-length, if any.
Respond(ok, declared) ==
  /\ outgoing # "none" /\ response = "none"
  /\ IF ok /\ (declared = Undeclared \/ declared <= Cap)
       THEN response' = "reading" /\ UNCHANGED <<promise, deadline, outgoing>>
       ELSE response' = "refused" /\ Fail
  /\ UNCHANGED <<received, kept>>

\* The 'data' listener; once settled it does nothing.
Data(n) ==
  /\ response = "reading" /\ ~Settled
  /\ received' = received + n
  /\ IF received' > Cap THEN Fail /\ UNCHANGED kept
     ELSE kept' = kept + n /\ UNCHANGED <<promise, deadline, outgoing>>
  /\ UNCHANGED response

\* The 'end' listener.
End ==
  /\ response = "reading"
  /\ response' = "ended"
  /\ IF Settled THEN UNCHANGED <<promise, deadline>>
     ELSE promise' = "resolved" /\ deadline' = FALSE
  /\ UNCHANGED <<outgoing, received, kept>>

\* The response's 'error' listener, also of a response that is cut.
BreakResponse ==
  /\ response = "reading"
  /\ response' = "broken"
  /\ Fail
  /\ UNCHANGED <<received, kept>>

\* The request's 'error' listener: no connection, no certificate, or a late reset.
BreakRequest ==
  /\ outgoing # "none"
  /\ Fail
  /\ UNCHANGED <<response, received, kept>>

\* Mutant: the timer does not end the exchange.
RingOnly ==
  /\ deadline
  /\ deadline' = FALSE
  /\ UNCHANGED <<promise, outgoing, response, received, kept>>

\* The deadline's callback.
Ring ==
  /\ deadline
  /\ Fail
  /\ UNCHANGED <<response, received, kept>>

\* What the network may do to an exchange.
NetworkStep ==
  \/ \E ok \in BOOLEAN, declared \in {Undeclared, Cap, Cap + 1} : Respond(ok, declared)
  \/ \E n \in Chunks : Data(n)
  \/ End
  \/ BreakResponse
  \/ BreakRequest

-----------------------------------------------------------------------------
(* Properties *)

\* An exchange is settled once and for all, whichever of the deadline, the errors and the end
\* comes first: from then on nothing but the next fetch changes its outcome, its request or
\* what it has read, however late an event is.  Until then its timer runs; with the step that
\* settles it the timer is gone, and either a whole body within the cap is kept, every byte
\* that came up to the response's end, with the request left alone, or the exchange has failed
\* and its request is destroyed.
ExchangeSettlesOnce ==
  [][/\ Settled => Open \/ UNCHANGED <<promise, deadline, outgoing, kept>>
     /\ ~Settled /\ Settled' =>
          /\ ~deadline'
          /\ promise' = "resolved" =>
               response' = "ended" /\ kept' = received' /\ kept' <= Cap /\ outgoing' = "open"
          /\ promise' = "rejected" => outgoing' = "destroyed"
     /\ ~Settled' => deadline']_exchangeVars

=============================================================================
