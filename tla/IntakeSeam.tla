----------------------------- MODULE IntakeSeam -----------------------------
(***************************************************************************)
(* The HTTP seam (packages/control-plane-api/src/main.mjs): the pipelines  *)
(* of POST /v1/evidence and GET /v1/indicators over the evidence port, in  *)
(* any number of processes that crash and start again, each under the      *)
(* policy it loaded when it started.                                       *)
(*                                                                         *)
(* An action is what the handler runs between two awaits.  The store is    *)
(* module EvidenceLog, which both adapters are; the key set, the quota and *)
(* the registry answer here as they may (modules KeySet and                *)
(* SubmissionQuota say what they answer).  A retry is another submission.  *)
(***************************************************************************)
EXTENDS Naturals, Sequences

CONSTANTS
  Submissions,     \* the requests POST /v1/evidence
  Reads,           \* the requests GET /v1/indicators
  Processes,       \* the processes of the service
  Workspaces,      \* the registered workspaces
  Changes,         \* the change ids a record may carry
  Texts,           \* what else a record says, up to the order of its members
  Policies,        \* the texts each reviewed policy accepts
  Down,            \* the policy of a process that is not running
  NoWorkspace, NoKey, NoBody

Requests == Submissions \cup Reads
Keys == Workspaces \X Changes
Bodies == [change : Changes, text : Texts]

ASSUME SeamAssumption ==
  /\ Submissions \cap Reads = {}
  /\ NoWorkspace \notin Workspaces /\ NoKey \notin Keys /\ NoBody \notin Bodies
  /\ Down \notin Policies /\ Policies \subseteq SUBSET Texts

VARIABLES
  envelopes, args, result, answer,   \* the store's: see EvidenceLog
  policy,     \* the policy each process holds, Down while it does not run
  at,         \* where each request is
  via,        \* the process that serves it, once it is received
  caller,     \* the workspace it is authorized for, once it is
  status,     \* the status it was answered, 0 before
  counted,    \* the submissions whose records a read's SELECT returned
  acked       \* history: the submissions answered 202 before a read came

Log == INSTANCE EvidenceLog WITH Calls <- Submissions

logVars == <<envelopes, args, result, answer>>
requestVars == <<at, via, caller, status>>
readVars == <<counted, acked>>
vars == <<logVars, policy, requestVars, readVars>>

Places == {"idle", "authenticating", "reading", "appending", "listing", "listed",
           "answered", "lost"}
Serving == Places \ {"idle", "answered", "lost"}

TypeOK ==
  /\ Log!TypeOK
  /\ policy \in [Processes -> Policies \cup {Down}]
  /\ at \in [Requests -> Places]
  /\ via \in [Requests -> Processes]
  /\ caller \in [Requests -> Workspaces \cup {NoWorkspace}]
  /\ status \in [Requests -> {0, 200, 202, 400, 401, 403, 409, 413, 422, 429, 503}]
  /\ counted \in [Reads -> SUBSET Submissions]
  /\ acked \in [Reads -> SUBSET Submissions]

Init ==
  /\ Log!Init
  /\ policy \in [Processes -> Policies]
  /\ at = [r \in Requests |-> "idle"]
  /\ via \in [Requests -> Processes]
  /\ caller = [r \in Requests |-> NoWorkspace]
  /\ status = [r \in Requests |-> 0]
  /\ counted = [g \in Reads |-> {}]
  /\ acked = [g \in Reads |-> {}]

Goto(r, place) ==
  /\ at' = [at EXCEPT ![r] = place]
  /\ UNCHANGED <<via, caller, status>>

\* send(): every response goes through it, and a request has one.
Send(r, code) ==
  /\ at' = [at EXCEPT ![r] = "answered"]
  /\ status' = [status EXCEPT ![r] = code]
  /\ UNCHANGED <<via, caller>>

Acknowledged == {s \in Submissions : status[s] = 202}

-----------------------------------------------------------------------------
(* Steps 1 to 6, on the request line and the headers *)

Receive(r) ==
  /\ at[r] = "idle"
  /\ policy[via[r]] # Down
  /\ Goto(r, "authenticating")
  /\ acked' = [g \in Reads |-> IF g = r THEN Acknowledged ELSE acked[g]]
  /\ UNCHANGED <<logVars, policy, counted>>

\* No usable credential, no key set, no workspace; no quota left for a submission.
RefuseUnread(r) ==
  /\ at[r] = "authenticating"
  /\ \/ \E code \in {401, 503, 403} : Send(r, code)
     \/ r \in Submissions /\ Send(r, 429)
  /\ UNCHANGED <<logVars, policy, readVars>>

Authorize(r, w) ==
  /\ at[r] = "authenticating"
  /\ at' = [at EXCEPT ![r] = IF r \in Submissions THEN "reading" ELSE "listing"]
  /\ caller' = [caller EXCEPT ![r] = w]
  /\ UNCHANGED <<logVars, policy, via, status, readVars>>

-----------------------------------------------------------------------------
(* POST /v1/evidence *)

\* Over the cap; not JSON, or refused by append() before it stores anything; or the
\* client went away while it was read.
RefuseBody(s) ==
  /\ at[s] = "reading"
  /\ \E code \in {413, 400} : Send(s, code)
  /\ UNCHANGED <<logVars, policy, readVars>>

\* evaluateGuardrails() refuses the record, by the contract or by the policy.
RefuseRecord(s, b) ==
  /\ at[s] = "reading"
  /\ b.text \notin policy[via[s]]
  /\ Send(s, 422)
  /\ UNCHANGED <<logVars, policy, readVars>>

\* Accepted: the handler calls append under the caller's workspace and awaits it.
CallAppend(s, b) ==
  /\ at[s] = "reading"
  /\ b.text \in policy[via[s]]
  /\ Log!Invoke(s, <<caller[s], b.change>>, b)
  /\ Goto(s, "appending")
  /\ UNCHANGED <<policy, readVars>>

\* Mutant: whatever is held already is a conflict.
AppendedOrConflict(s) ==
  /\ at[s] = "appending"
  /\ Log!Answer(s)
  /\ Send(s, IF result[s] = "appended" THEN 202 ELSE 409)
  /\ UNCHANGED <<policy, readVars>>

Appended(s) ==
  /\ at[s] = "appending"
  /\ Log!Answer(s)
  /\ Send(s, IF result[s] = "conflict" THEN 409 ELSE 202)
  /\ UNCHANGED <<policy, readVars>>

\* Mutants: the body's catch answers for the store; the record is taken to be on its way.
StoreFailedAsBody(s) ==
  /\ at[s] = "appending"
  /\ Log!Fault(s)
  /\ Send(s, 400)
  /\ UNCHANGED <<policy, readVars>>

StoreFailedQueued(s) ==
  /\ at[s] = "appending"
  /\ Log!Fault(s)
  /\ Send(s, 202)
  /\ UNCHANGED <<policy, readVars>>

\* EvidenceStoreFault: the append's own catch, not the body's.
StoreFailed(s) ==
  /\ at[s] = "appending"
  /\ Log!Fault(s)
  /\ Send(s, 503)
  /\ UNCHANGED <<policy, readVars>>

-----------------------------------------------------------------------------
(* GET /v1/indicators *)

\* Mutant: the workspace filter is dropped.
ListAll(g) ==
  /\ at[g] = "listing"
  /\ Goto(g, "listed")
  /\ counted' = [counted EXCEPT ![g] =
       {envelopes[i].by : i \in {j \in DOMAIN envelopes : envelopes[j].evidence # NoBody}}]
  /\ UNCHANGED <<logVars, policy, acked>>

\* The one SELECT of list(), and the two filters over what it returns.
List(g) ==
  /\ at[g] = "listing"
  /\ Goto(g, "listed")
  /\ counted' = [counted EXCEPT ![g] =
       {envelopes[i].by : i \in {j \in DOMAIN envelopes :
          envelopes[j].key[1] = caller[g] /\ envelopes[j].evidence # NoBody}}]
  /\ UNCHANGED <<logVars, policy, acked>>

Summarise(g) ==
  /\ at[g] = "listed"
  /\ Send(g, 200)
  /\ UNCHANGED <<logVars, policy, readVars>>

ReadFailed(g) ==
  /\ at[g] \in {"listing", "listed"}
  /\ Send(g, 503)
  /\ UNCHANGED <<logVars, policy, readVars>>

-----------------------------------------------------------------------------
(* The store, the redaction job and the processes *)

\* The store may act on a call after its caller has given up or died.
StoreStep ==
  /\ \/ \E s \in Submissions : Log!AppendNew(s) \/ Log!FindHeld(s)
     \/ \E i \in DOMAIN envelopes : Log!Redact(i)
  /\ UNCHANGED <<policy, requestVars, readVars>>

Crash(p) ==
  /\ policy[p] # Down
  /\ policy' = [policy EXCEPT ![p] = Down]
  /\ at' = [r \in Requests |-> IF via[r] = p /\ at[r] \in Serving THEN "lost" ELSE at[r]]
  /\ UNCHANGED <<logVars, via, caller, status, readVars>>

\* A policy change is a restart: the file is read once, before the process listens.
Start(p, loaded) ==
  /\ policy[p] = Down
  /\ policy' = [policy EXCEPT ![p] = loaded]
  /\ UNCHANGED <<logVars, requestVars, readVars>>

\* What a handler does with what it was waiting for.
HandlerStep(r) ==
  \/ RefuseUnread(r)
  \/ r \in Submissions /\ (RefuseBody(r) \/ Appended(r) \/ StoreFailed(r))
  \/ r \in Reads /\ (Summarise(r) \/ ReadFailed(r))

Next ==
  \/ \E r \in Requests :
       \/ Receive(r)
       \/ HandlerStep(r)
       \/ \E w \in Workspaces : Authorize(r, w)
  \/ \E s \in Submissions, b \in Bodies : RefuseRecord(s, b) \/ CallAppend(s, b)
  \/ \E g \in Reads : List(g)
  \/ StoreStep
  \/ \E p \in Processes : Crash(p) \/ \E loaded \in Policies : Start(p, loaded)

Spec == Init /\ [][Next]_vars

-----------------------------------------------------------------------------
(* Properties *)

\* A submission that was refused is in no envelope, now or later: the only answers an
\* envelope's submission may have had are 202 and 503, whatever the store does late.
RefusedLeavesNothing ==
  \A i \in DOMAIN envelopes : status[envelopes[i].by] \in {0, 202, 503}

\* The 202 holds: from then on, through restarts, policy changes and other processes'
\* submissions, the caller's workspace has an envelope for the change, with the very
\* record or its tombstone.
AcceptedIsHeld ==
  \A s \in Acknowledged :
    \E i \in DOMAIN envelopes :
      /\ envelopes[i].key = <<caller[s], args[s].body.change>>
      /\ envelopes[i].evidence \in {args[s].body, NoBody}

\* Retrying is safe: while every submission of a change from a workspace carries one
\* record, none of them is answered 409, though an earlier one was answered 503 and
\* committed since, or its process died.
RetryIsSafe ==
  \A s \in Submissions :
    status[s] = 409 =>
      \E t \in Submissions :
        /\ caller[t] = caller[s] /\ args[t].body # NoBody
        /\ args[t].body.change = args[s].body.change /\ args[t].body # args[s].body

\* A summary counts every submission of its workspace that was answered 202 before
\* the read came, unless its payload has been redacted, and no other workspace's.
IndicatorsAreCurrent ==
  \A g \in Reads :
    status[g] = 200 =>
      /\ \A s \in acked[g] :
           caller[s] = caller[g] =>
             \E i \in DOMAIN envelopes :
               /\ envelopes[i].key = args[s].key
               /\ envelopes[i].by \in counted[g] \/ envelopes[i].evidence = NoBody
      /\ \A s \in counted[g] : caller[s] = caller[g]

=============================================================================
