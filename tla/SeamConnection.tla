---------------------------- MODULE SeamConnection ----------------------------
(***************************************************************************)
(* One connection of the HTTP seam: the server createSeamServer builds, the*)
(* handler of packages/control-plane-api/src/main.mjs up to its answer, and*)
(* readBodyCapped of admission.mjs; the client sends, stalls and goes as it*)
(* likes.                                                                  *)
(*                                                                         *)
(* What the seam promises here is about the transfer it refuses: the status*)
(* is written first, the body is neither invited nor drained, and whatever *)
(* throws, at most one answer is given, what failed is logged, and the     *)
(* request ends.  Any send of an authenticated route may throw, with the   *)
(* head of its response written or not, those of the two catches included. *)
(* The two sends outside the catch-all, of GET /health and of an unmatched *)
(* request, are taken not to.  Who the caller is and what its record says  *)
(* are chosen freely; IntakeSeam and ControlPlane say more of them.        *)
(*                                                                         *)
(* Node's side is modelled as the seam relies on it: a paused socket when  *)
(* enough of a body lies unread, the rest of a body discarded once a       *)
(* response is sent on a connection that stays open, and the timer that    *)
(* checks every connection against the two timeouts.                       *)
(***************************************************************************)
EXTENDS Naturals, Sequences

CONSTANTS
  Cap,             \* MAX_BODY_BYTES
  MaxBody,         \* the longest body a client sends
  MaxChunk,        \* the longest chunk
  Ahead,           \* the unread bytes at which Node pauses the socket
  HeadersTimeout,  \* HEADERS_TIMEOUT_MS
  RequestTimeout,  \* REQUEST_TIMEOUT_MS
  CheckInterval    \* CONNECTIONS_CHECKING_INTERVAL_MS

ASSUME SizeAssumption ==
  {Cap, MaxBody, MaxChunk, Ahead, HeadersTimeout, RequestTimeout, CheckInterval}
    \subseteq Nat \ {0}

\* Node refuses to serve with the first of the two past the second.
ASSUME TimeoutAssumption == HeadersTimeout <= RequestTimeout

VARIABLES
  socket,    \* open; gone: the client left; cut: by a timeout; closed: request.destroy()
  request,   \* the request being served
  stage,     \* how far its handler is
  age,       \* the time since its first byte, while bytes of it are still to come
  tillCheck, \* the time until Node checks the connection again
  ended,     \* request.complete
  arrived,   \* the bytes of its body that have come
  pulled,    \* those the handler has read
  dumped,    \* those Node has discarded
  verified,  \* whether step 5 has produced a principal
  invited,   \* whether 100 Continue was sent
  status,    \* of the response, 0 while it has no head
  closing,   \* whether it says `connection: close`
  written,   \* how much of it: none, head (headersSent), all (end() returned), flushed
  log        \* the refusals logged: their status and whether they name the principal

bodyVars == <<ended, arrived, pulled, dumped>>
clockVars == <<age, tillCheck>>
answerVars == <<status, closing, written>>
vars == <<socket, request, stage, clockVars, bodyVars, verified, invited, answerVars, log>>

Routes == {"health", "workspaces", "indicators", "evidence", "unmatched"}
Requests == [route : Routes, framing : {"length", "chunked"}, body : 0 .. MaxBody,
             awaitsContinue : BOOLEAN]

\* What a throw leads to: the catch of the evidence route, or the catch-all, without a caller
\* if authorizeRequest threw.
Thrown == {"failed", "rejected", "caught"}
Handling == {"routed", "authorized", "reading", "read"} \cup Thrown

\* The statuses after which the connection is always closed.
REFUSED_UNREAD == {404, 401, 503, 403, 429, 413}
Statuses == REFUSED_UNREAD \cup {200, 202, 400, 409, 422}

TypeOK ==
  /\ socket \in {"open", "gone", "cut", "closed"}
  /\ request \in Requests
  /\ stage \in {"idle", "headers", "done"} \cup Handling
  /\ age \in 0 .. RequestTimeout + CheckInterval /\ tillCheck \in 0 .. CheckInterval
  /\ {ended, verified, invited, closing} \subseteq BOOLEAN
  /\ written \in {"none", "head", "all", "flushed"}
  /\ arrived \in 0 .. MaxBody /\ pulled \in 0 .. MaxBody /\ dumped \in 0 .. MaxBody
  /\ status \in Statuses \cup {0}
  /\ log \in Seq([status : Statuses, named : BOOLEAN])

Fresh ==
  /\ age = 0 /\ ended = FALSE /\ arrived = 0 /\ pulled = 0 /\ dumped = 0
  /\ verified = FALSE /\ invited = FALSE
  /\ status = 0 /\ closing = FALSE /\ written = "none" /\ log = <<>>

Init ==
  /\ socket = "open" /\ stage = "idle"
  /\ request \in Requests
  /\ tillCheck = 0
  /\ Fresh

-----------------------------------------------------------------------------
(* Answering *)

HasBody == request.framing = "chunked" \/ request.body > 0

\* Mutant: a body of no declared length is taken for none.
BodyUnreadByLength == request.framing = "length" /\ request.body > 0 /\ ~ended

\* bodyUnread().
BodyUnread == HasBody /\ ~ended

\* The head send() writes.
Send(s) ==
  /\ status' = s
  /\ closing' = (s \in REFUSED_UNREAD \/ BodyUnread)

\* The principal is named once step 5 has given one.
LogRefusal(s, named) == log' = Append(log, [status |-> s, named |-> named])

\* Which catch a throw of a send that answers s reaches: that of authorizeRequest's caller,
\* the evidence route's own once it is past its quota, or the catch-all.
Catcher(s) ==
  IF stage = "routed" THEN "rejected"
  ELSE IF stage \in {"reading", "read"} \/ s = 413 THEN "failed" ELSE "caught"

\* A send that answers s: it returns, or throws after writeHead or before it.
Answer(s) ==
  \/ Send(s) /\ written' = "all" /\ stage' = "done"
  \/ Send(s) /\ written' = "head" /\ stage' = Catcher(s)
  \/ stage' = Catcher(s) /\ UNCHANGED answerVars

Refuse(s) == LogRefusal(s, verified) /\ Answer(s)

Accept(s) == Answer(s) /\ UNCHANGED log

\* The catch of the evidence route.  A second writeHead throws, so if the response has a head
\* the catch's own send does.
RouteCatch ==
  /\ stage = "failed"
  /\ LogRefusal(400, TRUE)
  /\ \/ written = "none" /\ Answer(400)
     \/ written = "head" /\ stage' = "caught" /\ UNCHANGED answerVars
  /\ UNCHANGED <<socket, request, clockVars, bodyVars, verified, invited>>

\* request.destroy().
Close == socket' = IF socket = "open" THEN "closed" ELSE socket

\* Mutant: what the catch-all's own send throws is caught and nothing is closed.
CatchAllOpen ==
  /\ stage \in {"rejected", "caught"}
  /\ LogRefusal(503, stage = "caught")
  /\ stage' = "done"
  /\ \/ written = "none" /\ Send(503) /\ written' \in {"head", "all"} /\ UNCHANGED socket
     \/ written = "none" /\ UNCHANGED <<socket, answerVars>>
     \/ written = "head" /\ Close /\ UNCHANGED answerVars
  /\ UNCHANGED <<request, clockVars, bodyVars, verified, invited>>

\* The catch-all: it answers 503, or closes the connection because the response has a head or
\* because its own send throws too.  It names the principal if authorizeRequest has returned.
CatchAll ==
  /\ stage \in {"rejected", "caught"}
  /\ LogRefusal(503, stage = "caught")
  /\ stage' = "done"
  /\ \/ written = "none" /\ Send(503) /\ written' = "all" /\ UNCHANGED socket
     \/ written = "none" /\ Send(503) /\ written' = "head" /\ Close
     \/ Close /\ UNCHANGED answerVars
  /\ UNCHANGED <<request, clockVars, bodyVars, verified, invited>>

\* Mutant: the response is written and the connection destroyed at once.
DestroyFirst ==
  /\ written = "all" /\ closing /\ socket = "open"
  /\ socket' = "closed"
  /\ UNCHANGED <<request, stage, clockVars, bodyVars, verified, invited, answerVars, log>>

\* The response has left.
Flush ==
  /\ written = "all" /\ socket = "open"
  /\ written' = "flushed"
  /\ UNCHANGED <<socket, request, stage, clockVars, bodyVars, verified, invited, status,
                 closing, log>>

\* response.end's callback.
Destroy ==
  /\ written = "flushed" /\ closing /\ socket = "open"
  /\ socket' = "closed"
  /\ UNCHANGED <<request, stage, clockVars, bodyVars, verified, invited, answerVars, log>>

-----------------------------------------------------------------------------
(* The handler *)

\* Routing; GET /health and an unmatched request are answered with no credential read, before
\* the try of the catch-all.
Route ==
  /\ stage = "routed" /\ ~verified
  /\ \/ request.route = "unmatched" /\ LogRefusal(404, FALSE) /\ Send(404)
     \/ request.route = "health" /\ Send(200) /\ UNCHANGED log
  /\ written' = "all" /\ stage' = "done"
  /\ UNCHANGED <<socket, request, clockVars, bodyVars, verified, invited>>

Authenticated == request.route \notin {"health", "unmatched"}

\* Steps 1 to 5 refuse, or give a principal.
Authenticate ==
  /\ stage = "routed" /\ Authenticated /\ ~verified
  /\ \/ \E s \in {401, 503} : Refuse(s) /\ UNCHANGED verified
     \/ verified' = TRUE /\ UNCHANGED <<stage, answerVars, log>>
  /\ UNCHANGED <<socket, request, clockVars, bodyVars, invited>>

\* Step 6.
Authorize ==
  /\ stage = "routed" /\ verified
  /\ \/ Refuse(403)
     \/ stage' = "authorized" /\ UNCHANGED <<answerVars, log>>
  /\ UNCHANGED <<socket, request, clockVars, bodyVars, verified, invited>>

\* The two routes that read; only the indicators ask the store.
Read ==
  /\ stage = "authorized" /\ request.route \in {"workspaces", "indicators"}
  /\ \/ Accept(200)
     \/ request.route = "indicators" /\ Refuse(503)
  /\ UNCHANGED <<socket, request, clockVars, bodyVars, verified, invited>>

\* The quota, the fast path of readBodyCapped, and beforeRead, which may throw.
Admit ==
  /\ stage = "authorized" /\ request.route = "evidence"
  /\ \/ Refuse(429) /\ UNCHANGED invited
     \/ /\ request.framing = "length" /\ request.body > Cap
        /\ Refuse(413) /\ UNCHANGED invited
     \/ /\ ~(request.framing = "length" /\ request.body > Cap)
        /\ \/ invited' = request.awaitsContinue /\ stage' = "reading"
           \/ request.awaitsContinue /\ stage' = "failed" /\ UNCHANGED invited
        /\ UNCHANGED <<answerVars, log>>
  /\ UNCHANGED <<socket, request, clockVars, bodyVars, verified>>

\* Mutant: the loop does not notice that the client is gone.
PullOnly ==
  /\ stage = "reading"
  /\ \/ \E n \in 1 .. MaxChunk :
          /\ pulled + n <= arrived
          /\ pulled' = pulled + n
          /\ IF pulled' > Cap THEN Refuse(413)
             ELSE UNCHANGED <<stage, answerVars, log>>
     \/ /\ ended /\ pulled = arrived
        /\ stage' = "read"
        /\ UNCHANGED <<pulled, answerVars, log>>
  /\ UNCHANGED <<socket, request, clockVars, ended, arrived, dumped, verified, invited>>

\* One turn of the loop of readBodyCapped: a chunk, the end, or the client's loss, which throws.
Pull ==
  /\ stage = "reading"
  /\ \/ \E n \in 1 .. MaxChunk :
          /\ pulled + n <= arrived
          /\ pulled' = pulled + n
          /\ IF pulled' > Cap THEN Refuse(413)
             ELSE UNCHANGED <<stage, answerVars, log>>
     \/ /\ ended /\ pulled = arrived
        /\ stage' = "read"
        /\ UNCHANGED <<pulled, answerVars, log>>
     \/ /\ socket # "open" /\ ~ended
        /\ stage' = "failed"
        /\ UNCHANGED <<pulled, answerVars, log>>
  /\ UNCHANGED <<socket, request, clockVars, ended, arrived, dumped, verified, invited>>

\* Everything after the body: the parse, the policy, the store; what throws is the caller's
\* fault.
Decide ==
  /\ stage = "read"
  /\ \/ Accept(202)
     \/ \E s \in {409, 422, 503} : Refuse(s)
     \/ stage' = "failed" /\ UNCHANGED <<answerVars, log>>
  /\ UNCHANGED <<socket, request, clockVars, bodyVars, verified, invited>>

\* Something else in an authenticated route throws, outside the try of the evidence route.
Fault ==
  /\ stage \in {"routed", "authorized"} /\ Authenticated
  /\ stage' = IF stage = "routed" THEN "rejected" ELSE "caught"
  /\ UNCHANGED <<socket, request, clockVars, bodyVars, verified, invited, answerVars, log>>

HandlerStep ==
  \/ Route \/ Authenticate \/ Authorize \/ Read \/ Admit \/ Pull \/ Decide
  \/ Fault \/ RouteCatch \/ CatchAll

-----------------------------------------------------------------------------
(* The client and Node *)

\* The first byte of a request, on a new connection or on one that was kept open.
Begin(r) ==
  /\ socket = "open"
  /\ stage = "idle" \/ (written = "flushed" /\ ~closing /\ ended)
  /\ stage' = "headers"
  /\ request' = r
  /\ tillCheck' \in 1 .. CheckInterval
  /\ age' = 0 /\ ended' = FALSE /\ arrived' = 0 /\ pulled' = 0 /\ dumped' = 0
  /\ verified' = FALSE /\ invited' = FALSE
  /\ status' = 0 /\ closing' = FALSE /\ written' = "none" /\ log' = <<>>
  /\ UNCHANGED socket

\* The last byte of its headers: Node calls the handler.
HeadersEnd ==
  /\ stage = "headers" /\ socket = "open"
  /\ stage' = "routed"
  /\ ended' = ~HasBody
  /\ UNCHANGED <<socket, request, clockVars, arrived, pulled, dumped, verified, invited,
                 answerVars, log>>

\* Part of the body.  Node discards what comes once a response has left open a connection.
Arrive(n) ==
  /\ socket = "open" /\ stage \notin {"idle", "headers"} /\ ~ended
  /\ arrived + n <= request.body
  /\ arrived' = arrived + n
  /\ IF written = "flushed" /\ ~closing THEN dumped' = dumped + n
     ELSE arrived - pulled < Ahead /\ UNCHANGED dumped
  /\ ended' = (request.framing = "length" /\ arrived' = request.body)
  /\ UNCHANGED <<socket, request, stage, clockVars, pulled, verified, invited, answerVars,
                 log>>

\* The last chunk of a chunked body.
BodyEnd ==
  /\ socket = "open" /\ stage \notin {"idle", "headers"} /\ ~ended
  /\ request.framing = "chunked" /\ arrived = request.body
  /\ ended' = TRUE
  /\ UNCHANGED <<socket, request, stage, clockVars, arrived, pulled, dumped, verified,
                 invited, answerVars, log>>

Leave ==
  /\ socket = "open"
  /\ socket' = "gone"
  /\ UNCHANGED <<request, stage, clockVars, bodyVars, verified, invited, answerVars, log>>

Overdue == age >= (IF stage = "headers" THEN HeadersTimeout ELSE RequestTimeout)

Incomplete == stage # "idle" /\ ~ended

\* connectionsCheckingInterval: an unfinished request that is overdue loses its socket.
Check ==
  /\ socket = "open" /\ Incomplete /\ tillCheck = 0
  /\ tillCheck' = CheckInterval
  /\ socket' = IF Overdue THEN "cut" ELSE socket
  /\ UNCHANGED <<request, stage, age, bodyVars, verified, invited, answerVars, log>>

\* Time matters to a request whose end is still to come.
Tick ==
  /\ socket = "open" /\ Incomplete /\ tillCheck > 0
  /\ age' = age + 1
  /\ tillCheck' = tillCheck - 1
  /\ UNCHANGED <<socket, request, stage, bodyVars, verified, invited, answerVars, log>>

Next ==
  \/ HandlerStep
  \/ Flush \/ Destroy
  \/ \E r \in Requests : Begin(r)
  \/ HeadersEnd
  \/ \E n \in 1 .. MaxChunk : Arrive(n)
  \/ BodyEnd \/ Leave \/ Check \/ Tick

Spec == Init /\ [][Next]_vars

\* The handler, what it has sent and Node's timer go on; the client owes nothing.
FairSpec ==
  /\ Spec
  /\ WF_vars(HandlerStep)
  /\ WF_vars(Flush) /\ WF_vars(Destroy)
  /\ WF_vars(Check) /\ WF_vars(Tick)

-----------------------------------------------------------------------------
(* Properties *)

\* What a client can make the seam receive is bounded.  Refused by its credential, its
\* binding, its quota, its declared length or its route, it is never invited to send, and one
\* that waits for the invitation is read only after it; of a body the seam has stopped reading
\* no more comes than Node holds, and nothing is discarded to keep a connection; and however
\* slowly the bytes drip, they are cut by the first check after their timeout.
TransferIsBounded ==
  /\ invited => /\ request.route = "evidence" /\ verified
                /\ status \notin {401, 403, 404, 429}
                /\ request.framing = "length" => request.body <= Cap
  /\ stage \in {"reading", "read"} => invited = request.awaitsContinue
  /\ dumped = 0
  /\ pulled > Cap => /\ stage \notin {"reading", "read"} /\ status \in {0, 400, 413, 503}
                     /\ pulled <= Cap + MaxChunk
  /\ arrived - pulled < Ahead + MaxChunk
  /\ socket = "open" /\ Incomplete =>
       age <= (IF stage = "headers" THEN HeadersTimeout ELSE RequestTimeout) + CheckInterval

\* The last entry of the log.
LastStatus == log[Len(log)].status

\* The seam closes a connection only once its status has left, so the caller learns why.  Two
\* faults are excepted, both logged last as a 503: a send that throws with the head of its
\* response written, and a catch-all whose own send throws, which may close a connection
\* that was told nothing.  No response that is whole is cut short.
StatusBeforeClose ==
  socket = "closed" =>
    \/ written = "flushed"
    \/ /\ stage = "done" /\ written \in {"none", "head"}
       /\ log # <<>> /\ LastStatus = 503

\* The principal is never named before step 5, and afterwards always, but for a fault before
\* step 6 has decided.
NamedInTime ==
  \A i \in DOMAIN log :
    /\ log[i].named => verified
    /\ verified /\ log[i].status # 503 => log[i].named

\* What the log says of a request that is done.  Its last entry is the refusal that was
\* answered, or the fault because of which no answer is whole, and then the connection is
\* gone; an acceptance is answered with nothing logged.  Before the last may stand refusals
\* whose own send threw.
Concluded ==
  /\ written \in {"all", "flushed"} /\ status \in {200, 202} => log = <<>>
  /\ written \in {"all", "flushed"} /\ status \notin {200, 202} =>
       log # <<>> /\ LastStatus = status
  /\ written \in {"none", "head"} => log # <<>> /\ LastStatus = 503 /\ socket # "open"
  /\ NamedInTime

\* One answer per request, whatever throws and whichever catch runs: once a response has a
\* head its status is never another, and the request is done with a log that agrees with it.
OneAnswerLogged ==
  [][/\ written # "none" => status' = status \/ stage' = "headers"
     /\ stage' = "done" => Concluded']_vars

\* A request that has begun is over at last: its connection is closed or free for the next
\* one, and its handler has returned; however slow the client, whether or not it waits for
\* an invitation.
EveryRequestEnds ==
  stage = "headers" ~> \/ socket # "open" /\ stage \in {"headers", "done"}
                       \/ written = "flushed" /\ ~closing

=============================================================================
