------------------------ MODULE SeamConnection_proofs ------------------------
(***************************************************************************)
(* One connection of the seam, for any cap, chunks, bodies and timeouts:   *)
(* what is received is bounded, the status leaves before the connection is *)
(* closed but for the two faults that are logged, and a request has one    *)
(* answer, with which its log ends, whichever sends throw.                 *)
(***************************************************************************)
EXTENDS SeamConnection, SequenceTheorems, TLAPS

Unanswered == {"idle", "headers", "routed", "authorized", "reading", "read"}

\* A response is begun by an answer, is whole only when the request is done, and leaves open
\* only a connection whose request has ended; a principal is there from step 5 on.
StageInv ==
  /\ stage \in Unanswered => written = "none" /\ log = <<>>
  /\ status = 0 <=> written = "none"
  /\ written = "none" => ~closing
  /\ written \in {"all", "flushed"} => stage = "done"
  /\ stage \in {"authorized", "reading", "read", "failed", "caught"} => verified
  /\ stage = "headers" => ~ended
  /\ stage \notin {"idle", "headers"} => HasBody \/ ended
  /\ written # "none" /\ ~closing => ended

\* What is read of a body and what is not.
BodyInv ==
  /\ dumped = 0
  /\ pulled <= arrived /\ arrived - pulled < Ahead + MaxChunk
  /\ pulled > Cap => /\ stage \in {"failed", "caught", "done"} /\ status \in {0, 400, 413, 503}
                     /\ pulled <= Cap + MaxChunk

\* A body is invited by the route that reads it, once the caller, the quota and its declared
\* length have been let pass.
InvitedInv ==
  /\ invited => stage \notin {"idle", "headers", "routed", "authorized", "rejected"}
  /\ invited => /\ request.route = "evidence" /\ verified
                /\ request.framing = "length" => request.body <= Cap
                /\ status \notin {401, 403, 404, 429}
  /\ stage \in {"reading", "read"} => invited = request.awaitsContinue

Limit == IF stage = "headers" THEN HeadersTimeout ELSE RequestTimeout

\* The next check comes no later than one interval after the limit.
TimerInv == socket = "open" /\ Incomplete => age + tillCheck <= Limit + CheckInterval

\* The log of a request that is done is concluded, and a response that is whole and has not
\* left keeps its connection.
LogInv ==
  /\ stage = "done" => Concluded
  /\ socket = "closed" => stage = "done" /\ written # "all"
  /\ NamedInTime

ConnectionInv ==
  /\ TypeOK /\ StageInv /\ BodyInv /\ InvitedInv /\ TimerInv /\ LogInv

-----------------------------------------------------------------------------
(* Answering *)

Entry == [status : Statuses, named : BOOLEAN]

LEMMA Typed ==
  ASSUME TypeOK
  PROVE  /\ arrived \in Nat /\ pulled \in Nat /\ dumped \in Nat /\ age \in Nat /\ tillCheck \in Nat
         /\ Cap \in Nat /\ MaxChunk \in Nat /\ Ahead \in Nat /\ MaxBody \in Nat
         /\ HeadersTimeout \in Nat /\ RequestTimeout \in Nat /\ CheckInterval \in Nat
         /\ log \in Seq(Entry)
BY SizeAssumption DEF TypeOK, Entry

\* One more entry in the log, whatever is in it.
LEMMA NextEntry ==
  ASSUME NEW e \in Entry, log \in Seq(Entry), log' = Append(log, e)
  PROVE  /\ log' \in Seq(Entry) /\ Len(log') = Len(log) + 1 /\ log'[Len(log')] = e
         /\ DOMAIN log' = 1 .. Len(log) + 1 /\ DOMAIN log = 1 .. Len(log) /\ Len(log) \in Nat
         /\ \A i \in DOMAIN log : log'[i] = log[i]
<1> HIDE DEF Entry
<1> QED BY AppendProperties

\* A refusal that is logged is the last entry, and names the principal when it must.
LEMMA Logged ==
  ASSUME log \in Seq(Entry), NamedInTime, NEW s \in Statuses, NEW named \in BOOLEAN,
         LogRefusal(s, named), named => verified, verified /\ s # 503 => named,
         verified' = verified
  PROVE  /\ log' \in Seq(Entry) /\ log' # <<>> /\ LastStatus' = s
         /\ NamedInTime'
<1> DEFINE e == [status |-> s, named |-> named]
<1>1. e \in Entry /\ e.status = s /\ e.named = named /\ log' = Append(log, e)
  BY DEF Entry, LogRefusal
<1> HIDE DEF e
<1>2. /\ log' \in Seq(Entry) /\ Len(log') = Len(log) + 1 /\ log'[Len(log')] = e
      /\ DOMAIN log' = 1 .. Len(log) + 1 /\ DOMAIN log = 1 .. Len(log) /\ Len(log) \in Nat
      /\ \A i \in DOMAIN log : log'[i] = log[i]
  BY <1>1, NextEntry
<1>3. log' # <<>> /\ LastStatus' = s
  BY <1>1, <1>2 DEF LastStatus
<1>4. ASSUME NEW i \in DOMAIN log'
      PROVE  /\ log'[i].named => verified'
             /\ verified' /\ log'[i].status # 503 => log'[i].named
  <2>1. CASE i = Len(log')
    BY <1>1, <1>2, <2>1
  <2>2. CASE i # Len(log')
    <3>1. i \in DOMAIN log /\ log'[i] = log[i]
      BY <1>2, <2>2
    <3> QED BY <3>1 DEF NamedInTime
  <2> QED BY <2>1, <2>2
<1> QED BY <1>2, <1>3, <1>4 DEF NamedInTime

LEMMA CatcherIs ==
  ASSUME NEW s \in Statuses, stage \in {"routed", "authorized", "reading", "read", "failed"}
  PROVE  /\ Catcher(s) \in Thrown
         /\ Catcher(s) = "rejected" <=> stage = "routed"
BY DEF Catcher, Thrown

\* A send, whole, cut short or not begun, to a request that has no response yet.
LEMMA AnswerKeeps ==
  ASSUME ConnectionInv, stage \in {"routed", "authorized", "reading", "read", "failed"},
         written = "none", NEW s \in Statuses, Answer(s),
         s \in {401, 403, 404, 429} => ~invited,
         log' \in Seq(Entry), NamedInTime',
         s \in {200, 202} => log' = <<>>,
         s \notin {200, 202} => log' # <<>> /\ LastStatus' = s,
         pulled' \in pulled .. arrived,
         pulled' > Cap => /\ s \in {400, 413} /\ stage \in {"reading", "failed"}
                          /\ pulled' <= Cap + MaxChunk,
         UNCHANGED <<socket, request, clockVars, ended, arrived, dumped, verified, invited>>
  PROVE  ConnectionInv'
<1> USE Typed DEF ConnectionInv
<1>1. status = 0 /\ ~closing /\ s # 0 /\ (stage # "routed" => verified) /\ socket # "closed"
  BY DEF StageInv, LogInv, Statuses, REFUSED_UNREAD
<1>2. /\ Catcher(s) \in Thrown
      /\ Catcher(s) = "rejected" <=> stage = "routed"
  BY CatcherIs
<1>3. \/ /\ status' = s /\ closing' = (s \in REFUSED_UNREAD \/ BodyUnread)
         /\ \/ written' = "all" /\ stage' = "done"
            \/ written' = "head" /\ stage' = Catcher(s)
      \/ status' = 0 /\ closing' = closing /\ written' = "none" /\ stage' = Catcher(s)
  BY <1>1 DEF Answer, Send, answerVars
<1>4. closing' \in BOOLEAN
  BY <1>3 DEF TypeOK
<1>5. /\ written' = "none" => ~closing'
      /\ written' # "none" /\ ~closing' => ~BodyUnread
  <2>1. CASE closing' = (s \in REFUSED_UNREAD \/ BodyUnread) /\ written' # "none"
    BY <2>1
  <2>2. CASE closing' = closing /\ written' = "none"
    BY <1>1, <2>2
  <2> QED BY <1>3, <2>1, <2>2
<1>6. /\ status' \in {0, s} /\ (status' = 0 <=> written' = "none")
      /\ written' \in {"none", "head", "all"}
      /\ stage' \in Thrown \cup {"done"} /\ (stage' = "done" <=> written' = "all")
      /\ stage' = "rejected" <=> stage = "routed" /\ stage' # "done"
      /\ written' = "all" => status' = s
  BY <1>1, <1>2, <1>3 DEF Thrown
<1>7. TypeOK'
  <2>1. pulled' \in 0 .. MaxBody
    BY DEF TypeOK
  <2> QED BY <1>4, <1>6, <2>1 DEF TypeOK, Entry, clockVars, Handling
<1>8. StageInv'
  <2>1. stage' \in {"failed", "rejected", "caught", "done"} /\ stage' \notin Unanswered
    BY <1>6 DEF Thrown, Unanswered
  <2>2. status' = 0 <=> written' = "none"
    BY <1>6
  <2>3. /\ written' \in {"all", "flushed"} => stage' = "done"
        /\ stage' \in Thrown => written' \in {"none", "head"}
    BY <1>6 DEF Thrown
  <2>4. stage' \in {"authorized", "reading", "read", "failed", "caught"} => verified'
    BY <1>1, <1>6, <2>1
  <2>5. HasBody' \/ ended'
    BY DEF StageInv, HasBody
  <2>6. written' # "none" /\ ~closing' => ended'
    BY <1>5, <2>5 DEF BodyUnread, HasBody
  <2> QED BY <1>5, <2>1, <2>2, <2>3, <2>4, <2>5, <2>6 DEF StageInv
<1>9. BodyInv'
  <2>1. pulled' > Cap => stage' \in {"failed", "caught", "done"} /\ status' \in {0, 400, 413, 503}
    BY <1>6 DEF Thrown
  <2> QED BY <2>1 DEF BodyInv
<1>10. InvitedInv'
  <2>1. stage' \in {"failed", "rejected", "caught", "done"} /\ (stage' = "rejected" => ~invited)
    BY <1>6 DEF Thrown, InvitedInv
  <2>2. ASSUME invited PROVE status' \notin {401, 403, 404, 429}
    <3>1. s \notin {401, 403, 404, 429}
      BY <2>2
    <3>2. status' = 0 \/ status' = s
      BY <1>6
    <3> HIDE DEF ConnectionInv
    <3> QED BY <3>1, <3>2
  <2>3. invited => /\ request.route = "evidence" /\ verified
                   /\ request.framing = "length" => request.body <= Cap
    BY DEF InvitedInv
  <2>4. /\ UNCHANGED <<request, verified, invited>>
        /\ stage' \notin {"idle", "headers", "routed", "authorized", "reading", "read"}
    BY <2>1
  <2> HIDE DEF ConnectionInv
  <2>5. invited' => /\ stage' \notin {"idle", "headers", "routed", "authorized", "rejected"}
                    /\ request'.route = "evidence" /\ verified'
                    /\ request'.framing = "length" => request'.body <= Cap
                    /\ status' \notin {401, 403, 404, 429}
    BY <2>1, <2>2, <2>3, <2>4
  <2> QED BY <2>4, <2>5 DEF InvitedInv
<1>11. TimerInv'
  BY <1>6 DEF TimerInv, Limit, Incomplete, clockVars, Thrown
<1>12. LogInv'
  BY <1>1, <1>6 DEF LogInv, Concluded
<1> QED BY <1>7, <1>8, <1>9, <1>10, <1>11, <1>12

\* A refusal that comes with a read or without one.
LEMMA RefuseKeeps ==
  ASSUME ConnectionInv, stage \in {"routed", "authorized", "reading", "read"},
         NEW s \in Statuses \ {200, 202}, Refuse(s),
         s \in {401, 403, 404, 429} => ~invited,
         pulled' \in pulled .. arrived,
         pulled' > Cap => s = 413 /\ stage = "reading" /\ pulled' <= Cap + MaxChunk,
         UNCHANGED <<socket, request, clockVars, ended, arrived, dumped, verified, invited>>
  PROVE  ConnectionInv'
<1>1. TypeOK /\ StageInv /\ NamedInTime /\ log \in Seq(Entry) /\ verified \in BOOLEAN
  BY Typed DEF ConnectionInv, LogInv, TypeOK
<1>2. written = "none"
  BY <1>1 DEF StageInv, Unanswered
<1>3. LogRefusal(s, verified) /\ Answer(s)
  BY DEF Refuse
<1>4. log' \in Seq(Entry) /\ log' # <<>> /\ LastStatus' = s /\ NamedInTime'
  BY <1>1, <1>3, Logged
<1> QED BY <1>2, <1>3, <1>4, AnswerKeeps

\* A handler that has not read the cap, or is past its reading, has read no more than it.
LEMMA Unread ==
  ASSUME ConnectionInv
  PROVE  /\ pulled \in pulled .. arrived
         /\ pulled > Cap => stage \in {"failed", "caught", "done"} /\ pulled <= Cap + MaxChunk
BY Typed DEF ConnectionInv, BodyInv

\* The same of a handler that has read nothing since.
LEMMA RefuseUnread ==
  ASSUME ConnectionInv, stage \in {"routed", "authorized", "reading", "read"},
         NEW s \in {401, 403, 404, 409, 413, 422, 429, 503}, Refuse(s),
         s \in {401, 403, 404, 429} => ~invited,
         UNCHANGED <<socket, request, clockVars, bodyVars, verified, invited>>
  PROVE  ConnectionInv'
<1>1. pulled' = pulled /\ pulled \in pulled .. arrived /\ ~(pulled > Cap)
  BY Unread DEF bodyVars
<1>2. s \in Statuses \ {200, 202}
  BY DEF Statuses, REFUSED_UNREAD
<1> QED BY <1>1, <1>2, RefuseKeeps DEF bodyVars

LEMMA AcceptKeeps ==
  ASSUME ConnectionInv, stage \in {"routed", "authorized", "reading", "read"},
         NEW s \in {200, 202}, Accept(s),
         UNCHANGED <<socket, request, clockVars, bodyVars, verified, invited>>
  PROVE  ConnectionInv'
<1>1. TypeOK /\ StageInv /\ NamedInTime /\ log \in Seq(Entry)
  BY Typed DEF ConnectionInv, LogInv
<1>2. written = "none" /\ log = <<>>
  BY <1>1 DEF StageInv, Unanswered
<1>3. Answer(s) /\ log' = log
  BY DEF Accept
<1>4. NamedInTime'
  BY <1>1, <1>3 DEF NamedInTime
<1>5. pulled' = pulled /\ pulled \in pulled .. arrived /\ ~(pulled > Cap)
  BY Unread DEF bodyVars
<1>6. s \in Statuses
  BY DEF Statuses
<1> QED BY <1>1, <1>2, <1>3, <1>4, <1>5, <1>6, AnswerKeeps DEF bodyVars

\* A handler that goes on without an answer changes neither the response nor the log.
LEMMA MoveKeeps ==
  ASSUME ConnectionInv, stage \in {"routed", "authorized", "reading"},
         stage' \in {"routed", "authorized", "reading", "read"},
         UNCHANGED <<socket, request, clockVars, ended, arrived, dumped, answerVars, log>>,
         verified' \in BOOLEAN, verified => verified',
         stage' # "routed" => verified',
         invited' \in BOOLEAN,
         stage' \in {"routed", "authorized"} => ~invited',
         stage' \in {"reading", "read"} =>
           /\ invited' = request.awaitsContinue
           /\ invited' => request.route = "evidence" /\ (request.framing = "length" => request.body <= Cap),
         pulled' \in pulled .. arrived, pulled' <= Cap \/ pulled' = pulled
  PROVE  ConnectionInv'
<1> USE Typed DEF ConnectionInv
<1>1. /\ status = 0 /\ log = <<>> /\ written = "none" /\ status' = 0 /\ log' = <<>>
      /\ UNCHANGED <<closing, written>>
  BY DEF StageInv, Unanswered, answerVars
<1>2. TypeOK'
  <2>1. pulled' \in 0 .. MaxBody
    BY DEF TypeOK
  <2> QED BY <1>1, <2>1 DEF TypeOK, clockVars, answerVars, Handling
<1>3. StageInv'
  BY <1>1 DEF StageInv, Unanswered, HasBody
<1>4. BodyInv'
  BY <1>1 DEF BodyInv
<1>5. InvitedInv'
  BY <1>1 DEF InvitedInv
<1>6. TimerInv'
  BY DEF TimerInv, Limit, Incomplete, clockVars
<1>7. LogInv'
  BY <1>1 DEF LogInv, NamedInTime
<1> QED BY <1>2, <1>3, <1>4, <1>5, <1>6, <1>7

\* A throw that is not of a send.
LEMMA ThrowKeeps ==
  ASSUME ConnectionInv, stage \in {"routed", "authorized", "reading", "read"},
         stage' \in Thrown, stage' = "rejected" <=> stage = "routed",
         UNCHANGED <<socket, request, clockVars, bodyVars, verified, invited, answerVars, log>>
  PROVE  ConnectionInv'
<1> USE Typed DEF ConnectionInv, bodyVars, answerVars, Thrown
<1>1. written = "none" /\ (stage # "routed" => verified) /\ socket # "closed"
  BY DEF StageInv, Unanswered, LogInv
<1>2. TypeOK'
  BY DEF TypeOK, clockVars, Handling
<1>3. StageInv'
  BY <1>1 DEF StageInv, Unanswered, HasBody
<1>4. BodyInv'
  BY DEF BodyInv
<1>5. InvitedInv'
  BY DEF InvitedInv
<1>6. TimerInv'
  BY DEF TimerInv, Limit, Incomplete, clockVars
<1>7. LogInv'
  BY <1>1 DEF LogInv, NamedInTime
<1> QED BY <1>2, <1>3, <1>4, <1>5, <1>6, <1>7

-----------------------------------------------------------------------------
(* The catches *)

\* The catch of the evidence route answers what has no response and passes on what has one.
LEMMA RouteCatchKeeps == ConnectionInv /\ RouteCatch => ConnectionInv'
<1> SUFFICES ASSUME ConnectionInv, RouteCatch PROVE ConnectionInv'
  OBVIOUS
<1> USE DEF ConnectionInv
<1>1. /\ stage = "failed" /\ verified /\ LogRefusal(400, TRUE)
      /\ UNCHANGED <<socket, request, clockVars, bodyVars, verified, invited>>
  BY DEF RouteCatch, StageInv
<1>2. 400 \in Statuses /\ log \in Seq(Entry) /\ NamedInTime
  BY Typed DEF Statuses, LogInv
<1>3. log' \in Seq(Entry) /\ log' # <<>> /\ LastStatus' = 400 /\ NamedInTime'
  BY <1>1, <1>2, Logged
<1>4. CASE written = "none" /\ Answer(400)
  <2>1. pulled' = pulled /\ pulled \in pulled .. arrived /\ (pulled > Cap => pulled <= Cap + MaxChunk)
    BY <1>1, Unread DEF bodyVars
  <2> QED BY <1>1, <1>2, <1>3, <1>4, <2>1, AnswerKeeps DEF bodyVars
<1>5. CASE written = "head" /\ stage' = "caught" /\ UNCHANGED answerVars
  <2> USE <1>1, <1>5 DEF bodyVars, answerVars
  <2>1. TypeOK'
    BY <1>3 DEF TypeOK, Entry, clockVars, Handling, Thrown
  <2>2. StageInv'
    BY DEF StageInv, Unanswered, HasBody
  <2>3. BodyInv' /\ InvitedInv'
    BY DEF BodyInv, InvitedInv
  <2>4. TimerInv'
    BY DEF TimerInv, Limit, Incomplete, clockVars
  <2>5. LogInv'
    BY <1>3 DEF LogInv
  <2> QED BY <2>1, <2>2, <2>3, <2>4, <2>5
<1> QED BY <1>4, <1>5 DEF RouteCatch

\* The catch-all answers what has no response, or closes the connection.
LEMMA CatchAllKeeps == ConnectionInv /\ CatchAll => ConnectionInv'
<1> SUFFICES ASSUME ConnectionInv, CatchAll PROVE ConnectionInv'
  OBVIOUS
<1> USE DEF ConnectionInv
<1>1. /\ stage \in {"rejected", "caught"} /\ stage' = "done" /\ LogRefusal(503, stage = "caught")
      /\ UNCHANGED <<request, clockVars, bodyVars, verified, invited>>
      /\ stage = "caught" => verified
  BY DEF CatchAll, StageInv
<1>2. 503 \in Statuses /\ log \in Seq(Entry) /\ NamedInTime /\ (stage = "caught") \in BOOLEAN
  BY Typed DEF Statuses, REFUSED_UNREAD, LogInv
<1>3. log' \in Seq(Entry) /\ log' # <<>> /\ LastStatus' = 503 /\ NamedInTime'
  BY <1>1, <1>2, Logged
<1>4. written \in {"none", "head"} /\ socket # "closed"
  BY <1>1 DEF StageInv, LogInv, TypeOK
<1>5. \/ status' = 503 /\ closing' = TRUE /\ written' = "all" /\ socket' = socket
      \/ status' = 503 /\ closing' = TRUE /\ written' = "head" /\ Close
      \/ Close /\ UNCHANGED answerVars
  <2>1. Send(503) => status' = 503 /\ closing' = TRUE
    BY DEF Send, REFUSED_UNREAD
  <2> QED BY <2>1 DEF CatchAll
<1>6. Close => socket' \in {"gone", "cut", "closed"}
  BY DEF Close, TypeOK
<1>7. /\ status' \in {status, 503} /\ (status' = 0 <=> written' = "none")
      /\ written' \in {"none", "head", "all"} /\ closing' \in BOOLEAN
      /\ written' = "none" => ~closing'
      /\ written' # "none" /\ ~closing' => ended
      /\ socket' \in {"open", "gone", "cut", "closed"}
      /\ written' = "all" => status' = 503 /\ socket' = socket
      /\ written' # "all" => socket' # "open"
  <2>0. socket \in {"open", "gone", "cut", "closed"}
    BY DEF TypeOK
  <2>1. CASE status' = 503 /\ closing' = TRUE /\ written' = "all" /\ socket' = socket
    <3>1. closing' /\ closing' \in BOOLEAN
      BY <2>1
    <3> QED BY <2>0, <2>1, <3>1
  <2>3. CASE status' = 503 /\ closing' = TRUE /\ written' = "head" /\ Close
    <3>1. closing' /\ closing' \in BOOLEAN
      BY <2>3
    <3> QED BY <1>6, <2>3, <3>1
  <2>2. CASE Close /\ UNCHANGED answerVars
    <3>1. status' = status /\ closing' = closing /\ written' = written
      BY <2>2 DEF answerVars
    <3>2. closing \in BOOLEAN
      BY DEF TypeOK
    <3>3. /\ status = 0 <=> written = "none"
          /\ written = "none" => ~closing
          /\ written # "none" /\ ~closing => ended
      BY DEF StageInv
    <3> QED BY <1>4, <1>6, <2>2, <3>1, <3>2, <3>3
  <2> QED BY <1>5, <2>1, <2>2, <2>3
<1>8. TypeOK'
  BY <1>1, <1>3, <1>7 DEF TypeOK, Entry, clockVars, bodyVars, Statuses, REFUSED_UNREAD
<1>9. StageInv'
  BY <1>1, <1>7 DEF StageInv, Unanswered, HasBody, bodyVars
<1>10. BodyInv'
  BY <1>1, <1>7 DEF BodyInv, bodyVars
<1>11. InvitedInv'
  BY <1>1, <1>7 DEF InvitedInv
<1>12. TimerInv'
  <2>1. socket' = "open" => socket = "open"
    BY <1>4, <1>7
  <2> QED BY <1>1, <2>1 DEF TimerInv, Limit, Incomplete, clockVars, bodyVars
<1>13. LogInv'
  BY <1>1, <1>3, <1>4, <1>7 DEF LogInv, Concluded
<1> QED BY <1>8, <1>9, <1>10, <1>11, <1>12, <1>13

-----------------------------------------------------------------------------
(* The handler's steps *)

LEMMA RouteKeeps == ConnectionInv /\ Route => ConnectionInv'
<1> SUFFICES ASSUME ConnectionInv, Route PROVE ConnectionInv'
  OBVIOUS
<1>1. /\ stage = "routed" /\ ~invited /\ verified = FALSE
      /\ UNCHANGED <<socket, request, clockVars, bodyVars, verified, invited>>
  BY DEF Route, ConnectionInv, InvitedInv, TypeOK
<1>2. CASE LogRefusal(404, FALSE) /\ Send(404)
  <2>1. Refuse(404)
    BY <1>1, <1>2 DEF Route, Refuse, Answer
  <2> QED BY <1>1, <2>1, RefuseUnread
<1>3. CASE Send(200) /\ UNCHANGED log
  <2>1. Accept(200)
    BY <1>3 DEF Route, Accept, Answer
  <2> QED BY <1>1, <2>1, AcceptKeeps
<1> QED BY <1>2, <1>3 DEF Route

LEMMA AuthenticateKeeps == ConnectionInv /\ Authenticate => ConnectionInv'
<1> SUFFICES ASSUME ConnectionInv, Authenticate PROVE ConnectionInv'
  OBVIOUS
<1>1. /\ stage = "routed" /\ ~invited /\ ~verified
      /\ UNCHANGED <<socket, request, clockVars, bodyVars, invited>>
  BY DEF Authenticate, ConnectionInv, InvitedInv
<1>2. ASSUME NEW s \in {401, 503}, Refuse(s), UNCHANGED verified
      PROVE  ConnectionInv'
  BY <1>1, <1>2, RefuseUnread
<1>3. ASSUME verified' = TRUE, UNCHANGED <<stage, answerVars, log>>
      PROVE  ConnectionInv'
  BY <1>1, <1>3, Unread, MoveKeeps DEF bodyVars, ConnectionInv, TypeOK
<1> QED BY <1>2, <1>3 DEF Authenticate

LEMMA AuthorizeKeeps == ConnectionInv /\ Authorize => ConnectionInv'
<1> SUFFICES ASSUME ConnectionInv, Authorize PROVE ConnectionInv'
  OBVIOUS
<1>1. /\ stage = "routed" /\ ~invited /\ verified
      /\ UNCHANGED <<socket, request, clockVars, bodyVars, verified, invited>>
  BY DEF Authorize, ConnectionInv, InvitedInv
<1>2. CASE Refuse(403)
  BY <1>1, <1>2, RefuseUnread
<1>3. CASE stage' = "authorized" /\ UNCHANGED <<answerVars, log>>
  BY <1>1, <1>3, Unread, MoveKeeps DEF bodyVars, ConnectionInv, TypeOK
<1> QED BY <1>2, <1>3 DEF Authorize

LEMMA ReadKeeps == ConnectionInv /\ Read => ConnectionInv'
<1> SUFFICES ASSUME ConnectionInv, Read PROVE ConnectionInv'
  OBVIOUS
<1>1. /\ stage = "authorized"
      /\ UNCHANGED <<socket, request, clockVars, bodyVars, verified, invited>>
  BY DEF Read
<1>2. CASE Refuse(503)
  BY <1>1, <1>2, RefuseUnread
<1>3. CASE Accept(200)
  BY <1>1, <1>3, AcceptKeeps
<1> QED BY <1>2, <1>3 DEF Read

LEMMA AdmitKeeps == ConnectionInv /\ Admit => ConnectionInv'
<1> SUFFICES ASSUME ConnectionInv, Admit PROVE ConnectionInv'
  OBVIOUS
<1> DEFINE tooLong == request.framing = "length" /\ request.body > Cap
<1>1. /\ stage = "authorized" /\ ~invited /\ request.route = "evidence"
      /\ verified /\ request.awaitsContinue \in BOOLEAN
      /\ UNCHANGED <<socket, request, clockVars, bodyVars, verified>>
  BY DEF Admit, ConnectionInv, InvitedInv, StageInv, TypeOK, Requests
<1>2. ASSUME NEW s \in {429, 413}, Refuse(s), UNCHANGED invited
      PROVE  ConnectionInv'
  BY <1>1, <1>2, RefuseUnread
<1>3. ASSUME ~tooLong, invited' = request.awaitsContinue, stage' = "reading",
             UNCHANGED <<answerVars, log>>
      PROVE  ConnectionInv'
  <2>1. request.framing = "length" => request.body <= Cap
    BY <1>3, Typed DEF ConnectionInv, TypeOK, Requests
  <2> QED BY <1>1, <1>3, <2>1, Unread, MoveKeeps DEF bodyVars, ConnectionInv, TypeOK
<1>4. CASE stage' = "failed" /\ UNCHANGED invited /\ UNCHANGED <<answerVars, log>>
  BY <1>1, <1>4, ThrowKeeps DEF Thrown
<1> QED BY <1>2, <1>3, <1>4 DEF Admit

LEMMA PullKeeps == ConnectionInv /\ Pull => ConnectionInv'
<1> SUFFICES ASSUME ConnectionInv, Pull PROVE ConnectionInv'
  OBVIOUS
<1>1. /\ stage = "reading" /\ verified
      /\ UNCHANGED <<socket, request, clockVars, ended, arrived, dumped, verified, invited>>
      /\ invited = request.awaitsContinue
      /\ invited => request.route = "evidence" /\ (request.framing = "length" => request.body <= Cap)
      /\ verified \in BOOLEAN /\ invited \in BOOLEAN
  BY DEF Pull, ConnectionInv, InvitedInv, StageInv, TypeOK
<1>2. pulled <= arrived /\ pulled <= Cap
  BY <1>1, Typed DEF ConnectionInv, BodyInv
<1>3. ASSUME NEW n \in 1 .. MaxChunk, pulled + n <= arrived, pulled' = pulled + n,
             IF pulled' > Cap THEN Refuse(413) ELSE UNCHANGED <<stage, answerVars, log>>
      PROVE  ConnectionInv'
  <2>1. pulled' \in pulled .. arrived /\ pulled' <= Cap + MaxChunk
    BY <1>2, <1>3, Typed DEF ConnectionInv
  <2>2. CASE pulled' > Cap
    <3>1. 413 \in Statuses \ {200, 202} /\ Refuse(413)
      BY <1>3, <2>2 DEF Statuses, REFUSED_UNREAD
    <3> QED BY <1>1, <2>1, <3>1, RefuseKeeps
  <2>3. CASE ~(pulled' > Cap)
    <3>1. pulled' <= Cap /\ UNCHANGED <<stage, answerVars, log>>
      BY <1>3, <2>1, <2>3, Typed DEF ConnectionInv
    <3> QED BY <1>1, <2>1, <3>1, MoveKeeps
  <2> QED BY <2>2, <2>3
<1>4. CASE stage' = "read" /\ UNCHANGED <<pulled, answerVars, log>>
  <2>1. pulled' \in pulled .. arrived /\ pulled' = pulled
    BY <1>2, <1>4, Typed DEF ConnectionInv
  <2> QED BY <1>1, <1>4, <2>1, MoveKeeps
<1>5. CASE stage' = "failed" /\ UNCHANGED <<pulled, answerVars, log>>
  BY <1>1, <1>5, ThrowKeeps DEF bodyVars, Thrown
<1> QED BY <1>3, <1>4, <1>5 DEF Pull

LEMMA DecideKeeps == ConnectionInv /\ Decide => ConnectionInv'
<1> SUFFICES ASSUME ConnectionInv, Decide PROVE ConnectionInv'
  OBVIOUS
<1>1. /\ stage = "read"
      /\ UNCHANGED <<socket, request, clockVars, bodyVars, verified, invited>>
  BY DEF Decide
<1>2. ASSUME NEW s \in {409, 422, 503}, Refuse(s)
      PROVE  ConnectionInv'
  BY <1>1, <1>2, RefuseUnread
<1>3. CASE Accept(202)
  BY <1>1, <1>3, AcceptKeeps
<1>4. CASE stage' = "failed" /\ UNCHANGED <<answerVars, log>>
  BY <1>1, <1>4, ThrowKeeps DEF Thrown
<1> QED BY <1>2, <1>3, <1>4 DEF Decide

LEMMA FaultKeeps == ConnectionInv /\ Fault => ConnectionInv'
BY ThrowKeeps DEF Fault, Thrown

LEMMA HandlerStepKeeps == ConnectionInv /\ HandlerStep => ConnectionInv'
BY RouteKeeps, AuthenticateKeeps, AuthorizeKeeps, ReadKeeps, AdmitKeeps, PullKeeps,
   DecideKeeps, FaultKeeps, RouteCatchKeeps, CatchAllKeeps DEF HandlerStep

-----------------------------------------------------------------------------
(* The client and Node *)

LEMMA FlushKeeps == ConnectionInv /\ Flush => ConnectionInv'
<1> SUFFICES ASSUME ConnectionInv, Flush PROVE ConnectionInv'
  OBVIOUS
<1> USE DEF ConnectionInv
<1>1. /\ written = "all" /\ stage = "done" /\ written' = "flushed" /\ socket = "open"
      /\ UNCHANGED <<socket, request, stage, clockVars, bodyVars, verified, invited, status,
                     closing, log>>
  BY DEF Flush, StageInv
<1>2. TypeOK'
  BY <1>1 DEF TypeOK, clockVars, bodyVars
<1>3. StageInv'
  BY <1>1 DEF StageInv, HasBody, bodyVars
<1>4. BodyInv' /\ InvitedInv'
  BY <1>1 DEF BodyInv, InvitedInv, bodyVars
<1>5. TimerInv'
  BY <1>1 DEF TimerInv, Limit, Incomplete, clockVars, bodyVars
<1>6. LogInv'
  BY <1>1 DEF LogInv, Concluded, NamedInTime, LastStatus
<1> QED BY <1>2, <1>3, <1>4, <1>5, <1>6

\* A connection that is over, by whichever side, leaves the request as it is.
LEMMA SocketKeeps ==
  ASSUME ConnectionInv, socket = "open", socket' \in {"gone", "cut", "closed"},
         socket' = "closed" => written = "flushed", tillCheck' \in 0 .. CheckInterval,
         UNCHANGED <<request, stage, age, bodyVars, verified, invited, answerVars, log>>
  PROVE  ConnectionInv'
<1> USE DEF ConnectionInv
<1>1. TypeOK'
  BY DEF TypeOK, bodyVars, answerVars
<1>2. StageInv'
  BY DEF StageInv, HasBody, bodyVars, answerVars
<1>3. BodyInv' /\ InvitedInv'
  BY DEF BodyInv, InvitedInv, bodyVars, answerVars
<1>4. TimerInv'
  BY DEF TimerInv
<1>5. LogInv'
  BY DEF LogInv, Concluded, NamedInTime, LastStatus, StageInv, answerVars
<1> QED BY <1>1, <1>2, <1>3, <1>4, <1>5

LEMMA DestroyKeeps == ConnectionInv /\ Destroy => ConnectionInv'
BY SocketKeeps DEF Destroy, ConnectionInv, TypeOK, clockVars

LEMMA LeaveKeeps == ConnectionInv /\ Leave => ConnectionInv'
BY SocketKeeps DEF Leave, ConnectionInv, TypeOK, clockVars

LEMMA BeginKeeps ==
  ASSUME ConnectionInv, NEW r \in Requests, Begin(r)
  PROVE  ConnectionInv'
<1> USE Typed DEF ConnectionInv
<1>1. /\ socket' = "open" /\ stage' = "headers" /\ request' = r /\ tillCheck' \in 1 .. CheckInterval
      /\ age' = 0 /\ ended' = FALSE /\ arrived' = 0 /\ pulled' = 0 /\ dumped' = 0
      /\ verified' = FALSE /\ invited' = FALSE
      /\ status' = 0 /\ closing' = FALSE /\ written' = "none" /\ log' = <<>>
  BY DEF Begin
<1>2. TypeOK'
  <2>1. log' \in Seq([status : Statuses, named : BOOLEAN])
    BY <1>1, EmptySeq
  <2>2. /\ {ended', verified', invited', closing'} \subseteq BOOLEAN
    BY <1>1
  <2>3. 0 \in 0 .. RequestTimeout + CheckInterval /\ 0 \in 0 .. CheckInterval /\ 0 \in 0 .. MaxBody
    BY SizeAssumption
  <2>4. tillCheck' \in 0 .. CheckInterval
    BY <1>1, <2>3
  <2> QED BY <1>1, <2>1, <2>2, <2>3, <2>4 DEF TypeOK
<1>3. StageInv'
  BY <1>1 DEF StageInv, Unanswered
<1>4. BodyInv'
  BY <1>1, SizeAssumption DEF BodyInv
<1>5. InvitedInv'
  BY <1>1 DEF InvitedInv
<1>6. TimerInv'
  BY <1>1 DEF TimerInv, Limit
<1>7. LogInv'
  BY <1>1 DEF LogInv, NamedInTime
<1> QED BY <1>2, <1>3, <1>4, <1>5, <1>6, <1>7

LEMMA HeadersEndKeeps == ConnectionInv /\ HeadersEnd => ConnectionInv'
<1> SUFFICES ASSUME ConnectionInv, HeadersEnd PROVE ConnectionInv'
  OBVIOUS
<1> USE Typed DEF ConnectionInv
<1>1. /\ stage = "headers" /\ socket = "open" /\ stage' = "routed" /\ ended' = ~HasBody
      /\ UNCHANGED <<socket, request, clockVars, arrived, pulled, dumped, verified, invited,
                     answerVars, log>>
  BY DEF HeadersEnd
<1>2. ended' \in BOOLEAN /\ (HasBody \/ ended') /\ ~ended
  BY <1>1 DEF StageInv
<1>3. TypeOK'
  BY <1>1, <1>2 DEF TypeOK, clockVars, answerVars, Handling
<1>4. StageInv'
  BY <1>1, <1>2 DEF StageInv, Unanswered, HasBody, answerVars
<1>5. BodyInv' /\ InvitedInv'
  BY <1>1 DEF BodyInv, InvitedInv, answerVars
<1>6. TimerInv'
  BY <1>1, <1>2, TimeoutAssumption DEF TimerInv, Limit, Incomplete, clockVars
<1>7. LogInv'
  BY <1>1 DEF LogInv, Concluded, NamedInTime, LastStatus, answerVars
<1> QED BY <1>3, <1>4, <1>5, <1>6, <1>7

\* More of a body that has not ended: a response, if there is one, closes the connection.
LEMMA BodyKeeps ==
  ASSUME ConnectionInv, stage \notin {"idle", "headers"}, ~ended, ended' \in BOOLEAN,
         arrived' \in arrived .. MaxBody, arrived' - pulled < Ahead + MaxChunk,
         UNCHANGED <<socket, request, stage, clockVars, pulled, dumped, verified, invited,
                     answerVars, log>>
  PROVE  ConnectionInv'
<1> USE Typed DEF ConnectionInv
<1>1. TypeOK'
  BY DEF TypeOK, clockVars, answerVars
<1>2. StageInv'
  BY DEF StageInv, HasBody, answerVars
<1>3. BodyInv' /\ InvitedInv'
  BY DEF BodyInv, InvitedInv, answerVars
<1>4. TimerInv'
  BY DEF TimerInv, Limit, Incomplete, clockVars
<1>5. LogInv'
  BY DEF LogInv, Concluded, NamedInTime, LastStatus, answerVars
<1> QED BY <1>1, <1>2, <1>3, <1>4, <1>5

LEMMA ArriveKeeps ==
  ASSUME ConnectionInv, NEW n \in 1 .. MaxChunk, Arrive(n)
  PROVE  ConnectionInv'
<1> USE Typed DEF ConnectionInv
<1>1. /\ stage \notin {"idle", "headers"} /\ ~ended /\ arrived' = arrived + n
      /\ arrived + n <= request.body /\ request.body \in 0 .. MaxBody
      /\ ended' = (request.framing = "length" /\ arrived' = request.body)
      /\ UNCHANGED <<socket, request, stage, clockVars, pulled, verified, invited, answerVars,
                     log>>
  BY DEF Arrive, TypeOK, Requests
<1>2. ~(written = "flushed" /\ ~closing)
  BY <1>1 DEF StageInv
<1>3. arrived - pulled < Ahead /\ UNCHANGED dumped
  BY <1>2 DEF Arrive
<1>4. arrived' \in arrived .. MaxBody /\ arrived' - pulled < Ahead + MaxChunk
  <2>1. arrived \in Nat /\ pulled \in Nat /\ MaxBody \in Nat /\ MaxChunk \in Nat /\ Ahead \in Nat
    BY Typed
  <2> QED BY <1>1, <1>3, <2>1
<1>5. ended' \in BOOLEAN
  BY <1>1
<1> QED BY <1>1, <1>3, <1>4, <1>5, BodyKeeps

LEMMA BodyEndKeeps == ConnectionInv /\ BodyEnd => ConnectionInv'
<1> SUFFICES ASSUME ConnectionInv, BodyEnd PROVE ConnectionInv'
  OBVIOUS
<1>1. /\ stage \notin {"idle", "headers"} /\ ~ended /\ ended' \in BOOLEAN
      /\ UNCHANGED <<socket, request, stage, clockVars, arrived, pulled, dumped, verified,
                     invited, answerVars, log>>
  BY DEF BodyEnd
<1>2. arrived' \in arrived .. MaxBody /\ arrived' - pulled < Ahead + MaxChunk
  BY <1>1, Typed DEF ConnectionInv, TypeOK, BodyInv
<1> QED BY <1>1, <1>2, BodyKeeps

LEMMA AgeInRange ==
  ASSUME NEW a \in Nat, NEW t \in Nat, NEW l \in Nat, NEW r \in Nat, NEW c \in Nat,
         a + t <= l + c, l <= r
  PROVE  a \in 0 .. r + c
OBVIOUS

\* The timer: the connection is kept with a new interval to go, or a little less of the old.
LEMMA TimerKeeps ==
  ASSUME ConnectionInv, age' \in Nat, tillCheck' \in 0 .. CheckInterval,
         age' + tillCheck' <= Limit + CheckInterval,
         UNCHANGED <<socket, request, stage, bodyVars, verified, invited, answerVars, log>>
  PROVE  ConnectionInv'
<1> USE Typed DEF ConnectionInv
<1>1. age' \in 0 .. RequestTimeout + CheckInterval
  <2>1. Limit \in Nat /\ Limit <= RequestTimeout
    BY TimeoutAssumption DEF Limit
  <2>2. RequestTimeout \in Nat /\ CheckInterval \in Nat /\ tillCheck' \in Nat
    OBVIOUS
  <2> QED BY <2>1, <2>2, AgeInRange
<1>2. TypeOK'
  BY <1>1 DEF TypeOK, bodyVars, answerVars
<1>3. StageInv'
  BY DEF StageInv, HasBody, bodyVars, answerVars
<1>4. BodyInv' /\ InvitedInv'
  BY DEF BodyInv, InvitedInv, bodyVars, answerVars
<1>5. TimerInv'
  BY DEF TimerInv, Limit
<1>6. LogInv'
  BY DEF LogInv, Concluded, NamedInTime, LastStatus, answerVars
<1> QED BY <1>2, <1>3, <1>4, <1>5, <1>6

LEMMA CheckKeeps == ConnectionInv /\ Check => ConnectionInv'
<1> SUFFICES ASSUME ConnectionInv, Check PROVE ConnectionInv'
  OBVIOUS
<1>1. /\ socket = "open" /\ tillCheck' = CheckInterval /\ CheckInterval \in Nat /\ age \in Nat
      /\ Limit \in Nat
      /\ UNCHANGED <<request, stage, age, bodyVars, verified, invited, answerVars, log>>
  BY Typed DEF Check, ConnectionInv, Limit
<1>2. CASE Overdue
  <2>1. socket' = "cut"
    BY <1>2 DEF Check
  <2> QED BY <1>1, <2>1, SocketKeeps
<1>3. CASE ~Overdue
  <2>1. socket' = socket /\ age < Limit
    BY <1>1, <1>3 DEF Check, Overdue, Limit
  <2> QED BY <1>1, <2>1, TimerKeeps
<1> QED BY <1>2, <1>3

LEMMA TickKeeps == ConnectionInv /\ Tick => ConnectionInv'
<1> SUFFICES ASSUME ConnectionInv, Tick PROVE ConnectionInv'
  OBVIOUS
<1>1. /\ tillCheck > 0 /\ age' = age + 1 /\ tillCheck' = tillCheck - 1
      /\ UNCHANGED <<socket, request, stage, bodyVars, verified, invited, answerVars, log>>
      /\ age + tillCheck <= Limit + CheckInterval
  BY DEF Tick, ConnectionInv, TimerInv
<1>2. age \in Nat /\ tillCheck \in 0 .. CheckInterval /\ CheckInterval \in Nat /\ Limit \in Nat
  BY Typed DEF ConnectionInv, TypeOK, Limit
<1>3. age' \in Nat /\ tillCheck' \in 0 .. CheckInterval /\ age' + tillCheck' <= Limit + CheckInterval
  BY <1>1, <1>2
<1> QED BY <1>1, <1>3, TimerKeeps

-----------------------------------------------------------------------------
(* The invariant and what it gives *)

LEMMA InitConnectionInv == Init => ConnectionInv
<1> SUFFICES ASSUME Init PROVE ConnectionInv
  OBVIOUS
<1>1. /\ socket = "open" /\ stage = "idle" /\ request \in Requests /\ tillCheck = 0
      /\ age = 0 /\ ended = FALSE /\ arrived = 0 /\ pulled = 0 /\ dumped = 0
      /\ verified = FALSE /\ invited = FALSE
      /\ status = 0 /\ closing = FALSE /\ written = "none" /\ log = <<>>
  BY DEF Init, Fresh
<1>2. TypeOK
  <2>1. log \in Seq([status : Statuses, named : BOOLEAN])
    BY <1>1, EmptySeq
  <2>2. /\ {ended, verified, invited, closing} \subseteq BOOLEAN
    BY <1>1
  <2>3. 0 \in 0 .. RequestTimeout + CheckInterval /\ 0 \in 0 .. CheckInterval /\ 0 \in 0 .. MaxBody
    BY SizeAssumption
  <2>4. tillCheck \in 0 .. CheckInterval
    BY <1>1, <2>3
  <2> QED BY <1>1, <2>1, <2>2, <2>3, <2>4 DEF TypeOK
<1>3. StageInv
  BY <1>1 DEF StageInv, Unanswered
<1>4. BodyInv /\ InvitedInv
  BY <1>1, SizeAssumption DEF BodyInv, InvitedInv
<1>5. TimerInv
  BY <1>1 DEF TimerInv, Incomplete
<1>6. LogInv
  BY <1>1 DEF LogInv, NamedInTime
<1> QED BY <1>2, <1>3, <1>4, <1>5, <1>6 DEF ConnectionInv

LEMMA NextConnectionInv == ConnectionInv /\ [Next]_vars => ConnectionInv'
<1> SUFFICES ASSUME ConnectionInv, [Next]_vars PROVE ConnectionInv'
  OBVIOUS
<1>1. CASE UNCHANGED vars
  BY <1>1 DEF ConnectionInv, TypeOK, StageInv, Unanswered, BodyInv, InvitedInv, TimerInv, Limit,
              LogInv, Concluded, NamedInTime, LastStatus, Incomplete, HasBody, vars, clockVars, bodyVars, answerVars
<1>2. ASSUME NEW r \in Requests, Begin(r) PROVE ConnectionInv'
  BY <1>2, BeginKeeps
<1>3. ASSUME NEW n \in 1 .. MaxChunk, Arrive(n) PROVE ConnectionInv'
  BY <1>3, ArriveKeeps
<1> QED BY <1>1, <1>2, <1>3, HandlerStepKeeps, FlushKeeps, DestroyKeeps, HeadersEndKeeps,
           BodyEndKeeps, LeaveKeeps, CheckKeeps, TickKeeps DEF Next

\* Every state of a connection satisfies the invariant.
THEOREM SeamConnectionInvariant == Spec => []ConnectionInv
BY InitConnectionInv, NextConnectionInv, PTL DEF Spec

\* What a client can make the seam receive is bounded, and a body is read only of a caller
\* that has been let pass.
THEOREM SeamTransferIsBounded == Spec => []TransferIsBounded
<1>1. ConnectionInv => TransferIsBounded
  <2> SUFFICES ASSUME ConnectionInv PROVE TransferIsBounded
    OBVIOUS
  <2>1. socket = "open" /\ Incomplete =>
          age <= (IF stage = "headers" THEN HeadersTimeout ELSE RequestTimeout) + CheckInterval
    BY Typed DEF ConnectionInv, TimerInv, Limit
  <2> QED BY <2>1 DEF ConnectionInv, BodyInv, InvitedInv, TransferIsBounded
<1> QED BY <1>1, SeamConnectionInvariant, PTL

\* The seam closes a connection only once its status has left, or on a fault that it has
\* logged, with the response cut short or never begun.
THEOREM SeamStatusBeforeClose == Spec => []StatusBeforeClose
<1>1. ConnectionInv => StatusBeforeClose
  <2> SUFFICES ASSUME ConnectionInv, socket = "closed", written # "flushed"
               PROVE  /\ stage = "done" /\ written \in {"none", "head"}
                      /\ log # <<>> /\ LastStatus = 503
    BY DEF StatusBeforeClose
  <2>1. stage = "done" /\ written # "all" /\ Concluded
    BY DEF ConnectionInv, LogInv
  <2>2. written \in {"none", "head"}
    BY <2>1 DEF ConnectionInv, TypeOK
  <2> QED BY <2>1, <2>2 DEF Concluded
<1> QED BY <1>1, SeamConnectionInvariant, PTL

\* Who changes the status of a response that has a head: only the next request.
LEMMA StatusStays ==
  ASSUME ConnectionInv, [Next]_vars, written # "none"
  PROVE  status' = status \/ stage' = "headers"
<1>1. stage \notin Unanswered
  BY DEF ConnectionInv, StageInv
<1>2. CASE HandlerStep
  <2>1. RouteCatch \/ CatchAll
    BY <1>1, <1>2
    DEF HandlerStep, Unanswered, Route, Authenticate, Authorize, Read, Admit, Pull, Decide, Fault
  <2> QED BY <2>1 DEF RouteCatch, CatchAll, answerVars
<1>3. CASE \E r \in Requests : Begin(r)
  BY <1>3 DEF Begin
<1>4. CASE UNCHANGED vars
  BY <1>4 DEF vars, answerVars
<1> QED BY <1>2, <1>3, <1>4
  DEF Next, Flush, Destroy, HeadersEnd, Arrive, BodyEnd, Leave, Check, Tick, answerVars

\* One answer per request, with which its log ends, whichever sends throw.
THEOREM SeamOneAnswerLogged == Spec => OneAnswerLogged
<1>1. ConnectionInv /\ ConnectionInv' /\ [Next]_vars =>
        [/\ written # "none" => status' = status \/ stage' = "headers"
         /\ stage' = "done" => Concluded']_vars
  <2> SUFFICES ASSUME ConnectionInv, ConnectionInv', [Next]_vars
               PROVE  /\ written # "none" => status' = status \/ stage' = "headers"
                      /\ stage' = "done" => Concluded'
    OBVIOUS
  <2>1. stage' = "done" => Concluded'
    BY DEF ConnectionInv, LogInv
  <2> QED BY <2>1, StatusStays
<1> QED BY <1>1, SeamConnectionInvariant, PTL DEF Spec, OneAnswerLogged

=============================================================================
