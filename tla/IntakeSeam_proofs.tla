-------------------------- MODULE IntakeSeam_proofs --------------------------
(* What the two routes promise their callers, for any requests, processes,      *)
(* workspaces and policies.  The log under them is EvidenceLog: its lemmas are  *)
(* used here as they are proved there, with the submissions for its calls.      *)
EXTENDS IntakeSeam, TLAPS

Store == INSTANCE EvidenceLog_proofs WITH Calls <- Submissions

(***************************************************************************)
(* The inductive invariant: the log's own, what a request's place says of  *)
(* it, that a submission is told what the store told the handler, and that *)
(* a read's two sets are of what was held when it was listed.              *)
(***************************************************************************)
Made(s) == args[s].body # NoBody

StatusFor(told) ==
  CASE told = "none" -> 0
    [] told = "fault" -> 503
    [] told = "conflict" -> 409
    [] OTHER -> 202

Routed(r) ==
  /\ at[r] \in {"reading", "appending", "listing", "listed"} => caller[r] \in Workspaces
  /\ status[r] # 0 => at[r] = "answered"

Told(s) ==
  /\ Made(s) =>
       /\ at[s] \in {"appending", "answered", "lost"}
       /\ args[s].key = <<caller[s], args[s].body.change>>
       /\ status[s] = StatusFor(answer[s])
  /\ answer[s] # "none" \/ status[s] \in {202, 409} => Made(s)

Counted(g) ==
  /\ \A s \in acked[g] :
       caller[s] = caller[g] =>
         \E i \in DOMAIN envelopes :
           /\ envelopes[i].key = args[s].key
           /\ envelopes[i].by \in counted[g] \/ envelopes[i].evidence = NoBody
  /\ \A s \in counted[g] : Made(s) /\ caller[s] = caller[g]

Summarised(g) ==
  /\ acked[g] \subseteq Acknowledged
  /\ at[g] = "listed" \/ status[g] = 200 => Counted(g)

SeamInv ==
  /\ TypeOK
  /\ Store!LogInv
  /\ \A r \in Requests : Routed(r)
  /\ \A s \in Submissions : Told(s)
  /\ \A g \in Reads : Summarised(g)

-----------------------------------------------------------------------------
(* The seam's steps are the log's *)

\* The handler calls the port as the port may be called, so every step of the seam is a
\* step of the log or leaves it alone.
LEMMA LogStep ==
  ASSUME SeamInv, [Next]_vars
  PROVE  [Store!Next]_(Store!vars)
<1>1. CASE UNCHANGED logVars
  BY <1>1 DEF logVars, Store!vars
<1>2. ASSUME NEW s \in Submissions, NEW b \in Bodies, CallAppend(s, b)
      PROVE  Store!Next
  <2>1. caller[s] \in Workspaces
    BY <1>2 DEF CallAppend, SeamInv, Routed, Requests
  <2>2. <<caller[s], b.change>> \in Store!Key
    BY <2>1 DEF Store!Key, Keys, Bodies
  <2>3. Store!Invoke(s, <<caller[s], b.change>>, b)
    BY <1>2 DEF CallAppend, Log!Invoke, Log!Made, Store!Invoke, Store!Made
  <2> QED BY <2>2, <2>3 DEF Store!Next
<1>3. ASSUME NEW s \in Submissions, Appended(s) \/ StoreFailed(s) PROVE Store!Next
  <2>1. Store!Answer(s) \/ Store!Fault(s)
    BY <1>3 DEF Appended, StoreFailed, Log!Answer, Log!Fault, Log!Made,
                Store!Answer, Store!Fault, Store!Made
  <2> QED BY <2>1 DEF Store!Next
<1>4. ASSUME NEW s \in Submissions, Log!AppendNew(s) \/ Log!FindHeld(s) PROVE Store!Next
  <2>1. Store!AppendNew(s) \/ Store!FindHeld(s)
    BY <1>4 DEF Log!AppendNew, Log!FindHeld, Log!Made, Log!Holders, Log!NewEnvelope, Log!Same,
                Store!AppendNew, Store!FindHeld, Store!Made, Store!Holders,
                Store!NewEnvelope, Store!Same
  <2> QED BY <2>1 DEF Store!Next
<1>5. ASSUME NEW i \in DOMAIN envelopes, Log!Redact(i) PROVE Store!Next
  <2>1. Store!Redact(i)
    BY <1>5 DEF Log!Redact, Log!Tombstone, Store!Redact, Store!Tombstone
  <2> QED BY <2>1 DEF Store!Next
<1> QED
  BY <1>1, <1>2, <1>3, <1>4, <1>5
  DEF Next, HandlerStep, StoreStep, Receive, RefuseUnread, Authorize, RefuseBody, RefuseRecord,
      List, Summarise, ReadFailed, Crash, Start, vars

\* So the log under the seam keeps its promises.
LEMMA LogKept ==
  ASSUME SeamInv, [Next]_vars
  PROVE  /\ Store!LogInv'
         /\ \A i \in DOMAIN envelopes :
              /\ i \in DOMAIN envelopes'
              /\ envelopes'[i].key = envelopes[i].key
              /\ envelopes'[i].by = envelopes[i].by
              /\ envelopes'[i].evidence \in {envelopes[i].evidence, NoBody}
         /\ \A s \in Submissions : Made(s) => args'[s] = args[s]
<1>1. Store!LogInv /\ [Store!Next]_(Store!vars)
  BY LogStep DEF SeamInv
<1>2. Store!LogInv'
  BY <1>1, SeamAssumption, Store!NextLogInv
<1>3. /\ \A i \in DOMAIN envelopes :
           /\ i \in DOMAIN envelopes'
           /\ envelopes'[i] \in {envelopes[i], Store!Tombstone(envelopes[i])}
      /\ \A s \in Submissions : Store!Made(s) => args'[s] = args[s]
  BY <1>1, SeamAssumption, Store!NextKeeps
<1> QED BY <1>2, <1>3 DEF Store!Tombstone, Store!Made, Made

\* What the log's invariant says of one envelope.
LEMMA EnvelopeIs ==
  ASSUME Store!LogInv, NEW i \in DOMAIN envelopes
  PROVE  /\ envelopes[i].by \in Submissions
         /\ Made(envelopes[i].by)
         /\ envelopes[i].key = args[envelopes[i].by].key
         /\ envelopes[i].evidence \in {args[envelopes[i].by].body, NoBody}
         /\ answer[envelopes[i].by] \in {"none", "fault", "appended"}
<1>1. envelopes[i].by \in Submissions
  BY SeamAssumption, Store!EnvelopeTyped DEF Store!LogInv
<1> QED
  BY <1>1 DEF Store!LogInv, Store!EnvelopesHold, Store!ResultHolds, Store!AnswersAreResults,
              Store!Made, Made

\* What the log's invariant says of one answer.
LEMMA AnswerIs ==
  ASSUME Store!LogInv, NEW s \in Submissions
  PROVE  /\ answer[s] \in {"none", "fault", "appended", "duplicate", "conflict"}
         /\ answer[s] \in {"appended", "duplicate"} =>
              \E i \in DOMAIN envelopes :
                /\ envelopes[i].key = args[s].key
                /\ envelopes[i].evidence \in {args[s].body, NoBody}
         /\ answer[s] = "conflict" =>
              \E i \in DOMAIN envelopes :
                /\ envelopes[i].key = args[s].key
                /\ args[envelopes[i].by].body # args[s].body
<1>1. answer[s] \in {"none", "fault", "appended", "duplicate", "conflict"}
  BY DEF Store!LogInv, Store!TypeOK, Store!Outcome
<1>2. answer[s] \notin {"none", "fault"} => answer[s] = result[s]
  BY DEF Store!LogInv, Store!AnswersAreResults
<1>3. Store!ResultHolds(s) /\ Store!EnvelopesHold
  BY DEF Store!LogInv
<1> QED BY <1>1, <1>2, <1>3 DEF Store!ResultHolds, Store!EnvelopesHold, Store!Holders

-----------------------------------------------------------------------------
(* The invariant *)

\* What a step does to the requests, up to what it does to the log: it answers one, moves
\* one along, or is the store's.
LEMMA StepIs ==
  ASSUME [Next]_vars
  PROVE  \/ UNCHANGED <<policy, requestVars, readVars>>
         \/ \E r \in Requests, code \in {200, 202, 400, 401, 403, 409, 413, 422, 429, 503} :
              /\ at[r] \in Serving /\ (code = 200 => at[r] = "listed")
              /\ Send(r, code) /\ UNCHANGED <<policy, readVars>>
         \/ \E r \in Requests : Receive(r) \/ \E w \in Workspaces : Authorize(r, w)
         \/ \E s \in Submissions, b \in Bodies : CallAppend(s, b)
         \/ \E g \in Reads : List(g)
         \/ \E p \in Processes : Crash(p) \/ \E loaded \in Policies : Start(p, loaded)
<1>1. ASSUME NEW r \in Requests, HandlerStep(r)
      PROVE  \E code \in {200, 202, 400, 401, 403, 409, 413, 422, 429, 503} :
               /\ at[r] \in Serving /\ (code = 200 => at[r] = "listed")
               /\ Send(r, code) /\ UNCHANGED <<policy, readVars>>
  BY <1>1 DEF HandlerStep, RefuseUnread, RefuseBody, Appended, StoreFailed, Summarise,
              ReadFailed, Serving, Places
<1>2. ASSUME NEW s \in Submissions, NEW b \in Bodies, RefuseRecord(s, b)
      PROVE  /\ s \in Requests /\ at[s] \in Serving
             /\ Send(s, 422) /\ UNCHANGED <<policy, readVars>>
  BY <1>2 DEF RefuseRecord, Requests, Serving, Places
<1>3. CASE UNCHANGED vars
  BY <1>3 DEF vars
<1>4. CASE StoreStep
  BY <1>4 DEF StoreStep
<1> QED BY <1>1, <1>2, <1>3, <1>4 DEF Next

\* The seam starts typed.
LEMMA InitTypeOK == Init => TypeOK
<1> SUFFICES ASSUME Init PROVE TypeOK
  OBVIOUS
<1>1. Log!TypeOK
  BY DEF Init, Log!Init, Log!TypeOK, Log!NotMade, Log!Key, Log!Payload, Log!Outcome
<1> QED BY <1>1 DEF Init, TypeOK, Places

\* Every step of the seam keeps the types, the log's by its own lemma.
LEMMA NextTypeOK == ASSUME SeamInv, [Next]_vars PROVE TypeOK'
<1> USE DEF TypeOK
<1>1. TypeOK
  BY DEF SeamInv
<1>2. Log!TypeOK'
  <2>1. Store!TypeOK'
    BY LogKept DEF Store!LogInv
  <2> QED
    BY <2>1 DEF Log!TypeOK, Log!Envelope, Log!Key, Log!Payload, Log!Outcome,
                Store!TypeOK, Store!Envelope, Store!Key, Store!Payload, Store!Outcome
<1>3. CASE UNCHANGED <<policy, requestVars, readVars>>
  BY <1>1, <1>2, <1>3 DEF requestVars, readVars
<1>4. ASSUME NEW r \in Requests,
             NEW code \in {200, 202, 400, 401, 403, 409, 413, 422, 429, 503},
             Send(r, code), UNCHANGED <<policy, readVars>>
      PROVE  TypeOK'
  BY <1>1, <1>2, <1>4 DEF Send, readVars, Places
<1>5. ASSUME NEW r \in Requests, Receive(r) PROVE TypeOK'
  BY <1>1, <1>2, <1>5 DEF Receive, Goto, Acknowledged, Places
<1>6. ASSUME NEW r \in Requests, NEW w \in Workspaces, Authorize(r, w) PROVE TypeOK'
  BY <1>1, <1>2, <1>6 DEF Authorize, readVars, Places
<1>7. ASSUME NEW s \in Submissions, NEW b \in Bodies, CallAppend(s, b) PROVE TypeOK'
  BY <1>1, <1>2, <1>7 DEF CallAppend, Goto, readVars, Places, Requests
<1>8. ASSUME NEW g \in Reads, List(g) PROVE TypeOK'
  <2>1. \A i \in DOMAIN envelopes : envelopes[i].by \in Submissions
    BY EnvelopeIs DEF SeamInv
  <2> QED BY <1>1, <1>2, <1>8, <2>1 DEF List, Goto, Places, Requests
<1>9. ASSUME NEW p \in Processes, Crash(p) \/ \E loaded \in Policies : Start(p, loaded)
      PROVE  TypeOK'
  BY <1>1, <1>2, <1>9 DEF Crash, Start, requestVars, readVars, Places
<1> QED BY <1>3, <1>4, <1>5, <1>6, <1>7, <1>8, <1>9, StepIs

\* Nothing has been asked of a seam that starts.
LEMMA InitSeamInv == Init => SeamInv
<1> SUFFICES ASSUME Init PROVE SeamInv
  OBVIOUS
<1>1. TypeOK
  BY InitTypeOK
<1>2. Store!LogInv
  <2>1. Store!Init
    BY DEF Init, Log!Init, Log!NotMade, Store!Init, Store!NotMade
  <2> QED BY <2>1, SeamAssumption, Store!InitLogInv
<1>3. \A r \in Requests : Routed(r)
  BY DEF Init, Routed
<1>4. \A s \in Submissions : Told(s)
  BY DEF Init, Log!Init, Log!NotMade, Told, Made, Requests
<1>5. \A g \in Reads : Summarised(g)
  BY DEF Init, Summarised, Requests
<1> QED BY <1>1, <1>2, <1>3, <1>4, <1>5 DEF SeamInv

\* A response comes last: whoever has one has finished, and whoever is beyond the
\* authentication has a workspace.
LEMMA RoutedStep ==
  ASSUME SeamInv, [Next]_vars, NEW r \in Requests
  PROVE  Routed(r)'
<1> USE DEF Routed
<1>1. TypeOK /\ Routed(r)
  BY DEF SeamInv
<1>2. CASE UNCHANGED <<policy, requestVars, readVars>>
  BY <1>1, <1>2 DEF requestVars
<1>3. ASSUME NEW q \in Requests,
             NEW code \in {200, 202, 400, 401, 403, 409, 413, 422, 429, 503}, Send(q, code)
      PROVE  Routed(r)'
  BY <1>1, <1>3 DEF Send, TypeOK
<1>4. ASSUME NEW q \in Requests, Receive(q) PROVE Routed(r)'
  BY <1>1, <1>4 DEF Receive, Goto, TypeOK
<1>5. ASSUME NEW q \in Requests, NEW w \in Workspaces, Authorize(q, w) PROVE Routed(r)'
  BY <1>1, <1>5 DEF Authorize, TypeOK
<1>6. ASSUME NEW s \in Submissions, NEW b \in Bodies, CallAppend(s, b) PROVE Routed(r)'
  BY <1>1, <1>6 DEF CallAppend, Goto, TypeOK, Requests
<1>7. ASSUME NEW g \in Reads, List(g) PROVE Routed(r)'
  BY <1>1, <1>7 DEF List, Goto, TypeOK, Requests
<1>8. ASSUME NEW p \in Processes, Crash(p) \/ \E loaded \in Policies : Start(p, loaded)
      PROVE  Routed(r)'
  BY <1>1, <1>8 DEF Crash, Start, requestVars, TypeOK, Serving
<1> QED BY <1>2, <1>3, <1>4, <1>5, <1>6, <1>7, <1>8, StepIs

\* The status a submission is sent says what the store told its handler: no path answers
\* for the store, and none tells a caller what another submission was told.
LEMMA ToldStep ==
  ASSUME SeamInv, [Next]_vars, NEW s \in Submissions
  PROVE  Told(s)'
<1>1. TypeOK /\ Told(s) /\ s \in Requests /\ s \notin Reads
  BY SeamAssumption DEF SeamInv, Requests
<1>2. /\ args \in [Submissions -> [key : Keys \cup {NoKey}, body : Bodies \cup {NoBody}]]
      /\ answer \in [Submissions ->
                       {"appended", "duplicate", "conflict", "none", "fault"}]
  BY <1>1 DEF TypeOK, Log!TypeOK, Log!Key, Log!Payload, Log!Outcome
<1>3. CASE UNCHANGED <<args, answer, requestVars>>
  BY <1>1, <1>3 DEF Told, Made, requestVars
<1>4. ASSUME NEW r \in Requests,
             at[r] \in {"authenticating", "reading"} \/ r \in Reads,
             NEW code \in {200, 400, 401, 403, 413, 422, 429, 503}, Send(r, code),
             UNCHANGED logVars
      PROVE  Told(s)'
  <2>1. CASE r = s
    BY <1>1, <1>4, <2>1 DEF Told, Made, Send, logVars, TypeOK
  <2>2. CASE r # s
    BY <1>1, <1>4, <2>2 DEF Told, Made, Send, logVars, TypeOK
  <2> QED BY <2>1, <2>2
<1>5. ASSUME NEW r \in Requests, Receive(r) PROVE Told(s)'
  BY <1>1, <1>5 DEF Receive, Goto, Told, Made, logVars, TypeOK
<1>6. ASSUME NEW r \in Requests, NEW w \in Workspaces, Authorize(r, w) PROVE Told(s)'
  BY <1>1, <1>6 DEF Authorize, Told, Made, logVars, TypeOK
<1>7. ASSUME NEW t \in Submissions, NEW b \in Bodies, CallAppend(t, b) PROVE Told(s)'
  <2>1. /\ ~Made(t) /\ at[t] = "reading" /\ at' = [at EXCEPT ![t] = "appending"]
        /\ args' = [args EXCEPT ![t] = [key |-> <<caller[t], b.change>>, body |-> b]]
        /\ UNCHANGED <<answer, via, caller, status>>
    BY <1>7 DEF CallAppend, Log!Invoke, Log!Made, Made, Goto
  <2>2. CASE s = t
    <3>1. /\ args'[s] = [key |-> <<caller[t], b.change>>, body |-> b]
          /\ at'[s] = "appending"
      BY <1>1, <1>2, <2>1, <2>2 DEF TypeOK
    <3>2. b # NoBody
      BY SeamAssumption
    <3>3. status[s] = 0 /\ answer[s] = "none"
      BY <1>1, <2>1, <2>2 DEF Told, SeamInv, Routed
    <3> QED BY <2>1, <2>2, <3>1, <3>2, <3>3 DEF Told, Made, StatusFor
  <2>3. CASE s # t
    BY <1>1, <1>2, <2>1, <2>3 DEF Told, Made, TypeOK
  <2> QED BY <2>2, <2>3
<1>8. ASSUME NEW t \in Submissions, Appended(t) PROVE Told(s)'
  <2>1. /\ Send(t, IF result[t] = "conflict" THEN 409 ELSE 202)
        /\ answer' = [answer EXCEPT ![t] = result[t]] /\ args' = args
        /\ result[t] # "none"
    BY <1>8 DEF Appended, Log!Answer
  <2>2. CASE s = t
    <3>1. Made(s) /\ result[s] \in {"appended", "duplicate", "conflict"}
      BY <2>1, <2>2 DEF SeamInv, Store!LogInv, Store!ResultHolds, Store!Made, Made,
                        Store!TypeOK, Store!Outcome
    <3>2. /\ answer'[s] = result[s] /\ at'[s] = "answered" /\ caller'[s] = caller[s]
          /\ status'[s] = IF result[s] = "conflict" THEN 409 ELSE 202
      BY <1>1, <1>2, <2>1, <2>2 DEF Send, TypeOK
    <3> QED BY <1>1, <2>1, <3>1, <3>2 DEF Told, Made, StatusFor
  <2>3. CASE s # t
    BY <1>1, <1>2, <2>1, <2>3 DEF Told, Made, Send, TypeOK
  <2> QED BY <2>2, <2>3
<1>9. ASSUME NEW t \in Submissions, StoreFailed(t) PROVE Told(s)'
  <2>1. /\ Send(t, 503) /\ Made(t)
        /\ answer' = [answer EXCEPT ![t] = "fault"] /\ args' = args
    BY <1>9 DEF StoreFailed, Log!Fault, Log!Made, Made
  <2>2. CASE s = t
    <3>1. /\ answer'[s] = "fault" /\ at'[s] = "answered" /\ caller'[s] = caller[s]
          /\ status'[s] = 503
      BY <1>1, <1>2, <2>1, <2>2 DEF Send, TypeOK
    <3> QED BY <1>1, <2>1, <2>2, <3>1 DEF Told, Made, StatusFor
  <2>3. CASE s # t
    BY <1>1, <1>2, <2>1, <2>3 DEF Told, Made, Send, TypeOK
  <2> QED BY <2>2, <2>3
<1>10. ASSUME NEW g \in Reads, List(g) PROVE Told(s)'
  BY <1>1, <1>10 DEF List, Goto, Told, Made, logVars, TypeOK, Requests
<1>11. ASSUME NEW p \in Processes, Crash(p) PROVE Told(s)'
  BY <1>1, <1>11 DEF Crash, Told, Made, logVars, TypeOK, Serving
<1>12. ASSUME StoreStep \/ UNCHANGED vars \/ \E p \in Processes, w \in Policies : Start(p, w)
       PROVE  UNCHANGED <<args, answer, requestVars>>
  BY <1>12 DEF StoreStep, Start, vars, logVars, Log!AppendNew, Log!FindHeld, Log!Redact
<1>13. ASSUME NEW r \in Requests, HandlerStep(r) PROVE Told(s)'
  <2>1. ASSUME RefuseUnread(r) PROVE Told(s)'
    BY <2>1, <1>4 DEF RefuseUnread
  <2>2. ASSUME RefuseBody(r) PROVE Told(s)'
    BY <2>2, <1>4 DEF RefuseBody
  <2>3. ASSUME r \in Reads, Summarise(r) \/ ReadFailed(r) PROVE Told(s)'
    BY <2>3, <1>4 DEF Summarise, ReadFailed
  <2> QED BY <1>13, <2>1, <2>2, <2>3, <1>8, <1>9 DEF HandlerStep
<1>14. ASSUME NEW t \in Submissions, NEW b \in Bodies, RefuseRecord(t, b) PROVE Told(s)'
  BY <1>14, <1>4 DEF RefuseRecord, Requests
<1> QED
  BY <1>3, <1>5, <1>6, <1>7, <1>10, <1>11, <1>12, <1>13, <1>14 DEF Next

\* A 202 is kept by an envelope of the caller's workspace that carries the record, or its
\* tombstone.
LEMMA AcceptedHeld ==
  ASSUME SeamInv, NEW s \in Submissions, status[s] = 202
  PROVE  /\ Made(s) /\ args[s].key = <<caller[s], args[s].body.change>>
         /\ \E i \in DOMAIN envelopes :
              /\ envelopes[i].key = args[s].key
              /\ envelopes[i].evidence \in {args[s].body, NoBody}
<1>1. Told(s) /\ Made(s)
  BY DEF SeamInv, Told
<1>2. answer[s] \in {"appended", "duplicate"}
  BY <1>1, AnswerIs DEF SeamInv, Told, StatusFor
<1> QED BY <1>1, <1>2, AnswerIs DEF SeamInv, Told

\* What a list counted stays counted: whatever is stored or redacted later, and whoever is
\* told what.
LEMMA CountedStep ==
  ASSUME SeamInv, [Next]_vars, NEW g \in Reads, Counted(g), acked[g] \subseteq Acknowledged,
         acked'[g] = acked[g], counted'[g] = counted[g],
         \A r \in Requests : at[r] # "authenticating" => caller'[r] = caller[r],
         at[g] # "authenticating"
  PROVE  Counted(g)'
<1>1. \A s \in Submissions : s \in Requests /\ g \in Requests
  BY DEF Requests
<1>2. \A s \in Submissions : Made(s) =>
        /\ args'[s] = args[s] /\ caller'[s] = caller[s]
        /\ Made(s)'
  BY <1>1, LogKept DEF SeamInv, Told, Made
<1>3. caller'[g] = caller[g] /\ counted[g] \subseteq Submissions
  BY <1>1 DEF SeamInv, TypeOK, Requests
<1>4. ASSUME NEW s \in acked[g], caller'[s] = caller'[g]
      PROVE  \E i \in DOMAIN envelopes' :
               /\ envelopes'[i].key = args'[s].key
               /\ envelopes'[i].by \in counted[g] \/ envelopes'[i].evidence = NoBody
  <2>1. s \in Submissions /\ Made(s)
    BY AcceptedHeld DEF Acknowledged
  <2>2. PICK i \in DOMAIN envelopes :
          /\ envelopes[i].key = args[s].key
          /\ envelopes[i].by \in counted[g] \/ envelopes[i].evidence = NoBody
    BY <1>2, <1>3, <1>4, <2>1 DEF Counted
  <2> QED BY <2>1, <2>2, <1>2, LogKept
<1>5. \A s \in counted[g] : Made(s)' /\ caller'[s] = caller'[g]
  BY <1>2, <1>3 DEF Counted
<1> QED BY <1>4, <1>5 DEF Counted

\* One list sees every submission of its workspace answered 202 before the read came.
LEMMA ListCounts ==
  ASSUME SeamInv, NEW g \in Reads, List(g), acked[g] \subseteq Acknowledged
  PROVE  Counted(g)'
<1>1. /\ UNCHANGED <<envelopes, args, caller, acked>>
      /\ counted'[g] = {envelopes[i].by : i \in {j \in DOMAIN envelopes :
           envelopes[j].key[1] = caller[g] /\ envelopes[j].evidence # NoBody}}
  BY DEF List, Goto, logVars, SeamInv, TypeOK
<1>2. ASSUME NEW i \in DOMAIN envelopes
      PROVE  Made(envelopes[i].by) /\ envelopes[i].key[1] = caller[envelopes[i].by]
  BY EnvelopeIs DEF SeamInv, Told
<1>3. ASSUME NEW s \in acked[g], caller[s] = caller[g]
      PROVE  \E i \in DOMAIN envelopes :
               /\ envelopes[i].key = args[s].key
               /\ envelopes[i].by \in counted'[g] \/ envelopes[i].evidence = NoBody
  <2>1. PICK i \in DOMAIN envelopes :
          envelopes[i].key = <<caller[s], args[s].body.change>> /\ envelopes[i].key = args[s].key
    BY AcceptedHeld DEF Acknowledged
  <2>2. envelopes[i].key[1] = caller[g]
    BY <2>1, <1>3
  <2> QED BY <1>1, <2>1, <2>2
<1>4. \A s \in counted'[g] : Made(s) /\ caller[s] = caller[g]
  BY <1>1, <1>2
<1> QED BY <1>1, <1>3, <1>4 DEF Counted, Made

\* A caller is settled once it is known, and a response is final.
LEMMA RequestKept ==
  ASSUME SeamInv, [Next]_vars, NEW r \in Requests
  PROVE  /\ at[r] # "authenticating" => caller'[r] = caller[r]
         /\ status[r] # 0 => status'[r] = status[r]
<1>1. TypeOK /\ Routed(r)
  BY DEF SeamInv
<1>2. ASSUME NEW q \in Requests,
             NEW code \in {200, 202, 400, 401, 403, 409, 413, 422, 429, 503},
             at[q] \in Serving, Send(q, code)
      PROVE  caller'[r] = caller[r] /\ (status[r] # 0 => status'[r] = status[r])
  BY <1>1, <1>2 DEF Send, Serving, Routed, TypeOK
<1>3. ASSUME NEW q \in Requests, NEW w \in Workspaces, Authorize(q, w)
      PROVE  /\ at[r] # "authenticating" => caller'[r] = caller[r]
             /\ status' = status
  BY <1>1, <1>3 DEF Authorize, TypeOK
<1>4. ASSUME \/ UNCHANGED <<policy, requestVars, readVars>>
             \/ \E q \in Requests : Receive(q)
             \/ \E s \in Submissions, b \in Bodies : CallAppend(s, b)
             \/ \E g \in Reads : List(g)
             \/ \E p \in Processes : Crash(p) \/ \E loaded \in Policies : Start(p, loaded)
      PROVE  UNCHANGED <<caller, status>>
  BY <1>4 DEF requestVars, Receive, CallAppend, List, Goto, Crash, Start
<1> QED BY <1>2, <1>3, <1>4, StepIs

\* A read's two sets are of what was held when it was listed, and a summary is of a read
\* that was.
LEMMA SummarisedStep ==
  ASSUME SeamInv, [Next]_vars, NEW g \in Reads
  PROVE  Summarised(g)'
<1>1. TypeOK /\ Summarised(g) /\ g \in Requests /\ Routed(g)
  BY DEF SeamInv, Requests
<1>2. Acknowledged \subseteq Acknowledged'
  BY RequestKept DEF Acknowledged, Requests
<1>3. \A r \in Requests : at[r] # "authenticating" => caller'[r] = caller[r]
  BY RequestKept
<1>4. ASSUME acked'[g] = acked[g], counted'[g] = counted[g],
             (at[g] = "listed" \/ status[g] = 200)' => at[g] = "listed" \/ status[g] = 200
      PROVE  Summarised(g)'
  <2>1. CASE at[g] = "listed" \/ status[g] = 200
    <3>1. at[g] # "authenticating"
      BY <1>1, <2>1 DEF Routed
    <3>2. Counted(g)'
      BY <1>1, <1>3, <1>4, <2>1, <3>1, CountedStep DEF Summarised
    <3> QED BY <1>1, <1>2, <1>4, <3>2 DEF Summarised
  <2>2. CASE ~(at[g] = "listed" \/ status[g] = 200)
    BY <1>1, <1>2, <1>4, <2>2 DEF Summarised
  <2> QED BY <2>1, <2>2
<1>5. CASE UNCHANGED <<policy, requestVars, readVars>>
  BY <1>4, <1>5 DEF requestVars, readVars
<1>6. ASSUME NEW r \in Requests,
             NEW code \in {200, 202, 400, 401, 403, 409, 413, 422, 429, 503},
             code = 200 => at[r] = "listed", Send(r, code), UNCHANGED readVars
      PROVE  Summarised(g)'
  BY <1>1, <1>4, <1>6 DEF Send, TypeOK, readVars
<1>7. ASSUME NEW r \in Requests, Receive(r) PROVE Summarised(g)'
  <2>1. CASE r = g
    <3>1. acked'[g] = Acknowledged /\ at'[g] = "authenticating" /\ status'[g] = 0
      BY <1>1, <1>7, <2>1 DEF Receive, Goto, TypeOK, Routed
    <3> QED BY <1>2, <3>1 DEF Summarised
  <2>2. CASE r # g
    BY <1>1, <1>4, <1>7, <2>2 DEF Receive, Goto, TypeOK
  <2> QED BY <2>1, <2>2
<1>8. ASSUME NEW r \in Requests, NEW w \in Workspaces, Authorize(r, w) PROVE Summarised(g)'
  BY <1>1, <1>4, <1>8 DEF Authorize, TypeOK, readVars
<1>9. ASSUME NEW s \in Submissions, NEW b \in Bodies, CallAppend(s, b) PROVE Summarised(g)'
  BY <1>1, <1>4, <1>9 DEF CallAppend, Goto, TypeOK, readVars
<1>10. ASSUME NEW h \in Reads, List(h) PROVE Summarised(g)'
  <2>1. CASE h = g
    <3>1. acked'[g] = acked[g] /\ Counted(g)'
      BY <1>1, <1>10, <2>1, ListCounts DEF List, Summarised
    <3> QED BY <1>1, <1>2, <3>1 DEF Summarised
  <2>2. CASE h # g
    BY <1>1, <1>4, <1>10, <2>2 DEF List, Goto, TypeOK, Requests
  <2> QED BY <2>1, <2>2
<1>11. ASSUME NEW p \in Processes, Crash(p) \/ \E loaded \in Policies : Start(p, loaded)
       PROVE  Summarised(g)'
  BY <1>1, <1>4, <1>11 DEF Crash, Start, requestVars, readVars, TypeOK
<1> QED BY <1>5, <1>6, <1>7, <1>8, <1>9, <1>10, <1>11, StepIs

\* Every step of the seam keeps the invariant.
LEMMA NextSeamInv == SeamInv /\ [Next]_vars => SeamInv'
<1> SUFFICES ASSUME SeamInv, [Next]_vars PROVE SeamInv'
  OBVIOUS
<1>1. TypeOK' /\ Store!LogInv'
  BY NextTypeOK, LogKept
<1>2. \A r \in Requests : Routed(r)'
  BY RoutedStep
<1>3. \A s \in Submissions : Told(s)'
  BY ToldStep
<1>4. \A g \in Reads : Summarised(g)'
  BY SummarisedStep
<1> QED BY <1>1, <1>2, <1>3, <1>4 DEF SeamInv

-----------------------------------------------------------------------------
\* The inductive invariant holds in every state, and with it the types.
THEOREM SeamInvariant == Spec => []SeamInv
  BY InitSeamInv, NextSeamInv, PTL DEF Spec

\* The seam uses the evidence port as its contract says: with its handlers, its reads and its
\* crashes hidden, it is the append-only log.
THEOREM SeamUsesTheLog == Spec => Store!Spec
<1>1. Init => Store!Init
  BY DEF Init, Log!Init, Log!NotMade, Store!Init, Store!NotMade
<1>2. SeamInv /\ [Next]_vars => [Store!Next]_(Store!vars)
  BY LogStep
<1> QED BY <1>1, <1>2, SeamInvariant, PTL DEF Spec, Store!Spec

\* Refused means refused: no late statement, retry or restart ever puts a refused
\* submission's record into the log.
THEOREM SeamRefusedLeavesNothing == Spec => []RefusedLeavesNothing
<1>1. SeamInv => RefusedLeavesNothing
  <2> SUFFICES ASSUME SeamInv, NEW i \in DOMAIN envelopes
               PROVE  status[envelopes[i].by] \in {0, 202, 503}
    BY DEF RefusedLeavesNothing
  <2> QED BY EnvelopeIs DEF SeamInv, Told, StatusFor
<1> QED BY <1>1, SeamInvariant, PTL

\* Accepted means held: the record of a 202 is in the caller's workspace from then on, or
\* its tombstone is.
THEOREM SeamAcceptedIsHeld == Spec => []AcceptedIsHeld
<1>1. SeamInv => AcceptedIsHeld
  BY AcceptedHeld DEF AcceptedIsHeld, Acknowledged
<1> QED BY <1>1, SeamInvariant, PTL

\* A retry with the same record is never told that it conflicts.
THEOREM SeamRetryIsSafe == Spec => []RetryIsSafe
<1>1. SeamInv => RetryIsSafe
  <2> SUFFICES ASSUME SeamInv, NEW s \in Submissions, status[s] = 409
               PROVE  \E t \in Submissions :
                        /\ caller[t] = caller[s] /\ args[t].body # NoBody
                        /\ args[t].body.change = args[s].body.change
                        /\ args[t].body # args[s].body
    BY DEF RetryIsSafe
  <2>1. Made(s) /\ answer[s] = "conflict" /\ args[s].key = <<caller[s], args[s].body.change>>
    BY AnswerIs DEF SeamInv, Told, StatusFor
  <2>2. PICK i \in DOMAIN envelopes :
          envelopes[i].key = args[s].key /\ args[envelopes[i].by].body # args[s].body
    BY <2>1, AnswerIs DEF SeamInv
  <2> DEFINE t == envelopes[i].by
  <2>3. t \in Submissions /\ Made(t) /\ args[t].key = <<caller[t], args[t].body.change>>
    BY EnvelopeIs DEF SeamInv, Told
  <2>4. args[t].key = args[s].key
    BY <2>2, EnvelopeIs DEF SeamInv
  <2> QED BY <2>1, <2>2, <2>3, <2>4 DEF Made
<1> QED BY <1>1, SeamInvariant, PTL

\* A summary misses nothing its workspace was told is accepted before the read came, except
\* what has been redacted, and counts no other workspace's.
THEOREM SeamIndicatorsAreCurrent == Spec => []IndicatorsAreCurrent
<1>1. SeamInv => IndicatorsAreCurrent
  BY DEF SeamInv, Summarised, Counted, IndicatorsAreCurrent
<1> QED BY <1>1, SeamInvariant, PTL

=============================================================================
