------------------------- MODULE EvidenceLog_proofs -------------------------
(* The promises of the append-only log, for any calls, keys and bodies. *)
EXTENDS EvidenceLog, TLAPS

(***************************************************************************)
(* The inductive invariant.  OneEnvelopePerKey, WrittenByItsCall and       *)
(* AnswersStayTrue speak of answers; the log itself decides results, so    *)
(* the invariant says the same of results and ties answers to them.        *)
(***************************************************************************)
EnvelopesHold ==
  /\ \A i, j \in DOMAIN envelopes : envelopes[i].by = envelopes[j].by => i = j
  /\ \A i \in DOMAIN envelopes :
       /\ result[envelopes[i].by] = "appended"
       /\ envelopes[i].key = args[envelopes[i].by].key
       /\ envelopes[i].evidence \in {args[envelopes[i].by].body, NoBody}

ResultHolds(c) ==
  /\ result[c] # "none" => Made(c)
  /\ result[c] = "appended" => \E i \in DOMAIN envelopes : envelopes[i].by = c
  /\ result[c] \in {"duplicate", "conflict"} =>
       \E i \in Holders(envelopes, args[c].key) :
         /\ envelopes[i].by # c
         /\ result[c] = "duplicate" => envelopes[i].evidence \in {args[c].body, NoBody}
         /\ result[c] = "conflict" => args[envelopes[i].by].body # args[c].body

AnswersAreResults == \A c \in Calls : answer[c] \in {"none", "fault", result[c]}

LogInv ==
  /\ TypeOK
  /\ OneEnvelopePerKey
  /\ EnvelopesHold
  /\ \A c \in Calls : ResultHolds(c)
  /\ AnswersAreResults

-----------------------------------------------------------------------------
\* The log starts typed.
LEMMA InitTypeOK == Init => TypeOK
  BY DEF Init, TypeOK, NotMade, Key, Payload, Outcome

\* What the type of the log says of one envelope.
LEMMA EnvelopeTyped ==
  ASSUME TypeOK, NEW i \in DOMAIN envelopes
  PROVE  /\ envelopes[i] \in Envelope
         /\ envelopes[i].key \in Key /\ envelopes[i].by \in Calls
         /\ envelopes[i].evidence \in Payload /\ envelopes[i].names \in BOOLEAN
<1>1. envelopes[i] \in Envelope
  BY DEF TypeOK
<1> QED BY <1>1 DEF Envelope

\* Every operation of the port keeps the types.
LEMMA NextTypeOK == TypeOK /\ [Next]_vars => TypeOK'
<1> SUFFICES ASSUME TypeOK, [Next]_vars PROVE TypeOK'
  OBVIOUS
<1> USE DEF TypeOK, Key, Payload, Outcome, Envelope
<1>1. CASE UNCHANGED vars
  BY <1>1 DEF vars
<1>2. ASSUME NEW c \in Calls, NEW k \in Key, NEW b \in Bodies, Invoke(c, k, b)
      PROVE  TypeOK'
  BY <1>2 DEF Invoke
<1>3. ASSUME NEW c \in Calls, AppendNew(c) PROVE TypeOK'
  <2>1. NewEnvelope(c, args[c].key, args[c].body) \in Envelope
    BY DEF NewEnvelope
  <2>2. envelopes' \in Seq(Envelope)
    BY <2>1, <1>3 DEF AppendNew
  <2> QED BY <2>2, <1>3 DEF AppendNew
<1>4. ASSUME NEW c \in Calls, FindHeld(c) PROVE TypeOK'
  BY <1>4 DEF FindHeld
<1>5. ASSUME NEW c \in Calls, Answer(c) PROVE TypeOK'
  BY <1>5 DEF Answer
<1>6. ASSUME NEW c \in Calls, Fault(c) PROVE TypeOK'
  BY <1>6 DEF Fault
<1>7. ASSUME NEW i \in DOMAIN envelopes, Redact(i) PROVE TypeOK'
  <2>1. Tombstone(envelopes[i]) \in Envelope
    BY EnvelopeTyped DEF Tombstone
  <2>2. envelopes' \in Seq(Envelope)
    BY <2>1, <1>7 DEF Redact
  <2> QED BY <2>2, <1>7 DEF Redact
<1> QED BY <1>1, <1>2, <1>3, <1>4, <1>5, <1>6, <1>7 DEF Next

\* The log is well typed in every state: TypeOK, for every value of the constants.
THEOREM LogTyped == Spec => []TypeOK
  BY InitTypeOK, NextTypeOK, PTL DEF Spec

-----------------------------------------------------------------------------
\* The invariant holds of the empty log.
LEMMA InitLogInv == Init => LogInv
<1> SUFFICES ASSUME Init PROVE LogInv
  OBVIOUS
<1>1. TypeOK
  BY InitTypeOK
<1>2. OneEnvelopePerKey /\ EnvelopesHold
  BY DEF Init, OneEnvelopePerKey, EnvelopesHold
<1>3. AnswersAreResults /\ \A c \in Calls : ResultHolds(c)
  BY DEF Init, AnswersAreResults, ResultHolds
<1> QED BY <1>1, <1>2, <1>3 DEF LogInv

\* An append into an unheld key keeps the invariant.
LEMMA AppendNewLogInv ==
  ASSUME LogInv, TypeOK', NEW c \in Calls, AppendNew(c)
  PROVE  LogInv'
<1> USE DEF LogInv
<1> DEFINE e == NewEnvelope(c, args[c].key, args[c].body)
           n == Len(envelopes) + 1
<1>1. e.key = args[c].key /\ e.by = c /\ e.evidence = args[c].body
  BY DEF NewEnvelope
<1>2. /\ DOMAIN envelopes = 1 .. Len(envelopes) /\ Len(envelopes) \in Nat
      /\ DOMAIN envelopes' = 1 .. n
      /\ \A i \in DOMAIN envelopes : envelopes'[i] = envelopes[i]
      /\ envelopes'[n] = e
  BY DEF AppendNew, TypeOK
<1>3. \A i \in DOMAIN envelopes' : i \in DOMAIN envelopes \/ i = n
  BY <1>2
<1>4. \A i \in DOMAIN envelopes : envelopes[i].by \in Calls /\ envelopes[i].by # c
  BY EnvelopeTyped DEF EnvelopesHold, AppendNew
<1>5. /\ args' = args /\ answer' = answer
      /\ result'[c] = "appended" /\ \A d \in Calls : d # c => result'[d] = result[d]
  BY DEF AppendNew, TypeOK
<1>6. OneEnvelopePerKey'
  <2>1. \A i \in DOMAIN envelopes : envelopes[i].key = e.key => e.key = NoKey
    BY <1>1 DEF AppendNew, Holders
  <2> QED BY <2>1, <1>2, <1>3 DEF OneEnvelopePerKey
<1>7. EnvelopesHold'
  BY <1>1, <1>2, <1>3, <1>4, <1>5 DEF EnvelopesHold
<1>8. \A d \in Calls : ResultHolds(d)'
  <2> SUFFICES ASSUME NEW d \in Calls PROVE ResultHolds(d)'
    OBVIOUS
  <2>1. CASE d = c
    BY <2>1, <1>1, <1>2, <1>5 DEF ResultHolds, AppendNew, Made
  <2>2. CASE d # c
    <3>1. Holders(envelopes, args[d].key) \subseteq Holders(envelopes', args[d].key)
      BY <1>2 DEF Holders
    <3> QED BY <2>2, <3>1, <1>2, <1>5 DEF ResultHolds, Made, Holders
  <2> QED BY <2>1, <2>2
<1>9. AnswersAreResults'
  BY <1>5 DEF AnswersAreResults, AppendNew
<1> QED BY <1>6, <1>7, <1>8, <1>9

\* Answering a replay keeps the invariant: what it says of the holder is true when
\* it is decided, and stays true.
LEMMA FindHeldLogInv ==
  ASSUME LogInv, TypeOK', NEW c \in Calls, FindHeld(c)
  PROVE  LogInv'
<1> USE DEF LogInv
<1>1. PICK i \in Holders(envelopes, args[c].key) :
        result' = [result EXCEPT ![c] =
          IF Same(envelopes[i], args[c].body) THEN "duplicate" ELSE "conflict"]
  BY DEF FindHeld
<1>2. i \in DOMAIN envelopes /\ envelopes[i].by \in Calls /\ envelopes[i].by # c
  BY <1>1, EnvelopeTyped DEF Holders, EnvelopesHold, FindHeld
<1>3. envelopes' = envelopes /\ args' = args /\ answer' = answer
  BY DEF FindHeld
<1>4. /\ result'[c] = IF Same(envelopes[i], args[c].body) THEN "duplicate" ELSE "conflict"
      /\ \A d \in Calls : d # c => result'[d] = result[d]
  BY <1>1 DEF TypeOK
<1>5. OneEnvelopePerKey'
  BY <1>3 DEF OneEnvelopePerKey
<1>6. EnvelopesHold'
  <2>1. \A j \in DOMAIN envelopes : envelopes[j].by \in Calls /\ envelopes[j].by # c
    BY EnvelopeTyped DEF EnvelopesHold, FindHeld
  <2> QED BY <2>1, <1>3, <1>4 DEF EnvelopesHold
<1>7. \A d \in Calls : ResultHolds(d)'
  <2> SUFFICES ASSUME NEW d \in Calls PROVE ResultHolds(d)'
    OBVIOUS
  <2>1. CASE d = c
    <3>1. CASE Same(envelopes[i], args[c].body)
      BY <3>1, <2>1, <1>1, <1>2, <1>3, <1>4 DEF Same, ResultHolds, FindHeld, Made
    <3>2. CASE ~Same(envelopes[i], args[c].body)
      <4>1. args[envelopes[i].by].body # args[c].body
        BY <3>2, <1>2 DEF Same, EnvelopesHold
      <4> QED BY <4>1, <3>2, <2>1, <1>1, <1>2, <1>3, <1>4 DEF ResultHolds, FindHeld, Made
    <3> QED BY <3>1, <3>2
  <2>2. CASE d # c
    BY <2>2, <1>3, <1>4 DEF ResultHolds, Made
  <2> QED BY <2>1, <2>2
<1>8. AnswersAreResults'
  <2>1. answer[c] \in {"none", "fault"}
    BY DEF AnswersAreResults, FindHeld
  <2> QED BY <2>1, <1>3, <1>4 DEF AnswersAreResults
<1> QED BY <1>5, <1>6, <1>7, <1>8

\* A redaction keeps the invariant: it empties one payload and nothing else.
LEMMA RedactLogInv ==
  ASSUME LogInv, TypeOK', NEW i \in DOMAIN envelopes, Redact(i)
  PROVE  LogInv'
<1> USE DEF LogInv
<1>1. /\ DOMAIN envelopes' = DOMAIN envelopes
      /\ \A j \in DOMAIN envelopes :
           /\ envelopes'[j].key = envelopes[j].key
           /\ envelopes'[j].by = envelopes[j].by
           /\ envelopes'[j].evidence \in {envelopes[j].evidence, NoBody}
  BY DEF Redact, Tombstone, TypeOK
<1>2. args' = args /\ result' = result /\ answer' = answer
  BY DEF Redact
<1>3. OneEnvelopePerKey'
  BY <1>1 DEF OneEnvelopePerKey
<1>4. EnvelopesHold'
  BY <1>1, <1>2 DEF EnvelopesHold
<1>5. \A d \in Calls : ResultHolds(d)'
  <2> SUFFICES ASSUME NEW d \in Calls PROVE ResultHolds(d)'
    OBVIOUS
  <2>1. Holders(envelopes', args[d].key) = Holders(envelopes, args[d].key)
    BY <1>1 DEF Holders
  <2>2. \A j \in Holders(envelopes, args[d].key) : j \in DOMAIN envelopes
    BY DEF Holders
  <2> QED BY <2>1, <2>2, <1>1, <1>2 DEF ResultHolds, Made
<1>6. AnswersAreResults'
  BY <1>2 DEF AnswersAreResults
<1> QED BY <1>3, <1>4, <1>5, <1>6

\* Every step of the log keeps the invariant.
LEMMA NextLogInv == LogInv /\ [Next]_vars => LogInv'
<1> SUFFICES ASSUME LogInv, [Next]_vars PROVE LogInv'
  OBVIOUS
<1>0. TypeOK'
  BY NextTypeOK DEF LogInv
<1>1. CASE UNCHANGED vars
  BY <1>1, <1>0 DEF vars, LogInv, OneEnvelopePerKey, EnvelopesHold, ResultHolds,
                    AnswersAreResults, Holders, Made
<1>2. ASSUME NEW c \in Calls, NEW k \in Key, NEW b \in Bodies, Invoke(c, k, b)
      PROVE  LogInv'
  <2>1. /\ envelopes' = envelopes /\ result' = result /\ answer' = answer
        /\ \A d \in Calls : d # c => args'[d] = args[d]
    BY <1>2 DEF Invoke, LogInv, TypeOK
  <2>2. result[c] = "none"
    BY <1>2 DEF Invoke, LogInv, ResultHolds
  <2>3. \A i \in DOMAIN envelopes : envelopes[i].by \in Calls /\ envelopes[i].by # c
    BY <2>2, EnvelopeTyped DEF LogInv, EnvelopesHold
  <2>4. OneEnvelopePerKey' /\ EnvelopesHold'
    BY <2>1, <2>3 DEF LogInv, OneEnvelopePerKey, EnvelopesHold
  <2>5. \A d \in Calls : ResultHolds(d)'
    <3> SUFFICES ASSUME NEW d \in Calls PROVE ResultHolds(d)'
      OBVIOUS
    <3>1. CASE d = c
      BY <3>1, <2>1, <2>2 DEF ResultHolds
    <3>2. CASE d # c
      BY <3>2, <2>1, <2>3 DEF LogInv, ResultHolds, Made, Holders
    <3> QED BY <3>1, <3>2
  <2>6. AnswersAreResults'
    BY <2>1 DEF LogInv, AnswersAreResults
  <2> QED BY <1>0, <2>4, <2>5, <2>6 DEF LogInv
<1>3. ASSUME NEW c \in Calls, AppendNew(c) PROVE LogInv'
  BY <1>0, <1>3, AppendNewLogInv
<1>4. ASSUME NEW c \in Calls, FindHeld(c) PROVE LogInv'
  BY <1>0, <1>4, FindHeldLogInv
<1>5. ASSUME NEW c \in Calls, Answer(c) \/ Fault(c) PROVE LogInv'
  <2>1. envelopes' = envelopes /\ result' = result /\ args' = args
    BY <1>5 DEF Answer, Fault
  <2>2. OneEnvelopePerKey' /\ EnvelopesHold' /\ \A d \in Calls : ResultHolds(d)'
    BY <2>1 DEF LogInv, OneEnvelopePerKey, EnvelopesHold, ResultHolds, Made, Holders
  <2>3. AnswersAreResults'
    BY <1>5, <2>1 DEF LogInv, TypeOK, AnswersAreResults, Answer, Fault
  <2> QED BY <1>0, <2>2, <2>3 DEF LogInv
<1>6. ASSUME NEW i \in DOMAIN envelopes, Redact(i) PROVE LogInv'
  BY <1>0, <1>6, RedactLogInv
<1> QED BY <1>1, <1>2, <1>3, <1>4, <1>5, <1>6 DEF Next

\* The inductive invariant holds in every state.
THEOREM LogInvariant == Spec => []LogInv
  BY InitLogInv, NextLogInv, PTL DEF Spec

\* At most one envelope per (workspace, change), whatever races and retries.
THEOREM LogOneEnvelopePerKey == Spec => []OneEnvelopePerKey
<1>1. LogInv => OneEnvelopePerKey
  BY DEF LogInv
<1> QED BY <1>1, LogInvariant, PTL

\* A call writes at most once, what it was made with, and only a call that has not
\* been told otherwise.
THEOREM LogWrittenByItsCall == Spec => []WrittenByItsCall
<1>1. LogInv => WrittenByItsCall
  <2> SUFFICES ASSUME LogInv PROVE WrittenByItsCall
    OBVIOUS
  <2>1. \A i \in DOMAIN envelopes : envelopes[i].by \in Calls
    BY EnvelopeTyped DEF LogInv
  <2> QED BY <2>1 DEF LogInv, EnvelopesHold, AnswersAreResults, WrittenByItsCall
<1> QED BY <1>1, LogInvariant, PTL

\* Every answer the store ever gives stays true of the log.
THEOREM LogAnswersStayTrue == Spec => []AnswersStayTrue
<1>1. LogInv => AnswersStayTrue
  <2> SUFFICES ASSUME LogInv, NEW c \in Calls, answer[c] \notin {"none", "fault"}
               PROVE  answer[c] = result[c]
    BY DEF LogInv, ResultHolds, AnswersStayTrue
  <2> QED BY DEF LogInv, AnswersAreResults
<1> QED BY <1>1, LogInvariant, PTL

\* One step changes no envelope except to redact it, and no call that was made.
LEMMA NextKeeps ==
  ASSUME LogInv, [Next]_vars
  PROVE  /\ \A i \in DOMAIN envelopes :
              /\ i \in DOMAIN envelopes'
              /\ envelopes'[i] \in {envelopes[i], Tombstone(envelopes[i])}
         /\ \A c \in Calls : Made(c) => args'[c] = args[c]
<1>1. ASSUME NEW i \in DOMAIN envelopes
      PROVE  /\ i \in DOMAIN envelopes'
             /\ envelopes'[i] \in {envelopes[i], Tombstone(envelopes[i])}
  <2>1. CASE envelopes' = envelopes
    BY <2>1
  <2>2. ASSUME NEW c \in Calls, AppendNew(c)
        PROVE  i \in DOMAIN envelopes' /\ envelopes'[i] = envelopes[i]
    BY <2>2 DEF AppendNew, LogInv, TypeOK
  <2>3. ASSUME NEW j \in DOMAIN envelopes, Redact(j)
        PROVE  /\ i \in DOMAIN envelopes'
               /\ envelopes'[i] \in {envelopes[i], Tombstone(envelopes[i])}
    BY <2>3 DEF Redact, LogInv, TypeOK
  <2> QED BY <2>1, <2>2, <2>3 DEF Next, vars, Invoke, FindHeld, Answer, Fault
<1>2. ASSUME NEW c \in Calls, Made(c) PROVE args'[c] = args[c]
  BY <1>2 DEF Next, vars, Invoke, AppendNew, FindHeld, Answer, Fault, Redact, LogInv, TypeOK
<1> QED BY <1>1, <1>2

\* The first record stands: no step changes an envelope except to redact it.
THEOREM LogFirstStands == Spec => FirstStands
<1>1. LogInv /\ [Next]_vars =>
        \A i \in DOMAIN envelopes :
          /\ i \in DOMAIN envelopes'
          /\ envelopes'[i] \in {envelopes[i], Tombstone(envelopes[i])}
  BY NextKeeps
<1> QED BY <1>1, LogInvariant, PTL DEF Spec, FirstStands

=============================================================================
