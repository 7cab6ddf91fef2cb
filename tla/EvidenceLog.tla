---------------------------- MODULE EvidenceLog ----------------------------
(***************************************************************************)
(* The append-only evidence port: what a caller of `append` may rely on    *)
(* whichever adapter is behind it.  The in-memory adapter of               *)
(* packages/evidence-store/src/evidence-store.mjs is this specification    *)
(* with Invoke, Append and Answer run in one synchronous call; the         *)
(* PostgreSQL adapter (module PostgresStore) spreads them over statements, *)
(* timeouts and crashes and is shown to implement it.                      *)
(*                                                                         *)
(* A call is one use of `append`: a retry is another call.  An envelope    *)
(* names the call that wrote it, which stands for everything the control   *)
(* plane put in it besides the payload: policy_id, received_at and the     *)
(* seven identifiers of submitted_by.                                      *)
(***************************************************************************)
EXTENDS Naturals, Sequences

CONSTANTS
  Calls,     \* the uses of append
  Keys,      \* the idempotency keys: a workspace and a change of it
  NoKey,     \* the key of an append without a workspace: claims no uniqueness
  Bodies,    \* the evidence records, up to the order of their members
  NoBody     \* the payload of a redacted envelope

ASSUME NullAssumption == NoKey \notin Keys /\ NoBody \notin Bodies

VARIABLES
  envelopes,   \* the log, in the order its envelopes were appended
  args,        \* the key and body each call was made with
  result,      \* what the log did with the call
  answer       \* what the caller was told

vars == <<envelopes, args, result, answer>>

Key == Keys \cup {NoKey}
Payload == Bodies \cup {NoBody}
Outcome == {"appended", "duplicate", "conflict"}

\* `names` are the four members of submitted_by that a redaction nulls.
Envelope == [key : Key, by : Calls, evidence : Payload, names : BOOLEAN]

NotMade == [key |-> NoKey, body |-> NoBody]

(***************************************************************************)
(* Shared by both adapters and by the theorems.                            *)
(***************************************************************************)
Made(c) == args[c].body # NoBody

Holders(log, k) == {i \in DOMAIN log : log[i].key = k /\ k # NoKey}

\* Mutant: equality on the key alone.
SameKeyOnly(e, b) == TRUE

Same(e, b) == e.evidence = NoBody \/ e.evidence = b

NewEnvelope(c, k, b) == [key |-> k, by |-> c, evidence |-> b, names |-> TRUE]

Tombstone(e) == [key |-> e.key, by |-> e.by, evidence |-> NoBody, names |-> FALSE]

TypeOK ==
  /\ envelopes \in Seq(Envelope)
  /\ args \in [Calls -> [key : Key, body : Payload]]
  /\ result \in [Calls -> Outcome \cup {"none"}]
  /\ answer \in [Calls -> Outcome \cup {"none", "fault"}]

Init ==
  /\ envelopes = <<>>
  /\ args = [c \in Calls |-> NotMade]
  /\ result = [c \in Calls |-> "none"]
  /\ answer = [c \in Calls |-> "none"]

Invoke(c, k, b) ==
  /\ ~Made(c)
  /\ args' = [args EXCEPT ![c] = [key |-> k, body |-> b]]
  /\ UNCHANGED <<envelopes, result, answer>>

\* Mutant: the index is not consulted.
AppendUnchecked(c) ==
  /\ Made(c) /\ result[c] = "none"
  /\ envelopes' = Append(envelopes, NewEnvelope(c, args[c].key, args[c].body))
  /\ result' = [result EXCEPT ![c] = "appended"]
  /\ UNCHANGED <<args, answer>>

\* Mutant: a call that has taken effect takes effect again.
AppendTwice(c) ==
  /\ Made(c)
  /\ Holders(envelopes, args[c].key) = {}
  /\ envelopes' = Append(envelopes, NewEnvelope(c, args[c].key, args[c].body))
  /\ result' = [result EXCEPT ![c] = "appended"]
  /\ UNCHANGED <<args, answer>>

\* The log's one decision about a call, taken at one moment, possibly after the
\* caller has been told that the store failed.
AppendNew(c) ==
  /\ Made(c) /\ result[c] = "none"
  /\ Holders(envelopes, args[c].key) = {}
  /\ envelopes' = Append(envelopes, NewEnvelope(c, args[c].key, args[c].body))
  /\ result' = [result EXCEPT ![c] = "appended"]
  /\ UNCHANGED <<args, answer>>

\* Mutant: the last record stands.
ReplaceHeld(c) ==
  /\ Made(c) /\ result[c] = "none"
  /\ \E i \in Holders(envelopes, args[c].key) :
       envelopes' = [envelopes EXCEPT ![i] = NewEnvelope(c, args[c].key, args[c].body)]
  /\ result' = [result EXCEPT ![c] = "duplicate"]
  /\ UNCHANGED <<args, answer>>

FindHeld(c) ==
  /\ Made(c) /\ result[c] = "none"
  /\ \E i \in Holders(envelopes, args[c].key) :
       result' = [result EXCEPT ![c] =
                    IF Same(envelopes[i], args[c].body) THEN "duplicate" ELSE "conflict"]
  /\ UNCHANGED <<envelopes, args, answer>>

Answer(c) ==
  /\ answer[c] = "none" /\ result[c] # "none"
  /\ answer' = [answer EXCEPT ![c] = result[c]]
  /\ UNCHANGED <<envelopes, args, result>>

\* Mutant: a fault is kept as what the log did.
FaultAsResult(c) ==
  /\ Made(c) /\ answer[c] = "none"
  /\ answer' = [answer EXCEPT ![c] = "fault"]
  /\ result' = [result EXCEPT ![c] = "fault"]
  /\ UNCHANGED <<envelopes, args>>

\* EvidenceStoreFault: it says nothing about whether the call took effect.
Fault(c) ==
  /\ Made(c) /\ answer[c] = "none"
  /\ answer' = [answer EXCEPT ![c] = "fault"]
  /\ UNCHANGED <<envelopes, args, result>>

Redact(i) ==
  /\ i \in DOMAIN envelopes
  /\ envelopes[i].evidence # NoBody
  /\ envelopes' = [envelopes EXCEPT ![i] = Tombstone(@)]
  /\ UNCHANGED <<args, result, answer>>

Next ==
  \/ \E c \in Calls :
       \/ \E k \in Key, b \in Bodies : Invoke(c, k, b)
       \/ AppendNew(c)
       \/ FindHeld(c)
       \/ Answer(c)
       \/ Fault(c)
  \/ \E i \in DOMAIN envelopes : Redact(i)

Spec == Init /\ [][Next]_vars

-----------------------------------------------------------------------------
(* What the log promises *)

\* The idempotency claim: no two envelopes share a key, however many calls raced
\* for it and however many of them were retries.
OneEnvelopePerKey ==
  \A i, j \in DOMAIN envelopes :
    envelopes[i].key = envelopes[j].key /\ envelopes[i].key # NoKey => i = j

\* A call writes at most one envelope, and only one whose writer was told neither
\* "duplicate" nor "conflict": a fault is the only answer that leaves it open.
WrittenByItsCall ==
  /\ \A i, j \in DOMAIN envelopes : envelopes[i].by = envelopes[j].by => i = j
  /\ \A i \in DOMAIN envelopes :
       /\ envelopes[i].key = args[envelopes[i].by].key
       /\ envelopes[i].evidence \in {args[envelopes[i].by].body, NoBody}
       /\ answer[envelopes[i].by] \in {"none", "appended", "fault"}

\* What an answer means for as long as the log lives: "appended" is the caller's
\* own envelope, "duplicate" another call's with the same body or one redacted
\* since, "conflict" another call's with a different body.
AnswersStayTrue ==
  \A c \in Calls :
    /\ answer[c] = "appended" => \E i \in DOMAIN envelopes : envelopes[i].by = c
    /\ answer[c] \in {"duplicate", "conflict"} =>
         \E i \in Holders(envelopes, args[c].key) :
           /\ envelopes[i].by # c
           /\ answer[c] = "duplicate" =>
                envelopes[i].evidence \in {args[c].body, NoBody}
           /\ answer[c] = "conflict" =>
                args[envelopes[i].by].body # args[c].body

\* The first record stands: an envelope keeps its place, its key and its writer,
\* and the only change it ever sees is the one redaction.
FirstStands ==
  [][\A i \in DOMAIN envelopes :
       /\ i \in DOMAIN envelopes'
       /\ envelopes'[i] \in {envelopes[i], Tombstone(envelopes[i])}]_vars

=============================================================================
