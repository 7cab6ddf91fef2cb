--------------------------- MODULE PostgresStore ---------------------------
(***************************************************************************)
(* The PostgreSQL adapter of the evidence port                             *)
(* (packages/evidence-store/src/postgres-store.mjs) and the table under it *)
(* (migrations/0001-evidence-envelope.sql).                                *)
(*                                                                         *)
(* An append is two statements: an INSERT that the unique index turns into *)
(* nothing when the key is held, then, only in that case, a SELECT of the  *)
(* row that holds it.  The client side of a call (`client`) and the        *)
(* server's statement (`insert`) move separately: the adapter gives up on  *)
(* a statement after STORE_QUERY_TIMEOUT_MS without knowing whether the    *)
(* server will still run it, and the process that made a call may die.     *)
(* Calls belong to any number of processes.                                *)
(*                                                                         *)
(* Other roles than the service's update rows: every UPDATE goes through   *)
(* the trigger guard_envelope_update.                                      *)
(***************************************************************************)
EXTENDS Naturals, Sequences

CONSTANTS
  Calls, Keys, NoKey, Bodies, NoBody,   \* as in EvidenceLog
  RequireWorkspace                      \* createPostgresEvidenceStore's option

ASSUME NullAssumption == NoKey \notin Keys /\ NoBody \notin Bodies
ASSUME OptionAssumption == RequireWorkspace \in BOOLEAN

VARIABLES
  table,      \* evidence_envelope: its committed rows, in commit order
  audit,      \* evidence_redaction: the envelope id of each redaction event
  nextId,     \* the identity sequence of evidence_envelope
  insert,     \* the server's side of each call's INSERT
  drawn,      \* the id that INSERT drew from the sequence, 0 before
  args,       \* the key and body each call was made with
  client,     \* where the adapter is in the call
  found,      \* what the call's SELECT answered
  answer,     \* what the caller of append was told
  earlier     \* history: the calls already answered "appended" when this one was made

serverVars == <<table, audit, nextId, insert, drawn>>
vars == <<table, audit, nextId, insert, drawn, args, client, found, answer, earlier>>

Key == Keys \cup {NoKey}
Payload == Bodies \cup {NoBody}

Row == [id : Nat \ {0}, key : Key, by : Calls, evidence : Payload, names : BOOLEAN,
        redacted : BOOLEAN]

TypeOK ==
  /\ table \in Seq(Row)
  /\ audit \in Seq(Nat \ {0})
  /\ nextId \in Nat \ {0}
  /\ insert \in [Calls -> {"none", "sent", "running", "committed", "skipped", "aborted"}]
  /\ drawn \in [Calls -> Nat]
  /\ args \in [Calls -> [key : Key, body : Payload]]
  /\ client \in [Calls -> {"idle", "called", "inserting", "looking", "answered", "dead"}]
  /\ found \in [Calls -> {"none", "duplicate", "conflict", "lost"}]
  /\ answer \in [Calls -> {"none", "appended", "duplicate", "conflict", "fault"}]
  /\ earlier \in [Calls -> SUBSET Calls]

Init ==
  /\ table = <<>>
  /\ audit = <<>>
  /\ nextId = 1
  /\ insert = [c \in Calls |-> "none"]
  /\ drawn = [c \in Calls |-> 0]
  /\ args = [c \in Calls |-> [key |-> NoKey, body |-> NoBody]]
  /\ client = [c \in Calls |-> "idle"]
  /\ found = [c \in Calls |-> "none"]
  /\ answer = [c \in Calls |-> "none"]
  /\ earlier = [c \in Calls |-> {}]

RowsOf(k) == {i \in DOMAIN table : table[i].key = k /\ k # NoKey}

-----------------------------------------------------------------------------
(* The adapter *)

CallAppend(c, k, b) ==
  /\ client[c] = "idle"
  /\ client' = [client EXCEPT ![c] = "called"]
  /\ args' = [args EXCEPT ![c] = [key |-> k, body |-> b]]
  /\ earlier' = [earlier EXCEPT ![c] = {d \in Calls : answer[d] = "appended"}]
  /\ UNCHANGED <<serverVars, found, answer>>

NeedsWorkspace(c) == RequireWorkspace /\ args[c].key = NoKey

Return(c, outcome) ==
  /\ client' = [client EXCEPT ![c] = "answered"]
  /\ answer' = [answer EXCEPT ![c] = outcome]
  /\ UNCHANGED <<serverVars, args, found, earlier>>

RefuseAppend(c) ==
  /\ client[c] = "called"
  /\ NeedsWorkspace(c)
  /\ Return(c, "fault")

SendInsert(c) ==
  /\ client[c] = "called"
  /\ ~NeedsWorkspace(c)
  /\ client' = [client EXCEPT ![c] = "inserting"]
  /\ insert' = [insert EXCEPT ![c] = "sent"]
  /\ UNCHANGED <<table, audit, nextId, drawn, args, found, answer, earlier>>

ReturnAppended(c) ==
  /\ client[c] = "inserting" /\ insert[c] = "committed"
  /\ Return(c, "appended")

SendLookup(c) ==
  /\ client[c] = "inserting" /\ insert[c] = "skipped"
  /\ client' = [client EXCEPT ![c] = "looking"]
  /\ UNCHANGED <<serverVars, args, found, answer, earlier>>

ReturnFound(c) ==
  /\ client[c] = "looking" /\ found[c] \in {"duplicate", "conflict"}
  /\ Return(c, found[c])

\* Mutant: a timeout is an outcome of its own.
GiveUpQuietly(c) ==
  /\ client[c] \in {"inserting", "looking"}
  /\ Return(c, "timeout")

\* Mutant: no timer, only the server's refusal ends the wait.
WaitForServer(c) ==
  /\ client[c] = "inserting" /\ insert[c] = "aborted"
  /\ Return(c, "fault")

\* The query was rejected, the replay lookup lost its row, or the timer fired
\* first: the timer needs nothing from the server, so this is always possible.
GiveUp(c) ==
  /\ client[c] \in {"inserting", "looking"}
  /\ Return(c, "fault")

\* The process that made the call dies; the server may still run the statement.
Crash(c) ==
  /\ client[c] \in {"called", "inserting", "looking"}
  /\ client' = [client EXCEPT ![c] = "dead"]
  /\ UNCHANGED <<serverVars, args, found, answer, earlier>>

-----------------------------------------------------------------------------
(* The server *)

\* Mutant: ids come from blocks that sessions have cached.
StartFromBlock(c) ==
  /\ insert[c] = "sent"
  /\ insert' = [insert EXCEPT ![c] = "running"]
  /\ \E id \in 1 .. nextId + 1 :
       /\ \A d \in Calls : drawn[d] # id
       /\ drawn' = [drawn EXCEPT ![c] = id]
       /\ nextId' = IF id < nextId THEN nextId ELSE id + 1
  /\ UNCHANGED <<table, audit, args, client, found, answer, earlier>>

\* The row's id is drawn before the unique index is consulted.
StartInsert(c) ==
  /\ insert[c] = "sent"
  /\ insert' = [insert EXCEPT ![c] = "running"]
  /\ drawn' = [drawn EXCEPT ![c] = nextId]
  /\ nextId' = nextId + 1
  /\ UNCHANGED <<table, audit, args, client, found, answer, earlier>>

NewRow(c) ==
  [id |-> drawn[c], key |-> args[c].key, by |-> c, evidence |-> args[c].body,
   names |-> TRUE, redacted |-> FALSE]

\* A competitor for the key that has not committed makes this statement wait, so
\* the index decides on committed rows alone.
CommitInsert(c) ==
  /\ insert[c] = "running"
  /\ RowsOf(args[c].key) = {}
  /\ table' = Append(table, NewRow(c))
  /\ insert' = [insert EXCEPT ![c] = "committed"]
  /\ UNCHANGED <<audit, nextId, drawn, args, client, found, answer, earlier>>

\* Mutant: a competitor that has not committed is enough to do nothing.
SkipForRunning(c) ==
  /\ insert[c] = "running"
  /\ \/ RowsOf(args[c].key) # {}
     \/ \E d \in Calls \ {c} : insert[d] = "running" /\ args[d].key = args[c].key
  /\ insert' = [insert EXCEPT ![c] = "skipped"]
  /\ UNCHANGED <<table, audit, nextId, drawn, args, client, found, answer, earlier>>

SkipInsert(c) ==
  /\ insert[c] = "running"
  /\ RowsOf(args[c].key) # {}
  /\ insert' = [insert EXCEPT ![c] = "skipped"]
  /\ UNCHANGED <<table, audit, nextId, drawn, args, client, found, answer, earlier>>

\* Cancelled, refused, or rolled back with the server or the connection.
AbortInsert(c) ==
  /\ insert[c] \in {"sent", "running"}
  /\ insert' = [insert EXCEPT ![c] = "aborted"]
  /\ UNCHANGED <<table, audit, nextId, drawn, args, client, found, answer, earlier>>

\* Mutant: the comparison with NULL is not caught.
SameOrNull(row, b) == row.evidence = b

SameBody(row, b) == row.evidence = NoBody \/ row.evidence = b

Verdict(c, i) == IF SameBody(table[i], args[c].body) THEN "duplicate" ELSE "conflict"

Lookup(c) ==
  /\ client[c] = "looking" /\ found[c] = "none"
  /\ found' = [found EXCEPT ![c] =
                 IF RowsOf(args[c].key) = {} THEN "lost"
                 ELSE Verdict(c, CHOOSE i \in RowsOf(args[c].key) : TRUE)]
  /\ UNCHANGED <<serverVars, args, client, answer, earlier>>

\* Mutant: a tombstone is not final.
GuardForgetsTombstone(old, new) ==
  /\ new.evidence = NoBody
  /\ new.id = old.id /\ new.key = old.key
  /\ new.by = old.by

\* What guard_envelope_update lets through: `new` is the row an UPDATE proposes.
GuardAllows(old, new) ==
  /\ old.evidence # NoBody
  /\ new.evidence = NoBody
  /\ new.id = old.id /\ new.key = old.key
  /\ new.by = old.by

Guarded(new) ==
  [id |-> new.id, key |-> new.key, by |-> new.by, evidence |-> new.evidence,
   names |-> FALSE, redacted |-> TRUE]

\* One UPDATE of one row by a role that may update, whatever it proposes.
Update(i, new) ==
  /\ i \in DOMAIN table
  /\ GuardAllows(table[i], new)
  /\ table' = [table EXCEPT ![i] = Guarded(new)]
  /\ audit' = Append(audit, table[i].id)
  /\ UNCHANGED <<nextId, insert, drawn, args, client, found, answer, earlier>>

Proposals(row) ==
  [id : {row.id, nextId}, key : Key, by : Calls, evidence : Payload, names : BOOLEAN,
   redacted : BOOLEAN]

-----------------------------------------------------------------------------

ClientStep(c) ==
  \/ RefuseAppend(c)
  \/ SendInsert(c)
  \/ ReturnAppended(c)
  \/ SendLookup(c)
  \/ ReturnFound(c)
  \/ GiveUp(c)

ServerStep(c) ==
  \/ StartInsert(c)
  \/ CommitInsert(c)
  \/ SkipInsert(c)
  \/ AbortInsert(c)
  \/ Lookup(c)

Next ==
  \/ \E c \in Calls :
       \/ \E k \in Key, b \in Bodies : CallAppend(c, k, b)
       \/ ClientStep(c)
       \/ ServerStep(c)
       \/ Crash(c)
  \/ \E i \in DOMAIN table : \E new \in Proposals(table[i]) : Update(i, new)

Spec == Init /\ [][Next]_vars

\* The adapter's own steps need only its process: its timers and the answers that
\* have arrived.  Nothing is assumed of the server.
FairSpec == Spec /\ \A c \in Calls : WF_vars(ClientStep(c))

-----------------------------------------------------------------------------
(* Refinement: a committed row is an envelope of the log *)

EnvelopeOf(row) ==
  [key |-> row.key, by |-> row.by, evidence |-> row.evidence, names |-> row.names]

envelopes == [i \in DOMAIN table |-> EnvelopeOf(table[i])]

result ==
  [c \in Calls |->
     IF insert[c] = "committed" THEN "appended"
     ELSE IF found[c] \in {"duplicate", "conflict"} THEN found[c] ELSE "none"]

Log == INSTANCE EvidenceLog

\* Two statements, timeouts, late commits and crashes never show: every behaviour
\* of the adapter and the server is one of the append-only log, with each call
\* taking effect at one moment or not at all.
ImplementsLog == Log!Spec

-----------------------------------------------------------------------------
(* Safety *)

\* An INSERT that did nothing is always followed by a SELECT that finds the row:
\* the adapter's "lost a conflicting row" fault is unreachable.
ReplayLookupFindsTheRow == \A c \in Calls : found[c] # "lost"

\* ORDER BY id is the order of acknowledgement: an append answered before another
\* was made is listed before it, although ids are drawn before rows commit.
IdsFollowAnswers ==
  \A i, j \in DOMAIN table :
    table[i].by \in earlier[table[j].by] => table[i].id < table[j].id

\* Every tombstone has one redaction event and no other row has any.
OneRedactionEvent ==
  \A i \in DOMAIN table :
    LET events == {n \in DOMAIN audit : audit[n] = table[i].id} IN
    /\ table[i].redacted <=> table[i].evidence = NoBody
    /\ table[i].redacted => ~table[i].names /\ \E n \in events : events = {n}
    /\ ~table[i].redacted => table[i].names /\ events = {}

\* Every call whose process lives is answered, whatever the server does.
EveryCallReturns ==
  \A c \in Calls : client[c] # "idle" ~> client[c] \in {"answered", "dead"}

=============================================================================
