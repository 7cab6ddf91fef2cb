# SDLC control plane: TLA+ specifications

The control plane accepts evidence records from CI workloads over HTTP, authenticates them by
the issuer's signed token, evaluates them under a reviewed guardrail policy, and keeps the
accepted ones in an append-only log in PostgreSQL. These modules specify the parts of it whose
behaviour depends on the order of events: the log and its adapters, the issuer's key set and its
transport, the submission quota, the HTTP seam that ties them together and its connections, what a
process checks when it starts, and the migrations of the database. The checks that need no order
(of a record, a registration, a policy, a token) are operators these modules use.

Every definition is translated from the source; `PROJECT.json` maps each one to the file and the
lines it stands for. The code is JavaScript: within a process everything between two `await`s
runs without interruption, so an action is what runs between two awaits. Concurrency comes from
other requests at an await, from other processes, and from the database server.

## Inventory

| Part | State | Operations | Talks to |
| --- | --- | --- | --- |
| Evidence port, in-memory adapter (`packages/evidence-store/src/evidence-store.mjs`) | `envelopes`, `byKey` | `append`, `list`, `listRecords`, `redact` (tests) | called by the seam |
| PostgreSQL adapter (`postgres-store.mjs`) | none of its own: a statement in flight and its timer per call | `append` = INSERT, then SELECT when nothing was inserted; `list`, `listRecords`; start-up checks | the server, through a pool |
| Table, trigger, redaction events (`migrations/0001-evidence-envelope.sql`) | rows, identity sequence, `evidence_redaction` | INSERT under a unique index, guarded UPDATE | the adapter; the redaction role |
| Key set (`packages/workload-identity/src/key-set.mjs`) | `cache`, `inFlight`, `lastAttemptAt` | `current`, `refreshForUnknownKid`, one fetch at a time | transport, authenticator |
| Transport (`https-transport.mjs`) | `settled`, a deadline per fetch | `fetchJwks` | the issuer |
| Authenticator (`authenticate.mjs`, `jws.mjs`, `constants.mjs`) | none | five steps over a token | key set |
| Registry (`packages/workspace-registry/src/registry.mjs`) | two Maps, filled at load | `get`, `bindingFor`, `admits` | seam |
| Quota (`packages/control-plane-api/src/admission.mjs`) | a window per principal, in memory | `take` | seam |
| Body reading (`admission.mjs`, `main.mjs`) | the stream and a byte count | `readBodyCapped`, 100-continue, respond-then-destroy | client, seam |
| Guardrail policy (`packages/guardrail-policy/src/evaluate.mjs`) | none; the policy file is read once per process | `evaluateGuardrails`, `validateGuardrailPolicy` | seam |
| Indicators (`packages/indicators/src/summarize.mjs`) | none | `summarizeEvidence` | seam |
| Seam (`packages/control-plane-api/src/main.mjs`) | one pipeline per request | `POST /v1/evidence`, `GET /v1/indicators`, `GET /v1/workspaces`, `GET /health` | all of the above |
| Refusal log (`refusal-log.mjs`) | none | `refusalEvent`, best-effort | seam |
| Migration runner (`packages/evidence-store/src/migrate.mjs`) | `schema_migrations` | `bootstrap`, `migrate`, `status` | the server |
| Start-up (`database-config.mjs`) | none | `openDurableEvidenceStore`: configuration, role, schema | the server |
| Contracts, OpenAPI, tools, docs, tests | none | pure checks and descriptions | - |

What is hard in it, and what makes each part correct:

- **The log.** Appends of one key race in several processes; a statement that timed out may commit
  later; a redaction rewrites an element of an append-only list. Correct means: one envelope per
  key, the first record stands, and what a caller was told stays true.
- **The adapter.** One append is two statements, each with a timer that knows nothing of the
  server. Correct means: none of that shows.
- **The key set.** One fetch, shared, with one budget for three reasons to fetch; a cache without
  stale use; three microtasks between a response and its readers. Correct means: a fetch that
  succeeded is never followed by a blackout, no request is held for more than one fetch, a retired
  key dies in bounded time and a new one is noticed.
- **The quota.** A fixed window, whose borders admit more than a window's worth.
- **The seam.** Its statuses are promises about the log: 202 that the record is held, 4xx that it is
  not, 503 that retrying is safe. Processes crash between the append and the answer, and start
  again under another policy.
- **The transport.** A response, its end, two errors and a deadline, in any order, also after the
  exchange was settled. Correct means: settled once, by the deadline at the latest, and never with
  part of a body.
- **The connection.** A refusal is written and flushed before the connection is destroyed, while the
  client may still be sending; whatever a route throws, its own sends included, passes through up to
  two catches, which send as well. Correct means: the caller learns its status unless a fault is
  logged, the seam receives no more than it agreed to, at most one answer is given, with which the log
  ends, and every request ends.
- **What is checked once.** The policy, the registry, the connection and the database role are
  checked when a process starts and relied on afterwards; a token is judged after two awaits, and
  again whenever it is presented. Correct means: what was checked is what is used, and who is
  admitted speaks for exactly one workspace.
- **Migrations.** Runners of several builds share one lock, which each gives up between two files,
  and may die anywhere. Correct means: the table tells what ran, the schema is one build's, and a
  service that serves has the schema it was built for.

`hazards` in `PROJECT.json` lists each of these at its line with the properties that cover it.

## Modules

    EvidenceLog            what the port promises
      ^ implemented by     PostgresStore   (ImplementsLog: TLC and a proof)
      ^ used by            IntakeSeam      (Log == INSTANCE EvidenceLog WITH Calls <- Submissions;
                                            that it uses it as its contract says is proved)
    KeySet                 what authentication may answer, and when
      ^ implemented by     KeyFetch        (KeySet over HttpsTransport; ImplementsKeySet: TLC,
                                            its safety part is proved)
    HttpsTransport         one exchange with the issuer
    SubmissionQuota        what 429 means
    SeamConnection         one connection: who is answered what, and when it is closed
    Contracts              the three validators and the guardrail rules
      ^ Authorization      the six steps from a credential to a workspace
          ^ ControlPlane   a process from its start to what it admits
    SchemaMigrations       what `migrate` and the start-up checks promise of the schema

**EvidenceLog** is the abstract specification of the evidence port. A call of `append` is invoked,
takes effect at one moment (`AppendNew`, `FindHeld`), and is answered with what the log did
(`Answer`) or with `EvidenceStoreFault` (`Fault`), which says nothing about whether it took effect
or still will. The in-memory adapter runs the first three without interruption. An envelope carries
its key, the call that wrote it (for `policy_id`, `received_at` and the identifiers of
`submitted_by`), its payload, and whether it still has the four names of `submitted_by`. `Redact`
nulls the last two, as `redact` and the trigger do.

**PostgresStore** is `postgres-store.mjs` over the table. `client` is where `append` is in its two
statements, `insert` is the server's side of the INSERT; they move separately. `StartInsert` draws
the id before the unique index is consulted (`CommitInsert`, `SkipInsert`); PostgreSQL makes an
INSERT wait for a competitor that has not committed, so the index decides on committed rows alone.
`GiveUp` is the timer or a rejected query, `Crash` the death of the calling process; neither touches
the server's side. `Update` is any UPDATE any role may propose, let through by `GuardAllows`, which
is checks 1 to 4 of `guard_envelope_update`, and rewritten by `Guarded`, which is what it stamps.

**KeySet** is `key-set.mjs` with steps 2 and 3 of `authenticate.mjs`. `flight` is the fetch: sent,
replied (the body has arrived), settled (`fetchOnce` has stored the keys or caught the failure) and
cleared by the `finally`, upon which its waiters may resume, one at a time, with others in between.
The issuer publishes and retires kids at any time. `FailFetch` stands for everything that makes
`fetchJwks` reject and for a set without a usable key. A tick cannot pass the deadline of the fetch
nor overtake a microtask that can run.

**HttpsTransport** is `fetchJwks`: its promise, its timer, its request and its response, with one action
per listener. The listeners are attached and fire as the code has them: a refused response has none,
and every one of them asks `settled` first. Bytes are counted, and what was kept of them.

**KeyFetch** puts the two together: whenever a step of `KeySet` sends a fetch, the exchange is opened
in the same step, and the fetch's reply or failure is what the exchange was settled with. `KeySet`'s
own clock and deadline are replaced by the timer of the exchange; `ImplementsKeySet` says that what
is left still satisfies `KeySet`'s specification, its fairness included.

**SubmissionQuota** is `createSubmissionQuota`; `take` is `Admit` or `Refuse`. `taken` and
`promised` are histories.

**IntakeSeam** is the handler of `main.mjs` in any number of processes. Receiving, authorizing,
reading the body, evaluating, appending and answering are separate actions; `Crash` loses the
requests of a process but not the calls its store is working on, and `Start` loads a policy. What
authentication, authorization and the quota answer is chosen freely: every refusal they can give is
possible at any time, so what is shown of the statuses holds whatever they do. The store is the
durable one; with the in-memory adapter, which no deployment uses, a crash would forget the log.

**SchemaMigrations** is `migrate` of `migrate.mjs` and `openDurableEvidenceStore`. A file is its
name and bytes, so that equal checksums are equality; a build is the sequence of its files. Each
transaction of a runner starts with `Lock` and ends with the action that frees the lock: `Open`,
`Skip`, `RefuseBundle` or `Commit`; `Execute` separates the file from the row that commits with it.
`Fail` is a failed statement, a lost connection or the runner's death: each rolls the transaction
back and frees its lock. `CheckRole` and `Serve` are the two checks of start-up, between which a
runner may move; `RefuseStart` is possible at either, since every cause of a refusal is. `ran` is a
history.

**SeamConnection** is one connection of the server `createSeamServer` builds and the handler of `main.mjs`
as far as the connection can tell: what step refuses, what is read, what is sent, what is thrown.
`Refuse` and `Accept` end in `Answer`, a `send` that returns, throws after `writeHead` or throws
before it; what it throws goes to the catch `Catcher` names. `Pull` is one turn of the loop of
`readBodyCapped`, `Fault` a throw outside the try of the evidence route. `RouteCatch` is that route's
catch, which logs and sends a 400 whatever was logged and sent before; `CatchAll` is the catch-all with
the catch nested in it: it answers 503, or closes the connection, because the response has a head
or because its own send throws too. The sends of `GET /health` and of an unmatched request are outside
both and are taken to return, as the comment at `main.mjs:393` says of the first; what they threw would
end the process. `Begin` is the first byte of a request, on a new connection
or on one that was kept; `Arrive`, `BodyEnd` and `Leave` are the client, `Check` and `Tick` the timer on
which Node looks at its connections. What Node does with a socket is modelled from how the seam
relies on it: it stops taking bytes when enough lie unread, it discards the rest of a body when a
response leaves the connection open, and it cuts an unfinished request at the first check after its
timeout.

**Contracts** holds `validateEvidence`, `validateWorkspaceRegistration`, `validateGuardrailPolicy` and
`evaluateGuardrails`. An object is a function on the members it has, so that a member can be missing,
misspelt or too many; text is told apart only as far as the validators do. **Authorization** has the
checks of `authenticate.mjs` as lists in the code's order, each with its reason, and the registry's
`admits`. **ControlPlane** is the process around them: `LoadPolicy` to `QueryPrivileges` are its
start, in the order of `main.mjs` and `database-config.mjs`, the two role queries apart; then a token
is presented, waits for the key set once or twice (`Keys`, `Refreshed`), is judged with the clock as
it then is, and is used for a read or a submission. `EditPolicy` edits the object the policy was
passed as, `Administer` grants and revokes, `Restart` ends the process. `given` is a history: the
ways of changing the log the role was given since its check began. It tells a way of the role's own from
one by membership, because a direct grant may be replaced by a membership between the two queries,
and neither query then sees it.

The `MC` modules extend these for TLC. Definitions marked `Mutant` are plausible mistakes in the
code; each property is checked to fail when the definition it names is replaced by its mutant.

## What is checked

| Run | Instance | Distinct states | Properties |
| --- | --- | --- | --- |
| `evidence_log` | 3 calls, 1 key and the null key, 2 bodies | 7 708 | `TypeOK`, `OneEnvelopePerKey`, `WrittenByItsCall`, `AnswersStayTrue`, `FirstStands` |
| `postgres_store` | 3 calls, 1 key and the null key, 2 bodies | 520 k | `TypeOK`, `ReplayLookupFindsTheRow`, `IdsFollowAnswers`, `OneRedactionEvent`, `ImplementsLog` |
| `postgres_store_live` | 2 calls, `requireWorkspace` | 4 441 | `EveryCallReturns` |
| `key_set` | 2 requests, 2 kids and a forged one, max-age 0 or above the ceiling, clock to 6 | 2.4 M | `TypeOK`, `NoBlackoutAfterSuccess`, `HeldForOneFetch`, `RotationNoticed`, `RetiredKeyBound` |
| `key_fetch` | 2 requests, 1 kid and a forged one, clock to 3, cap 2, chunks of 2 | 102 829 | `ExchangeSettlesOnce`, `ImplementsKeySet`, `RequestsAreAnswered` |
| `key_set_fail_closed` | 1 request, 1 kid | - | `FailClosed`, violated |
| `key_set_working_cache` | 1 request, 1 kid | - | `WorkingCacheSurvives`, violated |
| `submission_quota` | 2 principals, quota 2, window 3, second 2, clock to 7 | 996 k | `TwiceTheQuota`, `RetryAfterIsHonest` |
| `intake_seam` | 2 submissions, 1 read, 2 processes, 2 workspaces, 2 texts, 2 policies | 747 k | `RefusedLeavesNothing`, `AcceptedIsHeld`, `RetryIsSafe`, `IndicatorsAreCurrent` |
| `seam_connection` | 1 connection, bodies to 4 bytes, cap 2, chunks to 2, timeouts 1 and 4, check every 2 | 318 512 | `TransferIsBounded`, `StatusBeforeClose`, `OneAnswerLogged`, `EveryRequestEnds` |
| `control_plane` | deployments that differ from a usable one in one part | 107 743 | `AdmittedIsBound`, `UnverifiedSaysNothing`, `ReplayWindow`, `PolicyIsEnforced`, `ServesAsItChecked` |
| `schema_migrations` | 2 runners, 1 service, 3 builds | 68 516 | `TypeOK`, `TableIsTheHistory`, `OneBuildsSchema`, `BundleIsThere`, `RunnersSerialise`, `EveryRunnerEnds` |

The comment above each property says what it means and which promise of the code it is.

### The bounds

- *Three calls and one key.* A race needs two calls; the third is a retry after a fault, a replay of
  a redacted row, or a call with no workspace. Keys never interact, so a second key adds nothing; the
  proofs need no bound at all. Two bodies make both duplicates and conflicts.
- *Time.* The key set's constants keep the order of the real ones: the fetch timeout (5 s) is
  shorter than the interval (60 s), which is the floor of the time to live (60 s), below its ceiling
  (3600 s): 1, 2, 2, 3. The clock runs long enough for a set to be fetched, to expire, and to be
  fetched again. `MaxAges` has a value below the floor and one above the ceiling. The quota's
  window is not a multiple of its second, so that rounding matters, and the clock covers two whole
  windows and the start of a third.
- *The seam.* Two submissions are a submission and its retry, or two that disagree, in one workspace
  or in two; the read's records may come from either. Two processes may hold different policies.
- *The transport.* A chunk as large as the cap makes a body of exactly the cap and one over it. The
  clock covers a fetch, its deadline and the interval after which the next may start; rotation and
  expiry need the longer clock of `key_set`.
- *The connection.* A body may be shorter than the cap, end on it, or pass it within a chunk or by a
  whole one; the timeouts are such that a request is cut between two checks and at one. Requests
  follow one another on a connection without bound.
- *The process.* `MCControlPlane` starts from a deployment that works and changes one part of it: a
  member of the policy, of a registration, of a token, of a record or of the environment is taken
  away, added, misspelt or given another value; registries come in both orders and with a triple or
  an id repeated; roles in every combination of ownership, membership (inherited or not) and column
  grant. Only the parts the changed one is used with vary with it. The clock runs for longer than
  a token's lifetime and both skews; the lifetime is twice the skew, so that the skews count.
- *Migrations.* Two runners make every race for the lock. The builds are two files, the same with a
  third, and a branch that differs from the second file on: a shared beginning, a longer bundle and
  one of equal length but other bytes. A file runs once, so `ran` is at most three files long.
- `Horizon` (and a deployment's `horizon`) is the only cap on a counter. In `PostgresStore` the identity sequence is bounded by the
  number of calls. Where a system may stop because all its calls have been made, the configuration
  says `CHECK_DEADLOCK FALSE`. `KeySet`, `KeyFetch`, `SubmissionQuota`, `ControlPlane` and
  `SchemaMigrations` never stop and deadlock is checked.

### Fairness

Only the process's own obligations are fair, one weak fairness condition each, but for the last:

- `PostgresStore`: the steps of the adapter. Its timer is a `setTimeout` of its own, so `GiveUp`
  needs nothing of the server; no step of the server is fair.
- `KeySet`: microtasks run (`RequestStep`, `ClearInFlight`) and the deadline fires (`FailFetch`). No
  step of the issuer is fair, nor is the clock.
- `KeyFetch`: the same of its microtasks, and the timer fires when it is due. Time passes (strong
  fairness, since every microtask stops the clock while it runs). No step of the network is fair.
- `SeamConnection`: the handler, whose authentication and store calls end by `RequestsAreAnswered`
  and `EveryCallReturns`; what it has sent leaves; Node's timer and time itself. The client owes
  nothing: that a request ends which it never finishes rests on `Check` alone.
- `SchemaMigrations`: the exception. A runner waits for the server without a timer of its own, so that
  it ends needs a server that answers (weak fairness of its steps) and that serves those who wait
  for an advisory lock in turn, as PostgreSQL does (strong fairness of `Lock`). Nothing is assumed of
  `Fail`.

## What is proved

Each component's theorems are in a module of their own, named after it (`KeySet_proofs` holds those
of `KeySet`, `HttpsTransport` and `KeyFetch`). TLAPS proves them for every value of the constants that
satisfies the modules' `ASSUME`s; each rests on an inductive invariant, which TLC checked on the
component's run before it was proved.

- `EvidenceLog_proofs`: `LogInv` is inductive, and with it `TypeOK`, `OneEnvelopePerKey`,
  `WrittenByItsCall` and `AnswersStayTrue`; `FirstStands` follows from the same invariant. The
  properties speak of answers, which come after the fact, so the invariant states them of `result`,
  which is decided with the log, and ties `answer` to it.
- `PostgresStore_proofs`: `StoreInv` is inductive. Its core is that a skipped INSERT leaves a row
  under its key for ever, as no row is deleted and none changes its key; that the ids drawn are
  distinct and below the sequence; and that a call made after an answer draws a larger id. From
  it follow `TypeOK`, `ReplayLookupFindsTheRow`, `IdsFollowAnswers`, and, step by step,
  `StoreImplementsLog`: a commit is `AppendNew`, the replay lookup is `FindHeld`, a return is
  `Answer` or `Fault`, a guarded update is `Redact`, and everything else is a stutter.
  `StoreOneRedactionEvent` needs `AuditInv` beside it: an event names a row by its id alone, so it
  takes that no two rows share one, and that no event is there before its row.
- `KeySet_proofs`: `KeySetInv` is inductive. A blackout is excluded because a successful fetch leaves
  a set that lives at least `MinTTL`, no less than the interval after which the next attempt may
  start; the invariant therefore relates `expiresAt` to `lastAttemptAt` until a fetch fails. A
  request waits for the fetch that was in flight when it arrived or for one it started itself, and
  the budget bars the second one: `HeldForOneFetch`. Over it `RotationInv` is inductive: it follows
  a kid from the issuer through the reply and the cache to the set a request was handed, each with
  the time until which a kid retired since may still be in it. `RetiredKeyBound` and
  `RotationNoticed` are action properties that follow from it.
  Of the transport, `ExchangeInv` is inductive for every cap and chunk: an exchange that is pending
  has its timer armed and has kept all it counted, so what settles it is a whole body within the
  cap or a failure (`PendingSettles`), and no event after that changes it (`SettledStays`): the action
  property `FetchSettlesOnce`. `KeyFetchIsKeySet` maps every step of the two
  together to a step of `KeySet` or a stutter, so what is proved of `KeySet` holds of them.
- `IntakeSeam_proofs`: `SeamInv` is inductive: the invariant of the log, and for each submission that
  what it was told is what the log did with its call. `SeamUsesTheLog` says that the seam, with its
  handlers, reads and crashes hidden, satisfies the specification of the port: the guards of the
  handler are what the port asks of its callers. The invariant of the log is so taken over by
  one lemma (`NextKeeps`) rather than proved again. From it follow `RefusedLeavesNothing`,
  `AcceptedIsHeld` and `RetryIsSafe`. `IndicatorsAreCurrent` relates a summary to the answers given
  before it came, and so needs what its SELECT saw to be kept while later appends go on
  (`Summarised`).
- `SubmissionQuota_proofs`: `QuotaInv` is inductive: the last `count` admissions are those of the
  open window, and those before it lie in windows at least a window apart. Hence `TwiceTheQuota`, which is
  less than twice by one because a window opens with a submission, and `RetryAfterIsHonest`.
- `SeamConnection_proofs`: `ConnectionInv` is inductive. A request has a status from its answer on and
  a principal from step 5 on, and a response that keeps the connection has a body that has ended
  (`StageInv`): that is why nothing is ever dumped. The time of a request and what is left
  of Node's interval are at most the timeout and one interval together (`TimerInv`), which gives the
  bound on a client that drips. `LogInv` says of a request that is done that its log is `Concluded`:
  the last entry is the refusal that was answered, or the 503 of a fault, and then the connection
  is gone. Entries before it are of sends that threw. `TransferIsBounded` and `StatusBeforeClose` follow,
  and with `StatusStays` (no step but `Begin` changes a status once the response has a head)
  `OneAnswerLogged`.
- `ControlPlane_proofs`: `ServiceInv` is inductive, for any deployments. After n steps of its loading
  the registry's two maps are the first n registrations of the document, with as many entries as
  registrations, hence no triple and no id twice (`RegistryInv`). What the two queries have checked
  of the role is true of it but for what was given to it since, and between the two only a privilege
  of its own may be older (`RoleInv`). A request in progress has a genuine token and a registration
  that admits it (`RequestInv`), and the first and the last admission of a token both lie within the
  token's own times (`AdmittedInv`): that bounds their distance, though neither was checked against
  the other. All five properties follow; `PolicyIsEnforced` takes a lemma
  on the rules a valid policy can have (`RuleKept`), `UnverifiedSaysNothing` one on the checks that
  come before the payload is looked at (`SameSignature`).
- `SchemaMigrations_proofs`: `SchemaInv` is inductive. The table is the history, so that to compare a
  bundle with the table is to compare it with what ran; between the comparison and the commit the
  runner holds the lock, so what ran is still how its bundle begins when it appends the next file;
  and files its loop has passed have run. All five invariants are conjuncts of it.

The assumptions are named where the constants are declared, and TLC evaluates them on every run:

- `NullAssumption` (a null is no key and no body), `NoneAssumption` (no value is none of the steps of a request),
  `KidAssumption`, `SeamAssumption`, `BundleAssumption` (a build is a sequence of files) and
  `CapAssumption` tell values of different kinds apart;
- `TimeAssumption` of `KeySet` is the order of the constants of `constants.mjs`, on which the
  properties rest; that of `ControlPlane` only says that they are numbers; `QuotaAssumption` and
  `SizeAssumption` that they are positive;
- `TimeoutAssumption` of `SeamConnection` says that the timeout of the headers is no longer than that
  of the request (10 and 30 s in `admission.mjs`): Node throws when a server is created otherwise;
- `DeploymentAssumption` says what a deployment is: the registrations are a list (a document without
  one is refused like one of another version), the role's ways and grants are of the six kinds the
  two queries tell apart, a token has the parts `TokenFields` names, and its three times, if they
  are numbers, are integers in the unit of the clock, which may be as fine as the fractions a claim
  or `Date.now() / 1000` can have. Nothing is assumed of what a policy, a registration, a
  record or a payload holds otherwise.

Every invariant and every action property the passing runs check is proved. Only model-checked are:

- the liveness properties `EveryCallReturns`, `RequestsAreAnswered`, `EveryRequestEnds` and
  `EveryRunnerEnds`, and of `ImplementsKeySet` the fairness, since the prover treats neither liveness
  under fairness nor `ENABLED`;
- the two findings below, which are counterexamples.

## Findings

Two runs are expected to be violated. Each checks a sentence of the repository's documentation that
the code does not keep, in a corner; neither admits a token that does not verify.

- `key_set_fail_closed`. ADR-0003 (line 334): without an unexpired set and with a failing fetch,
  every authenticated route answers 503. If the set expires while a refetch for an unknown kid is
  awaited and that refetch fails, `authenticate.mjs:146` answers 401.
- `key_set_working_cache`. The threat model (line 518, RR-13): only an outage longer than the cached
  set's remaining life answers 503. A failed refetch for an unknown kid shortly before the set
  expires spends the budget (`key-set.mjs:102`), and requests are answered 503 until the interval
  is over though the issuer is back.

## What is not modelled

- *Text.* Projection and canonical text of a record, regular expressions, encodings and signatures as
  such: values are told apart by what the code tells apart. `EvidenceLog` takes records that are equal
  up to member order to be one value.
- *Node and PostgreSQL*, but for what the code relies on: the modules say which actions those are
  (`external` in `map`).
- *The bootstrap script*, which an administrator runs once, *`status`*, which only reads. In
  `PostgresStore` a role without a grant takes no step, and `Update` gives the roles that may update
  more than their grants do; what the service's own role is granted is in `ControlPlane`.
- *A 202 that is not sent.* `IntakeSeam` takes `send` to return. In the code a `send(202)` that throws
  before its head is answered 400 by the route's catch although the record is held; that any `send` may
  throw, and what is answered then, is in `SeamConnection`, which has no store.
- *A role that is given more after its check.* Nothing re-reads it, so `ServesAsItChecked` exempts what was
  granted since the check began; a grant between its two queries, where neither looks, is not
  noticed either.
- *A clock that is set.* The code reads `Date.now`; the models' clocks do not run backwards.
- *The sums of the indicators, the sink of the refusal log, `GET /v1/workspaces` beyond what it
  discloses, `listRecords`, tools*: no state that a property could be about.

## Plan

Done, in this order: `EvidenceLog` and its proofs, `PostgresStore` with the refinement,
`KeySet`, `SubmissionQuota`, `IntakeSeam`, `SchemaMigrations` and its proofs, `HttpsTransport` with
`KeyFetch`, `SeamConnection`, `Contracts` with `Authorization` and `ControlPlane`. What the service
does is modelled, and the safety the runs check of it is proved. What is left:

1. `KeySet`: a theorem that says when the two findings occur, and that they occur at no other time:
   that without an unexpired set a token is refused with anything but 503 only after a refetch for
   an unknown kid.
2. `PostgresStore`: the connection between `StoreImplementsLog` and `IntakeSeam`, that the seam over the
   table keeps the promises it keeps over the log.
3. `Contracts`: lemmas on the validators of a record and a registration, beside those the policy needs.
