-------------------------- MODULE SchemaMigrations --------------------------
(***************************************************************************)
(* The migration runner (packages/evidence-store/src/migrate.mjs) and the  *)
(* checks a service makes of the schema before it listens                  *)
(* (database-config.mjs openDurableEvidenceStore, postgres-store.mjs).     *)
(*                                                                         *)
(* Runners and services of several builds meet in one database.  A runner  *)
(* holds the advisory lock for one transaction at a time: between two      *)
(* files any other runner may have had its turn.  A transaction's effects  *)
(* are there when it commits or not at all; whatever ends a runner early   *)
(* rolls its transaction back and releases the lock with it.               *)
(***************************************************************************)
EXTENDS Naturals, Sequences

CONSTANTS
  Runners,    \* the invocations of `migrate` that can run at one time
  Services,   \* the services that can start at one time
  Files,      \* the migration files of all builds: a name and its bytes
  Bundles,    \* the files each build bundles, by version
  Free        \* the lock's holder when it has none

ASSUME BundleAssumption == Bundles \subseteq Seq(Files) /\ Free \notin Runners

VARIABLES
  present,    \* evidence.schema_migrations exists
  rows,       \* its committed rows
  ran,        \* history: the files whose transactions committed, in order
  lock,       \* who holds the advisory lock of the transaction
  at,         \* where each runner is
  bundle,     \* the files it was built with
  next,       \* the version its loop has come to
  stage,      \* where each service is
  build       \* the files it was built with

dataVars == <<present, rows, ran>>
runnerVars == <<lock, at, bundle, next>>
serviceVars == <<stage, build>>
vars == <<dataVars, runnerVars, serviceVars>>

Working == {"opening", "looping", "executing"}
Ended == {"done", "refused", "barred", "collided", "failed"}

\* s is how t begins.
Begins(s, t) == Len(s) <= Len(t) /\ \A i \in DOMAIN s : s[i] = t[i]

RowsFor(files) == {[version |-> i, file |-> files[i]] : i \in DOMAIN files}

TypeOK ==
  /\ present \in BOOLEAN
  /\ rows \subseteq [version : Nat \ {0}, file : Files]
  /\ ran \in Seq(Files)
  /\ lock \in Runners \cup {Free}
  /\ at \in [Runners -> {"idle"} \cup Working \cup Ended]
  /\ bundle \in [Runners -> Bundles \cup {<<>>}]
  /\ next \in [Runners -> Nat \ {0}]
  /\ stage \in [Services -> {"down", "role", "schema", "serving", "refused"}]
  /\ build \in [Services -> Bundles \cup {<<>>}]

Init ==
  /\ present = FALSE
  /\ rows = {}
  /\ ran = <<>>
  /\ lock = Free
  /\ at = [r \in Runners |-> "idle"]
  /\ bundle = [r \in Runners |-> <<>>]
  /\ next = [r \in Runners |-> 1]
  /\ stage = [s \in Services |-> "down"]
  /\ build = [s \in Services |-> <<>>]

-----------------------------------------------------------------------------
(* A runner *)

Goto(r, place) == at' = [at EXCEPT ![r] = place]

Begin(r, b) ==
  /\ at[r] = "idle"
  /\ Goto(r, "opening")
  /\ bundle' = [bundle EXCEPT ![r] = b]
  /\ next' = [next EXCEPT ![r] = 1]
  /\ UNCHANGED <<dataVars, lock, serviceVars>>

\* Not the owner, or a superuser: refused before anything is created.
Bar(r) ==
  /\ at[r] = "opening" /\ lock # r
  /\ Goto(r, "barred")
  /\ UNCHANGED <<dataVars, lock, bundle, next, serviceVars>>

HasMore(r) == next[r] \in DOMAIN bundle[r]

AboutToBegin(r) == at[r] = "opening" \/ (at[r] = "looping" /\ HasMore(r))

\* Mutant: nobody waits.
LockAnyway(r) ==
  /\ lock # r
  /\ AboutToBegin(r)
  /\ lock' = r
  /\ UNCHANGED <<dataVars, at, bundle, next, serviceVars>>

\* The first statement of each of its transactions.
Lock(r) ==
  /\ lock = Free
  /\ AboutToBegin(r)
  /\ lock' = r
  /\ UNCHANGED <<dataVars, at, bundle, next, serviceVars>>

Open(r) ==
  /\ at[r] = "opening" /\ lock = r
  /\ present' = TRUE
  /\ Goto(r, "looping")
  /\ lock' = Free
  /\ UNCHANGED <<rows, ran, bundle, next, serviceVars>>

\* Mutant: the rows' versions are compared and their checksums are not.
AgreesByVersion(r) == \A row \in rows : row.version \in DOMAIN bundle[r]

\* verifyApplied(): every row is a file of the bundle, byte for byte.
Agrees(r) ==
  \A row \in rows : row.version \in DOMAIN bundle[r] /\ bundle[r][row.version] = row.file

IsApplied(version) == \E row \in rows : row.version = version

RefuseBundle(r) ==
  /\ at[r] = "looping" /\ lock = r
  /\ ~Agrees(r)
  /\ Goto(r, "refused")
  /\ lock' = Free
  /\ UNCHANGED <<dataVars, bundle, next, serviceVars>>

Skip(r) ==
  /\ at[r] = "looping" /\ lock = r
  /\ Agrees(r) /\ IsApplied(next[r])
  /\ next' = [next EXCEPT ![r] = @ + 1]
  /\ lock' = Free
  /\ UNCHANGED <<dataVars, at, bundle, serviceVars>>

Execute(r) ==
  /\ at[r] = "looping" /\ lock = r
  /\ Agrees(r) /\ ~IsApplied(next[r])
  /\ Goto(r, "executing")
  /\ UNCHANGED <<dataVars, lock, bundle, next, serviceVars>>

\* Mutant: the file commits, its row is left to the next run.
CommitFileAlone(r) ==
  /\ at[r] = "executing"
  /\ ran' = Append(ran, bundle[r][next[r]])
  /\ next' = [next EXCEPT ![r] = @ + 1]
  /\ Goto(r, "looping")
  /\ lock' = Free
  /\ UNCHANGED <<present, rows, bundle, serviceVars>>

\* Mutant: versions count from zero.
CommitFromZero(r) ==
  /\ at[r] = "executing"
  /\ rows' = rows \cup {[version |-> next[r] - 1, file |-> bundle[r][next[r]]]}
  /\ ran' = Append(ran, bundle[r][next[r]])
  /\ next' = [next EXCEPT ![r] = @ + 1]
  /\ Goto(r, "looping")
  /\ lock' = Free
  /\ UNCHANGED <<present, bundle, serviceVars>>

\* The file and its row commit together, or the row's primary key ends both.
Commit(r) ==
  /\ at[r] = "executing"
  /\ IF IsApplied(next[r])
       THEN Goto(r, "collided") /\ UNCHANGED <<rows, ran, next>>
       ELSE /\ rows' = rows \cup {[version |-> next[r], file |-> bundle[r][next[r]]]}
            /\ ran' = Append(ran, bundle[r][next[r]])
            /\ next' = [next EXCEPT ![r] = @ + 1]
            /\ Goto(r, "looping")
  /\ lock' = Free
  /\ UNCHANGED <<present, bundle, serviceVars>>

Finish(r) ==
  /\ at[r] = "looping" /\ lock # r
  /\ ~HasMore(r)
  /\ Goto(r, "done")
  /\ UNCHANGED <<dataVars, lock, bundle, next, serviceVars>>

\* Mutant: a lock of the session, which a pool keeps.
FailKeepingLock(r) ==
  /\ at[r] \in Working
  /\ Goto(r, "failed")
  /\ UNCHANGED <<dataVars, lock, bundle, next, serviceVars>>

\* A statement fails, the connection is lost or the process dies.
Fail(r) ==
  /\ at[r] \in Working
  /\ Goto(r, "failed")
  /\ lock' = IF lock = r THEN Free ELSE lock
  /\ UNCHANGED <<dataVars, bundle, next, serviceVars>>

\* The operator runs it again, perhaps from another build.
Again(r) ==
  /\ at[r] \in Ended
  /\ Goto(r, "idle")
  /\ bundle' = [bundle EXCEPT ![r] = <<>>]
  /\ next' = [next EXCEPT ![r] = 1]
  /\ UNCHANGED <<dataVars, lock, serviceVars>>

-----------------------------------------------------------------------------
(* A service *)

Boot(s, b) ==
  /\ stage[s] = "down"
  /\ stage' = [stage EXCEPT ![s] = "role"]
  /\ build' = [build EXCEPT ![s] = b]
  /\ UNCHANGED <<dataVars, runnerVars>>

\* assertServiceRole(): the tables are there, which the first file creates, and the
\* role may do what the service does and no more.
CheckRole(s) ==
  /\ stage[s] = "role"
  /\ ran # <<>>
  /\ stage' = [stage EXCEPT ![s] = "schema"]
  /\ UNCHANGED <<dataVars, runnerVars, build>>

\* Mutant: as many rows as files.
SameLength(files) ==
  /\ \A i \in DOMAIN files : IsApplied(i)
  /\ \A row \in rows : row.version \in DOMAIN files

IsCurrent(files) == rows = RowsFor(files)

\* assertSchemaCurrent(): what is applied is exactly what is bundled.
Serve(s) ==
  /\ stage[s] = "schema"
  /\ present /\ IsCurrent(build[s])
  /\ stage' = [stage EXCEPT ![s] = "serving"]
  /\ UNCHANGED <<dataVars, runnerVars, build>>

\* StartupRefused, of whatever kind, the unreachable server among them.
RefuseStart(s) ==
  /\ stage[s] \in {"role", "schema"}
  /\ stage' = [stage EXCEPT ![s] = "refused"]
  /\ UNCHANGED <<dataVars, runnerVars, build>>

Stop(s) ==
  /\ stage[s] \in {"serving", "refused"}
  /\ stage' = [stage EXCEPT ![s] = "down"]
  /\ build' = [build EXCEPT ![s] = <<>>]
  /\ UNCHANGED <<dataVars, runnerVars>>

-----------------------------------------------------------------------------

RunnerStep(r) ==
  \/ Bar(r)
  \/ Open(r)
  \/ RefuseBundle(r)
  \/ Skip(r)
  \/ Execute(r)
  \/ Commit(r)
  \/ Finish(r)

ServiceStep(s) == CheckRole(s) \/ Serve(s) \/ RefuseStart(s)

Next ==
  \/ \E r \in Runners :
       \/ \E b \in Bundles : Begin(r, b)
       \/ Lock(r)
       \/ RunnerStep(r)
       \/ Fail(r)
       \/ Again(r)
  \/ \E s \in Services :
       \/ \E b \in Bundles : Boot(s, b)
       \/ ServiceStep(s)
       \/ Stop(s)

Spec == Init /\ [][Next]_vars

\* The server answers, and serves those who wait for the lock in turn.
FairSpec ==
  /\ Spec
  /\ \A r \in Runners : WF_vars(RunnerStep(r)) /\ SF_vars(Lock(r))

-----------------------------------------------------------------------------
(* Properties *)

\* The table says exactly which files have run, in which order and each once, through
\* runners that fail between or in their transactions.
TableIsTheHistory == rows = RowsFor(ran)

\* What has run is how one build's bundle begins: runners of different builds, taking
\* turns at the lock, never leave a schema made of both.
OneBuildsSchema == ran # <<>> => \E b \in Bundles : Begins(ran, b)

\* A runner that says it is done, and a service that serves, have their whole bundle in
\* the schema, whichever builds have run since.
BundleIsThere ==
  /\ \A r \in Runners : at[r] = "done" => Begins(bundle[r], ran)
  /\ \A s \in Services : stage[s] = "serving" => Begins(build[s], ran)

\* Two runners serialise instead of racing: none ends on a row another one inserted
\* meanwhile, and one is refused only for a schema that is not its own build's.
RunnersSerialise ==
  \A r \in Runners :
    /\ at[r] # "collided"
    /\ at[r] = "refused" => ~Begins(ran, bundle[r])

\* Every runner ends, also when the one that held the lock has died.
EveryRunnerEnds == \A r \in Runners : at[r] \in Working ~> at[r] \in Ended

=============================================================================
