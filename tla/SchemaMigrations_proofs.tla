----------------------- MODULE SchemaMigrations_proofs -----------------------
(***************************************************************************)
(* SchemaMigrations, for any number of runners, services and builds.       *)
(*                                                                         *)
(* The table is the history, so a runner that compares its bundle with the *)
(* table compares it with what has run.  From the comparison to the commit *)
(* it holds the lock, and nobody else can commit: what it appends is the   *)
(* file its own bundle has next.                                           *)
(***************************************************************************)
EXTENDS SchemaMigrations, TLAPS

\* The files the runner's loop has passed have run, at their versions.
Passed(r) == \A i \in 1..(next[r] - 1) : i \in DOMAIN ran /\ i \in DOMAIN bundle[r] /\ ran[i] = bundle[r][i]

RunnerInv(r) ==
  /\ at[r] # "idle" => bundle[r] \in Bundles
  /\ at[r] = "opening" => next[r] = 1
  /\ at[r] \in {"looping", "executing"} => Passed(r)
  /\ at[r] = "looping" /\ lock = r => HasMore(r)
  /\ at[r] = "executing" =>
       lock = r /\ HasMore(r) /\ Begins(ran, bundle[r]) /\ ~IsApplied(next[r])

SchemaInv ==
  /\ TypeOK
  /\ TableIsTheHistory
  /\ OneBuildsSchema
  /\ BundleIsThere
  /\ RunnersSerialise
  /\ \A r \in Runners : RunnerInv(r)

-----------------------------------------------------------------------------
(* Beginnings and tables *)

\* What a runner or a service may have been built with, also before it is.
LEMMA BundlesAreSequences == Bundles \cup {<<>>} \subseteq Seq(Files)
<1>1. <<>> \in Seq(Files)
  OBVIOUS
<1> QED BY <1>1, BundleAssumption

LEMMA BeginsAppend ==
  ASSUME NEW S, NEW s \in Seq(S), NEW t \in Seq(S), NEW x \in S, Begins(s, t)
  PROVE  Begins(s, Append(t, x))
BY DEF Begins

LEMMA AppendBegins ==
  ASSUME NEW S, NEW s \in Seq(S), NEW t \in Seq(S), NEW x \in S, Begins(Append(s, x), t)
  PROVE  Begins(s, t)
<1>1. Len(s) <= Len(t)
  BY DEF Begins
<1>2. ASSUME NEW i \in DOMAIN s PROVE s[i] = t[i]
  <2>1. i \in DOMAIN Append(s, x) /\ Append(s, x)[i] = s[i]
    OBVIOUS
  <2> QED BY <2>1 DEF Begins
<1> QED BY <1>1, <1>2 DEF Begins

LEMMA RowsForAppend ==
  ASSUME NEW S, NEW s \in Seq(S), NEW x \in S
  PROVE  RowsFor(Append(s, x)) = RowsFor(s) \cup {[version |-> Len(s) + 1, file |-> x]}
<1>1. DOMAIN Append(s, x) = DOMAIN s \cup {Len(s) + 1}
  OBVIOUS
<1>2. \A i \in DOMAIN s : Append(s, x)[i] = s[i]
  OBVIOUS
<1>3. Append(s, x)[Len(s) + 1] = x
  OBVIOUS
<1> QED BY <1>1, <1>2, <1>3, Zenon DEF RowsFor

LEMMA SameRows ==
  ASSUME NEW S, NEW s \in Seq(S), NEW t \in Seq(S), RowsFor(s) = RowsFor(t)
  PROVE  Begins(s, t)
<1>1. ASSUME NEW i \in DOMAIN s PROVE i \in DOMAIN t /\ s[i] = t[i]
  <2>1. [version |-> i, file |-> s[i]] \in RowsFor(t)
    BY <1>1 DEF RowsFor
  <2>2. PICK j \in DOMAIN t : [version |-> i, file |-> s[i]] = [version |-> j, file |-> t[j]]
    BY <2>1 DEF RowsFor
  <2>3. i = j /\ s[i] = t[j]
    BY <2>2
  <2> QED BY <2>3
<1>2. Len(s) <= Len(t)
  <2>1. CASE Len(s) = 0
    BY <2>1
  <2>2. CASE Len(s) # 0
    <3>1. Len(s) \in DOMAIN s
      BY <2>2
    <3> QED BY <3>1, <1>1
  <2> QED BY <2>1, <2>2
<1> QED BY <1>1, <1>2 DEF Begins

\* What runners and services read of the table is what has run.
LEMMA TableSays ==
  ASSUME TableIsTheHistory, ran \in Seq(Files)
  PROVE  /\ \A n : IsApplied(n) <=> n \in DOMAIN ran
         /\ \A r \in Runners : bundle[r] \in Seq(Files) => (Agrees(r) <=> Begins(ran, bundle[r]))
<1>1. ASSUME NEW n PROVE IsApplied(n) <=> n \in DOMAIN ran
  <2>1. ASSUME n \in DOMAIN ran PROVE IsApplied(n)
    <3>1. [version |-> n, file |-> ran[n]] \in rows
      BY <2>1 DEF TableIsTheHistory, RowsFor
    <3> QED BY <3>1 DEF IsApplied
  <2>2. ASSUME IsApplied(n) PROVE n \in DOMAIN ran
    BY <2>2 DEF IsApplied, TableIsTheHistory, RowsFor
  <2> QED BY <2>1, <2>2
<1>2. ASSUME NEW r \in Runners, bundle[r] \in Seq(Files)
      PROVE  Agrees(r) <=> Begins(ran, bundle[r])
  <2>1. ASSUME Agrees(r) PROVE Begins(ran, bundle[r])
    <3>1. ASSUME NEW i \in DOMAIN ran PROVE i \in DOMAIN bundle[r] /\ ran[i] = bundle[r][i]
      <4>1. [version |-> i, file |-> ran[i]] \in rows
        BY DEF TableIsTheHistory, RowsFor
      <4> QED BY <4>1, <2>1 DEF Agrees
    <3>2. Len(ran) <= Len(bundle[r])
      <4>1. CASE Len(ran) = 0
        BY <4>1, <1>2
      <4>2. CASE Len(ran) # 0
        <5>1. Len(ran) \in DOMAIN ran
          BY <4>2
        <5> QED BY <5>1, <3>1, <1>2
      <4> QED BY <4>1, <4>2
    <3> QED BY <3>1, <3>2 DEF Begins
  <2>2. ASSUME Begins(ran, bundle[r]) PROVE Agrees(r)
    <3>1. \A i \in DOMAIN ran : i \in DOMAIN bundle[r] /\ bundle[r][i] = ran[i]
      BY <2>2, <1>2 DEF Begins
    <3> QED BY <3>1 DEF Agrees, TableIsTheHistory, RowsFor
  <2> QED BY <2>1, <2>2
<1> QED BY <1>1, <1>2

-----------------------------------------------------------------------------
(* The invariant *)

LEMMA InitSchemaInv ==
  ASSUME Init
  PROVE  SchemaInv
<1>1. TypeOK
  <2>1. ran \in Seq(Files) /\ rows \subseteq [version : Nat \ {0}, file : Files]
    BY BundlesAreSequences DEF Init
  <2>2. /\ at \in [Runners -> {"idle"} \cup Working \cup Ended]
        /\ next \in [Runners -> Nat \ {0}]
        /\ stage \in [Services -> {"down", "role", "schema", "serving", "refused"}]
    BY DEF Init
  <2>3. /\ bundle \in [Runners -> Bundles \cup {<<>>}]
        /\ build \in [Services -> Bundles \cup {<<>>}]
    BY Zenon DEF Init
  <2> QED BY <2>1, <2>2, <2>3 DEF Init, TypeOK
<1>2. TableIsTheHistory /\ OneBuildsSchema
  BY DEF Init, TableIsTheHistory, RowsFor, OneBuildsSchema
<1>3. BundleIsThere /\ RunnersSerialise
  BY DEF Init, BundleIsThere, RunnersSerialise
<1>4. \A r \in Runners : RunnerInv(r)
  BY DEF Init, RunnerInv
<1> QED BY <1>1, <1>2, <1>3, <1>4 DEF SchemaInv

\* A step of one runner that commits no file.
LEMMA QuietStep ==
  ASSUME SchemaInv, TypeOK', NEW r \in Runners,
         UNCHANGED <<rows, ran, serviceVars>>,
         \A q \in Runners \ {r} : at'[q] = at[q] /\ bundle'[q] = bundle[q] /\ next'[q] = next[q],
         \/ lock' = lock
         \/ lock = Free /\ lock' = r
         \/ lock = r /\ lock' = Free,
         RunnerInv(r)',
         at'[r] # "collided",
         at'[r] = "refused" => ~Begins(ran, bundle'[r]),
         at'[r] = "done" => Begins(bundle'[r], ran)
  PROVE  SchemaInv'
<1>1. TableIsTheHistory' /\ OneBuildsSchema'
  BY DEF SchemaInv, TableIsTheHistory, OneBuildsSchema
<1>2. BundleIsThere'
  BY DEF SchemaInv, BundleIsThere, serviceVars
<1>3. RunnersSerialise'
  BY DEF SchemaInv, RunnersSerialise
<1>4. ASSUME NEW q \in Runners PROVE RunnerInv(q)'
  <2>1. CASE q = r
    BY <2>1
  <2>2. CASE q # r
    <3>1. lock' = q <=> lock = q
      BY <2>2, BundleAssumption
    <3> QED BY <2>2, <3>1 DEF SchemaInv, RunnerInv, Passed, HasMore, IsApplied
  <2> QED BY <2>1, <2>2
<1> QED BY <1>1, <1>2, <1>3, <1>4 DEF SchemaInv

\* A step of a service: the runners and the data are as they were.
LEMMA ServiceOnly ==
  ASSUME SchemaInv, TypeOK', UNCHANGED <<dataVars, runnerVars>>,
         \A s \in Services : stage'[s] = "serving" => Begins(build'[s], ran)
  PROVE  SchemaInv'
<1>1. TableIsTheHistory' /\ OneBuildsSchema'
  BY DEF SchemaInv, TableIsTheHistory, OneBuildsSchema, dataVars
<1>2. BundleIsThere' /\ RunnersSerialise'
  BY DEF SchemaInv, BundleIsThere, RunnersSerialise, dataVars, runnerVars
<1>3. \A r \in Runners : RunnerInv(r)'
  BY DEF SchemaInv, RunnerInv, Passed, HasMore, IsApplied, dataVars, runnerVars
<1> QED BY <1>1, <1>2, <1>3 DEF SchemaInv

\* Every step of a runner but its commit.
LEMMA RunnerKeepsInv ==
  ASSUME SchemaInv, NEW r \in Runners,
         \/ \E b \in Bundles : Begin(r, b)
         \/ Bar(r) \/ Lock(r) \/ Open(r) \/ RefuseBundle(r) \/ Skip(r) \/ Execute(r)
         \/ Finish(r) \/ Fail(r) \/ Again(r)
  PROVE  SchemaInv'
<1>1. /\ TypeOK /\ RunnerInv(r) /\ TableIsTheHistory
      /\ at[r] # "collided"
      /\ at[r] = "refused" => ~Begins(ran, bundle[r])
      /\ at[r] = "done" => Begins(bundle[r], ran)
  BY DEF SchemaInv, BundleIsThere, RunnersSerialise
<1>2. /\ ran \in Seq(Files)
      /\ at[r] # "idle" => bundle[r] \in Seq(Files)
      /\ next[r] \in Nat \ {0}
      /\ r # Free
  BY <1>1, BundleAssumption DEF TypeOK, RunnerInv
<1>3. ASSUME NEW b \in Bundles, Begin(r, b) PROVE SchemaInv'
  <2>1. TypeOK'
    BY <1>1, <1>3 DEF TypeOK, Begin, Goto, Working, dataVars, serviceVars
  <2>2. at'[r] = "opening" /\ bundle'[r] = b
    BY <1>1, <1>3 DEF TypeOK, Begin, Goto
  <2> QED BY <1>1, <1>3, <2>1, <2>2, QuietStep DEF TypeOK, Begin, Goto, RunnerInv, dataVars
<1>4. ASSUME Bar(r) PROVE SchemaInv'
  <2>1. TypeOK'
    BY <1>1, <1>4 DEF TypeOK, Bar, Goto, Ended, dataVars, serviceVars
  <2>2. at[r] = "opening" /\ at'[r] = "barred" /\ bundle' = bundle
    BY <1>1, <1>4 DEF TypeOK, Bar, Goto
  <2>3. RunnerInv(r)'
    BY <1>1, <2>2 DEF RunnerInv
  <2> QED BY <1>4, <2>1, <2>2, <2>3, QuietStep DEF Bar, Goto, dataVars
<1>5. ASSUME Lock(r) PROVE SchemaInv'
  <2>1. TypeOK'
    BY <1>1, <1>5 DEF TypeOK, Lock, dataVars, serviceVars
  <2>2. RunnerInv(r)'
    BY <1>1, <1>2, <1>5 DEF Lock, AboutToBegin, RunnerInv, Passed, HasMore, IsApplied, dataVars
  <2> QED BY <1>1, <1>5, <2>1, <2>2, QuietStep DEF Lock, dataVars
<1>6. ASSUME Open(r) PROVE SchemaInv'
  <2>1. TypeOK'
    BY <1>1, <1>6 DEF TypeOK, Open, Goto, Working, serviceVars
  <2>2. at'[r] = "looping" /\ next'[r] = 1 /\ lock' = Free
    BY <1>1, <1>6 DEF TypeOK, Open, Goto, RunnerInv
  <2>3. RunnerInv(r)'
    BY <1>1, <1>2, <1>6, <2>2 DEF Open, RunnerInv, Passed
  <2> QED BY <1>6, <2>1, <2>2, <2>3, QuietStep DEF Open, Goto
<1>7. ASSUME RefuseBundle(r) PROVE SchemaInv'
  <2>1. TypeOK'
    BY <1>1, <1>7 DEF TypeOK, RefuseBundle, Goto, Ended, dataVars, serviceVars
  <2>2. at'[r] = "refused" /\ bundle' = bundle
    BY <1>1, <1>7 DEF TypeOK, RefuseBundle, Goto
  <2>3. ~Begins(ran, bundle[r])
    BY <1>1, <1>2, <1>7, TableSays DEF RefuseBundle
  <2>4. RunnerInv(r)'
    BY <1>1, <1>7, <2>2 DEF RefuseBundle, RunnerInv
  <2> QED BY <1>7, <2>1, <2>2, <2>3, <2>4, QuietStep DEF RefuseBundle, Goto, dataVars
<1>8. ASSUME Skip(r) PROVE SchemaInv'
  <2>1. TypeOK'
    BY <1>1, <1>8 DEF TypeOK, Skip, dataVars, serviceVars
  <2>2. next[r] \in DOMAIN ran /\ next[r] \in DOMAIN bundle[r] /\ ran[next[r]] = bundle[r][next[r]]
    <3>1. next[r] \in DOMAIN ran /\ Begins(ran, bundle[r])
      BY <1>1, <1>2, <1>8, TableSays DEF Skip
    <3> QED BY <1>1, <1>2, <1>8, <3>1 DEF Begins, Skip
  <2>3. at' = at /\ at[r] = "looping" /\ next'[r] = next[r] + 1 /\ bundle' = bundle /\ ran' = ran
        /\ lock' = Free
    BY <1>1, <1>8 DEF TypeOK, Skip, dataVars
  <2>4. Passed(r)'
    BY <1>1, <1>2, <2>2, <2>3 DEF RunnerInv, Passed
  <2>5. RunnerInv(r)'
    BY <1>1, <1>2, <2>3, <2>4 DEF RunnerInv
  <2> QED BY <1>8, <2>1, <2>3, <2>5, QuietStep DEF Skip, dataVars
<1>9. ASSUME Execute(r) PROVE SchemaInv'
  <2>1. TypeOK'
    BY <1>1, <1>9 DEF TypeOK, Execute, Goto, Working, dataVars, serviceVars
  <2>2. at'[r] = "executing" /\ bundle' = bundle /\ next' = next /\ UNCHANGED <<rows, ran, lock>>
    BY <1>1, <1>9 DEF TypeOK, Execute, Goto, dataVars
  <2>3. Begins(ran, bundle[r])
    BY <1>1, <1>2, <1>9, TableSays DEF Execute
  <2>4. RunnerInv(r)'
    BY <1>1, <1>9, <2>2, <2>3 DEF Execute, RunnerInv, Passed, HasMore, IsApplied
  <2> QED BY <1>9, <2>1, <2>2, <2>4, QuietStep DEF Execute, Goto
<1>10. ASSUME Finish(r) PROVE SchemaInv'
  <2>1. TypeOK'
    BY <1>1, <1>10 DEF TypeOK, Finish, Goto, Ended, dataVars, serviceVars
  <2>2. at'[r] = "done" /\ bundle' = bundle
    BY <1>1, <1>10 DEF TypeOK, Finish, Goto
  <2>3. Begins(bundle[r], ran)
    <3>1. Len(bundle[r]) < next[r]
      BY <1>2, <1>10 DEF Finish, HasMore
    <3>2. \A i \in DOMAIN bundle[r] : i \in DOMAIN ran /\ bundle[r][i] = ran[i]
      BY <1>1, <1>2, <1>10, <3>1 DEF Finish, RunnerInv, Passed
    <3>3. Len(bundle[r]) <= Len(ran)
      <4>1. CASE Len(bundle[r]) = 0
        BY <1>2, <4>1
      <4>2. CASE Len(bundle[r]) # 0
        <5>1. Len(bundle[r]) \in DOMAIN bundle[r]
          BY <1>2, <1>10, <4>2 DEF Finish
        <5> QED BY <1>2, <3>2, <5>1
      <4> QED BY <4>1, <4>2
    <3> QED BY <3>2, <3>3 DEF Begins
  <2>4. RunnerInv(r)'
    BY <1>1, <1>10, <2>2 DEF Finish, RunnerInv
  <2> QED BY <1>10, <2>1, <2>2, <2>3, <2>4, QuietStep DEF Finish, Goto, dataVars
<1>11. ASSUME Fail(r) PROVE SchemaInv'
  <2>1. TypeOK'
    BY <1>1, <1>11 DEF TypeOK, Fail, Goto, Ended, dataVars, serviceVars
  <2>2. at[r] # "idle" /\ at'[r] = "failed" /\ bundle' = bundle
    BY <1>1, <1>11 DEF TypeOK, Fail, Goto, Working
  <2>3. RunnerInv(r)'
    BY <1>1, <2>2 DEF RunnerInv
  <2> QED BY <1>11, <2>1, <2>2, <2>3, QuietStep DEF Fail, Goto, dataVars
<1>12. ASSUME Again(r) PROVE SchemaInv'
  <2>1. TypeOK'
    BY <1>1, <1>12 DEF TypeOK, Again, Goto, dataVars, serviceVars
  <2>2. at'[r] = "idle"
    BY <1>1, <1>12 DEF TypeOK, Again, Goto
  <2>3. RunnerInv(r)'
    BY <2>2 DEF RunnerInv
  <2> QED BY <1>12, <2>1, <2>2, <2>3, QuietStep DEF Again, Goto, dataVars
<1> QED BY <1>3, <1>4, <1>5, <1>6, <1>7, <1>8, <1>9, <1>10, <1>11, <1>12

\* The commit: nobody else is in a transaction, and the file is the one that comes next.
LEMMA CommitKeepsInv ==
  ASSUME SchemaInv, NEW r \in Runners, Commit(r)
  PROVE  SchemaInv'
<1> DEFINE file == bundle[r][next[r]]
<1>1. /\ TypeOK /\ TableIsTheHistory /\ RunnerInv(r)
      /\ at[r] = "executing" /\ lock = r /\ HasMore(r)
      /\ Begins(ran, bundle[r]) /\ ~IsApplied(next[r]) /\ Passed(r)
  BY DEF SchemaInv, RunnerInv, Commit
<1>2. /\ ran \in Seq(Files) /\ bundle[r] \in Seq(Files) /\ bundle[r] \in Bundles
      /\ next[r] \in Nat \ {0} /\ next[r] \in 1..Len(bundle[r]) /\ file \in Files
  BY <1>1, BundleAssumption DEF TypeOK, RunnerInv, HasMore
<1>3. next[r] = Len(ran) + 1
  <2>1. next[r] \notin DOMAIN ran
    BY <1>1, <1>2, TableSays
  <2>2. \A i \in 1..(next[r] - 1) : i \in DOMAIN ran
    BY <1>1 DEF Passed
  <2>3. next[r] > Len(ran)
    BY <1>2, <2>1
  <2>4. CASE next[r] = 1
    BY <1>2, <2>3, <2>4
  <2>5. CASE next[r] # 1
    <3>1. next[r] - 1 \in DOMAIN ran
      BY <1>2, <2>2, <2>5
    <3> QED BY <1>2, <2>3, <3>1
  <2> QED BY <2>4, <2>5
<1>4. /\ rows' = rows \cup {[version |-> next[r], file |-> file]}
      /\ ran' = Append(ran, file)
      /\ next' = [next EXCEPT ![r] = @ + 1]
      /\ at' = [at EXCEPT ![r] = "looping"]
      /\ lock' = Free
      /\ UNCHANGED <<bundle, serviceVars>>
  BY <1>1 DEF Commit, Goto
<1>5. TypeOK'
  <2>1. rows' \subseteq [version : Nat \ {0}, file : Files] /\ ran' \in Seq(Files)
    BY <1>1, <1>2, <1>4 DEF TypeOK
  <2> QED BY <1>1, <1>4, <2>1 DEF TypeOK, Commit, Working, serviceVars
<1>6. TableIsTheHistory'
  BY <1>1, <1>2, <1>3, <1>4, RowsForAppend DEF TableIsTheHistory, RowsFor
<1>7. Begins(ran', bundle[r])
  BY <1>1, <1>2, <1>3, <1>4 DEF Begins
<1>8. OneBuildsSchema'
  BY <1>2, <1>7 DEF OneBuildsSchema
<1>9. \A q \in Runners \ {r} : at'[q] = at[q] /\ bundle'[q] = bundle[q] /\ next'[q] = next[q]
  BY <1>1, <1>4 DEF TypeOK
<1>10. at'[r] = "looping" /\ next'[r] = next[r] + 1 /\ bundle'[r] = bundle[r]
  BY <1>1, <1>4 DEF TypeOK
<1>11. BundleIsThere'
  <2>1. ASSUME NEW q \in Runners, at'[q] = "done" PROVE Begins(bundle'[q], ran')
    <3>1. q # r /\ at[q] = "done" /\ bundle'[q] = bundle[q]
      BY <1>9, <1>10, <2>1
    <3>2. bundle[q] \in Seq(Files) /\ Begins(bundle[q], ran)
      BY <3>1, BundleAssumption DEF SchemaInv, RunnerInv, BundleIsThere
    <3> QED BY <1>2, <1>4, <3>1, <3>2, BeginsAppend
  <2>2. ASSUME NEW s \in Services, stage'[s] = "serving" PROVE Begins(build'[s], ran')
    <3>1. Begins(build[s], ran) /\ build[s] \in Seq(Files) /\ build'[s] = build[s]
      BY <1>1, <1>4, <2>2, BundlesAreSequences DEF SchemaInv, BundleIsThere, TypeOK, serviceVars
    <3> QED BY <1>2, <1>4, <3>1, BeginsAppend
  <2> QED BY <2>1, <2>2 DEF BundleIsThere
<1>12. RunnersSerialise'
  <2>1. ASSUME NEW q \in Runners, at'[q] = "refused" PROVE ~Begins(ran', bundle'[q])
    <3>1. at[q] = "refused" /\ bundle'[q] = bundle[q]
      BY <1>9, <1>10, <2>1
    <3>2. ~Begins(ran, bundle[q]) /\ bundle[q] \in Seq(Files)
      BY <3>1, BundleAssumption DEF SchemaInv, RunnerInv, RunnersSerialise
    <3> QED BY <1>2, <1>4, <3>1, <3>2, AppendBegins
  <2>2. ASSUME NEW q \in Runners PROVE at'[q] # "collided"
    BY <1>9, <1>10 DEF SchemaInv, RunnersSerialise
  <2> QED BY <2>1, <2>2 DEF RunnersSerialise
<1>13. ASSUME NEW q \in Runners PROVE RunnerInv(q)'
  <2>1. CASE q = r
    <3>1. Passed(r)'
      BY <1>1, <1>2, <1>3, <1>4, <1>10 DEF Passed
    <3> QED BY <1>2, <1>4, <1>10, <2>1, <3>1, BundleAssumption DEF RunnerInv
  <2>2. CASE q # r
    <3>1. /\ at'[q] = at[q] /\ bundle'[q] = bundle[q] /\ next'[q] = next[q]
          /\ RunnerInv(q) /\ at[q] # "executing" /\ lock' # q
      BY <1>1, <1>4, <1>9, <2>2, BundleAssumption DEF SchemaInv, RunnerInv
    <3>2. \A i \in DOMAIN ran : i \in DOMAIN ran' /\ ran'[i] = ran[i]
      BY <1>2, <1>4
    <3>3. Passed(q) => Passed(q)'
      BY <3>1, <3>2 DEF Passed
    <3> QED BY <3>1, <3>3 DEF RunnerInv
  <2> QED BY <2>1, <2>2
<1> QED BY <1>5, <1>6, <1>8, <1>11, <1>12, <1>13 DEF SchemaInv

LEMMA ServiceKeepsInv ==
  ASSUME SchemaInv, NEW s \in Services,
         (\E b \in Bundles : Boot(s, b)) \/ ServiceStep(s) \/ Stop(s)
  PROVE  SchemaInv'
<1>1. /\ TypeOK /\ TableIsTheHistory /\ ran \in Seq(Files)
      /\ \A t \in Services : stage[t] = "serving" => Begins(build[t], ran)
  BY DEF SchemaInv, BundleIsThere, TypeOK
<1>2. TypeOK'
  BY <1>1 DEF TypeOK, Boot, ServiceStep, CheckRole, Serve, RefuseStart, Stop, dataVars, runnerVars
<1>3. CASE Serve(s)
  <2>1. Begins(build[s], ran)
    <3>1. build[s] \in Seq(Files) /\ RowsFor(build[s]) = RowsFor(ran)
      BY <1>1, <1>3, BundlesAreSequences DEF TypeOK, Serve, IsCurrent, TableIsTheHistory
    <3> QED BY <1>1, <3>1, SameRows
  <2>2. \A t \in Services : stage'[t] = "serving" => Begins(build'[t], ran)
    BY <1>1, <1>3, <2>1 DEF TypeOK, Serve
  <2> QED BY <1>2, <1>3, <2>2, ServiceOnly DEF Serve
<1>4. CASE (\E b \in Bundles : Boot(s, b)) \/ CheckRole(s) \/ RefuseStart(s) \/ Stop(s)
  <2>1. \A t \in Services : stage'[t] = "serving" => stage[t] = "serving" /\ build'[t] = build[t]
    BY <1>1, <1>4 DEF TypeOK, Boot, CheckRole, RefuseStart, Stop
  <2>2. \A t \in Services : stage'[t] = "serving" => Begins(build'[t], ran)
    BY <1>1, <2>1
  <2> QED BY <1>2, <1>4, <2>2, ServiceOnly DEF Boot, CheckRole, RefuseStart, Stop
<1> QED BY <1>3, <1>4 DEF ServiceStep

LEMMA NextKeepsInv ==
  ASSUME SchemaInv, [Next]_vars
  PROVE  SchemaInv'
<1>1. CASE UNCHANGED vars
  <2>1. UNCHANGED <<dataVars, runnerVars>> /\ UNCHANGED serviceVars
    BY <1>1 DEF vars
  <2>2. TypeOK'
    BY <2>1 DEF SchemaInv, TypeOK, dataVars, runnerVars, serviceVars
  <2> QED BY <2>1, <2>2, ServiceOnly DEF SchemaInv, BundleIsThere, serviceVars
<1>2. CASE Next
  BY <1>2, RunnerKeepsInv, CommitKeepsInv, ServiceKeepsInv DEF Next, RunnerStep
<1> QED BY <1>1, <1>2

\* The migrations' inductive invariant.
THEOREM SchemaInvariant == Spec => []SchemaInv
<1> QED BY InitSchemaInv, NextKeepsInv, PTL DEF Spec

-----------------------------------------------------------------------------
\* The table, the lock, the runners and the services keep their types.
THEOREM SchemaTyped == Spec => []TypeOK
<1>1. SchemaInv => TypeOK
  BY DEF SchemaInv
<1> QED BY <1>1, SchemaInvariant, PTL

\* schema_migrations says exactly what has run, however many runners fail.
THEOREM SchemaTableIsTheHistory == Spec => []TableIsTheHistory
<1>1. SchemaInv => TableIsTheHistory
  BY DEF SchemaInv
<1> QED BY <1>1, SchemaInvariant, PTL

\* However many builds take turns, what has run is how one of them begins.
THEOREM SchemaOfOneBuild == Spec => []OneBuildsSchema
<1>1. SchemaInv => OneBuildsSchema
  BY DEF SchemaInv
<1> QED BY <1>1, SchemaInvariant, PTL

\* Whoever says it is done or serves has its bundle in the schema, and keeps it there.
THEOREM SchemaHasTheBundle == Spec => []BundleIsThere
<1>1. SchemaInv => BundleIsThere
  BY DEF SchemaInv
<1> QED BY <1>1, SchemaInvariant, PTL

\* No runner ends on another one's row, or is refused by a schema of its own build.
THEOREM SchemaRunnersSerialise == Spec => []RunnersSerialise
<1>1. SchemaInv => RunnersSerialise
  BY DEF SchemaInv
<1> QED BY <1>1, SchemaInvariant, PTL

=============================================================================
