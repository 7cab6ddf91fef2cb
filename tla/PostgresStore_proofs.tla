------------------------ MODULE PostgresStore_proofs ------------------------
(***************************************************************************)
(* The PostgreSQL adapter implements the append-only log, for any calls,   *)
(* keys and bodies and for both settings of requireWorkspace.              *)
(***************************************************************************)
EXTENDS PostgresStore, TLAPS

\* What a call's client side, its statement and its answer say of each other.
CallInv(c) ==
  /\ args[c].body # NoBody <=> client[c] # "idle"
  /\ client[c] \in {"idle", "called"} => insert[c] = "none"
  /\ client[c] = "looking" \/ found[c] # "none" => insert[c] = "skipped"
  /\ insert[c] = "skipped" => RowsOf(args[c].key) # {}
  /\ found[c] # "lost"
  /\ answer[c] # "none" <=> client[c] = "answered"
  /\ answer[c] = "appended" => insert[c] = "committed"

\* Which statements have drawn an id, and that no id is drawn twice.
DrawnInv(c) ==
  /\ drawn[c] < nextId
  /\ insert[c] \in {"none", "sent"} => drawn[c] = 0
  /\ insert[c] \in {"running", "committed"} => drawn[c] > 0
  /\ \A d \in Calls : drawn[c] = drawn[d] /\ drawn[c] > 0 => c = d

\* An append is only ever earlier than one whose id is still to be drawn.
EarlierInv(c) ==
  \A d \in earlier[c] :
    /\ insert[d] = "committed"
    /\ drawn[c] = 0 \/ drawn[d] < drawn[c]

RowInv(i) ==
  /\ insert[table[i].by] = "committed"
  /\ table[i].id = drawn[table[i].by]

StoreInv ==
  /\ TypeOK
  /\ \A c \in Calls : CallInv(c) /\ DrawnInv(c) /\ EarlierInv(c)
  /\ \A i \in DOMAIN table : RowInv(i)

-----------------------------------------------------------------------------
\* What the type of the table says of one row.
LEMMA RowTyped ==
  ASSUME TypeOK, NEW i \in DOMAIN table
  PROVE  /\ table[i] \in Row
         /\ table[i].id \in Nat \ {0} /\ table[i].key \in Key
         /\ table[i].by \in Calls /\ table[i].evidence \in Payload
         /\ table[i].names \in BOOLEAN /\ table[i].redacted \in BOOLEAN
<1>1. table[i] \in Row
  BY DEF TypeOK
<1> QED BY <1>1 DEF Row

\* Proposed rows are rows.
LEMMA ProposalTyped ==
  ASSUME TypeOK, NEW i \in DOMAIN table, NEW new \in Proposals(table[i])
  PROVE  /\ Guarded(new) \in Row
         /\ GuardAllows(table[i], new) =>
              /\ Guarded(new).id = table[i].id /\ Guarded(new).key = table[i].key
              /\ Guarded(new).by = table[i].by /\ Guarded(new).evidence = NoBody
  BY RowTyped DEF Proposals, Guarded, GuardAllows, Row, TypeOK

\* What an UPDATE the trigger lets through leaves alone.
LEMMA UpdateKeeps ==
  ASSUME TypeOK, NEW i \in DOMAIN table, NEW new \in Proposals(table[i]), Update(i, new)
  PROVE  /\ table' \in Seq(Row)
         /\ DOMAIN table' = DOMAIN table
         /\ \A j \in DOMAIN table :
              /\ table'[j].key = table[j].key /\ table'[j].id = table[j].id
              /\ table'[j].by = table[j].by
         /\ UNCHANGED <<nextId, insert, drawn, args, client, found, answer, earlier>>
<1>1. Guarded(new) \in Row
  BY ProposalTyped
<1>2. table' = [table EXCEPT ![i] = Guarded(new)]
  BY DEF Update
<1>3. table' \in Seq(Row)
  BY <1>1, <1>2 DEF TypeOK
<1>4. /\ DOMAIN table' = DOMAIN table
      /\ \A j \in DOMAIN table : table'[j] = IF j = i THEN Guarded(new) ELSE table[j]
  BY <1>2 DEF TypeOK
<1> QED BY <1>3, <1>4, ProposalTyped DEF Update

\* What a committed INSERT adds.
LEMMA CommitAdds ==
  ASSUME StoreInv, NEW c \in Calls, CommitInsert(c)
  PROVE  /\ table' \in Seq(Row)
         /\ DOMAIN table' = DOMAIN table \cup {Len(table) + 1}
         /\ Len(table) + 1 \notin DOMAIN table
         /\ \A j \in DOMAIN table : table'[j] = table[j]
         /\ table'[Len(table) + 1] = NewRow(c)
<1>1. NewRow(c) \in Row
  BY DEF StoreInv, DrawnInv, TypeOK, CommitInsert, CallInv, NewRow, Row, Payload
<1>2. table' = Append(table, NewRow(c))
  BY DEF CommitInsert
<1>3. table \in Seq(Row)
  BY DEF StoreInv, TypeOK
<1> QED BY <1>1, <1>2, <1>3

-----------------------------------------------------------------------------
\* A new table and a process that has made no call satisfy the invariant.
LEMMA InitStoreInv == Init => StoreInv
<1> SUFFICES ASSUME Init PROVE StoreInv
  OBVIOUS
<1>1. TypeOK
  BY DEF Init, TypeOK, Key, Payload, Row
<1>2. \A c \in Calls : CallInv(c) /\ DrawnInv(c) /\ EarlierInv(c)
  <2> SUFFICES ASSUME NEW c \in Calls PROVE CallInv(c) /\ DrawnInv(c) /\ EarlierInv(c)
    OBVIOUS
  <2>1. CallInv(c)
    BY DEF Init, CallInv
  <2>2. DrawnInv(c)
    BY DEF Init, DrawnInv
  <2>3. EarlierInv(c)
    BY DEF Init, EarlierInv
  <2> QED BY <2>1, <2>2, <2>3
<1>3. \A i \in DOMAIN table : RowInv(i)
  BY DEF Init
<1> QED BY <1>1, <1>2, <1>3 DEF StoreInv

\* Making a call keeps the invariant.
LEMMA CallAppendInv ==
  ASSUME StoreInv, NEW c \in Calls, NEW k \in Key, NEW b \in Bodies, CallAppend(c, k, b)
  PROVE  StoreInv'
<1> USE DEF StoreInv
<1>1. /\ UNCHANGED <<table, audit, nextId, insert, drawn, found, answer>>
      /\ client[c] = "idle" /\ insert[c] = "none" /\ drawn[c] = 0
      /\ client' = [client EXCEPT ![c] = "called"]
      /\ args' = [args EXCEPT ![c] = [key |-> k, body |-> b]]
      /\ earlier' = [earlier EXCEPT ![c] = {d \in Calls : answer[d] = "appended"}]
  BY DEF CallAppend, serverVars, CallInv, DrawnInv
<1>2. TypeOK'
  BY <1>1 DEF TypeOK, Payload
<1>3. ASSUME NEW d \in Calls PROVE CallInv(d)'
  <2>1. CASE d = c
    BY <2>1, <1>1, NullAssumption DEF CallInv, TypeOK
  <2>2. CASE d # c
    BY <2>2, <1>1 DEF CallInv, TypeOK, RowsOf
  <2> QED BY <2>1, <2>2
<1>4. ASSUME NEW d \in Calls PROVE DrawnInv(d)'
  BY <1>1 DEF DrawnInv
<1>5. ASSUME NEW d \in Calls PROVE EarlierInv(d)'
  <2>1. CASE d = c
    BY <2>1, <1>1 DEF EarlierInv, CallInv, TypeOK
  <2>2. CASE d # c
    BY <2>2, <1>1 DEF EarlierInv, TypeOK
  <2> QED BY <2>1, <2>2
<1>6. \A i \in DOMAIN table' : RowInv(i)'
  BY <1>1 DEF RowInv
<1> QED BY <1>2, <1>3, <1>4, <1>5, <1>6

\* The adapter's own steps, a crash and the SELECT touch no row and no id.
LEMMA ClientInv ==
  ASSUME StoreInv, NEW c \in Calls,
         \/ RefuseAppend(c) \/ ReturnAppended(c) \/ SendLookup(c) \/ ReturnFound(c)
         \/ GiveUp(c) \/ Crash(c) \/ Lookup(c)
  PROVE  StoreInv'
<1> USE DEF StoreInv
<1>1. UNCHANGED <<table, audit, nextId, insert, drawn, args, earlier>>
  BY DEF RefuseAppend, ReturnAppended, SendLookup, ReturnFound, GiveUp, Crash, Lookup, Return,
         serverVars
<1>2. /\ TypeOK'
      /\ \A d \in Calls : d # c => /\ client'[d] = client[d] /\ found'[d] = found[d]
                                   /\ answer'[d] = answer[d]
      /\ CallInv(c)'
  <2>0. RowsOf(args[c].key)' = RowsOf(args[c].key)
    BY <1>1 DEF RowsOf
  <2> USE DEF TypeOK, CallInv
  <2>a. ASSUME NEW outcome \in {"appended", "duplicate", "conflict", "fault"},
               Return(c, outcome), client[c] \in {"called", "inserting", "looking"},
               client[c] \in {"called", "looking"} => outcome # "appended",
               client[c] = "inserting" /\ outcome = "appended" => insert[c] = "committed"
        PROVE  /\ TypeOK'
               /\ \A d \in Calls : d # c => /\ client'[d] = client[d] /\ found'[d] = found[d]
                                            /\ answer'[d] = answer[d]
               /\ CallInv(c)'
    <3>1. /\ client' = [client EXCEPT ![c] = "answered"]
          /\ answer' = [answer EXCEPT ![c] = outcome]
          /\ found' = found
      BY <2>a DEF Return
    <3>3. TypeOK'
      BY <3>1, <1>1
    <3>4. /\ client'[c] = "answered" /\ answer'[c] = outcome /\ found'[c] = found[c]
          /\ \A d \in Calls : d # c => /\ client'[d] = client[d] /\ found'[d] = found[d]
                                       /\ answer'[d] = answer[d]
      BY <3>1
    <3>5. CallInv(c)'
      BY <3>4, <1>1, <2>0, <2>a
    <3> QED BY <3>3, <3>4, <3>5
  <2>1. CASE RefuseAppend(c)
    BY <2>1, <2>a DEF RefuseAppend
  <2>2. CASE ReturnAppended(c)
    BY <2>2, <2>a DEF ReturnAppended
  <2>3. CASE SendLookup(c)
    BY <2>3, <1>1, <2>0 DEF SendLookup
  <2>4. CASE ReturnFound(c)
    BY <2>4, <2>a DEF ReturnFound
  <2>5. CASE GiveUp(c)
    BY <2>5, <2>a DEF GiveUp
  <2>6. CASE Crash(c)
    BY <2>6, <1>1, <2>0 DEF Crash
  <2>7. CASE Lookup(c)
    <3>1. RowsOf(args[c].key) # {} /\ insert[c] = "skipped"
      BY <2>7 DEF Lookup
    <3>2. found' = [found EXCEPT ![c] = Verdict(c, CHOOSE i \in RowsOf(args[c].key) : TRUE)]
      BY <2>7, <3>1 DEF Lookup
    <3>3. Verdict(c, CHOOSE i \in RowsOf(args[c].key) : TRUE) \in {"duplicate", "conflict"}
      BY DEF Verdict
    <3>4. client' = client /\ answer' = answer /\ client[c] = "looking"
      BY <2>7 DEF Lookup
    <3> QED BY <3>1, <3>2, <3>3, <3>4, <2>0, <1>1
  <2> QED BY <2>1, <2>2, <2>3, <2>4, <2>5, <2>6, <2>7
<1>4. \A d \in Calls : CallInv(d)'
  BY <1>1, <1>2 DEF CallInv, RowsOf
<1>5. \A d \in Calls : DrawnInv(d)' /\ EarlierInv(d)'
  BY <1>1 DEF DrawnInv, EarlierInv
<1>6. \A i \in DOMAIN table' : RowInv(i)'
  BY <1>1 DEF RowInv
<1> QED BY <1>2, <1>4, <1>5, <1>6

\* A statement's steps, up to the commit.
LEMMA StatementInv ==
  ASSUME StoreInv, NEW c \in Calls,
         SendInsert(c) \/ StartInsert(c) \/ SkipInsert(c) \/ AbortInsert(c)
  PROVE  StoreInv'
<1> USE DEF StoreInv
<1>1. /\ UNCHANGED <<table, audit, args, found, answer, earlier>>
      /\ \A d \in Calls : d # c => /\ client'[d] = client[d] /\ insert'[d] = insert[d]
                                   /\ drawn'[d] = drawn[d]
      /\ insert[c] # "committed"
  BY DEF SendInsert, StartInsert, SkipInsert, AbortInsert, TypeOK, CallInv, serverVars
<1>2. TypeOK'
  <2>1. CASE SendInsert(c)
    BY <2>1, <1>1 DEF SendInsert, TypeOK
  <2>2. CASE StartInsert(c)
    BY <2>2, <1>1 DEF StartInsert, TypeOK
  <2>3. CASE SkipInsert(c)
    BY <2>3, <1>1 DEF SkipInsert, TypeOK
  <2>4. CASE AbortInsert(c)
    BY <2>4, <1>1 DEF AbortInsert, TypeOK
  <2> QED BY <2>1, <2>2, <2>3, <2>4
<1>3. CallInv(c)'
  BY <1>1 DEF SendInsert, StartInsert, SkipInsert, AbortInsert, TypeOK, CallInv, RowsOf
<1>4. \A d \in Calls : CallInv(d)'
  BY <1>1, <1>3 DEF CallInv, RowsOf
<1>5. \A d \in Calls : DrawnInv(d)' /\ EarlierInv(d)'
  <2>1. CASE StartInsert(c)
    <3>1. /\ drawn'[c] = nextId /\ nextId' = nextId + 1 /\ insert'[c] = "running"
          /\ nextId \in Nat \ {0} /\ drawn[c] = 0
      BY <2>1 DEF StartInsert, TypeOK, DrawnInv
    <3>2. \A d \in Calls : drawn[d] \in Nat /\ drawn[d] < nextId
      BY DEF TypeOK, DrawnInv
    <3>3. \A d \in Calls : DrawnInv(d)'
      BY <3>1, <3>2, <1>1 DEF DrawnInv
    <3>4. ASSUME NEW d \in Calls PROVE EarlierInv(d)'
      <4>1. \A a \in earlier[d] : a \in Calls /\ a # c
        BY <1>1 DEF EarlierInv, TypeOK
      <4> QED BY <4>1, <3>1, <3>2, <1>1 DEF EarlierInv
    <3> QED BY <3>3, <3>4
  <2>2. CASE SendInsert(c) \/ SkipInsert(c) \/ AbortInsert(c)
    <3>1. drawn' = drawn /\ nextId' = nextId
      BY <2>2 DEF SendInsert, SkipInsert, AbortInsert
    <3>2. \A d \in Calls : DrawnInv(d)'
      BY <3>1, <1>1, <2>2 DEF DrawnInv, SendInsert, SkipInsert, AbortInsert, TypeOK, CallInv
    <3>3. ASSUME NEW d \in Calls PROVE EarlierInv(d)'
      <4>1. \A a \in earlier[d] : a \in Calls /\ a # c
        BY <1>1 DEF EarlierInv, TypeOK
      <4> QED BY <4>1, <3>1, <1>1 DEF EarlierInv
    <3> QED BY <3>2, <3>3
  <2> QED BY <2>1, <2>2
<1>6. ASSUME NEW i \in DOMAIN table' PROVE RowInv(i)'
  <2>1. i \in DOMAIN table /\ table[i].by \in Calls /\ table[i].by # c
    BY <1>1, <1>6, RowTyped DEF RowInv
  <2> QED BY <2>1, <1>1 DEF RowInv
<1> QED BY <1>2, <1>4, <1>5, <1>6

\* The commit of an INSERT.
LEMMA CommitInv ==
  ASSUME StoreInv, NEW c \in Calls, CommitInsert(c)
  PROVE  StoreInv'
<1> USE DEF StoreInv
<1>1. /\ UNCHANGED <<audit, nextId, drawn, args, client, found, answer, earlier>>
      /\ insert' = [insert EXCEPT ![c] = "committed"] /\ insert[c] = "running"
  BY DEF CommitInsert
<1>2. TypeOK'
  BY <1>1, CommitAdds DEF TypeOK
<1>3. \A d \in Calls : RowsOf(args[d].key) \subseteq RowsOf(args[d].key)'
  BY <1>1, CommitAdds DEF RowsOf
<1>4. ASSUME NEW d \in Calls PROVE CallInv(d)'
  BY <1>1, <1>3 DEF CallInv, TypeOK
<1>5. ASSUME NEW d \in Calls PROVE DrawnInv(d)' /\ EarlierInv(d)'
  BY <1>1 DEF DrawnInv, EarlierInv, TypeOK
<1>6. ASSUME NEW i \in DOMAIN table' PROVE RowInv(i)'
  <2>1. CASE i \in DOMAIN table
    BY <2>1, <1>1, CommitAdds, RowTyped DEF RowInv, TypeOK
  <2>2. CASE i = Len(table) + 1
    <3>1. table'[i].by = c /\ table'[i].id = drawn[c]
      <4>1. table'[Len(table) + 1] = NewRow(c)
        BY CommitAdds
      <4> QED BY <4>1, <2>2 DEF NewRow
    <3> QED BY <3>1, <1>1 DEF RowInv, TypeOK
  <2> QED BY <1>6, <2>1, <2>2, CommitAdds
<1> QED BY <1>2, <1>4, <1>5, <1>6

\* A redaction.
LEMMA UpdateInv ==
  ASSUME StoreInv, NEW i \in DOMAIN table, NEW new \in Proposals(table[i]), Update(i, new)
  PROVE  StoreInv'
<1> USE DEF StoreInv
<1>1. /\ DOMAIN table' = DOMAIN table /\ table' \in Seq(Row)
      /\ \A j \in DOMAIN table :
           /\ table'[j].key = table[j].key /\ table'[j].id = table[j].id
           /\ table'[j].by = table[j].by
      /\ UNCHANGED <<nextId, insert, drawn, args, client, found, answer, earlier>>
  BY UpdateKeeps
<1>2. audit' \in Seq(Nat \ {0})
  BY RowTyped DEF Update, TypeOK
<1>3. TypeOK'
  BY <1>1, <1>2 DEF TypeOK
<1>4. \A d \in Calls : RowsOf(args[d].key)' = RowsOf(args[d].key)
  BY <1>1 DEF RowsOf
<1>5. \A d \in Calls : CallInv(d)' /\ DrawnInv(d)' /\ EarlierInv(d)'
  BY <1>1, <1>4 DEF CallInv, DrawnInv, EarlierInv
<1>6. \A j \in DOMAIN table' : RowInv(j)'
  BY <1>1 DEF RowInv
<1> QED BY <1>3, <1>5, <1>6

\* Every step of the adapter and the server keeps the invariant.
LEMMA NextStoreInv == StoreInv /\ [Next]_vars => StoreInv'
<1> SUFFICES ASSUME StoreInv, [Next]_vars PROVE StoreInv'
  OBVIOUS
<1>1. CASE UNCHANGED vars
  BY <1>1 DEF vars, StoreInv, TypeOK, CallInv, DrawnInv, EarlierInv, RowInv, RowsOf
<1>2. ASSUME NEW c \in Calls, NEW k \in Key, NEW b \in Bodies, CallAppend(c, k, b)
      PROVE  StoreInv'
  BY <1>2, CallAppendInv
<1>3. ASSUME NEW c \in Calls, ClientStep(c) PROVE StoreInv'
  BY <1>3, ClientInv, StatementInv DEF ClientStep
<1>4. ASSUME NEW c \in Calls, ServerStep(c) PROVE StoreInv'
  BY <1>4, ClientInv, StatementInv, CommitInv DEF ServerStep
<1>5. ASSUME NEW c \in Calls, Crash(c) PROVE StoreInv'
  BY <1>5, ClientInv
<1>6. ASSUME NEW i \in DOMAIN table, NEW new \in Proposals(table[i]), Update(i, new)
      PROVE  StoreInv'
  BY <1>6, UpdateInv
<1> QED BY <1>1, <1>2, <1>3, <1>4, <1>5, <1>6 DEF Next

\* The inductive invariant holds in every state.
THEOREM StoreInvariant == Spec => []StoreInv
  BY InitStoreInv, NextStoreInv, PTL DEF Spec

\* The table, the statements and the calls are well typed in every state.
THEOREM StoreTyped == Spec => []TypeOK
<1>1. StoreInv => TypeOK
  BY DEF StoreInv
<1> QED BY <1>1, StoreInvariant, PTL

\* The fault the adapter keeps for a lost conflicting row is unreachable.
THEOREM StoreFindsTheRow == Spec => []ReplayLookupFindsTheRow
<1>1. StoreInv => ReplayLookupFindsTheRow
  BY DEF StoreInv, CallInv, ReplayLookupFindsTheRow
<1> QED BY <1>1, StoreInvariant, PTL

\* Rows are listed in the order their appends were acknowledged.
THEOREM StoreIdsFollowAnswers == Spec => []IdsFollowAnswers
<1>1. StoreInv => IdsFollowAnswers
  <2> SUFFICES ASSUME StoreInv, NEW i \in DOMAIN table, NEW j \in DOMAIN table,
                      table[i].by \in earlier[table[j].by]
               PROVE  table[i].id < table[j].id
    BY DEF IdsFollowAnswers
  <2>1. TypeOK /\ table[i].by \in Calls /\ table[j].by \in Calls
    BY RowTyped DEF StoreInv
  <2>2. table[i].id = drawn[table[i].by] /\ table[j].id = drawn[table[j].by]
    BY DEF StoreInv, RowInv
  <2>3. insert[table[j].by] = "committed" /\ drawn[table[j].by] > 0
    BY <2>1 DEF StoreInv, RowInv, DrawnInv
  <2> QED BY <2>1, <2>2, <2>3 DEF StoreInv, EarlierInv, TypeOK
<1> QED BY <1>1, StoreInvariant, PTL

-----------------------------------------------------------------------------
(* The audit.  The trigger inserts a redaction event for every tombstone it lets   *)
(* through and none for anything else; that no two rows share an id is what makes  *)
(* an event say which row it is about.                                             *)

Events(log, id) == {n \in DOMAIN log : log[n] = id}

RowAudited(i) ==
  /\ table[i].redacted <=> table[i].evidence = NoBody
  /\ table[i].redacted =>
       ~table[i].names /\ \E n \in DOMAIN audit : Events(audit, table[i].id) = {n}
  /\ ~table[i].redacted => table[i].names /\ Events(audit, table[i].id) = {}

AuditInv ==
  /\ \A i, j \in DOMAIN table : table[i].by = table[j].by => i = j
  /\ \A i \in DOMAIN table : RowAudited(i)
  /\ \A n \in DOMAIN audit : \E i \in DOMAIN table : audit[n] = table[i].id

\* No two rows share an id.
LEMMA RowIdsDiffer ==
  ASSUME StoreInv, AuditInv, NEW i \in DOMAIN table, NEW j \in DOMAIN table,
         table[i].id = table[j].id
  PROVE  i = j
<1>1. table[i].by \in Calls /\ table[j].by \in Calls /\ table[i].id > 0
  BY RowTyped DEF StoreInv
<1>2. table[i].id = drawn[table[i].by] /\ table[j].id = drawn[table[j].by]
  BY DEF StoreInv, RowInv
<1>3. table[i].by = table[j].by
  <2>1. /\ drawn[table[i].by] > 0
        /\ drawn[table[i].by] = drawn[table[j].by]
    BY <1>1, <1>2
  <2>2. \A d \in Calls : drawn[table[i].by] = drawn[d] /\ drawn[table[i].by] > 0 => table[i].by = d
    BY <1>1 DEF StoreInv, DrawnInv
  <2> QED BY <1>1, <2>1, <2>2
<1> QED BY <1>3 DEF AuditInv

\* The commit of an INSERT adds a row that no event is about.
LEMMA CommitAudited ==
  ASSUME StoreInv, AuditInv, NEW c \in Calls, CommitInsert(c)
  PROVE  AuditInv'
<1> USE DEF StoreInv, AuditInv
<1>0. PICK n : n = Len(table) + 1
  OBVIOUS
<1>1. /\ DOMAIN table' = DOMAIN table \cup {n} /\ n \notin DOMAIN table
      /\ \A j \in DOMAIN table : table'[j] = table[j]
      /\ table'[n] = NewRow(c)
      /\ audit' = audit
  BY <1>0, CommitAdds DEF CommitInsert
<1>2. /\ table'[n].by = c /\ table'[n].id = drawn[c]
      /\ table'[n].names /\ ~table'[n].redacted /\ table'[n].evidence = args[c].body
  BY <1>1 DEF NewRow
<1>3. args[c].body # NoBody /\ drawn[c] > 0 /\ insert[c] = "running"
  BY DEF CommitInsert, CallInv, DrawnInv
<1>4. \A j \in DOMAIN table : table[j].by \in Calls /\ table[j].by # c
  BY <1>3, RowTyped DEF RowInv
<1>5. \A j \in DOMAIN table : table[j].id # drawn[c]
  BY <1>3, <1>4 DEF RowInv, DrawnInv
<1>6. Events(audit, drawn[c]) = {}
  BY <1>5 DEF Events
<1>7. RowAudited(n)'
  <2>1. Events(audit', table'[n].id) = {} /\ table'[n].evidence # NoBody
    BY <1>1, <1>2, <1>3, <1>6
  <2> QED BY <1>2, <2>1 DEF RowAudited
<1>8. \A j \in DOMAIN table : RowAudited(j)'
  BY <1>1 DEF RowAudited
<1>9. \A i, j \in DOMAIN table' : table'[i].by = table'[j].by => i = j
  BY <1>1, <1>2, <1>4
<1>10. \A m \in DOMAIN audit' : \E j \in DOMAIN table' : audit'[m] = table'[j].id
  BY <1>1
<1> QED BY <1>1, <1>7, <1>8, <1>9, <1>10

\* An UPDATE that the trigger lets through is a redaction, and the only event of its row.
LEMMA UpdateAudited ==
  ASSUME StoreInv, AuditInv,
         NEW i \in DOMAIN table, NEW new \in Proposals(table[i]), Update(i, new)
  PROVE  AuditInv'
<1> USE DEF StoreInv, AuditInv
<1> DEFINE n == Len(audit) + 1
<1>1. /\ DOMAIN table' = DOMAIN table
      /\ \A j \in DOMAIN table : table'[j].id = table[j].id /\ table'[j].by = table[j].by
  BY UpdateKeeps
<1>2. /\ table'[i].redacted /\ ~table'[i].names /\ table'[i].evidence = NoBody
      /\ \A j \in DOMAIN table : j # i => table'[j] = table[j]
  BY DEF Update, Guarded, GuardAllows, TypeOK
<1>3. /\ audit \in Seq(Nat \ {0}) /\ Len(audit) \in Nat
      /\ DOMAIN audit' = DOMAIN audit \cup {n} /\ n \notin DOMAIN audit
      /\ \A m \in DOMAIN audit : audit'[m] = audit[m]
      /\ audit'[n] = table[i].id
  BY DEF Update, TypeOK
<1>4. Events(audit, table[i].id) = {}
  BY DEF Update, GuardAllows, RowAudited
<1>5. RowAudited(i)'
  <2>1. Events(audit', table[i].id) = {n}
    BY <1>3, <1>4 DEF Events
  <2> QED BY <1>1, <1>2, <1>3, <2>1 DEF RowAudited
<1>6. ASSUME NEW j \in DOMAIN table, j # i PROVE RowAudited(j)'
  <2>1. table[j].id # table[i].id
    BY <1>6, RowIdsDiffer
  <2>2. Events(audit', table[j].id) = Events(audit, table[j].id)
    BY <1>3, <2>1 DEF Events
  <2>3. RowAudited(j) /\ table'[j] = table[j] /\ DOMAIN audit \subseteq DOMAIN audit'
    BY <1>2, <1>3, <1>6
  <2> QED BY <2>2, <2>3 DEF RowAudited
<1>7. \A m \in DOMAIN audit' : \E j \in DOMAIN table' : audit'[m] = table'[j].id
  BY <1>1, <1>3
<1> QED BY <1>1, <1>5, <1>6, <1>7

\* Every step keeps the audit: only a commit and an update touch the rows.
LEMMA NextAudited == StoreInv /\ AuditInv /\ [Next]_vars => AuditInv'
<1> SUFFICES ASSUME StoreInv, AuditInv, [Next]_vars PROVE AuditInv'
  OBVIOUS
<1>1. CASE UNCHANGED <<table, audit>>
  BY <1>1 DEF AuditInv, RowAudited
<1>2. ASSUME NEW c \in Calls, CommitInsert(c) PROVE AuditInv'
  BY <1>2, CommitAudited
<1>3. ASSUME NEW i \in DOMAIN table, NEW new \in Proposals(table[i]), Update(i, new)
      PROVE  AuditInv'
  BY <1>3, UpdateAudited
<1> QED
  BY <1>1, <1>2, <1>3
  DEF Next, ClientStep, ServerStep, vars, serverVars, CallAppend, RefuseAppend, SendInsert,
      ReturnAppended, SendLookup, ReturnFound, GiveUp, Return, Crash, StartInsert, SkipInsert,
      AbortInsert, Lookup

\* Every tombstone has one redaction event and no other row has any, whatever a role that
\* may update proposes and however often.
THEOREM StoreOneRedactionEvent == Spec => []OneRedactionEvent
<1>1. Init => AuditInv
  BY DEF Init, AuditInv
<1>2. AuditInv => OneRedactionEvent
  <2> SUFFICES ASSUME AuditInv, NEW i \in DOMAIN table
               PROVE  LET events == {n \in DOMAIN audit : audit[n] = table[i].id} IN
                      /\ table[i].redacted <=> table[i].evidence = NoBody
                      /\ table[i].redacted =>
                           ~table[i].names /\ \E n \in events : events = {n}
                      /\ ~table[i].redacted => table[i].names /\ events = {}
    BY DEF OneRedactionEvent
  <2>1. RowAudited(i)
    BY DEF AuditInv
  <2> QED BY <2>1 DEF RowAudited, Events
<1> QED BY <1>1, <1>2, NextAudited, StoreInvariant, PTL DEF Spec

-----------------------------------------------------------------------------
(* Refinement.  Each action of the adapter or the server is one action of  *)
(* EvidenceLog or a step it does not see.                                  *)

\* A row's envelope, and the log's view of the table.
LEMMA EnvelopesView ==
  ASSUME TypeOK
  PROVE  /\ DOMAIN envelopes = DOMAIN table
         /\ \A i \in DOMAIN table : envelopes[i] = EnvelopeOf(table[i])
         /\ \A k \in Key : Log!Holders(envelopes, k) = RowsOf(k)
<1>1. /\ DOMAIN envelopes = DOMAIN table
      /\ \A i \in DOMAIN table : envelopes[i] = EnvelopeOf(table[i])
  BY DEF envelopes
<1>2. \A i \in DOMAIN table : envelopes[i].key = table[i].key
  BY <1>1 DEF EnvelopeOf
<1>3. \A k \in Key : Log!Holders(envelopes, k) = RowsOf(k)
  BY <1>1, <1>2 DEF Log!Holders, RowsOf
<1> QED BY <1>1, <1>3

\* The empty table is the empty log.
LEMMA InitRefines == Init => Log!Init
<1> SUFFICES ASSUME Init PROVE Log!Init
  OBVIOUS
<1>1. envelopes = <<>>
  BY DEF Init, envelopes
<1>2. result = [c \in Calls |-> "none"]
  BY DEF Init, result
<1> QED BY <1>1, <1>2 DEF Init, Log!Init, Log!NotMade

\* The commit of an INSERT is the moment the log takes the call.
LEMMA CommitRefines ==
  ASSUME StoreInv, NEW c \in Calls, CommitInsert(c)
  PROVE  Log!AppendNew(c)
<1> USE DEF StoreInv
<1>1. insert[c] = "running" /\ found[c] = "none" /\ Log!Made(c)
  BY DEF CommitInsert, CallInv, Log!Made
<1>2. result[c] = "none"
  BY <1>1 DEF result
<1>3. Log!Holders(envelopes, args[c].key) = {}
  BY EnvelopesView DEF CommitInsert, TypeOK
<1>4. envelopes' = Append(envelopes, Log!NewEnvelope(c, args[c].key, args[c].body))
  <2> DEFINE e == Log!NewEnvelope(c, args[c].key, args[c].body)
  <2>1. e = EnvelopeOf(NewRow(c))
    BY DEF Log!NewEnvelope, EnvelopeOf, NewRow
  <2>2. /\ table \in Seq(Row) /\ table' \in Seq(Row)
        /\ Len(table) \in Nat /\ DOMAIN table = 1 .. Len(table)
        /\ DOMAIN table' = 1 .. (Len(table) + 1)
        /\ \A j \in DOMAIN table : table'[j] = table[j]
        /\ table'[Len(table) + 1] = NewRow(c)
    <3>1. table' = Append(table, NewRow(c)) /\ table \in Seq(Row)
      BY DEF CommitInsert, TypeOK
    <3>2. /\ DOMAIN table = 1 .. Len(table) /\ Len(table) \in Nat
          /\ DOMAIN table' = 1 .. (Len(table) + 1)
      BY <3>1
    <3> QED BY <3>1, <3>2, CommitAdds
  <2>3. envelopes' = [i \in 1 .. (Len(table) + 1) |-> EnvelopeOf(table'[i])]
    BY <2>2 DEF envelopes
  <2>4. envelopes = [i \in 1 .. Len(table) |-> EnvelopeOf(table[i])]
    BY <2>2 DEF envelopes
  <2>5. \A i \in 1 .. Len(table) : EnvelopeOf(table[i]) \in Log!Envelope
    BY <2>2, RowTyped DEF EnvelopeOf, Log!Envelope, Log!Key, Log!Payload, Key, Payload
  <2>6. envelopes \in Seq(Log!Envelope) /\ Len(envelopes) = Len(table)
    BY <2>2, <2>4, <2>5
  <2>7. Append(envelopes, e) = [i \in 1 .. (Len(table) + 1) |->
                                  IF i = Len(table) + 1 THEN e ELSE envelopes[i]]
    BY <2>2, <2>6
  <2>8. \A i \in 1 .. (Len(table) + 1) :
          EnvelopeOf(table'[i]) = IF i = Len(table) + 1 THEN e ELSE envelopes[i]
    BY <2>1, <2>2, <2>4
  <2> QED BY <2>3, <2>7, <2>8
<1>5. result' = [result EXCEPT ![c] = "appended"]
  BY DEF CommitInsert, TypeOK, result
<1>6. UNCHANGED <<args, answer>>
  BY DEF CommitInsert
<1> QED BY <1>1, <1>2, <1>3, <1>4, <1>5, <1>6 DEF Log!AppendNew

\* The SELECT is the moment the log answers a replay.
LEMMA LookupRefines ==
  ASSUME StoreInv, NEW c \in Calls, Lookup(c)
  PROVE  Log!FindHeld(c)
<1> USE DEF StoreInv
<1>1. insert[c] = "skipped" /\ found[c] = "none" /\ Log!Made(c)
  BY DEF Lookup, CallInv, Log!Made
<1>2. result[c] = "none"
  BY <1>1 DEF result
<1>3. RowsOf(args[c].key) # {}
  BY <1>1 DEF CallInv
<1> DEFINE i == CHOOSE j \in RowsOf(args[c].key) : TRUE
<1>4. i \in RowsOf(args[c].key) /\ i \in DOMAIN table
  BY <1>3 DEF RowsOf
<1>5. i \in Log!Holders(envelopes, args[c].key)
  BY <1>4, EnvelopesView DEF TypeOK
<1>6. found' = [found EXCEPT ![c] = Verdict(c, i)]
  BY <1>3 DEF Lookup
<1>7. Verdict(c, i) =
        IF Log!Same(envelopes[i], args[c].body) THEN "duplicate" ELSE "conflict"
  <2>1. envelopes[i].evidence = table[i].evidence
    BY <1>4, EnvelopesView DEF EnvelopeOf
  <2> QED BY <2>1 DEF Verdict, SameBody, Log!Same
<1>8. result' = [result EXCEPT ![c] = Verdict(c, i)]
  <2>1. Verdict(c, i) \in {"duplicate", "conflict"}
    BY DEF Verdict
  <2>2. insert' = insert
    BY DEF Lookup, serverVars
  <2> HIDE DEF i
  <2> QED BY <1>1, <1>6, <2>1, <2>2 DEF result, TypeOK
<1>9. UNCHANGED <<envelopes, args, answer>>
  BY DEF Lookup, serverVars, envelopes
<1> HIDE DEF i
<1> QED BY <1>1, <1>2, <1>5, <1>7, <1>8, <1>9 DEF Log!FindHeld

\* An UPDATE the trigger lets through is a redaction.
LEMMA UpdateRefines ==
  ASSUME StoreInv, NEW i \in DOMAIN table, NEW new \in Proposals(table[i]), Update(i, new)
  PROVE  i \in DOMAIN envelopes /\ Log!Redact(i)
<1> USE DEF StoreInv
<1>1. /\ i \in DOMAIN envelopes /\ envelopes[i] = EnvelopeOf(table[i])
      /\ table[i].evidence # NoBody
  BY EnvelopesView DEF Update, GuardAllows
<1>2. envelopes[i].evidence # NoBody
  BY <1>1 DEF EnvelopeOf
<1>3. EnvelopeOf(Guarded(new)) = Log!Tombstone(envelopes[i])
  <2>1. GuardAllows(table[i], new)
    BY DEF Update
  <2>2. /\ Guarded(new).key = table[i].key /\ Guarded(new).by = table[i].by
        /\ Guarded(new).evidence = NoBody /\ Guarded(new).names = FALSE
    BY <2>1, ProposalTyped DEF Guarded
  <2>3. envelopes[i].key = table[i].key /\ envelopes[i].by = table[i].by
    BY <1>1 DEF EnvelopeOf
  <2> QED BY <2>2, <2>3 DEF EnvelopeOf, Log!Tombstone
<1>4. table' = [table EXCEPT ![i] = Guarded(new)] /\ DOMAIN table' = DOMAIN table
  BY UpdateKeeps DEF Update
<1>5. envelopes' = [envelopes EXCEPT ![i] = Log!Tombstone(envelopes[i])]
  <2>1. envelopes' = [j \in DOMAIN table |-> EnvelopeOf(table'[j])]
    BY <1>4 DEF envelopes
  <2>2. \A j \in DOMAIN table :
          EnvelopeOf(table'[j]) = IF j = i THEN Log!Tombstone(envelopes[i]) ELSE envelopes[j]
    BY <1>3, <1>4, EnvelopesView DEF TypeOK
  <2>3. [envelopes EXCEPT ![i] = Log!Tombstone(envelopes[i])] =
          [j \in DOMAIN table |-> IF j = i THEN Log!Tombstone(envelopes[i]) ELSE envelopes[j]]
    BY EnvelopesView DEF envelopes
  <2> QED BY <2>1, <2>2, <2>3
<1>6. UNCHANGED <<args, result, answer>>
  BY DEF Update, result
<1> QED BY <1>1, <1>2, <1>5, <1>6 DEF Log!Redact

\* A call is made, answered or given up; nothing else that the adapter, the network
\* or the server does before a commit is seen.
LEMMA ClientRefines ==
  ASSUME StoreInv, NEW c \in Calls
  PROVE  /\ \A k \in Key, b \in Bodies : CallAppend(c, k, b) => Log!Invoke(c, k, b)
         /\ ReturnAppended(c) \/ ReturnFound(c) => Log!Answer(c)
         /\ RefuseAppend(c) \/ GiveUp(c) => Log!Fault(c)
         /\ SendInsert(c) \/ SendLookup(c) \/ Crash(c) => UNCHANGED Log!vars
         /\ StartInsert(c) \/ SkipInsert(c) \/ AbortInsert(c) => UNCHANGED Log!vars
<1> USE DEF StoreInv
<1>1. ASSUME NEW k \in Key, NEW b \in Bodies, CallAppend(c, k, b) PROVE Log!Invoke(c, k, b)
  BY <1>1 DEF CallAppend, CallInv, serverVars, Log!Invoke, Log!Made, envelopes, result
<1>2. ASSUME ReturnAppended(c) \/ ReturnFound(c) PROVE Log!Answer(c)
  <2>1. answer[c] = "none" /\ UNCHANGED <<table, insert, found, args>>
    BY <1>2 DEF ReturnAppended, ReturnFound, Return, CallInv, serverVars
  <2>2. answer' = [answer EXCEPT ![c] = result[c]] /\ result[c] # "none"
    BY <1>2 DEF ReturnAppended, ReturnFound, Return, CallInv, result
  <2> QED BY <2>1, <2>2 DEF Log!Answer, envelopes, result
<1>3. ASSUME RefuseAppend(c) \/ GiveUp(c) PROVE Log!Fault(c)
  BY <1>3 DEF RefuseAppend, GiveUp, Return, CallInv, serverVars, Log!Fault, Log!Made, envelopes,
              result
<1>4. ASSUME SendInsert(c) \/ SendLookup(c) \/ Crash(c) PROVE UNCHANGED Log!vars
  <2>1. result' = result
    BY <1>4 DEF SendInsert, SendLookup, Crash, CallInv, TypeOK, serverVars, result
  <2> QED BY <1>4, <2>1 DEF SendInsert, SendLookup, Crash, serverVars, Log!vars, envelopes
<1>5. ASSUME StartInsert(c) \/ SkipInsert(c) \/ AbortInsert(c) PROVE UNCHANGED Log!vars
  <2>1. result' = result
    BY <1>5 DEF StartInsert, SkipInsert, AbortInsert, TypeOK, result
  <2> QED BY <1>5, <2>1 DEF StartInsert, SkipInsert, AbortInsert, Log!vars, envelopes
<1> QED BY <1>1, <1>2, <1>3, <1>4, <1>5

\* Every step of the store is a step of the log or none.
LEMMA NextRefines == StoreInv /\ [Next]_vars => [Log!Next]_Log!vars
<1> SUFFICES ASSUME StoreInv, [Next]_vars PROVE Log!Next \/ UNCHANGED Log!vars
  OBVIOUS
<1>k. Log!Key = Key
  BY DEF Log!Key, Key
<1>1. CASE UNCHANGED vars
  BY <1>1 DEF vars, Log!vars, envelopes, result
<1>2. ASSUME NEW c \in Calls, NEW k \in Key, NEW b \in Bodies, CallAppend(c, k, b)
      PROVE  Log!Next
  BY <1>2, <1>k, ClientRefines DEF Log!Next
<1>3. ASSUME NEW c \in Calls, ClientStep(c) PROVE Log!Next \/ UNCHANGED Log!vars
  BY <1>3, ClientRefines DEF ClientStep, Log!Next
<1>4. ASSUME NEW c \in Calls, ServerStep(c) PROVE Log!Next \/ UNCHANGED Log!vars
  BY <1>4, ClientRefines, CommitRefines, LookupRefines DEF ServerStep, Log!Next
<1>5. ASSUME NEW c \in Calls, Crash(c) PROVE UNCHANGED Log!vars
  BY <1>5, ClientRefines
<1>6. ASSUME NEW i \in DOMAIN table, NEW new \in Proposals(table[i]), Update(i, new)
      PROVE  Log!Next
  BY <1>6, UpdateRefines DEF Log!Next
<1> QED BY <1>1, <1>2, <1>3, <1>4, <1>5, <1>6 DEF Next

\* The PostgreSQL adapter implements the append-only log: whatever is raced, timed
\* out, retried, rolled back or lost, each call takes effect at one moment or never.
THEOREM StoreImplementsLog == Spec => ImplementsLog
<1>1. Init => Log!Init
  BY InitRefines
<1>2. StoreInv /\ [Next]_vars => [Log!Next]_Log!vars
  BY NextRefines
<1> QED BY <1>1, <1>2, StoreInvariant, PTL DEF Spec, ImplementsLog, Log!Spec

=============================================================================
