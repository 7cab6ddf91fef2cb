----------------------- MODULE SubmissionQuota_proofs -----------------------
(***************************************************************************)
(* The quota's bound and its Retry-After, for every quota, window and      *)
(* number of principals.                                                   *)
(***************************************************************************)
EXTENDS SubmissionQuota, TLAPS

\* The index of the admission that opened p's window, when it holds any.
Opening(p) == Len(taken[p]) - windows[p].count + 1

\* Where the window in memory lies in the history of admissions: it holds the last
\* ones, and those a quota before its opening are older than a window.
WindowInv(p) ==
  /\ windows[p].start <= now
  /\ windows[p].count <= Len(taken[p])
  /\ windows[p].count = 0 => taken[p] = <<>> /\ windows[p] = NoWindow
  /\ \A i \in DOMAIN taken[p] : taken[p][i] <= now
  /\ \A i \in DOMAIN taken[p] : i <= Opening(p) => taken[p][i] <= windows[p].start
  /\ \A i \in DOMAIN taken[p] :
       i + Quota <= Opening(p) => taken[p][i] <= windows[p].start - Window

\* What a 429 promised, in the terms of the window it was answered for.
PromiseInv(p) ==
  promised[p] # NoPromise =>
    /\ promised[p].until >= promised[p].start + Window
    /\ promised[p].until < promised[p].start + Window + Second

SpreadInv(p) ==
  \A i \in DOMAIN taken[p] :
    i + 2 * Quota - 1 \in DOMAIN taken[p] => taken[p][i + 2 * Quota - 1] - taken[p][i] >= Window

QuotaInv ==
  /\ TypeOK
  /\ \A p \in Principals : WindowInv(p) /\ PromiseInv(p) /\ SpreadInv(p)

-----------------------------------------------------------------------------
\* Rounding up to whole seconds adds less than a second.
LEMMA CeilBounds ==
  ASSUME NEW ms \in Int
  PROVE  /\ Ceil(ms) \in Int
         /\ ms <= Second * Ceil(ms)
         /\ Second * Ceil(ms) < ms + Second
<1> DEFINE x == ms + Second - 1
<1>1. Second \in Nat /\ Second > 0 /\ x \in Int
  BY QuotaAssumption
<1>2. /\ x \div Second \in Int
      /\ Second * (x \div Second) <= x
      /\ x < Second * (x \div Second) + Second
  <2> HIDE DEF x
  <2> QED BY <1>1
<1> QED BY <1>1, <1>2 DEF Ceil

\* The types of a principal's part, for the arithmetic below.
LEMMA PartTypes ==
  ASSUME TypeOK, NEW p \in Principals
  PROVE  /\ now \in Nat /\ Quota \in Nat \ {0} /\ Window \in Nat \ {0} /\ Second \in Nat \ {0}
         /\ windows[p].start \in Int /\ windows[p].count \in 0 .. Quota
         /\ taken[p] \in Seq(Nat)
         /\ promised[p].start \in Int /\ promised[p].until \in Nat
  BY QuotaAssumption DEF TypeOK

LEMMA InitQuotaInv ==
  ASSUME Init
  PROVE  QuotaInv
<1>1. TypeOK
  BY QuotaAssumption DEF Init, TypeOK, NoWindow, NoPromise
<1>2. ASSUME NEW p \in Principals PROVE WindowInv(p) /\ PromiseInv(p) /\ SpreadInv(p)
  BY QuotaAssumption DEF Init, WindowInv, PromiseInv, SpreadInv, NoWindow, NoPromise
<1> QED BY <1>1, <1>2 DEF QuotaInv

\* A principal whose part a step leaves alone keeps its invariant.
LEMMA OthersKeep ==
  ASSUME QuotaInv, TypeOK', NEW p \in Principals, now' \in Nat, now <= now',
         windows'[p] = windows[p], taken'[p] = taken[p], promised'[p] = promised[p]
  PROVE  WindowInv(p)' /\ PromiseInv(p)' /\ SpreadInv(p)'
<1>1. WindowInv(p) /\ PromiseInv(p) /\ SpreadInv(p) /\ TypeOK
  BY DEF QuotaInv
<1>2. WindowInv(p)'
  BY <1>1, PartTypes DEF WindowInv, Opening
<1> QED BY <1>1, <1>2 DEF PromiseInv, SpreadInv

LEMMA RestartKeepsInv ==
  ASSUME QuotaInv, Restart
  PROVE  QuotaInv'
<1>1. TypeOK'
  BY QuotaAssumption DEF QuotaInv, Restart, TypeOK, NoWindow, NoPromise
<1>2. now \in Nat
  BY QuotaAssumption DEF QuotaInv, TypeOK
<1>3. ASSUME NEW p \in Principals PROVE WindowInv(p)' /\ PromiseInv(p)' /\ SpreadInv(p)'
  BY <1>2, QuotaAssumption
  DEF Restart, WindowInv, PromiseInv, SpreadInv, NoWindow, NoPromise
<1> QED BY <1>1, <1>3 DEF QuotaInv

LEMMA TickKeepsInv ==
  ASSUME QuotaInv, Tick
  PROVE  QuotaInv'
<1>1. TypeOK'
  BY QuotaAssumption DEF QuotaInv, Tick, TypeOK
<1>2. now \in Nat /\ now' = now + 1
  BY QuotaAssumption DEF QuotaInv, TypeOK, Tick
<1> QED BY <1>1, <1>2, OthersKeep DEF QuotaInv, Tick

\* A 429 changes nothing but what it promised: a full window has not ended.
LEMMA RefuseKeepsInv ==
  ASSUME QuotaInv, NEW p \in Principals, Refuse(p)
  PROVE  QuotaInv'
<1>1. TypeOK /\ WindowInv(p) /\ SpreadInv(p)
  BY DEF QuotaInv
<1>2. ~Ended(p) /\ InForce(p) = windows[p]
  BY <1>1, PartTypes DEF Refuse, InForce
<1>3. windows' = windows /\ taken' = taken /\ now' = now
  BY <1>1, <1>2 DEF Refuse, TypeOK
<1> DEFINE left == windows[p].start + Window - now
<1>4. left \in Int /\ left >= 1
  BY <1>1, <1>2, PartTypes DEF Ended
<1>5. Ceil(left) \in Int /\ left <= Second * Ceil(left) /\ Second * Ceil(left) < left + Second
  <2> HIDE DEF left
  <2> QED BY <1>4, CeilBounds
<1>6. Ceil(left) >= 1
  <2>1. ~(Ceil(left) <= 0)
    <3> SUFFICES ASSUME Ceil(left) <= 0 PROVE FALSE
      OBVIOUS
    <3> HIDE DEF left
    <3>1. Second * Ceil(left) <= 0
      BY <1>5, QuotaAssumption
    <3> QED BY <1>4, <1>5, <3>1, QuotaAssumption
  <2> HIDE DEF left
  <2> QED BY <1>5, <2>1
<1>7. RetryAfter(p) = Ceil(left)
  <2>1. RetryAfter(p) = IF Ceil(left) < 1 THEN 1 ELSE Ceil(left)
    BY <1>2 DEF RetryAfter
  <2> HIDE DEF left
  <2> QED BY <1>5, <1>6, <2>1
<1>8. promised'[p] = [start |-> windows[p].start, until |-> now + Second * Ceil(left)]
  BY <1>1, <1>2, <1>7 DEF Refuse, TypeOK
<1>9. /\ now + Second * Ceil(left) \in Nat
      /\ now + Second * Ceil(left) >= windows[p].start + Window
      /\ now + Second * Ceil(left) < windows[p].start + Window + Second
  <2>1. Second * Ceil(left) \in Int
    BY <1>5, QuotaAssumption
  <2> DEFINE wait == Second * Ceil(left)
  <2>2. wait \in Int /\ left <= wait /\ wait < left + Second
    BY <1>5, <2>1
  <2> HIDE DEF wait
  <2>3. /\ now + wait \in Nat
        /\ now + wait >= windows[p].start + Window
        /\ now + wait < windows[p].start + Window + Second
    BY <1>1, <1>4, <2>2, PartTypes
  <2> QED BY <2>3 DEF wait
<1>10. promised' \in [Principals -> [start : Int, until : Nat]]
  <2>1. promised'[p] \in [start : Int, until : Nat]
    BY <1>1, <1>8, <1>9, PartTypes
  <2>2. promised' = [promised EXCEPT ![p] = promised'[p]]
    BY <1>1 DEF Refuse, TypeOK
  <2> QED BY <1>1, <2>1, <2>2 DEF TypeOK
<1>11. TypeOK'
  BY <1>1, <1>3, <1>10 DEF TypeOK
<1>12. PromiseInv(p)'
  <2> HIDE DEF left
  <2> QED BY <1>8, <1>9 DEF PromiseInv
<1>13. WindowInv(p)' /\ SpreadInv(p)'
  BY <1>1, <1>3 DEF WindowInv, SpreadInv, Opening
<1>14. now \in Nat /\ now <= now'
  BY <1>1, <1>3, PartTypes
<1>15. ASSUME NEW q \in Principals, q # p PROVE WindowInv(q)' /\ PromiseInv(q)' /\ SpreadInv(q)'
  <2>1. promised'[q] = promised[q]
    BY <1>1, <1>15 DEF Refuse, TypeOK
  <2> QED BY <1>3, <1>11, <1>14, <2>1, OthersKeep
<1> QED BY <1>11, <1>12, <1>13, <1>15 DEF QuotaInv

\* Appending an element to a sequence.
LEMMA AppendFacts ==
  ASSUME NEW S, NEW q \in Seq(S), NEW e \in S
  PROVE  /\ Append(q, e) \in Seq(S) /\ Len(Append(q, e)) = Len(q) + 1 /\ Len(q) \in Nat
         /\ DOMAIN q = 1 .. Len(q) /\ DOMAIN Append(q, e) = 1 .. (Len(q) + 1)
         /\ Append(q, e)[Len(q) + 1] = e
         /\ \A i \in 1 .. Len(q) : q[i] \in S /\ Append(q, e)[i] = q[i]
  OBVIOUS

\* An admission, counted in the window in force, keeps the history's shape.
LEMMA AdmitKeepsInv ==
  ASSUME QuotaInv, NEW p \in Principals, Admit(p)
  PROVE  QuotaInv'
<1> DEFINE n == Len(taken[p])
           c == windows[p].count
           st == windows[p].start
<1>1. /\ TypeOK /\ WindowInv(p) /\ PromiseInv(p) /\ SpreadInv(p)
      /\ now' = now /\ promised' = promised
  BY DEF QuotaInv, Admit
<1>2. /\ now \in Nat /\ Quota \in Nat \ {0} /\ Window \in Nat \ {0}
      /\ st \in Int /\ c \in 0 .. Quota /\ n \in Nat /\ taken[p] \in Seq(Nat)
  BY <1>1, PartTypes
<1>3. /\ InForce(p).start \in Int /\ InForce(p).count \in 0 .. Quota
      /\ InForce(p).count < Quota
  BY <1>2 DEF InForce, Admit
<1>4. windows'[p] = [start |-> InForce(p).start, count |-> InForce(p).count + 1]
  BY <1>1 DEF Admit, TypeOK
<1>5. taken'[p] = Append(taken[p], now)
  BY <1>1 DEF Admit, TypeOK
<1>6. /\ taken'[p] \in Seq(Nat)
      /\ DOMAIN taken'[p] = 1 .. (n + 1) /\ DOMAIN taken[p] = 1 .. n
      /\ taken'[p][n + 1] = now
      /\ \A i \in 1 .. n : taken[p][i] \in Nat /\ taken'[p][i] = taken[p][i]
  BY <1>2, <1>5, AppendFacts
<1> DEFINE started == windows'[p].start
           counted == windows'[p].count
<1>21. /\ Len(taken'[p]) = n + 1
       /\ Opening(p) = n - c + 1 /\ Opening(p)' = (n + 1) - counted + 1
  BY <1>2, <1>5, AppendFacts DEF Opening
<1>22. started \in Int /\ counted \in 1 .. Quota
  BY <1>2, <1>3, <1>4
<1>23. /\ st <= now /\ c <= n
       /\ c = 0 => st = -Window
       /\ \A i \in 1 .. n : taken[p][i] <= now
       /\ \A i \in 1 .. n : i <= n - c + 1 => taken[p][i] <= st
       /\ \A i \in 1 .. n : i + Quota <= n - c + 1 => taken[p][i] <= st - Window
  <2>1. st <= now /\ c <= n
    BY <1>1 DEF WindowInv
  <2>2. c = 0 => st = -Window
    BY <1>1 DEF WindowInv, NoWindow
  <2>3. /\ \A i \in DOMAIN taken[p] : taken[p][i] <= now
        /\ \A i \in DOMAIN taken[p] : i <= Opening(p) => taken[p][i] <= st
        /\ \A i \in DOMAIN taken[p] : i + Quota <= Opening(p) => taken[p][i] <= st - Window
    BY <1>1 DEF WindowInv
  <2>4. DOMAIN taken[p] = 1 .. n /\ Opening(p) = n - c + 1
    BY <1>6, <1>21
  <2> HIDE DEF n, c, st
  <2> QED BY <2>1, <2>2, <2>3, <2>4
<1>24. \/ now - st >= Window /\ started = now /\ counted = 1
       \/ ~(now - st >= Window) /\ started = st /\ counted = c + 1
  BY <1>4 DEF InForce, Ended
<1>7. TypeOK'
  <2>1. windows'[p] \in [start : Int, count : 0 .. Quota]
    BY <1>2, <1>3, <1>4
  <2>2. windows' \in [Principals -> [start : Int, count : 0 .. Quota]]
    <3>1. windows' = [windows EXCEPT ![p] = windows'[p]]
      BY <1>1 DEF Admit, TypeOK
    <3> QED BY <1>1, <2>1, <3>1 DEF TypeOK
  <2>3. taken' \in [Principals -> Seq(Nat)]
    <3>1. taken' = [taken EXCEPT ![p] = taken'[p]]
      BY <1>1 DEF Admit, TypeOK
    <3> QED BY <1>1, <1>6, <3>1 DEF TypeOK
  <2> QED BY <1>1, <2>2, <2>3 DEF TypeOK
<1> HIDE DEF n, c, st, started, counted
<1>8. /\ started <= now /\ counted <= n + 1
      /\ \A i \in 1 .. (n + 1) : taken'[p][i] <= now
      /\ \A i \in 1 .. (n + 1) : i <= n + 2 - counted => taken'[p][i] <= started
      /\ \A i \in 1 .. (n + 1) : i + Quota <= n + 2 - counted => taken'[p][i] <= started - Window
  <2>1. started <= now /\ counted <= n + 1
    BY <1>2, <1>23, <1>24
  <2>2. ASSUME NEW i \in 1 .. (n + 1)
        PROVE  /\ taken'[p][i] <= now
               /\ i <= n + 2 - counted => taken'[p][i] <= started
               /\ i + Quota <= n + 2 - counted => taken'[p][i] <= started - Window
    <3> DEFINE a == taken'[p][i]
    <3> SUFFICES /\ a <= now
                 /\ i <= n + 2 - counted => a <= started
                 /\ i + Quota <= n + 2 - counted => a <= started - Window
      OBVIOUS
    <3>1. \/ i = n + 1 /\ a = now
          \/ /\ i \in 1 .. n /\ a \in Nat /\ a <= now
             /\ i <= n - c + 1 => a <= st
             /\ i + Quota <= n - c + 1 => a <= st - Window
      <4>1. CASE i = n + 1
        BY <1>6, <4>1
      <4>2. CASE i \in 1 .. n
        BY <1>6, <1>23, <4>2
      <4> QED BY <1>2, <4>1, <4>2
    <3> HIDE DEF a
    <3>2. CASE now - st >= Window /\ started = now /\ counted = 1
      <4>1. a <= now /\ a \in Nat
        BY <1>2, <3>1
      <4>2. i + Quota <= n + 1 => a <= st
        BY <1>2, <3>1
      <4> QED BY <1>2, <3>2, <4>1, <4>2
    <3>3. CASE ~(now - st >= Window) /\ started = st /\ counted = c + 1
      <4>1. c > 0
        BY <1>2, <1>23, <3>3
      <4>2. CASE i = n + 1 /\ a = now
        BY <1>2, <3>3, <4>1, <4>2
      <4>3. CASE /\ i \in 1 .. n /\ a \in Nat /\ a <= now
                 /\ i <= n - c + 1 => a <= st
                 /\ i + Quota <= n - c + 1 => a <= st - Window
        BY <1>2, <3>3, <4>3
      <4> QED BY <3>1, <4>2, <4>3
    <3> QED BY <1>24, <3>2, <3>3
  <2> QED BY <2>1, <2>2
<1>25. WindowInv(p)'
  <2>1. Opening(p)' = n + 2 - counted
    BY <1>2, <1>21, <1>22
  <2>2. counted # 0
    BY <1>22
  <2>3. /\ windows'[p].start = started /\ windows'[p].count = counted
    BY DEF started, counted
  <2> QED BY <1>1, <1>6, <1>8, <1>21, <2>1, <2>2, <2>3 DEF WindowInv
<1>9. SpreadInv(p)'
  <2> SUFFICES ASSUME NEW i \in 1 .. (n + 1), i + 2 * Quota - 1 \in 1 .. (n + 1)
               PROVE  taken'[p][i + 2 * Quota - 1] - taken'[p][i] >= Window
    BY <1>6 DEF SpreadInv
  <2>1. i \in 1 .. n /\ taken'[p][i] = taken[p][i] /\ taken[p][i] \in Nat
    <3>1. i \in 1 .. n
      BY <1>2
    <3> QED BY <1>6, <3>1
  <2>2. CASE i + 2 * Quota - 1 \in 1 .. n
    <3>1. taken[p][i + 2 * Quota - 1] - taken[p][i] >= Window
      BY <1>1, <1>6, <2>1, <2>2 DEF SpreadInv
    <3>2. taken'[p][i + 2 * Quota - 1] = taken[p][i + 2 * Quota - 1]
      BY <1>6, <2>2
    <3> QED BY <2>1, <3>1, <3>2
  <2>3. CASE i + 2 * Quota - 1 = n + 1
    <3>1. i + Quota <= n + 2 - counted
      BY <1>2, <1>22, <2>3
    <3>2. taken'[p][i] <= started - Window /\ started <= now
      BY <1>8, <3>1
    <3>3. taken'[p][i + 2 * Quota - 1] = now
      BY <1>6, <2>3
    <3>4. taken'[p][i] \in Nat
      BY <2>1
    <3> DEFINE first == taken'[p][i]
    <3>5. first \in Nat /\ first <= started - Window /\ now - first >= Window
      <4> HIDE DEF first
      <4>1. first \in Nat /\ first <= started - Window
        BY <3>2, <3>4 DEF first
      <4> QED BY <1>2, <1>22, <3>2, <4>1
    <3> QED BY <3>3, <3>5
  <2> QED BY <1>2, <2>2, <2>3
<1>10. PromiseInv(p)'
  BY <1>1 DEF PromiseInv
<1>11. now \in Nat /\ now <= now'
  BY <1>1, <1>2
<1>12. ASSUME NEW q \in Principals, q # p PROVE WindowInv(q)' /\ PromiseInv(q)' /\ SpreadInv(q)'
  <2>1. windows'[q] = windows[q] /\ taken'[q] = taken[q]
    BY <1>1, <1>12 DEF Admit, TypeOK
  <2> QED BY <1>1, <1>7, <1>11, <2>1, OthersKeep
<1> QED BY <1>7, <1>9, <1>10, <1>12, <1>25 DEF QuotaInv

LEMMA NextKeepsInv ==
  ASSUME QuotaInv, [Next]_vars
  PROVE  QuotaInv'
<1>1. CASE UNCHANGED vars
  BY <1>1 DEF vars, QuotaInv, TypeOK, WindowInv, PromiseInv, SpreadInv, Opening
<1>2. CASE Next
  BY <1>2, AdmitKeepsInv, RefuseKeepsInv, RestartKeepsInv, TickKeepsInv DEF Next
<1> QED BY <1>1, <1>2

\* The quota's inductive invariant.
THEOREM QuotaInvariant == Spec => []QuotaInv
<1> QED BY InitQuotaInv, NextKeepsInv, PTL DEF Spec

-----------------------------------------------------------------------------
\* Every variable of the quota keeps its type.
THEOREM QuotaTyped == Spec => []TypeOK
<1>1. QuotaInv => TypeOK
  BY DEF QuotaInv
<1> QED BY <1>1, QuotaInvariant, PTL

\* A stretch of time shorter than a window holds less than twice the quota of one principal's
\* admissions, whatever the quota, the window and the arrivals.
THEOREM QuotaTwiceAtMost == Spec => []TwiceTheQuota
<1>1. QuotaInv => TwiceTheQuota
  BY DEF QuotaInv, SpreadInv, TwiceTheQuota
<1> QED BY <1>1, QuotaInvariant, PTL

\* A 429's Retry-After outlasts the window that refused, by less than a second.
THEOREM QuotaRetryAfter == Spec => []RetryAfterIsHonest
<1>1. QuotaInv => RetryAfterIsHonest
  <2> SUFFICES ASSUME QuotaInv, NEW p \in Principals, promised[p] # NoPromise
               PROVE  /\ now >= promised[p].until =>
                           windows[p].start # promised[p].start \/ InForce(p).count < Quota
                      /\ promised[p].until < promised[p].start + Window + Second
    BY DEF RetryAfterIsHonest
  <2>1. TypeOK /\ PromiseInv(p)
    BY DEF QuotaInv
  <2>2. ASSUME now >= promised[p].until, windows[p].start = promised[p].start
        PROVE  InForce(p).count < Quota
    <3>1. Ended(p)
      BY <2>1, <2>2, PartTypes DEF PromiseInv, Ended
    <3> QED BY <3>1, QuotaAssumption DEF InForce
  <2> QED BY <2>1, <2>2 DEF PromiseInv
<1> QED BY <1>1, QuotaInvariant, PTL

=============================================================================
