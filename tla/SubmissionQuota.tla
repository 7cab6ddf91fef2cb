-------------------------- MODULE SubmissionQuota --------------------------
(***************************************************************************)
(* The submission quota of one process                                     *)
(* (packages/control-plane-api/src/admission.mjs): a fixed window per      *)
(* principal, opened by its first submission, in the memory of the process *)
(* that holds it.  `take` runs to completion, so it is one action.  The    *)
(* clock counts milliseconds and never runs backwards; Retry-After is      *)
(* given in whole seconds.                                                 *)
(***************************************************************************)
EXTENDS Integers, Sequences

CONSTANTS
  Principals,   \* the binding keys submissions are counted under
  Quota,        \* SUBMISSION_QUOTA
  Window,       \* SUBMISSION_QUOTA_WINDOW_MS
  Second,       \* 1000 ms
  Horizon       \* the clock stops here

ASSUME QuotaAssumption ==
  /\ {Quota, Window, Second} \subseteq Nat \ {0}
  /\ Horizon \in Nat

VARIABLES
  now,        \* the clock
  windows,    \* each principal's window: its start and its count
  taken,      \* history: when this process admitted each principal's submissions
  promised    \* history: the window a 429 was answered for, and until when to wait

vars == <<now, windows, taken, promised>>

\* A window that ended when the process started stands in for the missing Map entry.
NoWindow == [start |-> -Window, count |-> 0]
NoPromise == [start |-> -Window, until |-> 0]

TypeOK ==
  /\ now \in 0 .. Horizon
  /\ windows \in [Principals -> [start : Int, count : 0 .. Quota]]
  /\ taken \in [Principals -> Seq(Nat)]
  /\ promised \in [Principals -> [start : Int, until : Nat]]

Init ==
  /\ now = 0
  /\ windows = [p \in Principals |-> NoWindow]
  /\ taken = [p \in Principals |-> <<>>]
  /\ promised = [p \in Principals |-> NoPromise]

-----------------------------------------------------------------------------

\* Mutant: a window ends a unit early.
EndedEarly(p) == now - windows[p].start >= Window - 1

Ended(p) == now - windows[p].start >= Window

\* The window a submission made now is counted in.
InForce(p) == IF Ended(p) THEN [start |-> now, count |-> 0] ELSE windows[p]

\* Mutant: rounded down.
Floor(ms) == ms \div Second

Ceil(ms) == (ms + Second - 1) \div Second

RetryAfter(p) ==
  LET seconds == Ceil(InForce(p).start + Window - now)
  IN  IF seconds < 1 THEN 1 ELSE seconds

\* take(), answered ok.
Admit(p) ==
  /\ InForce(p).count < Quota
  /\ windows' = [windows EXCEPT ![p] =
                   [start |-> InForce(p).start, count |-> InForce(p).count + 1]]
  /\ taken' = [taken EXCEPT ![p] = Append(@, now)]
  /\ UNCHANGED <<now, promised>>

\* take(), answered with the seconds to wait.
Refuse(p) ==
  /\ InForce(p).count >= Quota
  /\ windows' = [windows EXCEPT ![p] = InForce(p)]
  /\ promised' = [promised EXCEPT ![p] =
                    [start |-> InForce(p).start, until |-> now + Second * RetryAfter(p)]]
  /\ UNCHANGED <<now, taken>>

Restart ==
  /\ windows' = [p \in Principals |-> NoWindow]
  /\ taken' = [p \in Principals |-> <<>>]
  /\ promised' = [p \in Principals |-> NoPromise]
  /\ UNCHANGED now

Tick ==
  /\ now < Horizon
  /\ now' = now + 1
  /\ UNCHANGED <<windows, taken, promised>>

Next ==
  \/ \E p \in Principals : Admit(p) \/ Refuse(p)
  \/ Restart
  \/ Tick

Spec == Init /\ [][Next]_vars

-----------------------------------------------------------------------------
(* Properties *)

\* What a fixed window really bounds: a stretch of time shorter than a window holds less than
\* twice the quota, however submissions straddle the windows' borders.  It is less by one
\* because a window opens with a submission: a stretch that reaches into two windows misses
\* the first of the earlier one.
TwiceTheQuota ==
  \A p \in Principals : \A i \in DOMAIN taken[p] :
    i + 2 * Quota - 1 \in DOMAIN taken[p] => taken[p][i + 2 * Quota - 1] - taken[p][i] >= Window

\* A caller that waits as long as it was told is not refused again by the window that
\* refused it: its next submission opens a window or is counted in a later one.  And
\* it is told to wait for no more than the rest of that window, in whole seconds.
RetryAfterIsHonest ==
  \A p \in Principals :
    promised[p] # NoPromise =>
      /\ now >= promised[p].until =>
           windows[p].start # promised[p].start \/ InForce(p).count < Quota
      /\ promised[p].until < promised[p].start + Window + Second

=============================================================================
