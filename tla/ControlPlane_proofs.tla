------------------------- MODULE ControlPlane_proofs -------------------------
(***************************************************************************)
(* What a process of the service may do, for any policy, registry,         *)
(* database, role, caller and clock: the five invariants of ControlPlane.  *)
(***************************************************************************)
EXTENDS ControlPlane, FiniteSetTheorems, WellFoundedInduction, TLAPS

-----------------------------------------------------------------------------
(* Lists of checks *)

LEMMA LeastIsLeast ==
  ASSUME NEW S \in SUBSET Nat, S # {}
  PROVE  Min(S) \in S /\ \A y \in S : Min(S) <= y
<1>1. \E x \in S : \A y \in S : ~(<<y, x>> \in OpToRel(<, Nat))
  BY NatLessThanWellFounded, WFMin
<1>2. PICK x \in S : \A y \in S : ~(<<y, x>> \in OpToRel(<, Nat))
  BY <1>1
<1>3. \A y \in S : x <= y
  <2> SUFFICES ASSUME NEW y \in S PROVE x <= y
    OBVIOUS
  <2>1. <<y, x>> \in Nat \X Nat /\ ~(y < x)
    BY <1>2 DEF OpToRel
  <2> QED BY <2>1
<1> QED BY <1>3 DEF Min

\* The reason is that of a check that fails.
LEMMA FailingDecides ==
  ASSUME NEW checks, DOMAIN checks \subseteq Nat
  PROVE  \/ FirstFailing(checks) = Ok /\ \A i \in DOMAIN checks : checks[i][1]
         \/ \E i \in DOMAIN checks : /\ ~checks[i][1] /\ FirstFailing(checks) = checks[i][2]
                                     /\ \A j \in DOMAIN checks : ~checks[j][1] => i <= j
<1>1. CASE {i \in DOMAIN checks : ~checks[i][1]} = {}
  BY <1>1 DEF FirstFailing
<1>2. CASE {i \in DOMAIN checks : ~checks[i][1]} # {}
  <2>1. /\ Min({i \in DOMAIN checks : ~checks[i][1]}) \in {i \in DOMAIN checks : ~checks[i][1]}
        /\ \A j \in {i \in DOMAIN checks : ~checks[i][1]} :
             Min({i \in DOMAIN checks : ~checks[i][1]}) <= j
    BY <1>2, LeastIsLeast
  <2> QED BY <1>2, <2>1 DEF FirstFailing
<1> QED BY <1>1, <1>2

\* What nothing refuses passes every check.
LEMMA AllPass ==
  ASSUME NEW checks, DOMAIN checks \subseteq Nat, FirstFailing(checks) = Ok,
         \A i \in DOMAIN checks : checks[i][2] = Ok => checks[i][1]
  PROVE  \A i \in DOMAIN checks : checks[i][1]
BY FailingDecides

\* A reason is one of those the list gives.
LEMMA ReasonListed ==
  ASSUME NEW checks, DOMAIN checks \subseteq Nat,
         NEW reasons, \A i \in DOMAIN checks : checks[i][2] \in reasons
  PROVE  FirstFailing(checks) \in reasons \cup {Ok}
BY FailingDecides

\* Lists that pass and fail alike refuse alike.
LEMMA SameVerdict ==
  ASSUME NEW checks, NEW others, DOMAIN checks \subseteq Nat, DOMAIN others = DOMAIN checks,
         \A i \in DOMAIN checks : /\ checks[i][1] <=> others[i][1]
                                 /\ checks[i][2] = others[i][2]
  PROVE  FirstFailing(others) = FirstFailing(checks)
<1>1. {i \in DOMAIN others : ~others[i][1]} = {i \in DOMAIN checks : ~checks[i][1]}
  OBVIOUS
<1>2. CASE {i \in DOMAIN checks : ~checks[i][1]} = {}
  BY <1>1, <1>2 DEF FirstFailing
<1>3. CASE {i \in DOMAIN checks : ~checks[i][1]} # {}
  <2>1. Min({i \in DOMAIN checks : ~checks[i][1]}) \in {i \in DOMAIN checks : ~checks[i][1]}
    BY <1>3, LeastIsLeast
  <2> QED BY <1>1, <1>3, <2>1 DEF FirstFailing
<1> QED BY <1>2, <1>3

-----------------------------------------------------------------------------
(* Tokens *)

\* The reasons a request is refused with before its body is read, and no reason at all.
Denials == (REFUSAL_REASONS \ {"rejected", "needs-remediation"}) \cup {Ok}

\* A signature that is not refused was made with a key of the set, over the payload.
LEMMA SignaturePasses ==
  ASSUME NEW t, NEW keys, SignatureRefusal(t, keys) = Ok
  PROVE  t.alg = "RS256" /\ t.kid \in keys /\ t.signer = t.kid /\ t.signed = t.payload
<1> DEFINE checks == <<
      <<t.alg = "RS256", "alg-unsupported">>,
      <<t.kid \in keys, "kid-unknown">>,
      <<verifyRs256(t, t.kid), "signature-invalid">> >>
<1>1. DOMAIN checks = {1, 2, 3}
  OBVIOUS
<1>2. FirstFailing(checks) = Ok
  BY DEF SignatureRefusal
<1>3. \A i \in DOMAIN checks : checks[i][2] # Ok
  BY <1>1 DEF Ok
<1>4. \A i \in DOMAIN checks : checks[i][1]
  <2> HIDE DEF checks
  <2> QED BY <1>1, <1>2, <1>3, AllPass
<1>5. checks[1][1] /\ checks[2][1] /\ checks[3][1]
  BY <1>1, <1>4
<1> QED BY <1>5 DEF verifyRs256

LEMMA AtMost ==
  ASSUME NEW x, NEW y, NEW reason, NEW check, check = <<x <= y, reason>>, check[1]
  PROVE  x <= y
BY Zenon

LEMMA MoreThan ==
  ASSUME NEW x, NEW y, NEW reason, NEW check, check = <<x > y, reason>>, check[1]
  PROVE  x > y
BY Zenon

\* A payload that is not refused has times, and they are right now.
LEMMA ClaimsPass ==
  ASSUME NEW payload, NEW time, checkRegisteredClaims(payload, time) = Ok
  PROVE  /\ payload.timed
         /\ payload.exp > time - CLOCK_SKEW_S
         /\ payload.iat <= time + CLOCK_SKEW_S
         /\ payload.exp - payload.iat <= MAX_LIFETIME_S
<1> DEFINE checks == <<
      <<payload.decodes, "claim-invalid">>,
      <<payload.iss = ISSUER, "iss-mismatch">>,
      <<payload.aud \in {"ours", "ours alone in a list"}, "aud-mismatch">>,
      <<payload.timed, "claim-invalid">> >> \o Times(payload, time)
<1>1. FirstFailing(checks) = Ok
  BY DEF checkRegisteredClaims
<1>2. /\ DOMAIN checks = 1 .. 8
      /\ checks[1][2] = "claim-invalid" /\ checks[2][2] = "iss-mismatch"
      /\ checks[3][2] = "aud-mismatch" /\ checks[4] = <<payload.timed, "claim-invalid">>
      /\ checks[5] = <<payload.exp > time - CLOCK_SKEW_S, "token-expired">>
      /\ checks[6][2] = "token-not-yet-valid"
      /\ checks[7] = <<payload.iat <= time + CLOCK_SKEW_S, "iat-in-future">>
      /\ checks[8] = <<payload.exp - payload.iat <= MAX_LIFETIME_S, "lifetime-exceeded">>
  BY DEF Times
<1> HIDE DEF checks
<1>3. /\ checks[4][2] = "claim-invalid" /\ checks[5][2] = "token-expired"
      /\ checks[7][2] = "iat-in-future" /\ checks[8][2] = "lifetime-exceeded"
  BY <1>2
<1>4. checks[4][1] => payload.timed
  <2>1. checks[4] = <<payload.timed, "claim-invalid">>
    BY <1>2
  <2> QED BY <2>1
<1>5. checks[5][1] => payload.exp > time - CLOCK_SKEW_S
  <2>1. checks[5] = <<payload.exp > time - CLOCK_SKEW_S, "token-expired">>
    BY <1>2
  <2> QED BY <2>1, MoreThan, Zenon
<1>6. checks[7][1] => payload.iat <= time + CLOCK_SKEW_S
  <2>1. checks[7] = <<payload.iat <= time + CLOCK_SKEW_S, "iat-in-future">>
    BY <1>2
  <2> QED BY <2>1, AtMost, Zenon
<1>7. checks[8][1] => payload.exp - payload.iat <= MAX_LIFETIME_S
  <2>1. checks[8] = <<payload.exp - payload.iat <= MAX_LIFETIME_S, "lifetime-exceeded">>
    BY <1>2
  <2> QED BY <2>1, AtMost, Zenon
<1>8. \A i \in DOMAIN checks : checks[i][1]
  <2>1. /\ DOMAIN checks = 1 .. 8
        /\ checks[1][2] = "claim-invalid" /\ checks[2][2] = "iss-mismatch"
        /\ checks[3][2] = "aud-mismatch" /\ checks[6][2] = "token-not-yet-valid"
    BY <1>2
  <2>2. \A i \in DOMAIN checks : checks[i][2] # Ok
    BY <2>1, <1>3 DEF Ok
  <2> QED BY <1>1, <2>1, <2>2, AllPass
<1>9. checks[4][1] /\ checks[5][1] /\ checks[7][1] /\ checks[8][1]
  <2>1. 4 \in DOMAIN checks /\ 5 \in DOMAIN checks /\ 7 \in DOMAIN checks /\ 8 \in DOMAIN checks
    BY <1>2
  <2> QED BY <1>8, <2>1, Zenon
<1> QED BY <1>4, <1>5, <1>6, <1>7, <1>9, Zenon

\* A token that steps 3 to 5 do not refuse passes each of them.
LEMMA TokenPasses ==
  ASSUME NEW t, NEW keys, NEW time, TokenRefusal(t, keys, time) = Ok
  PROVE  SignatureRefusal(t, keys) = Ok /\ checkRegisteredClaims(t.payload, time) = Ok
<1> DEFINE steps == <<SignatureRefusal(t, keys), checkRegisteredClaims(t.payload, time),
                      checkClaimFormats(t.payload)>>
<1> DEFINE checks == [i \in 1 .. 3 |-> <<steps[i] = Ok, steps[i]>>]
<1>1. FirstFailing(checks) = Ok
  BY DEF TokenRefusal
<1>2. DOMAIN checks = 1 .. 3
  OBVIOUS
<1>3. \A i \in 1 .. 3 : (checks[i][1] <=> steps[i] = Ok) /\ checks[i][2] = steps[i]
  <2> HIDE DEF steps
  <2> QED BY Zenon
<1>4. \A i \in 1 .. 3 : steps[i] = Ok
  <2> HIDE DEF checks, steps
  <2>1. \A i \in DOMAIN checks : checks[i][2] = Ok => checks[i][1]
    BY <1>2, <1>3, Zenon
  <2>2. \A i \in DOMAIN checks : checks[i][1]
    BY <1>1, <1>2, <2>1, AllPass
  <2> QED BY <1>2, <1>3, <2>2, Zenon
<1> QED BY <1>4

\* A token that is not the issuer's own fails by its signature, whatever its payload claims.
LEMMA SignatureAlone ==
  ASSUME NEW t, NEW keys \in SUBSET Kids, NEW time, ~Genuine(t)
  PROVE  TokenRefusal(t, keys, time) = SignatureRefusal(t, keys) /\ SignatureRefusal(t, keys) # Ok
<1> DEFINE steps == <<SignatureRefusal(t, keys), checkRegisteredClaims(t.payload, time),
                      checkClaimFormats(t.payload)>>
<1> DEFINE checks == [i \in 1 .. 3 |-> <<steps[i] = Ok, steps[i]>>]
<1>1. SignatureRefusal(t, keys) # Ok
  BY SignaturePasses DEF Genuine
<1>2. DOMAIN checks = 1 .. 3 /\ 1 \in 1 .. 3 /\ \A i \in 1 .. 3 : 1 <= i /\ (i <= 1 => i = 1)
  OBVIOUS
<1>3. steps[1] = SignatureRefusal(t, keys)
  OBVIOUS
<1>4. (checks[1][1] <=> steps[1] = Ok) /\ checks[1][2] = steps[1]
  <2> HIDE DEF steps
  <2> QED BY <1>2, Zenon
<1>5. FirstFailing(checks) = SignatureRefusal(t, keys)
  <2> HIDE DEF checks, steps
  <2>1. ~checks[1][1]
    BY <1>1, <1>3, <1>4, Zenon
  <2>2. \A i \in DOMAIN checks : i <= 1 => i = 1
    BY <1>2
  <2> QED BY <1>2, <1>3, <1>4, <2>1, <2>2, FailingDecides
<1> QED BY <1>1, <1>5 DEF TokenRefusal

\* Two tokens that differ in their payload alone, neither the issuer's, fail alike.
LEMMA SameSignature ==
  ASSUME NEW t, NEW twin, NEW keys \in SUBSET Kids, ~Genuine(t), ~Genuine(twin),
         twin.alg = t.alg, twin.kid = t.kid
  PROVE  SignatureRefusal(twin, keys) = SignatureRefusal(t, keys)
<1> DEFINE checks == <<
      <<t.alg = "RS256", "alg-unsupported">>,
      <<t.kid \in keys, "kid-unknown">>,
      <<verifyRs256(t, t.kid), "signature-invalid">> >>
           others == <<
      <<twin.alg = "RS256", "alg-unsupported">>,
      <<twin.kid \in keys, "kid-unknown">>,
      <<verifyRs256(twin, twin.kid), "signature-invalid">> >>
<1>1. CASE t.kid \in keys
  <2>1. ~verifyRs256(t, t.kid) /\ ~verifyRs256(twin, twin.kid)
    BY <1>1 DEF Genuine, verifyRs256
  <2>2. DOMAIN checks = {1, 2, 3} /\ DOMAIN others = {1, 2, 3}
    OBVIOUS
  <2>3. /\ checks[1][1] <=> others[1][1]
        /\ checks[2][1] <=> others[2][1]
        /\ checks[3][1] <=> others[3][1]
        /\ checks[1][2] = others[1][2] /\ checks[2][2] = others[2][2] /\ checks[3][2] = others[3][2]
    BY <2>1
  <2>4. FirstFailing(others) = FirstFailing(checks)
    <3> HIDE DEF checks, others
    <3> QED BY <2>2, <2>3, SameVerdict
  <2> QED BY <2>4 DEF SignatureRefusal
<1>2. CASE t.kid \notin keys
  <2>1. DOMAIN checks = {1, 2, 3} /\ DOMAIN others = {1, 2, 3}
    OBVIOUS
  <2>2. /\ checks[1][1] <=> others[1][1]
        /\ ~checks[2][1] /\ ~others[2][1]
        /\ checks[1][2] = others[1][2] /\ checks[2][2] = others[2][2]
    BY <1>2
  <2>3. FirstFailing(checks) = IF checks[1][1] THEN checks[2][2] ELSE checks[1][2]
    <3> HIDE DEF checks, others
    <3> QED BY <2>1, <2>2, FailingDecides
  <2>4. FirstFailing(others) = FirstFailing(checks)
    <3> HIDE DEF checks, others
    <3>1. FirstFailing(others) = IF others[1][1] THEN others[2][2] ELSE others[1][2]
      BY <2>1, <2>2, FailingDecides
    <3> QED BY <2>2, <2>3, <3>1
  <2> QED BY <2>4 DEF SignatureRefusal
<1> QED BY <1>1, <1>2

LEMMA SignatureReason ==
  ASSUME NEW t, NEW keys
  PROVE  SignatureRefusal(t, keys) \in Denials
<1> DEFINE checks == <<
      <<t.alg = "RS256", "alg-unsupported">>,
      <<t.kid \in keys, "kid-unknown">>,
      <<verifyRs256(t, t.kid), "signature-invalid">> >>
<1>1. DOMAIN checks = {1, 2, 3}
  OBVIOUS
<1>2. checks[1][2] \in Denials /\ checks[2][2] \in Denials /\ checks[3][2] \in Denials
  BY DEF Denials, REFUSAL_REASONS
<1>3. FirstFailing(checks) \in Denials \cup {Ok}
  <2> HIDE DEF checks
  <2> QED BY <1>1, <1>2, ReasonListed
<1> QED BY <1>3 DEF SignatureRefusal, Denials

LEMMA ClaimsReason ==
  ASSUME NEW payload, NEW time
  PROVE  checkRegisteredClaims(payload, time) \in Denials
<1> DEFINE checks == <<
      <<payload.decodes, "claim-invalid">>,
      <<payload.iss = ISSUER, "iss-mismatch">>,
      <<payload.aud \in {"ours", "ours alone in a list"}, "aud-mismatch">>,
      <<payload.timed, "claim-invalid">> >> \o Times(payload, time)
<1>1. /\ DOMAIN checks = 1 .. 8
      /\ checks[1][2] = "claim-invalid" /\ checks[2][2] = "iss-mismatch"
      /\ checks[3][2] = "aud-mismatch" /\ checks[4][2] = "claim-invalid"
      /\ checks[5][2] = "token-expired" /\ checks[6][2] = "token-not-yet-valid"
      /\ checks[7][2] = "iat-in-future" /\ checks[8][2] = "lifetime-exceeded"
  BY DEF Times
<1>2. FirstFailing(checks) \in Denials \cup {Ok}
  <2> HIDE DEF checks
  <2>1. \A i \in DOMAIN checks : checks[i][2] \in Denials
    BY <1>1 DEF Denials, REFUSAL_REASONS
  <2>2. DOMAIN checks \subseteq Nat
    BY <1>1
  <2> QED BY <2>1, <2>2, ReasonListed
<1> QED BY <1>2 DEF checkRegisteredClaims, Denials

LEMMA FormatsReason ==
  ASSUME NEW payload
  PROVE  checkClaimFormats(payload) \in Denials
<1> DEFINE checks == <<
      << /\ CanonicalId(payload.repository_owner_id) /\ CanonicalId(payload.repository_id)
         /\ CanonicalId(payload.actor_id),
        "claim-invalid">>,
      <<payload.shaped, "claim-invalid">>,
      <<Sha1(payload.job_workflow_sha), "claim-invalid">> >>
<1>1. DOMAIN checks = {1, 2, 3}
  OBVIOUS
<1>2. checks[1][2] \in Denials /\ checks[2][2] \in Denials /\ checks[3][2] \in Denials
  BY DEF Denials, REFUSAL_REASONS
<1>3. FirstFailing(checks) \in Denials \cup {Ok}
  <2> HIDE DEF checks
  <2> QED BY <1>1, <1>2, ReasonListed
<1> QED BY <1>3 DEF checkClaimFormats, Denials

LEMMA HeaderReason ==
  ASSUME NEW t
  PROVE  HeaderRefusal(t) \in Denials
<1> DEFINE checks == <<
      <<t.credential # "missing", "credential-missing">>,
      <<t.credential # "repeated", "credential-repeated">>,
      <<t.credential # "malformed", "credential-malformed">>,
      <<t.credential # "oversized", "token-too-large">>,
      <<t.compact, "credential-malformed">>,
      <<t.alg # "absent" /\ t.kid # "absent" /\ ~t.crit, "header-invalid">> >>
<1>1. DOMAIN checks = 1 .. 6
  OBVIOUS
<1>2. /\ checks[1][2] \in Denials /\ checks[2][2] \in Denials /\ checks[3][2] \in Denials
      /\ checks[4][2] \in Denials /\ checks[5][2] \in Denials /\ checks[6][2] \in Denials
  BY DEF Denials, REFUSAL_REASONS
<1>3. FirstFailing(checks) \in Denials \cup {Ok}
  <2> HIDE DEF checks
  <2> QED BY <1>1, <1>2, ReasonListed
<1> QED BY <1>3 DEF HeaderRefusal, Denials

LEMMA TokenReason ==
  ASSUME NEW t, NEW keys, NEW time
  PROVE  TokenRefusal(t, keys, time) \in Denials
<1> DEFINE steps == <<SignatureRefusal(t, keys), checkRegisteredClaims(t.payload, time),
                      checkClaimFormats(t.payload)>>
<1> DEFINE checks == [i \in 1 .. 3 |-> <<steps[i] = Ok, steps[i]>>]
<1>1. steps[1] \in Denials /\ steps[2] \in Denials /\ steps[3] \in Denials
  BY SignatureReason, ClaimsReason, FormatsReason
<1>2. DOMAIN checks = 1 .. 3
  OBVIOUS
<1>3. \A i \in 1 .. 3 : checks[i][2] = steps[i]
  <2> HIDE DEF steps
  <2> QED BY Zenon
<1>4. FirstFailing(checks) \in Denials \cup {Ok}
  <2> HIDE DEF checks, steps
  <2> QED BY <1>1, <1>2, <1>3, ReasonListed
<1> QED BY <1>4 DEF TokenRefusal, Denials

-----------------------------------------------------------------------------
(* Registrations *)

\* What a registration demands of whom it admits.
LEMMA AdmitsPasses ==
  ASSUME NEW registration, NEW principal, admits(registration, principal) = Ok
  PROVE  LET identity == registration.workload_identity
         IN  /\ registration.status = "active"
             /\ principal.event_name \in Range(identity.admitted_events)
             /\ Own(identity, "required_job_workflow_ref") =>
                  identity.required_job_workflow_ref = principal.job_workflow_ref
             /\ Own(identity, "required_job_workflow_sha") =>
                  identity.required_job_workflow_sha = principal.job_workflow_sha
<1> DEFINE identity == registration.workload_identity
           checks == <<
             <<registration.status = "active", "not-active">>,
             <<principal.event_name \in Range(identity.admitted_events), "event-not-admitted">>,
             <<Own(identity, "required_job_workflow_ref") =>
                 identity["required_job_workflow_ref"] = principal.job_workflow_ref, "pin-ref">>,
             <<Own(identity, "required_job_workflow_sha") =>
                 identity["required_job_workflow_sha"] = principal.job_workflow_sha, "pin-sha">> >>
<1>1. DOMAIN checks = {1, 2, 3, 4}
  OBVIOUS
<1>2. FirstFailing(checks) = Ok
  BY DEF admits
<1>3. \A i \in DOMAIN checks : checks[i][2] # Ok
  BY <1>1 DEF Ok
<1>4. \A i \in DOMAIN checks : checks[i][1]
  <2> HIDE DEF checks
  <2> QED BY <1>1, <1>2, <1>3, AllPass
<1>5. checks[1][1] /\ checks[2][1] /\ checks[3][1] /\ checks[4][1]
  BY <1>1, <1>4
<1> QED BY <1>5

LEMMA AdmitsReason ==
  ASSUME NEW registration, NEW principal
  PROVE  admits(registration, principal) \in Denials
<1> DEFINE identity == registration.workload_identity
           checks == <<
             <<registration.status = "active", "not-active">>,
             <<principal.event_name \in Range(identity.admitted_events), "event-not-admitted">>,
             <<Own(identity, "required_job_workflow_ref") =>
                 identity["required_job_workflow_ref"] = principal.job_workflow_ref, "pin-ref">>,
             <<Own(identity, "required_job_workflow_sha") =>
                 identity["required_job_workflow_sha"] = principal.job_workflow_sha, "pin-sha">> >>
<1>1. DOMAIN checks = {1, 2, 3, 4}
  OBVIOUS
<1>2. /\ checks[1][2] \in Denials /\ checks[2][2] \in Denials
      /\ checks[3][2] \in Denials /\ checks[4][2] \in Denials
  BY DEF Denials, REFUSAL_REASONS
<1>3. FirstFailing(checks) \in Denials \cup {Ok}
  <2> HIDE DEF checks
  <2> QED BY <1>1, <1>2, ReasonListed
<1> QED BY <1>3 DEF admits, Denials

\* Step 6 refuses for a reason of the list, or the caller's binding admits it.
LEMMA AuthorizePasses ==
  ASSUME NEW principal
  PROVE  LET registration == entries[bindings[bindingKey(principal)]]
             denial == authorizeFor(entries, bindings, principal)
         IN  /\ denial \in Denials
             /\ denial = Ok =>
                  /\ Own(bindings, bindingKey(principal))
                  /\ admits(registration, principal) = Ok
                  /\ principal.actor_id \notin REFUSED_ACTOR_IDS
<1> DEFINE refusal == admits(entries[bindings[bindingKey(principal)]], principal)
           checks == << <<refusal = Ok, refusal>>,
                        <<principal.actor_id \notin REFUSED_ACTOR_IDS, "refused-actor">> >>
<1>1. CASE ~Own(bindings, bindingKey(principal))
  BY <1>1 DEF authorizeFor, Denials, REFUSAL_REASONS, Ok
<1>2. CASE Own(bindings, bindingKey(principal))
  <2>1. authorizeFor(entries, bindings, principal) = FirstFailing(checks)
    BY <1>2 DEF authorizeFor
  <2>2. /\ DOMAIN checks = {1, 2} /\ checks[1][2] \in Denials /\ checks[2][2] \in Denials
        /\ checks[2][2] # Ok
    BY AdmitsReason DEF Denials, REFUSAL_REASONS, Ok
  <2>3. checks[1][2] = Ok <=> checks[1][1]
    OBVIOUS
  <2>4. FirstFailing(checks) \in Denials \cup {Ok}
    <3> HIDE DEF checks
    <3> QED BY <2>2, ReasonListed
  <2>5. ASSUME FirstFailing(checks) = Ok PROVE checks[1][1] /\ checks[2][1]
    <3> HIDE DEF checks
    <3>1. \A i \in DOMAIN checks : checks[i][1]
      BY <2>2, <2>3, <2>5, AllPass
    <3> QED BY <2>2, <3>1
  <2>6. FirstFailing(checks) = Ok => refusal = Ok /\ principal.actor_id \notin REFUSED_ACTOR_IDS
    BY <2>5
  <2> HIDE DEF checks
  <2> QED BY <1>2, <2>1, <2>4, <2>6 DEF Denials
<1> QED BY <1>1, <1>2

-----------------------------------------------------------------------------
(* The inductive invariant *)

\* What the process was started with and who calls it.
Chosen ==
  /\ deployment \in Deployments
  /\ token \in deployment.tokens
  /\ now \in Nat

\* The policy held is the author's, and valid, from the moment it was loaded.
PolicyInv ==
  /\ stage = "policy" => candidate = deployment.policy
  /\ stage \notin {"policy", "refused"} =>
       held = deployment.policy /\ validateGuardrailPolicy(held)

KeyOf(i) == bindingKey(Document.workspaces[i].workload_identity)

\* The two maps after the document's first n registrations.
Loaded(n) ==
  /\ IsFiniteSet(DOMAIN entries) /\ Cardinality(DOMAIN entries) = n
  /\ DOMAIN entries = {Document.workspaces[i].workspace_id : i \in 1 .. n}
  /\ DOMAIN bindings = {KeyOf(i) : i \in 1 .. n}
  /\ \A i \in 1 .. n :
       /\ validateWorkspaceRegistration(Document.workspaces[i])
       /\ entries[Document.workspaces[i].workspace_id] = Document.workspaces[i]
       /\ bindings[KeyOf(i)] = Document.workspaces[i].workspace_id
       /\ \A j \in 1 .. n : KeyOf(i) = KeyOf(j) => i = j

RegistryInv ==
  \E n \in 0 .. Len(Document.workspaces) :
    /\ Loaded(n)
    /\ stage \in {"config", "role", "privileges", "serving"} => n = Len(Document.workspaces)

\* What the checks that have passed say of the role and the connection: whatever was granted
\* since, only a way of the kind the next query looks for may be older than the check.
RoleInv ==
  /\ role \in [ways : SUBSET Ways, inherit : BOOLEAN, group : SUBSET Ways,
               appends : BOOLEAN, schema : BOOLEAN]
  /\ stage \in {"role", "privileges", "serving"} =>
       tls = IF isLoopback(Env.host) THEN "plain" ELSE "verified"
  /\ stage \in {"privileges", "serving"} => (tls = "verified" => Env.certified)
  /\ stage = "serving" => (tls = "verified" => Env.negotiated)
  /\ stage = "privileges" => Powers(role) \subseteq given \cup ({"itself"} \X TableWays)
  /\ stage = "serving" => Powers(role) \subseteq given

\* The token is the issuer's, and the i-th registration is that of its caller and admits it.
Admitting(i) ==
  LET principal == PrincipalOf(token.payload)
  IN  /\ Genuine(token)
      /\ principal.actor_id \notin REFUSED_ACTOR_IDS
      /\ KeyOf(i) = bindingKey(principal)
      /\ admits(Document.workspaces[i], principal) = Ok

RequestInv ==
  /\ stage # "serving" => step = None /\ caller = NoOne /\ answer = None
  /\ step = "body" \/ caller # NoOne =>
       /\ caller.principal = PrincipalOf(token.payload)
       /\ \E i \in 1 .. Len(Document.workspaces) :
            Admitting(i) /\ caller.workspace = Document.workspaces[i].workspace_id

\* What an answer discloses, stores and says.
AnswerInv ==
  answer # None =>
    /\ answer.principal # NoOne => Genuine(token)
    /\ answer.reason \in REFUSAL_REASONS \cup {Ok}
    /\ answer.reason = "rejected" => ~validateEvidence(answer.about)
    /\ answer.status = 200 =>
         \E i \in 1 .. Len(Document.workspaces) :
           Admitting(i) /\ answer.about = Document.workspaces[i]
    /\ answer.status = 202 =>
         /\ evaluateGuardrails(answer.about.record, deployment.policy) = "accepted"
         /\ answer.about.submitted_by = submittedBy(PrincipalOf(token.payload))
         /\ \E i \in 1 .. Len(Document.workspaces) :
              Admitting(i) /\ answer.about.workspace_id = Document.workspaces[i].workspace_id

\* A time at which the token's own times are right.
InTime(time) ==
  /\ time \in Nat
  /\ token.payload.timed
  /\ token.payload.exp > time - CLOCK_SKEW_S
  /\ token.payload.iat <= time + CLOCK_SKEW_S
  /\ token.payload.exp - token.payload.iat <= MAX_LIFETIME_S

AdmittedInv == admitted # <<>> => InTime(admitted[1]) /\ InTime(admitted[2])

ServiceInv ==
  /\ Chosen /\ PolicyInv /\ RegistryInv /\ RoleInv /\ RequestInv /\ AnswerInv /\ AdmittedInv

-----------------------------------------------------------------------------
(* Starting *)

\* Requests change nothing of what the process was started with.
ServingStep ==
  \/ Present
  \/ \E keys \in SUBSET Kids : Keys(keys) \/ Refreshed(keys)
  \/ Disclose
  \/ \E record \in deployment.records : Submit(record)

LEMMA ServingFrame ==
  ASSUME ServingStep
  PROVE  UNCHANGED <<deployment, stage, policyVars, registryVars, roleVars, now, token>>
<1>1. CASE Present
  BY <1>1 DEF Present
<1>2. CASE \E keys \in SUBSET Kids : Keys(keys) \/ Refreshed(keys)
  BY <1>2 DEF Keys, Refreshed
<1>3. CASE Disclose
  BY <1>3 DEF Disclose
<1>4. CASE \E record \in deployment.records : Submit(record)
  BY <1>4 DEF Submit
<1> QED BY <1>1, <1>2, <1>3, <1>4 DEF ServingStep

LEMMA Unchosen ==
  ASSUME [Next]_vars
  PROVE  deployment' = deployment /\ token' = token
<1>1. CASE ServingStep
  BY <1>1, ServingFrame
<1> QED
  BY <1>1 DEF Next, ServingStep, vars, requestVars, LoadPolicy, Register, RegistryLoaded,
     ReadDatabaseConfig, QueryRole, QueryPrivileges, Unreachable, EditPolicy, Administer,
     Restart, Tick

LEMMA ChosenStep ==
  ASSUME Chosen, [Next]_vars
  PROVE  Chosen'
<1>1. now' \in Nat
  <2>1. CASE ServingStep
    BY <2>1, ServingFrame DEF Chosen
  <2>2. CASE Tick
    BY <2>2 DEF Tick, Chosen
  <2> QED
    BY <2>1, <2>2 DEF Chosen, Next, ServingStep, vars, LoadPolicy, Register, RegistryLoaded,
       ReadDatabaseConfig, QueryRole, QueryPrivileges, Unreachable, EditPolicy, Administer,
       Restart
<1> QED BY <1>1, Unchosen DEF Chosen

\* What is validated is what is held, and nobody else has hold of it.
LEMMA PolicyStep ==
  ASSUME PolicyInv, [Next]_vars
  PROVE  PolicyInv'
<1>0. deployment' = deployment
  BY Unchosen
<1>1. CASE ServingStep
  BY <1>0, <1>1, ServingFrame DEF PolicyInv, policyVars
<1>2. CASE LoadPolicy
  BY <1>0, <1>2 DEF LoadPolicy, PolicyInv
<1>3. CASE Restart
  BY <1>0, <1>3 DEF Restart, PolicyInv
<1>4. CASE \E policy \in deployment.edits : EditPolicy(policy)
  BY <1>0, <1>4 DEF EditPolicy, PolicyInv
<1>5. CASE \/ Register \/ RegistryLoaded \/ ReadDatabaseConfig \/ QueryRole
           \/ QueryPrivileges \/ Unreachable \/ Administer \/ Tick
  <2>1. UNCHANGED policyVars /\ (stage' = stage
          \/ (stage \notin {"policy", "refused"} /\ stage' # "policy"))
    BY <1>5 DEF Register, RegistryLoaded, ReadDatabaseConfig, QueryRole,
       QueryPrivileges, Unreachable, Administer, Tick
  <2> QED BY <1>0, <2>1 DEF PolicyInv, policyVars
<1>6. CASE UNCHANGED vars
  BY <1>6 DEF vars, PolicyInv, policyVars
<1> QED BY <1>1, <1>2, <1>3, <1>4, <1>5, <1>6 DEF Next, ServingStep

-----------------------------------------------------------------------------
(* The registry *)

\* One registration more: its id and its triple are new to both maps.
LEMMA RegistersOneMore ==
  ASSUME Chosen, NEW n \in 0 .. Len(Document.workspaces), Loaded(n), Register,
         Registrable(Document.workspaces[n + 1])
  PROVE  n < Len(Document.workspaces) /\ Loaded(n + 1)'
<1> DEFINE registration == Document.workspaces[n + 1]
           id == registration.workspace_id
           key == KeyOf(n + 1)
<1>1. Len(Document.workspaces) \in Nat
  BY DeploymentAssumption DEF Chosen, Document
<1>2. /\ n < Len(Document.workspaces)
      /\ entries' = With(entries, id, registration)
      /\ bindings' = With(bindings, key, id)
      /\ deployment' = deployment
  BY DEF Register, Loaded, KeyOf
<1>3. id \notin DOMAIN entries /\ key \notin DOMAIN bindings
        /\ validateWorkspaceRegistration(registration)
  BY DEF Registrable, Own, KeyOf
<1>4. /\ DOMAIN entries' = DOMAIN entries \cup {id}
      /\ DOMAIN bindings' = DOMAIN bindings \cup {key}
      /\ \A k \in DOMAIN entries : entries'[k] = entries[k]
      /\ \A k \in DOMAIN bindings : bindings'[k] = bindings[k]
      /\ entries'[id] = registration /\ bindings'[key] = id
  BY <1>2, <1>3 DEF With
<1>5. IsFiniteSet(DOMAIN entries') /\ Cardinality(DOMAIN entries') = n + 1
  <2>1. IsFiniteSet(DOMAIN entries) /\ Cardinality(DOMAIN entries) = n
    BY DEF Loaded
  <2> HIDE DEF id, key, registration
  <2>2. /\ IsFiniteSet(DOMAIN entries \cup {id})
        /\ Cardinality(DOMAIN entries \cup {id}) = n + 1
    BY <1>3, <2>1, FS_AddElement
  <2> QED BY <1>4, <2>2
<1>6. /\ \A i \in 1 .. n + 1 : i \in 1 .. n \/ i = n + 1
      /\ \A i \in 1 .. n : i \in 1 .. n + 1
      /\ n + 1 \in 1 .. n + 1
  OBVIOUS
<1> HIDE DEF id, key, registration
<1>7. /\ DOMAIN entries' = {Document.workspaces[i].workspace_id : i \in 1 .. n + 1}
      /\ DOMAIN bindings' = {KeyOf(i) : i \in 1 .. n + 1}
  BY <1>4, <1>6 DEF Loaded, id, key, registration
<1>8. ASSUME NEW i \in 1 .. n + 1
      PROVE  /\ validateWorkspaceRegistration(Document.workspaces[i])
             /\ entries'[Document.workspaces[i].workspace_id] = Document.workspaces[i]
             /\ bindings'[KeyOf(i)] = Document.workspaces[i].workspace_id
             /\ \A j \in 1 .. n + 1 : KeyOf(i) = KeyOf(j) => i = j
  <2>1. \A j \in 1 .. n : KeyOf(j) # key
    BY <1>3 DEF Loaded
  <2>2. CASE i \in 1 .. n
    <3>1. Document.workspaces[i].workspace_id \in DOMAIN entries /\ KeyOf(i) \in DOMAIN bindings
      BY <2>2 DEF Loaded
    <3> QED BY <1>4, <1>6, <2>1, <2>2, <3>1 DEF Loaded, key
  <2>3. CASE i = n + 1
    BY <1>3, <1>4, <1>6, <2>1, <2>3 DEF id, key, registration
  <2> QED BY <1>6, <2>2, <2>3
<1>9. Document' = Document /\ \A i : KeyOf(i)' = KeyOf(i)
  BY <1>2 DEF Document, KeyOf
<1> QED BY <1>2, <1>5, <1>7, <1>8, <1>9 DEF Loaded

LEMMA RegistryStep ==
  ASSUME Chosen, RegistryInv, [Next]_vars
  PROVE  RegistryInv'
<1>0. deployment' = deployment
  BY Unchosen
<1>1. PICK n \in 0 .. Len(Document.workspaces) :
        /\ Loaded(n)
        /\ stage \in {"config", "role", "privileges", "serving"} =>
             n = Len(Document.workspaces)
  BY DEF RegistryInv
<1>2. Len(Document.workspaces) \in Nat /\ Document' = Document
  BY <1>0, DeploymentAssumption DEF Chosen, Document
<1>3. UNCHANGED registryVars => Loaded(n)'
  BY <1>0, <1>1 DEF Loaded, KeyOf, Document, registryVars
<1>4. CASE Register
  <2>1. Document.workspaces[n + 1] = Document.workspaces[Cardinality(DOMAIN entries) + 1]
    BY <1>1 DEF Loaded
  <2>2. CASE Registrable(Document.workspaces[n + 1])
    <3>1. n < Len(Document.workspaces) /\ Loaded(n + 1)'
      BY <1>1, <1>4, <2>2, RegistersOneMore
    <3>2. stage' = "registry"
      BY <1>4, <2>1, <2>2 DEF Register
    <3>3. n + 1 \in 0 .. Len(Document.workspaces)
      BY <1>2, <3>1
    <3> QED BY <1>2, <3>1, <3>2, <3>3 DEF RegistryInv
  <2>3. CASE ~Registrable(Document.workspaces[n + 1])
    <3>1. UNCHANGED registryVars /\ stage' = "refused"
      BY <1>4, <2>1, <2>3 DEF Register
    <3> QED BY <1>1, <1>2, <1>3, <3>1 DEF RegistryInv
  <2> QED BY <2>2, <2>3
<1>5. CASE RegistryLoaded
  <2>1. UNCHANGED registryVars /\ (stage' = "config" => n = Len(Document.workspaces))
          /\ stage' \in {"config", "refused"}
    BY <1>1, <1>5 DEF RegistryLoaded, Loaded
  <2> QED BY <1>1, <1>2, <1>3, <2>1 DEF RegistryInv
<1>6. CASE Restart
  <2>1. entries' = <<>> /\ bindings' = <<>> /\ stage' = "policy"
    BY <1>6 DEF Restart
  <2>2. Loaded(0)'
    BY <2>1, FS_EmptySet DEF Loaded
  <2> QED BY <1>2, <2>1, <2>2 DEF RegistryInv
<1>7. CASE UNCHANGED registryVars
           /\ (stage' = stage \/ stage' \in {"registry", "refused"}
                 \/ stage \in {"config", "role", "privileges", "serving"})
  BY <1>1, <1>2, <1>3, <1>7 DEF RegistryInv
<1>8. CASE ServingStep
  BY <1>7, <1>8, ServingFrame
<1> QED
  BY <1>4, <1>5, <1>6, <1>7, <1>8 DEF Next, ServingStep, vars, LoadPolicy,
     ReadDatabaseConfig, QueryRole, QueryPrivileges, Unreachable, EditPolicy, Administer, Tick

-----------------------------------------------------------------------------
(* The role *)

\* What administers a role between two looks at it adds to what was given, and to no more.
LEMMA GivenCovers ==
  ASSUME RoleInv, Chosen, Administer
  PROVE  /\ role' \in [ways : SUBSET Ways, inherit : BOOLEAN, group : SUBSET Ways,
                       appends : BOOLEAN, schema : BOOLEAN]
         /\ \A older : Powers(role) \subseteq given \cup older =>
                       Powers(role') \subseteq given' \cup older
<1>1. deployment.grants \subseteq Ways
  BY DeploymentAssumption DEF Chosen
<1>2. PICK w \in Ways : \/ role' = [role EXCEPT !.ways = @ \cup {w}]
                        \/ role' = [role EXCEPT !.ways = @ \ {w}]
                        \/ role' = [role EXCEPT !.group = @ \cup {w}]
  BY <1>1 DEF Administer
<1>3. role' \in [ways : SUBSET Ways, inherit : BOOLEAN, group : SUBSET Ways,
                 appends : BOOLEAN, schema : BOOLEAN]
  <2> HIDE DEF Ways
  <2> QED BY <1>2 DEF RoleInv
<1>4. given' = given \cup (Powers(role') \ Powers(role))
  BY DEF Administer
<1> QED BY <1>3, <1>4

\* What the first query lets pass is what the second looks for.
LEMMA FirstQuery ==
  ASSUME RoleInv, ~Unsafe
  PROVE  Powers(role) \subseteq {"itself"} \X TableWays
<1>1. role.ways \subseteq TableWays /\ "membership" \notin role.ways
  BY DEF RoleInv, Unsafe, Ways, TableWays
<1> QED BY <1>1 DEF Powers

LEMMA SecondQuery ==
  ASSUME RoleInv, Privileges(role) = {}, Powers(role) \subseteq given \cup ({"itself"} \X TableWays)
  PROVE  Powers(role) \subseteq given
<1>1. TableWays \cap role.ways = {}
  BY DEF Privileges
<1>2. ASSUME NEW p \in Powers(role) PROVE p \notin {"itself"} \X TableWays
  <2> SUFFICES ASSUME NEW w \in TableWays, p = <<"itself", w>> PROVE FALSE
    OBVIOUS
  <2>1. PICK v \in role.ways \cup role.group :
          \/ v \in role.ways /\ p = <<"itself", v>>
          \/ p = <<"a member", v>>
    BY <1>2 DEF Powers
  <2>2. "itself" # "a member"
    OBVIOUS
  <2>3. p[1] = "itself" /\ p[2] = w
    OBVIOUS
  <2>4. v \in role.ways /\ v = w
    BY <2>1, <2>2, <2>3
  <2> QED BY <1>1, <2>4
<1> QED BY <1>2

LEMMA RoleStep ==
  ASSUME Chosen, RoleInv, [Next]_vars
  PROVE  RoleInv'
<1>0. deployment' = deployment /\ Env' = Env
  BY Unchosen DEF Env
<1>1. CASE UNCHANGED roleVars /\ (stage' = stage \/ stage' \notin {"role", "privileges", "serving"})
  BY <1>0, <1>1 DEF RoleInv, roleVars
<1>2. CASE ServingStep
  BY <1>1, <1>2, ServingFrame
<1>3. CASE ReadDatabaseConfig
  BY <1>0, <1>3 DEF ReadDatabaseConfig, RoleInv
<1>4. CASE QueryRole
  <2>1. UNCHANGED roleVars /\ stage = "role"
    BY <1>4 DEF QueryRole
  <2>2. CASE stage' = "privileges"
    <3>1. ~Unsafe /\ (tls = "verified" => Env.certified)
      BY <1>4, <2>2 DEF QueryRole
    <3>2. Powers(role) \subseteq {"itself"} \X TableWays
      BY <3>1, FirstQuery
    <3> QED BY <1>0, <2>1, <2>2, <3>1, <3>2 DEF RoleInv, roleVars
  <2>3. CASE stage' = "refused"
    BY <1>1, <2>1, <2>3
  <2> QED BY <1>4, <2>2, <2>3 DEF QueryRole
<1>5. CASE QueryPrivileges
  <2>1. UNCHANGED roleVars /\ stage = "privileges"
    BY <1>5 DEF QueryPrivileges
  <2>2. CASE stage' = "serving"
    <3>1. Privileges(role) = {} /\ (tls = "verified" => Env.negotiated)
      BY <1>5, <2>2 DEF QueryPrivileges
    <3>2. Powers(role) \subseteq given
      BY <2>1, <3>1, SecondQuery DEF RoleInv
    <3> QED BY <1>0, <2>1, <2>2, <3>1, <3>2 DEF RoleInv, roleVars
  <2>3. CASE stage' = "refused"
    BY <1>1, <2>1, <2>3
  <2> QED BY <1>5, <2>2, <2>3 DEF QueryPrivileges
<1>6. CASE Administer
  <2>1. stage' = stage /\ tls' = tls
    BY <1>6 DEF Administer
  <2>2. stage = "privileges" => Powers(role') \subseteq given' \cup ({"itself"} \X TableWays)
    BY <1>6, GivenCovers DEF RoleInv
  <2>3. stage = "serving" => Powers(role') \subseteq given'
    <3>1. Powers(role) \subseteq given \cup {} => Powers(role') \subseteq given' \cup {}
      BY <1>6, GivenCovers
    <3> QED BY <3>1 DEF RoleInv
  <2> QED BY <1>0, <1>6, <2>1, <2>2, <2>3, GivenCovers DEF RoleInv
<1>7. CASE Restart
  BY <1>0, <1>7 DEF Restart, RoleInv
<1> QED
  BY <1>1, <1>2, <1>3, <1>4, <1>5, <1>6, <1>7 DEF Next, ServingStep, vars, LoadPolicy,
     Register, RegistryLoaded, Unreachable, EditPolicy, Tick

-----------------------------------------------------------------------------
(* Requests *)

\* A request that is refused before its body is read.
Refusing ==
  /\ step' = None /\ caller' = NoOne /\ UNCHANGED admitted
  /\ answer'.reason \in Denials
  /\ answer'.status \notin {200, 202}
  /\ answer'.principal # NoOne => Genuine(token)

\* One that waits for its keys.
Waiting ==
  /\ step' \in {"keys", "refresh"}
  /\ UNCHANGED <<caller, admitted>>
  /\ answer' = answer \/ answer' = None

\* One that is admitted, now.
Admitted ==
  /\ step' = "body" /\ UNCHANGED answer
  /\ caller'.principal = PrincipalOf(token.payload)
  /\ \E i \in 1 .. Len(Document.workspaces) :
       Admitting(i) /\ caller'.workspace = Document.workspaces[i].workspace_id
  /\ InTime(now)
  /\ admitted' = IF admitted = <<>> THEN <<now, now>> ELSE <<admitted[1], now>>

LEMMA Refuses ==
  ASSUME NEW status \in {401, 403, 503}, NEW reason \in Denials, NEW who,
         Refuse(status, reason, who), who # NoOne => Genuine(token)
  PROVE  Refusing
BY DEF Refuse, Answer, Refusing

\* The token is judged by its signature first, then by its claims, now, and by its binding.
LEMMA JudgeDoes ==
  ASSUME Chosen, RegistryInv, stage = "serving", NEW keys \in SUBSET Kids, Judge(keys)
  PROVE  Refusing \/ Admitted
<1> DEFINE refusal == TokenRefusal(token, keys, now)
           principal == PrincipalOf(token.payload)
           denial == authorizeFor(entries, bindings, principal)
           bound == Own(bindings, bindingKey(principal))
           workspace == IF bound THEN bindings[bindingKey(principal)] ELSE None
<1>1. \/ refusal # Ok /\ Refuse(401, refusal, NoOne)
      \/ refusal = Ok /\ denial # Ok /\ Refuse(403, denial, Named(principal, workspace))
      \/ refusal = Ok /\ denial = Ok /\ Admit(principal, workspace)
  BY DEF Judge
<1>2. refusal \in Denials /\ denial \in Denials
  BY TokenReason, AuthorizePasses
<1>3. refusal = Ok => Genuine(token)
  BY TokenPasses, SignaturePasses DEF Genuine
<1>4. CASE refusal # Ok /\ Refuse(401, refusal, NoOne)
  <2> HIDE DEF refusal
  <2> QED BY <1>2, <1>4, Refuses
<1>5. CASE refusal = Ok /\ Refuse(403, denial, Named(principal, workspace))
  <2> HIDE DEF refusal, denial, principal, workspace
  <2> QED BY <1>2, <1>3, <1>5, Refuses
<1>6. CASE refusal = Ok /\ denial = Ok /\ Admit(principal, workspace)
  <2>1. /\ bound
        /\ admits(entries[bindings[bindingKey(principal)]], principal) = Ok
        /\ principal.actor_id \notin REFUSED_ACTOR_IDS
    BY <1>6, AuthorizePasses
  <2>2. Loaded(Len(Document.workspaces))
    BY DEF RegistryInv
  <2>3. PICK i \in 1 .. Len(Document.workspaces) : KeyOf(i) = bindingKey(principal)
    BY <2>1, <2>2 DEF Loaded, Own
  <2>4. /\ workspace = Document.workspaces[i].workspace_id
        /\ entries[bindings[bindingKey(principal)]] = Document.workspaces[i]
    BY <2>1, <2>2, <2>3 DEF Loaded
  <2>5. Admitting(i)
    BY <1>3, <1>6, <2>1, <2>3, <2>4 DEF Admitting
  <2>6. InTime(now)
    <3>1. checkRegisteredClaims(token.payload, now) = Ok
      BY <1>6, TokenPasses
    <3> QED BY <3>1, ClaimsPass DEF InTime, Chosen
  <2>7. /\ step' = "body" /\ UNCHANGED answer
        /\ caller' = [principal |-> principal, workspace |-> workspace]
        /\ admitted' = IF admitted = <<>> THEN <<now, now>> ELSE <<admitted[1], now>>
    BY <1>6 DEF Admit
  <2> HIDE DEF workspace, principal
  <2>8. caller'.principal = principal /\ caller'.workspace = workspace
    BY <2>7
  <2> QED BY <2>4, <2>5, <2>6, <2>7, <2>8 DEF Admitted, principal
<1> QED BY <1>1, <1>4, <1>5, <1>6

\* A policy that is valid can be read.
LEMMA ValidIsSupported ==
  ASSUME NEW policy, validateGuardrailPolicy(policy)
  PROVE  Supported(policy)
BY DEF validateGuardrailPolicy, validateRules, Supported, RulesOf, IsListOf

\* One that is answered from what it was admitted as.
Answered ==
  /\ step' = None /\ caller' = NoOne /\ UNCHANGED admitted
  /\ AnswerInv'

LEMMA DiscloseDoes ==
  ASSUME ServiceInv, Disclose
  PROVE  Answered
<1>0. UNCHANGED <<deployment, entries, token>>
  BY DEF Disclose, registryVars
<1>1. /\ answer' = [status |-> 200, reason |-> Ok, principal |-> NoOne,
                    about |-> entries[caller.workspace]]
      /\ step' = None /\ caller' = NoOne /\ UNCHANGED admitted /\ step = "body"
  BY DEF Disclose, Answer
<1>2. Loaded(Len(Document.workspaces))
  BY <1>1, NoneAssumption DEF ServiceInv, RequestInv, RegistryInv
<1>3. PICK i \in 1 .. Len(Document.workspaces) :
        Admitting(i) /\ caller.workspace = Document.workspaces[i].workspace_id
  BY <1>1 DEF ServiceInv, RequestInv
<1>4. entries[caller.workspace] = Document.workspaces[i]
  BY <1>2, <1>3 DEF Loaded
<1>5. Admitting(i)' /\ Document' = Document
  BY <1>0, <1>3 DEF Admitting, KeyOf, Document, Genuine
<1>6. answer'.status = 200 /\ answer'.reason = Ok /\ answer'.principal = NoOne
        /\ answer'.about = Document.workspaces[i]
  BY <1>1, <1>4
<1>7. Ok # "rejected"
  BY DEF Ok
<1> QED BY <1>1, <1>5, <1>6, <1>7 DEF Answered, AnswerInv

LEMMA SubmitDoes ==
  ASSUME ServiceInv, NEW record, Submit(record)
  PROVE  Answered
<1> DEFINE disposition == evaluateGuardrails(record, held)
           who == Named(caller.principal, caller.workspace)
           what == [record |-> record, workspace_id |-> caller.workspace,
                    submitted_by |-> submittedBy(caller.principal)]
<1>0. UNCHANGED <<deployment, token, admitted>> /\ step = "body"
  BY DEF Submit
<1>1. stage = "serving"
  BY <1>0, NoneAssumption DEF ServiceInv, RequestInv
<1>2. held = deployment.policy /\ Supported(held)
  BY <1>1, ValidIsSupported DEF ServiceInv, PolicyInv
<1>3. PICK i \in 1 .. Len(Document.workspaces) :
        Admitting(i) /\ caller.workspace = Document.workspaces[i].workspace_id
  BY <1>0 DEF ServiceInv, RequestInv
<1>4. Admitting(i)' /\ Document' = Document /\ Genuine(token)'
  BY <1>0, <1>3 DEF Admitting, KeyOf, Document, Genuine
<1>5. caller.principal = PrincipalOf(token.payload)
  BY <1>0 DEF ServiceInv, RequestInv
<1>6. step' = None /\ caller' = NoOne
  BY DEF Submit, Answer
<1>7. CASE disposition = "accepted"
  <2>1. answer' = [status |-> 202, reason |-> Ok, principal |-> NoOne, about |-> what]
    BY <1>7 DEF Submit, Answer
  <2>2. /\ answer'.status = 202 /\ answer'.reason = Ok /\ answer'.principal = NoOne
        /\ answer'.about.record = record
        /\ answer'.about.workspace_id = Document.workspaces[i].workspace_id
        /\ answer'.about.submitted_by = submittedBy(PrincipalOf(token.payload))
    BY <1>3, <1>5, <2>1
  <2>3. Ok # "rejected"
    BY DEF Ok
  <2> QED BY <1>0, <1>2, <1>4, <1>6, <1>7, <2>2, <2>3 DEF Answered, AnswerInv
<1>8. CASE disposition # "accepted"
  <2>1. answer' = [status |-> 422, reason |-> disposition, principal |-> who, about |-> record]
    BY <1>8 DEF Submit, Answer
  <2>2. /\ disposition \in {"rejected", "needs-remediation"}
        /\ disposition = "rejected" => ~validateEvidence(record)
    BY <1>2, <1>8 DEF evaluateGuardrails
  <2> HIDE DEF disposition, who
  <2>3. answer'.status = 422 /\ answer'.reason = disposition /\ answer'.about = record
    BY <2>1
  <2> QED BY <1>0, <1>4, <1>6, <2>2, <2>3 DEF Answered, AnswerInv, REFUSAL_REASONS
<1> QED BY <1>7, <1>8

\* What a step of a request is.
LEMMA ServingDoes ==
  ASSUME ServiceInv, ServingStep
  PROVE  stage = "serving" /\ (Refusing \/ Waiting \/ Admitted \/ Answered)
<1>0. step \in {"keys", "refresh", "body"} => stage = "serving"
  BY NoneAssumption DEF ServiceInv, RequestInv
<1>1. CASE Present
  <2>1. CASE HeaderRefusal(token) # Ok /\ Refuse(401, HeaderRefusal(token), NoOne)
    BY <1>1, <2>1, HeaderReason, Refuses DEF Present
  <2>2. CASE step' = "keys" /\ answer' = None /\ UNCHANGED <<caller, admitted>>
    BY <1>1, <2>2 DEF Present, Waiting
  <2> QED BY <1>1, <2>1, <2>2 DEF Present
<1>2. ASSUME NEW keys \in SUBSET Kids, Keys(keys) PROVE stage = "serving" /\ (Refusing \/ Waiting \/ Admitted)
  <2>0. stage = "serving"
    BY <1>0, <1>2 DEF Keys
  <2>1. "verifier-fault" \in Denials /\ "key-set-unavailable" \in Denials
    BY DEF Denials, REFUSAL_REASONS
  <2>2. CASE Refuse(503, "verifier-fault", NoOne)
    BY <2>0, <2>1, <2>2, Refuses
  <2>3. CASE Refuse(503, "key-set-unavailable", NoOne)
    BY <2>0, <2>1, <2>3, Refuses
  <2>4. CASE Judge(keys)
    BY <2>0, <2>4, JudgeDoes DEF ServiceInv
  <2>5. CASE step' = "refresh" /\ UNCHANGED <<caller, answer, admitted>>
    BY <2>0, <2>5 DEF Waiting
  <2> QED BY <1>2, <2>2, <2>3, <2>4, <2>5 DEF Keys
<1>3. ASSUME NEW keys \in SUBSET Kids, Refreshed(keys) PROVE stage = "serving" /\ (Refusing \/ Admitted)
  <2>0. stage = "serving"
    BY <1>0, <1>3 DEF Refreshed
  <2>1. "verifier-fault" \in Denials
    BY DEF Denials, REFUSAL_REASONS
  <2>2. CASE Refuse(503, "verifier-fault", NoOne)
    BY <2>0, <2>1, <2>2, Refuses
  <2>3. CASE Judge(keys)
    BY <2>0, <2>3, JudgeDoes DEF ServiceInv
  <2> QED BY <1>3, <2>2, <2>3 DEF Refreshed
<1>4. CASE Disclose
  BY <1>0, <1>4, DiscloseDoes DEF Disclose
<1>5. CASE \E record \in deployment.records : Submit(record)
  BY <1>0, <1>5, SubmitDoes DEF Submit
<1> QED BY <1>1, <1>2, <1>3, <1>4, <1>5 DEF ServingStep

\* What the other steps do to requests: nothing, or they end them all.
LEMMA OtherSteps ==
  ASSUME ServiceInv, [Next]_vars, ~ServingStep
  PROVE  /\ UNCHANGED <<token, admitted>> /\ now' >= now
         /\ \/ UNCHANGED <<step, caller, answer>> /\ (stage = "serving" <=> stage' = "serving")
            \/ step' = None /\ caller' = NoOne /\ answer' = None
<1>0. now \in Nat /\ (stage # "serving" => step = None /\ caller = NoOne /\ answer = None)
  BY DEF ServiceInv, Chosen, RequestInv
<1>1. CASE UNCHANGED <<requestVars, now>> /\ (stage = "serving" => stage' = "serving")
  BY <1>0, <1>1 DEF requestVars
<1>2. CASE Tick
  BY <1>0, <1>2 DEF Tick, requestVars
<1>3. CASE Restart
  BY <1>0, <1>3 DEF Restart
<1> QED
  BY <1>1, <1>2, <1>3 DEF Next, ServingStep, vars, LoadPolicy, Register, RegistryLoaded,
     ReadDatabaseConfig, QueryRole, QueryPrivileges, Unreachable, EditPolicy, Administer

LEMMA RequestStep ==
  ASSUME ServiceInv, [Next]_vars
  PROVE  RequestInv'
<1>0. Document' = Document /\ \A i : Admitting(i) => Admitting(i)'
  BY Unchosen DEF Document, Admitting, KeyOf, Genuine
<1>1. None # "body" /\ token' = token
  BY NoneAssumption, Unchosen
<1>2. CASE ServingStep
  <2>1. stage = "serving" /\ stage' = "serving"
    BY <1>2, ServingDoes, ServingFrame
  <2>2. CASE Refusing \/ Answered
    BY <1>1, <2>1, <2>2 DEF Refusing, Answered, RequestInv, NoOne
  <2>3. CASE Waiting
    BY <1>0, <1>1, <2>1, <2>3 DEF Waiting, RequestInv, ServiceInv, NoOne
  <2>4. CASE Admitted
    BY <1>0, <1>1, <2>1, <2>4 DEF Admitted, RequestInv
  <2> QED BY <1>2, <2>2, <2>3, <2>4, ServingDoes
<1>3. CASE ~ServingStep
  BY <1>0, <1>1, <1>3, OtherSteps DEF RequestInv, ServiceInv, NoOne
<1> QED BY <1>2, <1>3

LEMMA AnswerStep ==
  ASSUME ServiceInv, [Next]_vars
  PROVE  AnswerInv'
<1>0. Document' = Document /\ (\A i : Admitting(i) => Admitting(i)') /\ (Genuine(token) => Genuine(token)')
  BY Unchosen DEF Document, Admitting, KeyOf, Genuine
<1>1. deployment' = deployment /\ token' = token
  BY Unchosen
<1>2. CASE answer' = answer
  BY <1>0, <1>1, <1>2 DEF AnswerInv, ServiceInv
<1>3. CASE answer' = None
  BY <1>3 DEF AnswerInv
<1>4. CASE Refusing
  BY <1>0, <1>4 DEF Refusing, AnswerInv, Denials, Ok, REFUSAL_REASONS
<1> QED
  BY <1>2, <1>3, <1>4, ServingDoes, OtherSteps DEF Waiting, Admitted, Answered

LEMMA AdmittedStep ==
  ASSUME ServiceInv, [Next]_vars
  PROVE  AdmittedInv'
<1>1. token' = token
  BY Unchosen
<1>2. CASE admitted' = admitted
  BY <1>1, <1>2 DEF AdmittedInv, ServiceInv, InTime
<1>3. CASE Admitted
  <2>1. InTime(now) /\ (admitted # <<>> => InTime(admitted[1]))
    BY <1>3 DEF Admitted, ServiceInv, AdmittedInv
  <2>2. \/ admitted'[1] = now /\ admitted'[2] = now
        \/ admitted # <<>> /\ admitted'[1] = admitted[1] /\ admitted'[2] = now
    BY <1>3 DEF Admitted
  <2> QED BY <1>1, <2>1, <2>2 DEF AdmittedInv, InTime
<1> QED
  BY <1>2, <1>3, ServingDoes, OtherSteps DEF Refusing, Waiting, Answered

\* A record a valid policy has nothing against keeps each of its rules.
LEMMA RuleKept ==
  ASSUME NEW record, NEW rules, validateRules(rules), validateEvidence(record),
         Meets(record, rules), NEW rule \in DOMAIN rules
  PROVE  RuleHolds(rule, rules[rule], record)
<1>1. rule \in GUARDRAIL_RULE_KEYS
  BY DEF validateRules, Closed
<1>2. CASE rule = "minimum_evidence_schema"
  BY <1>2 DEF RuleHolds, validateRules, validateEvidence, Is
<1>3. CASE rule = "blocked_tiers"
  BY <1>3 DEF RuleHolds, Meets, Own, Range
<1>4. CASE rule = "require_ai_provenance_when_assisted"
  <2>1. rules[rule] \in {TRUE} /\ rules[rule] = TRUE
    BY <1>4 DEF validateRules, Is
  <2>2. ~Is(rules, "require_ai_provenance_when_assisted", {FALSE})
    BY <1>4, <2>1 DEF Is
  <2>3. record.ai_assisted # TRUE \/ record.ai_tool # "absent"
    BY <2>2, Zenon DEF Meets
  <2>4. record.ai_tool # "absent" => record.ai_tool = "name"
    BY DEF validateEvidence
  <2>5. record.ai_assisted \in BOOLEAN
    BY DEF validateEvidence
  <2>6. record.ai_assisted => record.ai_tool = "name"
    BY <2>3, <2>4, <2>5
  <2> QED BY <1>4, <2>1, <2>6, Zenon DEF RuleHolds
<1>5. CASE rule = "require_verified_controls"
  BY <1>5 DEF RuleHolds, Meets, Own, Range
<1> QED BY <1>1, <1>2, <1>3, <1>4, <1>5 DEF GUARDRAIL_RULE_KEYS

-----------------------------------------------------------------------------
(* Theorems *)

LEMMA InitServiceInv == Init => ServiceInv
<1> SUFFICES ASSUME Init PROVE ServiceInv
  OBVIOUS
<1>1. Chosen
  BY DEF Init, Chosen
<1>2. PolicyInv
  BY DEF Init, PolicyInv
<1>3. RegistryInv
  <2>1. Loaded(0)
    BY FS_EmptySet DEF Init, Loaded
  <2>2. Len(Document.workspaces) \in Nat
    BY <1>1, DeploymentAssumption DEF Chosen, Document
  <2> QED BY <2>1, <2>2 DEF Init, RegistryInv
<1>4. RoleInv
  BY <1>1, DeploymentAssumption DEF Init, RoleInv, Chosen
<1>5. RequestInv /\ AnswerInv /\ AdmittedInv
  BY NoneAssumption DEF Init, RequestInv, AnswerInv, AdmittedInv, NoOne
<1> QED BY <1>1, <1>2, <1>3, <1>4, <1>5 DEF ServiceInv

\* Whatever is edited, granted, restarted and presented, and in whatever order, the process
\* goes by the policy it validated, the registrations it loaded and the role it checked.
THEOREM ServiceInvariant == Spec => []ServiceInv
<1>1. ServiceInv /\ [Next]_vars => ServiceInv'
  <2> SUFFICES ASSUME ServiceInv, [Next]_vars PROVE ServiceInv'
    OBVIOUS
  <2>1. Chosen /\ PolicyInv /\ RegistryInv /\ RoleInv
    BY DEF ServiceInv
  <2> QED
    BY <2>1, ChosenStep, PolicyStep, RegistryStep, RoleStep, RequestStep, AnswerStep, AdmittedStep
    DEF ServiceInv
<1> QED BY <1>1, InitServiceInv, PTL DEF Spec

\* Two times at which a token is in time, by its own times and the skew, are close.
LEMMA WithinLifetime ==
  ASSUME NEW first \in Nat, NEW last \in Nat, NEW exp \in Int, NEW iat \in Int,
         exp > last - CLOCK_SKEW_S, iat <= first + CLOCK_SKEW_S, exp - iat <= MAX_LIFETIME_S
  PROVE  last - first < MAX_LIFETIME_S + 2 * CLOCK_SKEW_S
BY TimeAssumption

\* The token of an admission is of use no longer than its longest lifetime and the skews: its
\* own times bind both the first admission and the last.
THEOREM ServiceReplayWindow == Spec => []ReplayWindow
<1>1. ServiceInv => ReplayWindow
  <2> SUFFICES ASSUME ServiceInv, admitted # <<>>
               PROVE  admitted[2] - admitted[1] < MAX_LIFETIME_S + 2 * CLOCK_SKEW_S
    BY DEF ReplayWindow
  <2>1. InTime(admitted[1]) /\ InTime(admitted[2])
    BY DEF ServiceInv, AdmittedInv
  <2>2. token.payload.exp \in Int /\ token.payload.iat \in Int
    BY <2>1, DeploymentAssumption DEF ServiceInv, Chosen, InTime
  <2>3. /\ admitted[2] \in Nat /\ token.payload.exp > admitted[2] - CLOCK_SKEW_S
        /\ admitted[1] \in Nat /\ token.payload.iat <= admitted[1] + CLOCK_SKEW_S
        /\ token.payload.exp - token.payload.iat <= MAX_LIFETIME_S
    BY <2>1 DEF InTime
  <2> QED BY <2>2, <2>3, WithinLifetime
<1> QED BY <1>1, ServiceInvariant, PTL

\* A serving process has a role and a connection as it checked them, but for what was given
\* to the role since.
THEOREM ServiceServesAsItChecked == Spec => []ServesAsItChecked
<1>1. ServiceInv => ServesAsItChecked
  BY DEF ServiceInv, RoleInv, ServesAsItChecked, isLoopback
<1> QED BY <1>1, ServiceInvariant, PTL

\* An accepted record keeps every rule of the author's policy, and one that is in order is
\* never rejected.
THEOREM ServicePolicyIsEnforced == Spec => []PolicyIsEnforced
<1>1. ServiceInv => PolicyIsEnforced
  <2> SUFFICES ASSUME ServiceInv, answer # None PROVE PolicyIsEnforced
    BY DEF PolicyIsEnforced
  <2>1. answer.reason = "rejected" => ~validateEvidence(answer.about)
    BY DEF ServiceInv, AnswerInv
  <2>2. ASSUME answer.status = 202, NEW rule \in DOMAIN deployment.policy.rules
        PROVE  RuleHolds(rule, deployment.policy.rules[rule], answer.about.record)
    <3> DEFINE record == answer.about.record
               rules == deployment.policy.rules
    <3>1. stage = "serving"
      BY DEF ServiceInv, RequestInv
    <3>2. validateGuardrailPolicy(deployment.policy)
      BY <3>1 DEF ServiceInv, PolicyInv
    <3>3. Own(deployment.policy, "rules") /\ validateRules(rules)
      BY <3>2 DEF validateGuardrailPolicy
    <3>4. validateEvidence(record) /\ Meets(record, rules)
      <4>1. evaluateGuardrails(record, deployment.policy) = "accepted"
        BY <2>2 DEF ServiceInv, AnswerInv
      <4> HIDE DEF record, rules
      <4>2. RulesOf(deployment.policy) = rules
        BY <3>3 DEF RulesOf, rules
      <4> QED BY <4>1, <4>2 DEF evaluateGuardrails
    <3> HIDE DEF record, rules
    <3> QED BY <2>2, <3>3, <3>4, RuleKept DEF record, rules
  <2> QED BY <2>1, <2>2 DEF PolicyIsEnforced
<1> QED BY <1>1, ServiceInvariant, PTL

\* Who is admitted is bound to one workspace, by the one registration that holds its triple.
THEOREM ServiceAdmittedIsBound == Spec => []AdmittedIsBound
<1>1. ServiceInv => AdmittedIsBound
  <2> SUFFICES ASSUME ServiceInv PROVE AdmittedIsBound
    OBVIOUS
  <2> DEFINE W == Document.workspaces
             principal == PrincipalOf(token.payload)
             Holding(claims) == {i \in DOMAIN W : bindingKey(W[i].workload_identity) = bindingKey(claims)}
  <2>1. DOMAIN W = 1 .. Len(W) /\ Len(W) \in Nat
    BY DeploymentAssumption DEF ServiceInv, Chosen, Document
  <2>2. stage = "serving" => Loaded(Len(W))
    BY DEF ServiceInv, RegistryInv
  <2>3. ASSUME NEW i \in DOMAIN W, Admitting(i), stage = "serving"
        PROVE  /\ Holding(principal) = {i}
               /\ W[i].status = "active"
               /\ token.payload.event_name
                    \in Range(W[i].workload_identity.admitted_events) \cap ADMITTED_EVENT_ALLOWLIST
               /\ Own(W[i].workload_identity, "required_job_workflow_ref") =>
                    W[i].workload_identity.required_job_workflow_ref = token.payload.job_workflow_ref
               /\ Own(W[i].workload_identity, "required_job_workflow_sha") =>
                    W[i].workload_identity.required_job_workflow_sha = token.payload.job_workflow_sha
               /\ W[i].workload_identity.repository_id = token.payload.repository_id
    <3>1. /\ KeyOf(i) = bindingKey(principal) /\ admits(W[i], principal) = Ok
      BY <2>3 DEF Admitting
    <3>2. \A j \in DOMAIN W : KeyOf(i) = KeyOf(j) => i = j
      BY <2>1, <2>2, <2>3 DEF Loaded
    <3>3. Holding(principal) = {i}
      BY <3>1, <3>2 DEF KeyOf
    <3>4. validateWorkspaceRegistration(W[i])
      BY <2>1, <2>2, <2>3 DEF Loaded
    <3>5. Range(W[i].workload_identity.admitted_events) \subseteq ADMITTED_EVENT_ALLOWLIST
      BY <3>4 DEF validateWorkspaceRegistration, validateWorkloadIdentity, IsListOf
    <3>6. /\ principal.event_name = token.payload.event_name
          /\ principal.job_workflow_ref = token.payload.job_workflow_ref
          /\ principal.job_workflow_sha = token.payload.job_workflow_sha
          /\ principal.repository_id = token.payload.repository_id
      BY DEF PrincipalOf
    <3>7. W[i].workload_identity.repository_id = principal.repository_id
      BY <3>1 DEF KeyOf, bindingKey
    <3> HIDE DEF W, principal
    <3> QED BY <3>1, <3>3, <3>5, <3>6, <3>7, AdmitsPasses
  <2>4. bindingKey(submittedBy(principal)) = bindingKey(principal)
    BY DEF bindingKey, submittedBy, PrincipalOf
  <2>5. caller # NoOne =>
          /\ Genuine(token)
          /\ caller.principal.actor_id \notin REFUSED_ACTOR_IDS
          /\ \E i \in DOMAIN W : Admitting(i) /\ caller.workspace = W[i].workspace_id
          /\ stage = "serving"
    BY <2>1 DEF ServiceInv, RequestInv, Admitting
  <2>6. answer # None => stage = "serving"
    BY DEF ServiceInv, RequestInv
  <2>7. answer # None /\ answer.status = 200 =>
          answer.about.workload_identity.repository_id = token.payload.repository_id
    BY <2>1, <2>3, <2>6 DEF ServiceInv, AnswerInv
  <2>8. answer # None /\ answer.status = 202 =>
          \E i \in Holding(answer.about.submitted_by) : W[i].workspace_id = answer.about.workspace_id
    <3> SUFFICES ASSUME answer # None, answer.status = 202
                 PROVE  \E i \in Holding(answer.about.submitted_by) :
                          W[i].workspace_id = answer.about.workspace_id
      OBVIOUS
    <3>1. PICK i \in DOMAIN W : Admitting(i) /\ answer.about.workspace_id = W[i].workspace_id
      BY <2>1 DEF ServiceInv, AnswerInv
    <3>2. answer.about.submitted_by = submittedBy(principal)
      BY DEF ServiceInv, AnswerInv
    <3> QED BY <2>4, <3>1, <3>2 DEF Admitting, KeyOf
  <2> QED BY <2>3, <2>5, <2>7, <2>8 DEF AdmittedIsBound
<1> QED BY <1>1, ServiceInvariant, PTL

\* An unverified token is refused by its signature, whatever payload is put in it, and no
\* refusal names whom it claims to be.
THEOREM ServiceUnverifiedSaysNothing == Spec => []UnverifiedSaysNothing
<1>1. ServiceInv => UnverifiedSaysNothing
  <2> SUFFICES ASSUME ServiceInv PROVE UnverifiedSaysNothing
    OBVIOUS
  <2>1. ASSUME NEW claimed, NEW keys \in SUBSET Kids, ~Genuine(token),
               ~Genuine([token EXCEPT !.payload = claimed])
        PROVE  TokenRefusal([token EXCEPT !.payload = claimed], keys, now)
                 = TokenRefusal(token, keys, now)
    <3> DEFINE twin == [token EXCEPT !.payload = claimed]
    <3>1. twin.alg = token.alg /\ twin.kid = token.kid /\ twin.signer = token.signer
            /\ twin.signed = token.signed
      BY DeploymentAssumption DEF ServiceInv, Chosen, TokenFields
    <3> HIDE DEF twin
    <3>2. SignatureRefusal(twin, keys) = SignatureRefusal(token, keys)
      BY <2>1, <3>1, SameSignature DEF twin
    <3> QED BY <2>1, <3>2, SignatureAlone DEF twin
  <2>2. answer # None =>
          /\ answer.principal # NoOne => Genuine(token)
          /\ answer.reason \in REFUSAL_REASONS \cup {Ok}
    BY DEF ServiceInv, AnswerInv
  <2> QED BY <2>1, <2>2 DEF UnverifiedSaysNothing
<1> QED BY <1>1, ServiceInvariant, PTL

=============================================================================
