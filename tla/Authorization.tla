----------------------------- MODULE Authorization -----------------------------
(***************************************************************************)
(* The six steps between a credential and a workspace: the checks of       *)
(* packages/workload-identity/src/authenticate.mjs and jws.mjs, the        *)
(* registry of packages/workspace-registry and authorizeFor of main.mjs.   *)
(*                                                                         *)
(* A step is a list of checks in the code's order, each with the reason it *)
(* refuses with; the first that fails decides.  A token is given by how it *)
(* is presented, its header, the key and the payload its signature was made*)
(* with, and the payload it carries; encodings are left out but for whether*)
(* they are canonical.                                                     *)
(***************************************************************************)
EXTENDS Contracts, FiniteSetsExt

CONSTANTS
  Kids,             \* the keys the issuer may publish, each named by its kid
  MAX_LIFETIME_S, CLOCK_SKEW_S,
  REFUSED_ACTOR_IDS

ISSUER == "github"

Ok == "ok"

\* The reason of the first check that fails.
FirstFailing(checks) ==
  LET failing == {i \in DOMAIN checks : ~checks[i][1]}
  IN  IF failing = {} THEN Ok ELSE checks[Min(failing)][2]

REFUSAL_REASONS ==
  {"credential-missing", "credential-repeated", "credential-malformed", "token-too-large",
   "header-invalid", "alg-unsupported", "kid-unknown", "signature-invalid", "iss-mismatch",
   "aud-mismatch", "token-expired", "token-not-yet-valid", "iat-in-future",
   "lifetime-exceeded", "claim-invalid", "key-set-unavailable", "verifier-fault",
   "no-binding", "not-active", "event-not-admitted", "pin-ref", "pin-sha", "refused-actor",
   "quota-exceeded", "body-too-large", "body-not-json", "rejected", "needs-remediation",
   "unmatched-route", "conflict", "store-unavailable", "handler-fault"}

-----------------------------------------------------------------------------
(* Steps 1 to 5 *)

\* How it is presented and cut up, its header, its signature, its payload.
TokenFields == {"credential", "compact", "alg", "kid", "crit", "signer", "signed", "payload"}

\* Step 1: the header and nothing else.
HeaderRefusal(token) ==
  FirstFailing(<<
    <<token.credential # "missing", "credential-missing">>,
    <<token.credential # "repeated", "credential-repeated">>,
    <<token.credential # "malformed", "credential-malformed">>,
    <<token.credential # "oversized", "token-too-large">>,
    <<token.compact, "credential-malformed">>,
    <<token.alg # "absent" /\ token.kid # "absent" /\ ~token.crit, "header-invalid">> >>)

verifyRs256(token, kid) == token.signer = kid /\ token.signed = token.payload

\* Step 3, over the keys of the pinned set.
SignatureRefusal(token, keys) ==
  FirstFailing(<<
    <<token.alg = "RS256", "alg-unsupported">>,
    <<token.kid \in keys, "kid-unknown">>,
    <<verifyRs256(token, token.kid), "signature-invalid">> >>)

\* Mutant: iat is compared with exp only.
TimesTrustingIat(payload, now) ==
  << <<payload.exp > now - CLOCK_SKEW_S, "token-expired">>,
     <<payload.nbf <= now + CLOCK_SKEW_S, "token-not-yet-valid">>,
     <<payload.exp - payload.iat <= MAX_LIFETIME_S, "lifetime-exceeded">> >>

Times(payload, now) ==
  << <<payload.exp > now - CLOCK_SKEW_S, "token-expired">>,
     <<payload.nbf <= now + CLOCK_SKEW_S, "token-not-yet-valid">>,
     <<payload.iat <= now + CLOCK_SKEW_S, "iat-in-future">>,
     <<payload.exp - payload.iat <= MAX_LIFETIME_S, "lifetime-exceeded">> >>

\* Step 4, on a payload that is decoded only now.
checkRegisteredClaims(payload, now) ==
  FirstFailing(
    << <<payload.decodes, "claim-invalid">>,
       <<payload.iss = ISSUER, "iss-mismatch">>,
       <<payload.aud \in {"ours", "ours alone in a list"}, "aud-mismatch">>,
       <<payload.timed, "claim-invalid">> >> \o Times(payload, now))

\* Step 5: `shaped` stands for the claims that only have to be there and of their form.
checkClaimFormats(payload) ==
  FirstFailing(<<
    << /\ CanonicalId(payload.repository_owner_id) /\ CanonicalId(payload.repository_id)
       /\ CanonicalId(payload.actor_id),
      "claim-invalid">>,
    <<payload.shaped, "claim-invalid">>,
    <<Sha1(payload.job_workflow_sha), "claim-invalid">> >>)

PrincipalOf(payload) ==
  [issuer |-> payload.iss, repository_owner_id |-> payload.repository_owner_id,
   repository_id |-> payload.repository_id, actor_id |-> payload.actor_id,
   event_name |-> payload.event_name, job_workflow_ref |-> payload.job_workflow_ref,
   job_workflow_sha |-> payload.job_workflow_sha]

submittedBy(principal) == [key \in DOMAIN principal \ {"actor_id"} |-> principal[key]]

\* Mutant: the claims are looked at before the signature.
ClaimsFirst(token, keys, now) ==
  LET steps == <<checkRegisteredClaims(token.payload, now), checkClaimFormats(token.payload),
                 SignatureRefusal(token, keys)>>
  IN  FirstFailing([i \in 1 .. 3 |-> <<steps[i] = Ok, steps[i]>>])

\* Steps 3 to 5.
TokenRefusal(token, keys, now) ==
  LET steps == <<SignatureRefusal(token, keys), checkRegisteredClaims(token.payload, now),
                 checkClaimFormats(token.payload)>>
  IN  FirstFailing([i \in 1 .. 3 |-> <<steps[i] = Ok, steps[i]>>])

-----------------------------------------------------------------------------
(* Step 6 *)

bindingKey(identity) ==
  <<identity.issuer, identity.repository_owner_id, identity.repository_id>>

\* An absent claim is null, and null equals no pin.
admits(registration, principal) ==
  LET identity == registration.workload_identity
      Pinned(pin, claim) == Own(identity, pin) => identity[pin] = claim
  IN  FirstFailing(<<
        <<registration.status = "active", "not-active">>,
        <<principal.event_name \in Range(identity.admitted_events), "event-not-admitted">>,
        <<Pinned("required_job_workflow_ref", principal.job_workflow_ref), "pin-ref">>,
        <<Pinned("required_job_workflow_sha", principal.job_workflow_sha), "pin-sha">> >>)

authorizeFor(entries, bindings, principal) ==
  IF ~Own(bindings, bindingKey(principal)) THEN "no-binding"
  ELSE LET refusal == admits(entries[bindings[bindingKey(principal)]], principal)
       IN  FirstFailing(<< <<refusal = Ok, refusal>>,
             <<principal.actor_id \notin REFUSED_ACTOR_IDS, "refused-actor">> >>)

=============================================================================
