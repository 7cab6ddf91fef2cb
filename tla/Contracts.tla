------------------------------- MODULE Contracts -------------------------------
(***************************************************************************)
(* packages/contracts/src/schema.mjs and the rules evaluated from it by    *)
(* packages/guardrail-policy/src/evaluate.mjs: which evidence, registration*)
(* and policy is well-formed, and what a policy makes of a record.         *)
(*                                                                         *)
(* An object whose members may be absent, or too many, is a function on the*)
(* members it has.  Text is one of a few kinds, told apart by what the     *)
(* validators tell apart; an instant that is no calendar instant is        *)
(* negative.  The messages are left out: a verdict is all that counts.     *)
(***************************************************************************)
EXTENDS Integers, Sequences, Functions

CONSTANTS NotAList, NotAnObject   \* a value of another type

TIERS == {"T0", "T1", "T2", "T3"}
ACCEPTED_ISSUERS == {"github"}
ADMITTED_EVENT_ALLOWLIST == {"push", "pull_request", "pull_request_review"}

\* Mutant: a member nobody reads is passed over.
Tolerated(object, keys) == TRUE

\* No member but these.
Closed(object, keys) == DOMAIN object \subseteq keys

Own(object, key) == key \in DOMAIN object
Is(object, key, values) == Own(object, key) /\ object[key] \in values

IsObject(value) == value # NotAnObject
IsListOf(value, members) ==
  value # NotAList /\ Range(value) \subseteq members /\ IsInjective(value)

-----------------------------------------------------------------------------
(* Evidence *)

\* `shaped` stands for the fields that need only be there and of their type.
validateEvidence(evidence) ==
  /\ evidence.shaped
  /\ evidence.tier \in TIERS
  /\ evidence.ai_assisted \in BOOLEAN
  /\ evidence.ai_tool # "absent" => evidence.ai_tool = "name" /\ evidence.ai_assisted = TRUE

-----------------------------------------------------------------------------
(* Registrations *)

\* Ids, refs and hashes by their form.
CanonicalId(value) == value \notin {"074", "absent"}
JobWorkflowRef(value) == value # "a branch"
Sha1(value) == value # "abbreviated"

WORKLOAD_IDENTITY_KEYS ==
  {"issuer", "repository_owner_id", "repository_id", "admitted_events",
   "required_job_workflow_ref", "required_job_workflow_sha"}

validateWorkloadIdentity(value) ==
  /\ IsObject(value)
  /\ Closed(value, WORKLOAD_IDENTITY_KEYS)
  /\ Is(value, "issuer", ACCEPTED_ISSUERS)
  /\ \A key \in {"repository_owner_id", "repository_id"} :
       Own(value, key) /\ CanonicalId(value[key])
  /\ Own(value, "admitted_events") /\ value.admitted_events # <<>>
  /\ IsListOf(value.admitted_events, ADMITTED_EVENT_ALLOWLIST)
  /\ Own(value, "required_job_workflow_ref") =>
       JobWorkflowRef(value.required_job_workflow_ref)
  /\ Own(value, "required_job_workflow_sha") =>
       /\ Sha1(value.required_job_workflow_sha)
       /\ Own(value, "required_job_workflow_ref")

validateWorkspaceRegistration(value) ==
  /\ value.shaped
  /\ value.status \in {"active", "suspended"}
  /\ validateWorkloadIdentity(value.workload_identity)

-----------------------------------------------------------------------------
(* The guardrail policy, closed at every level *)

GUARDRAIL_POLICY_KEYS == {"policy_version", "policy_id", "effective_from", "approval", "rules"}
GUARDRAIL_APPROVAL_KEYS == {"decision_id", "approved_by", "approved_at"}
GUARDRAIL_RULE_KEYS ==
  {"minimum_evidence_schema", "blocked_tiers", "require_ai_provenance_when_assisted",
   "require_verified_controls"}

\* Text with a letter or digit and no blanks around it, and the words a template leaves.
Names == {"name", "placeholder"}
Placeholders == {"placeholder"}
Controls == {"c1", "c2"}   \* any text

isUtcTimestamp(value) == value >= 0

validateApproval(approval, effective_from) ==
  /\ IsObject(approval)
  /\ Closed(approval, GUARDRAIL_APPROVAL_KEYS)
  /\ Is(approval, "decision_id", Names \ Placeholders)
  /\ Is(approval, "approved_by", Names \ Placeholders)
  /\ Own(approval, "approved_at") /\ isUtcTimestamp(approval.approved_at)
  /\ isUtcTimestamp(effective_from) => approval.approved_at <= effective_from

validateRules(rules) ==
  /\ IsObject(rules)
  /\ Closed(rules, GUARDRAIL_RULE_KEYS)
  /\ Is(rules, "minimum_evidence_schema", {"evidence/0"})
  /\ Own(rules, "blocked_tiers") /\ IsListOf(rules.blocked_tiers, TIERS)
  /\ Is(rules, "require_ai_provenance_when_assisted", {TRUE})
  /\ Own(rules, "require_verified_controls")
  /\ IsListOf(rules.require_verified_controls, Controls)

validateGuardrailPolicy(policy) ==
  /\ IsObject(policy)
  /\ Closed(policy, GUARDRAIL_POLICY_KEYS)
  /\ Is(policy, "policy_version", {"guardrails/0"})
  /\ Is(policy, "policy_id", Names)
  /\ Own(policy, "effective_from") /\ isUtcTimestamp(policy.effective_from)
  /\ Own(policy, "approval") /\ validateApproval(policy.approval, policy.effective_from)
  /\ Own(policy, "rules") /\ validateRules(policy.rules)

-----------------------------------------------------------------------------
(* What a policy makes of a record *)

RulesOf(policy) == IF Own(policy, "rules") THEN policy.rules ELSE <<>>

\* The refusals evaluateGuardrails makes for itself, of a policy it cannot read.
Supported(policy) ==
  /\ IsObject(policy) /\ Is(policy, "policy_version", {"guardrails/0"})
  /\ IsObject(RulesOf(policy))
  /\ \A key \in {"blocked_tiers", "require_verified_controls"} :
       Own(RulesOf(policy), key) => RulesOf(policy)[key] # NotAList

\* No reason against the record.
Meets(evidence, rules) ==
  /\ Own(rules, "minimum_evidence_schema") => rules.minimum_evidence_schema = "evidence/0"
  /\ evidence.tier \in TIERS
  /\ Own(rules, "blocked_tiers") => evidence.tier \notin Range(rules.blocked_tiers)
  /\ \/ Is(rules, "require_ai_provenance_when_assisted", {FALSE})
     \/ evidence.ai_assisted # TRUE \/ evidence.ai_tool # "absent"
  /\ Own(rules, "require_verified_controls") =>
       Range(rules.require_verified_controls) \subseteq evidence.verified

\* The disposition.
evaluateGuardrails(evidence, policy) ==
  IF ~validateEvidence(evidence) \/ ~Supported(policy) THEN "rejected"
  ELSE IF Meets(evidence, RulesOf(policy)) THEN "accepted" ELSE "needs-remediation"

=============================================================================
