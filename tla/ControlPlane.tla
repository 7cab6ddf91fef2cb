------------------------------ MODULE ControlPlane ------------------------------
(***************************************************************************)
(* One process of the service, from its start to what it admits: main.mjs  *)
(* reads the policy and the registry, database-config.mjs the connection,  *)
(* postgres-store.mjs checks the role, and then requests are taken through *)
(* the six steps and their records through the policy.                     *)
(*                                                                         *)
(* Everything here is decided once and relied on later, while its origin   *)
(* may change: a policy object is edited by whoever passed it, a role is   *)
(* granted more, a key set comes and goes, the clock moves between a check *)
(* and its use.  What is stored, how a body is read and how a key set is   *)
(* kept are in IntakeSeam, SeamConnection and KeySet.                      *)
(***************************************************************************)
EXTENDS Authorization

CONSTANTS
  Deployments,  \* the files, environments, roles and callers to choose from
  None          \* no value

ASSUME NoneAssumption == None \notin {"keys", "refresh", "body"}

ASSUME TimeAssumption ==
  CLOCK_SKEW_S \in Nat /\ MAX_LIFETIME_S \in Nat \ {0}

\* What lets a role change the log, in its own right or as a role it may become.
TableWays == {"update", "redaction", "stamps"}
Ways == TableWays \cup {"attribute", "ownership", "membership"}

\* A document that is no list is as one of another version.  Times are counted in the unit of
\* the clock, those of a token only when they are numbers.
ASSUME DeploymentAssumption ==
  \A d \in Deployments :
    /\ d.registry.workspaces \in Seq(Range(d.registry.workspaces))
    /\ d.role \in [ways : SUBSET Ways, inherit : BOOLEAN, group : SUBSET Ways,
                    appends : BOOLEAN, schema : BOOLEAN]
    /\ d.grants \subseteq Ways
    /\ \A t \in d.tokens :
         /\ DOMAIN t = TokenFields
         /\ t.payload.timed => {t.payload.iat, t.payload.nbf, t.payload.exp} \subseteq Int

VARIABLES
  deployment, \* the one chosen
  stage,      \* policy, registry, config, role, privileges; serving or refused
  candidate,  \* the policy object of whoever passed it
  held,       \* the seam's copy
  entries,    \* the registry's two maps
  bindings,
  role,       \* the service's database role, as the server's catalog has it
  given,      \* the powers over the log the role was given since its check began
  tls,        \* how the connection was made: verified, or plain
  now,
  token,      \* what the caller presents, again and again
  step,       \* the request: none, keys, refresh or body: what is awaited
  caller,     \* the principal and workspace it was admitted as
  answer,     \* the last answer, with the principal its log line names
  admitted    \* the times the token was first and last admitted

policyVars == <<candidate, held>>
registryVars == <<entries, bindings>>
roleVars == <<role, given, tls>>
requestVars == <<token, step, caller, answer, admitted>>
vars == <<deployment, stage, policyVars, registryVars, roleVars, now, requestVars>>

NoOne == None

Init ==
  /\ deployment \in Deployments
  /\ stage = "policy"
  /\ candidate = deployment.policy /\ held = None
  /\ entries = <<>> /\ bindings = <<>>
  /\ role = deployment.role /\ given = {} /\ tls = None
  /\ now = 0
  /\ token \in deployment.tokens
  /\ step = None /\ caller = NoOne /\ answer = None /\ admitted = <<>>

-----------------------------------------------------------------------------
(* Starting *)

\* The issuer check, and heldPolicy with its own: the copy is what is validated and kept.
LoadPolicy ==
  /\ stage = "policy"
  /\ held' = candidate
  /\ stage' = IF ACCEPTED_ISSUERS = {ISSUER} /\ validateGuardrailPolicy(held')
                THEN "registry" ELSE "refused"
  /\ UNCHANGED <<deployment, candidate, registryVars, roleVars, now, requestVars>>

Document == deployment.registry

\* Mutant: a second registration of one triple takes it over.
RegistrableOver(registration) ==
  /\ validateWorkspaceRegistration(registration)
  /\ ~Own(entries, registration.workspace_id)

\* registerInto does not throw.
Registrable(registration) ==
  /\ validateWorkspaceRegistration(registration)
  /\ ~Own(entries, registration.workspace_id)
  /\ ~Own(bindings, bindingKey(registration.workload_identity))

With(map, key, value) ==
  [k \in DOMAIN map \cup {key} |-> IF k = key THEN value ELSE map[k]]

\* createRegistry: one registration after the other.
Register ==
  LET loaded == Cardinality(DOMAIN entries)
      registration == Document.workspaces[loaded + 1]
  IN  /\ stage = "registry" /\ Document.version /\ loaded < Len(Document.workspaces)
      /\ IF Registrable(registration)
           THEN /\ entries' = With(entries, registration.workspace_id, registration)
                /\ bindings' = With(bindings, bindingKey(registration.workload_identity),
                                    registration.workspace_id)
                /\ UNCHANGED stage
           ELSE stage' = "refused" /\ UNCHANGED registryVars
      /\ UNCHANGED <<deployment, policyVars, roleVars, now, requestVars>>

RegistryLoaded ==
  /\ stage = "registry"
  /\ Document.version => Cardinality(DOMAIN entries) = Len(Document.workspaces)
  /\ stage' = IF Document.version THEN "config" ELSE "refused"
  /\ UNCHANGED <<deployment, policyVars, registryVars, roleVars, now, requestVars>>

Env == deployment.env

\* A literal address or a socket directory, never a name.
isLoopback(host) == host \in {"/socket", "::1", "127.0.0.1"}

\* readDatabaseConfig does not throw.
Configurable(env) ==
  /\ env.complete
  /\ env.host \notin {"db1,db2", "db:5432"}
  /\ env.port \in 1 .. 65535
  /\ ~isLoopback(env.host) => env.ca # "unreadable"

ReadDatabaseConfig ==
  /\ stage = "config"
  /\ stage' = IF Configurable(Env) THEN "role" ELSE "refused"
  /\ given' = {}
  /\ tls' = IF isLoopback(Env.host) THEN "plain" ELSE "verified"
  /\ UNCHANGED <<deployment, policyVars, registryVars, role, now, requestVars>>

\* The ways a role has, and those of the roles it may become.
Powers(r) ==
  {<<"itself", w>> : w \in r.ways \ {"membership"}}
    \cup {<<"a member", w>> : w \in IF "membership" \in r.ways THEN r.group ELSE {}}

\* What has_table_privilege and has_any_column_privilege see: of a group, what is inherited.
Privileges(r) ==
  TableWays \cap (r.ways \cup (IF "membership" \in r.ways /\ r.inherit THEN r.group ELSE {}))

\* Mutant: memberships are left to the privilege query.
Elevated == role.ways \cap {"attribute", "ownership"} # {}

\* What the first query of assertServiceRole refuses.
Unsafe == role.ways \cap {"attribute", "ownership", "membership"} # {}

\* The connection, with a certificate that proves the host where that is asked for, and the
\* first query.
QueryRole ==
  /\ stage = "role"
  /\ stage' = IF (tls = "verified" => Env.certified) /\ role.schema /\ ~Unsafe
                THEN "privileges" ELSE "refused"
  /\ UNCHANGED <<deployment, policyVars, registryVars, roleVars, now, requestVars>>

\* The second, and what the first has said of TLS.
QueryPrivileges ==
  /\ stage = "privileges"
  /\ stage' = IF Privileges(role) = {} /\ role.appends /\ (tls = "verified" => Env.negotiated)
                THEN "serving" ELSE "refused"
  /\ UNCHANGED <<deployment, policyVars, registryVars, roleVars, now, requestVars>>

\* The server is not there, or no longer.
Unreachable ==
  /\ stage \in {"role", "privileges"}
  /\ stage' = "refused"
  /\ UNCHANGED <<deployment, policyVars, registryVars, roleVars, now, requestVars>>

-----------------------------------------------------------------------------
(* Serving *)

\* The log line names the caller by its ids only.
Named(principal, workspace) ==
  [repository_owner_id |-> principal.repository_owner_id,
   repository_id |-> principal.repository_id, workspace |-> workspace]

Answer(status, reason, who, what) ==
  /\ answer' = [status |-> status, reason |-> reason, principal |-> who, about |-> what]
  /\ step' = None /\ caller' = NoOne

Refuse(status, reason, who) == Answer(status, reason, who, None) /\ UNCHANGED admitted

\* Step 1.
Present ==
  /\ stage = "serving" /\ step = None
  /\ LET refusal == HeaderRefusal(token)
     IN  \/ refusal # Ok /\ Refuse(401, refusal, NoOne)
         \/ refusal = Ok /\ step' = "keys" /\ answer' = None /\ UNCHANGED <<caller, admitted>>
  /\ UNCHANGED <<deployment, stage, policyVars, registryVars, roleVars, now, token>>

Admit(principal, workspace) ==
  /\ step' = "body"
  /\ caller' = [principal |-> principal, workspace |-> workspace]
  /\ admitted' = IF admitted = <<>> THEN <<now, now>> ELSE <<admitted[1], now>>
  /\ UNCHANGED answer

\* Steps 3 to 6 over the keys that are in hand.
Judge(keys) ==
  LET refusal == TokenRefusal(token, keys, now)
      principal == PrincipalOf(token.payload)
      denial == authorizeFor(entries, bindings, principal)
      bound == Own(bindings, bindingKey(principal))
      workspace == IF bound THEN bindings[bindingKey(principal)] ELSE None
  IN  \/ refusal # Ok /\ Refuse(401, refusal, NoOne)
      \/ refusal = Ok /\ denial # Ok /\ Refuse(403, denial, Named(principal, workspace))
      \/ refusal = Ok /\ denial = Ok /\ Admit(principal, workspace)

\* keySet.current() comes back: no set, a set with the kid or without it, or a throw.
Keys(keys) ==
  /\ step = "keys"
  /\ \/ Refuse(503, "verifier-fault", NoOne)
     \/ keys = {} /\ Refuse(503, "key-set-unavailable", NoOne)
     \/ keys # {} /\ (token.alg # "RS256" \/ token.kid \in keys) /\ Judge(keys)
     \/ /\ keys # {} /\ token.alg = "RS256" /\ token.kid \notin keys
        /\ step' = "refresh" /\ UNCHANGED <<caller, answer, admitted>>
  /\ UNCHANGED <<deployment, stage, policyVars, registryVars, roleVars, now, token>>

\* refreshForUnknownKid() comes back, with a set or with null, or throws.
Refreshed(keys) ==
  /\ step = "refresh"
  /\ Refuse(503, "verifier-fault", NoOne) \/ Judge(keys)
  /\ UNCHANGED <<deployment, stage, policyVars, registryVars, roleVars, now, token>>

\* GET /v1/workspaces.
Disclose ==
  /\ step = "body"
  /\ Answer(200, Ok, NoOne, entries[caller.workspace])
  /\ UNCHANGED <<deployment, stage, policyVars, registryVars, roleVars, now, token, admitted>>

\* POST /v1/evidence, its record evaluated and, when accepted, handed to the store.
Submit(record) ==
  /\ step = "body"
  /\ LET disposition == evaluateGuardrails(record, held)
         who == Named(caller.principal, caller.workspace)
     IN  IF disposition = "accepted"
           THEN Answer(202, Ok, NoOne, [record |-> record, workspace_id |-> caller.workspace,
                                        submitted_by |-> submittedBy(caller.principal)])
           ELSE Answer(422, disposition, who, record)
  /\ UNCHANGED <<deployment, stage, policyVars, registryVars, roleVars, now, token, admitted>>

-----------------------------------------------------------------------------
(* What changes around it *)

EditPolicy(policy) ==
  /\ stage # "policy"
  /\ candidate' = policy
  /\ UNCHANGED <<deployment, stage, held, registryVars, roleVars, now, requestVars>>

\* Whoever administers the database grants to the role and its group, and revokes, at any time.
Administer ==
  /\ \E w \in deployment.grants :
       \/ role' = [role EXCEPT !.ways = @ \cup {w}]
       \/ role' = [role EXCEPT !.ways = @ \ {w}]
       \/ w # "membership" /\ role' = [role EXCEPT !.group = @ \cup {w}]
  /\ given' = given \cup (Powers(role') \ Powers(role))
  /\ UNCHANGED <<deployment, stage, policyVars, registryVars, tls, now, requestVars>>

\* The process ends, at any point, and another starts.
Restart ==
  /\ stage # "policy"
  /\ stage' = "policy"
  /\ candidate' = deployment.policy /\ held' = None
  /\ entries' = <<>> /\ bindings' = <<>>
  /\ tls' = None
  /\ step' = None /\ caller' = NoOne /\ answer' = None
  /\ UNCHANGED <<deployment, role, given, now, token, admitted>>

Tick ==
  /\ stage = "serving" /\ now < deployment.horizon
  /\ now' = now + 1
  /\ UNCHANGED <<deployment, stage, policyVars, registryVars, roleVars, requestVars>>

Next ==
  \/ LoadPolicy \/ Register \/ RegistryLoaded
  \/ ReadDatabaseConfig \/ QueryRole \/ QueryPrivileges \/ Unreachable
  \/ Present
  \/ \E keys \in SUBSET Kids : Keys(keys) \/ Refreshed(keys)
  \/ Disclose
  \/ \E record \in deployment.records : Submit(record)
  \/ \E policy \in deployment.edits : EditPolicy(policy)
  \/ Administer \/ Restart \/ Tick

Spec == Init /\ [][Next]_vars

-----------------------------------------------------------------------------
(* Properties *)

\* Signed by a key of the issuer, over the payload the token carries.
Genuine(t) == t.signer \in Kids /\ t.signed = t.payload

\* Who is admitted speaks for one workspace: a token the issuer signed, and of all the
\* registrations of the document, whatever their order, exactly one holds its triple; that one
\* is active, admits the event and has its pins met, and the actor is not refused.  What is
\* disclosed and what is stored is that workspace's.
AdmittedIsBound ==
  LET Holding(claims) == {i \in DOMAIN Document.workspaces :
        bindingKey(Document.workspaces[i].workload_identity) = bindingKey(claims)}
  IN  /\ caller # NoOne =>
           /\ Genuine(token)
           /\ caller.principal.actor_id \notin REFUSED_ACTOR_IDS
           /\ \E i \in DOMAIN Document.workspaces :
                LET r == Document.workspaces[i]
                IN  /\ Holding(PrincipalOf(token.payload)) = {i}
                    /\ r.workspace_id = caller.workspace /\ r.status = "active"
                    /\ token.payload.event_name
                         \in Range(r.workload_identity.admitted_events)
                              \cap ADMITTED_EVENT_ALLOWLIST
                    /\ Own(r.workload_identity, "required_job_workflow_ref") =>
                         r.workload_identity.required_job_workflow_ref
                           = token.payload.job_workflow_ref
                    /\ Own(r.workload_identity, "required_job_workflow_sha") =>
                         r.workload_identity.required_job_workflow_sha
                           = token.payload.job_workflow_sha
      /\ answer # None /\ answer.status = 200 =>
           answer.about.workload_identity.repository_id = token.payload.repository_id
      /\ answer # None /\ answer.status = 202 =>
           \E i \in Holding(answer.about.submitted_by) :
             Document.workspaces[i].workspace_id = answer.about.workspace_id

\* A token nobody has verified says nothing: whatever its payload claims, it is refused the
\* same way, and no log line names whom it claims to be.  A reason is one of the list.
UnverifiedSaysNothing ==
  /\ answer # None =>
       /\ answer.principal # NoOne => Genuine(token)
       /\ answer.reason \in REFUSAL_REASONS \cup {Ok}
  /\ step \in {"keys", "refresh"} /\ ~Genuine(token) =>
       \A claimed \in {t.payload : t \in deployment.tokens}, keys \in SUBSET Kids :
         LET twin == [token EXCEPT !.payload = claimed]
         IN  ~Genuine(twin) => TokenRefusal(twin, keys, now) = TokenRefusal(token, keys, now)

\* One token is of use for less than its longest lifetime and the two skews, whatever it
\* claims of its own times, however often it is presented and however long its keys take.
ReplayWindow ==
  admitted # <<>> => admitted[2] - admitted[1] < MAX_LIFETIME_S + 2 * CLOCK_SKEW_S

RuleHolds(rule, value, record) ==
  \/ rule = "minimum_evidence_schema" /\ value = "evidence/0" /\ record.shaped
  \/ rule = "blocked_tiers" /\ \A i \in DOMAIN value : value[i] # record.tier
  \/ /\ rule = "require_ai_provenance_when_assisted" /\ value = TRUE
     /\ record.ai_assisted => record.ai_tool = "name"
  \/ /\ rule = "require_verified_controls"
     /\ \A i \in DOMAIN value : value[i] \in record.verified

\* Every rule its author wrote is applied to every record that is accepted: none is misspelt
\* and passed over, switched off or of a type that matches nothing, nor edited away after the
\* check; and a record in order is never refused because the policy cannot be read.
PolicyIsEnforced ==
  answer # None =>
    /\ answer.status = 202 =>
         \A rule \in DOMAIN deployment.policy.rules :
           RuleHolds(rule, deployment.policy.rules[rule], answer.about.record)
    /\ answer.reason = "rejected" => ~validateEvidence(answer.about)

\* A process that serves does so as a role whose every way of changing the log was given to it
\* after its check began, between the two queries or later, and over a connection that is
\* verified unless the host is literally this machine; also when an earlier process was
\* refused or served, and whatever was granted and revoked in between.
ServesAsItChecked ==
  stage = "serving" =>
    /\ Powers(role) \subseteq given
    /\ Env.host \in {"localhost", "10.0.0.1", "db"} =>
         tls = "verified" /\ Env.certified /\ Env.negotiated

=============================================================================
