---------------------------- MODULE MCControlPlane ----------------------------
(* ControlPlane on deployments that differ from a usable one in one part at a time. *)
EXTENDS ControlPlane, TLC

CONSTANT Other   \* a value of no type of the contracts

MCKids == {"k1", "k2"}
MCRefusedActors == {"49699333"}

Without(object, key) == [k \in DOMAIN object \ {key} |-> object[k]]
\* The object with one of its members changed, added or taken away.
Variants(object, changes) ==
  {With(object, c[1], c[2]) : c \in changes}
    \cup {Without(object, key) : key \in DOMAIN object}

\* Policies.
Rules == [minimum_evidence_schema |-> "evidence/0", blocked_tiers |-> <<"T3">>,
          require_ai_provenance_when_assisted |-> TRUE, require_verified_controls |-> <<"c1">>]
Approval == [decision_id |-> "name", approved_by |-> "name", approved_at |-> 1]
Policy == [policy_version |-> "guardrails/0", policy_id |-> "name", effective_from |-> 1,
           approval |-> Approval, rules |-> Rules]
RulesVariants == Variants(Rules,
  {<<"minimum_evidence_schema", "evidence/1">>, <<"blocked_tiers", NotAList>>,
   <<"blocked_tiers", <<"T3", "T3">> >>, <<"blocked_tiers", <<"T9">> >>,
   <<"blocked_tiers", <<>> >>, <<"block_tiers", <<"T0">> >>,
   <<"require_ai_provenance_when_assisted", FALSE>>,
   <<"require_ai_provenance_when_assisted", Other>>,
   <<"require_verified_controls", NotAList>>, <<"require_verified_controls", <<"c1", "c2">> >>,
   <<"require_verified_controls", <<" ">> >>})
ApprovalVariants == Variants(Approval,
  {<<"decision_id", "placeholder">>, <<"approved_by", "blank">>, <<"approved_at", 2>>,
   <<"approved_at", -1>>, <<"decision", "name">>})
Policies ==
  {Policy} \cup Variants(Policy,
    {<<"policy_version", "guardrails/1">>, <<"policy_id", "blank">>, <<"effective_from", -1>>,
     <<"effective_from", 0>>, <<"approval", NotAnObject>>, <<"rules", NotAnObject>>,
     <<"rule", Rules>>})
    \cup {[Policy EXCEPT !.rules = r] : r \in RulesVariants}
    \cup {[Policy EXCEPT !.approval = a] : a \in ApprovalVariants} \cup {NotAnObject}

\* Registries.
Identity == [issuer |-> "github", repository_owner_id |-> "1", repository_id |-> "10",
             admitted_events |-> <<"push">>]
Pinned == Identity @@ [required_job_workflow_ref |-> "ref1", required_job_workflow_sha |-> "sha1"]
Registration(id, identity) ==
  [workspace_id |-> id, shaped |-> TRUE, status |-> "active", workload_identity |-> identity]
Second == Registration("w2", [Identity EXCEPT !.repository_id = "20"])
IdentityVariants == Variants(Pinned,
  {<<"issuer", "another">>, <<"repository_id", "074">>, <<"admitted_events", NotAList>>,
   <<"admitted_events", <<>> >>, <<"admitted_events", <<"push", "push">> >>,
   <<"admitted_events", <<"pull_request">> >>, <<"admitted_events", <<"schedule">> >>,
   <<"required_job_workflow_ref", "a branch">>, <<"required_job_workflow_ref", "ref2">>,
   <<"required_job_workflow_sha", "abbreviated">>, <<"required_job_workflow_sha", "sha2">>,
   <<"required_jobs_workflow_ref", "ref1">>})
Registry(workspaces) == [version |-> TRUE, workspaces |-> workspaces]
First == Registration("w1", Identity)
Registries ==
  {Registry(<<First, Second>>), Registry(<<Second, First>>), Registry(<<>>),
   Registry(<<First, Registration("w2", Identity)>>), Registry(<<First, First>>),
   Registry(<<First, [Second EXCEPT !.workspace_id = "w1"]>>),
   Registry(<<Registration("w1", Pinned), Second>>),
   Registry(<<[First EXCEPT !.status = "suspended"], Second>>),
   Registry(<<[First EXCEPT !.status = "archived"]>>), Registry(<<[First EXCEPT !.shaped = FALSE]>>),
   [Registry(<<First>>) EXCEPT !.version = FALSE],
   Registry(<<Registration("w1", NotAnObject)>>)}
  \cup {Registry(<<Registration("w1", i), Second>>) : i \in IdentityVariants}

\* Tokens.
Claims == [decodes |-> TRUE, iss |-> "github", aud |-> "ours", timed |-> TRUE,
           iat |-> 1, nbf |-> 1, exp |-> 3, shaped |-> TRUE,
           repository_owner_id |-> "1", repository_id |-> "10", actor_id |-> "5",
           event_name |-> "push", job_workflow_ref |-> "ref1", job_workflow_sha |-> "sha1"]
Token == [credential |-> "one", compact |-> TRUE, alg |-> "RS256", kid |-> "k1", crit |-> FALSE,
          signer |-> "k1", signed |-> Claims, payload |-> Claims]
Carrying(claims) == [Token EXCEPT !.signed = claims, !.payload = claims]
Changed(object, changes) == {With(object, c[1], c[2]) : c \in changes}
ClaimVariants ==
  Changed(Claims,
    {<<"decodes", FALSE>>, <<"iss", "another">>, <<"aud", "ours alone in a list">>,
     <<"aud", "ours and another">>, <<"timed", FALSE>>, <<"exp", 4>>, <<"nbf", 4>>,
     <<"shaped", FALSE>>, <<"repository_id", "074">>, <<"repository_id", "20">>,
     <<"repository_id", "30">>, <<"actor_id", "49699333">>, <<"event_name", "schedule">>,
     <<"job_workflow_sha", "abbreviated">>, <<"job_workflow_ref", "absent">>,
     <<"job_workflow_sha", "absent">>})
  \cup {[Claims EXCEPT !.iat = 5, !.nbf = 0, !.exp = 7]}
Tokens ==
  {Token} \cup {Carrying(c) : c \in ClaimVariants}
  \cup Changed(Token,
    {<<"credential", "missing">>, <<"credential", "repeated">>, <<"credential", "malformed">>,
     <<"credential", "oversized">>, <<"compact", FALSE>>, <<"alg", "HS256">>, <<"alg", "absent">>,
     <<"kid", "absent">>, <<"kid", "k2">>, <<"kid", "k3">>, <<"crit", TRUE>>, <<"signer", "attacker">>,
     <<"payload", [Claims EXCEPT !.repository_id = "20"]>>})
NoToken == [Token EXCEPT !.credential = "missing"]

\* Records.
Evidence == [shaped |-> TRUE, tier |-> "T1", verified |-> {"c1"}, ai_assisted |-> TRUE,
             ai_tool |-> "name"]
Records ==
  {Evidence} \cup Changed(Evidence,
    {<<"shaped", FALSE>>, <<"tier", "T3">>, <<"tier", "T0">>, <<"tier", "T9">>, <<"verified", {}>>,
     <<"verified", {"c1", "c2"}>>, <<"ai_assisted", Other>>, <<"ai_assisted", FALSE>>,
     <<"ai_tool", "absent">>, <<"ai_tool", "blank">>})

\* The database.
Remote == [complete |-> TRUE, host |-> "db", port |-> 5432, ca |-> "absent",
           certified |-> TRUE, negotiated |-> TRUE]
Envs ==
  Changed(Remote, {<<"complete", FALSE>>, <<"port", 0>>, <<"port", 65536>>, <<"ca", "readable">>,
    <<"ca", "unreadable">>, <<"certified", FALSE>>, <<"negotiated", FALSE>>})
  \cup {[Remote EXCEPT !.host = h, !.certified = c, !.negotiated = c] : c \in BOOLEAN,
         h \in {"/socket", "::1", "127.0.0.1", "localhost", "10.0.0.1", "db1,db2", "db:5432"}}
Role == [ways |-> {}, inherit |-> TRUE, group |-> {}, appends |-> TRUE, schema |-> TRUE]
Roles ==
  {[Role EXCEPT !.ways = w, !.inherit = i, !.group = g] :
     w \in SUBSET {"ownership", "membership", "stamps"}, i \in BOOLEAN,
     g \in {{}, {"redaction"}}}
  \cup {[Role EXCEPT !.appends = FALSE], [Role EXCEPT !.schema = FALSE]}

Usual == [policy |-> Policy, edits |-> {}, registry |-> Registry(<<First, Second>>), env |-> Remote,
          role |-> Role, grants |-> {}, tokens |-> {NoToken}, records |-> {}, horizon |-> 0]
BindingTokens ==
  {Token} \cup {t \in Tokens : t.payload.repository_id # "10" \/ t.payload.actor_id # "5"
                               \/ t.payload.event_name # "push"
                               \/ "absent" \in {t.payload.job_workflow_ref, t.payload.job_workflow_sha}}
MCDeployments ==
  {[Usual EXCEPT !.policy = p, !.tokens = {Token}, !.records = Records,
                 !.edits = {[Policy EXCEPT !.rules.blocked_tiers = <<>>]}] : p \in Policies}
  \cup {[Usual EXCEPT !.registry = r, !.tokens = BindingTokens, !.records = {Evidence}]
          : r \in Registries}
  \cup {[Usual EXCEPT !.tokens = Tokens, !.horizon = 6]}
  \cup {[Usual EXCEPT !.env = e] : e \in Envs}
  \cup {[Usual EXCEPT !.role = r, !.grants = {"update", "membership", "attribute"}] : r \in Roles}

=============================================================================
