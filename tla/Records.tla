------------------------------- MODULE Records --------------------------------
(***************************************************************************)
(* What internal/models and validateRegistration check before a record is  *)
(* written, against what the tables of migrations/ accept.  The two are    *)
(* copies of the same decisions; here each rule is stated where the code   *)
(* has it, and so is every place where the copies differ.                  *)
(*                                                                         *)
(* A text is its length in characters and in bytes, the spaces around it,  *)
(* and whether it holds a NUL, which JSON can carry and PostgreSQL cannot. *)
(* An enumeration's value is known or not: schema_parity_test.go compares  *)
(* the lists.  A confidence is in hundredths, or NaN.  The columns nothing *)
(* is checked of are left out.                                             *)
(***************************************************************************)
EXTENDS Integers, Sequences

CONSTANTS
    Drafts,       \* what a caller may ask to have written
    NaN,
    None,         \* a nil pointer
    MaxInteger    \* the largest value of an integer column

-------------------------------------------------------------------------------
(* Types.  A character is encoded in one to four bytes. *)

Text ==
    {t \in [chars : Nat, bytes : Nat, pad : Nat, nul : BOOLEAN] :
        t.chars <= t.bytes /\ t.bytes <= 4 * t.chars /\ (t.nul => t.chars > 0)}

Enum       == {"known", "unknown"}
Id         == {"nil", "some"}
Confidence == Int \cup {NaN}
Symbol     == {"@", ".", "other"}

(* An address by its characters; wide: the bytes they take beyond one each.*)
Email == [symbols : Seq(Symbol), wide : Nat, pad : Nat, nul : BOOLEAN]

registerRequest ==
    [kind : {"registration"}, email : Email, name : Text, team_name : Text, password : Text]

Team == [kind : {"team"}, name : Text]

User == [kind : {"user"}, email : Email, name : Text, password_hash : Text, team_id : Id]

Integration == [kind : {"integration"}, provider : Enum, webhook_secret : Text, team_id : Id]

(* A time of 0 is Go's zero time, and none is before it. *)
Incident ==
    [kind : {"incident"}, title : Text, severity : Enum, status : Enum, source : Enum,
     team_id : Id, started_at : Nat, resolved_at : Nat \cup {None},
     external_id : Text \cup {None}]

Event ==
    [kind : {"event"}, event_type : Text, title : Text, source : Enum, classification : Enum,
     incident_id : Id, occurred_at : Nat, causal_rank : Int \cup {None}]

RootCauseHypothesis ==
    [kind : {"hypothesis"}, rank : Int, cause : Text, confidence : Confidence,
     evidence_event_ids : Id]

IncidentAnalysis ==
    [kind : {"analysis"}, predicted_root_cause : Text, model : Text, prompt_version : Text,
     incident_id : Id, confidence : Confidence, hypotheses : Seq(RootCauseHypothesis)]

Postmortem ==
    [kind : {"postmortem"}, incident_id : Id, executive_summary : Text, root_cause : Text,
     impact : Text, action_items : {"described", "undescribed"}]

SimulationScenario ==
    [kind : {"scenario"}, name : Text, category : Text, root_cause : Text, target : Text,
     fault : Enum]

SimulationRun ==
    [kind : {"run"}, status : Enum, scenario_id : Id, team_id : Id,
     started_at : Nat \cup {None}, completed_at : Nat \cup {None}]

EvaluationResult ==
    [kind : {"evaluation"}, simulation_run_id : Id, root_cause_rank : Int \cup {None},
     diagnosis_latency_ms : Int, causal_precision : Confidence \cup {None},
     causal_recall : Confidence \cup {None}, noise_accuracy : Confidence \cup {None}]

Record ==
    registerRequest \cup Team \cup User \cup Integration \cup Incident \cup Event
    \cup RootCauseHypothesis \cup IncidentAnalysis \cup Postmortem \cup SimulationScenario
    \cup SimulationRun \cup EvaluationResult

ASSUME RecordsAssumption ==
    /\ MaxInteger \in Nat /\ MaxInteger >= 3
    /\ NaN \notin Int /\ None \notin Int \cup {NaN}
    /\ Drafts \subseteq Record

-------------------------------------------------------------------------------
(* errors.go: the validator.  A check is the set of fields it reports. *)

When(wrong, f) == IF wrong THEN {f} ELSE {}

(* len(strings.TrimSpace(...)) *)
Bytes(t) == t.bytes

require(o, f)     == When(Bytes(o[f]) = 0, f)
maxLen(o, f, max) == When(Bytes(o[f]) > max, f)

requireAll(o, fs) == {f \in fs : Bytes(o[f]) = 0}
enumField(o, fs)  == {f \in fs : o[f] # "known"}
requireId(o, fs)  == {f \in fs : o[f] = "nil"}

(* A NaN is neither below 0 nor above 1. *)
validateConfidence(o, fs) ==
    {f \in fs : o[f] \notin {NaN, None} /\ (o[f] < 0 \/ o[f] > 100)}

(* ValidEmail: one @ with something before it, and in what follows a last  *)
(* dot with something before and after it.                                 *)
ValidEmail(s) ==
    \E at \in 2..Len(s) :
        /\ \A i \in 1..Len(s) : s[i] = "@" <=> i = at
        /\ \E dot \in at + 2..Len(s) - 1 :
              s[dot] = "." /\ \A i \in dot + 1..Len(s) : s[i] # "."

EmailBytes(e) == Len(e.symbols) + e.wide

-------------------------------------------------------------------------------
(* Validate, for each kind of record. *)

ValidateTeam(o) == require(o, "name") \cup maxLen(o, "name", 200)

ValidateUser(o) ==
    When(\/ EmailBytes(o.email) = 0 \/ EmailBytes(o.email) > 320
         \/ ~ValidEmail(o.email.symbols), "email")
    \cup requireAll(o, {"name", "password_hash"}) \cup maxLen(o, "name", 200)
    \cup requireId(o, {"team_id"})

(* A secret is taken as it is. *)
ValidateIntegration(o) ==
    enumField(o, {"provider"}) \cup requireId(o, {"team_id"})
    \cup When(o.webhook_secret.bytes + o.webhook_secret.pad < 16, "webhook_secret")

(* Mutant: the first problem is returned. *)
ValidateIncidentFirst(o) ==
    IF require(o, "title") # {} THEN {"title"}
    ELSE maxLen(o, "title", 500) \cup enumField(o, {"severity", "status", "source"})
         \cup requireId(o, {"team_id"}) \cup When(o.started_at = 0, "started_at")
         \cup When(o.resolved_at # None /\ o.resolved_at < o.started_at, "resolved_at")
         \cup When(o.external_id # None /\ o.external_id.bytes + o.external_id.pad = 0, "external_id")

ValidateIncident(o) ==
    require(o, "title") \cup maxLen(o, "title", 500)
    \cup enumField(o, {"severity", "status", "source"})
    \cup requireId(o, {"team_id"})
    \cup When(o.started_at = 0, "started_at")
    \cup When(o.resolved_at # None /\ o.resolved_at < o.started_at, "resolved_at")
    \cup When(o.external_id # None /\ o.external_id.bytes + o.external_id.pad = 0, "external_id")

(* Mutant: a rank of 0 passes. *)
ValidateEventLax(o) ==
    requireAll(o, {"event_type", "title"})
    \cup maxLen(o, "event_type", 100) \cup maxLen(o, "title", 500)
    \cup enumField(o, {"source", "classification"}) \cup requireId(o, {"incident_id"})
    \cup When(o.occurred_at = 0, "occurred_at")
    \cup When(o.causal_rank # None /\ o.causal_rank < 0, "causal_rank")

ValidateEvent(o) ==
    requireAll(o, {"event_type", "title"})
    \cup maxLen(o, "event_type", 100) \cup maxLen(o, "title", 500)
    \cup enumField(o, {"source", "classification"}) \cup requireId(o, {"incident_id"})
    \cup When(o.occurred_at = 0, "occurred_at")
    \cup When(o.causal_rank # None /\ o.causal_rank < 1, "causal_rank")

MaxHypotheses == 3

(* Of its hypotheses an analysis checks the number and the ranks' being    *)
(* distinct, and not what Hypothesis.Validate checks of each.              *)
ValidateAnalysis(o) ==
    requireAll(o, {"predicted_root_cause", "model", "prompt_version"})
    \cup requireId(o, {"incident_id"}) \cup validateConfidence(o, {"confidence"})
    \cup When(\/ Len(o.hypotheses) > MaxHypotheses
              \/ \E i, j \in DOMAIN o.hypotheses :
                    i # j /\ o.hypotheses[i].rank = o.hypotheses[j].rank, "hypotheses")

ValidateHypothesis(o) ==
    require(o, "cause") \cup validateConfidence(o, {"confidence"})
    \cup When(o.rank \notin 1..MaxHypotheses, "rank")
    \cup requireId(o, {"evidence_event_ids"})

ValidatePostmortem(o) ==
    requireId(o, {"incident_id"})
    \cup When(\A f \in {"executive_summary", "root_cause", "impact"} : o[f].bytes + o[f].pad = 0,
              "executive_summary")
    \cup When(o.action_items = "undescribed", "action_items")

ValidateScenario(o) ==
    requireAll(o, {"name", "category", "root_cause", "target"}) \cup maxLen(o, "name", 200)
    \cup enumField(o, {"fault"})

ValidateRun(o) ==
    enumField(o, {"status"}) \cup requireId(o, {"scenario_id", "team_id"})
    \cup When(/\ o.completed_at # None
              /\ o.started_at = None \/ o.completed_at < o.started_at, "completed_at")

ValidateEvaluation(o) ==
    requireId(o, {"simulation_run_id"})
    \cup When(o.root_cause_rank # None /\ o.root_cause_rank < 1, "root_cause_rank")
    \cup When(o.diagnosis_latency_ms < 0, "diagnosis_latency_ms")
    \cup validateConfidence(o, {"causal_precision", "causal_recall", "noise_accuracy"})

(* ValidatePassword: characters at least, bytes at most; nothing is        *)
(* trimmed.                                                                *)
ValidatePassword(p) ==
    When(p.chars + p.pad < 12 \/ p.bytes + p.pad > 72, "password")

(* validateRegistration: the names only have to be there. *)
ValidateRegistration(o) ==
    When(\/ EmailBytes(o.email) = 0 \/ EmailBytes(o.email) > 320
         \/ ~ValidEmail(o.email.symbols), "email")
    \cup requireAll(o, {"name", "team_name"}) \cup ValidatePassword(o.password)

Issues(o) ==
    CASE o.kind = "registration" -> ValidateRegistration(o)
      [] o.kind = "team"         -> ValidateTeam(o)
      [] o.kind = "user"         -> ValidateUser(o)
      [] o.kind = "integration"  -> ValidateIntegration(o)
      [] o.kind = "incident"     -> ValidateIncident(o)
      [] o.kind = "event"        -> ValidateEvent(o)
      [] o.kind = "analysis"     -> ValidateAnalysis(o)
      [] o.kind = "hypothesis"   -> ValidateHypothesis(o)
      [] o.kind = "postmortem"   -> ValidatePostmortem(o)
      [] o.kind = "scenario"     -> ValidateScenario(o)
      [] o.kind = "run"          -> ValidateRun(o)
      [] o.kind = "evaluation"   -> ValidateEvaluation(o)

-------------------------------------------------------------------------------
(* What the tables of migrations/ refuse, and the columns that are at      *)
(* fault: their CHECKs, types and references.  Texts arrive trimmed, as    *)
(* CreateTeamWithOwner and Create send them; length() counts characters.   *)

Column(t, lo, hi)  == t.nul \/ t.chars < lo \/ t.chars > hi
NotBlank(t)        == ~t.nul /\ t.chars > 0
Integer(n)         == n >= 1 /\ n <= MaxInteger
Ratio(c)           == c # NaN /\ c >= 0 /\ c <= 100    \* a NaN is above any number

NoAddress(e)       == e.nul \/ Len(e.symbols) < 3 \/ Len(e.symbols) > 320

(* bcrypt hashes 72 bytes, and the hash has no NUL whatever it is of. *)
RegistrationRefusals(o) ==
    When(NoAddress(o.email), "email")
    \cup When(Column(o.name, 1, 200), "name") \cup When(Column(o.team_name, 1, 200), "team_name")
    \cup When(o.password.bytes + o.password.pad > 72, "password")

TeamRefusals(o) == When(Column(o.name, 1, 200), "name")

UserRefusals(o) ==
    When(NoAddress(o.email), "email") \cup When(Column(o.name, 1, 200), "name")
    \cup When(o.password_hash.nul, "password_hash") \cup requireId(o, {"team_id"})

IntegrationRefusals(o) ==
    When(o.webhook_secret.nul \/ o.webhook_secret.chars + o.webhook_secret.pad < 16,
         "webhook_secret")
    \cup enumField(o, {"provider"}) \cup requireId(o, {"team_id"})

IncidentRefusals(o) ==
    When(Column(o.title, 1, 500), "title")
    \cup When(o.external_id # None /\ ~NotBlank(o.external_id), "external_id")
    \cup enumField(o, {"severity", "status", "source"}) \cup requireId(o, {"team_id"})
    \cup When(o.resolved_at # None /\ o.resolved_at < o.started_at, "resolved_at")

EventRefusals(o) ==
    When(Column(o.event_type, 1, 100), "event_type") \cup When(Column(o.title, 1, 500), "title")
    \cup enumField(o, {"source", "classification"}) \cup requireId(o, {"incident_id"})
    \cup When(o.causal_rank # None /\ ~Integer(o.causal_rank), "causal_rank")

HypothesisRefusals(o) ==
    When(o.rank \notin 1..3, "rank") \cup When(~NotBlank(o.cause), "cause")
    \cup When(~Ratio(o.confidence), "confidence")

(* An analysis is written with its hypotheses, under one rank each. *)
AnalysisRefusals(o) ==
    When(o.predicted_root_cause.nul, "predicted_root_cause")
    \cup {f \in {"model", "prompt_version"} : ~NotBlank(o[f])}
    \cup requireId(o, {"incident_id"}) \cup When(~Ratio(o.confidence), "confidence")
    \cup When(\/ \E i \in DOMAIN o.hypotheses : HypothesisRefusals(o.hypotheses[i]) # {}
              \/ \E i, j \in DOMAIN o.hypotheses :
                    i # j /\ o.hypotheses[i].rank = o.hypotheses[j].rank, "hypotheses")

PostmortemRefusals(o) ==
    {f \in {"executive_summary", "root_cause", "impact"} : o[f].nul}
    \cup requireId(o, {"incident_id"})

(* The target is in a jsonb column, which checks it for a NUL. *)
ScenarioRefusals(o) ==
    When(Column(o.name, 1, 200), "name") \cup When(Column(o.category, 1, 100), "category")
    \cup When(~NotBlank(o.root_cause), "root_cause") \cup When(o.target.nul, "target")

RunRefusals(o) ==
    enumField(o, {"status"}) \cup requireId(o, {"scenario_id", "team_id"})
    \cup When(/\ o.completed_at # None
              /\ o.started_at = None \/ o.completed_at < o.started_at, "completed_at")

EvaluationRefusals(o) ==
    requireId(o, {"simulation_run_id"})
    \cup When(o.root_cause_rank # None /\ ~Integer(o.root_cause_rank), "root_cause_rank")
    \cup When(o.diagnosis_latency_ms < 0 \/ o.diagnosis_latency_ms > MaxInteger,
              "diagnosis_latency_ms")
    \cup {f \in {"causal_precision", "causal_recall", "noise_accuracy"} :
            o[f] # None /\ ~Ratio(o[f])}

Refusals(o) ==
    CASE o.kind = "registration" -> RegistrationRefusals(o)
      [] o.kind = "team"         -> TeamRefusals(o)
      [] o.kind = "user"         -> UserRefusals(o)
      [] o.kind = "integration"  -> IntegrationRefusals(o)
      [] o.kind = "incident"     -> IncidentRefusals(o)
      [] o.kind = "event"        -> EventRefusals(o)
      [] o.kind = "analysis"     -> AnalysisRefusals(o)
      [] o.kind = "hypothesis"   -> HypothesisRefusals(o)
      [] o.kind = "postmortem"   -> PostmortemRefusals(o)
      [] o.kind = "scenario"     -> ScenarioRefusals(o)
      [] o.kind = "run"          -> RunRefusals(o)
      [] o.kind = "evaluation"   -> EvaluationRefusals(o)

-------------------------------------------------------------------------------
(* A caller's form: it is checked, corrected until nothing is reported,    *)
(* and written.                                                            *)
VARIABLES record, stage, issues

vars == <<record, stage, issues>>

Init == record \in Drafts /\ stage = "draft" /\ issues = {}

Check ==
    /\ stage = "draft"
    /\ issues' = Issues(record)
    /\ stage' = IF issues' = {} THEN "accepted" ELSE "reported"
    /\ UNCHANGED record

OfKind == [k \in {x.kind : x \in Drafts} |-> {x \in Drafts : x.kind = k}]

(* What was reported is changed, rightly or wrongly. *)
Corrections ==
    {x \in OfKind[record.kind] : \A f \in DOMAIN record \ issues : x[f] = record[f]}

Correct ==
    /\ stage = "reported"
    /\ record' \in Corrections
    /\ stage' = "draft" /\ issues' = {}

Write ==
    /\ stage = "accepted"
    /\ stage' = IF Refusals(record) = {} THEN "stored" ELSE "refused"
    /\ UNCHANGED <<record, issues>>

Next == Check \/ Correct \/ Write

Spec == Init /\ [][Next]_vars

-------------------------------------------------------------------------------
(* Where the two copies differ, of a record that Validate accepts: a NUL   *)
(* anywhere, and what each kind adds.                                      *)

Nul(o, fs) == {f \in fs : o[f].nul}
NaNs(o, fs) == {f \in fs : o[f] = NaN}

(* validateRegistration bounds no name. *)
RegistrationGaps(o) ==
    Nul(o, {"email", "name", "team_name"})
    \cup {f \in {"name", "team_name"} : o[f].chars > 200}

(* Sixteen bytes that are fewer characters. *)
IntegrationGaps(o) ==
    When(o.webhook_secret.nul \/ o.webhook_secret.chars + o.webhook_secret.pad < 16,
         "webhook_secret")

(* Spaces are not empty. *)
IncidentGaps(o) ==
    Nul(o, {"title"})
    \cup When(o.external_id # None /\ (o.external_id.nul \/ o.external_id.chars = 0), "external_id")

(* An int is wider than an integer column. *)
EventGaps(o) ==
    Nul(o, {"event_type", "title"})
    \cup When(o.causal_rank # None /\ o.causal_rank > MaxInteger, "causal_rank")

(* The hypotheses are counted and not validated. *)
AnalysisGaps(o) ==
    Nul(o, {"predicted_root_cause", "model", "prompt_version"}) \cup NaNs(o, {"confidence"})
    \cup When(\E i \in DOMAIN o.hypotheses : HypothesisRefusals(o.hypotheses[i]) # {}, "hypotheses")

HypothesisGaps(o) == Nul(o, {"cause"}) \cup NaNs(o, {"confidence"})

(* The category is not bounded. *)
ScenarioGaps(o) ==
    Nul(o, {"name", "category", "root_cause", "target"})
    \cup When(o.category.chars > 100, "category")

EvaluationGaps(o) ==
    NaNs(o, {"causal_precision", "causal_recall", "noise_accuracy"})
    \cup When(o.root_cause_rank # None /\ o.root_cause_rank > MaxInteger, "root_cause_rank")
    \cup When(o.diagnosis_latency_ms > MaxInteger, "diagnosis_latency_ms")

Gaps(o) ==
    CASE o.kind = "registration" -> RegistrationGaps(o)
      [] o.kind = "team"         -> Nul(o, {"name"})
      [] o.kind = "user"         -> Nul(o, {"email", "name", "password_hash"})
      [] o.kind = "integration"  -> IntegrationGaps(o)
      [] o.kind = "incident"     -> IncidentGaps(o)
      [] o.kind = "event"        -> EventGaps(o)
      [] o.kind = "analysis"     -> AnalysisGaps(o)
      [] o.kind = "hypothesis"   -> HypothesisGaps(o)
      [] o.kind = "postmortem"   -> Nul(o, {"executive_summary", "root_cause", "impact"})
      [] o.kind = "scenario"     -> ScenarioGaps(o)
      [] o.kind = "run"          -> {}
      [] o.kind = "evaluation"   -> EvaluationGaps(o)

(* The Validate methods of internal/models and validateRegistration: what  *)
(* they accept, migrations/ stores, but for the gaps above and for exactly *)
(* those; every other bound, in bytes there and characters here, agrees.   *)
AcceptedIsStored ==
    stage \in {"accepted", "stored", "refused"} => Refusals(record) = Gaps(record)

(* An incident that started at no time and ended at the zero time: only    *)
(* the start is reported, and any start is later than that end.            *)
EndedBeforeAll(o) == o.kind = "incident" /\ o.started_at = 0 /\ o.resolved_at = 0

(* models/errors.go, ValidationError and handlers/auth.go,                 *)
(* validateRegistration: every problem is reported at once, so that a form *)
(* can be corrected in one round trip, touching only what was reported,    *)
(* but for the one above.                                                  *)
OneRoundTrip ==
    stage = "reported" =>
        (EndedBeforeAll(record) <=> ~\E x \in Corrections : Issues(x) = {})
===============================================================================
