---------------------------- MODULE RecordsProofs -----------------------------
(* What the checks on the Go side accept the tables store, but for the     *)
(* listed gaps, and one list of complaints is all that a caller needs: for *)
(* each, one lemma per kind of record, for every value of its fields, and  *)
(* the property of Records from them.                                      *)
EXTENDS Records, TLAPS

(* An accepted address has five characters, of at most 320: length() in    *)
(* the CHECK on users.email is satisfied.                                  *)
LEMMA AddressFits ==
    ASSUME NEW e \in Email, EmailBytes(e) <= 320, ValidEmail(e.symbols)
    PROVE  Len(e.symbols) >= 3 /\ Len(e.symbols) <= 320
  <1>1. e.symbols \in Seq(Symbol) /\ e.wide \in Nat BY DEF Email
  <1>. DEFINE n == Len(e.symbols)
  <1>2. n \in Nat BY <1>1
  <1>3. PICK at \in 2..n : \E dot \in at + 2..n - 1 : TRUE BY DEF ValidEmail
  <1>4. n >= 5 BY <1>2, <1>3
  <1>5. n + e.wide <= 320 BY DEF EmailBytes
  <1>. QED BY <1>1, <1>2, <1>4, <1>5

LEMMA TeamFits ==
    ASSUME NEW o \in Team, ValidateTeam(o) = {}
    PROVE  TeamRefusals(o) = Nul(o, {"name"})
  <1>1. o.name \in Text BY DEF Team
  <1>2. o.name.bytes # 0 /\ o.name.bytes <= 200
    BY <1>1 DEF Text, ValidateTeam, require, maxLen, When, Bytes
  <1>3. Column(o.name, 1, 200) <=> o.name.nul BY <1>1, <1>2 DEF Column, Text
  <1>. QED BY <1>3 DEF TeamRefusals, Nul, When

LEMMA UserFits ==
    ASSUME NEW o \in User, ValidateUser(o) = {}
    PROVE  UserRefusals(o) = Nul(o, {"email", "name", "password_hash"})
  <1>1. o.name \in Text /\ o.email \in Email /\ o.team_id \in Id BY DEF User
  <1>2. /\ EmailBytes(o.email) <= 320 /\ ValidEmail(o.email.symbols)
        /\ requireAll(o, {"name", "password_hash"}) = {} /\ maxLen(o, "name", 200) = {}
        /\ requireId(o, {"team_id"}) = {}
    <2>1. EmailBytes(o.email) \in Int BY <1>1 DEF EmailBytes, Email
    <2>. QED BY <2>1 DEF ValidateUser, When
  <1>3. o.name.bytes # 0 /\ o.name.bytes <= 200
    BY <1>1, <1>2 DEF Text, requireAll, maxLen, When, Bytes
  <1>4. Column(o.name, 1, 200) <=> o.name.nul BY <1>1, <1>3 DEF Column, Text
  <1>5. NoAddress(o.email) <=> o.email.nul BY <1>1, <1>2, AddressFits DEF NoAddress, Email
  <1>. QED BY <1>2, <1>4, <1>5 DEF UserRefusals, Nul, When

LEMMA RegistrationFits ==
    ASSUME NEW o \in registerRequest, ValidateRegistration(o) = {}
    PROVE  RegistrationRefusals(o) = RegistrationGaps(o)
  <1>1. /\ o.name \in Text /\ o.team_name \in Text /\ o.email \in Email /\ o.password \in Text
    BY DEF registerRequest
  <1>2. /\ EmailBytes(o.email) <= 320 /\ ValidEmail(o.email.symbols)
        /\ requireAll(o, {"name", "team_name"}) = {} /\ ValidatePassword(o.password) = {}
    <2>1. EmailBytes(o.email) \in Int BY <1>1 DEF EmailBytes, Email
    <2>. QED BY <2>1 DEF ValidateRegistration, When
  <1>3. o.name.bytes # 0 /\ o.team_name.bytes # 0 BY <1>2 DEF requireAll, Bytes
  <1>4. /\ Column(o.name, 1, 200) <=> o.name.nul \/ o.name.chars > 200
        /\ Column(o.team_name, 1, 200) <=> o.team_name.nul \/ o.team_name.chars > 200
    BY <1>1, <1>3 DEF Column, Text
  <1>5. NoAddress(o.email) <=> o.email.nul BY <1>1, <1>2, AddressFits DEF NoAddress, Email
  <1>6. ~(o.password.bytes + o.password.pad > 72) BY <1>2 DEF ValidatePassword, When
  <1>. QED BY <1>4, <1>5, <1>6 DEF RegistrationRefusals, RegistrationGaps, Nul, When

LEMMA IntegrationFits ==
    ASSUME NEW o \in Integration, ValidateIntegration(o) = {}
    PROVE  IntegrationRefusals(o) = IntegrationGaps(o)
  BY DEF ValidateIntegration, IntegrationRefusals, IntegrationGaps

LEMMA IncidentFits ==
    ASSUME NEW o \in Incident, ValidateIncident(o) = {}
    PROVE  IncidentRefusals(o) = IncidentGaps(o)
  <1>1. o.title \in Text /\ o.external_id \in Text \cup {None} BY DEF Incident
  <1>2. /\ require(o, "title") = {} /\ maxLen(o, "title", 500) = {}
        /\ enumField(o, {"severity", "status", "source"}) = {} /\ requireId(o, {"team_id"}) = {}
        /\ When(o.resolved_at # None /\ o.resolved_at < o.started_at, "resolved_at") = {}
    BY DEF ValidateIncident
  <1>3. o.title.bytes # 0 /\ o.title.bytes <= 500
    BY <1>1, <1>2 DEF Text, require, maxLen, When, Bytes
  <1>4. Column(o.title, 1, 500) <=> o.title.nul BY <1>1, <1>3 DEF Column, Text
  <1>5. o.external_id # None =>
            (~NotBlank(o.external_id) <=> o.external_id.nul \/ o.external_id.chars = 0)
    BY <1>1 DEF NotBlank, Text
  <1>6. When(Column(o.title, 1, 500), "title") = Nul(o, {"title"}) BY <1>4 DEF When, Nul
  <1>. QED BY <1>2, <1>5, <1>6 DEF IncidentRefusals, IncidentGaps

LEMMA EventFits ==
    ASSUME NEW o \in Event, ValidateEvent(o) = {}
    PROVE  EventRefusals(o) = EventGaps(o)
  <1>1. o.title \in Text /\ o.event_type \in Text /\ o.causal_rank \in Int \cup {None} BY DEF Event
  <1>2. /\ requireAll(o, {"event_type", "title"}) = {}
        /\ maxLen(o, "event_type", 100) = {} /\ maxLen(o, "title", 500) = {}
        /\ enumField(o, {"source", "classification"}) = {} /\ requireId(o, {"incident_id"}) = {}
        /\ When(o.causal_rank # None /\ o.causal_rank < 1, "causal_rank") = {}
    BY DEF ValidateEvent
  <1>3. o.title.bytes # 0 /\ o.title.bytes <= 500 /\ o.event_type.bytes # 0 /\ o.event_type.bytes <= 100
    BY <1>1, <1>2 DEF Text, requireAll, maxLen, When, Bytes
  <1>4. /\ Column(o.title, 1, 500) <=> o.title.nul
        /\ Column(o.event_type, 1, 100) <=> o.event_type.nul
    BY <1>1, <1>3 DEF Column, Text
  <1>5. /\ When(Column(o.event_type, 1, 100), "event_type") \cup When(Column(o.title, 1, 500), "title")
           = Nul(o, {"event_type", "title"})
    BY <1>4 DEF When, Nul
  <1>6. When(o.causal_rank # None /\ ~Integer(o.causal_rank), "causal_rank")
        = When(o.causal_rank # None /\ o.causal_rank > MaxInteger, "causal_rank")
    BY <1>1, <1>2, RecordsAssumption DEF When, Integer
  <1>. QED BY <1>2, <1>5, <1>6 DEF EventRefusals, EventGaps

LEMMA HypothesisFits ==
    ASSUME NEW o \in RootCauseHypothesis, ValidateHypothesis(o) = {}
    PROVE  HypothesisRefusals(o) = HypothesisGaps(o)
  <1>1. o.cause \in Text /\ o.rank \in Int /\ o.confidence \in Int \cup {NaN}
    BY DEF RootCauseHypothesis, Confidence
  <1>2. /\ require(o, "cause") = {} /\ validateConfidence(o, {"confidence"}) = {}
        /\ When(o.rank \notin 1..MaxHypotheses, "rank") = {}
    BY DEF ValidateHypothesis
  <1>3. o.cause.bytes # 0 BY <1>2 DEF require, When, Bytes
  <1>4. ~NotBlank(o.cause) <=> o.cause.nul BY <1>1, <1>3 DEF NotBlank, Text
  <1>5. When(o.rank \notin 1..3, "rank") = {} BY <1>2 DEF MaxHypotheses
  <1>6. ~Ratio(o.confidence) <=> o.confidence = NaN
    BY <1>1, <1>2, RecordsAssumption DEF validateConfidence, Ratio
  <1>. QED BY <1>4, <1>5, <1>6 DEF HypothesisRefusals, HypothesisGaps, Nul, NaNs, When

LEMMA AnalysisFits ==
    ASSUME NEW o \in IncidentAnalysis, ValidateAnalysis(o) = {}
    PROVE  AnalysisRefusals(o) = AnalysisGaps(o)
  <1>1. /\ o.predicted_root_cause \in Text /\ o.model \in Text /\ o.prompt_version \in Text
        /\ o.confidence \in Int \cup {NaN}
    BY DEF IncidentAnalysis, Confidence
  <1>. DEFINE Repeated == \E i, j \in DOMAIN o.hypotheses :
                             i # j /\ o.hypotheses[i].rank = o.hypotheses[j].rank
              Bad == \E i \in DOMAIN o.hypotheses : HypothesisRefusals(o.hypotheses[i]) # {}
              Three == {"predicted_root_cause", "model", "prompt_version"}
  <1>2. /\ requireAll(o, Three) = {} /\ requireId(o, {"incident_id"}) = {}
        /\ validateConfidence(o, {"confidence"}) = {}
        /\ When(Len(o.hypotheses) > MaxHypotheses \/ Repeated, "hypotheses") = {}
    BY DEF ValidateAnalysis
  <1>. HIDE DEF Repeated, Bad
  <1>3. o.model.bytes # 0 /\ o.prompt_version.bytes # 0 BY <1>2 DEF requireAll, Bytes
  <1>4. /\ ~NotBlank(o.model) <=> o.model.nul
        /\ ~NotBlank(o.prompt_version) <=> o.prompt_version.nul
    BY <1>1, <1>3 DEF NotBlank, Text
  <1>5. When(o.predicted_root_cause.nul, "predicted_root_cause")
        \cup {f \in {"model", "prompt_version"} : ~NotBlank(o[f])} = Nul(o, Three)
    BY <1>4 DEF When, Nul
  <1>6. When(~Ratio(o.confidence), "confidence") = NaNs(o, {"confidence"})
    BY <1>1, <1>2, RecordsAssumption DEF validateConfidence, Ratio, When, NaNs
  <1>7. When(Bad \/ Repeated, "hypotheses") = When(Bad, "hypotheses") BY <1>2 DEF When
  <1>8. AnalysisRefusals(o) =
            When(o.predicted_root_cause.nul, "predicted_root_cause")
            \cup {f \in {"model", "prompt_version"} : ~NotBlank(o[f])}
            \cup requireId(o, {"incident_id"}) \cup When(~Ratio(o.confidence), "confidence")
            \cup When(Bad \/ Repeated, "hypotheses")
    BY Zenon DEF AnalysisRefusals, Bad, Repeated
  <1>9. AnalysisGaps(o) = Nul(o, Three) \cup NaNs(o, {"confidence"}) \cup When(Bad, "hypotheses")
    BY Zenon DEF AnalysisGaps, Bad
  <1>. QED BY <1>2, <1>5, <1>6, <1>7, <1>8, <1>9

LEMMA PostmortemFits ==
    ASSUME NEW o \in Postmortem, ValidatePostmortem(o) = {}
    PROVE  PostmortemRefusals(o) = Nul(o, {"executive_summary", "root_cause", "impact"})
  BY DEF ValidatePostmortem, PostmortemRefusals, Nul

LEMMA ScenarioFits ==
    ASSUME NEW o \in SimulationScenario, ValidateScenario(o) = {}
    PROVE  ScenarioRefusals(o) = ScenarioGaps(o)
  <1>1. o.name \in Text /\ o.category \in Text /\ o.root_cause \in Text BY DEF SimulationScenario
  <1>2. /\ requireAll(o, {"name", "category", "root_cause", "target"}) = {}
        /\ maxLen(o, "name", 200) = {}
    BY DEF ValidateScenario
  <1>3. /\ o.name.bytes # 0 /\ o.name.bytes <= 200
        /\ o.category.bytes # 0 /\ o.root_cause.bytes # 0
    BY <1>1, <1>2 DEF Text, requireAll, maxLen, When, Bytes
  <1>4. /\ Column(o.name, 1, 200) <=> o.name.nul
        /\ Column(o.category, 1, 100) <=> o.category.nul \/ o.category.chars > 100
        /\ ~NotBlank(o.root_cause) <=> o.root_cause.nul
    BY <1>1, <1>3 DEF Column, NotBlank, Text
  <1>. QED BY <1>4 DEF ScenarioRefusals, ScenarioGaps, Nul, When

LEMMA RunFits ==
    ASSUME NEW o \in SimulationRun, ValidateRun(o) = {}
    PROVE  RunRefusals(o) = {}
  BY DEF ValidateRun, RunRefusals

LEMMA EvaluationFits ==
    ASSUME NEW o \in EvaluationResult, ValidateEvaluation(o) = {}
    PROVE  EvaluationRefusals(o) = EvaluationGaps(o)
  <1>. DEFINE Three == {"causal_precision", "causal_recall", "noise_accuracy"}
  <1>1. /\ o.root_cause_rank \in Int \cup {None} /\ o.diagnosis_latency_ms \in Int
        /\ \A f \in Three : o[f] \in Int \cup {NaN, None}
    BY DEF EvaluationResult, Confidence
  <1>2. /\ requireId(o, {"simulation_run_id"}) = {} /\ validateConfidence(o, Three) = {}
        /\ When(o.root_cause_rank # None /\ o.root_cause_rank < 1, "root_cause_rank") = {}
        /\ When(o.diagnosis_latency_ms < 0, "diagnosis_latency_ms") = {}
    BY DEF ValidateEvaluation
  <1>3. When(o.root_cause_rank # None /\ ~Integer(o.root_cause_rank), "root_cause_rank")
        = When(o.root_cause_rank # None /\ o.root_cause_rank > MaxInteger, "root_cause_rank")
    BY <1>1, <1>2, RecordsAssumption DEF When, Integer
  <1>4. {f \in Three : o[f] # None /\ ~Ratio(o[f])} = NaNs(o, Three)
    BY <1>1, <1>2, RecordsAssumption DEF validateConfidence, Ratio, NaNs
  <1>5. When(o.diagnosis_latency_ms < 0 \/ o.diagnosis_latency_ms > MaxInteger, "diagnosis_latency_ms")
        = When(o.diagnosis_latency_ms > MaxInteger, "diagnosis_latency_ms")
    BY <1>1, <1>2 DEF When
  <1>. QED BY <1>2, <1>3, <1>4, <1>5 DEF EvaluationRefusals, EvaluationGaps

(* What is accepted is refused in its gaps and nowhere else, whatever the  *)
(* kind.                                                                   *)
LEMMA RecordsFit ==
    ASSUME NEW o \in Record, Issues(o) = {}
    PROVE  Refusals(o) = Gaps(o)
  <1>1. CASE o \in registerRequest
    <2>1. o.kind = "registration" BY <1>1 DEF registerRequest
    <2>. QED BY <1>1, <2>1, RegistrationFits, Zenon DEF Issues, Refusals, Gaps
  <1>2. CASE o \in Team
    <2>1. o.kind = "team" BY <1>2 DEF Team
    <2>. QED BY <1>2, <2>1, TeamFits, Zenon DEF Issues, Refusals, Gaps
  <1>3. CASE o \in User
    <2>1. o.kind = "user" BY <1>3 DEF User
    <2>. QED BY <1>3, <2>1, UserFits, Zenon DEF Issues, Refusals, Gaps
  <1>4. CASE o \in Integration
    <2>1. o.kind = "integration" BY <1>4 DEF Integration
    <2>. QED BY <1>4, <2>1, IntegrationFits, Zenon DEF Issues, Refusals, Gaps
  <1>5. CASE o \in Incident
    <2>1. o.kind = "incident" BY <1>5 DEF Incident
    <2>. QED BY <1>5, <2>1, IncidentFits, Zenon DEF Issues, Refusals, Gaps
  <1>6. CASE o \in Event
    <2>1. o.kind = "event" BY <1>6 DEF Event
    <2>. QED BY <1>6, <2>1, EventFits, Zenon DEF Issues, Refusals, Gaps
  <1>7. CASE o \in IncidentAnalysis
    <2>1. o.kind = "analysis" BY <1>7 DEF IncidentAnalysis
    <2>. QED BY <1>7, <2>1, AnalysisFits, Zenon DEF Issues, Refusals, Gaps
  <1>8. CASE o \in RootCauseHypothesis
    <2>1. o.kind = "hypothesis" BY <1>8 DEF RootCauseHypothesis
    <2>. QED BY <1>8, <2>1, HypothesisFits, Zenon DEF Issues, Refusals, Gaps
  <1>9. CASE o \in Postmortem
    <2>1. o.kind = "postmortem" BY <1>9 DEF Postmortem
    <2>. QED BY <1>9, <2>1, PostmortemFits, Zenon DEF Issues, Refusals, Gaps
  <1>10. CASE o \in SimulationScenario
    <2>1. o.kind = "scenario" BY <1>10 DEF SimulationScenario
    <2>. QED BY <1>10, <2>1, ScenarioFits, Zenon DEF Issues, Refusals, Gaps
  <1>11. CASE o \in SimulationRun
    <2>1. o.kind = "run" BY <1>11 DEF SimulationRun
    <2>. QED BY <1>11, <2>1, RunFits, Zenon DEF Issues, Refusals, Gaps
  <1>12. CASE o \in EvaluationResult
    <2>1. o.kind = "evaluation" BY <1>12 DEF EvaluationResult
    <2>. QED BY <1>12, <2>1, EvaluationFits, Zenon DEF Issues, Refusals, Gaps
  <1>. QED BY <1>1, <1>2, <1>3, <1>4, <1>5, <1>6, <1>7, <1>8, <1>9, <1>10, <1>11, <1>12 DEF Record

(* The form is one that callers write, and an accepted one has no issue.   *)
AcceptedInv ==
    /\ record \in Drafts
    /\ stage \in {"accepted", "stored", "refused"} => Issues(record) = {}

(* models' Validate methods and validateRegistration: an accepted record   *)
(* is stored unless it is in one of the gaps, and then it is refused.      *)
THEOREM AcceptedIsStoredAlways == Spec => []AcceptedIsStored
  <1>1. Init => AcceptedInv BY DEF Init, AcceptedInv
  <1>2. AcceptedInv /\ [Next]_vars => AcceptedInv'
    <2>. SUFFICES ASSUME AcceptedInv, [Next]_vars PROVE AcceptedInv' OBVIOUS
    <2>. USE DEF AcceptedInv
    <2>1. CASE Check BY <2>1 DEF Check
    <2>2. CASE Correct
      <3>1. record' \in Drafts
        BY <2>2 DEF Correct, Corrections, OfKind
      <3>. QED BY <2>2, <3>1 DEF Correct
    <2>3. CASE Write BY <2>3 DEF Write
    <2>4. CASE UNCHANGED vars BY <2>4 DEF vars
    <2>. QED BY <2>1, <2>2, <2>3, <2>4 DEF Next
  <1>3. AcceptedInv => AcceptedIsStored
    BY RecordsAssumption, RecordsFit DEF AcceptedInv, AcceptedIsStored
  <1>. QED BY <1>1, <1>2, <1>3, PTL DEF Spec

-------------------------------------------------------------------------------
(* One round of corrections. *)

(* Values that every check of their kind accepts. *)
GoodText  == [chars |-> 16, bytes |-> 16, pad |-> 0, nul |-> FALSE]
GoodEmail == [symbols |-> <<"other", "@", "other", ".", "other">>, wide |-> 0, pad |-> 0, nul |-> FALSE]

LEMMA GoodTextFits == GoodText \in Text /\ Bytes(GoodText) = 16 /\ GoodText.pad = 0 /\ GoodText.chars = 16
BY DEF GoodText, Text, Bytes

LEMMA GoodEmailFits ==
    GoodEmail \in Email /\ EmailBytes(GoodEmail) = 5 /\ ValidEmail(GoodEmail.symbols)
<1> DEFINE s == <<"other", "@", "other", ".", "other">>
<1>1. s \in Seq(Symbol) /\ Len(s) = 5
  BY DEF Symbol
<1>2. s[1] = "other" /\ s[2] = "@" /\ s[3] = "other" /\ s[4] = "." /\ s[5] = "other"
  OBVIOUS
<1> HIDE DEF s
<1>3. ValidEmail(s)
  <2>1. 2 \in 2..Len(s) /\ 4 \in (2 + 2)..(Len(s) - 1)
    BY <1>1
  <2>2. \A i \in 1..Len(s) : s[i] = "@" <=> i = 2
    BY <1>1, <1>2
  <2>3. s[4] = "." /\ \A i \in (4 + 1)..Len(s) : s[i] # "."
    BY <1>1, <1>2
  <2> QED  BY <2>1, <2>2, <2>3 DEF ValidEmail
<1>4. GoodEmail \in Email /\ EmailBytes(GoodEmail) = 5
  BY <1>1 DEF GoodEmail, Email, EmailBytes, s
<1> QED  BY <1>3, <1>4 DEF GoodEmail, s

LEMMA TeamAnswered ==
    ASSUME NEW o \in Team
    PROVE  \E x \in Team : /\ \A f \in DOMAIN o \ ValidateTeam(o) : x[f] = o[f]
                           /\ ValidateTeam(x) = {}
<1> DEFINE I == ValidateTeam(o)
           x == [kind |-> "team", name |-> IF "name" \in I THEN GoodText ELSE o.name]
<1>1. x \in Team
  BY GoodTextFits DEF Team
<1>2. \A f \in DOMAIN o \ I : x[f] = o[f]
  BY DEF Team
<1>3. ValidateTeam(x) = {}
  BY GoodTextFits DEF ValidateTeam, require, maxLen, When
<1> QED  BY <1>1, <1>2, <1>3

LEMMA IncidentAnswered ==
    ASSUME NEW o \in Incident, ~EndedBeforeAll(o)
    PROVE  \E x \in Incident : /\ \A f \in DOMAIN o \ ValidateIncident(o) : x[f] = o[f]
                               /\ ValidateIncident(x) = {}
<1> DEFINE I == ValidateIncident(o)
           Fix(f, v) == IF f \in I THEN v ELSE o[f]
           x == [kind |-> "incident", title |-> Fix("title", GoodText),
                 severity |-> Fix("severity", "known"), status |-> Fix("status", "known"),
                 source |-> Fix("source", "known"), team_id |-> Fix("team_id", "some"),
                 started_at |-> Fix("started_at", 1), resolved_at |-> Fix("resolved_at", None),
                 external_id |-> Fix("external_id", None)]
<1>1. /\ o.title \in Text /\ o.severity \in Enum /\ o.status \in Enum /\ o.source \in Enum
      /\ o.team_id \in Id /\ o.started_at \in Nat /\ o.resolved_at \in Nat \cup {None}
      /\ o.external_id \in Text \cup {None} /\ o.kind = "incident"
  BY DEF Incident
<1>2. x \in Incident
  BY <1>1, GoodTextFits DEF Incident, Enum, Id
<1>3. \A f \in DOMAIN o \ I : x[f] = o[f]
  BY <1>1 DEF Incident
<1>4. require(x, "title") = {} /\ maxLen(x, "title", 500) = {}
  <2>1. "title" \notin I => ~(Bytes(o.title) = 0) /\ ~(Bytes(o.title) > 500)
    BY DEF ValidateIncident, require, maxLen, When
  <2> QED  BY <2>1, GoodTextFits DEF require, maxLen, When
<1>5. enumField(x, {"severity", "status", "source"}) = {} /\ requireId(x, {"team_id"}) = {}
  <2>1. enumField(o, {"severity", "status", "source"}) \subseteq I /\ requireId(o, {"team_id"}) \subseteq I
    BY DEF ValidateIncident
  <2> QED  BY <2>1 DEF enumField, requireId
<1>6. /\ "started_at" \in I <=> o.started_at = 0
      /\ "resolved_at" \in I <=> o.resolved_at # None /\ o.resolved_at < o.started_at
      /\ "external_id" \in I <=> o.external_id # None /\ o.external_id.bytes + o.external_id.pad = 0
  BY DEF ValidateIncident, require, maxLen, When, enumField, requireId
<1>7. ~(x.started_at = 0) /\ ~(x.resolved_at # None /\ x.resolved_at < x.started_at)
  BY <1>1, <1>6 DEF EndedBeforeAll
<1>8. ~(x.external_id # None /\ x.external_id.bytes + x.external_id.pad = 0)
  BY <1>6
<1>9. ValidateIncident(x) = {}
  <2> HIDE DEF x
  <2> QED  BY <1>4, <1>5, <1>7, <1>8 DEF ValidateIncident, When
<1> QED  BY <1>2, <1>3, <1>9

LEMMA UserAnswered ==
    ASSUME NEW o \in User
    PROVE  \E x \in User : /\ \A f \in DOMAIN o \ ValidateUser(o) : x[f] = o[f]
                           /\ ValidateUser(x) = {}
<1> DEFINE I == ValidateUser(o)
           Fix(f, v) == IF f \in I THEN v ELSE o[f]
           x == [kind |-> "user", email |-> Fix("email", GoodEmail), name |-> Fix("name", GoodText),
                 password_hash |-> Fix("password_hash", GoodText), team_id |-> Fix("team_id", "some")]
           Bad(e) == EmailBytes(e) = 0 \/ EmailBytes(e) > 320 \/ ~ValidEmail(e.symbols)
<1>1. /\ o.kind = "user" /\ o.email \in Email /\ o.name \in Text /\ o.password_hash \in Text
      /\ o.team_id \in Id
  BY DEF User
<1>2. x \in User
  BY <1>1, GoodTextFits, GoodEmailFits DEF User, Id
<1>3. \A f \in DOMAIN o \ I : x[f] = o[f]
  BY <1>1 DEF User
<1>4. \A y : ValidateUser(y) = When(Bad(y.email), "email") \cup requireAll(y, {"name", "password_hash"})
                               \cup maxLen(y, "name", 200) \cup requireId(y, {"team_id"})
  BY DEF ValidateUser
<1>5. ~Bad(GoodEmail)
  BY GoodEmailFits
<1> HIDE DEF Bad
<1>6. ~Bad(x.email)
  <2>1. "email" \notin I => ~Bad(o.email)
    BY <1>4 DEF When
  <2> QED  BY <1>5, <2>1
<1>7. requireAll(x, {"name", "password_hash"}) = {} /\ maxLen(x, "name", 200) = {}
  <2>1. /\ requireAll(o, {"name", "password_hash"}) \subseteq I
        /\ "name" \notin I => ~(Bytes(o.name) > 200)
    BY <1>4 DEF maxLen, When
  <2> QED  BY <2>1, GoodTextFits DEF requireAll, maxLen, When
<1>8. requireId(x, {"team_id"}) = {}
  <2>1. requireId(o, {"team_id"}) \subseteq I
    BY <1>4
  <2> QED  BY <2>1 DEF requireId
<1>9. ValidateUser(x) = {}
  <2> HIDE DEF x
  <2> QED  BY <1>4, <1>6, <1>7, <1>8 DEF When
<1> QED  BY <1>2, <1>3, <1>9

LEMMA RegistrationAnswered ==
    ASSUME NEW o \in registerRequest
    PROVE  \E x \in registerRequest :
              /\ \A f \in DOMAIN o \ ValidateRegistration(o) : x[f] = o[f]
              /\ ValidateRegistration(x) = {}
<1> DEFINE I == ValidateRegistration(o)
           Fix(f, v) == IF f \in I THEN v ELSE o[f]
           x == [kind |-> "registration", email |-> Fix("email", GoodEmail),
                 name |-> Fix("name", GoodText), team_name |-> Fix("team_name", GoodText),
                 password |-> Fix("password", GoodText)]
           Bad(e) == EmailBytes(e) = 0 \/ EmailBytes(e) > 320 \/ ~ValidEmail(e.symbols)
<1>1. /\ o.kind = "registration" /\ o.email \in Email /\ o.name \in Text /\ o.team_name \in Text
      /\ o.password \in Text
  BY DEF registerRequest
<1>2. x \in registerRequest
  BY <1>1, GoodTextFits, GoodEmailFits DEF registerRequest
<1>3. \A f \in DOMAIN o \ I : x[f] = o[f]
  BY <1>1 DEF registerRequest
<1>4. \A y : ValidateRegistration(y) =
               When(Bad(y.email), "email") \cup requireAll(y, {"name", "team_name"})
               \cup ValidatePassword(y.password)
  BY DEF ValidateRegistration
<1>5. ~Bad(GoodEmail)
  BY GoodEmailFits
<1> HIDE DEF Bad
<1>6. ~Bad(x.email)
  <2>1. "email" \notin I => ~Bad(o.email)
    BY <1>4 DEF When
  <2> QED  BY <1>5, <2>1
<1>7. requireAll(x, {"name", "team_name"}) = {}
  <2>1. requireAll(o, {"name", "team_name"}) \subseteq I
    BY <1>4
  <2> QED  BY <2>1, GoodTextFits DEF requireAll
<1>8. ValidatePassword(x.password) = {}
  <2>1. "password" \notin I => ValidatePassword(o.password) = {}
    BY <1>4 DEF ValidatePassword, When
  <2>2. ValidatePassword(GoodText) = {}
    BY DEF ValidatePassword, When, GoodText
  <2> QED  BY <2>1, <2>2
<1>9. ValidateRegistration(x) = {}
  <2> HIDE DEF x
  <2> QED  BY <1>4, <1>6, <1>7, <1>8 DEF When
<1> QED  BY <1>2, <1>3, <1>9

LEMMA IntegrationAnswered ==
    ASSUME NEW o \in Integration
    PROVE  \E x \in Integration : /\ \A f \in DOMAIN o \ ValidateIntegration(o) : x[f] = o[f]
                                  /\ ValidateIntegration(x) = {}
<1> DEFINE I == ValidateIntegration(o)
           Fix(f, v) == IF f \in I THEN v ELSE o[f]
           x == [kind |-> "integration", provider |-> Fix("provider", "known"),
                 webhook_secret |-> Fix("webhook_secret", GoodText),
                 team_id |-> Fix("team_id", "some")]
<1>1. /\ o.kind = "integration" /\ o.provider \in Enum /\ o.webhook_secret \in Text /\ o.team_id \in Id
  BY DEF Integration
<1>2. x \in Integration
  BY <1>1, GoodTextFits DEF Integration, Id, Enum
<1>3. \A f \in DOMAIN o \ I : x[f] = o[f]
  BY <1>1 DEF Integration
<1>4. enumField(x, {"provider"}) = {} /\ requireId(x, {"team_id"}) = {}
  <2>1. enumField(o, {"provider"}) \subseteq I /\ requireId(o, {"team_id"}) \subseteq I
    BY DEF ValidateIntegration
  <2> QED  BY <2>1 DEF enumField, requireId
<1>5. ~(x.webhook_secret.bytes + x.webhook_secret.pad < 16)
  <2>1. "webhook_secret" \notin I => ~(o.webhook_secret.bytes + o.webhook_secret.pad < 16)
    BY DEF ValidateIntegration, When
  <2> QED  BY <2>1 DEF GoodText
<1>6. ValidateIntegration(x) = {}
  <2> HIDE DEF x
  <2> QED  BY <1>4, <1>5 DEF ValidateIntegration, When
<1> QED  BY <1>2, <1>3, <1>6

LEMMA EventAnswered ==
    ASSUME NEW o \in Event
    PROVE  \E x \in Event : /\ \A f \in DOMAIN o \ ValidateEvent(o) : x[f] = o[f]
                            /\ ValidateEvent(x) = {}
<1> DEFINE I == ValidateEvent(o)
           Fix(f, v) == IF f \in I THEN v ELSE o[f]
           x == [kind |-> "event", event_type |-> Fix("event_type", GoodText),
                 title |-> Fix("title", GoodText), source |-> Fix("source", "known"),
                 classification |-> Fix("classification", "known"),
                 incident_id |-> Fix("incident_id", "some"), occurred_at |-> Fix("occurred_at", 1),
                 causal_rank |-> Fix("causal_rank", None)]
<1>1. /\ o.kind = "event" /\ o.event_type \in Text /\ o.title \in Text /\ o.source \in Enum
      /\ o.classification \in Enum /\ o.incident_id \in Id /\ o.occurred_at \in Nat
      /\ o.causal_rank \in Int \cup {None}
  BY DEF Event
<1>2. x \in Event
  BY <1>1, GoodTextFits DEF Event, Id, Enum
<1>3. \A f \in DOMAIN o \ I : x[f] = o[f]
  BY <1>1 DEF Event
<1>4. /\ requireAll(x, {"event_type", "title"}) = {}
      /\ maxLen(x, "event_type", 100) = {} /\ maxLen(x, "title", 500) = {}
  <2>1. /\ requireAll(o, {"event_type", "title"}) \subseteq I
        /\ "event_type" \notin I => ~(Bytes(o.event_type) > 100)
        /\ "title" \notin I => ~(Bytes(o.title) > 500)
    BY DEF ValidateEvent, maxLen, When
  <2> QED  BY <2>1, GoodTextFits DEF requireAll, maxLen, When
<1>5. enumField(x, {"source", "classification"}) = {} /\ requireId(x, {"incident_id"}) = {}
  <2>1. enumField(o, {"source", "classification"}) \subseteq I /\ requireId(o, {"incident_id"}) \subseteq I
    BY DEF ValidateEvent
  <2> QED  BY <2>1 DEF enumField, requireId
<1>6. ~(x.occurred_at = 0) /\ ~(x.causal_rank # None /\ x.causal_rank < 1)
  <2>1. /\ "occurred_at" \notin I => ~(o.occurred_at = 0)
        /\ "causal_rank" \notin I => ~(o.causal_rank # None /\ o.causal_rank < 1)
    BY DEF ValidateEvent, When
  <2> QED  BY <2>1
<1>7. ValidateEvent(x) = {}
  <2> HIDE DEF x
  <2> QED  BY <1>4, <1>5, <1>6 DEF ValidateEvent, When
<1> QED  BY <1>2, <1>3, <1>7

LEMMA HypothesisAnswered ==
    ASSUME NEW o \in RootCauseHypothesis
    PROVE  \E x \in RootCauseHypothesis :
              /\ \A f \in DOMAIN o \ ValidateHypothesis(o) : x[f] = o[f]
              /\ ValidateHypothesis(x) = {}
<1> DEFINE I == ValidateHypothesis(o)
           Fix(f, v) == IF f \in I THEN v ELSE o[f]
           x == [kind |-> "hypothesis", rank |-> Fix("rank", 1), cause |-> Fix("cause", GoodText),
                 confidence |-> Fix("confidence", 0),
                 evidence_event_ids |-> Fix("evidence_event_ids", "some")]
<1>1. /\ o.kind = "hypothesis" /\ o.rank \in Int /\ o.cause \in Text /\ o.confidence \in Confidence
      /\ o.evidence_event_ids \in Id
  BY DEF RootCauseHypothesis
<1>2. x \in RootCauseHypothesis
  BY <1>1, GoodTextFits DEF RootCauseHypothesis, Id, Confidence
<1>3. \A f \in DOMAIN o \ I : x[f] = o[f]
  BY <1>1 DEF RootCauseHypothesis
<1>4. require(x, "cause") = {} /\ ~(x.rank \notin 1..MaxHypotheses)
  <2>1. /\ "cause" \notin I => ~(Bytes(o.cause) = 0)
        /\ "rank" \notin I => ~(o.rank \notin 1..MaxHypotheses)
    BY DEF ValidateHypothesis, require, When
  <2> QED  BY <2>1, GoodTextFits DEF require, When, MaxHypotheses
<1>5. requireId(x, {"evidence_event_ids"}) = {} /\ validateConfidence(x, {"confidence"}) = {}
  <2>1. /\ requireId(o, {"evidence_event_ids"}) \subseteq I
        /\ validateConfidence(o, {"confidence"}) \subseteq I
    BY DEF ValidateHypothesis
  <2> QED  BY <2>1 DEF requireId, validateConfidence
<1>6. ValidateHypothesis(x) = {}
  <2> HIDE DEF x
  <2> QED  BY <1>4, <1>5 DEF ValidateHypothesis, When
<1> QED  BY <1>2, <1>3, <1>6

LEMMA AnalysisAnswered ==
    ASSUME NEW o \in IncidentAnalysis
    PROVE  \E x \in IncidentAnalysis :
              /\ \A f \in DOMAIN o \ ValidateAnalysis(o) : x[f] = o[f]
              /\ ValidateAnalysis(x) = {}
<1> DEFINE I == ValidateAnalysis(o)
           Fix(f, v) == IF f \in I THEN v ELSE o[f]
           x == [kind |-> "analysis",
                 predicted_root_cause |-> Fix("predicted_root_cause", GoodText),
                 model |-> Fix("model", GoodText), prompt_version |-> Fix("prompt_version", GoodText),
                 incident_id |-> Fix("incident_id", "some"), confidence |-> Fix("confidence", 0),
                 hypotheses |-> Fix("hypotheses", <<>>)]
           Three == {"predicted_root_cause", "model", "prompt_version"}
           Bad(hs) == \/ Len(hs) > MaxHypotheses
                      \/ \E i, j \in DOMAIN hs : i # j /\ hs[i].rank = hs[j].rank
<1>1. /\ o.kind = "analysis" /\ o.predicted_root_cause \in Text /\ o.model \in Text
      /\ o.prompt_version \in Text /\ o.incident_id \in Id /\ o.confidence \in Confidence
      /\ o.hypotheses \in Seq(RootCauseHypothesis)
  BY DEF IncidentAnalysis
<1>2. x \in IncidentAnalysis
  BY <1>1, GoodTextFits DEF IncidentAnalysis, Id, Confidence
<1>3. \A f \in DOMAIN o \ I : x[f] = o[f]
  BY <1>1 DEF IncidentAnalysis
<1>4. \A y : ValidateAnalysis(y) =
               requireAll(y, Three) \cup requireId(y, {"incident_id"})
               \cup validateConfidence(y, {"confidence"}) \cup When(Bad(y.hypotheses), "hypotheses")
  BY DEF ValidateAnalysis
<1>5. ~Bad(<<>>)
  BY DEF MaxHypotheses
<1> HIDE DEF Bad
<1>6. ~Bad(x.hypotheses)
  <2>1. "hypotheses" \notin I => ~Bad(o.hypotheses)
    BY <1>4 DEF When
  <2> QED  BY <1>5, <2>1
<1>7. /\ requireAll(x, Three) = {} /\ requireId(x, {"incident_id"}) = {}
      /\ validateConfidence(x, {"confidence"}) = {}
  <2>1. /\ requireAll(o, Three) \subseteq I /\ requireId(o, {"incident_id"}) \subseteq I
        /\ validateConfidence(o, {"confidence"}) \subseteq I
    BY <1>4
  <2> QED  BY <2>1, GoodTextFits DEF requireAll, requireId, validateConfidence
<1>8. ValidateAnalysis(x) = {}
  <2> HIDE DEF x
  <2> QED  BY <1>4, <1>6, <1>7 DEF When
<1> QED  BY <1>2, <1>3, <1>8

LEMMA PostmortemAnswered ==
    ASSUME NEW o \in Postmortem
    PROVE  \E x \in Postmortem : /\ \A f \in DOMAIN o \ ValidatePostmortem(o) : x[f] = o[f]
                                 /\ ValidatePostmortem(x) = {}
<1> DEFINE I == ValidatePostmortem(o)
           Fix(f, v) == IF f \in I THEN v ELSE o[f]
           x == [kind |-> "postmortem", incident_id |-> Fix("incident_id", "some"),
                 executive_summary |-> Fix("executive_summary", GoodText),
                 root_cause |-> o.root_cause, impact |-> o.impact,
                 action_items |-> Fix("action_items", "described")]
           Three == {"executive_summary", "root_cause", "impact"}
           Empty(y) == \A f \in Three : y[f].bytes + y[f].pad = 0
<1>1. /\ o.kind = "postmortem" /\ o.incident_id \in Id /\ o.executive_summary \in Text
      /\ o.root_cause \in Text /\ o.impact \in Text
      /\ o.action_items \in {"described", "undescribed"}
  BY DEF Postmortem
<1>2. x \in Postmortem
  BY <1>1, GoodTextFits DEF Postmortem, Id
<1>3. \A f \in DOMAIN o \ I : x[f] = o[f]
  BY <1>1 DEF Postmortem
<1>4. \A y : ValidatePostmortem(y) =
               requireId(y, {"incident_id"}) \cup When(Empty(y), "executive_summary")
               \cup When(y.action_items = "undescribed", "action_items")
  BY DEF ValidatePostmortem
<1>5. ~Empty(x)
  <2>1. CASE "executive_summary" \in I
    BY <2>1 DEF GoodText
  <2>2. CASE "executive_summary" \notin I
    <3>1. ~Empty(o)
      <4> HIDE DEF Empty
      <4> QED  BY <1>4, <2>2 DEF When
    <3> QED  BY <2>2, <3>1
  <2> QED  BY <2>1, <2>2
<1> HIDE DEF Empty
<1>6. requireId(x, {"incident_id"}) = {} /\ ~(x.action_items = "undescribed")
  <2>1. /\ requireId(o, {"incident_id"}) \subseteq I
        /\ "action_items" \notin I => ~(o.action_items = "undescribed")
    BY <1>4 DEF When
  <2> QED  BY <2>1 DEF requireId
<1>7. ValidatePostmortem(x) = {}
  <2> HIDE DEF x
  <2> QED  BY <1>4, <1>5, <1>6 DEF When
<1> QED  BY <1>2, <1>3, <1>7

LEMMA ScenarioAnswered ==
    ASSUME NEW o \in SimulationScenario
    PROVE  \E x \in SimulationScenario :
              /\ \A f \in DOMAIN o \ ValidateScenario(o) : x[f] = o[f]
              /\ ValidateScenario(x) = {}
<1> DEFINE I == ValidateScenario(o)
           Fix(f, v) == IF f \in I THEN v ELSE o[f]
           x == [kind |-> "scenario", name |-> Fix("name", GoodText),
                 category |-> Fix("category", GoodText), root_cause |-> Fix("root_cause", GoodText),
                 target |-> Fix("target", GoodText), fault |-> Fix("fault", "known")]
           Four == {"name", "category", "root_cause", "target"}
<1>1. /\ o.kind = "scenario" /\ o.name \in Text /\ o.category \in Text /\ o.root_cause \in Text
      /\ o.target \in Text /\ o.fault \in Enum
  BY DEF SimulationScenario
<1>2. x \in SimulationScenario
  BY <1>1, GoodTextFits DEF SimulationScenario, Enum
<1>3. \A f \in DOMAIN o \ I : x[f] = o[f]
  BY <1>1 DEF SimulationScenario
<1>4. /\ requireAll(x, Four) = {} /\ maxLen(x, "name", 200) = {} /\ enumField(x, {"fault"}) = {}
  <2>1. /\ requireAll(o, Four) \subseteq I /\ enumField(o, {"fault"}) \subseteq I
        /\ "name" \notin I => ~(Bytes(o.name) > 200)
    BY DEF ValidateScenario, maxLen, When
  <2> QED  BY <2>1, GoodTextFits DEF requireAll, maxLen, enumField, When
<1>5. ValidateScenario(x) = {}
  <2> HIDE DEF x
  <2> QED  BY <1>4 DEF ValidateScenario
<1> QED  BY <1>2, <1>3, <1>5

LEMMA RunAnswered ==
    ASSUME NEW o \in SimulationRun
    PROVE  \E x \in SimulationRun : /\ \A f \in DOMAIN o \ ValidateRun(o) : x[f] = o[f]
                                    /\ ValidateRun(x) = {}
<1> DEFINE I == ValidateRun(o)
           Fix(f, v) == IF f \in I THEN v ELSE o[f]
           x == [kind |-> "run", status |-> Fix("status", "known"),
                 scenario_id |-> Fix("scenario_id", "some"), team_id |-> Fix("team_id", "some"),
                 started_at |-> o.started_at, completed_at |-> Fix("completed_at", None)]
<1>1. /\ o.kind = "run" /\ o.status \in Enum /\ o.scenario_id \in Id /\ o.team_id \in Id
      /\ o.started_at \in Nat \cup {None} /\ o.completed_at \in Nat \cup {None}
  BY DEF SimulationRun
<1>2. x \in SimulationRun
  BY <1>1 DEF SimulationRun, Enum, Id
<1>3. \A f \in DOMAIN o \ I : x[f] = o[f]
  BY <1>1 DEF SimulationRun
<1>4. /\ enumField(x, {"status"}) = {} /\ requireId(x, {"scenario_id", "team_id"}) = {}
  <2>1. enumField(o, {"status"}) \subseteq I /\ requireId(o, {"scenario_id", "team_id"}) \subseteq I
    BY DEF ValidateRun
  <2> QED  BY <2>1 DEF enumField, requireId
<1>5. ~(x.completed_at # None /\ (x.started_at = None \/ x.completed_at < x.started_at))
  <2>1. "completed_at" \notin I =>
           ~(o.completed_at # None /\ (o.started_at = None \/ o.completed_at < o.started_at))
    BY DEF ValidateRun, When
  <2> QED  BY <2>1
<1>6. ValidateRun(x) = {}
  <2> HIDE DEF x
  <2> QED  BY <1>4, <1>5 DEF ValidateRun, When
<1> QED  BY <1>2, <1>3, <1>6

LEMMA EvaluationAnswered ==
    ASSUME NEW o \in EvaluationResult
    PROVE  \E x \in EvaluationResult :
              /\ \A f \in DOMAIN o \ ValidateEvaluation(o) : x[f] = o[f]
              /\ ValidateEvaluation(x) = {}
<1> DEFINE I == ValidateEvaluation(o)
           Fix(f, v) == IF f \in I THEN v ELSE o[f]
           x == [kind |-> "evaluation", simulation_run_id |-> Fix("simulation_run_id", "some"),
                 root_cause_rank |-> Fix("root_cause_rank", None),
                 diagnosis_latency_ms |-> Fix("diagnosis_latency_ms", 0),
                 causal_precision |-> Fix("causal_precision", None),
                 causal_recall |-> Fix("causal_recall", None),
                 noise_accuracy |-> Fix("noise_accuracy", None)]
           Three == {"causal_precision", "causal_recall", "noise_accuracy"}
<1>1. /\ o.kind = "evaluation" /\ o.simulation_run_id \in Id
      /\ o.root_cause_rank \in Int \cup {None} /\ o.diagnosis_latency_ms \in Int
      /\ o.causal_precision \in Confidence \cup {None} /\ o.causal_recall \in Confidence \cup {None}
      /\ o.noise_accuracy \in Confidence \cup {None}
  BY DEF EvaluationResult
<1>2. x \in EvaluationResult
  BY <1>1 DEF EvaluationResult, Id
<1>3. \A f \in DOMAIN o \ I : x[f] = o[f]
  BY <1>1 DEF EvaluationResult
<1>4. requireId(x, {"simulation_run_id"}) = {} /\ validateConfidence(x, Three) = {}
  <2>1. requireId(o, {"simulation_run_id"}) \subseteq I /\ validateConfidence(o, Three) \subseteq I
    BY DEF ValidateEvaluation
  <2> QED  BY <2>1 DEF requireId, validateConfidence
<1>5. ~(x.root_cause_rank # None /\ x.root_cause_rank < 1) /\ ~(x.diagnosis_latency_ms < 0)
  <2>1. /\ "root_cause_rank" \notin I => ~(o.root_cause_rank # None /\ o.root_cause_rank < 1)
        /\ "diagnosis_latency_ms" \notin I => ~(o.diagnosis_latency_ms < 0)
    BY DEF ValidateEvaluation, When
  <2> QED  BY <2>1
<1>6. ValidateEvaluation(x) = {}
  <2> HIDE DEF x
  <2> QED  BY <1>4, <1>5 DEF ValidateEvaluation, When
<1> QED  BY <1>2, <1>3, <1>6

(* Whatever is reported of a form, there is one that differs from it in    *)
(* nothing but what was reported, and of which nothing is.                 *)
LEMMA RecordAnswered ==
    ASSUME NEW o \in Record, ~EndedBeforeAll(o)
    PROVE  \E x \in Record : /\ x.kind = o.kind /\ Issues(x) = {}
                             /\ \A f \in DOMAIN o \ Issues(o) : x[f] = o[f]
<1>1. CASE o \in registerRequest
  <2>1. o.kind = "registration" /\ \A x \in registerRequest : x.kind = "registration"
    BY <1>1 DEF registerRequest
  <2>2. \A x \in registerRequest : Issues(x) = ValidateRegistration(x)
    BY <2>1, Zenon DEF Issues
  <2> QED  BY <1>1, <2>1, <2>2, RegistrationAnswered DEF Record
<1>2. CASE o \in Team
  <2>1. o.kind = "team" /\ \A x \in Team : x.kind = "team"
    BY <1>2 DEF Team
  <2>2. \A x \in Team : Issues(x) = ValidateTeam(x)
    BY <2>1, Zenon DEF Issues
  <2> QED  BY <1>2, <2>1, <2>2, TeamAnswered DEF Record
<1>3. CASE o \in User
  <2>1. o.kind = "user" /\ \A x \in User : x.kind = "user"
    BY <1>3 DEF User
  <2>2. \A x \in User : Issues(x) = ValidateUser(x)
    BY <2>1, Zenon DEF Issues
  <2> QED  BY <1>3, <2>1, <2>2, UserAnswered DEF Record
<1>4. CASE o \in Integration
  <2>1. o.kind = "integration" /\ \A x \in Integration : x.kind = "integration"
    BY <1>4 DEF Integration
  <2>2. \A x \in Integration : Issues(x) = ValidateIntegration(x)
    BY <2>1, Zenon DEF Issues
  <2> QED  BY <1>4, <2>1, <2>2, IntegrationAnswered DEF Record
<1>5. CASE o \in Incident
  <2>1. o.kind = "incident" /\ \A x \in Incident : x.kind = "incident"
    BY <1>5 DEF Incident
  <2>2. \A x \in Incident : Issues(x) = ValidateIncident(x)
    BY <2>1, Zenon DEF Issues
  <2> QED  BY <1>5, <2>1, <2>2, IncidentAnswered DEF Record
<1>6. CASE o \in Event
  <2>1. o.kind = "event" /\ \A x \in Event : x.kind = "event"
    BY <1>6 DEF Event
  <2>2. \A x \in Event : Issues(x) = ValidateEvent(x)
    BY <2>1, Zenon DEF Issues
  <2> QED  BY <1>6, <2>1, <2>2, EventAnswered DEF Record
<1>7. CASE o \in IncidentAnalysis
  <2>1. o.kind = "analysis" /\ \A x \in IncidentAnalysis : x.kind = "analysis"
    BY <1>7 DEF IncidentAnalysis
  <2>2. \A x \in IncidentAnalysis : Issues(x) = ValidateAnalysis(x)
    BY <2>1, Zenon DEF Issues
  <2> QED  BY <1>7, <2>1, <2>2, AnalysisAnswered DEF Record
<1>8. CASE o \in RootCauseHypothesis
  <2>1. o.kind = "hypothesis" /\ \A x \in RootCauseHypothesis : x.kind = "hypothesis"
    BY <1>8 DEF RootCauseHypothesis
  <2>2. \A x \in RootCauseHypothesis : Issues(x) = ValidateHypothesis(x)
    BY <2>1, Zenon DEF Issues
  <2> QED  BY <1>8, <2>1, <2>2, HypothesisAnswered DEF Record
<1>9. CASE o \in Postmortem
  <2>1. o.kind = "postmortem" /\ \A x \in Postmortem : x.kind = "postmortem"
    BY <1>9 DEF Postmortem
  <2>2. \A x \in Postmortem : Issues(x) = ValidatePostmortem(x)
    BY <2>1, Zenon DEF Issues
  <2> QED  BY <1>9, <2>1, <2>2, PostmortemAnswered DEF Record
<1>10. CASE o \in SimulationScenario
  <2>1. o.kind = "scenario" /\ \A x \in SimulationScenario : x.kind = "scenario"
    BY <1>10 DEF SimulationScenario
  <2>2. \A x \in SimulationScenario : Issues(x) = ValidateScenario(x)
    BY <2>1, Zenon DEF Issues
  <2> QED  BY <1>10, <2>1, <2>2, ScenarioAnswered DEF Record
<1>11. CASE o \in SimulationRun
  <2>1. o.kind = "run" /\ \A x \in SimulationRun : x.kind = "run"
    BY <1>11 DEF SimulationRun
  <2>2. \A x \in SimulationRun : Issues(x) = ValidateRun(x)
    BY <2>1, Zenon DEF Issues
  <2> QED  BY <1>11, <2>1, <2>2, RunAnswered DEF Record
<1>12. CASE o \in EvaluationResult
  <2>1. o.kind = "evaluation" /\ \A x \in EvaluationResult : x.kind = "evaluation"
    BY <1>12 DEF EvaluationResult
  <2>2. \A x \in EvaluationResult : Issues(x) = ValidateEvaluation(x)
    BY <2>1, Zenon DEF Issues
  <2> QED  BY <1>12, <2>1, <2>2, EvaluationAnswered DEF Record
<1> QED  BY <1>1, <1>2, <1>3, <1>4, <1>5, <1>6, <1>7, <1>8, <1>9, <1>10, <1>11, <1>12 DEF Record

LEMMA IncidentsByKind == ASSUME NEW o \in Record, o.kind = "incident" PROVE o \in Incident
BY DEF Record, registerRequest, Team, User, Integration, Incident, Event, IncidentAnalysis, RootCauseHypothesis, Postmortem, SimulationScenario, SimulationRun, EvaluationResult

(* No start is both given and not later than an end before every start.    *)
LEMMA NotAnswered ==
    ASSUME NEW o \in Record, EndedBeforeAll(o), NEW x \in Record, x.kind = o.kind,
           \A f \in DOMAIN o \ Issues(o) : x[f] = o[f]
    PROVE  Issues(x) # {}
<1>1. o \in Incident /\ x \in Incident /\ o.started_at = 0 /\ o.resolved_at = 0
  BY IncidentsByKind DEF EndedBeforeAll
<1>2. Issues(o) = ValidateIncident(o) /\ Issues(x) = ValidateIncident(x)
  <2>1. o.kind = "incident" /\ x.kind = "incident"
    BY DEF EndedBeforeAll
  <2> QED  BY <2>1, Zenon DEF Issues
<1>3. "resolved_at" \in DOMAIN o /\ "resolved_at" \notin ValidateIncident(o)
  BY <1>1 DEF Incident, ValidateIncident, require, maxLen, enumField, requireId, When
<1>4. x.resolved_at = 0 /\ x.started_at \in Nat
  BY <1>1, <1>2, <1>3 DEF Incident
<1>5. When(x.started_at = 0, "started_at") \cup
      When(x.resolved_at # None /\ x.resolved_at < x.started_at, "resolved_at") # {}
  BY <1>4, RecordsAssumption DEF When
<1>6. When(x.started_at = 0, "started_at") \cup
      When(x.resolved_at # None /\ x.resolved_at < x.started_at, "resolved_at") \subseteq ValidateIncident(x)
  BY DEF ValidateIncident
<1> QED  BY <1>2, <1>5, <1>6

(* A caller may write every form that has no issue. *)
FullForms == \A o \in Record : Issues(o) = {} => o \in Drafts

ReportedInv ==
    /\ record \in Drafts
    /\ stage = "reported" => issues = Issues(record)

LEMMA RoundTrip == ASSUME FullForms, ReportedInv PROVE OneRoundTrip
<1> SUFFICES ASSUME stage = "reported"
             PROVE  EndedBeforeAll(record) <=> ~\E x \in Corrections : Issues(x) = {}
  BY DEF OneRoundTrip
<1>1. record \in Record /\ Drafts \subseteq Record /\ issues = Issues(record)
  BY RecordsAssumption DEF ReportedInv
<1>2. Corrections = {x \in Drafts : x.kind = record.kind /\ \A f \in DOMAIN record \ Issues(record) :
                                                              x[f] = record[f]}
  BY <1>1 DEF Corrections, OfKind, ReportedInv
<1>3. CASE EndedBeforeAll(record)
  BY <1>1, <1>2, <1>3, NotAnswered
<1>4. CASE ~EndedBeforeAll(record)
  <2>1. PICK x \in Record : /\ x.kind = record.kind /\ Issues(x) = {}
                            /\ \A f \in DOMAIN record \ Issues(record) : x[f] = record[f]
    BY <1>1, <1>4, RecordAnswered
  <2>2. x \in Corrections
    BY <1>2, <2>1 DEF FullForms
  <2> QED  BY <1>4, <2>1, <2>2
<1> QED  BY <1>3, <1>4

(* models' Validate methods and validateRegistration report every problem  *)
(* at once: whatever a caller wrote, there are values for the reported     *)
(* fields with which the form is accepted; except for an incident that     *)
(* ended at the zero time and has no start, for which there are none.      *)
THEOREM OneRoundTripAlways == ASSUME FullForms PROVE Spec => []OneRoundTrip
<1>1. Init => ReportedInv
  BY DEF Init, ReportedInv
<1>2. ReportedInv /\ [Next]_vars => ReportedInv'
  <2> SUFFICES ASSUME ReportedInv, [Next]_vars PROVE ReportedInv'
    OBVIOUS
  <2>1. CASE Check
    BY <2>1 DEF Check, ReportedInv
  <2>2. CASE Correct
    <3>1. record' \in Drafts
      BY <2>2 DEF Correct, Corrections, OfKind, ReportedInv
    <3> QED  BY <2>2, <3>1 DEF Correct, ReportedInv
  <2>3. CASE Write
    BY <2>3 DEF Write, ReportedInv
  <2>4. CASE UNCHANGED vars
    BY <2>4 DEF vars, ReportedInv
  <2> QED  BY <2>1, <2>2, <2>3, <2>4 DEF Next
<1>3. ReportedInv => OneRoundTrip
  BY RoundTrip
<1> QED  BY <1>1, <1>2, <1>3, PTL DEF Spec
===============================================================================
