------------------------------ MODULE MCRecords -------------------------------
(* Forms with up to two unusual fields, at both sides of every limit. *)
EXTENDS Records

T(c, b, p) == [chars |-> c, bytes |-> b, pad |-> p, nul |-> FALSE]

Blank  == T(0, 0, 0)
Spaces == T(0, 0, 2)
WithNul(t) == [t EXCEPT !.nul = TRUE]

(* Around a limit of n: bytes decide, and characters are fewer. *)
Bounded(n) == {Blank, Spaces, T(n, n, 1), T(n - 1, n + 1, 0), T(n + 1, n + 1, 0), WithNul(T(1, 1, 0))}
Free       == {Blank, Spaces, T(1, 4, 0), WithNul(T(1, 1, 0))}

(* x@y. ... z with n characters, or without an @ or a dot where it counts *)
Address(n, dot) ==
    <<>> \o [i \in 1..n |-> IF i = 2 THEN "@" ELSE IF i = dot THEN "." ELSE "other"]
E(s, w, p) == [symbols |-> s, wide |-> w, pad |-> p, nul |-> FALSE]

Emails ==
    {E(<<>>, 0, 0), E(<<>>, 0, 1), E(Address(5, 4), 0, 2), E(Address(5, 5), 0, 0),
     E(Address(5, 3), 0, 0), E(Address(1, 1), 0, 0), E(Address(320, 319), 0, 1),
     E(Address(320, 4), 1, 0), E(Address(321, 4), 0, 0), WithNul(E(Address(5, 4), 0, 0)),
     E(<<"other", "@", "@", "other", ".", "other">>, 0, 0), E(<<"@", "other", ".", "other">>, 0, 0)}

Passwords == {Blank, T(11, 11, 0), T(10, 10, 2), T(18, 72, 0), T(18, 72, 1), T(73, 73, 0),
              WithNul(T(12, 12, 0))}
Secrets   == {Blank, T(15, 15, 0), T(10, 10, 6), T(4, 16, 0), WithNul(T(16, 16, 0))}
Ids       == {"nil", "some"}
Enums     == {"known", "unknown"}
Ratios    == {NaN, 0 - 1, 0, 100, 101}
Ints      == {0 - 1, 0, 1, MaxInteger, MaxInteger + 1}

Name == T(3, 3, 0)
Mail == E(Address(5, 4), 0, 0)

(* g with at most two fields replaced by one of their other values *)
Variants(g, other) ==
    UNION {{[g EXCEPT ![f1] = v1, ![f2] = v2] :
                v1 \in other[f1] \cup {g[f1]}, v2 \in other[f2] \cup {g[f2]}} :
            f1, f2 \in DOMAIN other}

Hypo(r, c, p) == [kind |-> "hypothesis", rank |-> r, cause |-> c, confidence |-> p,
                  evidence_event_ids |-> "some"]

HypothesisLists ==
    {<<>>, <<Hypo(1, Name, 100), Hypo(2, Name, 0), Hypo(3, Name, 50)>>,
     <<Hypo(1, Name, 50), Hypo(2, Name, 50), Hypo(3, Name, 50), Hypo(4, Name, 50)>>,
     <<Hypo(1, Name, 50), Hypo(1, Name, 50)>>, <<Hypo(0, Name, 50)>>, <<Hypo(1, Blank, 50)>>,
     <<Hypo(1, Name, NaN)>>, <<Hypo(2, WithNul(Name), 101)>>}

MCDrafts ==
    Variants([kind |-> "registration", email |-> Mail, name |-> Name, team_name |-> Name,
              password |-> T(12, 12, 0)],
             [email |-> Emails, name |-> Bounded(200), team_name |-> Bounded(200),
              password |-> Passwords])
    \cup Variants([kind |-> "team", name |-> Name], [name |-> Bounded(200)])
    \cup Variants([kind |-> "user", email |-> Mail, name |-> Name, password_hash |-> Name,
                   team_id |-> "some"],
                  [email |-> Emails, name |-> Bounded(200), password_hash |-> Free, team_id |-> Ids])
    \cup Variants([kind |-> "integration", provider |-> "known", webhook_secret |-> T(16, 16, 0),
                   team_id |-> "some"],
                  [provider |-> Enums, webhook_secret |-> Secrets, team_id |-> Ids])
    \cup Variants([kind |-> "incident", title |-> Name, severity |-> "known", status |-> "known",
                   source |-> "known", team_id |-> "some", started_at |-> 2, resolved_at |-> None,
                   external_id |-> None],
                  [title |-> Bounded(500), severity |-> Enums, status |-> Enums, source |-> Enums,
                   team_id |-> Ids, started_at |-> {0, 1}, resolved_at |-> {0, 1, 2},
                   external_id |-> Free])
    \cup Variants([kind |-> "event", event_type |-> Name, title |-> Name, source |-> "known",
                   classification |-> "known", incident_id |-> "some", occurred_at |-> 1,
                   causal_rank |-> None],
                  [event_type |-> Bounded(100), title |-> Bounded(500), source |-> Enums,
                   classification |-> Enums, incident_id |-> Ids, occurred_at |-> {0},
                   causal_rank |-> Ints])
    \cup Variants([kind |-> "analysis", predicted_root_cause |-> Name, model |-> Name,
                   prompt_version |-> Name, incident_id |-> "some", confidence |-> 50,
                   hypotheses |-> <<Hypo(1, Name, 50)>>],
                  [predicted_root_cause |-> Free, model |-> Free, prompt_version |-> Free,
                   incident_id |-> Ids, confidence |-> Ratios, hypotheses |-> HypothesisLists])
    \cup Variants(Hypo(1, Name, 50),
                  [rank |-> {0, 3, 4}, cause |-> Free, confidence |-> Ratios,
                   evidence_event_ids |-> Ids])
    \cup Variants([kind |-> "postmortem", incident_id |-> "some", executive_summary |-> Name,
                   root_cause |-> Blank, impact |-> Blank, action_items |-> "described"],
                  [incident_id |-> Ids, executive_summary |-> Free, root_cause |-> Free,
                   impact |-> Free, action_items |-> {"described", "undescribed"}])
    \cup Variants([kind |-> "scenario", name |-> Name, category |-> Name, root_cause |-> Name,
                   target |-> Name, fault |-> "known"],
                  [name |-> Bounded(200), category |-> Bounded(100), root_cause |-> Free,
                   target |-> Free, fault |-> Enums])
    \cup Variants([kind |-> "run", status |-> "known", scenario_id |-> "some", team_id |-> "some",
                   started_at |-> None, completed_at |-> None],
                  [status |-> Enums, scenario_id |-> Ids, team_id |-> Ids,
                   started_at |-> {1, 2}, completed_at |-> {1, 2}])
    \cup Variants([kind |-> "evaluation", simulation_run_id |-> "some", root_cause_rank |-> None,
                   diagnosis_latency_ms |-> 1, causal_precision |-> None, causal_recall |-> None,
                   noise_accuracy |-> None],
                  [simulation_run_id |-> Ids, root_cause_rank |-> Ints,
                   diagnosis_latency_ms |-> Ints, causal_precision |-> Ratios,
                   causal_recall |-> Ratios, noise_accuracy |-> Ratios])
===============================================================================
