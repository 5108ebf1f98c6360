------------------------------ MODULE Evaluation -------------------------------
(***************************************************************************)
(* The gate of the evaluation, which compares a retrieval run with the       *)
(* committed baseline.                                                       *)
(***************************************************************************)
EXTENDS Integers, FiniteSets

CONSTANTS Grades,       \* scores, in hundredths
          Stratum,      \* strata of the query set
          Setups,       \* embedder and reranker of a run
          OverallDelta, Delta, Margin   \* the gate's tolerances, and the thesis' margin

ASSUME EvaluationAssumption ==
  Grades \subseteq Nat /\ 0 \in Grades /\ Setups # {} /\ OverallDelta \in Nat /\ Delta \in Nat

NoScore == -1           \* no graded query

VARIABLE report         \* a run: [setup, overall, per, temporal, refusal]
evaluationVars == <<report>>

Reports == [setup : Setups, overall : Grades \union {NoScore}, per : [Stratum -> Grades \union {NoScore}],
            temporal : Grades, refusal : Grades]
EvaluationInit == report \in Reports

-----------------------------------------------------------------------------
\* eval/gates.rs.

FromReport(r) == [setup |-> r.setup, overall |-> r.overall, per |-> [s \in {t \in Stratum : r.per[t] # NoScore} |-> r.per[s]],
                  temporal |-> r.temporal, refusal |-> r.refusal]
RegressionFailures(r, baseline) ==
  IF r.setup # baseline.setup THEN {"setup"}
  ELSE {f \in {"overall", "temporal", "refusal", "thesis"} :
          CASE f = "overall" -> r.overall = NoScore \/ r.overall < baseline.overall - OverallDelta
            [] f = "temporal" -> r.temporal < baseline.temporal - Delta
            [] f = "refusal" -> r.refusal < baseline.refusal - Delta
            [] OTHER -> /\ r.per["cross_team_graph"] # NoScore /\ r.per["semantic"] # NoScore
                        /\ r.per["cross_team_graph"] < r.per["semantic"] + Margin}
       \union {s \in DOMAIN baseline.per : r.per[s] = NoScore \/ r.per[s] < baseline.per[s] - Delta}

-----------------------------------------------------------------------------
\* A run passes the gate its own numbers set, but for the thesis, and no run passes
\* that left out a stratum which the other has (gates.rs: "silent scope shrink is
\* how regressions hide").
GateIsSteady ==
  report.overall # NoScore =>
    /\ RegressionFailures(report, FromReport(report)) \subseteq {"thesis"}
    /\ \A s \in Stratum : report.per[s] # NoScore =>
         RegressionFailures([report EXCEPT !.per[s] = NoScore], FromReport(report)) # {}
=============================================================================
