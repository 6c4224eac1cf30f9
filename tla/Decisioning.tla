----------------------------- MODULE Decisioning -----------------------------
(***************************************************************************)
(* How one transaction is decided, as operators: the rules that hit, the   *)
(* combination of the model's probability with the weight of the hits, and *)
(* the sweep by which a training chooses the two thresholds.               *)
(*                                                                         *)
(* Units: a probability and a threshold are counted in percent, a score    *)
(* and a weight in 1/10000, so that 0.78 * p is 78 * p and nothing rounds. *)
(***************************************************************************)
EXTENDS Integers, FiniteSetsExt

Decisions == {"APPROVE", "REVIEW", "BLOCK"}
Rank(decision) == CASE decision = "APPROVE" -> 0 [] decision = "REVIEW" -> 1
                    [] decision = "BLOCK" -> 2
-------------------------------------------------------------------------------
(* The rules, as configured in default_rules.yml.                          *)

Severity == [impossible_travel |-> "critical", very_high_velocity |-> "high",
             repeated_small_amount_card_testing |-> "high",
             high_amount_on_new_device |-> "high", blacklist_hit |-> "critical",
             risky_geo_combo |-> "medium"]
ScoreDelta == [impossible_travel |-> 3200, very_high_velocity |-> 2000,
               repeated_small_amount_card_testing |-> 2400,
               high_amount_on_new_device |-> 2200, blacklist_hit |-> 2800,
               risky_geo_combo |-> 1400]
Rules == DOMAIN Severity

\* An observation has the amount of an event and the features the rules look at.
Matches(r, o) ==
  \/ r = "impossible_travel" /\ o.distance >= 500 /\ o.pause <= 3600
  \/ r = "very_high_velocity" /\ o.count >= 5
  \/ r = "repeated_small_amount_card_testing" /\ o.count >= 4 /\ o.amount <= 15
  \/ r = "high_amount_on_new_device" /\ o.newDevice /\ o.amount >= 1500
  \/ r = "blacklist_hit" /\ o.highRisk
  \/ r = "risky_geo_combo" /\ o.mismatch /\ o.night

Evaluate(o) == {r \in Rules : Matches(r, o)}
Severities(hits) == {Severity[r] : r \in hits}
-------------------------------------------------------------------------------
(* combine_model_and_rules.                                                *)

SeverityWeight == [low |-> 400, medium |-> 800, high |-> 1400, critical |-> 2200]

RuleWeight(hits) ==
  MapThenSumSet(LAMBDA r : SeverityWeight[Severity[r]] + ScoreDelta[r] \div 4, hits)

AtMost(bound, x) == IF x <= bound THEN x ELSE bound

FinalScore(p, weight) == AtMost(10000, 78 * p + AtMost(3500, weight))

\* Variant: the hits of high severity are looked at first.
CombineHighFirst(p, weight, severities, t) ==
  LET score == FinalScore(p, weight) IN
  CASE "high" \in severities -> "REVIEW"
    [] "high" \notin severities /\ ("critical" \in severities \/ score >= 100 * t.block) -> "BLOCK"
    [] OTHER -> IF score >= 100 * t.review THEN "REVIEW" ELSE "APPROVE"

Combine(p, weight, severities, t) ==
  LET score == FinalScore(p, weight)
      blocks == "critical" \in severities \/ score >= 100 * t.block
      reviews == "high" \in severities \/ score >= 100 * t.review
  IN  IF blocks THEN "BLOCK" ELSE IF reviews THEN "REVIEW" ELSE "APPROVE"

Decide(p, hits, t) == Combine(p, RuleWeight(hits), Severities(hits), t)
-------------------------------------------------------------------------------
(* _threshold_sweep over a sample: a set of rows with the model's          *)
(* probability p and the label fraud.                                      *)

Grid == {5 * k : k \in 2..19}

\* The counts of a threshold: flagged and fraud, flagged, fraud.
Caught(sample, t) == Cardinality({x \in sample : x.p >= t /\ x.fraud})
Flagged(sample, t) == Cardinality({x \in sample : x.p >= t})
Frauds(sample) == Cardinality({x \in sample : x.fraud})

Larger(x, y) == IF x >= y THEN x ELSE y

\* Two fractions hits / total are compared crosswise; zero_division gives 0.
PrecisionAtLeast(sample, t, u) ==
  Caught(sample, t) * Larger(1, Flagged(sample, u)) >= Caught(sample, u) * Larger(1, Flagged(sample, t))
F1AtLeast(sample, t, u) ==
  Caught(sample, t) * (Flagged(sample, u) + Frauds(sample))
    >= Caught(sample, u) * (Flagged(sample, t) + Frauds(sample))

\* max() keeps the first of equals, rows[-1] is the last.
BestF1(sample) == Min({t \in Grid : \A u \in Grid : F1AtLeast(sample, t, u)})
BestPrecision(sample) ==
  LET precise == {t \in Grid : 100 * Caught(sample, t) >= Larger(1, 85 * Flagged(sample, t))}
  IN  IF precise # {} THEN Max(precise)
      ELSE Min({t \in Grid : \A u \in Grid : PrecisionAtLeast(sample, t, u)})

\* Variant: the precise threshold is taken as it is.
SweepPrecise(sample) == [review |-> BestF1(sample), block |-> BestPrecision(sample)]

Sweep(sample) ==
  [review |-> BestF1(sample),
   block |-> AtMost(99, Larger(BestF1(sample) + 10, BestPrecision(sample)))]
===============================================================================
