----------------------------- MODULE RiskScore -----------------------------
(***************************************************************************)
(* The risk engine, and how a failing scan scores the finding of an asset. *)
(* Factors are whole numbers of 0..10 and weights whole percents, so a     *)
(* score is a whole number of tenths: scores are kept in tenths here, and  *)
(* Math.round(x * 10) / 10 has nothing left to round.                      *)
(***************************************************************************)
EXTENDS Integers

CONSTANTS
  Failures,     (* the ways a policy can fail                                *)
  RiskFactors,  (* the riskFactors its evaluator gives each failure          *)
  RawValues     (* what a scanner may report as sensitivity or criticality   *)

FactorNames == {"internetExposure", "privilegeLevel", "exploitability",
                "blastRadius", "assetSensitivity", "knownCves",
                "tenantCriticality", "complianceImpact", "credentialExposure"}

Factors   == [FactorNames -> 0..10]
AllScores == 0..1000

ASSUME RiskAssumption ==
  /\ RiskFactors \in [Failures -> Factors]
  /\ RawValues \subseteq Int

factorWeights ==
  [internetExposure |-> 20, privilegeLevel |-> 15, exploitability |-> 15,
   blastRadius |-> 10, assetSensitivity |-> 10, knownCves |-> 10,
   tenantCriticality |-> 10, complianceImpact |-> 5, credentialExposure |-> 5]

Larger(a, b)  == IF a < b THEN b ELSE a
Smaller(a, b) == IF a < b THEN a ELSE b

normalizeFactor(v) == Smaller(Larger(v, 0), 10)

normalizeRiskScoreFactors(input) ==
  [f \in FactorNames |-> normalizeFactor(input[f])]

(* One factor at v contributes (v / 10) * weight, which is v * weight tenths.*)
Weighted(fs) ==
  LET w == factorWeights
  IN   fs.internetExposure * w.internetExposure
     + fs.privilegeLevel * w.privilegeLevel
     + fs.exploitability * w.exploitability
     + fs.blastRadius * w.blastRadius
     + fs.assetSensitivity * w.assetSensitivity
     + fs.knownCves * w.knownCves
     + fs.tenantCriticality * w.tenantCriticality
     + fs.complianceImpact * w.complianceImpact
     + fs.credentialExposure * w.credentialExposure

(* Mutant of calculateScore: the clamp of the sum wraps at 60 points.        *)
calculateScoreWrapping(input) == Weighted(normalizeRiskScoreFactors(input)) % 600

calculateScore(input) ==
  Smaller(Larger(Weighted(normalizeRiskScoreFactors(input)), 0), 1000)

(* severityScoreBands: both ends are inclusive and whole.                    *)
severityScoreBands ==
  {[severity |-> "CRITICAL",      min |-> 900, max |-> 1000],
   [severity |-> "HIGH",          min |-> 700, max |-> 890],
   [severity |-> "MEDIUM",        min |-> 400, max |-> 690],
   [severity |-> "LOW",           min |-> 100, max |-> 390],
   [severity |-> "INFORMATIONAL", min |-> 0,   max |-> 90]}

InBand(score, b) == b.min <= score /\ score <= b.max

(* Mutant of severityForScore: no default for a score in no band.            *)
severityOfBand(score) ==
  LET hits == {b \in severityScoreBands : InBand(score, b)}
  IN IF hits = {} THEN "undefined" ELSE (CHOOSE b \in hits : TRUE).severity

(* The bands are disjoint, so find has at most one to return.                *)
severityForScore(score) ==
  LET hits == {b \in severityScoreBands : InBand(score, b)}
  IN IF hits = {} THEN "INFORMATIONAL" ELSE (CHOOSE b \in hits : TRUE).severity

-----------------------------------------------------------------------------
(* boundedInteger, applied when the asset is upserted.                       *)
boundedInteger(v) == Smaller(Larger(v, 0), 10)

(* persistPolicyEvaluation: the asset raises two of the policy's factors.    *)
FindingFactors(key, s, c) ==
  LET asked == RiskFactors[key]
  IN [asked EXCEPT
        !.assetSensitivity  = Larger(asked.assetSensitivity, boundedInteger(s)),
        !.tenantCriticality = Larger(asked.tenantCriticality, boundedInteger(c))]

-----------------------------------------------------------------------------
VARIABLES
  policy,       (* the failing policy                                        *)
  sensitivity,  (* what the scanner reported of the asset, unbounded         *)
  criticality,
  score,        (* Finding.score, in tenths                                  *)
  severity      (* Finding.severity                                          *)

vars == <<policy, sensitivity, criticality, score, severity>>

Init ==
  /\ policy \in Failures
  /\ sensitivity \in RawValues
  /\ criticality \in RawValues
  /\ score = calculateScore(FindingFactors(policy, sensitivity, criticality))
  /\ severity = severityForScore(score)

(* The policy fails again, on an asset the scan reports with s and c.        *)
Rescan(s, c) ==
  /\ sensitivity' = s
  /\ criticality' = c
  /\ score' = calculateScore(FindingFactors(policy, s, c))
  /\ severity' = severityForScore(score')
  /\ UNCHANGED policy

Next == \E s, c \in RawValues : Rescan(s, c)

Spec == Init /\ [][Next]_vars

-----------------------------------------------------------------------------
Severities == {"CRITICAL", "HIGH", "MEDIUM", "LOW", "INFORMATIONAL"}

TypeOK ==
  /\ score \in AllScores
  /\ severity \in Severities

(* An asset reported as more sensitive and more critical never gets a lower  *)
(* score for the same failure, whatever the scanner reports.                 *)
ScoreFollowsAsset ==
  [][sensitivity <= sensitivity' /\ criticality <= criticality'
     => score <= score']_vars

(* The score never falls below what the policy alone asks for: the asset can *)
(* only raise it (the two Math.max of persistPolicyEvaluation).              *)
PolicyIsFloor == score >= Weighted(RiskFactors[policy])

(* The documented mapping: only a score of 0 to 9 is informational           *)
(* (docs/risk-scoring.md).                                                   *)
InformationalBelowTen == severity = "INFORMATIONAL" => score < 100

(* How far the code is from that mapping: a severity is that of the score's  *)
(* band, but the scores between the whole ends of two bands, which only      *)
(* tenths reach, are informational (severityForScore).                       *)
BandedUnlessBetween ==
  \/ \E b \in severityScoreBands : b.severity = severity /\ InBand(score, b)
  \/ /\ severity = "INFORMATIONAL"
     /\ \E end \in {90, 390, 690, 890} : end < score /\ score < end + 10

=============================================================================
