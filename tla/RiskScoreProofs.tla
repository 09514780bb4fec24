-------------------------- MODULE RiskScoreProofs ---------------------------
(***************************************************************************)
(* Proofs about the risk engine: every score is on the scale, the policy's *)
(* own factors are a floor, and a score follows what the scanner reports,  *)
(* for every set of integers a scanner may report.                         *)
(***************************************************************************)
EXTENDS RiskScore, TLAPS

(* Clamping brings any integer onto the scale of a factor, and keeps order.  *)
LEMMA Clamp ==
  /\ \A v \in Int : normalizeFactor(v) \in 0..10
  /\ \A v \in 0..10 : normalizeFactor(v) = v
  /\ \A v \in Int : boundedInteger(v) \in 0..10
  /\ \A v, w \in Int : v <= w => boundedInteger(v) <= boundedInteger(w)
BY DEF normalizeFactor, boundedInteger, Smaller, Larger

LEMMA LargerOnScale ==
  ASSUME NEW a \in 0..10, NEW b \in 0..10
  PROVE  Larger(a, b) \in 0..10 /\ a <= Larger(a, b)
BY DEF Larger

(* The sum and the values of the factors, factor by factor.                  *)
LEMMA WeightedIs ==
  ASSUME NEW fs \in Factors
  PROVE  /\ Weighted(fs) =
                fs["internetExposure"] * 20
                + fs["privilegeLevel"] * 15
                + fs["exploitability"] * 15
                + fs["blastRadius"] * 10
                + fs["assetSensitivity"] * 10
                + fs["knownCves"] * 10
                + fs["tenantCriticality"] * 10
                + fs["complianceImpact"] * 5
                + fs["credentialExposure"] * 5
         /\ fs["internetExposure"] \in 0..10
         /\ fs["privilegeLevel"] \in 0..10
         /\ fs["exploitability"] \in 0..10
         /\ fs["blastRadius"] \in 0..10
         /\ fs["assetSensitivity"] \in 0..10
         /\ fs["knownCves"] \in 0..10
         /\ fs["tenantCriticality"] \in 0..10
         /\ fs["complianceImpact"] \in 0..10
         /\ fs["credentialExposure"] \in 0..10
BY DEF Weighted, factorWeights, Factors, FactorNames

(* A higher value of every factor never gives a lower sum, and the weights   *)
(* sum to 100.                                                               *)
LEMMA WeightedOrdered ==
  ASSUME NEW fs \in Factors, NEW gs \in Factors,
         \A f \in FactorNames : fs[f] <= gs[f]
  PROVE  Weighted(fs) <= Weighted(gs)
<1> DEFINE x1 == fs["internetExposure"]
           x2 == fs["privilegeLevel"]
           x3 == fs["exploitability"]
           x4 == fs["blastRadius"]
           x5 == fs["assetSensitivity"]
           x6 == fs["knownCves"]
           x7 == fs["tenantCriticality"]
           x8 == fs["complianceImpact"]
           x9 == fs["credentialExposure"]
<1> DEFINE y1 == gs["internetExposure"]
           y2 == gs["privilegeLevel"]
           y3 == gs["exploitability"]
           y4 == gs["blastRadius"]
           y5 == gs["assetSensitivity"]
           y6 == gs["knownCves"]
           y7 == gs["tenantCriticality"]
           y8 == gs["complianceImpact"]
           y9 == gs["credentialExposure"]
<1>1. /\ Weighted(fs) = x1 * 20 + x2 * 15 + x3 * 15 + x4 * 10
          + x5 * 10 + x6 * 10 + x7 * 10 + x8 * 5 + x9 * 5
      /\ x1 \in 0..10
      /\ x2 \in 0..10
      /\ x3 \in 0..10
      /\ x4 \in 0..10
      /\ x5 \in 0..10
      /\ x6 \in 0..10
      /\ x7 \in 0..10
      /\ x8 \in 0..10
      /\ x9 \in 0..10
  BY WeightedIs
<1>2. /\ Weighted(gs) = y1 * 20 + y2 * 15 + y3 * 15 + y4 * 10
          + y5 * 10 + y6 * 10 + y7 * 10 + y8 * 5 + y9 * 5
      /\ y1 \in 0..10
      /\ y2 \in 0..10
      /\ y3 \in 0..10
      /\ y4 \in 0..10
      /\ y5 \in 0..10
      /\ y6 \in 0..10
      /\ y7 \in 0..10
      /\ y8 \in 0..10
      /\ y9 \in 0..10
  BY WeightedIs
<1>3. /\ x1 <= y1
      /\ x2 <= y2
      /\ x3 <= y3
      /\ x4 <= y4
      /\ x5 <= y5
      /\ x6 <= y6
      /\ x7 <= y7
      /\ x8 <= y8
      /\ x9 <= y9
  BY DEF FactorNames
<1> HIDE DEF x1, x2, x3, x4, x5, x6, x7, x8, x9,
           y1, y2, y3, y4, y5, y6, y7, y8, y9
<1> QED
  BY <1>1, <1>2, <1>3

LEMMA WeightedOnScale ==
  ASSUME NEW fs \in Factors
  PROVE  Weighted(fs) \in AllScores
<1> DEFINE x1 == fs["internetExposure"]
           x2 == fs["privilegeLevel"]
           x3 == fs["exploitability"]
           x4 == fs["blastRadius"]
           x5 == fs["assetSensitivity"]
           x6 == fs["knownCves"]
           x7 == fs["tenantCriticality"]
           x8 == fs["complianceImpact"]
           x9 == fs["credentialExposure"]
<1>1. /\ Weighted(fs) = x1 * 20 + x2 * 15 + x3 * 15 + x4 * 10
          + x5 * 10 + x6 * 10 + x7 * 10 + x8 * 5 + x9 * 5
      /\ x1 \in 0..10
      /\ x2 \in 0..10
      /\ x3 \in 0..10
      /\ x4 \in 0..10
      /\ x5 \in 0..10
      /\ x6 \in 0..10
      /\ x7 \in 0..10
      /\ x8 \in 0..10
      /\ x9 \in 0..10
  BY WeightedIs
<1> HIDE DEF x1, x2, x3, x4, x5, x6, x7, x8, x9
<1> QED
  BY <1>1 DEF AllScores

(* On factors already on the scale the engine is the weighted sum: neither   *)
(* clamp of normalizeFactor or calculateScore changes anything.              *)
LEMMA ScoreIsSum ==
  ASSUME NEW fs \in Factors
  PROVE  calculateScore(fs) = Weighted(fs)
<1>1. normalizeRiskScoreFactors(fs) = fs
  BY Clamp DEF normalizeRiskScoreFactors, Factors
<1>2. Weighted(fs) \in AllScores
  BY WeightedOnScale
<1> QED
  BY <1>1, <1>2 DEF calculateScore, AllScores, Smaller, Larger

(* One raised factor keeps the others and stays on the scale.                *)
LEMMA RaisedType ==
  ASSUME NEW fs \in Factors, NEW name \in FactorNames, NEW v \in 0..10,
         fs[name] <= v
  PROVE  /\ [fs EXCEPT ![name] = v] \in Factors
         /\ \A f \in FactorNames : fs[f] <= [fs EXCEPT ![name] = v][f]
<1>1. \A f \in FactorNames : fs[f] \in 0..10
  BY DEF Factors
<1> QED
  BY <1>1 DEF Factors

(* The asset only raises factors of the policy.                              *)
LEMMA FindingFactorsType ==
  ASSUME NEW key \in Failures, NEW s \in Int, NEW c \in Int
  PROVE  /\ FindingFactors(key, s, c) \in Factors
         /\ \A f \in FactorNames :
              RiskFactors[key][f] <= FindingFactors(key, s, c)[f]
<1> DEFINE asked == RiskFactors[key]
           as    == Larger(asked["assetSensitivity"], boundedInteger(s))
           tc    == Larger(asked["tenantCriticality"], boundedInteger(c))
           one   == [asked EXCEPT !["assetSensitivity"] = as]
           two   == [one EXCEPT !["tenantCriticality"] = tc]
<1>1. asked \in Factors
  BY RiskAssumption
<1>2. FindingFactors(key, s, c) = two
  BY DEF FindingFactors
<1>3. /\ "assetSensitivity" \in FactorNames
      /\ "tenantCriticality" \in FactorNames
  BY DEF FactorNames
<1>4. /\ boundedInteger(s) \in 0..10
      /\ boundedInteger(c) \in 0..10
  BY Clamp
<1>5. \A f \in FactorNames : asked[f] \in 0..10
  BY <1>1 DEF Factors
<1>6. /\ as \in 0..10 /\ asked["assetSensitivity"] <= as
      /\ tc \in 0..10 /\ asked["tenantCriticality"] <= tc
  BY <1>3, <1>4, <1>5, LargerOnScale
<1>7. one["tenantCriticality"] = asked["tenantCriticality"]
  BY <1>1, <1>3 DEF Factors
<1> HIDE DEF asked, as, tc
<1>8. /\ one \in Factors
      /\ \A f \in FactorNames : asked[f] <= one[f]
  BY <1>1, <1>3, <1>6, RaisedType
<1>9. one["tenantCriticality"] <= tc
  BY <1>6, <1>7
<1> HIDE DEF one
<1>10. /\ two \in Factors
       /\ \A f \in FactorNames : one[f] <= two[f]
  BY <1>3, <1>6, <1>8, <1>9, RaisedType
<1>11. \A f \in FactorNames : asked[f] \in Int /\ one[f] \in Int /\ two[f] \in Int
  BY <1>1, <1>8, <1>10 DEF Factors
<1>12. \A f \in FactorNames : asked[f] <= two[f]
  BY <1>8, <1>10, <1>11
<1> QED
  BY <1>2, <1>10, <1>12 DEF asked

(* Reports in order raise the factors in order.                              *)
LEMMA FindingFactorsOrdered ==
  ASSUME NEW key \in Failures,
         NEW s1 \in Int, NEW s2 \in Int, s1 <= s2,
         NEW c1 \in Int, NEW c2 \in Int, c1 <= c2
  PROVE  \A f \in FactorNames :
           FindingFactors(key, s1, c1)[f] <= FindingFactors(key, s2, c2)[f]
<1> DEFINE asked == RiskFactors[key]
<1>1. asked \in Factors
  BY RiskAssumption
<1>2. \A f \in FactorNames : asked[f] \in 0..10
  BY <1>1 DEF Factors
<1>3. /\ boundedInteger(s1) <= boundedInteger(s2)
      /\ boundedInteger(c1) <= boundedInteger(c2)
      /\ boundedInteger(s1) \in 0..10 /\ boundedInteger(s2) \in 0..10
      /\ boundedInteger(c1) \in 0..10 /\ boundedInteger(c2) \in 0..10
  BY Clamp
<1>4. \A a, b, d \in 0..10 : b <= d => Larger(a, b) <= Larger(a, d)
  BY DEF Larger
<1>5. /\ "assetSensitivity" \in FactorNames
      /\ "tenantCriticality" \in FactorNames
  BY DEF FactorNames
<1>6. /\ Larger(asked["assetSensitivity"], boundedInteger(s1))
           <= Larger(asked["assetSensitivity"], boundedInteger(s2))
      /\ Larger(asked["tenantCriticality"], boundedInteger(c1))
           <= Larger(asked["tenantCriticality"], boundedInteger(c2))
  BY <1>2, <1>3, <1>4, <1>5
<1>7. ASSUME NEW f \in FactorNames, NEW s \in Int, NEW c \in Int
      PROVE  FindingFactors(key, s, c)[f] =
               CASE f = "assetSensitivity" ->
                      Larger(asked["assetSensitivity"], boundedInteger(s))
                 [] f = "tenantCriticality" ->
                      Larger(asked["tenantCriticality"], boundedInteger(c))
                 [] OTHER -> asked[f]
  BY <1>1 DEF FindingFactors, Factors
<1> HIDE DEF asked
<1>8. ASSUME NEW f \in FactorNames
      PROVE  FindingFactors(key, s1, c1)[f] <= FindingFactors(key, s2, c2)[f]
  <2>1. CASE f = "assetSensitivity"
    BY <1>6, <1>7, <2>1
  <2>2. CASE f = "tenantCriticality"
    BY <1>6, <1>7, <2>2
  <2>3. CASE f # "assetSensitivity" /\ f # "tenantCriticality"
    BY <1>2, <1>7, <2>3
  <2> QED
    BY <2>1, <2>2, <2>3
<1> QED
  BY <1>8

-----------------------------------------------------------------------------
(* What every reachable state satisfies: the score is the one of the reports.*)
Scored ==
  /\ policy \in Failures
  /\ sensitivity \in Int
  /\ criticality \in Int
  /\ score = calculateScore(FindingFactors(policy, sensitivity, criticality))

LEMMA AlwaysScored == Spec => []Scored
<1>1. Init => Scored
  BY RiskAssumption DEF Init, Scored
<1>2. Scored /\ [Next]_vars => Scored'
  BY RiskAssumption DEF Scored, Next, Rescan, vars
<1> QED
  BY <1>1, <1>2, PTL DEF Spec

(* Every finding has a score on the scale and a severity of the scale, also  *)
(* when its score lies in no band.                                           *)
THEOREM ScoreTypeCorrect == Spec => []TypeOK
<1>1. Init => severity = severityForScore(score)
  BY DEF Init
<1>2. severity = severityForScore(score) /\ [Next]_vars
        => (severity = severityForScore(score))'
  BY DEF Next, Rescan, vars
<1>3. Scored /\ severity = severityForScore(score) => TypeOK
  <2> SUFFICES ASSUME Scored, severity = severityForScore(score) PROVE TypeOK
    OBVIOUS
  <2> DEFINE fs   == FindingFactors(policy, sensitivity, criticality)
             hits == {b \in severityScoreBands : InBand(score, b)}
  <2>1. fs \in Factors
    BY FindingFactorsType DEF Scored
  <2>2. score \in AllScores
    <3> HIDE DEF fs
    <3> QED
      BY <2>1, ScoreIsSum, WeightedOnScale DEF Scored, fs
  <2>3. \A b \in severityScoreBands : b.severity \in Severities
    BY DEF severityScoreBands, Severities
  <2>4. CASE hits = {}
    BY <2>2, <2>4 DEF severityForScore, TypeOK, Severities
  <2>5. CASE hits # {}
    <3>1. severity = (CHOOSE b \in hits : TRUE).severity
      BY <2>5 DEF severityForScore
    <3>2. (CHOOSE b \in hits : TRUE) \in severityScoreBands
      BY <2>5
    <3> QED
      BY <2>2, <2>3, <3>1, <3>2 DEF TypeOK
  <2> QED
    BY <2>4, <2>5
<1> QED
  BY <1>1, <1>2, <1>3, AlwaysScored, PTL DEF Spec

(* The bands miss nothing but the tenths between them: a finding has the     *)
(* severity of its score's band, or a score that lies between two bands and  *)
(* falls back to informational.                                              *)
THEOREM SeverityBands == Spec => []BandedUnlessBetween
<1>1. Init => severity = severityForScore(score)
  BY DEF Init
<1>2. severity = severityForScore(score) /\ [Next]_vars
        => (severity = severityForScore(score))'
  BY DEF Next, Rescan, vars
<1>3. TypeOK /\ severity = severityForScore(score) => BandedUnlessBetween
  <2> SUFFICES ASSUME TypeOK, severity = severityForScore(score) PROVE BandedUnlessBetween
    OBVIOUS
  <2> DEFINE hits == {b \in severityScoreBands : InBand(score, b)}
  <2>1. CASE hits # {}
    <3>1. severity = (CHOOSE b \in hits : TRUE).severity
      BY <2>1 DEF severityForScore
    <3>2. (CHOOSE b \in hits : TRUE) \in hits
      BY <2>1
    <3> QED
      BY <3>1, <3>2 DEF BandedUnlessBetween
  <2>2. CASE hits = {}
    <3>1. severity = "INFORMATIONAL"
      BY <2>2 DEF severityForScore
    <3>2. \A b \in severityScoreBands : ~InBand(score, b)
      BY <2>2
    <3>3. /\ ~(0 <= score /\ score <= 90)    /\ ~(100 <= score /\ score <= 390)
          /\ ~(400 <= score /\ score <= 690)  /\ ~(700 <= score /\ score <= 890)
          /\ ~(900 <= score /\ score <= 1000)
      BY <3>2 DEF severityScoreBands, InBand
    <3>4. score \in 0..1000
      BY DEF TypeOK, AllScores
    <3>5. \E end \in {90, 390, 690, 890} : end < score /\ score < end + 10
      BY <3>3, <3>4
    <3> QED
      BY <3>1, <3>5 DEF BandedUnlessBetween
  <2> QED
    BY <2>1, <2>2
<1> QED
  BY <1>1, <1>2, <1>3, ScoreTypeCorrect, PTL DEF Spec

(* For any table of policies and any integers a scanner reports, a finding's *)
(* score is on the scale and not below what its policy alone asks for.       *)
THEOREM PolicyFloor == Spec => []PolicyIsFloor
<1>1. Scored => PolicyIsFloor
  <2> SUFFICES ASSUME Scored PROVE PolicyIsFloor
    OBVIOUS
  <2> DEFINE fs == FindingFactors(policy, sensitivity, criticality)
  <2>1. /\ fs \in Factors
        /\ \A f \in FactorNames : RiskFactors[policy][f] <= fs[f]
    BY FindingFactorsType DEF Scored
  <2>2. RiskFactors[policy] \in Factors
    BY RiskAssumption DEF Scored
  <2>3. score = calculateScore(fs)
    BY DEF Scored
  <2> HIDE DEF fs
  <2>4. calculateScore(fs) = Weighted(fs)
    BY <2>1, ScoreIsSum
  <2>5. Weighted(RiskFactors[policy]) <= Weighted(fs)
    BY <2>1, <2>2, WeightedOrdered
  <2>6. Weighted(fs) \in AllScores /\ Weighted(RiskFactors[policy]) \in AllScores
    BY <2>1, <2>2, WeightedOnScale
  <2> QED
    BY <2>3, <2>4, <2>5, <2>6 DEF PolicyIsFloor, AllScores
<1> QED
  BY <1>1, AlwaysScored, PTL

(* A scan that reports the asset as no less sensitive and no less critical   *)
(* never lowers the score of the same failure.                               *)
THEOREM ScoreMonotone == Spec => ScoreFollowsAsset
<1>1. Scored /\ Scored' /\ [Next]_vars
        => [sensitivity <= sensitivity' /\ criticality <= criticality'
            => score <= score']_vars
  <2> SUFFICES ASSUME Scored, Scored', Next,
                      sensitivity <= sensitivity', criticality <= criticality'
               PROVE  score <= score'
    OBVIOUS
  <2> DEFINE fs == FindingFactors(policy, sensitivity, criticality)
             gs == FindingFactors(policy, sensitivity', criticality')
  <2>1. policy' = policy
    BY DEF Next, Rescan
  <2>2. fs \in Factors /\ gs \in Factors
    BY <2>1, FindingFactorsType DEF Scored
  <2>3. \A f \in FactorNames : fs[f] <= gs[f]
    BY <2>1, FindingFactorsOrdered DEF Scored
  <2>4. score = calculateScore(fs) /\ score' = calculateScore(gs)
    BY <2>1 DEF Scored
  <2> HIDE DEF fs, gs
  <2> QED
    BY <2>2, <2>3, <2>4, ScoreIsSum, WeightedOrdered
<1> QED
  BY <1>1, AlwaysScored, PTL DEF Spec, ScoreFollowsAsset

=============================================================================
