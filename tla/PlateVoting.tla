------------------------------ MODULE PlateVoting ------------------------------
(***************************************************************************)
(* How CameraSensor makes one plate of many OCR readings.  A plate is a    *)
(* sequence of characters, a confidence a number of hundredths.  Sets of   *)
(* positions of the list of observations stand for the code's sub-lists.   *)
(***************************************************************************)
EXTENDS Integers, SequencesExt

CONSTANTS
  Letters, Digits,          \* the characters a plate is made of
  MinPlateLength,           \* min_plate_length
  ConfidenceThreshold,      \* confidence_threshold
  RequiredConfirmations,    \* required_ocr_confirmations
  RequiredRepeats,          \* required_exact_repeats
  MaxObservations           \* max_observations

ASSUME VotingAssumption ==
  /\ Letters \cap Digits = {}
  /\ {MinPlateLength, ConfidenceThreshold, RequiredConfirmations, RequiredRepeats,
      MaxObservations} \subseteq Nat
  /\ MinPlateLength > 0

NoPlate == <<>>

Usable(observation) ==
  /\ Len(observation.plate) >= MinPlateLength
  /\ observation.confidence >= ConfidenceThreshold

(* [A-Z]{1,4}[0-9]{2,5}, the whole plate *)
MatchesPlatePattern(plate) ==
  \E n \in 1 .. 4 :
    /\ Len(plate) - n \in 2 .. 5
    /\ \A i \in 1 .. n : plate[i] \in Letters
    /\ \A i \in n + 1 .. Len(plate) : plate[i] \in Digits

ShapeScore(plate) ==
  LET points(holds, n) == IF holds THEN n ELSE 0
      chars == ToSet(plate)
  IN  points(MatchesPlatePattern(plate), 300)
      + points(chars \cap Letters # {} /\ chars \cap Digits # {}, 100)
      + points(Len(plate) \in 5 .. 8, 100)

(* Where plate was observed, and the confidence of some observations.      *)
Observed(plate, obs) == {i \in DOMAIN obs : obs[i].plate = plate}

TotalConfidence(I, obs) ==
  LET sum[n \in 0 .. Len(obs)] ==
        IF n = 0 THEN 0
        ELSE sum[n - 1] + (IF n \in I THEN obs[n].confidence ELSE 0)
  IN  sum[Len(obs)]

(* Mutant: only the most confident observation of a plate counts. *)
AggregateScoreOfBest(plate, obs) ==
  Max({obs[i].confidence : i \in Observed(plate, obs)}) * Len(plate) + ShapeScore(plate)

AggregateScore(plate, obs) ==
  TotalConfidence(Observed(plate, obs), obs) * Len(plate)
  + Cardinality(Observed(plate, obs)) * (ShapeScore(plate) + 200)

(* Python's max over the positions that rank is given for: of several best *)
(* ones the first.                                                         *)
FirstBest(rank) ==
  CHOOSE i \in DOMAIN rank :
    \A j \in DOMAIN rank : rank[i] >= rank[j] /\ (rank[i] = rank[j] => i <= j)

BestObservedPlate(obs) ==
  IF obs = <<>>
  THEN NoPlate
  ELSE obs[FirstBest([i \in DOMAIN obs |-> AggregateScore(obs[i].plate, obs)])].plate

--------------------------------------------------------------------------------
PlatesCompatible(first, second) ==
  /\ Len(first) = Len(second)
  /\ Cardinality({i \in DOMAIN first : first[i] # second[i]}) <= 1

Cluster(plate, obs) == {i \in DOMAIN obs : PlatesCompatible(plate, obs[i].plate)}

(* Mutant: the confidence decides, not the number of votes. *)
VotesByConfidence(I, obs) == TotalConfidence(I, obs)

(* Pairs (number, confidence) in lexicographic order: a confidence is at   *)
(* most 100.                                                               *)
Votes(I, obs) == Cardinality(I) * (100 * Len(obs) + 1) + TotalConfidence(I, obs)

BestCluster(obs) ==
  IF obs = <<>>
  THEN {}
  ELSE LET center == FirstBest([i \in DOMAIN obs |-> Votes(Cluster(obs[i].plate, obs), obs)])
       IN  Cluster(obs[center].plate, obs)

(* Every position is voted on by itself. *)
MergePlateCluster(I, obs) ==
  LET supporters(i, k) == {j \in I : obs[j].plate[k] = obs[i].plate[k]}
      elected(k)       == FirstBest([i \in I |-> Votes(supporters(i, k), obs)])
  IN  [k \in DOMAIN obs[Min(I)].plate |-> obs[elected(k)].plate[k]]

RecentObservations(obs) ==
  IF MaxObservations < 1 \/ Len(obs) <= MaxObservations
  THEN obs
  ELSE SubSeq(obs, Len(obs) - MaxObservations + 1, Len(obs))

ConfirmedLicensePlate(observations) ==
  LET obs     == RecentObservations(observations)
      cluster == BestCluster(obs)
      merged  == MergePlateCluster(cluster, obs)
  IN  IF RequiredConfirmations <= 1 THEN BestObservedPlate(obs)
      ELSE IF /\ Cardinality(cluster) >= RequiredConfirmations
              /\ Cardinality(cluster \cap Observed(merged, obs)) >= RequiredRepeats
      THEN merged
      ELSE NoPlate

--------------------------------------------------------------------------------
(* Nothing beats the chosen plate in votes and in confidence, if it has    *)
(* the same length and shape.                                              *)
ChosenIsUnbeaten(obs) ==
  LET chosen == BestObservedPlate(obs)
      mine   == Observed(chosen, obs)
  IN  /\ obs # <<>> => mine # {}
      /\ \A plate \in {obs[i].plate : i \in DOMAIN obs} :
           Len(plate) = Len(chosen) /\ ShapeScore(plate) = ShapeScore(chosen) =>
             \/ Cardinality(mine) >= Cardinality(Observed(plate, obs))
             \/ TotalConfidence(mine, obs) > TotalConfidence(Observed(plate, obs), obs)

(* What more than half of the recent observations say is confirmed,        *)
(* however the noise around it is spread.                                  *)
MajorityIsConfirmed(observations) ==
  LET obs == RecentObservations(observations) IN
  \A i \in DOMAIN obs :
    LET votes == Cardinality(Observed(obs[i].plate, obs)) IN
    2 * votes > Len(obs) /\ votes >= RequiredConfirmations /\ votes >= RequiredRepeats =>
      RequiredConfirmations <= 1 \/ ConfirmedLicensePlate(observations) = obs[i].plate

================================================================================
