---------------------------- MODULE ClassifierIndex ----------------------------
(***************************************************************************)
(* The arithmetic of DataClassifier (src/data_analyzer/src/DataClassifier.h *)
(* with Algorithms::mean and Algorithms::variance from                     *)
(* src/libanalyze/src/Algorithms.h): regenerateMatrix after every labeled  *)
(* event, in the Standardize mode the classifier is always configured      *)
(* with, and the k-nearest-neighbour vote of classifyOneEvent.             *)
(*                                                                         *)
(* Feature vectors are tuples of small integers and every quantity is an   *)
(* exact rational [num |-> n, den |-> d] (d > 0, reduced).  The labeled    *)
(* set is a bag of (feature vector, label) entries: the normalization sums *)
(* over it and the k-d tree orders equally distant points arbitrarily, so  *)
(* the order of labeled_events is immaterial.  A label is a number, as     *)
(* EventMetaData::LabelType (double) is, and std::map visits the labels in *)
(* ascending order.                                                        *)
(***************************************************************************)
EXTENDS Integers, Sequences, FiniteSets, Bags
LOCAL INSTANCE SequencesExt
LOCAL INSTANCE FiniteSetsExt

CONSTANTS
  Dim,          \* feature_vector.size()
  Points,       \* the feature vectors labeled events may have
  Queries,      \* the feature vectors of events to classify
  Labels,       \* the label ids, numbers
  MaxLabeled,   \* bound on the labeled events
  NoResult      \* no classification yet

ASSUME /\ Dim \in Nat \ {0}
       /\ Points \subseteq [1..Dim -> Int] /\ Queries \subseteq [1..Dim -> Int]
       /\ Labels \subseteq Int
       /\ MaxLabeled \in Nat

VARIABLES
  labeled,   \* event_label_manager.labeled_events, a bag of entries
  norm,      \* normalization_mul_vector / _add_vector, as mean and deviation^2
  last       \* the result of the last classifyOneEvent

vars == <<labeled, norm, last>>

Entries == Points \X Labels
Dims == 1..Dim

(* const unsigned long k = 5 in classifyOneEvent.                         *)
K == 5

-----------------------------------------------------------------------------
(* Exact rationals.                                                       *)

RECURSIVE GCD(_, _)
GCD(a, b) == IF b = 0 THEN a ELSE GCD(b, a % b)

AbsVal(a) == IF a < 0 THEN -a ELSE a

Rat(n, d) ==
  LET g == GCD(AbsVal(n), AbsVal(d))
      s == IF d < 0 THEN -1 ELSE 1
  IN  [num |-> s * (n \div g), den |-> s * (d \div g)]

RInt(n) == Rat(n, 1)
RAdd(a, b) == Rat(a.num * b.den + b.num * a.den, a.den * b.den)
RSub(a, b) == Rat(a.num * b.den - b.num * a.den, a.den * b.den)
RMul(a, b) == Rat(a.num * b.num, a.den * b.den)
RDiv(a, b) == Rat(a.num * b.den, a.den * b.num)
RLess(a, b) == a.num * b.den < b.num * a.den
RSum(s) == FoldLeft(RAdd, RInt(0), s)

-----------------------------------------------------------------------------
(* Algorithms and the normalization vectors.                              *)

(* Sums over row i of the matrix generateMatrixFromLabeledEvents builds,  *)
(* one column per labeled event: of the values, and of their squared       *)
(* distances to m.                                                        *)
RowSum(B, i) ==
  FoldSet(LAMBDA e, acc : RAdd(RInt(B[e] * e[1][i]), acc), RInt(0), BagToSet(B))

RowSquareSum(B, i, m) ==
  FoldSet(LAMBDA e, acc : RAdd(RMul(RInt(B[e]), RMul(RSub(RInt(e[1][i]), m),
                                                     RSub(RInt(e[1][i]), m))), acc),
          RInt(0), BagToSet(B))

(* Algorithms::mean over row i: std::accumulate divided by the count.     *)
Mean(B, i) == RDiv(RowSum(B, i), RInt(BagCardinality(B)))

(* Algorithms::variance over row i: the sum of the squared deviations     *)
(* from the mean, not divided by the element count.                       *)
Variance(B, i) == RowSquareSum(B, i, Mean(B, i))

(* min_deviation = 0.001, squared.                                        *)
MinDeviation2 == Rat(1, 1000000)

(* Mutant of Deviation2: std::sqrt is left out, the variance itself is    *)
(* the deviation.                                                         *)
Deviation2NoSqrt(v) ==
  LET d2 == RMul(v, v) IN IF RLess(d2, MinDeviation2) THEN MinDeviation2 ELSE d2

(* Mutant of Deviation2: no floor, a constant feature gets deviation 0.  *)
Deviation2NoFloor(v) == v

(* std::max(min_deviation, std::sqrt(variance)), squared.                 *)
Deviation2(v) == IF RLess(v, MinDeviation2) THEN MinDeviation2 ELSE v

(* generateFirstNormalizationVectors: multiplier 1, offset -value.        *)
FirstNormalization(B) ==
  LET e == CHOOSE x \in BagToSet(B) : TRUE
  IN  [i \in Dims |-> [mean |-> RInt(e[1][i]), dev2 |-> RInt(1)]]

(* generateStandardizeNormalizationVectors: per row, mul = 1/deviation    *)
(* and add = -mean/deviation.                                             *)
StandardizeNormalization(B) ==
  [i \in Dims |-> [mean |-> Mean(B, i), dev2 |-> Deviation2(Variance(B, i))]]

(* generateNormalizationVectors: one labeled event, or Standardize.       *)
GenerateNormalizationVectors(B) ==
  IF BagCardinality(B) = 1 THEN FirstNormalization(B)
                           ELSE StandardizeNormalization(B)

-----------------------------------------------------------------------------
(* Distances in the normalized space.                                     *)

(* ||normalizeEvent(p) - normalizeEvent(q)||^2 minus the same for r: the  *)
(* add vector cancels and each dimension counts (mul_i)^2 = 1/dev2_i.     *)
(* Its sign decides which of p and r the k-d tree finds closer to q.      *)
DistanceDiff(N, p, r, q) ==
  RSum([i \in Dims |->
          RDiv(RInt((p[i] - q[i]) ^ 2 - (r[i] - q[i]) ^ 2), N[i].dev2)])

Closer(N, p, r, q) == DistanceDiff(N, p, r, q).num < 0

(* Bags of k entries drawn from the bag C, at most C[e] copies of each.   *)
Picks(C, k) ==
  { c \in [BagToSet(C) -> 0..k] :
      /\ \A e \in DOMAIN c : c[e] <= C[e]
      /\ MapThenSumSet(LAMBDA e : c[e], DOMAIN c) = k }

AsBag(c) == [e \in {x \in DOMAIN c : c[x] > 0} |-> c[e]]

(* nns->knn(query, indices, dists2, k) with the default flags: without    *)
(* ALLOW_SELF_MATCH the tree skips labeled events at distance 0 from the  *)
(* query (in the normalized space, those equal to it).  Of the others, k  *)
(* events, no one of them farther from q than one left out.  With fewer  *)
(* than k others, every one of them is found and the remaining slots keep *)
(* libnabo's invalid index (0 or -1 by version): labeled_events[indices(i)] *)
(* then reads the first event, or outside the vector.  Each such slot     *)
(* names any labeled event.                                               *)
Neighbours(N, B, q) ==
  LET F == [e \in {x \in BagToSet(B) : x[1] # q} |-> B[e]]
      n == BagCardinality(F)
  IN  IF n >= K
        THEN { AsBag(c) : c \in { c \in Picks(F, K) :
                 \A e, f \in DOMAIN c :
                   c[e] > 0 /\ c[f] < F[f] => ~Closer(N, f[1], e[1], q) } }
        ELSE { F (+) AsBag(c) :
                 c \in { c \in [BagToSet(B) -> 0..K - n] :
                          MapThenSumSet(LAMBDA e : c[e], DOMAIN c) = K - n } }

(* labels[label]++ over the neighbours.                                   *)
Votes(S, l) == MapThenSumSet(LAMBDA e : IF e[2] = l THEN CopiesIn(e, S) ELSE 0, BagToSet(S))

(* Mutant of Vote: x.second >= max, the last of the tied labels wins.     *)
VoteLastMax(S) ==
  LET present == SetToSortSeq({e[2] : e \in BagToSet(S)}, <)
      step(acc, l) == IF Votes(S, l) >= acc.max THEN [max |-> Votes(S, l), label |-> l] ELSE acc
  IN  FoldLeft(step, [max |-> -1, label |-> NoResult], present)

(* The loop over std::map<LabelType, int> in ascending key order: a label *)
(* replaces the current one only with strictly more votes.                *)
Vote(S) ==
  LET present == SetToSortSeq({e[2] : e \in BagToSet(S)}, <)
      step(acc, l) == IF Votes(S, l) > acc.max THEN [max |-> Votes(S, l), label |-> l] ELSE acc
  IN  FoldLeft(step, [max |-> -1, label |-> NoResult], present)

-----------------------------------------------------------------------------
(* Operations.                                                            *)

(* ClassificationConfig's default; SmartApp::startThreads passes a        *)
(* default-constructed config and nothing sets Rescale.                   *)
NormalizationMode == "Standardize"

(* featureVectorIsInRange: false while the normalization vectors are      *)
(* empty, otherwise every normalized coordinate (v_i - mean_i) / dev_i    *)
(* lies in [-1, 1].                                                       *)
FeatureVectorIsInRange(B, N, v) ==
  /\ B # EmptyBag
  /\ \A i \in Dims :
       LET d == RSub(RInt(v[i]), N[i].mean)
       IN  ~RLess(N[i].dev2, RMul(d, d))

(* needToRegenerateMatrixForVector on the labeled events B, the new one   *)
(* included: outside Rescale always, so every labeled event takes the     *)
(* full rebuild.                                                          *)
NeedToRegenerateMatrixForVector(B, N, v) ==
  \/ NormalizationMode # "Rescale"
  \/ ~FeatureVectorIsInRange(B, N, v)
  \/ BagCardinality(B) <= 1

(* pushToMatrix(normalizeEvent(v)): the row joins the matrix normalized   *)
(* with the vectors already there, which stay as they are.                *)
PushToMatrix(N) == N

(* A new DataClassifier: no labeled event; the normalization vectors are  *)
(* empty in the code and hold a placeholder here until the first rebuild. *)
Init ==
  /\ labeled = EmptyBag
  /\ norm = [i \in Dims |-> [mean |-> RInt(0), dev2 |-> RInt(1)]]
  /\ last = NoResult

(* addLabelById / processOneEvent with a found label: the event joins     *)
(* labeled_events, then addEventToNormalizedMatrix rebuilds the matrix,   *)
(* the normalization vectors and the index (regenerateMatrix), or pushes  *)
(* the normalized row when needToRegenerateMatrixForVector is false.      *)
AddLabeledEvent(p, l) ==
  /\ BagCardinality(labeled) < MaxLabeled
  /\ labeled' = labeled (+) SetToBag({<<p, l>>})
  /\ norm' = IF NeedToRegenerateMatrixForVector(labeled', norm, p)
               THEN GenerateNormalizationVectors(labeled')
               ELSE PushToMatrix(norm)
  /\ UNCHANGED last

(* classifyOneEvent(features): throw -1 with at most k labeled events,    *)
(* otherwise the vote of the k nearest neighbours and the certainty       *)
(* max / k.                                                               *)
ClassifyOneEvent(q) ==
  /\ \/ /\ BagCardinality(labeled) <= K
        /\ last' = [query |-> q, thrown |-> TRUE]
     \/ /\ BagCardinality(labeled) > K
        /\ \E S \in Neighbours(norm, labeled, q) :
             LET v == Vote(S)
             IN  last' = [query |-> q, thrown |-> FALSE, nbrs |-> S,
                          label |-> v.label, votes |-> v.max]
  /\ UNCHANGED <<labeled, norm>>

Next ==
  \/ \E p \in Points, l \in Labels : AddLabeledEvent(p, l)
  \/ \E q \in Queries : ClassifyOneEvent(q)

Spec == Init /\ [][Next]_vars

-----------------------------------------------------------------------------
(* Properties.                                                            *)

TypeOK ==
  /\ labeled \in [BagToSet(labeled) -> 1..MaxLabeled]
  /\ BagToSet(labeled) \subseteq Entries
  /\ norm \in [Dims -> [mean : [num : Int, den : Int], dev2 : [num : Int, den : Int]]]
  /\ \A i \in Dims : norm[i].dev2.num > 0 /\ norm[i].dev2.den > 0
  /\ last = NoResult \/ last.query \in Queries

(* The z-score of spec 4.5 and 8: mean 0 and standard deviation 1 per     *)
(* dimension, i.e. the deviation of the population, floored at 0.001.     *)
(* Computed independently of the code: the population variance is        *)
(* E[x^2] - E[x]^2, and a deviation below 0.001 counts as 0.001.          *)
ZScore(B) ==
  [i \in Dims |->
     LET n    == RInt(BagCardinality(B))
         ex   == RDiv(RowSum(B, i), n)
         ex2  == RDiv(RowSquareSum(B, i, RInt(0)), n)
         var  == RSub(ex2, RMul(ex, ex))
     IN  [mean |-> ex,
          dev2 |-> IF RLess(var, Rat(1, 1000000)) THEN Rat(1, 1000000) ELSE var]]

(* Algorithms::variance leaves out the division by n, so the normalized   *)
(* matrix does not have unit deviation; the k-d tree still orders the     *)
(* labeled events around any query exactly as under the z-score: the     *)
(* normalization in force decides nearest neighbours as spec 4.5 says.    *)
NeighbourOrderMatchesZScore ==
  \A q \in Queries, e, f \in BagToSet(labeled) :
    Closer(norm, e[1], f[1], q) <=> Closer(ZScore(labeled), e[1], f[1], q)

(* Spec 4.5 and 8: a classified event gets the label most of its k        *)
(* nearest neighbours carry, the tie broken towards the label the std::map *)
(* visits first (the smallest), and certainty = votes / k.                *)
VoteIsFirstPlurality ==
  (last # NoResult /\ ~last.thrown) =>
    LET S == last.nbrs
        ls == {e[2] : e \in BagToSet(S)}
        best == Max({Votes(S, l) : l \in ls})
    IN  /\ last.votes = best
        /\ last.label = Min({l \in ls : Votes(S, l) = best})

=============================================================================
