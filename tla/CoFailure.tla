------------------------------ MODULE CoFailure ------------------------------
(***************************************************************************)
(* GET /analytics/clusters: which tests fail together, and which few catch *)
(* most failing runs.  The two algorithms run loop by loop: a union-find   *)
(* with path halving over the pairs of similar tests, and the greedy set   *)
(* cover.  The matrix gives the runs each test failed in; tests are        *)
(* numbered in the order of their names.                                   *)
(***************************************************************************)
EXTENDS Naturals, Sequences, FiniteSets

CONSTANTS
  Matrices,     \* the matrices to analyse: sequences of nonempty sets of runs
  Similarities  \* thresholds, as <<numerator, denominator>>

ASSUME CoFailureAssumption ==
  /\ \A m \in Matrices : \A i \in DOMAIN m : m[i] # {}
  /\ \A s \in Similarities : s[2] > 0 /\ s[1] <= s[2]

VARIABLES
  fails,      \* the matrix: bits
  similarity, \* the threshold
  stage,      \* where the analysis is
  parent,     \* the union-find forest
  i, j,       \* the pair, or the test, at hand
  x,          \* where find is
  root,       \* the root of i, once found
  group,      \* the tests found under each root
  active,     \* tests that may still contribute
  steps       \* the covering set so far: tests, in order

matrixVars == <<fails, similarity>>
coVars == <<matrixVars, stage, parent, i, j, x, root, group, active, steps>>

TestCount == Len(fails)

CoStart ==
  /\ stage = "pair"
  /\ parent = [t \in 1..Len(fails) |-> t]
  /\ i = 1 /\ j = 2 /\ x = 1 /\ root = 0
  /\ group = [t \in 1..Len(fails) |-> {}]
  /\ active = 1..Len(fails) /\ steps = <<>>

CoInit == fails \in Matrices /\ similarity \in Similarities /\ CoStart

(***************************************************************************)
(* Cluster.                                                                *)
(***************************************************************************)
(* Jaccard(a, b) >= threshold *)
Similar(a, b) ==
  Cardinality(fails[a] \cap fails[b]) * similarity[2] >= similarity[1] * Cardinality(fails[a] \cup fails[b])

(* The next pair of the double loop; i runs alone in the loop after it. *)
NextPair ==
  IF j < TestCount THEN i' = i /\ j' = j + 1 /\ stage' = "pair"
  ELSE IF i + 1 < TestCount THEN i' = i + 1 /\ j' = i + 2 /\ stage' = "pair"
  ELSE i' = 1 /\ j' = 0 /\ stage' = "group"

ComparePair ==
  /\ stage = "pair"
  /\ IF TestCount >= 2 /\ Similar(i, j)
     THEN stage' = "find i" /\ x' = i /\ UNCHANGED <<i, j>>
     ELSE NextPair /\ UNCHANGED x
  /\ UNCHANGED <<matrixVars, parent, root, group, active, steps>>

(* One round of find: halve the path and move on. *)
Find ==
  /\ stage \in {"find i", "find j", "find member"}
  /\ parent[x] # x
  /\ parent' = [parent EXCEPT ![x] = parent[parent[x]]]
  /\ x' = parent[parent[x]]
  /\ UNCHANGED <<matrixVars, stage, i, j, root, group, active, steps>>

FoundFirst ==
  /\ stage = "find i" /\ parent[x] = x
  /\ root' = x /\ x' = j /\ stage' = "find j"
  /\ UNCHANGED <<matrixVars, parent, i, j, group, active, steps>>

(* Mutant: only the first test moves, not its tree. *)
MutantMoveOne(ri, rj) == [parent EXCEPT ![i] = rj]

Joined(ri, rj) == IF ri # rj THEN [parent EXCEPT ![ri] = rj] ELSE parent

Union ==
  /\ stage = "find j" /\ parent[x] = x
  /\ parent' = Joined(root, x)
  /\ NextPair
  /\ UNCHANGED <<matrixVars, x, root, group, active, steps>>

Gather ==
  /\ stage = "group"
  /\ IF i <= TestCount THEN x' = i /\ stage' = "find member" ELSE stage' = "cover" /\ UNCHANGED x
  /\ UNCHANGED <<matrixVars, parent, i, j, root, group, active, steps>>

FoundMember ==
  /\ stage = "find member" /\ parent[x] = x
  /\ group' = [group EXCEPT ![x] = @ \cup {i}]
  /\ i' = i + 1 /\ stage' = "group"
  /\ UNCHANGED <<matrixVars, parent, j, x, root, active, steps>>

Clusters == {group[t] : t \in {u \in 1..TestCount : Cardinality(group[u]) >= 2}}

(***************************************************************************)
(* GreedyCover.                                                            *)
(***************************************************************************)
Caught(S) == UNION {fails[t] : t \in S}
Chosen == {steps[n] : n \in DOMAIN steps}
Gain(t) == Cardinality(fails[t] \ Caught(Chosen))

(* The first of those that gain most. *)
Best(S) == CHOOSE t \in S : \A u \in S : Gain(u) < Gain(t) \/ (Gain(u) = Gain(t) /\ u >= t)

CoverRound ==
  /\ stage = "cover"
  /\ LET remaining == {t \in active : Gain(t) > 0} IN
     /\ active' = remaining
     /\ IF remaining = {} THEN stage' = "done" /\ UNCHANGED steps
        ELSE steps' = Append(steps, Best(remaining)) /\ UNCHANGED stage
  /\ UNCHANGED <<matrixVars, parent, i, j, x, root, group>>

CoNext == ComparePair \/ Find \/ FoundFirst \/ Union \/ Gather \/ FoundMember \/ CoverRound

(* The handler runs to its end. *)
CoSpec == CoInit /\ [][CoNext]_coVars /\ WF_coVars(CoNext)

(***************************************************************************)
(* Properties.                                                             *)
(***************************************************************************)
(* "A and C land in the same cluster if each is similar to B"              *)
(* (analytics/cluster.go): whatever order the pairs were joined in, two    *)
(* similar tests are in one cluster, and no cluster falls into two parts   *)
(* without a similar pair between them.                                    *)
ClustersAreComponents ==
  stage = "done" =>
    /\ \A a, b \in 1..TestCount : a # b /\ Similar(a, b) => \E C \in Clusters : {a, b} \subseteq C
    /\ \A C \in Clusters : \A S \in (SUBSET C) \ {{}, C} : \E a \in S, b \in C \ S : Similar(a, b)
    /\ \A C, D \in Clusters : C = D \/ C \cap D = {}

(* The harmonic number of n over that of the denominator 60, n <= 6. *)
Harmonic60 == <<60, 90, 110, 125, 137, 147>>
Largest == CHOOSE n \in {Cardinality(fails[t]) : t \in 1..TestCount} :
             \A t \in 1..TestCount : Cardinality(fails[t]) <= n

(* "within a ln(n) factor" and "no entry in the list is redundant" when it *)
(* is added (analytics/cluster.go): the tests listed catch every failing   *)
(* run, each one adds to those before it and no less than the next, and no *)
(* covering set is smaller by more than the harmonic factor.               *)
CoverIsGood ==
  stage = "done" /\ TestCount > 0 =>
    /\ Caught(Chosen) = Caught(1..TestCount)
    /\ \A n \in DOMAIN steps :
         LET New(k) == Cardinality(fails[steps[k]] \ Caught({steps[m] : m \in 1..(k - 1)})) IN
         New(n) > 0 /\ (n > 1 => New(n) <= New(n - 1))
    /\ \A S \in SUBSET (1..TestCount) : Caught(S) = Caught(1..TestCount) =>
         60 * Len(steps) <= Harmonic60[Largest] * Cardinality(S)

(* What the page shows of tests that fail together is what the matrix      *)
(* says.                                                                   *)
AnalysisSound == ClustersAreComponents /\ CoverIsGood

(* find and both loops end. *)
AnalysisEnds == []<>(stage = "done")
==============================================================================
