----------------------------- MODULE Reliability -----------------------------
(***************************************************************************)
(* What /analytics/tests says of one test while its evidence comes in, in  *)
(* any order: the aggregation that TestStats runs in SQL over the test's   *)
(* records, and the rates and labels derived from it.                      *)
(***************************************************************************)
EXTENDS Naturals, FiniteSets

CONSTANTS
  Commits,      \* rcs_ref
  Finishes,     \* finished_at
  MaxHistory,   \* bound: records of the test
  MinRuns, AlwaysFailingRate, FlipRate, ErrorRate, MinErrors
                \* the thresholds; rates as <<numerator, denominator>>

ASSUME ReliabilityAssumption ==
  /\ Finishes \subseteq Nat /\ MaxHistory \in Nat
  /\ MinRuns \in Nat /\ MinErrors \in Nat
  /\ \A rate \in {AlwaysFailingRate, FlipRate, ErrorRate} : 0 < rate[1] /\ rate[1] <= rate[2]

VARIABLE history   \* the records of the test: [id, finished, result, commit]

Verdict == {"PASS", "FAIL"}

ReliabilityInit == history = {}

RecordFiled(result, commit, finished) ==
  /\ Cardinality(history) < MaxHistory
  /\ history' = history \cup {[id |-> Cardinality(history) + 1, finished |-> finished,
                               result |-> result, commit |-> commit]}

ReliabilityNext ==
  \E result \in {"PASS", "FAIL", "ERROR", "SKIPPED"}, commit \in Commits, finished \in Finishes :
    RecordFiled(result, commit, finished)

ReliabilitySpec == ReliabilityInit /\ [][ReliabilityNext]_history

(***************************************************************************)
(* TestStats: agg, sequenced, flips and disagreements.                     *)
(***************************************************************************)
Count(result) == Cardinality({r \in history : r.result = result})

Sequenced == {r \in history : r.result \in Verdict}

Before(q, r) == q.finished < r.finished \/ (q.finished = r.finished /\ q.id < r.id)
Previous(r) == {q \in Sequenced : Before(q, r) /\ ~\E p \in Sequenced : Before(q, p) /\ Before(p, r)}
Transitions == Cardinality({r \in Sequenced : Previous(r) # {}})

Flips == Cardinality({r \in Sequenced : \E q \in Previous(r) : q.result # r.result})

FlakyCommits ==
  Cardinality({c \in Commits : \A v \in Verdict : \E r \in history : r.commit = c /\ r.result = v})

(***************************************************************************)
(* Counts and Labels.                                                      *)
(***************************************************************************)
VerdictRuns == Count("PASS") + Count("FAIL")
Executed == VerdictRuns + Count("ERROR")

(* numerator / denominator >= rate, where nothing out of nothing is 0. *)
AtLeast(numerator, denominator, rate) ==
  IF denominator = 0 THEN rate[1] = 0 ELSE numerator * rate[2] >= rate[1] * denominator

(* Mutant: errors count as failures. *)
MutantErrorsFail == AtLeast(Count("FAIL") + Count("ERROR"), Executed, AlwaysFailingRate)

FailsAlways == AtLeast(Count("FAIL"), VerdictRuns, AlwaysFailingRate)

Labels ==
  LET enough == VerdictRuns >= MinRuns
      clean == Count("FAIL") = 0 /\ Count("ERROR") = 0
  IN {l \in {"sparse", "stable", "always_failing", "flaky", "infra_heavy"} :
       \/ l = "sparse" /\ ~enough
       \/ l = "stable" /\ enough /\ clean
       \/ l = "always_failing" /\ enough /\ ~clean /\ FailsAlways
       \/ l = "flaky" /\ (FlakyCommits > 0 \/ AtLeast(Flips, Transitions, FlipRate))
       \/ l = "infra_heavy" /\ Count("ERROR") >= MinErrors /\ AtLeast(Count("ERROR"), Executed, ErrorRate)}

(***************************************************************************)
(* Properties.                                                             *)
(***************************************************************************)
(* "an infrastructure blip between two passes does not read as two flips"  *)
(* (store/analytics.go): wherever in time a record without a verdict       *)
(* falls, it changes neither the flips, nor the commits that disagree, nor *)
(* what is said of the verdicts; it can only end the claim "stable".       *)
BlipIgnored ==
  \A r \in history' \ history : r.result \notin Verdict =>
    /\ Flips' = Flips /\ Transitions' = Transitions /\ FlakyCommits' = FlakyCommits
    /\ Labels' \ {"infra_heavy", "stable"} = Labels \ {"infra_heavy", "stable"}

(* The counts SQL takes separately fit each other: a commit that disagrees *)
(* with itself shows as a flip, and every flip has a pass and a failure at *)
(* its ends.                                                               *)
CountsAgree ==
  LET fewer == IF Count("PASS") < Count("FAIL") THEN Count("PASS") ELSE Count("FAIL") IN
  /\ FlakyCommits > 0 => Flips > 0
  /\ FlakyCommits <= fewer /\ Flips <= 2 * fewer
  /\ Transitions + 1 = VerdictRuns \/ (VerdictRuns = 0 /\ Transitions = 0)

(* "a permanently broken test has a fail rate of 1.0 and a flip rate of 0" *)
(* (analytics/metrics.go): no test is called flaky that has not both       *)
(* passed and failed, or chronically failing for its errors, or stable     *)
(* that is flaky; and nothing is said of reliability before the minimum.   *)
LabelsHonest ==
  /\ "flaky" \in Labels => \A v \in Verdict : \E r \in history : r.result = v
  /\ "always_failing" \in Labels => \E r \in history : r.result = "FAIL"
  /\ "stable" \in Labels => Labels = {"stable"}
  /\ "sparse" \in Labels => Labels \cap {"stable", "always_failing"} = {}

(* What is said of a test follows from its verdicts, in whatever order its *)
(* records come in.                                                        *)
VerdictsDecide == [][BlipIgnored /\ CountsAgree' /\ LabelsHonest']_history
==============================================================================
