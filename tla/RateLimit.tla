------------------------------- MODULE RateLimit -------------------------------
(***************************************************************************)
(* The rate limiting middleware: one token bucket per caller, kept in a    *)
(* map that drops the refilled buckets when it has grown too large.        *)
(*                                                                         *)
(* Requests interleave between fetching their limiter, reserving a token   *)
(* and giving it back.  A tick of the clock refills one token.  Reads and  *)
(* writes have maps of their own; this is either of them.                  *)
(***************************************************************************)
EXTENDS Integers, FiniteSets

CONSTANTS
  Clients,         \* callers: identify(callerKey)
  Calls,           \* requests under way at once
  Burst,
  SweepThreshold,
  MaxLimiters,     \* bound: the limiter objects made
  MaxTick,         \* bound: the clock
  MaxDebt,         \* bound: how far below 0 a level goes
  NONE

ASSUME RateAssumption ==
  /\ Burst \in Nat \ {0} /\ SweepThreshold \in Nat /\ MaxTick \in Nat /\ MaxDebt \in Nat
  /\ MaxLimiters \in Nat
  /\ NONE \notin Clients \cup Nat

Limiters == 1..MaxLimiters

VARIABLES
  tick,       \* the clock
  bucket,     \* the map: each caller's limiter, or NONE
  tokens,     \* the level of each limiter, negative when reserved ahead
  lastEvent,  \* when the last reservation of each limiter may act
  made,       \* how many limiters were made
  call,       \* each request
  ideal,      \* a token bucket per caller that only admitted requests take from
  stray,      \* requests of a caller whose limiter was dropped before they used it
  disturbed   \* callers that had two requests under way at once, or one
              \* stalled past the time of its reservation

rateVars == <<tick, bucket, tokens, lastEvent, made, call, ideal, stray, disturbed>>

NoCall == [pc |-> "idle", from |-> NONE, limiter |-> NONE, act |-> 0]

RateInit ==
  /\ tick = 0
  /\ bucket = [c \in Clients |-> NONE]
  /\ tokens = [l \in Limiters |-> Burst]
  /\ lastEvent = [l \in Limiters |-> 0]
  /\ made = 0
  /\ call = [r \in Calls |-> NoCall]
  /\ ideal = [c \in Clients |-> Burst]
  /\ stray = [c \in Clients |-> 0]
  /\ disturbed = {}

UpToBurst(n) == IF n > Burst THEN Burst ELSE n
Of(c) == {r \in Calls : call[r].from = c}

Stalled(r) == call[r].pc = "cancel" /\ call[r].act <= tick

TimePasses ==
  /\ tick < MaxTick /\ tick' = tick + 1
  /\ tokens' = [l \in Limiters |-> UpToBurst(tokens[l] + 1)]
  /\ ideal' = [c \in Clients |-> UpToBurst(ideal[c] + 1)]
  /\ disturbed' = disturbed \cup {call[r].from : r \in {q \in Calls : Stalled(q)}}
  /\ UNCHANGED <<bucket, lastEvent, made, call, stray>>

(***************************************************************************)
(* limiterFor.                                                             *)
(***************************************************************************)
Known == {c \in Clients : bucket[c] # NONE}

(* Mutant: whatever is in the map may go. *)
MutantSweepAll(c) == TRUE

Refilled(c) == tokens[bucket[c]] >= Burst

(* sweepRefilled, if the map has reached the threshold. *)
Swept == IF Cardinality(Known) >= SweepThreshold THEN {c \in Known : Refilled(c)} ELSE {}

(* A caller's requests that have a limiter and have not used it. *)
Unused(c) == {r \in Of(c) : call[r].pc = "fetched"}

LimiterFor(r, c) ==
  /\ call[r].pc = "idle"
  /\ \/ /\ c \in Known
        /\ call' = [call EXCEPT ![r] = [pc |-> "fetched", from |-> c, limiter |-> bucket[c], act |-> 0]]
        /\ UNCHANGED <<bucket, made, stray>>
     \/ /\ c \notin Known
        /\ made < MaxLimiters /\ made' = made + 1
        /\ bucket' = [d \in Clients |-> IF d = c THEN made' ELSE IF d \in Swept THEN NONE ELSE bucket[d]]
        /\ call' = [call EXCEPT ![r] = [pc |-> "fetched", from |-> c, limiter |-> made', act |-> 0]]
        /\ stray' = [d \in Clients |-> stray[d] + IF d \in Swept THEN Cardinality(Unused(d)) ELSE 0]
  /\ disturbed' = IF Of(c) = {} THEN disturbed ELSE disturbed \cup {c}
  /\ UNCHANGED <<tick, tokens, lastEvent, ideal>>

(***************************************************************************)
(* Reserve and Cancel of golang.org/x/time/rate.                           *)
(***************************************************************************)
(* A token is taken at once, and may be used when the level is back at 0. *)
Delay(level) == IF level < 0 THEN -level ELSE 0

Reserve(r) ==
  /\ call[r].pc = "fetched"
  /\ LET l == call[r].limiter
         level == tokens[l] - 1
         act == tick + Delay(level)
     IN /\ level >= -MaxDebt
        /\ tokens' = [tokens EXCEPT ![l] = level]
        /\ lastEvent' = [lastEvent EXCEPT ![l] = act]
        /\ \/ /\ Delay(level) = 0
              /\ call' = [call EXCEPT ![r] = NoCall]
              /\ ideal' = [ideal EXCEPT ![call[r].from] = @ - 1]
           \/ /\ Delay(level) > 0
              /\ call' = [call EXCEPT ![r].pc = "cancel", ![r].act = act]
              /\ UNCHANGED ideal
  /\ UNCHANGED <<tick, bucket, made, stray, disturbed>>

(* What a cancelled reservation gives back: nothing once its time has      *)
(* come, and not what was reserved behind it.                              *)
Restored(r) ==
  LET behind == lastEvent[call[r].limiter] - call[r].act IN
  IF call[r].act < tick \/ behind >= 1 THEN 0 ELSE 1 - behind

Cancel(r) ==
  /\ call[r].pc = "cancel"
  /\ LET l == call[r].limiter IN
     /\ tokens' = [tokens EXCEPT ![l] = UpToBurst(@ + Restored(r))]
     /\ lastEvent' = [lastEvent EXCEPT ![l] =
          IF Restored(r) > 0 /\ call[r].act = @ /\ @ - 1 >= tick THEN @ - 1 ELSE @]
  /\ call' = [call EXCEPT ![r] = NoCall]
  /\ UNCHANGED <<tick, bucket, made, ideal, stray, disturbed>>

RateNext ==
  \/ TimePasses
  \/ \E r \in Calls : Reserve(r) \/ Cancel(r) \/ \E c \in Clients : LimiterFor(r, c)

RateSpec == RateInit /\ [][RateNext]_rateVars

(***************************************************************************)
(* Properties.                                                             *)
(***************************************************************************)
(* Every variable has its type, and no two callers share a limiter. *)
RateTypeOK ==
  /\ made \in 0..MaxLimiters /\ bucket \in [Clients -> (1..made) \cup {NONE}]
  /\ \A c, d \in Known : bucket[c] = bucket[d] => c = d
  /\ \A l \in Limiters : tokens[l] <= Burst
  /\ disturbed \subseteq Clients

(* "Eviction cannot forgive rate debt" (ratelimit.go): a caller is never   *)
(* admitted more often than one token bucket would, however the map is     *)
(* swept and filled again, but for the requests that still held a limiter  *)
(* when it was dropped.                                                    *)
DebtNotForgiven == \A c \in Clients : ideal[c] >= -stray[c]

(* A refused request costs nothing: between the requests of a caller that  *)
(* makes one at a time, its limiter, or the full one it would be given, is *)
(* no lower than the admitted requests alone have left it (unless it was   *)
(* dropped under a request, or one was stalled).                           *)
RefusalsAreFree ==
  \A c \in Clients \ disturbed :
    Of(c) = {} /\ stray[c] = 0 => ideal[c] <= IF c \in Known THEN tokens[bucket[c]] ELSE Burst

(* A caller is limited as by one bucket of its own. *)
LimitedAsOneBucket == RateTypeOK /\ DebtNotForgiven /\ RefusalsAreFree
================================================================================
