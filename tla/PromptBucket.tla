---------------------------- MODULE PromptBucket ----------------------------
(***************************************************************************)
(* The rate limit of prompts: a token bucket for each session, full when   *)
(* it is made, refilled by the time that has passed when it is looked at.  *)
(*                                                                         *)
(* The code counts tokens in fractions; here a token is worth the time it  *)
(* takes to refill, Interval, and levels are whole units of that time, so  *)
(* that the refill after any stretch of time is exact.                     *)
(***************************************************************************)
EXTENDS GateBase, Sequences

CONSTANTS
    Capacity,      \* PROMPT_BUCKET_CAPACITY: prompts at once
    Interval,      \* the time in which one token is refilled
    MaxPrompts     \* prompts admitted for a session

ASSUME BucketAssumption ==
    /\ Capacity \in Nat \ {0}
    /\ Interval \in Nat \ {0}
    /\ MaxPrompts \in Nat

VARIABLES
    keys,          \* the sessions that have an entry in promptBuckets
    buckets,       \* buckets[s]: its level and when that was computed
    log            \* log[s]: when prompts were admitted by the bucket in use

bucketVars == <<keys, buckets, log>>

Full == Capacity * Interval

Bucket == [tokens : 0..Full, lastRefill : 0..MaxTime]

\* Mutant: no capacity.
RefillUncapped(tokens, elapsed) == tokens + elapsed

\* Mutant: whole tokens only, so that a look too early loses what was earned.
RefillWhole(tokens, elapsed) ==
    IF tokens + elapsed > Full THEN Full
    ELSE tokens + (elapsed \div Interval) * Interval

Refill(tokens, elapsed) ==
    IF tokens + elapsed > Full THEN Full ELSE tokens + elapsed

\* What a look at the bucket of s finds; a bucket is made full.
Level(s) ==
    IF s \in keys THEN Refill(buckets[s].tokens, now - buckets[s].lastRefill) ELSE Full

\* Mutant: the time of the refill is not noted.
ConsumeUntimed(s) ==
    /\ Len(log[s]) < MaxPrompts
    /\ keys' = keys \cup {s}
    /\ LET ok == Level(s) >= Interval
       IN  /\ buckets' = [buckets EXCEPT
                  ![s] = [tokens |-> IF ok THEN Level(s) - Interval ELSE Level(s),
                          lastRefill |-> IF s \in keys THEN @.lastRefill ELSE now]]
           /\ log' = IF ok THEN [log EXCEPT ![s] = Append(@, now)] ELSE log
    /\ UNCHANGED now

\* send_prompt and retry_last: checkPromptRate, and consume in it.  A prompt
\* that is refused still refills the bucket.
Consume(s) ==
    /\ Len(log[s]) < MaxPrompts
    /\ keys' = keys \cup {s}
    /\ IF Level(s) >= Interval
       THEN /\ buckets' = [buckets EXCEPT ![s] = [tokens |-> Level(s) - Interval,
                                                  lastRefill |-> now]]
            /\ log' = [log EXCEPT ![s] = Append(@, now)]
       ELSE /\ buckets' = [buckets EXCEPT ![s] = [tokens |-> Level(s),
                                                  lastRefill |-> now]]
            /\ UNCHANGED log
    /\ UNCHANGED now

\* dropPromptBucket, when the session is deleted: there is nothing left to limit.
Drop(s) ==
    /\ keys' = keys \ {s}
    /\ log' = [log EXCEPT ![s] = <<>>]
    /\ UNCHANGED buckets

\* A restart of the server: the map is gone, and the promise begins anew.
Forget ==
    /\ keys' = {}
    /\ log' = [s \in Sess |-> <<>>]
    /\ UNCHANGED buckets

BucketInit ==
    /\ now = 0
    /\ keys = {}
    /\ buckets = [s \in Sess |-> [tokens |-> Full, lastRefill |-> 0]]
    /\ log = [s \in Sess |-> <<>>]

\* Gates says when each of these happens.
BucketNext ==
    \/ \E s \in Sess : Consume(s) \/ (Drop(s) /\ UNCHANGED now)
    \/ Forget /\ UNCHANGED now
    \/ Tick /\ UNCHANGED bucketVars

-----------------------------------------------------------------------------
\* Every variable has its type.
BucketTypeOK ==
    /\ now \in 0..MaxTime
    /\ keys \subseteq Sess
    /\ buckets \in [Sess -> Bucket]
    /\ log \in [Sess -> Seq(0..MaxTime)]

\* In any stretch of time no more prompts of a session are admitted than the
\* capacity and what was refilled in it, wherever the stretch begins and however
\* many prompts were refused in between (index.ts:210-242).
WithinRate ==
    \A s \in Sess : \A i, j \in DOMAIN log[s] :
        i <= j => (j - i) * Interval + Interval <= Full + (log[s][j] - log[s][i])

\* Who waits for one token is admitted: refused attempts do not put it off.
PatienceHelps ==
    \A s \in Sess :
        \/ Level(s) >= Interval
        \/ log[s] # <<>> /\ now - log[s][Len(log[s])] < Interval
=============================================================================
