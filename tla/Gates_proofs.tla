---------------------------- MODULE Gates_proofs ----------------------------
(***************************************************************************)
(* Proofs about the gates, for every set of accounts, attempts, tabs and   *)
(* sessions, every capacity and every interval: the rate of prompts, and   *)
(* who a session is there for.                                             *)
(***************************************************************************)
EXTENDS Gates, FiniteSetTheorems, TLAPS

-----------------------------------------------------------------------------
(* The bucket *)

\* What was admitted since prompt i of session s, and what could be admitted now,
\* is paid for by a full bucket and the time since.
Paid(s, i) ==
    (Len(log[s]) - i) * Interval + Interval + Level(s) <= Full + (now - log[s][i])

\* The inductive invariant of one session.  Paid makes the next prompt admissible
\* for WithinRate, whose stretches all end with some prompt; the level keeps up
\* with the time since the last prompt, which is PatienceHelps.
Ledger(s) ==
    /\ s \in keys <=> log[s] # <<>>
    /\ buckets[s].lastRefill <= now
    /\ \A i \in DOMAIN log[s] : log[s][i] <= now /\ Paid(s, i)
    /\ log[s] # <<>> =>
          Level(s) >= Full \/ Level(s) >= now - log[s][Len(log[s])]

BInv == BucketTypeOK /\ WithinRate /\ \A s \in Sess : Ledger(s)

\* The capacity holds at least one token, and one prompt more costs one token more.
LEMMA Prices ==
    /\ Interval \in Nat /\ Full \in Nat /\ 0 < Interval /\ Interval <= Full
    /\ 0 * Interval = 0
    /\ \A n \in Nat : n * Interval \in Nat /\ (n + 1) * Interval = n * Interval + Interval
<1>1. Interval \in Nat \ {0} /\ Capacity \in Nat \ {0}
  BY BucketAssumption
<1>2. PICK c \in Nat : Capacity = c + 1
  BY <1>1
<1>3. \A n \in Nat : n * Interval \in Nat /\ (n + 1) * Interval = n * Interval + Interval
  BY <1>1
<1>4. Full = c * Interval + Interval /\ c * Interval \in Nat
  BY <1>2, <1>3 DEF Full
<1> QED
  BY <1>1, <1>3, <1>4

\* The same without the products.
LEMMA PriceTypes == Interval \in Nat /\ Full \in Nat /\ 0 < Interval /\ Interval <= Full
  BY Prices

\* Types of what belongs to one session.
LEMMA BucketFacts ==
    ASSUME BucketTypeOK, NEW s \in Sess
    PROVE  /\ buckets[s].tokens \in 0..Full /\ buckets[s].lastRefill \in Nat
           /\ now \in Nat
           /\ log[s] \in Seq(Nat)
<1>1. MaxTime \in Nat /\ buckets[s] \in Bucket /\ now \in 0..MaxTime
  BY ClockAssumption DEF BucketTypeOK
<1>2. log[s] \in Seq(0..MaxTime)
  BY DEF BucketTypeOK
<1>3. log[s] \in Seq(Nat)
  BY <1>1, <1>2
<1> QED
  BY <1>1, <1>3 DEF Bucket

\* A level is never beyond its bucket.
LEMMA LevelFacts ==
    ASSUME BucketTypeOK, NEW s \in Sess, buckets[s].lastRefill <= now
    PROVE  Level(s) \in 0..Full
  BY BucketFacts, PriceTypes DEF Level, Refill

\* As time passes, a level rises no faster than the clock, until it is full.
LEMMA LevelRises ==
    ASSUME BucketTypeOK, NEW s \in Sess, buckets[s].lastRefill <= now,
           Tick, UNCHANGED bucketVars
    PROVE  /\ Level(s)' = Full \/ Level(s)' = Level(s) + 1
           /\ Level(s)' \in 0..Full /\ Level(s)' <= Level(s) + 1
<1> DEFINE spent == now - buckets[s].lastRefill
           tokens == buckets[s].tokens
<1>1. spent \in Nat /\ tokens \in 0..Full /\ Full \in Nat /\ now \in Nat
      /\ buckets[s].lastRefill \in Nat
  BY BucketFacts, PriceTypes
<1>2. now' = now + 1 /\ keys' = keys /\ buckets' = buckets
  BY DEF Tick, bucketVars
<1>3. Level(s) = IF s \in keys THEN Refill(tokens, spent) ELSE Full
  BY DEF Level
<1>4. Level(s)' = IF s \in keys THEN Refill(tokens, spent + 1) ELSE Full
  <2>1. now' - buckets[s].lastRefill = spent + 1
    BY <1>1, <1>2
  <2> QED
    BY <1>2, <2>1 DEF Level, Refill
<1> HIDE DEF spent, tokens
<1> QED
  BY <1>1, <1>3, <1>4 DEF Refill

\* A prompt's account stays paid as time passes.
LEMMA PaidLater ==
    ASSUME BucketTypeOK, NEW s \in Sess, Tick, UNCHANGED bucketVars,
           buckets[s].lastRefill <= now,
           NEW i \in DOMAIN log[s], Paid(s, i)
    PROVE  Paid(s, i)'
<1> DEFINE cost == (Len(log[s]) - i) * Interval
<1>1. Len(log[s]) - i \in Nat /\ log[s][i] \in Nat /\ now \in Nat
  BY BucketFacts
<1>2. cost \in Nat
  BY <1>1, Prices
<1>3. cost + Interval + Level(s) <= Full + (now - log[s][i])
  BY DEF Paid
<1>4. Level(s) \in Nat /\ Level(s)' \in Nat /\ Level(s)' <= Level(s) + 1
  <2>1. Level(s) \in 0..Full /\ Full \in Nat
    BY LevelFacts, PriceTypes
  <2>2. Level(s)' \in 0..Full /\ Level(s)' <= Level(s) + 1
    BY LevelRises
  <2> QED
    BY <2>1, <2>2
<1>5. log' = log /\ now' = now + 1
  BY DEF Tick, bucketVars
<1> HIDE DEF cost
<1>6. cost + Interval + Level(s)' <= Full + (now' - log[s][i])
  <2>1. \A c, l, m, t, n, f \in Int :
            c + Interval + l <= f + (n - t) /\ m <= l + 1 =>
                c + Interval + m <= f + ((n + 1) - t)
    BY PriceTypes
  <2>2. /\ Full \in Int /\ cost \in Int /\ Level(s) \in Int /\ Level(s)' \in Int
        /\ log[s][i] \in Int /\ now \in Int
    BY <1>1, <1>2, <1>4, PriceTypes
  <2>3. cost + Interval + Level(s)' <= Full + ((now + 1) - log[s][i])
    BY <1>3, <1>4, <2>1, <2>2
  <2> QED
    BY <1>5, <2>3
<1> QED
  BY <1>5, <1>6 DEF Paid, cost, Full

\* Time passes.
LEMMA TickKeeps ==
    ASSUME BInv, Tick, UNCHANGED bucketVars
    PROVE  BInv'
<1>1. BucketTypeOK /\ now \in Nat /\ now' = now + 1 /\ now' \in 0..MaxTime
  BY ClockAssumption DEF BInv, BucketTypeOK, Tick
<1>2. keys' = keys /\ buckets' = buckets /\ log' = log
  BY DEF bucketVars
<1>3. BucketTypeOK'
  BY <1>1, <1>2 DEF BucketTypeOK, Bucket, Full
<1>4. WithinRate'
  BY <1>2 DEF BInv, WithinRate, Full
<1>5. ASSUME NEW s \in Sess PROVE Ledger(s)'
  <2>1. Ledger(s)
    BY DEF BInv
  <2>2. log[s] \in Seq(Nat) /\ buckets[s].lastRefill \in Nat
    BY <1>1, BucketFacts
  <2>3. buckets[s].lastRefill <= now /\ buckets'[s].lastRefill <= now'
    BY <1>1, <1>2, <2>1, <2>2 DEF Ledger
  <2>4. Level(s) \in 0..Full /\ Full \in Nat
    BY <1>1, <2>3, LevelFacts, PriceTypes
  <2>5. Level(s)' = Full \/ Level(s)' = Level(s) + 1
    BY <1>1, <2>3, LevelRises
  <2>6. ASSUME NEW i \in DOMAIN log[s]
        PROVE  log[s][i] <= now' /\ Paid(s, i)'
    <3>1. log[s][i] \in Nat /\ log[s][i] <= now /\ Paid(s, i)
      BY <2>1, <2>2 DEF Ledger
    <3>2. Paid(s, i)'
      BY <1>1, <2>3, <3>1, PaidLater
    <3> QED
      BY <1>1, <3>1, <3>2
  <2>7. log[s] # <<>> => \/ Level(s)' >= Full
                         \/ Level(s)' >= now' - log[s][Len(log[s])]
    <3>1. log[s] # <<>> => log[s][Len(log[s])] \in Nat
      BY <2>2
    <3>2. log[s] # <<>> => \/ Level(s) >= Full
                           \/ Level(s) >= now - log[s][Len(log[s])]
      BY <2>1 DEF Ledger
    <3> QED
      BY <1>1, <2>4, <2>5, <3>1, <3>2
  <2> QED
    BY <1>2, <2>1, <2>3, <2>6, <2>7 DEF Ledger, Full
<1> QED
  BY <1>3, <1>4, <1>5 DEF BInv

\* A session whose entries a step leaves alone keeps its ledger.
LEMMA LedgerKept ==
    ASSUME NEW s \in Sess, Ledger(s), now' = now,
           buckets'[s] = buckets[s], log'[s] = log[s], s \in keys' <=> s \in keys
    PROVE  Ledger(s)'
<1>1. Level(s)' = Level(s)
  BY DEF Level, Refill
<1>2. \A i \in DOMAIN log[s] : Paid(s, i)' <=> Paid(s, i)
  BY <1>1 DEF Paid
<1> QED
  BY <1>1, <1>2 DEF Ledger

\* The stretches of a session whose log a step leaves alone keep to the rate.
Even(s) ==
    \A i, j \in DOMAIN log[s] :
        i <= j => (j - i) * Interval + Interval <= Full + (log[s][j] - log[s][i])

\* A prompt that is refused leaves the ledger even: what it finds is what it notes.
LEMMA RefusedLedger ==
    ASSUME BucketTypeOK, NEW s \in Sess, Ledger(s), now' = now,
           Level(s) < Interval, keys' = keys \cup {s}, log' = log,
           buckets' = [buckets EXCEPT ![s] = [tokens |-> Level(s), lastRefill |-> now]]
    PROVE  Ledger(s)'
<1>1. Full \in Nat /\ Interval \in Nat /\ Interval <= Full /\ now \in Nat
  BY BucketFacts, PriceTypes
<1>2. Level(s) \in 0..Full
  BY LevelFacts DEF Ledger
<1>3. s \in keys /\ buckets'[s] = [tokens |-> Level(s), lastRefill |-> now]
  BY <1>1, <1>2 DEF Level, BucketTypeOK
<1>4. Level(s)' = Refill(Level(s), now - now)
  BY <1>3 DEF Level, Refill
<1>5. Level(s)' = Level(s)
  BY <1>1, <1>2, <1>4 DEF Refill
<1>6. \A i \in DOMAIN log[s] : Paid(s, i)' <=> Paid(s, i)
  BY <1>5 DEF Paid
<1>7. buckets'[s].lastRefill <= now'
  BY <1>1, <1>3
<1> QED
  BY <1>3, <1>5, <1>6, <1>7 DEF Ledger

\* A prompt that is admitted is paid from the level it finds.
LEMMA AdmittedLedger ==
    ASSUME BucketTypeOK, NEW s \in Sess, Ledger(s), Even(s), now' = now,
           Level(s) >= Interval, keys' = keys \cup {s},
           log' = [log EXCEPT ![s] = Append(@, now)],
           buckets' = [buckets EXCEPT ![s] = [tokens |-> Level(s) - Interval,
                                              lastRefill |-> now]]
    PROVE  Ledger(s)' /\ Even(s)'
<1> DEFINE n == Len(log[s])
           cost(i) == (n + 1 - i) * Interval
<1>1. /\ Full \in Nat /\ Interval \in Nat /\ Interval <= Full /\ now \in Nat
      /\ log[s] \in Seq(Nat) /\ n \in Nat
  BY BucketFacts, PriceTypes
<1>2. Level(s) \in 0..Full
  BY LevelFacts DEF Ledger
<1>3. buckets'[s] = [tokens |-> Level(s) - Interval, lastRefill |-> now]
  BY DEF BucketTypeOK
<1>4. log'[s] = Append(log[s], now)
  BY DEF BucketTypeOK
<1>5. /\ Len(log'[s]) = n + 1 /\ DOMAIN log'[s] = 1 .. n + 1 /\ log'[s][n + 1] = now
      /\ \A i \in 1 .. n : log'[s][i] = log[s][i]
      /\ log'[s] # <<>> /\ DOMAIN log[s] = 1 .. n
  BY <1>1, <1>4
<1>6. Level(s)' = Level(s) - Interval
  <2>1. Level(s)' = Refill(Level(s) - Interval, now - now)
    BY <1>3 DEF Level, Refill
  <2> QED
    BY <1>1, <1>2, <2>1 DEF Refill
<1>7. ASSUME NEW i \in 1 .. n
      PROVE  /\ cost(i) + Level(s) <= Full + (now - log[s][i])
             /\ cost(i) \in Nat /\ log[s][i] \in Nat /\ log[s][i] <= now
  <2>1. n - i \in Nat /\ log[s][i] \in Nat /\ (n - i) + 1 = n + 1 - i
    BY <1>1
  <2>2. cost(i) = (n - i) * Interval + Interval /\ (n - i) * Interval \in Nat
    BY <2>1, Prices
  <2>3. /\ (n - i) * Interval + Interval + Level(s) <= Full + (now - log[s][i])
        /\ log[s][i] <= now
    BY <1>5 DEF Ledger, Paid
  <2> QED
    BY <1>1, <2>1, <2>2, <2>3
<1>8. cost(n + 1) = 0
  <2>1. n + 1 - (n + 1) = 0
    BY <1>1
  <2> QED
    BY <2>1, Prices
<1>9. ASSUME NEW i \in 1 .. n + 1,
             cost(i) + Interval + (Level(s) - Interval) <= Full + (now - log'[s][i])
      PROVE  Paid(s, i)'
  BY <1>5, <1>6, <1>9 DEF Paid, Full
<1>10. \A i \in 1 .. n + 1 : ((n + 1) - i) * Interval = cost(i)
  BY <1>1
<1> HIDE DEF n, cost
<1>11. ASSUME NEW i \in 1 .. n + 1
       PROVE  log'[s][i] <= now' /\ Paid(s, i)'
  <2>1. CASE i = n + 1
    <3>1. cost(i) + Interval + (Level(s) - Interval) <= Full + (now - log'[s][i])
      BY <1>1, <1>2, <1>5, <1>8, <2>1
    <3> QED
      BY <1>1, <1>5, <1>9, <2>1, <3>1
  <2>2. CASE i # n + 1
    <3>1. i \in 1 .. n
      BY <1>1, <2>2
    <3>2. /\ cost(i) + Level(s) <= Full + (now - log[s][i])
          /\ cost(i) \in Nat /\ log[s][i] \in Nat /\ log[s][i] <= now
      BY <1>7, <3>1
    <3>3. cost(i) + Interval + (Level(s) - Interval) <= Full + (now - log[s][i])
      BY <1>1, <1>2, <3>2
    <3>4. log'[s][i] = log[s][i]
      BY <1>5, <3>1
    <3> QED
      BY <1>9, <3>2, <3>3, <3>4
  <2> QED
    BY <2>1, <2>2
<1>12. Ledger(s)'
  <2>1. buckets'[s].lastRefill <= now'
    BY <1>1, <1>3
  <2>2. Level(s)' >= now' - log'[s][Len(log'[s])]
    BY <1>1, <1>2, <1>5, <1>6
  <2> QED
    BY <1>5, <1>11, <2>1, <2>2 DEF Ledger
<1>13. ASSUME NEW i \in 1 .. n + 1, NEW j \in 1 .. n + 1, i <= j
       PROVE  (j - i) * Interval + Interval <= Full + (log'[s][j] - log'[s][i])
  <2>1. CASE j # n + 1
    <3>1. i \in 1 .. n /\ j \in 1 .. n
      BY <1>1, <1>13, <2>1
    <3>2. log'[s][i] = log[s][i] /\ log'[s][j] = log[s][j]
      BY <1>5, <3>1
    <3>3. (j - i) * Interval + Interval <= Full + (log[s][j] - log[s][i])
      BY <1>5, <1>13, <3>1 DEF Even
    <3> QED
      BY <3>2, <3>3
  <2>2. CASE j = n + 1
    <3>1. (j - i) * Interval = cost(i) /\ log'[s][j] = now
      <4>1. log'[s][j] = now
        BY <1>5, <2>2
      <4>2. ((n + 1) - i) * Interval = cost(i)
        BY <1>10
      <4> QED
        BY <2>2, <4>1, <4>2
    <3>2. cost(i) + Interval <= Full + (now - log'[s][i])
      <4>1. CASE i = n + 1
        BY <1>1, <1>5, <1>8, <4>1
      <4>2. CASE i # n + 1
        <5>1. i \in 1 .. n
          BY <1>1, <4>2
        <5>2. /\ cost(i) + Level(s) <= Full + (now - log[s][i])
              /\ cost(i) \in Nat /\ log[s][i] \in Nat
          BY <1>7, <5>1
        <5>3. cost(i) + Interval <= Full + (now - log[s][i])
          <6>1. \A c, l, q \in Int : c + l <= q /\ Interval <= l => c + Interval <= q
            BY <1>1
          <6>2. /\ cost(i) \in Int /\ Level(s) \in Int /\ Interval <= Level(s)
                /\ Full + (now - log[s][i]) \in Int
            BY <1>1, <1>2, <5>2
          <6> QED
            BY <5>2, <6>1, <6>2
        <5> QED
          BY <1>5, <5>1, <5>3
      <4> QED
        BY <4>1, <4>2
    <3> QED
      BY <3>1, <3>2
  <2> QED
    BY <2>1, <2>2
<1> QED
  BY <1>5, <1>12, <1>13 DEF Even, Full

\* A prompt keeps the invariant, of its own session and of the others.
LEMMA ConsumeKeeps ==
    ASSUME BInv, NEW s \in Sess, Consume(s)
    PROVE  BInv'
<1>1. /\ BucketTypeOK /\ Ledger(s) /\ now' = now /\ keys' = keys \cup {s}
      /\ \A r \in Sess : Ledger(r) /\ Even(r)
      /\ now \in 0..MaxTime
  BY DEF BInv, WithinRate, Even, Consume, BucketTypeOK
<1>2. Level(s) \in 0..Full /\ Full \in Nat /\ Interval \in Nat
  BY <1>1, LevelFacts, PriceTypes DEF Ledger
<1>3. keys' \subseteq Sess
  BY <1>1 DEF BucketTypeOK
<1>4. /\ \A r \in Sess \ {s} : buckets'[r] = buckets[r] /\ log'[r] = log[r]
      /\ Ledger(s)' /\ Even(s)'
      /\ buckets' \in [Sess -> Bucket] /\ log' \in [Sess -> Seq(0..MaxTime)]
  <2>1. CASE Level(s) >= Interval
    <3>1. /\ buckets' = [buckets EXCEPT ![s] = [tokens |-> Level(s) - Interval,
                                                lastRefill |-> now]]
          /\ log' = [log EXCEPT ![s] = Append(@, now)]
      BY <2>1 DEF Consume
    <3>2. Ledger(s)' /\ Even(s)'
      BY <1>1, <2>1, <3>1, AdmittedLedger
    <3>3. [tokens |-> Level(s) - Interval, lastRefill |-> now] \in Bucket
      BY <1>1, <1>2, <2>1 DEF Bucket
    <3>4. log[s] \in Seq(0..MaxTime) /\ Append(log[s], now) \in Seq(0..MaxTime)
      BY <1>1 DEF BucketTypeOK
    <3> QED
      BY <1>1, <3>1, <3>2, <3>3, <3>4 DEF BucketTypeOK
  <2>2. CASE Level(s) < Interval
    <3>1. /\ buckets' = [buckets EXCEPT ![s] = [tokens |-> Level(s), lastRefill |-> now]]
          /\ log' = log
      BY <1>2, <2>2 DEF Consume
    <3>2. Ledger(s)'
      BY <1>1, <2>2, <3>1, RefusedLedger
    <3>3. [tokens |-> Level(s), lastRefill |-> now] \in Bucket
      BY <1>1, <1>2 DEF Bucket
    <3> QED
      BY <1>1, <3>1, <3>2, <3>3 DEF BucketTypeOK, Even, Full
  <2> QED
    BY <1>2, <2>1, <2>2
<1>5. BucketTypeOK'
  BY <1>1, <1>3, <1>4 DEF BucketTypeOK, Bucket, Full
<1>6. ASSUME NEW r \in Sess PROVE Ledger(r)' /\ Even(r)'
  <2>1. CASE r = s
    BY <1>4, <2>1
  <2>2. CASE r # s
    <3>1. Ledger(r)'
      BY <1>1, <1>4, <2>2, LedgerKept
    <3>2. Even(r)'
      BY <1>1, <1>4, <2>2 DEF Even, Full
    <3> QED
      BY <3>1, <3>2
  <2> QED
    BY <2>1, <2>2
<1> QED
  BY <1>5, <1>6 DEF BInv, WithinRate, Even

\* An empty log is even, and a session without a bucket has a full one.
LEMMA FreshLedger ==
    ASSUME NEW s \in Sess, s \notin keys, log[s] = <<>>, buckets[s].lastRefill <= now
    PROVE  Ledger(s) /\ Even(s)
  BY DEF Ledger, Even

\* The same after a step.
LEMMA FreshLedgerNext ==
    ASSUME NEW s \in Sess, s \notin keys', log'[s] = <<>>, buckets'[s].lastRefill <= now'
    PROVE  Ledger(s)' /\ Even(s)'
  BY DEF Ledger, Even

\* A deletion and a restart leave what they drop fresh.
LEMMA DropKeeps ==
    ASSUME BInv, NEW gone \in SUBSET Sess, now' = now, buckets' = buckets,
           keys' = keys \ gone,
           log' = [s \in Sess |-> IF s \in gone THEN <<>> ELSE log[s]]
    PROVE  BInv'
<1>1. BucketTypeOK /\ \A s \in Sess : Ledger(s) /\ Even(s)
  BY DEF BInv, WithinRate, Even
<1>2. log' \in [Sess -> Seq(0..MaxTime)]
  <2>1. \A s \in Sess : log[s] \in Seq(0..MaxTime)
    BY <1>1 DEF BucketTypeOK
  <2>2. <<>> \in Seq(0..MaxTime)
    OBVIOUS
  <2>3. \A s \in Sess : (IF s \in gone THEN <<>> ELSE log[s]) \in Seq(0..MaxTime)
    BY <2>1, <2>2
  <2> QED
    BY <2>3
<1>3. BucketTypeOK'
  BY <1>1, <1>2 DEF BucketTypeOK, Bucket, Full
<1>4. ASSUME NEW s \in Sess PROVE Ledger(s)' /\ Even(s)'
  <2>1. CASE s \in gone
    <3>1. buckets[s].lastRefill <= now
      BY <1>1 DEF Ledger
    <3> QED
      BY <2>1, <3>1, FreshLedgerNext
  <2>2. CASE s \notin gone
    <3>1. log'[s] = log[s] /\ (s \in keys' <=> s \in keys)
      BY <2>2
    <3>2. Ledger(s)'
      BY <1>1, <3>1, LedgerKept
    <3>3. Even(s)'
      BY <1>1, <3>1 DEF Even, Full
    <3> QED
      BY <3>2, <3>3
  <2> QED
    BY <2>1, <2>2
<1> QED
  BY <1>3, <1>4 DEF BInv, WithinRate, Even

LEMMA BucketInitially == BucketInit => BInv
<1> SUFFICES ASSUME BucketInit PROVE BInv
  OBVIOUS
<1>1. Full \in Nat /\ MaxTime \in Nat
  BY PriceTypes, ClockAssumption
<1>2. /\ now = 0 /\ keys = {} /\ \A s \in Sess : log[s] = <<>>
      /\ \A s \in Sess : buckets[s] = [tokens |-> Full, lastRefill |-> 0]
  BY DEF BucketInit
<1>3. BucketTypeOK
  BY <1>1 DEF BucketInit, BucketTypeOK, Bucket
<1>4. \A s \in Sess : Ledger(s) /\ Even(s)
  <2>1. SUFFICES ASSUME NEW s \in Sess PROVE Ledger(s) /\ Even(s)
    OBVIOUS
  <2>2. s \notin keys /\ log[s] = <<>> /\ buckets[s].lastRefill <= now
    BY <1>2
  <2> QED
    BY <2>2, FreshLedger
<1> QED
  BY <1>3, <1>4 DEF BInv, WithinRate, Even

LEMMA BucketStep == BInv /\ [BucketNext]_<<now, bucketVars>> => BInv'
<1> SUFFICES ASSUME BInv, [BucketNext]_<<now, bucketVars>> PROVE BInv'
  OBVIOUS
<1>1. BucketTypeOK
  BY DEF BInv
<1>2. CASE UNCHANGED <<now, bucketVars>>
  <2>1. log' = [s \in Sess |-> IF s \in {} THEN <<>> ELSE log[s]]
    BY <1>1, <1>2 DEF BucketTypeOK, bucketVars
  <2> QED
    BY <1>2, <2>1, DropKeeps DEF bucketVars
<1>3. CASE \E s \in Sess : Consume(s)
  BY <1>3, ConsumeKeeps
<1>4. ASSUME NEW s \in Sess, Drop(s), now' = now PROVE BInv'
  <2>1. log' = [r \in Sess |-> IF r \in {s} THEN <<>> ELSE log[r]]
    BY <1>1, <1>4 DEF Drop, BucketTypeOK
  <2> QED
    BY <1>4, <2>1, DropKeeps DEF Drop
<1>5. CASE Forget /\ now' = now
  <2>1. log' = [s \in Sess |-> IF s \in Sess THEN <<>> ELSE log[s]] /\ keys' = keys \ Sess
    BY <1>1, <1>5 DEF Forget, BucketTypeOK
  <2> QED
    BY <1>5, <2>1, DropKeeps DEF Forget
<1>6. CASE Tick /\ UNCHANGED bucketVars
  BY <1>6, TickKeeps
<1> QED
  BY <1>2, <1>3, <1>4, <1>5, <1>6 DEF BucketNext

\* The ledger pays for the rate and for the patience.
LEMMA LedgerPays == BInv => WithinRate /\ PatienceHelps
<1> SUFFICES ASSUME BInv PROVE PatienceHelps
  BY DEF BInv
<1>1. ASSUME NEW s \in Sess
      PROVE  \/ Level(s) >= Interval
             \/ log[s] # <<>> /\ now - log[s][Len(log[s])] < Interval
  <2>1. BucketTypeOK /\ Ledger(s)
    BY DEF BInv
  <2>2. log[s] \in Seq(Nat) /\ now \in Nat
    BY <2>1, BucketFacts
  <2>3. Interval \in Nat /\ Full \in Nat /\ Interval <= Full /\ Level(s) \in 0..Full
    BY <2>1, LevelFacts, PriceTypes DEF Ledger
  <2>4. CASE log[s] = <<>>
    <3>1. Level(s) = Full
      BY <2>1, <2>4 DEF Ledger, Level
    <3> QED
      BY <2>3, <3>1
  <2>5. CASE log[s] # <<>>
    <3>1. log[s][Len(log[s])] \in Nat
      BY <2>2, <2>5
    <3>2. Level(s) >= Full \/ Level(s) >= now - log[s][Len(log[s])]
      BY <2>1, <2>5 DEF Ledger
    <3> QED
      BY <2>2, <2>3, <2>5, <3>1, <3>2
  <2> QED
    BY <2>4, <2>5
<1> QED
  BY <1>1 DEF PatienceHelps

-----------------------------------------------------------------------------
(* The gates together *)

\* What the gates do to the bucket is what the bucket may do.
LEMMA GatesUseBucket == [Next]_vars => [BucketNext]_<<now, bucketVars>>
<1> SUFFICES ASSUME [Next]_vars PROVE [BucketNext]_<<now, bucketVars>>
  OBVIOUS
<1>1. CASE UNCHANGED vars
  BY <1>1 DEF vars
<1>2. CASE Handshake /\ UNCHANGED bucketVars
  BY <1>2 DEF Handshake, Begin, Callback, CallbackFails, CallbackEnds
<1>3. CASE Sockets /\ UNCHANGED bucketVars
  BY <1>3 DEF Sockets, SignOut, OpenSocket, UserOfCookie, LoseSocket
<1>4. ASSUME NEW t \in Tab, NEW s \in Sess,
             CreateSession(t, s) \/ DeleteSession(t, s) \/ Prompt(t, s)
      PROVE  [BucketNext]_<<now, bucketVars>>
  BY <1>4 DEF CreateSession, DeleteSession, Prompt, Create, Delete, BucketNext
<1>5. CASE Restart /\ Forget
  BY <1>5 DEF Restart, BucketNext
<1>6. CASE Tick /\ UNCHANGED <<signInVars, bucketVars>>
  BY <1>6 DEF BucketNext
<1> QED
  BY <1>1, <1>2, <1>3, <1>4, <1>5, <1>6 DEF Next

\* In no stretch of time are more prompts of a session admitted than the capacity
\* and what is refilled in it.
THEOREM RateHolds == Spec => []WithinRate
<1>1. Init => BInv
  BY BucketInitially DEF Init
<1>2. BInv /\ [Next]_vars => BInv'
  BY BucketStep, GatesUseBucket
<1> QED
  BY <1>1, <1>2, LedgerPays, PTL DEF Spec

\* Whoever has waited for one token is admitted, whatever was refused meanwhile.
THEOREM PatiencePays == Spec => []PatienceHelps
<1>1. Init => BInv
  BY BucketInitially DEF Init
<1>2. BInv /\ [Next]_vars => BInv'
  BY BucketStep, GatesUseBucket
<1> QED
  BY <1>1, <1>2, LedgerPays, PTL DEF Spec

-----------------------------------------------------------------------------
(* The sign-in *)

\* A state pays for one session: it is pending, waits at GitHub or has made one.
Spent(l) ==
    /\ try[l].waiting + try[l].rows <= 1
    /\ l \in pending => try[l].waiting + try[l].rows = 0
    /\ try[l].at = "none" => try[l].waiting + try[l].rows = 0

\* Who is away has a state that can be used, or a cause to be refused.
Expected(l) == try[l].at = "away" => l \in pending \/ expires[l] < now \/ l \in forgotten

\* Ids are given once, to one account, and never taken back; the owner of a
\* session has one.
Known ==
    /\ \A a \in Account : users[a] <= made
    /\ \A a, b \in Account : users[a] = users[b] /\ users[a] # Nobody => a = b
    /\ \A s \in Sess : owner[s].user # Nobody =>
          owner[s].account \in Account /\ users[owner[s].account] = owner[s].user

SignInTypes ==
    /\ now \in Nat /\ made \in Nat
    /\ expires \in [Login -> Nat]
    /\ try \in [Login -> Try]
    /\ users \in [Account -> Nat]
    /\ owner \in [Sess -> [user : Nat, account : Account \cup {"none", "deleted"}]]

SInv == SignInTypes /\ Known /\ \A l \in Login : Spent(l) /\ Expected(l)

\* A step that leaves ids and owners alone keeps them known.
LEMMA KnownKept ==
    ASSUME Known, UNCHANGED <<users, made, owner>>
    PROVE  Known'
  BY DEF Known

\* Begin, Callback and CallbackFails touch one attempt.
LEMMA AttemptKeeps ==
    ASSUME SInv, NEW l \in Login, NEW a \in Account,
           Begin(l) \/ Callback(l, a) \/ CallbackFails(l)
    PROVE  SInv'
<1>1. SignInTypes /\ Known /\ \A k \in Login : Spent(k) /\ Expected(k)
  BY DEF SInv
<1>2. UNCHANGED <<now, users, made, owner, forgotten>> /\ try[l] \in Try
  BY <1>1 DEF Begin, Callback, CallbackFails, SignInTypes
<1>3. Known'
  BY <1>1, <1>2, KnownKept
<1>4. ASSUME NEW k \in Login, k # l PROVE Spent(k)' /\ Expected(k)'
  <2>1. /\ try'[k] = try[k] /\ expires'[k] = expires[k]
        /\ pending' \cap {k} \subseteq pending
        /\ k \in pending /\ k \notin pending' => expires[k] < now
    BY <1>1, <1>4 DEF Begin, Callback, CallbackFails, Live, SignInTypes
  <2>2. Spent(k) /\ Expected(k)
    BY <1>1
  <2>3. Spent(k)'
    BY <2>1, <2>2 DEF Spent
  <2>4. Expected(k)'
    BY <1>2, <2>1, <2>2 DEF Expected
  <2> QED
    BY <2>3, <2>4
<1>5. CASE Begin(l)
  <2>1. /\ try' = [try EXCEPT ![l] = [try[l] EXCEPT !.at = "away"]]
        /\ expires' = [expires EXCEPT ![l] = now + Lifetime]
        /\ try[l].at = "none" /\ l \in pending'
    BY <1>5 DEF Begin
  <2>2. [try[l] EXCEPT !.at = "away"] \in Try
    BY <1>2 DEF Try
  <2>3. SignInTypes'
    BY <1>1, <1>2, <2>1, <2>2, SignInAssumption DEF SignInTypes
  <2>4. Spent(l)'
    BY <1>1, <2>1 DEF Spent, SignInTypes, Try
  <2>5. Expected(l)'
    BY <2>1 DEF Expected
  <2> QED
    BY <1>3, <1>4, <2>3, <2>4, <2>5 DEF SInv
<1>6. CASE Callback(l, a)
  <2> DEFINE new == Looked(l, a)
  <2>1. /\ try' = [try EXCEPT ![l] = new] /\ expires' = expires
        /\ try[l].at # "none" /\ l \notin pending'
    <3>1. try[l].at # "none"
      BY <1>6 DEF Callback, ComesBack
    <3>2. l \notin pending' /\ expires' = expires
      BY <1>6 DEF Callback
    <3>3. try' = [try EXCEPT ![l] = new]
      BY <1>6 DEF Callback
    <3> QED
      BY <3>1, <3>2, <3>3
  <2>2. new \in Try
    <3>1. try[l].waiting + 1 \in Nat
      BY <1>2 DEF Try
    <3>2. CASE l \in Live
      BY <1>2, <3>1, <3>2 DEF Try, Looked
    <3>3. CASE l \notin Live
      BY <1>2, <3>3 DEF Try, Looked
    <3> QED
      BY <3>2, <3>3
  <2>3. SignInTypes'
    BY <1>1, <1>2, <2>1, <2>2 DEF SignInTypes
  <2>4. /\ try'[l] = new /\ new.at \in {"back", "refused"} /\ new.rows = try[l].rows
        /\ \/ l \in pending /\ new.waiting = try[l].waiting + 1
           \/ new.waiting = try[l].waiting
    BY <1>1, <1>2, <2>1 DEF SignInTypes, Live, Try, Looked
  <2>5. try[l].waiting \in Nat /\ try[l].rows \in Nat /\ Spent(l)
    BY <1>1, <1>2 DEF Try
  <2> HIDE DEF new
  <2>6. Spent(l)'
    BY <2>1, <2>4, <2>5 DEF Spent
  <2>7. Expected(l)'
    BY <2>4 DEF Expected
  <2> QED
    BY <1>3, <1>4, <2>3, <2>6, <2>7 DEF SInv
<1>7. CASE CallbackFails(l)
  <2> DEFINE new == [try[l] EXCEPT !.waiting = try[l].waiting - 1,
                        !.at = IF try[l].at = "back" THEN "refused" ELSE try[l].at]
  <2>1. /\ try' = [try EXCEPT ![l] = new] /\ expires' = expires /\ pending' = pending
        /\ try[l].waiting > 0
    BY <1>1, <1>7 DEF CallbackFails, SignInTypes, Try
  <2>2. new \in Try /\ try[l].waiting \in Nat /\ try[l].rows \in Nat
    <3>1. /\ try[l].waiting \in Nat /\ try[l].rows \in Nat
          /\ try[l].waiting - 1 \in Nat
      BY <1>2, <2>1 DEF Try
    <3>2. (IF try[l].at = "back" THEN "refused" ELSE try[l].at)
              \in {"none", "away", "back", "in", "refused"}
      BY <1>2 DEF Try
    <3> QED
      BY <1>2, <3>1, <3>2 DEF Try
  <2>3. SignInTypes'
    BY <1>1, <1>2, <2>1, <2>2 DEF SignInTypes
  <2>4. /\ try'[l] = new /\ new.rows = try[l].rows /\ new.waiting = try[l].waiting - 1
        /\ new.at = try[l].at \/ new.at = "refused"
    BY <1>1, <1>2, <2>1 DEF SignInTypes, Try
  <2> HIDE DEF new
  <2>5. Spent(l)' /\ Expected(l)'
    BY <1>1, <1>2, <2>1, <2>2, <2>4 DEF Spent, Expected
  <2> QED
    BY <1>3, <1>4, <2>3, <2>5 DEF SInv
<1> QED
  BY <1>5, <1>6, <1>7

\* The callback that ends gives an id to an account that has none.
LEMMA EndingKeeps ==
    ASSUME SInv, NEW l \in Login, CallbackEnds(l)
    PROVE  SInv'
<1> DEFINE a == try[l].account
           new == [try[l] EXCEPT !.waiting = @ - 1, !.rows = @ + 1,
                                 !.at = IF @ = "back" THEN "in" ELSE @]
<1>1. /\ SignInTypes /\ Known /\ \A k \in Login : Spent(k) /\ Expected(k)
      /\ try[l] \in Try /\ a \in Account
  BY DEF SInv, SignInTypes, Try
<1>2. /\ UNCHANGED <<now, pending, expires, owner, forgotten>> /\ made' = made + 1
      /\ users' = Upsert(a, made') /\ try[l].waiting > 0
  BY DEF CallbackEnds
<1>3. /\ try' \in [Login -> Try] /\ \A k \in Login \ {l} : try'[k] = try[k]
      /\ try'[l].waiting + try'[l].rows = try[l].waiting + try[l].rows
      /\ try'[l].at = try[l].at \/ try'[l].at = "in"
  <2>1. try' = [try EXCEPT ![l] = new]
    BY DEF CallbackEnds
  <2>2. /\ try[l].waiting \in Nat /\ try[l].rows \in Nat /\ try[l].waiting - 1 \in Nat
        /\ try[l].rows + 1 \in Nat
    BY <1>1, <1>2 DEF Try
  <2>3. (IF try[l].at = "back" THEN "in" ELSE try[l].at)
            \in {"none", "away", "back", "in", "refused"}
    BY <1>1 DEF Try
  <2>4. new \in Try
    BY <1>1, <2>2, <2>3 DEF Try
  <2>5. /\ new.waiting = try[l].waiting - 1 /\ new.rows = try[l].rows + 1
        /\ new.at = try[l].at \/ new.at = "in"
    BY <1>1 DEF Try
  <2> HIDE DEF new
  <2>6. try'[l] = new /\ try' \in [Login -> Try] /\ \A k \in Login \ {l} : try'[k] = try[k]
    BY <1>1, <2>1, <2>4 DEF SignInTypes
  <2> QED
    BY <2>2, <2>5, <2>6
<1> HIDE DEF a
<1>4. /\ made' \in Nat /\ users' \in [Account -> Nat]
      /\ \A b \in Account : users'[b] = IF b = a /\ users[a] = Nobody THEN made' ELSE users[b]
  BY <1>1, <1>2 DEF SignInTypes, Upsert
<1>5. SignInTypes'
  BY <1>1, <1>2, <1>3, <1>4 DEF SignInTypes
<1>6. Known'
  <2>1. \A b \in Account : users[b] \in Nat /\ users[b] <= made /\ made \in Nat
    BY <1>1 DEF Known, SignInTypes
  <2>2. \A b \in Account : users'[b] <= made'
    BY <1>2, <1>4, <2>1
  <2>3. ASSUME NEW b \in Account, NEW c \in Account, users'[b] = users'[c], users'[b] # Nobody
        PROVE  b = c
    BY <1>1, <1>2, <1>4, <2>1, <2>3 DEF Known, Nobody
  <2>4. ASSUME NEW s \in Sess, owner'[s].user # Nobody
        PROVE  owner'[s].account \in Account /\ users'[owner'[s].account] = owner'[s].user
    BY <1>1, <1>2, <1>4, <2>4 DEF Known
  <2> QED
    BY <2>2, <2>3, <2>4 DEF Known
<1>7. ASSUME NEW k \in Login PROVE Spent(k)' /\ Expected(k)'
  <2>1. Spent(k) /\ Expected(k)
    BY <1>1
  <2>2. CASE k = l
    BY <1>2, <1>3, <2>1, <2>2 DEF Spent, Expected
  <2>3. CASE k # l
    BY <1>2, <1>3, <2>1, <2>3 DEF Spent, Expected
  <2> QED
    BY <2>2, <2>3
<1> QED
  BY <1>5, <1>6, <1>7 DEF SInv

\* A session is made by a user, who has an id, and may be deleted.
LEMMA OwningKeeps ==
    ASSUME SInv, NEW t \in Tab, NEW s \in Sess, Create(t, s) \/ Delete(t, s)
    PROVE  SInv'
<1>1. SignInTypes /\ Known
  BY DEF SInv
<1>2. UNCHANGED <<now, pending, expires, try, users, made, forgotten>>
  BY DEF Create, Delete
<1>3. PICK o \in [user : Nat, account : Account \cup {"none", "deleted"}] :
          /\ owner' = [owner EXCEPT ![s] = o]
          /\ o.user # Nobody => o.account \in Account /\ users[o.account] = o.user
  <2>1. CASE Create(t, s)
    <3>1. PICK a \in Account :
              /\ users[a] = socket[t]
              /\ owner' = [owner EXCEPT ![s] = [user |-> socket[t], account |-> a]]
      BY <2>1 DEF Create
    <3> DEFINE own == [user |-> socket[t], account |-> a]
    <3>2. own \in [user : Nat, account : Account \cup {"none", "deleted"}]
      BY <1>1, <3>1 DEF SignInTypes
    <3>3. own.account \in Account /\ users[own.account] = own.user
      BY <3>1
    <3>4. owner' = [owner EXCEPT ![s] = own]
      BY <3>1
    <3> HIDE DEF own
    <3> QED
      BY <3>2, <3>3, <3>4
  <2>2. CASE Delete(t, s)
    <3>1. Deleted \in [user : Nat, account : Account \cup {"none", "deleted"}]
          /\ Deleted.user = Nobody
      BY DEF Deleted, Nobody
    <3> QED
      BY <2>2, <3>1 DEF Delete
  <2> QED
    BY <2>1, <2>2
<1>4. /\ owner' \in [Sess -> [user : Nat, account : Account \cup {"none", "deleted"}]]
      /\ \A r \in Sess : owner'[r] = IF r = s THEN o ELSE owner[r]
  BY <1>1, <1>3 DEF SignInTypes
<1>5. SignInTypes'
  BY <1>1, <1>2, <1>4 DEF SignInTypes
<1>6. Known'
  BY <1>1, <1>2, <1>3, <1>4 DEF Known
<1>7. \A k \in Login : Spent(k)' /\ Expected(k)'
  BY <1>2 DEF SInv, Spent, Expected
<1> QED
  BY <1>5, <1>6, <1>7 DEF SInv

\* A restart forgets the states, and who was away has a cause.
LEMMA RestartKeeps ==
    ASSUME SInv, Restart
    PROVE  SInv'
<1>1. SignInTypes /\ Known /\ \A k \in Login : Spent(k)
  BY DEF SInv
<1>2. /\ UNCHANGED <<now, expires, users, made, owner>> /\ pending' = {}
      /\ forgotten' = {l \in Login : try[l].at = "away"}
  BY DEF Restart
<1>3. Known'
  BY <1>1, <1>2, KnownKept
<1>4. ASSUME NEW l \in Login
      PROVE  /\ try'[l] \in Try /\ try'[l].waiting = 0 /\ try'[l].rows = try[l].rows
             /\ try'[l].at = try[l].at \/ try'[l].at = "refused"
  BY <1>1 DEF Restart, SignInTypes, Try
<1>5. try' \in [Login -> Try]
  <2>1. try' = [l \in Login |-> try'[l]]
    BY DEF Restart
  <2> QED
    BY <1>4, <2>1
<1>6. SignInTypes'
  BY <1>1, <1>2, <1>5 DEF SignInTypes
<1>7. ASSUME NEW l \in Login PROVE Spent(l)' /\ Expected(l)'
  <2>1. try[l].waiting \in Nat /\ try[l].rows \in Nat /\ Spent(l)
    BY <1>1 DEF SignInTypes, Try
  <2>2. Spent(l)'
    BY <1>2, <1>4, <2>1 DEF Spent
  <2>3. Expected(l)'
    BY <1>2, <1>4 DEF Expected
  <2> QED
    BY <2>2, <2>3
<1> QED
  BY <1>3, <1>6, <1>7 DEF SInv

\* Time lets states expire, and keeps the rest.
LEMMA WaitingKeeps ==
    ASSUME SInv, Tick, UNCHANGED signInVars
    PROVE  SInv'
<1>1. SignInTypes /\ Known /\ now' = now + 1
  BY DEF SInv, Tick
<1>2. SignInTypes' /\ Known'
  BY <1>1, KnownKept DEF SignInTypes, signInVars
<1>3. ASSUME NEW l \in Login PROVE Spent(l)' /\ Expected(l)'
  <2>1. expires[l] \in Nat /\ now \in Nat /\ Spent(l) /\ Expected(l)
    BY <1>1 DEF SInv, SignInTypes
  <2> QED
    BY <1>1, <2>1 DEF Spent, Expected, signInVars
<1> QED
  BY <1>2, <1>3 DEF SInv

\* Whatever leaves these alone keeps the invariant: sockets and prompts.
LEMMA SocketsKeep ==
    ASSUME SInv, UNCHANGED <<now, pending, expires, try, users, made, owner, forgotten>>
    PROVE  SInv'
  BY DEF SInv, SignInTypes, Known, Spent, Expected

LEMMA SignInInitially == Init => SInv
<1> SUFFICES ASSUME Init PROVE SInv
  OBVIOUS
<1>1. /\ pending = {} /\ made = 0 /\ now = 0 /\ users = [a \in Account |-> Nobody]
      /\ expires = [l \in Login |-> 0] /\ owner = [s \in Sess |-> Unowned]
      /\ try \in [Login -> [at : {"none"}, account : {CHOOSE a \in Account : TRUE},
                            waiting : {0}, rows : {0}]]
  BY DEF Init, SignInInit, BucketInit
<1>2. (CHOOSE a \in Account : TRUE) \in Account
  BY SignInAssumption
<1>3. \A l \in Login : /\ try[l] \in Try /\ try[l].at = "none"
                       /\ try[l].waiting = 0 /\ try[l].rows = 0
  BY <1>1, <1>2 DEF Try
<1>4. try \in [Login -> Try]
  BY <1>1, <1>3
<1>5. SignInTypes
  BY <1>1, <1>4 DEF SignInTypes, Nobody, Unowned
<1>6. Known
  BY <1>1 DEF Known, Nobody, Unowned
<1>7. \A l \in Login : Spent(l) /\ Expected(l)
  BY <1>1, <1>3 DEF Spent, Expected
<1> QED
  BY <1>5, <1>6, <1>7 DEF SInv

LEMMA SignInStep == SInv /\ [Next]_vars => SInv'
<1> SUFFICES ASSUME SInv, [Next]_vars PROVE SInv'
  OBVIOUS
<1>1. CASE UNCHANGED vars
  BY <1>1, SocketsKeep DEF vars, signInVars
<1>2. CASE Handshake
  BY <1>2, AttemptKeeps, EndingKeeps, SignInAssumption DEF Handshake
<1>3. CASE Sockets
  BY <1>3, SocketsKeep DEF Sockets, SignOut, OpenSocket, UserOfCookie, LoseSocket
<1>4. ASSUME NEW t \in Tab, NEW s \in Sess,
             CreateSession(t, s) \/ DeleteSession(t, s) \/ Prompt(t, s)
      PROVE  SInv'
  BY <1>4, OwningKeeps, SocketsKeep
     DEF CreateSession, DeleteSession, Prompt, Consume, signInVars
<1>5. CASE Restart
  BY <1>5, RestartKeeps
<1>6. CASE Tick /\ UNCHANGED <<signInVars, bucketVars>>
  BY <1>6, WaitingKeeps
<1> QED
  BY <1>1, <1>2, <1>3, <1>4, <1>5, <1>6 DEF Next

\* One trip to GitHub signs in at most once, however often the user comes back.
THEOREM SignsInOnce == Spec => []OneSessionPerLogin
<1>1. SInv => OneSessionPerLogin
  <2>1. ASSUME SInv, NEW l \in Login PROVE try[l].rows <= 1
    <3>1. try[l].waiting \in Nat /\ try[l].rows \in Nat
      BY <2>1 DEF SInv, SignInTypes, Try
    <3>2. try[l].waiting + try[l].rows <= 1
      BY <2>1 DEF SInv, Spent
    <3> QED
      BY <3>1, <3>2
  <2> QED
    BY <2>1 DEF OneSessionPerLogin
<1> QED
  BY <1>1, SignInInitially, SignInStep, PTL DEF Spec

\* A session stays with the account that made it, and with no other.
THEOREM SessionsStay == Spec => []SessionsStayReachable
<1>1. SInv => SessionsStayReachable
  BY DEF SInv, Known, SessionsStayReachable
<1> QED
  BY <1>1, SignInInitially, SignInStep, PTL DEF Spec

\* Who comes back is refused only when the state is too old, or was lost with the
\* server that gave it.
THEOREM RefusalHasCause == Spec => RefusedForCause
<1> DEFINE Cause == \A l \in Login :
               try[l].at = "away" /\ try'[l].at = "refused" =>
                   expires[l] < now \/ l \in forgotten
<1>1. SInv /\ [Next]_vars => [Cause]_<<now, signInVars>>
  <2> SUFFICES ASSUME SInv, [Next]_vars, NEW l \in Login,
                      try[l].at = "away", try'[l].at = "refused"
               PROVE  expires[l] < now \/ l \in forgotten
    OBVIOUS
  <2>1. /\ try \in [Login -> Try] /\ Expected(l)
    BY DEF SInv, SignInTypes
  <2>2. PICK k \in Login, a \in Account : Callback(k, a)
    <3>1. ASSUME NEW k \in Login, Begin(k) PROVE FALSE
      BY <2>1, <3>1 DEF Begin, Try
    <3>2. ASSUME NEW k \in Login, CallbackFails(k) PROVE FALSE
      BY <2>1, <3>2 DEF CallbackFails, Try
    <3>3. ASSUME NEW k \in Login, CallbackEnds(k) PROVE FALSE
      BY <2>1, <3>3 DEF CallbackEnds, Try
    <3>4. CASE Restart
      BY <2>1, <3>4 DEF Restart, Try
    <3>5. try' # try
      OBVIOUS
    <3> QED
      BY <3>1, <3>2, <3>3, <3>4, <3>5
         DEF Next, vars, signInVars, Handshake, Sockets, SignOut, OpenSocket, UserOfCookie, LoseSocket,
             CreateSession, DeleteSession, Prompt, Create, Delete
  <2>3. k = l /\ l \notin Live
    BY <2>1, <2>2 DEF Callback, Looked, Try
  <2> QED
    BY <2>1, <2>3 DEF Live, Expected
<1> QED
  BY <1>1, SignInInitially, SignInStep, PTL DEF Spec, RefusedForCause

\* Every bucket belongs to a session that exists: the map does not outgrow them.
THEOREM BucketsBelong == Spec => []BucketsOfSessions
<1>1. Init => SInv /\ BInv /\ BucketsOfSessions
  BY SignInInitially, BucketInitially DEF Init, BucketInit, BucketsOfSessions
<1>2. SInv /\ BInv /\ BucketsOfSessions /\ [Next]_vars => SInv' /\ BInv' /\ BucketsOfSessions'
  <2> SUFFICES ASSUME SInv, BInv, BucketsOfSessions, [Next]_vars PROVE BucketsOfSessions'
    BY SignInStep, BucketStep, GatesUseBucket
  <2>1. /\ owner \in [Sess -> [user : Nat, account : Account \cup {"none", "deleted"}]]
        /\ keys \subseteq Sess
    BY DEF SInv, SignInTypes, BInv, BucketTypeOK
  <2>2. CASE owner' = owner /\ keys' \subseteq keys
    BY <2>2 DEF BucketsOfSessions
  <2>3. ASSUME NEW t \in Tab, NEW s \in Sess, Create(t, s), UNCHANGED bucketVars
        PROVE  BucketsOfSessions'
    BY <2>1, <2>3 DEF Create, BucketsOfSessions, bucketVars
  <2>4. ASSUME NEW t \in Tab, NEW s \in Sess, Delete(t, s), Drop(s)
        PROVE  BucketsOfSessions'
    BY <2>1, <2>4 DEF Delete, Drop, BucketsOfSessions
  <2>5. ASSUME NEW t \in Tab, NEW s \in Sess, Prompt(t, s)
        PROVE  BucketsOfSessions'
    BY <2>5 DEF Prompt, Owns, Consume, BucketsOfSessions, signInVars
  <2>6. CASE Handshake /\ UNCHANGED bucketVars
    BY <2>2, <2>6 DEF Handshake, Begin, Callback, CallbackFails, CallbackEnds, bucketVars
  <2>7. CASE Sockets /\ UNCHANGED bucketVars
    BY <2>2, <2>7 DEF Sockets, SignOut, OpenSocket, UserOfCookie, LoseSocket, bucketVars
  <2>8. CASE Restart /\ Forget
    BY <2>8 DEF Forget, BucketsOfSessions
  <2>9. CASE UNCHANGED <<signInVars, bucketVars>>
    BY <2>2, <2>9 DEF signInVars, bucketVars
  <2> QED
    BY <2>3, <2>4, <2>5, <2>6, <2>7, <2>8, <2>9
       DEF Next, CreateSession, DeleteSession, vars
<1> QED
  BY <1>1, <1>2, PTL DEF Spec
-----------------------------------------------------------------------------
(* Types *)

\* The attempts that have made their one row.
SignedIn == {l \in Login : try[l].rows = 1}

\* Every row was made by an attempt, once, and so the ids run out with them.
Counted == made = Cardinality(SignedIn)

TInv == SInv /\ BInv /\ Counted /\ SignInTypeOK

\* A callback that ends counts an attempt that had made no row.
LEMMA EndingCounts ==
    ASSUME TInv, SInv', NEW l \in Login, CallbackEnds(l)
    PROVE  Counted' /\ made' \in 0 .. Cardinality(Login)
<1>1. /\ try \in [Login -> Try] /\ Spent(l) /\ try[l].waiting > 0
      /\ made = Cardinality(SignedIn) /\ made' = made + 1
  BY DEF TInv, SInv, SignInTypes, CallbackEnds, Counted
<1>2. /\ \A k \in Login \ {l} : try'[k] = try[k]
      /\ try'[l].rows = try[l].rows + 1
  <2>1. try[l] \in Try
    BY <1>1
  <2> QED
    BY <1>1, <2>1 DEF CallbackEnds, Try
<1>3. try[l].rows = 0
  BY <1>1 DEF Spent, Try
<1>4. SignedIn' = SignedIn \cup {l} /\ l \notin SignedIn
  BY <1>2, <1>3 DEF SignedIn
<1>5. IsFiniteSet(SignedIn) /\ SignedIn' \subseteq Login /\ IsFiniteSet(Login)
  BY SignInAssumption, FS_Subset DEF SignedIn
<1>6. Cardinality(SignedIn') = Cardinality(SignedIn) + 1
  BY <1>4, <1>5, FS_AddElement
<1>7. Cardinality(SignedIn') <= Cardinality(Login) /\ Cardinality(Login) \in Nat
      /\ Cardinality(SignedIn) \in Nat
  BY <1>5, FS_Subset, FS_CardinalityType
<1>8. Counted'
  BY <1>1, <1>6 DEF Counted
<1> QED
  BY <1>1, <1>6, <1>7, <1>8

\* A step that leaves the rows alone counts as many.
LEMMA CountKept ==
    ASSUME Counted, made' = made, \A l \in Login : try'[l].rows = try[l].rows
    PROVE  Counted'
<1>1. SignedIn' = SignedIn
  BY DEF SignedIn
<1> QED
  BY <1>1 DEF Counted

LEMMA AttemptTypes ==
    ASSUME TInv, SInv', NEW l \in Login, NEW a \in Account,
           Begin(l) \/ Callback(l, a) \/ CallbackFails(l)
    PROVE  Counted' /\ SignInTypeOK'
<1>1. /\ SignInTypeOK /\ SInv /\ now \in 0..MaxTime /\ Lifetime \in Nat
      /\ MaxAgain \in Nat /\ MaxTime \in Nat /\ Counted
  BY SignInAssumption, ClockAssumption DEF TInv, BInv, BucketTypeOK
<1>2. UNCHANGED <<users, logins, made, cookie, socket, owner, forgotten>>
  BY DEF Begin, Callback, CallbackFails
<1>3. pending' \subseteq Login
  BY <1>1 DEF Begin, Callback, CallbackFails, Live, SignInTypeOK
<1>4. expires' \in [Login -> 0 .. MaxTime + Lifetime]
  <2>1. CASE Begin(l)
    BY <1>1, <2>1 DEF Begin, SignInTypeOK
  <2>2. CASE expires' = expires
    BY <1>1, <2>2 DEF SignInTypeOK
  <2> QED
    BY <2>1, <2>2 DEF Callback, CallbackFails
<1>5. try' \in [Login -> Try]
  BY DEF SInv, SignInTypes
<1>6. used' \in [again : 0..MaxAgain, restarts : 0..MaxRestarts]
  <2>1. CASE used' = used
    BY <1>1, <2>1 DEF SignInTypeOK
  <2>2. CASE Callback(l, a)
    <3>1. used.again \in 0..MaxAgain
      BY <1>1 DEF SignInTypeOK
    <3> QED
      BY <1>1, <2>2, <3>1 DEF Callback, ComesBack, SignInTypeOK
  <2> QED
    BY <2>1, <2>2 DEF Begin, CallbackFails
<1>7. \A k \in Login : try'[k].rows = try[k].rows
  <2>1. try \in [Login -> Try] /\ try[l] \in Try
    BY <1>1 DEF SignInTypeOK
  <2>2. CASE Begin(l)
    BY <2>1, <2>2 DEF Begin, Try
  <2>3. CASE Callback(l, a)
    <3>1. try' = [try EXCEPT ![l] = Looked(l, a)] /\ Looked(l, a).rows = try[l].rows
      BY <2>1, <2>3 DEF Callback, Looked, Try
    <3> QED
      BY <2>1, <3>1
  <2>4. CASE CallbackFails(l)
    BY <2>1, <2>4 DEF CallbackFails, Try
  <2> QED
    BY <2>2, <2>3, <2>4
<1> QED
  BY <1>1, <1>2, <1>3, <1>4, <1>5, <1>6, <1>7, CountKept DEF SignInTypeOK

LEMMA EndingTypes ==
    ASSUME TInv, SInv', NEW l \in Login, CallbackEnds(l)
    PROVE  Counted' /\ SignInTypeOK'
<1>1. SignInTypeOK /\ SInv
  BY DEF TInv
<1>2. /\ UNCHANGED <<pending, expires, socket, owner, forgotten, used>>
      /\ made' = made + 1 /\ users' = Upsert(try[l].account, made')
      /\ logins' = logins \cup {[sid |-> made', user |-> users'[try[l].account]]}
      /\ cookie' \in {made', cookie}
  BY DEF CallbackEnds
<1>3. Counted' /\ made' \in 0 .. Cardinality(Login)
  BY EndingCounts
<1>4. made \in Nat /\ try[l].account \in Account
  BY <1>1 DEF SInv, SignInTypes, Try
<1> DEFINE Old == {Nobody} \cup 1..made
           New == {Nobody} \cup 1..made'
<1>5. Old \subseteq New /\ 1..made \subseteq 1..made' /\ made' \in 1..made'
  BY <1>2, <1>4
<1>6. /\ users' \in [Account -> New]
      /\ users'[try[l].account] \in 1..made'
  <2>1. users \in [Account -> Old]
    BY <1>1 DEF SignInTypeOK
  <2> HIDE DEF Old, New
  <2>2. made' \in New /\ users \in [Account -> New]
    BY <1>5, <2>1 DEF New
  <2>3. users[try[l].account] \in {Nobody} \cup 1..made
    BY <1>4, <2>1 DEF Old
  <2> QED
    BY <1>2, <1>4, <1>5, <2>2, <2>3 DEF Upsert
<1>7. logins' \subseteq [sid : 1..made', user : 1..made']
  <2>1. logins \subseteq [sid : 1..made, user : 1..made]
    BY <1>1 DEF SignInTypeOK
  <2> QED
    BY <1>2, <1>5, <1>6, <2>1
<1>8. cookie' \in New /\ socket' \in [Tab -> New]
  <2>1. cookie \in Old /\ socket \in [Tab -> Old]
    BY <1>1 DEF SignInTypeOK
  <2>2. made' \in New
    BY <1>5
  <2> HIDE DEF Old, New
  <2> QED
    BY <1>2, <1>5, <2>1, <2>2
<1>9. owner' \in [Sess -> [user : New, account : Account \cup {"none", "deleted"}]]
  <2>1. owner \in [Sess -> [user : Old, account : Account \cup {"none", "deleted"}]]
    BY <1>1 DEF SignInTypeOK
  <2> HIDE DEF Old, New
  <2> QED
    BY <1>2, <1>5, <2>1
<1>10. try' \in [Login -> Try]
  BY DEF SInv, SignInTypes
<1> QED
  BY <1>1, <1>2, <1>3, <1>6, <1>7, <1>8, <1>9, <1>10 DEF SignInTypeOK

\* The steps of sockets, sessions, prompts and time, and a restart.
LEMMA OthersTypes ==
    ASSUME TInv, SInv',
           \/ Sockets
           \/ \E t \in Tab, s \in Sess : Create(t, s) \/ Delete(t, s)
           \/ Restart
           \/ UNCHANGED signInVars
    PROVE  Counted' /\ SignInTypeOK'
<1>1. SignInTypeOK /\ SInv /\ Counted /\ MaxRestarts \in Nat
  BY SignInAssumption DEF TInv
<1>2. try' \in [Login -> Try]
  BY DEF SInv, SignInTypes
<1>3. CASE Sockets
  <2>1. UNCHANGED <<pending, expires, try, users, made, owner, forgotten, used>>
    BY <1>3 DEF Sockets, SignOut, OpenSocket, LoseSocket
  <2>2. /\ logins' \subseteq logins
        /\ cookie' \in {cookie, Nobody}
    BY <1>3 DEF Sockets, SignOut, OpenSocket, LoseSocket
  <2>3. socket' \in [Tab -> {Nobody} \cup 1..made]
    BY <1>1, <1>3 DEF Sockets, SignOut, OpenSocket, UserOfCookie, LoseSocket, SignInTypeOK
  <2> QED
    BY <1>1, <2>1, <2>2, <2>3, CountKept DEF SignInTypeOK
<1>4. ASSUME NEW t \in Tab, NEW s \in Sess, Create(t, s) \/ Delete(t, s)
      PROVE  Counted' /\ SignInTypeOK'
  <2>1. UNCHANGED <<pending, expires, try, users, logins, made, cookie, socket,
                    forgotten, used>>
    BY <1>4 DEF Create, Delete
  <2>2. PICK o \in [user : {Nobody} \cup 1..made, account : Account \cup {"none", "deleted"}] :
            owner' = [owner EXCEPT ![s] = o]
    <3>1. CASE Create(t, s)
      <4>1. PICK a \in Account : owner' = [owner EXCEPT ![s] = [user |-> socket[t], account |-> a]]
        BY <3>1 DEF Create
      <4>2. [user |-> socket[t], account |-> a]
                \in [user : {Nobody} \cup 1..made, account : Account \cup {"none", "deleted"}]
        BY <1>1 DEF SignInTypeOK
      <4> QED
        BY <4>1, <4>2
    <3>2. CASE Delete(t, s)
      BY <3>2 DEF Delete, Deleted
    <3> QED
      BY <1>4, <3>1, <3>2
  <2>3. owner' \in [Sess -> [user : {Nobody} \cup 1..made,
                             account : Account \cup {"none", "deleted"}]]
    BY <1>1, <2>2 DEF SignInTypeOK
  <2> QED
    BY <1>1, <2>1, <2>3, CountKept DEF SignInTypeOK
<1>5. CASE Restart
  <2>1. /\ UNCHANGED <<expires, users, logins, made, cookie, owner>>
        /\ pending' = {} /\ forgotten' \subseteq Login
        /\ socket' = [t \in Tab |-> Nobody]
    BY <1>5 DEF Restart
  <2>2. used' \in [again : 0..MaxAgain, restarts : 0..MaxRestarts]
    <3>1. used \in [again : 0..MaxAgain, restarts : 0..MaxRestarts]
      BY <1>1 DEF SignInTypeOK
    <3>2. /\ used.restarts \in 0..MaxRestarts /\ used.restarts < MaxRestarts
          /\ used' = [used EXCEPT !.restarts = used.restarts + 1]
      BY <1>5, <3>1 DEF Restart
    <3>3. used.restarts + 1 \in 0..MaxRestarts
      BY <1>1, <3>2
    <3> QED
      BY <3>1, <3>2, <3>3
  <2>3. \A k \in Login : try'[k].rows = try[k].rows
    BY <1>1, <1>5 DEF Restart, SignInTypeOK, Try
  <2> QED
    BY <1>1, <1>2, <2>1, <2>2, <2>3, CountKept DEF SignInTypeOK
<1>6. CASE UNCHANGED signInVars
  BY <1>1, <1>2, <1>6, CountKept DEF SignInTypeOK, signInVars
<1> QED
  BY <1>3, <1>4, <1>5, <1>6

LEMMA TypesInitially == Init => TInv
<1> SUFFICES ASSUME Init PROVE TInv
  OBVIOUS
<1>1. SInv /\ BInv
  BY SignInInitially, BucketInitially DEF Init
<1>2. /\ pending = {} /\ made = 0 /\ users = [a \in Account |-> Nobody]
      /\ expires = [l \in Login |-> 0] /\ owner = [s \in Sess |-> Unowned]
      /\ logins = {} /\ cookie = Nobody /\ socket = [t \in Tab |-> Nobody]
      /\ forgotten = {} /\ used = [again |-> 0, restarts |-> 0]
      /\ \A l \in Login : try[l].rows = 0
  BY DEF Init, SignInInit
<1>3. SignedIn = {}
  BY <1>2 DEF SignedIn
<1>4. Counted
  BY <1>2, <1>3, FS_EmptySet DEF Counted
<1>5. /\ Cardinality(Login) \in Nat /\ MaxTime \in Nat /\ Lifetime \in Nat
      /\ MaxAgain \in Nat /\ MaxRestarts \in Nat
  BY SignInAssumption, ClockAssumption, FS_CardinalityType
<1>6. try \in [Login -> Try]
  BY <1>1 DEF SInv, SignInTypes
<1>7. Unowned \in [user : {Nobody} \cup 1..made, account : Account \cup {"none", "deleted"}]
  BY DEF Unowned
<1>8. SignInTypeOK
  BY <1>2, <1>5, <1>6, <1>7 DEF SignInTypeOK
<1> QED
  BY <1>1, <1>4, <1>8 DEF TInv

LEMMA TypesStep == TInv /\ [Next]_vars => TInv'
<1> SUFFICES ASSUME TInv, [Next]_vars PROVE TInv'
  OBVIOUS
<1>1. SInv' /\ BInv'
  BY SignInStep, BucketStep, GatesUseBucket DEF TInv
<1>2. CASE Handshake
  BY <1>1, <1>2, AttemptTypes, EndingTypes, SignInAssumption DEF Handshake, TInv
<1>3. CASE Sockets
  BY <1>1, <1>3, OthersTypes DEF TInv
<1>4. ASSUME NEW t \in Tab, NEW s \in Sess,
             CreateSession(t, s) \/ DeleteSession(t, s) \/ Prompt(t, s)
      PROVE  TInv'
  BY <1>1, <1>4, OthersTypes DEF CreateSession, DeleteSession, Prompt, TInv
<1>5. CASE Restart
  BY <1>1, <1>5, OthersTypes DEF TInv
<1>6. CASE UNCHANGED signInVars
  BY <1>1, <1>6, OthersTypes DEF TInv
<1> QED
  BY <1>2, <1>3, <1>4, <1>5, <1>6 DEF Next, vars

\* Every variable keeps its type; there are at most as many rows, and so ids, as
\* attempts to sign in.
THEOREM GatesTyped == Spec => []TypeOK
<1>1. TInv => TypeOK
  BY DEF TInv, BInv, TypeOK
<1> QED
  BY <1>1, TypesInitially, TypesStep, PTL DEF Spec
=============================================================================
