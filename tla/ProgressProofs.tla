--------------------------- MODULE ProgressProofs ---------------------------
(***************************************************************************)
(* When _recompute_progress says 100, for every number of days: the range  *)
(* in which "finished" may be read from a rounded percentage.              *)
(***************************************************************************)
EXTENDS Progress, TLAPS

LEMMA Division ==
    ASSUME NEW x \in Nat, NEW y \in Nat \ {0}
    PROVE  /\ x \div y \in Nat /\ x % y \in 0..(y - 1)
           /\ x = y * (x \div y) + (x % y)
  OBVIOUS

\* Rounding never goes further than to the next number, and from less than half
\* of the way to it not even there.
LEMMA RoundedBounds ==
    ASSUME NEW x \in Nat, NEW y \in Nat \ {0}
    PROVE  /\ Rounded(x, y) \in {x \div y, (x \div y) + 1}
           /\ Rounded(x, y) = (x \div y) + 1 => 2 * (x % y) >= y
  BY Division DEF Rounded

\* A task planned on fewer than 200 days is at 100 % exactly when it is done on
\* each of them: below that number rounding hides no open day, so that replans
\* plan every unfinished task (day_close.py:174, replan_context.py:144).
THEOREM FullMeansFinished ==
    ASSUME NEW n \in 1..199, NEW d \in 0..n
    PROVE  Pct(d, n) = 100 <=> d = n
  <1> DEFINE q == (100 * d) \div n
             r == (100 * d) % n
  <1>1. q \in Nat /\ r \in 0..(n - 1) /\ 100 * d = n * q + r
    <2>1. 100 * d \in Nat /\ n \in Nat \ {0}
      OBVIOUS
    <2>2. QED
      BY <2>1, Division
  <1>2. Pct(d, n) \in {q, q + 1} /\ (Pct(d, n) = q + 1 => 2 * r >= n)
    <2>1. Pct(d, n) = Rounded(100 * d, n)
      BY DEF Pct
    <2>2. 100 * d \in Nat /\ n \in Nat \ {0}
      OBVIOUS
    <2>3. QED
      BY <1>1, <2>1, <2>2, RoundedBounds
  <1>3. CASE d = n
    <2>1. q = 100
      BY <1>1, <1>3
    <2>2. r = 0
      BY <1>1, <1>3, <2>1
    <2>3. QED
      BY <1>2, <1>3, <2>1, <2>2
  <1>4. CASE d # n
    <2>1. ~(q >= 100)
      <3> SUFFICES ASSUME q >= 100 PROVE FALSE
        OBVIOUS
      <3>1. n * q >= n * 100
        BY <1>1
      <3>2. QED
        BY <1>1, <1>4, <3>1
    <2>2. q = 99 => 2 * r < n
      BY <1>1, <1>4
    <2>3. QED
      BY <1>1, <1>2, <1>4, <2>1, <2>2
  <1>5. QED
    BY <1>3, <1>4

\* No task shows more than 100.
LEMMA PctAtMostFull ==
    ASSUME NEW n \in Nat \ {0}, NEW d \in 0..n
    PROVE  Pct(d, n) \in Nat /\ Pct(d, n) <= 100
  <1> DEFINE q == (100 * d) \div n
             r == (100 * d) % n
  <1>1. 100 * d \in Nat
    OBVIOUS
  <1>2. q \in Nat /\ r \in 0..(n - 1) /\ 100 * d = n * q + r
    BY <1>1, Division
  <1>3. Pct(d, n) \in {q, q + 1} /\ (Pct(d, n) = q + 1 => 2 * r >= n)
    BY <1>1, RoundedBounds DEF Pct
  <1> HIDE DEF q, r
  <1>4. q <= 100
    <2> SUFFICES ASSUME q >= 101 PROVE FALSE
      BY <1>2
    <2>1. n * q >= n * 101
      BY <1>2
    <2>2. QED
      BY <1>2, <2>1
  <1>5. q = 100 => r = 0
    BY <1>2
  <1>6. QED
    BY <1>2, <1>3, <1>4, <1>5

LEMMA UnfinishedIsBelowFull ==
    ASSUME NEW n \in 1..199, NEW d \in Nat, d < n
    PROVE  Pct(d, n) \in Nat /\ Pct(d, n) < 100
  <1>1. n \in Nat \ {0} /\ d \in 0..n /\ d # n
    OBVIOUS
  <1>2. Pct(d, n) \in Nat /\ Pct(d, n) <= 100
    BY <1>1, PctAtMostFull
  <1>3. Pct(d, n) # 100
    BY <1>1, FullMeansFinished
  <1>4. QED
    BY <1>2, <1>3

\* The bound is sharp: of 200 days one may be missing.
THEOREM FullMayBeUnfinished == Pct(199, 200) = 100
  BY DEF Pct, Rounded

-----------------------------------------------------------------------------
\* A milestone or a goal shows 100 % exactly when what its n tasks miss to 100 each
\* is, summed up, n / 2 points at most (day_close.py:189, 193): one task that misses k
\* points is hidden as soon as there are 2 * k tasks, however few days each is planned on.
THEOREM FullMean ==
    ASSUME NEW n \in Nat \ {0}, NEW sum \in 0..(100 * n)
    PROVE  Mean(sum, n) = 100 <=> 2 * (100 * n - sum) <= n
  <1> DEFINE q == sum \div n
             r == sum % n
  <1>1. q \in Nat /\ r \in 0..(n - 1) /\ sum = n * q + r
    <2>1. sum \in Nat
      OBVIOUS
    <2>2. QED
      BY <2>1, Division
  <1>2. Mean(sum, n) = IF 2 * r > n \/ (2 * r = n /\ q % 2 = 1) THEN q + 1 ELSE q
    BY DEF Mean, Rounded
  <1> HIDE DEF q, r
  <1>3. CASE q >= 100
    <2>1. n * q >= n * 100
      BY <1>1, <1>3
    <2>2. r = 0 /\ n * q = n * 100
      BY <1>1, <2>1
    <2>3. q = 100
      <3> SUFFICES ASSUME q >= 101 PROVE FALSE
        BY <1>1, <1>3
      <3>1. n * q >= n * 101
        BY <1>1
      <3>2. QED
        BY <2>2, <3>1
    <2>4. QED
      BY <1>1, <1>2, <2>2, <2>3
  <1>4. CASE q = 99
    <2>1. 100 * n - sum = n - r
      BY <1>1, <1>4
    <2>2. q % 2 = 1
      BY <1>4
    <2>3. Mean(sum, n) = 100 <=> 2 * r >= n
      BY <1>1, <1>2, <1>4, <2>2
    <2>4. QED
      BY <1>1, <2>1, <2>3
  <1>5. CASE q <= 98
    <2>1. n * q <= n * 98
      BY <1>1, <1>5
    <2>2. 100 * n - sum > n
      BY <1>1, <2>1
    <2>3. Mean(sum, n) # 100
      BY <1>1, <1>2, <1>5
    <2>4. QED
      BY <2>2, <2>3
  <1>6. QED
    BY <1>1, <1>3, <1>4, <1>5

=============================================================================
