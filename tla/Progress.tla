------------------------------ MODULE Progress ------------------------------
(***************************************************************************)
(* The percentages of src/app/services/day_close.py, _recompute_progress:  *)
(* int(round(x / y)), where Python rounds a half to the even neighbour.    *)
(***************************************************************************)
EXTENDS Integers

\* Mutant: percentages are rounded up.
RoundedUp(x, y) == (x + y - 1) \div y

\* round(x / y)
Rounded(x, y) ==
    LET q == x \div y
        r == x % y
    IN  IF 2 * r > y \/ (2 * r = y /\ q % 2 = 1) THEN q + 1 ELSE q

\* progress_pct of a task that is done on d of the n days it is planned on.
Pct(d, n) == IF n = 0 THEN 0 ELSE Rounded(100 * d, n)

\* progress_pct of a milestone, and of the goal: the mean over n tasks.
Mean(sum, n) == IF n = 0 THEN 0 ELSE Rounded(sum, n)

=============================================================================
