----------------------------- MODULE MCRebound -----------------------------
(* Configurations for the runs of Rebound. *)
EXTENDS Rebound

Config(n, i, m, e, num, den, j) ==
    [attempts |-> n, initial |-> i, maximum |-> m, elapsed |-> e,
     num |-> num, den |-> den, jitter |-> j]

\* The default shape, a growth that overshoots the cap, a fraction, a constant
\* delay at the cap, one shrinking from below the cap and one from the cap.
MCConfigs ==
    {Config(4, 1, 3, 9, 2, 1, FALSE), Config(4, 2, 5, 12, 3, 2, TRUE),
     Config(3, 3, 3, 5, 1, 1, FALSE), Config(4, 4, 6, 12, 1, 2, FALSE),
     Config(4, 4, 4, 12, 1, 2, FALSE), Config(1, 1, 1, 1, 2, 1, TRUE)}

\* The power the backoff is held against is that of arithmetic.
ASSUME PowerIsPower == \A b \in 1..5, k \in 0..5 : Power(b, k) = b ^ k
=============================================================================
