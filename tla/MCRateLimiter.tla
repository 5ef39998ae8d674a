---------------------------- MODULE MCRateLimiter ----------------------------
(* Instances of RateLimiter for TLC. *)
EXTENDS RateLimiter, TLC

CONSTANTS a, b, c, d, e

TwoJobs == {a, b}
FiveJobs == {a, b, c, d, e}

\* Jobs are interchangeable (safety runs only).
Symmetry == Permutations(Jobs)

\* Without Postgres nothing reads its bucket.
RedisView == <<slot, job, releasing, message>>
=============================================================================
