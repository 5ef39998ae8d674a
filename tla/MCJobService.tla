---------------------------- MODULE MCJobService ----------------------------
(* Instances of JobService for TLC. *)
EXTENDS JobService

CONSTANTS r1, r2, g1, h1, h2

TwoRequests == {r1, r2}
OneReader == {g1}
TwoHashes == {h1, h2}
OneTimed == {h1}
=============================================================================
