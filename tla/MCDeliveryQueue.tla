--------------------------- MODULE MCDeliveryQueue ---------------------------
(* Instances of DeliveryQueue for TLC.  The jobs are a, of high priority, and b. *)
EXTENDS DeliveryQueue, TLC

CONSTANTS a, b, l1, l2, l3, t1, t2, t3

OneJob == {a}
TwoJobs == {a, b}
PriorityOf == [j \in Jobs |-> IF j = a THEN 2 ELSE 1]

OneLoop == {l1}
TwoLoops == {l1, l2}
ThreeLoops == {l1, l2, l3}

\* A claim of a job is refused every token that its row or one of the other loops
\* still holds, so as many tokens as loops always leave a fresh one.
OneToken == {t1}
TwoTokens == {t1, t2}
ThreeTokens == {t1, t2, t3}

\* Loops are interchangeable and so are tokens (safety runs only).
Symmetry == Permutations(Loops) \cup Permutations(Tokens)
=============================================================================
