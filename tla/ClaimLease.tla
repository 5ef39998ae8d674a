----------------------------- MODULE ClaimLease -----------------------------
(***************************************************************************)
(* What the lease promises about one job: who may send it, and how it gets *)
(* from one worker to the next.  DeliveryQueue implements it, for each job *)
(* and without a clock, and so does LeaseBudget, with time explicit.       *)
(***************************************************************************)

CONSTANT Workers  \* claim loops

VARIABLES
  claimed,  \* the job is under somebody's claim
  live,     \* ... whose lease still runs
  owner,    \* the worker that works under this claim; none once it has died
  sending   \* workers with a request to the provider under way

vars == <<claimed, live, owner, sending>>

\* Only a job that is free is taken, and by nobody who is still sending it from before.
\* The lease may be over by the time the claim is committed.
Take(w) ==
  /\ ~claimed /\ w \notin sending
  /\ claimed' = TRUE /\ live' \in BOOLEAN /\ owner' = {w}
  /\ UNCHANGED sending

\* A send starts under the sender's own claim, while the lease runs ...
StartSend(w) ==
  /\ w \in owner /\ live /\ w \notin sending
  /\ sending' = sending \cup {w}
  /\ UNCHANGED <<claimed, live, owner>>

\* ... but it may end at any time.
EndSend(w) ==
  /\ w \in sending
  /\ sending' = sending \ {w}
  /\ UNCHANGED <<claimed, live, owner>>

\* The owner gives the job up, with a result or without; nobody does it for another.
GiveUp(w) ==
  /\ w \in owner /\ w \notin sending
  /\ claimed' = FALSE /\ live' = FALSE /\ owner' = {}
  /\ UNCHANGED sending

\* A worker that dies leaves its claim behind.
Die(w) ==
  /\ owner' = owner \ {w} /\ sending' = sending \ {w}
  /\ UNCHANGED <<claimed, live>>

Expire ==
  /\ live /\ live' = FALSE
  /\ UNCHANGED <<claimed, owner, sending>>

\* A claim is taken from its owner only when its lease is over.
Reap ==
  /\ claimed /\ ~live
  /\ claimed' = FALSE /\ live' = FALSE /\ owner' = {}
  /\ UNCHANGED sending

Init == claimed = FALSE /\ live = FALSE /\ owner = {} /\ sending = {}

Next ==
  \/ \E w \in Workers : Take(w) \/ StartSend(w) \/ EndSend(w) \/ GiveUp(w) \/ Die(w)
  \/ Expire \/ Reap

Spec == Init /\ [][Next]_vars
=============================================================================
