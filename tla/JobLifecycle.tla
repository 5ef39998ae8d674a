---------------------------- MODULE JobLifecycle ----------------------------
(***************************************************************************)
(* What the queue promises about one job, whatever the workers, the reaper *)
(* and the operators do at the same time: the state diagram of the         *)
(* design, and what each transition must leave behind in the same instant. *)
(* DeliveryQueue implements it.                                            *)
(***************************************************************************)
EXTENDS Integers

CONSTANTS Jobs,          \* ids of the jobs
          Caps,          \* numbers of attempts a new job may be given
          ExtraAttempts  \* numbers of attempts an operator may add

VARIABLE life     \* per job, what an observer of the committed tables can say

\* "Waiting" is pending in the tables and "claimed" is processing.
Life == [phase : {"absent", "waiting", "claimed", "sent", "dead"},
         tries : Nat,          \* attempts that have ended and count
         cap : Nat,            \* attempts the job may use
         delivered : BOOLEAN,  \* it is in the delivery ledger
         parked : BOOLEAN,     \* it is in the dead letter table
         announced : Nat]      \* events queued for its callback URL

Unknown == [phase |-> "absent", tries |-> 0, cap |-> 0,
            delivered |-> FALSE, parked |-> FALSE, announced |-> 0]

Created(old, new) ==
  \E n \in Caps : /\ old = Unknown
                  /\ new = [Unknown EXCEPT !.phase = "waiting", !.cap = n]

Claimed(old, new) ==
  /\ old.phase = "waiting" /\ old.tries < old.cap
  /\ new = [old EXCEPT !.phase = "claimed"]

\* The claim came to nothing and was never sent: it does not count.
GivenBack(old, new) ==
  /\ old.phase = "claimed" /\ new = [old EXCEPT !.phase = "waiting"]

\* An attempt ended: counted and announced with the move it causes.
Attempted(old, phase) ==
  [old EXCEPT !.phase = phase, !.tries = @ + 1, !.announced = @ + 1]

Sent(old, new) ==
  /\ old.phase = "claimed" /\ ~old.delivered
  /\ new = [Attempted(old, "sent") EXCEPT !.delivered = TRUE]

Retried(old, new) ==
  /\ old.phase = "claimed" /\ old.tries + 1 < old.cap
  /\ new = Attempted(old, "waiting")

Buried(old, new) ==
  /\ old.phase = "claimed" /\ ~old.parked
  /\ new = [Attempted(old, "dead") EXCEPT !.parked = TRUE]

\* Requeued by an operator: silently, with exactly the attempts asked for beyond those it
\* has had, also if it died before its cap.
Revived(old, new) ==
  /\ old.phase = "dead" /\ old.parked
  /\ \E extra \in ExtraAttempts :
       new = [old EXCEPT !.phase = "waiting", !.parked = FALSE, !.cap = old.tries + extra]

Move(old, new) ==
  \/ Created(old, new) \/ Claimed(old, new) \/ GivenBack(old, new)
  \/ Sent(old, new) \/ Retried(old, new) \/ Buried(old, new) \/ Revived(old, new)

Init == life = [j \in Jobs |-> Unknown]

\* A batch moves several jobs at once; no job makes two moves in one step.
Next == /\ life' \in [Jobs -> Life]
        /\ \A j \in Jobs : life'[j] = life[j] \/ Move(life[j], life'[j])

Spec == Init /\ [][Next]_life
=============================================================================
