------------------------------ MODULE JobCache ------------------------------
(***************************************************************************)
(* The entries of the job cache (cache/job_cache.py).  One key of Redis    *)
(* holds "<version>|<json>", a job as it was read from Postgres, or        *)
(* "<version>|", a tombstone: the version an update has reached, whose     *)
(* contents nobody has cached yet.  Of the json only the job's status is   *)
(* kept.  The time an entry has left (its TTL) is counted in ticks.        *)
(***************************************************************************)
EXTENDS Integers

CONSTANTS
  ActiveTtl,     \* settings.cache_job_ttl_active
  TerminalTtl,   \* settings.cache_job_ttl_terminal
  TombstoneTtl   \* settings.cache_tombstone_ttl

ASSUME TtlAssumption ==
  /\ ActiveTtl \in Nat \ {0} /\ TerminalTtl \in Nat \ {0} /\ TombstoneTtl \in Nat \ {0}

Statuses == {"pending", "processing", "sent", "dead_lettered"}
Tombstone == "tombstone"

Entry == [version : Nat, body : Statuses \cup {Tombstone, "none"}, left : Nat]

\* No such key in Redis.
NoEntry == [version |-> 0, body |-> "none", left |-> 0]

Live(entry) == entry.left > 0

\* JobCache.get answers with the body; a tombstone is a miss.
Hit(entry) == Live(entry) /\ entry.body \in Statuses

\* JobStatus.is_terminal, and the TTL that put and invalidate choose.
TtlOf(body) ==
  CASE body = Tombstone -> TombstoneTtl
    [] body \in {"sent", "dead_lettered"} -> TerminalTtl
    [] OTHER -> ActiveTtl

\* Mutant: an invalidation deletes the key.
SetOrDelete(entry, version, body) ==
  IF body = Tombstone THEN NoEntry
  ELSE IF Live(entry) /\ entry.version > version THEN entry
       ELSE [version |-> version, body |-> body, left |-> TtlOf(body)]

\* _SET_IF_NEWER: a cached version newer than ours stays; ours replaces an older one,
\* one of the same version and none.
SetIfNewer(entry, version, body) ==
  IF Live(entry) /\ entry.version > version THEN entry
  ELSE [version |-> version, body |-> body, left |-> TtlOf(body)]

Put(entry, version, status) == SetIfNewer(entry, version, status)
Invalidate(entry, version) == SetIfNewer(entry, version, Tombstone)

\* Mutant: a key whose time is up stays.
AgedBelowZero(entry) == [entry EXCEPT !.left = @ - 1]

\* Time passes: the key is gone when its TTL has run out.
Aged(entry) == IF entry.left > 1 THEN [entry EXCEPT !.left = @ - 1] ELSE NoEntry
=============================================================================
