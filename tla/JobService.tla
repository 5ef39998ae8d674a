----------------------------- MODULE JobService -----------------------------
(***************************************************************************)
(* Scheduling and lookup of jobs through the cache (services/scheduler.py, *)
(* create_job of repositories/jobs.py, cache/job_cache.py) while workers   *)
(* move the jobs on and invalidate their entries (worker/common.py).       *)
(*                                                                         *)
(* Every request schedules with one and the same idempotency key (keys do  *)
(* not meet) and a body of its own; readers look jobs up again and again.  *)
(* What lies between two awaits is one step.  A call to Redis may fail     *)
(* (cache/client.py): a read is then a miss, and a write may or may not    *)
(* have happened.  Redis itself keeps what it holds until its TTL runs out.*)
(*                                                                         *)
(* Assumed of the environment: a process that read a row from Postgres     *)
(* puts it into the cache within ReadDelay.  It awaits at most two calls   *)
(* to Redis, which have timeouts, and in get(include_attempts) a second    *)
(* query, which has none; nor has a process that freezes.                  *)
(***************************************************************************)
EXTENDS JobCache, FiniteSets

CONSTANTS
  Requests,        \* POST /v1/jobs, with the key; the row one inserts has its name as id
  Readers,         \* clients of GET /v1/jobs/{id}
  Hashes,          \* request hashes: which bodies there are
  TimedHashes,     \* those of bodies with a send_at
  NoHash,          \* of a row that does not exist
  IdempotencyTtl,  \* settings.cache_idempotency_ttl
  ReadDelay,       \* the longest a row that was read waits to be put into the cache
  MaxVersion       \* bound on the updates of a job (keeps the model finite)

ASSUME ProcessAssumption == Requests \cap Readers = {}
ASSUME HashAssumption == NoHash \notin Hashes /\ TimedHashes \subseteq Hashes
ASSUME BoundAssumption == IdempotencyTtl \in Nat \ {0} /\ MaxVersion \in Nat
\* The defaults are 30, 86400 and 60 seconds against timeouts of 1 and 3 seconds.
ASSUME DelayAssumption ==
  /\ ReadDelay \in Nat
  /\ ReadDelay < ActiveTtl /\ ReadDelay < TerminalTtl /\ ReadDelay < TombstoneTtl

VARIABLES
  jobs,           \* the committed rows of the jobs table
  inserting,      \* requests whose INSERT holds the key and is not committed
  entries,        \* per job, its entry in the cache
  idempotency,    \* the cached answer for the key
  invalidations,  \* invalidations on their way to Redis
  invalidated,    \* per job, the newest version an invalidation arrived for (history)
  call            \* what each request and reader is doing

vars == <<jobs, inserting, entries, idempotency, invalidations, invalidated, call>>

-----------------------------------------------------------------------------
(* Data. *)

Processes == Requests \cup Readers

Row == [version : Nat, status : Statuses \cup {"absent"}, request_hash : Hashes \cup {NoHash}]
NoRow == [version |-> 0, status |-> "absent", request_hash |-> NoHash]
InsertedRow(hash) == [version |-> 1, status |-> "pending", request_hash |-> hash]

Cached == [id : Requests, request_hash : Hashes, left : Nat]
NotCached == [left |-> 0]

Stages == {"lookup", "get", "insert", "commit", "remember", "put"}

\* Codes of the answers; 0 when the call failed or is not over.
Codes == {0, 200, 201, 404, 409, 422}

Call == [stage : Stages \cup {"idle", "done"}, hash : Hashes \cup {NoHash},
         id : Requests \cup {"none"}, version : Nat, status : Statuses \cup {"absent"},
         code : Codes, age : Nat]

Idle == [stage |-> "idle", hash |-> NoHash, id |-> "none", version |-> 0,
         status |-> "absent", code |-> 0, age |-> 0]

TypeOK ==
  /\ jobs \in [Requests -> Row]
  /\ inserting \subseteq Requests
  /\ entries \in [Requests -> Entry]
  /\ idempotency \in Cached \cup {NotCached}
  /\ invalidations \subseteq [id : Requests, version : Nat]
  /\ invalidated \in [Requests -> Nat]
  /\ call \in [Processes -> Call]

-----------------------------------------------------------------------------
(* Helpers. *)

At(p, stage) == call[p].stage = stage

MoveTo(p, stage) == call' = [call EXCEPT ![p].stage = stage]

\* A request is answered once; a reader goes on to its next lookup.
Answer(p, id, code) ==
  call' = [call EXCEPT ![p] =
             IF p \in Readers THEN Idle
             ELSE [Idle EXCEPT !.stage = "done", !.hash = call[p].hash, !.id = id, !.code = code]]

\* A row was read and will be put into the cache; code is the answer that follows.
Hold(p, stage, id, row, code) ==
  call' = [call EXCEPT ![p] = [@ EXCEPT !.stage = stage, !.id = id, !.version = row.version,
                                        !.status = row.status, !.code = code, !.age = 0]]

\* Processes with a row read from Postgres in hand.
Holding(p) == call[p].stage \in {"remember", "put"}

Exists(id) == jobs[id] # NoRow

-----------------------------------------------------------------------------
(* JobService.schedule. *)

\* A request arrives.
Schedule(r) ==
  /\ At(r, "idle")
  /\ \E hash \in Hashes :
       call' = [call EXCEPT ![r] = [Idle EXCEPT !.stage = "lookup", !.hash = hash]]
  /\ UNCHANGED <<jobs, inserting, entries, idempotency, invalidations, invalidated>>

\* InvalidSchedule: the clock of the API is past send_at and its grace.  Clocks are not
\* modelled: a request with a send_at may be in time or too late.
RefuseLate(r) ==
  /\ At(r, "idle")
  /\ \E hash \in TimedHashes :
       call' = [call EXCEPT ![r] = [Idle EXCEPT !.stage = "done", !.hash = hash, !.code = 422]]
  /\ UNCHANGED <<jobs, inserting, entries, idempotency, invalidations, invalidated>>

SameRequest(r) == idempotency.request_hash = call[r].hash

\* The fast path: the key was seen recently, for this body or another one.
FastPath(r) ==
  /\ At(r, "lookup") /\ idempotency # NotCached
  /\ IF SameRequest(r)
     THEN call' = [call EXCEPT ![r].stage = "get", ![r].id = idempotency.id]
     ELSE Answer(r, idempotency.id, 409)
  /\ UNCHANGED <<jobs, inserting, entries, idempotency, invalidations, invalidated>>

\* The key is not cached, or the call failed.
SlowPath(r) ==
  /\ At(r, "lookup") /\ MoveTo(r, "insert")
  /\ UNCHANGED <<jobs, inserting, entries, idempotency, invalidations, invalidated>>

\* Mutant: a SELECT for the key that finds no row comes before the INSERT.
KeyIsNotCommitted(r) == \A id \in Requests : ~Exists(id)

\* UNIQUE (idempotency_key): nobody has inserted the key.  (An INSERT waits as long as
\* another one of the key is not decided.)
KeyIsFree(r) == inserting = {} /\ \A id \in Requests : ~Exists(id)

\* create_job: the INSERT takes the key ...
Insert(r) ==
  /\ At(r, "insert") /\ KeyIsFree(r)
  /\ inserting' = inserting \cup {r}
  /\ MoveTo(r, "commit")
  /\ UNCHANGED <<jobs, entries, idempotency, invalidations, invalidated>>

\* ... and the transaction commits: the job is created.
CommitInsert(r) ==
  /\ At(r, "commit")
  /\ jobs' = [jobs EXCEPT ![r] = InsertedRow(call[r].hash)]
  /\ inserting' = inserting \ {r}
  /\ Hold(r, "remember", r, InsertedRow(call[r].hash), 201)
  /\ UNCHANGED <<entries, idempotency, invalidations, invalidated>>

\* ON CONFLICT DO NOTHING: the loser reads the winner's row.
InsertConflicts(r) ==
  /\ At(r, "insert") /\ inserting = {}
  /\ \E id \in Requests :
       /\ Exists(id)
       /\ IF jobs[id].request_hash = call[r].hash
          THEN Hold(r, "remember", id, jobs[id], 200)
          ELSE Answer(r, id, 409)
  /\ UNCHANGED <<jobs, inserting, entries, idempotency, invalidations, invalidated>>

\* put_idempotency, which may fail.
PutIdempotency(r) ==
  /\ At(r, "remember") /\ MoveTo(r, "put")
  /\ idempotency' \in {idempotency, [id |-> call[r].id, request_hash |-> call[r].hash,
                                    left |-> IdempotencyTtl]}
  /\ UNCHANGED <<jobs, inserting, entries, invalidations, invalidated>>

\* Mutant: the transaction stays open.
RequestFailsHoldingKey(r) ==
  /\ call[r].stage \in Stages
  /\ Answer(r, "none", 0)
  /\ UNCHANGED <<jobs, inserting, entries, idempotency, invalidations, invalidated>>

\* The client or the API process goes away; an open transaction is rolled back.
RequestFails(r) ==
  /\ call[r].stage \in Stages
  /\ inserting' = inserting \ {r}
  /\ Answer(r, "none", 0)
  /\ UNCHANGED <<jobs, entries, idempotency, invalidations, invalidated>>

-----------------------------------------------------------------------------
(* JobService.get, for a reader or for a request that replays an earlier one. *)

\* Which job a process is about to look up: a reader any one, at any time.
Wants(p, id) == \/ At(p, "get") /\ id = call[p].id
                \/ p \in Readers /\ At(p, "idle") /\ id \in Requests

\* Mutant: an entry that is read lives on.
GetRenews(p, id) ==
  /\ Wants(p, id) /\ Hit(entries[id])
  /\ entries' = [entries EXCEPT ![id].left = TtlOf(entries[id].body)]
  /\ Answer(p, id, 200)
  /\ UNCHANGED <<jobs, inserting, idempotency, invalidations, invalidated>>

\* The job is cached.
GetCached(p, id) ==
  /\ Wants(p, id) /\ Hit(entries[id])
  /\ Answer(p, id, 200)
  /\ UNCHANGED <<jobs, inserting, entries, idempotency, invalidations, invalidated>>

\* There is no entry, or a tombstone, or the call fails; get_job then reads the row as it
\* is committed now (the miss itself leaves nothing behind).  If there is none, a reader
\* is told 404 and a request goes on to insert.
Load(p, id) ==
  /\ Wants(p, id)
  /\ IF Exists(id) THEN Hold(p, "put", id, jobs[id], 200)
     ELSE IF p \in Readers THEN Answer(p, id, 404)
     ELSE MoveTo(p, "insert")
  /\ UNCHANGED <<jobs, inserting, entries, idempotency, invalidations, invalidated>>

\* JobCache.put, which may fail; schedule and get return the row either way.
PutJob(p) ==
  LET c == call[p] IN
  /\ At(p, "put")
  /\ entries' \in {entries, [entries EXCEPT ![c.id] = Put(@, c.version, c.status)]}
  /\ Answer(p, c.id, c.code)
  /\ UNCHANGED <<jobs, inserting, idempotency, invalidations, invalidated>>

-----------------------------------------------------------------------------
(* Workers and operators: every update bumps the version. *)

Update(id, status) ==
  /\ jobs[id].version < MaxVersion
  /\ jobs' = [jobs EXCEPT ![id].version = @ + 1, ![id].status = status]

\* Mutant: the version that RETURNING gave is bumped again.
InvalidatesNext(id) ==
  invalidations' = invalidations \cup {[id |-> id, version |-> jobs[id].version + 2]}

\* CacheInvalidator.invalidate, or requeue's own call: on its way after the commit.
Invalidates(id) ==
  invalidations' = invalidations \cup {[id |-> id, version |-> jobs[id].version + 1]}

\* claim_due_jobs: the only update that invalidates nothing.
Claim(id) ==
  /\ jobs[id].status = "pending" /\ Update(id, "processing")
  /\ UNCHANGED <<inserting, entries, idempotency, invalidations, invalidated, call>>

\* mark_sent, mark_failed, return_to_queue, reap_expired_leases.
Finish(id) ==
  /\ jobs[id].status = "processing"
  /\ \E status \in {"pending", "sent", "dead_lettered"} : Update(id, status)
  /\ Invalidates(id)
  /\ UNCHANGED <<inserting, entries, idempotency, invalidated, call>>

Requeue(id) ==
  /\ jobs[id].status = "dead_lettered" /\ Update(id, "pending")
  /\ Invalidates(id)
  /\ UNCHANGED <<inserting, entries, idempotency, invalidated, call>>

\* An invalidation reaches Redis: in any order, at any time, or never, when Redis fails or
\* the process that was to send it does.
InvalidationArrives(i) ==
  /\ i \in invalidations
  /\ entries' = [entries EXCEPT ![i.id] = Invalidate(@, i.version)]
  /\ invalidated' = [invalidated EXCEPT ![i.id] = IF @ < i.version THEN i.version ELSE @]
  /\ invalidations' = invalidations \ {i}
  /\ UNCHANGED <<jobs, inserting, idempotency, call>>

-----------------------------------------------------------------------------
(* Time. *)

AgedAnswer == IF idempotency.left > 1 THEN [idempotency EXCEPT !.left = @ - 1] ELSE NotCached

Tick ==
  /\ \A p \in Processes : Holding(p) => call[p].age < ReadDelay
  /\ entries' = [id \in Requests |-> Aged(entries[id])]
  /\ idempotency' = AgedAnswer
  /\ call' = [p \in Processes |-> IF Holding(p) THEN [call[p] EXCEPT !.age = @ + 1] ELSE call[p]]
  /\ UNCHANGED <<jobs, inserting, invalidations, invalidated>>

-----------------------------------------------------------------------------
Init ==
  /\ jobs = [id \in Requests |-> NoRow]
  /\ inserting = {}
  /\ entries = [id \in Requests |-> NoEntry]
  /\ idempotency = NotCached
  /\ invalidations = {}
  /\ invalidated = [id \in Requests |-> 0]
  /\ call = [p \in Processes |-> Idle]

Get(p) == \/ \E id \in Requests : GetCached(p, id) \/ Load(p, id)
          \/ PutJob(p)

\* A request goes on, once it has arrived.
Serve(r) ==
  \/ FastPath(r) \/ SlowPath(r)
  \/ Insert(r) \/ CommitInsert(r) \/ InsertConflicts(r) \/ PutIdempotency(r)
  \/ Get(r)

Next ==
  \/ \E r \in Requests : Schedule(r) \/ RefuseLate(r) \/ Serve(r) \/ RequestFails(r)
  \/ \E g \in Readers : Get(g)
  \/ \E id \in Requests : Claim(id) \/ Finish(id) \/ Requeue(id)
  \/ \E i \in invalidations : InvalidationArrives(i)
  \/ Tick

Spec == Init /\ [][Next]_vars

\* Calls go on (every await has a timeout) and time passes.
Fairness ==
  /\ WF_vars(Tick)
  /\ \A r \in Requests : WF_vars(Serve(r))
  /\ \A g \in Readers : WF_vars(PutJob(g))

FairSpec == Spec /\ Fairness

-----------------------------------------------------------------------------
(* Safety. *)

\* What the idempotency key promises, whichever requests race, fail or are answered from
\* the cache: there is one job for it; whoever is told of a job is told of that one,
\* scheduled with the same body; one request at most hears that it created it; a
\* conflict is reported only to a body that differs from the job's.
OneJobPerKey ==
  \A r \in Requests :
    LET c == call[r] IN
    /\ \A id \in Requests \ {r} : ~(Exists(r) /\ Exists(id))
    /\ c.stage = "done" /\ c.code \in {200, 201} =>
         Exists(c.id) /\ jobs[c.id].request_hash = c.hash
    /\ c.stage = "done" /\ c.code = 201 => c.id = r
    /\ c.stage = "done" /\ c.code = 409 =>
         Exists(c.id) /\ jobs[c.id].request_hash # c.hash

\* Once an invalidation has reached the cache, no reader is answered with an older
\* version, however late (within ReadDelay) a reader that had loaded one before puts it.
NoStaleAfterInvalidation ==
  \A id \in Requests : Hit(entries[id]) => entries[id].version >= invalidated[id]

\* An entry never has a version that Postgres has not: an entry ahead of its row would
\* keep the rows to come out of the cache.
CacheNeverAhead ==
  \A id \in Requests : entries[id].version <= jobs[id].version

-----------------------------------------------------------------------------
(* Liveness. *)

Stale(id) == Hit(entries[id]) /\ entries[id].version < jobs[id].version

\* A stale answer does not stay, even if its invalidation is lost and the job is read
\* all the time.
StaleEnds == \A id \in Requests : Stale(id) ~> ~Stale(id)

\* Every request comes to an end: none waits for ever for another's insert.
RequestsEnd == \A r \in Requests : call[r].stage \in Stages ~> call[r].stage = "done"

-----------------------------------------------------------------------------
(* What the documentation says and the code does not do. *)

\* README.md, API: "200 for a replay of the same idempotency key".  send_at is checked
\* before the key: whoever repeats a request that is over, perhaps because its answer was
\* lost, after its send_at is told 422, although the job is scheduled or sent.
ReplayGetsTheJob ==
  [][\A r \in Requests :
       /\ call[r].stage # "done" /\ call'[r].stage = "done" /\ call'[r].code # 0
       /\ \E id \in Requests : /\ Exists(id) /\ jobs[id].request_hash = call'[r].hash
                               /\ call[id].stage = "done"
       => call'[r].code \in {200, 201}]_vars
=============================================================================
