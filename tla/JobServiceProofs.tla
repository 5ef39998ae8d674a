-------------------------- MODULE JobServiceProofs --------------------------
(***************************************************************************)
(* That the cache never answers with a version it was told is old, and     *)
(* that one key makes one job: for any requests, readers, bodies and TTLs. *)
(* A replay that is not refused for its send_at is told of that job.       *)
(***************************************************************************)
EXTENDS JobService, TLAPS

-----------------------------------------------------------------------------
(* The inductive invariant. *)

RowShape(id) ==
  jobs[id] = NoRow \/ /\ jobs[id].version > 0
                      /\ jobs[id].status \in Statuses
                      /\ jobs[id].request_hash \in Hashes

\* A request was told, or is about to be told, of the job id scheduled with this body.
Told(id, hash) == id \in Requests /\ Exists(id) /\ jobs[id].request_hash = hash

CallRight(r) ==
  LET c == call[r] IN
  /\ c.stage \in Stages => c.hash \in Hashes
  /\ c.stage = "get" \/ Holding(r) \/ (c.stage = "done" /\ c.code \in {200, 201}) =>
       Told(c.id, c.hash)
  /\ Holding(r) => c.code \in {200, 201}
  /\ (Holding(r) \/ c.stage = "done") /\ c.code = 201 => c.id = r
  /\ c.stage = "done" /\ c.code = 409 =>
       c.id \in Requests /\ Exists(c.id) /\ jobs[c.id].request_hash # c.hash

\* The one who inserts holds the key, and nobody does once it is taken.
KeyInv ==
  /\ \A id \in Requests : RowShape(id)
  /\ \A r \in Requests : r \in inserting <=> call[r].stage = "commit"
  /\ \A r, s \in inserting : r = s
  /\ inserting # {} => \A id \in Requests : ~Exists(id)
  /\ \A r, s \in Requests : Exists(r) /\ Exists(s) => r = s
  /\ idempotency # NotCached => Told(idempotency.id, idempotency.request_hash)
  /\ \A r \in Requests : CallRight(r)

\* A row in a process's hand ...
HeldRow(p) ==
  LET c == call[p] IN
  Holding(p) =>
    /\ c.id \in Requests /\ c.status \in Statuses
    /\ c.version <= jobs[c.id].version
    /\ c.age <= ReadDelay
    \* ... meets an entry that turns it away, if that is newer, for as long as it is held, ...
    /\ Live(entries[c.id]) /\ c.version < entries[c.id].version =>
         entries[c.id].left > ReadDelay - c.age
    \* ... and there is such an entry if an invalidation has overtaken it.
    /\ c.version < invalidated[c.id] =>
         Live(entries[c.id]) /\ entries[c.id].version >= invalidated[c.id]

CacheInv ==
  /\ \A id \in Requests : /\ entries[id].version <= jobs[id].version
                          /\ invalidated[id] <= jobs[id].version
                          /\ Hit(entries[id]) => entries[id].version >= invalidated[id]
  /\ \A i \in invalidations : i.version <= jobs[i.id].version
  /\ \A p \in Processes : HeldRow(p)

ServiceInv == TypeOK /\ KeyInv /\ CacheInv

-----------------------------------------------------------------------------
(* Data: what each update writes and what it leaves alone. *)

LEMMA IdleFields ==
  /\ Idle \in Call /\ Idle.stage = "idle" /\ Idle.code = 0
  /\ ~("idle" \in Stages) /\ ~("done" \in Stages)
PROOF BY DEF Idle, Call, Codes, Stages

LEMMA CallFields ==
  ASSUME NEW c \in Call
  PROVE  /\ c.stage \in Stages \cup {"idle", "done"} /\ c.hash \in Hashes \cup {NoHash}
         /\ c.id \in Requests \cup {"none"} /\ c.version \in Nat
         /\ c.status \in Statuses \cup {"absent"} /\ c.code \in Codes /\ c.age \in Nat
PROOF BY DEF Call

LEMMA RowFields ==
  ASSUME NEW row \in Row
  PROVE  /\ row.version \in Nat /\ row.status \in Statuses \cup {"absent"}
         /\ row.request_hash \in Hashes \cup {NoHash}
PROOF BY DEF Row

LEMMA NoRowFields ==
  NoRow \in Row /\ NoRow.version = 0 /\ NoRow.status = "absent" /\ NoRow.request_hash = NoHash
PROOF BY DEF NoRow, Row

LEMMA InsertedRowFields ==
  ASSUME NEW hash \in Hashes
  PROVE  LET row == InsertedRow(hash) IN
         /\ row \in Row /\ row # NoRow /\ row.version = 1 /\ row.status \in Statuses
         /\ row.request_hash = hash
PROOF BY DEF InsertedRow, Row, NoRow, Statuses

LEMMA EntryFields ==
  ASSUME NEW e \in Entry
  PROVE  e.version \in Nat /\ e.left \in Nat /\ e.body \in Statuses \cup {Tombstone, "none"}
PROOF BY DEF Entry

LEMMA NoEntryFields ==
  NoEntry \in Entry /\ NoEntry.version = 0 /\ ~Live(NoEntry) /\ ~Hit(NoEntry)
PROOF BY DEF NoEntry, Entry, Live, Hit

LEMMA NumberFields ==
  /\ ReadDelay \in Nat /\ MaxVersion \in Nat /\ IdempotencyTtl \in Nat /\ IdempotencyTtl > 0
  /\ \A body \in Statuses \cup {Tombstone} : TtlOf(body) \in Nat /\ TtlOf(body) > ReadDelay
  /\ Tombstone \notin Statuses
PROOF
  <1>1. /\ ActiveTtl \in Nat /\ TerminalTtl \in Nat /\ TombstoneTtl \in Nat
        /\ ReadDelay \in Nat
        /\ ReadDelay < ActiveTtl /\ ReadDelay < TerminalTtl /\ ReadDelay < TombstoneTtl
    BY TtlAssumption, DelayAssumption
  <1>2. ASSUME NEW body
        PROVE  TtlOf(body) \in Nat /\ TtlOf(body) > ReadDelay
    <2>1. CASE body = Tombstone BY <1>1, <2>1 DEF TtlOf
    <2>2. CASE body # Tombstone /\ body \in {"sent", "dead_lettered"} BY <1>1, <2>2 DEF TtlOf
    <2>3. CASE body # Tombstone /\ body \notin {"sent", "dead_lettered"} BY <1>1, <2>3 DEF TtlOf
    <2>4. QED BY <2>1, <2>2, <2>3
  <1>3. QED BY <1>1, <1>2, BoundAssumption DEF Tombstone, Statuses

\* _SET_IF_NEWER leaves a newer entry or puts one in its place that outlives any reader.
LEMMA SetIfNewerFields ==
  ASSUME NEW e \in Entry, NEW v \in Nat, NEW body \in Statuses \cup {Tombstone}
  PROVE  /\ SetIfNewer(e, v, body) \in Entry
         /\ \/ Live(e) /\ e.version > v /\ SetIfNewer(e, v, body) = e
            \/ /\ Live(e) => e.version <= v
               /\ SetIfNewer(e, v, body).version = v
               /\ SetIfNewer(e, v, body).body = body
               /\ SetIfNewer(e, v, body).left > ReadDelay
               /\ Live(SetIfNewer(e, v, body))
PROOF
  <1>1. TtlOf(body) \in Nat /\ TtlOf(body) > ReadDelay /\ ReadDelay \in Nat BY NumberFields
  <1>2. CASE Live(e) /\ e.version > v BY <1>2 DEF SetIfNewer
  <1>3. CASE ~(Live(e) /\ e.version > v)
    <2> DEFINE n == [version |-> v, body |-> body, left |-> TtlOf(body)]
    <2>1. SetIfNewer(e, v, body) = n BY <1>3 DEF SetIfNewer
    <2>2. n \in Entry /\ n.version = v /\ n.body = body /\ n.left = TtlOf(body)
      BY <1>1 DEF Entry
    <2> HIDE DEF n
    <2>3. QED BY <1>1, <1>3, <2>1, <2>2, EntryFields DEF Live
  <1>4. QED BY <1>2, <1>3

LEMMA AgedFields ==
  ASSUME NEW e \in Entry
  PROVE  /\ Aged(e) \in Entry
         /\ e.left > 1 => /\ Aged(e).version = e.version /\ Aged(e).body = e.body
                          /\ Aged(e).left = e.left - 1
         /\ ~(e.left > 1) => Aged(e) = NoEntry
PROOF
  <1>1. e.left \in Nat BY EntryFields
  <1>2. CASE e.left > 1
    <2>1. e.left - 1 \in Nat BY <1>1, <1>2
    <2>2. QED BY <1>2, <2>1 DEF Aged, Entry
  <1>3. CASE ~(e.left > 1) BY <1>3, NoEntryFields DEF Aged
  <1>4. QED BY <1>2, <1>3

-----------------------------------------------------------------------------
(* Calls: one process goes on, the others stay where they are. *)

OthersStay(p) == \A q \in Processes \ {p} : call'[q] = call[q]

LEMMA CallUpdate ==
  ASSUME TypeOK, NEW p \in Processes, NEW c \in Call, call' = [call EXCEPT ![p] = c]
  PROVE  call' \in [Processes -> Call] /\ call'[p] = c /\ OthersStay(p)
PROOF BY DEF TypeOK, OthersStay

LEMMA AnswerFields ==
  ASSUME TypeOK, NEW p \in Processes, NEW id \in Requests \cup {"none"}, NEW code \in Codes,
         Answer(p, id, code)
  PROVE  /\ call' \in [Processes -> Call] /\ OthersStay(p)
         /\ p \in Readers => call'[p] = Idle
         /\ p \notin Readers => /\ call'[p].stage = "done" /\ call'[p].hash = call[p].hash
                                /\ call'[p].id = id /\ call'[p].code = code
PROOF
  <1> DEFINE done == [Idle EXCEPT !.stage = "done", !.hash = call[p].hash, !.id = id,
                                  !.code = code]
             c == IF p \in Readers THEN Idle ELSE done
  <1>1. call[p].hash \in Hashes \cup {NoHash} BY CallFields DEF TypeOK
  <1>2. /\ done \in Call /\ done.stage = "done" /\ done.hash = call[p].hash
        /\ done.id = id /\ done.code = code
    BY <1>1, IdleFields DEF Call
  <1> HIDE DEF done
  <1>3. c \in Call BY <1>2, IdleFields
  <1>4. call' = [call EXCEPT ![p] = c] BY DEF Answer, done
  <1> HIDE DEF c
  <1>5. call'[p] = c /\ call' \in [Processes -> Call] /\ OthersStay(p)
    BY <1>3, <1>4, CallUpdate
  <1>6. QED BY <1>2, <1>5 DEF c

LEMMA HoldFields ==
  ASSUME TypeOK, NEW p \in Processes, NEW stage \in Stages, NEW id \in Requests,
         NEW row \in Row, NEW code \in Codes, Hold(p, stage, id, row, code)
  PROVE  /\ call' \in [Processes -> Call] /\ OthersStay(p)
         /\ call'[p].stage = stage /\ call'[p].hash = call[p].hash /\ call'[p].id = id
         /\ call'[p].version = row.version /\ call'[p].status = row.status
         /\ call'[p].code = code /\ call'[p].age = 0
PROOF
  <1> DEFINE c == [call[p] EXCEPT !.stage = stage, !.id = id, !.version = row.version,
                                  !.status = row.status, !.code = code, !.age = 0]
  <1>1. call[p] \in Call BY DEF TypeOK
  <1>2. row.version \in Nat /\ row.status \in Statuses \cup {"absent"} BY RowFields
  <1>3. /\ c \in Call /\ c.stage = stage /\ c.hash = call[p].hash /\ c.id = id
        /\ c.version = row.version /\ c.status = row.status /\ c.code = code /\ c.age = 0
    BY <1>1, <1>2 DEF Call
  <1> HIDE DEF c
  <1>4. call' = [call EXCEPT ![p] = c] BY DEF Hold, c
  <1>5. QED BY <1>3, <1>4, CallUpdate

LEMMA MoveToFields ==
  ASSUME TypeOK, NEW p \in Processes, NEW stage \in Stages, MoveTo(p, stage)
  PROVE  /\ call' \in [Processes -> Call] /\ OthersStay(p)
         /\ call'[p].stage = stage /\ call'[p].hash = call[p].hash
         /\ call'[p].id = call[p].id /\ call'[p].version = call[p].version
         /\ call'[p].status = call[p].status /\ call'[p].code = call[p].code
         /\ call'[p].age = call[p].age
PROOF
  <1> DEFINE c == [call[p] EXCEPT !.stage = stage]
  <1>1. call[p] \in Call BY DEF TypeOK
  <1>2. /\ c \in Call /\ c.stage = stage /\ c.hash = call[p].hash /\ c.id = call[p].id
        /\ c.version = call[p].version /\ c.status = call[p].status
        /\ c.code = call[p].code /\ c.age = call[p].age
    BY <1>1 DEF Call
  <1> HIDE DEF c
  <1>3. call' = [call EXCEPT ![p] = c] BY DEF MoveTo, c
  <1>4. QED BY <1>2, <1>3, CallUpdate

-----------------------------------------------------------------------------
(* What keeps the two halves of the invariant. *)

SameCall(q) == /\ call'[q].stage = call[q].stage /\ call'[q].hash = call[q].hash
               /\ call'[q].id = call[q].id /\ call'[q].code = call[q].code

\* Rows keep their key, body and existence, or there was none and r inserts its own.
RowsStay == \A id \in Requests :
              /\ RowShape(id)'
              /\ Exists(id)' <=> Exists(id)
              /\ Exists(id) => jobs'[id].request_hash = jobs[id].request_hash

\* Nothing but the key's state changes for r; the other requests stay where they are.
LEMMA KeyStep ==
  ASSUME KeyInv, inserting \subseteq Requests, NEW r \in Requests,
         \A q \in Requests \ {r} : SameCall(q),
         CallRight(r)', r \in inserting' <=> call'[r].stage = "commit",
         \A q \in Requests \ {r} : q \in inserting' <=> q \in inserting,
         inserting' \subseteq Requests,
         r \in inserting' /\ r \notin inserting =>
           inserting = {} /\ \A id \in Requests : ~Exists(id),
         \/ RowsStay
         \/ /\ r \in inserting /\ r \notin inserting'
            /\ RowShape(r)' /\ Exists(r)'
            /\ \A id \in Requests \ {r} : jobs'[id] = jobs[id],
         idempotency' # NotCached =>
           \/ idempotency' = idempotency
           \/ Told(idempotency.id, idempotency.request_hash)'
           \/ /\ idempotency # NotCached /\ idempotency'.id = idempotency.id
              /\ idempotency'.request_hash = idempotency.request_hash
  PROVE  KeyInv'
PROOF
  <1>1. ASSUME NEW id \in Requests, Exists(id)
        PROVE  Exists(id)' /\ jobs'[id].request_hash = jobs[id].request_hash
    <2>1. inserting = {} BY <1>1 DEF KeyInv
    <2>2. QED BY <1>1, <2>1 DEF RowsStay
  <1>2. \A id \in Requests : RowShape(id)'
    BY DEF RowsStay, KeyInv, RowShape
  <1>3. \A q \in Requests : q \in inserting' <=> call'[q].stage = "commit"
    BY DEF SameCall, KeyInv
  <1>4. \A q, s \in inserting' : q = s
    BY DEF KeyInv
  <1>5. inserting' # {} => \A id \in Requests : ~Exists(id)'
    <2>1. CASE RowsStay
      <3>1. CASE r \in inserting' /\ r \notin inserting BY <2>1, <3>1 DEF RowsStay
      <3>2. CASE ~(r \in inserting' /\ r \notin inserting)
        BY <2>1, <3>2 DEF RowsStay, KeyInv
      <3>3. QED BY <3>1, <3>2
    <2>2. CASE ~RowsStay BY <2>2 DEF KeyInv
    <2>3. QED BY <2>1, <2>2
  <1>6. \A q, s \in Requests : Exists(q)' /\ Exists(s)' => q = s
    <2>1. CASE RowsStay BY <2>1 DEF RowsStay, KeyInv
    <2>2. CASE ~RowsStay
      <3>1. \A id \in Requests \ {r} : ~Exists(id)' BY <2>2 DEF KeyInv, Exists
      <3>2. QED BY <3>1
    <2>3. QED BY <2>1, <2>2
  <1>7. (idempotency # NotCached => Told(idempotency.id, idempotency.request_hash))'
    BY <1>1 DEF KeyInv, Told, NotCached
  <1>8. ASSUME NEW q \in Requests PROVE CallRight(q)'
    <2>1. CASE q = r BY <2>1
    <2>2. CASE q # r
      <3>1. SameCall(q) /\ CallRight(q) BY <2>2 DEF KeyInv
      <3>2. Holding(q)' <=> Holding(q) BY <3>1 DEF SameCall, Holding
      <3>3. QED BY <3>1, <3>2, <1>1 DEF SameCall, CallRight, Told
    <2>3. QED BY <2>1, <2>2
  <1>9. QED BY <1>2, <1>3, <1>4, <1>5, <1>6, <1>7, <1>8 DEF KeyInv

\* No request moves.
LEMMA KeyRests ==
  ASSUME KeyInv, RowsStay, inserting' = inserting,
         \A q \in Requests : SameCall(q),
         idempotency' # NotCached =>
           /\ idempotency # NotCached /\ idempotency'.id = idempotency.id
           /\ idempotency'.request_hash = idempotency.request_hash
  PROVE  KeyInv'
PROOF
  <1>1. ASSUME NEW id, NEW hash, Told(id, hash) PROVE Told(id, hash)'
    BY <1>1 DEF Told, RowsStay
  <1>2. ASSUME NEW q \in Requests PROVE CallRight(q)'
    <2>1. SameCall(q) /\ CallRight(q) BY DEF KeyInv
    <2>2. Holding(q)' <=> Holding(q) BY <2>1 DEF SameCall, Holding
    <2>3. QED BY <2>1, <2>2, <1>1 DEF SameCall, CallRight, RowsStay
  <1>3. QED BY <1>1, <1>2 DEF KeyInv, RowsStay, SameCall

\* The process holds what it held, or a row as it is committed now.
StillHeld(q) ==
  \/ /\ Holding(q)
     /\ call'[q].id = call[q].id /\ call'[q].version = call[q].version
     /\ call'[q].status = call[q].status /\ call'[q].age = call[q].age
  \/ /\ call'[q].id \in Requests /\ call'[q].status \in Statuses
     /\ call'[q].version = jobs'[call'[q].id].version /\ call'[q].age = 0

LEMMA Numbers ==
  ASSUME TypeOK, NEW id \in Requests
  PROVE  /\ jobs[id] \in Row /\ jobs[id].version \in Nat
         /\ entries[id] \in Entry /\ entries[id].version \in Nat /\ entries[id].left \in Nat
         /\ invalidated[id] \in Nat
PROOF BY RowFields, EntryFields DEF TypeOK

LEMMA CallNumbers ==
  ASSUME TypeOK, NEW p \in Processes
  PROVE  call[p] \in Call /\ call[p].version \in Nat /\ call[p].age \in Nat
PROOF BY CallFields DEF TypeOK

\* The cache is not written.
LEMMA CacheStep ==
  ASSUME TypeOK, CacheInv, TypeOK', entries' = entries, invalidated' = invalidated,
         \A id \in Requests : jobs'[id].version >= jobs[id].version,
         \A i \in invalidations' : i \in invalidations \/ i.version <= jobs'[i.id].version,
         \A q \in Processes : Holding(q)' => StillHeld(q)
  PROVE  CacheInv'
PROOF
  <1>a. \A id \in Requests : jobs'[id].version \in Nat
    BY RowFields DEF TypeOK
  <1>1. ASSUME NEW id \in Requests
        PROVE  /\ entries'[id].version <= jobs'[id].version
               /\ invalidated'[id] <= jobs'[id].version
               /\ Hit(entries'[id]) => entries'[id].version >= invalidated'[id]
    <2>1. /\ entries[id].version <= jobs[id].version /\ invalidated[id] <= jobs[id].version
          /\ Hit(entries[id]) => entries[id].version >= invalidated[id]
      BY DEF CacheInv, Hit
    <2>2. QED BY <1>a, <2>1, Numbers
  <1>2. \A i \in invalidations' : i.version <= jobs'[i.id].version
    <2> SUFFICES ASSUME NEW i \in invalidations', i \in invalidations
                 PROVE  i.version <= jobs'[i.id].version
        OBVIOUS
    <2>1. i.id \in Requests /\ i.version \in Nat BY DEF TypeOK
    <2>2. i.version <= jobs[i.id].version BY DEF CacheInv
    <2>3. QED BY <1>a, <2>1, <2>2, Numbers
  <1>3. ASSUME NEW q \in Processes, Holding(q)' PROVE HeldRow(q)'
    <2>1. StillHeld(q) BY <1>3
    <2>2. CASE /\ Holding(q)
               /\ call'[q].id = call[q].id /\ call'[q].version = call[q].version
               /\ call'[q].status = call[q].status /\ call'[q].age = call[q].age
      <3>1. HeldRow(q) BY DEF CacheInv
      <3>2. call[q].id \in Requests /\ call[q].version <= jobs[call[q].id].version
        BY <2>2, <3>1 DEF HeldRow
      <3>3. call[q].version <= jobs'[call[q].id].version
        BY <1>a, <3>2, Numbers, CallNumbers
      <3>4. QED BY <2>2, <3>1, <3>3 DEF HeldRow
    <2>3. CASE /\ call'[q].id \in Requests /\ call'[q].status \in Statuses
               /\ call'[q].version = jobs'[call'[q].id].version /\ call'[q].age = 0
      <3> DEFINE id == call'[q].id
      <3>1. /\ entries'[id].version <= call'[q].version /\ invalidated'[id] <= call'[q].version
            /\ entries'[id].version \in Nat /\ invalidated'[id] \in Nat
            /\ call'[q].version \in Nat
        BY <1>1, <1>a, <2>3, Numbers
      <3>2. ReadDelay \in Nat BY NumberFields
      <3>3. QED BY <2>3, <3>1, <3>2 DEF HeldRow
    <2>4. QED BY <2>1, <2>2, <2>3 DEF StillHeld
  <1>4. \A q \in Processes : HeldRow(q)' BY <1>3 DEF HeldRow
  <1>5. QED BY <1>1, <1>2, <1>4 DEF CacheInv

-----------------------------------------------------------------------------
(* Requests and readers. *)

LEMMA Apart ==
  \A r \in Requests : r \in Processes /\ r \notin Readers
PROOF BY ProcessAssumption DEF Processes

LEMMA ServiceFacts ==
  ASSUME ServiceInv, NEW r \in Requests
  PROVE  /\ TypeOK /\ KeyInv /\ CacheInv /\ CallRight(r) /\ RowShape(r) /\ HeldRow(r)
         /\ r \in Processes /\ r \notin Readers /\ inserting \subseteq Requests
         /\ call[r] \in Call
         /\ r \in inserting <=> call[r].stage = "commit"
PROOF BY Apart DEF ServiceInv, KeyInv, CacheInv, TypeOK, Processes

\* The steps of a request that change no row and no entry.
LEMMA RequestStep ==
  ASSUME ServiceInv, NEW r \in Requests,
         call' \in [Processes -> Call], OthersStay(r),
         UNCHANGED <<jobs, entries, invalidations, invalidated>>,
         \/ inserting' \in {inserting, inserting \ {r}}
         \/ inserting' = inserting \cup {r} /\ KeyIsFree(r),
         idempotency' \in Cached \cup {NotCached},
         \/ idempotency' = idempotency
         \/ Told(idempotency.id, idempotency.request_hash)',
         CallRight(r)', r \in inserting' <=> call'[r].stage = "commit",
         Holding(r)' => StillHeld(r)
  PROVE  ServiceInv'
PROOF
  <1>1. TypeOK /\ KeyInv /\ CacheInv /\ inserting \subseteq Requests
    BY ServiceFacts
  <1>2. TypeOK' BY <1>1, ServiceFacts DEF TypeOK
  <1>3. \A q \in Processes \ {r} : call'[q] = call[q] BY DEF OthersStay
  <1>4. RowsStay BY <1>1 DEF RowsStay, KeyInv, RowShape, Exists
  <1>5. KeyInv'
    <2>1. \A q \in Requests \ {r} : SameCall(q)
      BY <1>3, Apart DEF SameCall
    <2>2. \A q \in Requests \ {r} : q \in inserting' <=> q \in inserting OBVIOUS
    <2>3. inserting' \subseteq Requests BY <1>1
    <2>4. r \in inserting' /\ r \notin inserting =>
            inserting = {} /\ \A id \in Requests : ~Exists(id)
      BY DEF KeyIsFree
    <2>5. QED BY <1>1, <1>4, <2>1, <2>2, <2>3, <2>4, KeyStep
  <1>6. CacheInv'
    <2>1. \A q \in Processes : Holding(q)' => StillHeld(q)
      BY <1>3 DEF StillHeld, Holding
    <2>2. \A id \in Requests : jobs'[id].version >= jobs[id].version
      BY <1>1, Numbers
    <2>3. QED BY <1>1, <1>2, <2>1, <2>2, CacheStep
  <1>7. QED BY <1>2, <1>5, <1>6 DEF ServiceInv

\* The steps of a reader that write no entry.
LEMMA ReaderStep ==
  ASSUME ServiceInv, NEW g \in Readers,
         call' \in [Processes -> Call], OthersStay(g),
         UNCHANGED <<jobs, inserting, entries, idempotency, invalidations, invalidated>>,
         Holding(g)' => StillHeld(g)
  PROVE  ServiceInv'
PROOF
  <1>1. TypeOK /\ KeyInv /\ CacheInv BY DEF ServiceInv
  <1>2. TypeOK' BY <1>1 DEF TypeOK
  <1>3. \A q \in Processes \ {g} : call'[q] = call[q] BY DEF OthersStay
  <1>4. RowsStay BY <1>1 DEF RowsStay, KeyInv, RowShape, Exists
  <1>5. KeyInv'
    <2>1. \A q \in Requests : SameCall(q)
      BY <1>3, Apart DEF SameCall
    <2>2. QED BY <1>1, <1>4, <2>1, KeyRests
  <1>6. CacheInv'
    <2>1. \A q \in Processes : Holding(q)' => StillHeld(q)
      BY <1>3 DEF StillHeld, Holding
    <2>2. \A id \in Requests : jobs'[id].version >= jobs[id].version
      BY <1>1, Numbers
    <2>3. QED BY <1>1, <1>2, <2>1, <2>2, CacheStep
  <1>7. QED BY <1>2, <1>5, <1>6 DEF ServiceInv

\* A row that exists may be held and put.
LEMMA CommittedRow ==
  ASSUME ServiceInv, NEW id \in Requests, Exists(id)
  PROVE  jobs[id] \in Row /\ jobs[id].status \in Statuses /\ jobs[id].request_hash \in Hashes
PROOF BY ServiceFacts, Numbers DEF RowShape, Exists

LEMMA ScheduleSteps ==
  ASSUME ServiceInv, NEW r \in Requests,
         Schedule(r) \/ RefuseLate(r) \/ FastPath(r) \/ SlowPath(r) \/ RequestFails(r)
  PROVE  ServiceInv'
PROOF
  <1> USE ServiceFacts
  <1>0. /\ TypeOK /\ {0, 200, 201, 404, 409, 422} = Codes /\ Stages \subseteq Stages \cup {"idle", "done"}
    BY DEF Codes
  <1>1. CASE Schedule(r)
    <2>1. PICK hash \in Hashes :
            call' = [call EXCEPT ![r] = [Idle EXCEPT !.stage = "lookup", !.hash = hash]]
      BY <1>1 DEF Schedule
    <2> DEFINE c == [Idle EXCEPT !.stage = "lookup", !.hash = hash]
    <2>2. c \in Call /\ c.stage = "lookup" /\ c.hash = hash
      BY IdleFields DEF Call, Stages
    <2> HIDE DEF c
    <2>3. call' = [call EXCEPT ![r] = c] BY <2>1 DEF c
    <2>4. call' \in [Processes -> Call] /\ call'[r] = c /\ OthersStay(r)
      BY <1>0, <2>2, <2>3, CallUpdate
    <2>5. /\ call[r].stage = "idle"
          /\ UNCHANGED <<jobs, inserting, entries, idempotency, invalidations, invalidated>>
      BY <1>1 DEF Schedule, At
    <2>6. CallRight(r)' /\ ~Holding(r)' BY <2>2, <2>4 DEF CallRight, Holding
    <2>7. QED BY <1>0, <2>2, <2>4, <2>5, <2>6, RequestStep DEF TypeOK
  <1>2. CASE FastPath(r)
    <2>1. /\ call[r].stage = "lookup" /\ idempotency # NotCached
          /\ UNCHANGED <<jobs, inserting, entries, idempotency, invalidations, invalidated>>
      BY <1>2 DEF FastPath, At
    <2>2. /\ idempotency.id \in Requests /\ Told(idempotency.id, idempotency.request_hash)
          /\ call[r].hash \in Hashes
      BY <1>0, <2>1 DEF KeyInv, Told, CallRight, Stages
    <2>3. CASE SameRequest(r)
      <3> DEFINE c == [call[r] EXCEPT !.stage = "get", !.id = idempotency.id]
      <3>1. call' = [call EXCEPT ![r] = c]
        BY <1>0, <1>2, <2>3 DEF FastPath, TypeOK
      <3>2. c \in Call /\ c.stage = "get" /\ c.hash = call[r].hash /\ c.id = idempotency.id
        BY <2>2 DEF Call, Stages
      <3> HIDE DEF c
      <3>3. call' \in [Processes -> Call] /\ call'[r] = c /\ OthersStay(r)
        BY <1>0, <3>1, <3>2, CallUpdate
      <3>4. CallRight(r)' /\ ~Holding(r)'
        BY <2>1, <2>2, <2>3, <3>2, <3>3 DEF CallRight, Holding, Told, SameRequest, Exists
      <3>5. QED BY <1>0, <2>1, <3>2, <3>3, <3>4, RequestStep DEF TypeOK
    <2>4. CASE ~SameRequest(r)
      <3>1. Answer(r, idempotency.id, 409) BY <1>2, <2>4 DEF FastPath
      <3>2. /\ call' \in [Processes -> Call] /\ OthersStay(r)
            /\ call'[r].stage = "done" /\ call'[r].hash = call[r].hash
            /\ call'[r].id = idempotency.id /\ call'[r].code = 409
        BY <1>0, <2>2, <3>1, AnswerFields
      <3>3. CallRight(r)' /\ ~Holding(r)'
        BY <2>1, <2>2, <2>4, <3>2, IdleFields DEF CallRight, Holding, Told, SameRequest, Exists
      <3>4. QED BY <1>0, <2>1, <3>2, <3>3, RequestStep DEF TypeOK
    <2>5. QED BY <2>3, <2>4
  <1>3. CASE SlowPath(r)
    <2>1. /\ call[r].stage = "lookup" /\ MoveTo(r, "insert") /\ "insert" \in Stages
          /\ "lookup" \in Stages
          /\ UNCHANGED <<jobs, inserting, entries, idempotency, invalidations, invalidated>>
      BY <1>3 DEF SlowPath, At, Stages
    <2>2. /\ call' \in [Processes -> Call] /\ OthersStay(r)
          /\ call'[r].stage = "insert" /\ call'[r].hash = call[r].hash
      BY <1>0, <2>1, MoveToFields
    <2>3. CallRight(r)' /\ ~Holding(r)' BY <2>1, <2>2 DEF CallRight, Holding
    <2>4. QED BY <1>0, <2>1, <2>2, <2>3, RequestStep DEF TypeOK
  <1>4. CASE RequestFails(r)
    <2>1. /\ Answer(r, "none", 0) /\ inserting' = inserting \ {r}
          /\ UNCHANGED <<jobs, entries, idempotency, invalidations, invalidated>>
      BY <1>4 DEF RequestFails
    <2>2. /\ call' \in [Processes -> Call] /\ OthersStay(r)
          /\ call'[r].stage = "done" /\ call'[r].code = 0
      BY <1>0, <2>1, AnswerFields
    <2>3. CallRight(r)' /\ ~Holding(r)'
      BY <2>2, IdleFields DEF CallRight, Holding
    <2>4. QED BY <1>0, <2>1, <2>2, <2>3, RequestStep DEF TypeOK
  <1>5. CASE RefuseLate(r)
    <2>1. PICK hash \in TimedHashes :
            call' = [call EXCEPT ![r] = [Idle EXCEPT !.stage = "done", !.hash = hash, !.code = 422]]
      BY <1>5 DEF RefuseLate
    <2> DEFINE c == [Idle EXCEPT !.stage = "done", !.hash = hash, !.code = 422]
    <2>2. hash \in Hashes BY HashAssumption
    <2>3. c \in Call /\ c.stage = "done" /\ c.code = 422
      <3>1. ASSUME NEW code \in Codes
            PROVE  LET ended == [Idle EXCEPT !.stage = "done", !.hash = hash, !.code = code] IN
                   ended \in Call /\ ended.stage = "done" /\ ended.code = code
        BY <2>2, IdleFields DEF Call
      <3>2. QED BY <3>1 DEF Codes
    <2> HIDE DEF c
    <2>4. call' = [call EXCEPT ![r] = c] BY <2>1 DEF c
    <2>5. call' \in [Processes -> Call] /\ call'[r] = c /\ OthersStay(r)
      BY <1>0, <2>3, <2>4, CallUpdate
    <2>6. /\ call[r].stage = "idle"
          /\ UNCHANGED <<jobs, inserting, entries, idempotency, invalidations, invalidated>>
      BY <1>5 DEF RefuseLate, At
    <2>7. CallRight(r)' /\ ~Holding(r)' BY <2>3, <2>5, IdleFields DEF CallRight, Holding
    <2>8. QED BY <1>0, <2>3, <2>5, <2>6, <2>7, RequestStep DEF TypeOK
  <1>6. QED BY <1>1, <1>2, <1>3, <1>4, <1>5

LEMMA InsertSteps ==
  ASSUME ServiceInv, NEW r \in Requests,
         Insert(r) \/ CommitInsert(r) \/ InsertConflicts(r) \/ PutIdempotency(r)
  PROVE  ServiceInv'
PROOF
  <1> USE ServiceFacts
  <1>0. /\ TypeOK /\ {200, 201, 409} \subseteq Codes
        /\ {"insert", "commit", "remember", "put"} \subseteq Stages
    BY DEF Codes, Stages
  <1>1. CASE Insert(r)
    <2>1. /\ call[r].stage = "insert" /\ KeyIsFree(r) /\ inserting' = inserting \cup {r}
          /\ MoveTo(r, "commit")
          /\ UNCHANGED <<jobs, entries, idempotency, invalidations, invalidated>>
      BY <1>1 DEF Insert, At
    <2>2. /\ call' \in [Processes -> Call] /\ OthersStay(r)
          /\ call'[r].stage = "commit" /\ call'[r].hash = call[r].hash
      BY <1>0, <2>1, MoveToFields
    <2>3. CallRight(r)' /\ ~Holding(r)'
      BY <1>0, <2>1, <2>2 DEF CallRight, Holding
    <2>4. QED BY <1>0, <2>1, <2>2, <2>3, RequestStep DEF TypeOK
  <1>2. CASE CommitInsert(r)
    <2> DEFINE row == InsertedRow(call[r].hash)
    <2>1. /\ call[r].stage = "commit" /\ jobs' = [jobs EXCEPT ![r] = row]
          /\ inserting' = inserting \ {r} /\ Hold(r, "remember", r, row, 201)
          /\ UNCHANGED <<entries, idempotency, invalidations, invalidated>>
      BY <1>2 DEF CommitInsert, At
    <2>2. /\ row \in Row /\ row # NoRow /\ row.version = 1 /\ row.status \in Statuses
          /\ row.request_hash = call[r].hash /\ call[r].hash \in Hashes
      BY <1>0, <2>1, InsertedRowFields DEF CallRight
    <2> HIDE DEF row
    <2>3. r \in inserting /\ ~Exists(r) /\ jobs[r] = NoRow
      BY <2>1 DEF KeyInv, Exists
    <2>4. /\ call' \in [Processes -> Call] /\ OthersStay(r)
          /\ call'[r].stage = "remember" /\ call'[r].hash = call[r].hash /\ call'[r].id = r
          /\ call'[r].version = row.version /\ call'[r].status = row.status
          /\ call'[r].code = 201 /\ call'[r].age = 0
      BY <1>0, <2>1, <2>2, HoldFields
    <2>5. /\ jobs'[r] = row /\ \A id \in Requests \ {r} : jobs'[id] = jobs[id]
          /\ jobs' \in [Requests -> Row]
      BY <1>0, <2>1, <2>2 DEF TypeOK
    <2>6. TypeOK' BY <1>0, <2>1, <2>4, <2>5 DEF TypeOK
    <2>7. \A q \in Processes \ {r} : call'[q] = call[q] BY <2>4 DEF OthersStay
    <2>8. KeyInv'
      <3>1. CallRight(r)' BY <2>2, <2>4, <2>5, <1>0 DEF CallRight, Holding, Told, Exists
      <3>2. \A q \in Requests \ {r} : SameCall(q) BY <2>7, Apart DEF SameCall
      <3>3. RowShape(r)' /\ Exists(r)' BY <2>2, <2>5 DEF RowShape, Exists
      <3>4. QED BY <2>1, <2>3, <2>4, <2>5, <3>1, <3>2, <3>3, KeyStep
    <2>9. CacheInv'
      <3>1. \A q \in Processes : Holding(q)' => StillHeld(q)
        <4>1. StillHeld(r) BY <2>2, <2>4, <2>5 DEF StillHeld
        <4>2. QED BY <4>1, <2>7 DEF StillHeld, Holding
      <3>2. \A id \in Requests : jobs'[id].version >= jobs[id].version
        BY <1>0, <2>2, <2>3, <2>5, Numbers, NoRowFields
      <3>3. QED BY <1>0, <2>1, <2>6, <3>1, <3>2, CacheStep
    <2>10. QED BY <2>6, <2>8, <2>9 DEF ServiceInv
  <1>3. CASE InsertConflicts(r)
    <2>1. PICK id \in Requests :
            /\ Exists(id)
            /\ IF jobs[id].request_hash = call[r].hash
               THEN Hold(r, "remember", id, jobs[id], 200)
               ELSE Answer(r, id, 409)
      BY <1>3 DEF InsertConflicts
    <2>2. /\ call[r].stage = "insert" /\ call[r].hash \in Hashes
          /\ UNCHANGED <<jobs, inserting, entries, idempotency, invalidations, invalidated>>
      BY <1>0, <1>3 DEF InsertConflicts, At, CallRight
    <2>3. jobs[id] \in Row /\ jobs[id].status \in Statuses
      BY <2>1, CommittedRow
    <2>4. CASE jobs[id].request_hash = call[r].hash
      <3>1. /\ call' \in [Processes -> Call] /\ OthersStay(r)
            /\ call'[r].stage = "remember" /\ call'[r].hash = call[r].hash /\ call'[r].id = id
            /\ call'[r].version = jobs[id].version /\ call'[r].status = jobs[id].status
            /\ call'[r].code = 200 /\ call'[r].age = 0
        BY <1>0, <2>1, <2>3, <2>4, HoldFields
      <3>2. CallRight(r)' /\ StillHeld(r)
        BY <2>1, <2>2, <2>3, <2>4, <3>1 DEF CallRight, Holding, StillHeld, Told, Exists
      <3>3. QED BY <1>0, <2>2, <3>1, <3>2, RequestStep DEF TypeOK
    <2>5. CASE jobs[id].request_hash # call[r].hash
      <3>1. /\ call' \in [Processes -> Call] /\ OthersStay(r)
            /\ call'[r].stage = "done" /\ call'[r].hash = call[r].hash
            /\ call'[r].id = id /\ call'[r].code = 409
        BY <1>0, <2>1, <2>5, AnswerFields
      <3>2. CallRight(r)' /\ ~Holding(r)'
        BY <2>1, <2>2, <2>5, <3>1, IdleFields DEF CallRight, Holding, Exists
      <3>3. QED BY <1>0, <2>2, <3>1, <3>2, RequestStep DEF TypeOK
    <2>6. QED BY <2>4, <2>5
  <1>4. CASE PutIdempotency(r)
    <2> DEFINE answer == [id |-> call[r].id, request_hash |-> call[r].hash,
                          left |-> IdempotencyTtl]
    <2>1. /\ call[r].stage = "remember" /\ MoveTo(r, "put")
          /\ idempotency' = idempotency \/ idempotency' = answer
          /\ UNCHANGED <<jobs, inserting, entries, invalidations, invalidated>>
      BY <1>4 DEF PutIdempotency, At
    <2>2. Told(call[r].id, call[r].hash) /\ call[r].hash \in Hashes
      BY <1>0, <2>1 DEF CallRight, Holding
    <2>3. answer \in Cached /\ answer.id = call[r].id /\ answer.request_hash = call[r].hash
      BY <2>2, NumberFields DEF Cached, Told
    <2> HIDE DEF answer
    <2>4. /\ call' \in [Processes -> Call] /\ OthersStay(r)
          /\ call'[r].stage = "put" /\ call'[r].hash = call[r].hash /\ call'[r].id = call[r].id
          /\ call'[r].version = call[r].version /\ call'[r].status = call[r].status
          /\ call'[r].code = call[r].code /\ call'[r].age = call[r].age
      BY <1>0, <2>1, MoveToFields
    <2>5. CallRight(r)' /\ StillHeld(r)
      BY <1>0, <2>1, <2>2, <2>4 DEF CallRight, Holding, StillHeld, Told, Exists
    <2>6. idempotency' = idempotency \/ Told(idempotency.id, idempotency.request_hash)'
      BY <2>1, <2>2, <2>3 DEF Told, Exists
    <2>7. idempotency' \in Cached \cup {NotCached}
      BY <1>0, <2>1, <2>3 DEF TypeOK
    <2>8. QED BY <1>0, <2>1, <2>4, <2>5, <2>6, <2>7, RequestStep
  <1>5. QED BY <1>1, <1>2, <1>3, <1>4

LEMMA GetSteps ==
  ASSUME ServiceInv, NEW p \in Processes, NEW id \in Requests, GetCached(p, id) \/ Load(p, id)
  PROVE  ServiceInv'
PROOF
  <1>0. /\ TypeOK /\ {0, 200, 404} \subseteq Codes /\ {"get", "put", "insert"} \subseteq Stages
        /\ UNCHANGED <<jobs, inserting, entries, idempotency, invalidations, invalidated>>
        /\ jobs[id] \in Row /\ call[p] \in Call
    BY Numbers, CallNumbers DEF GetCached, Load, ServiceInv, Codes, Stages
  \* A request gets here with the id it was told of.
  <1>1. ASSUME p \in Requests
        PROVE  /\ call[p].stage = "get" /\ id = call[p].id /\ Told(id, call[p].hash)
               /\ call[p].hash \in Hashes /\ p \notin Readers /\ p \notin inserting
    <2>1. call[p].stage = "get" /\ id = call[p].id
      BY <1>1, Apart DEF GetCached, Load, Wants, At
    <2>2. QED BY <1>0, <1>1, <2>1, ServiceFacts DEF CallRight
  <1>2. ASSUME NEW code \in {200, 404}, Answer(p, id, code), p \in Requests => code = 200
        PROVE  ServiceInv'
    <2>1. /\ call' \in [Processes -> Call] /\ OthersStay(p)
          /\ p \in Readers => call'[p] = Idle
          /\ p \notin Readers => /\ call'[p].stage = "done" /\ call'[p].hash = call[p].hash
                                 /\ call'[p].id = id /\ call'[p].code = code
      BY <1>0, <1>2, AnswerFields
    <2>2. CASE p \in Readers
      BY <1>0, <2>1, <2>2, ReaderStep, IdleFields DEF Holding
    <2>3. CASE p \in Requests
      <3>1. CallRight(p)' /\ ~Holding(p)'
        BY <1>0, <1>1, <1>2, <2>1, <2>3, IdleFields DEF CallRight, Holding, Told, Exists
      <3>2. QED BY <1>0, <1>1, <2>1, <2>3, <3>1, RequestStep DEF TypeOK
    <2>4. QED BY <2>2, <2>3 DEF Processes
  <1>3. CASE GetCached(p, id)
    BY <1>2, <1>3 DEF GetCached
  <1>4. CASE Load(p, id) /\ Exists(id)
    <2>1. Hold(p, "put", id, jobs[id], 200) BY <1>4 DEF Load
    <2>2. /\ call' \in [Processes -> Call] /\ OthersStay(p)
          /\ call'[p].stage = "put" /\ call'[p].hash = call[p].hash /\ call'[p].id = id
          /\ call'[p].version = jobs[id].version /\ call'[p].status = jobs[id].status
          /\ call'[p].code = 200 /\ call'[p].age = 0
      BY <1>0, <2>1, HoldFields
    <2>3. StillHeld(p) BY <1>0, <1>4, <2>2, CommittedRow DEF StillHeld
    <2>4. CASE p \in Readers BY <1>0, <2>2, <2>3, <2>4, ReaderStep
    <2>5. CASE p \in Requests
      <3>1. CallRight(p)'
        BY <1>0, <1>1, <2>2, <2>5 DEF CallRight, Holding, Told, Exists
      <3>2. QED BY <1>0, <1>1, <2>2, <2>3, <2>5, <3>1, RequestStep DEF TypeOK
    <2>6. QED BY <2>4, <2>5 DEF Processes
  <1>5. CASE Load(p, id) /\ ~Exists(id)
    <2>1. p \in Readers BY <1>1, <1>5 DEF Told, Processes
    <2>2. Answer(p, id, 404) BY <1>5, <2>1 DEF Load
    <2>3. QED BY <1>2, <2>1, <2>2, Apart
  <1>6. QED BY <1>3, <1>4, <1>5

-----------------------------------------------------------------------------
(* An entry is written: by a process that puts its row, or by an invalidation. *)

\* The process holds what it held.
HeldBefore(q) ==
  /\ Holding(q)
  /\ call'[q].id = call[q].id /\ call'[q].version = call[q].version
  /\ call'[q].status = call[q].status /\ call'[q].age = call[q].age

\* A row may be put if no invalidation has overtaken it, unless the entry turns it away.
LEMMA EntryWritten ==
  ASSUME TypeOK, CacheInv, TypeOK', jobs' = jobs, invalidations' \subseteq invalidations,
         NEW id \in Requests, NEW v \in Nat, NEW body \in Statuses \cup {Tombstone},
         v <= jobs[id].version,
         entries' = [entries EXCEPT ![id] = SetIfNewer(@, v, body)],
         \A other \in Requests \ {id} : invalidated'[other] = invalidated[other],
         \/ invalidated'[id] = invalidated[id]
         \/ invalidated'[id] = v /\ invalidated[id] < v,
         \/ body = Tombstone
         \/ Live(entries[id]) /\ entries[id].version > v /\ invalidated'[id] = invalidated[id]
         \/ v >= invalidated[id] /\ invalidated'[id] = invalidated[id],
         \A q \in Processes : Holding(q)' => HeldBefore(q)
  PROVE  CacheInv'
PROOF
  <1> DEFINE e == entries[id]
             new == SetIfNewer(e, v, body)
  <1>1. /\ e \in Entry /\ e.version \in Nat /\ e.left \in Nat /\ jobs[id].version \in Nat
        /\ invalidated[id] \in Nat /\ invalidated'[id] \in Nat
        /\ e.version <= jobs[id].version /\ invalidated[id] <= jobs[id].version
        /\ Hit(e) => e.version >= invalidated[id]
    BY Numbers DEF CacheInv, TypeOK
  <1>2. /\ entries'[id] = new
        /\ \A other \in Requests \ {id} : entries'[other] = entries[other]
    BY DEF TypeOK
  <1>3. /\ new \in Entry
        /\ \/ Live(e) /\ e.version > v /\ new = e
           \/ /\ Live(e) => e.version <= v
              /\ new.version = v /\ new.body = body /\ new.left > ReadDelay /\ Live(new)
    BY <1>1, SetIfNewerFields
  <1>4. new.version \in Nat /\ new.left \in Nat /\ ReadDelay \in Nat /\ Tombstone \notin Statuses
    BY <1>3, EntryFields, NumberFields
  <1> HIDE DEF e, new
  <1>5. ASSUME NEW other \in Requests
        PROVE  /\ entries'[other].version <= jobs'[other].version
               /\ invalidated'[other] <= jobs'[other].version
               /\ Hit(entries'[other]) => entries'[other].version >= invalidated'[other]
    <2>1. CASE other # id BY <1>2, <2>1 DEF CacheInv
    <2>2. CASE other = id
      <3>1. new.version <= jobs[id].version /\ invalidated'[id] <= jobs[id].version
        BY <1>1, <1>3, <1>4
      <3>2. Hit(new) => new.version >= invalidated'[id]
        <4>1. CASE Live(e) /\ e.version > v /\ new = e BY <1>1, <1>3, <4>1
        <4>2. CASE /\ Live(e) => e.version <= v
                   /\ new.version = v /\ new.body = body
          BY <1>1, <1>3, <1>4, <4>2 DEF Hit, e
        <4>3. QED BY <1>3, <4>1, <4>2
      <3>3. QED BY <1>2, <2>2, <3>1, <3>2
    <2>3. QED BY <2>1, <2>2
  <1>6. ASSUME NEW q \in Processes, Holding(q)' PROVE HeldRow(q)'
    <2>1. HeldBefore(q) /\ HeldRow(q) /\ call[q].version \in Nat /\ call[q].age \in Nat
      BY <1>6, CallNumbers DEF CacheInv
    <2>2. /\ call[q].id \in Requests /\ call[q].status \in Statuses
          /\ call[q].version <= jobs[call[q].id].version /\ call[q].age <= ReadDelay
      BY <2>1 DEF HeldRow, HeldBefore
    <2>3. CASE call[q].id # id BY <1>2, <2>1, <2>2, <2>3 DEF HeldRow, HeldBefore
    <2>4. CASE call[q].id = id
      <3>1. Live(new) /\ call[q].version < new.version => new.left > ReadDelay - call[q].age
        BY <1>3, <1>4, <2>1, <2>4 DEF HeldRow, HeldBefore, e
      <3>2. call[q].version < invalidated'[id] =>
              Live(new) /\ new.version >= invalidated'[id]
        <4>1. CASE invalidated'[id] = v BY <1>1, <1>3, <1>4, <4>1
        <4>2. CASE invalidated'[id] = invalidated[id]
          <5>1. call[q].version < invalidated[id] => Live(e) /\ e.version >= invalidated[id]
            BY <2>1, <2>4 DEF HeldRow, HeldBefore, e
          <5>2. QED BY <1>1, <1>3, <1>4, <4>2, <5>1
        <4>3. QED BY <4>1, <4>2
      <3>3. QED BY <1>2, <2>1, <2>2, <2>4, <3>1, <3>2 DEF HeldRow, HeldBefore
    <2>5. QED BY <2>3, <2>4
  <1>7. \A q \in Processes : HeldRow(q)' BY <1>6 DEF HeldRow
  <1>8. QED BY <1>5, <1>7 DEF CacheInv

LEMMA PutJobStep ==
  ASSUME ServiceInv, NEW p \in Processes, PutJob(p)
  PROVE  ServiceInv'
PROOF
  <1> DEFINE id == call[p].id
             v == call[p].version
             status == call[p].status
             code == call[p].code
  <1>1. /\ call[p].stage = "put" /\ Answer(p, id, code)
        /\ entries' \in {entries, [entries EXCEPT ![id] = SetIfNewer(@, v, status)]}
        /\ UNCHANGED <<jobs, inserting, idempotency, invalidations, invalidated>>
    BY DEF PutJob, At, Put
  <1>2. TypeOK /\ KeyInv /\ CacheInv /\ HeldRow(p) /\ Holding(p)
    BY <1>1 DEF ServiceInv, CacheInv, Holding
  <1>3. /\ id \in Requests /\ status \in Statuses /\ v \in Nat /\ code \in Codes
        /\ v <= jobs[id].version
        /\ v < invalidated[id] => Live(entries[id]) /\ entries[id].version >= invalidated[id]
    BY <1>2, CallNumbers, CallFields DEF HeldRow
  <1>4. /\ call' \in [Processes -> Call] /\ OthersStay(p)
        /\ p \in Readers => call'[p] = Idle
        /\ p \notin Readers => /\ call'[p].stage = "done" /\ call'[p].hash = call[p].hash
                               /\ call'[p].id = id /\ call'[p].code = code
    BY <1>1, <1>2, <1>3, AnswerFields
  <1>5. ~Holding(p)' BY <1>4, IdleFields DEF Holding
  <1>6. \A q \in Processes \ {p} : call'[q] = call[q] BY <1>4 DEF OthersStay
  <1>7. entries' \in [Requests -> Entry]
    <2>1. SetIfNewer(entries[id], v, status) \in Entry
      BY <1>2, <1>3, Numbers, SetIfNewerFields
    <2>2. QED BY <1>1, <1>2, <2>1 DEF TypeOK
  <1>8. TypeOK' BY <1>1, <1>2, <1>4, <1>7 DEF TypeOK
  <1>9. KeyInv'
    <2>1. RowsStay BY <1>1, <1>2 DEF RowsStay, KeyInv, RowShape, Exists
    <2>2. CASE p \in Readers
      <3>1. \A q \in Requests : SameCall(q) BY <1>6, <2>2, Apart DEF SameCall
      <3>2. QED BY <1>1, <1>2, <2>1, <3>1, KeyRests
    <2>3. CASE p \in Requests
      <3>1. CallRight(p) /\ p \notin Readers /\ p \notin inserting
        BY <1>1, <2>3, ServiceFacts
      <3>2. CallRight(p)'
        BY <1>1, <1>2, <1>4, <3>1, IdleFields DEF CallRight, Holding, Told, Exists
      <3>3. \A q \in Requests \ {p} : SameCall(q) BY <1>6, Apart DEF SameCall
      <3>4. inserting \subseteq Requests BY <1>2 DEF TypeOK
      <3>5. QED BY <1>1, <1>2, <1>4, <2>1, <2>3, <3>1, <3>2, <3>3, <3>4, KeyStep
    <2>4. QED BY <2>2, <2>3 DEF Processes
  <1>10. CacheInv'
    <2>1. \A q \in Processes : Holding(q)' => HeldBefore(q)
      BY <1>5, <1>6 DEF HeldBefore, Holding
    <2>2. CASE entries' = entries
      <3>1. \A q \in Processes : Holding(q)' => StillHeld(q)
        BY <2>1 DEF HeldBefore, StillHeld
      <3>2. \A job \in Requests : jobs'[job].version >= jobs[job].version
        BY <1>1, <1>2, Numbers
      <3>3. QED BY <1>1, <1>2, <1>8, <2>2, <3>1, <3>2, CacheStep
    <2>3. CASE entries' = [entries EXCEPT ![id] = SetIfNewer(@, v, status)]
      <3>1. /\ entries[id].version \in Nat /\ invalidated[id] \in Nat
        BY <1>2, <1>3, Numbers
      <3>2. \/ Live(entries[id]) /\ entries[id].version > v
            \/ v >= invalidated[id]
        BY <1>3, <3>1
      <3> HIDE DEF id, v, status
      <3>3. QED BY <1>1, <1>2, <1>3, <1>8, <2>1, <2>3, <3>2, EntryWritten
    <2>4. QED BY <1>1, <2>2, <2>3
  <1>11. QED BY <1>8, <1>9, <1>10 DEF ServiceInv

-----------------------------------------------------------------------------
(* The workers' steps. *)

\* An update bumps the version; an invalidation of the version it has reached may follow.
LEMMA UpdateStep ==
  ASSUME ServiceInv, NEW id \in Requests, NEW status \in Statuses,
         jobs[id].status \in Statuses, Update(id, status),
         \/ invalidations' = invalidations
         \/ Invalidates(id),
         UNCHANGED <<inserting, entries, idempotency, invalidated, call>>
  PROVE  ServiceInv'
PROOF
  <1> DEFINE row == [jobs[id] EXCEPT !.version = @ + 1, !.status = status]
  <1>1. TypeOK /\ KeyInv /\ CacheInv BY DEF ServiceInv
  <1>2. jobs[id] \in Row /\ jobs[id].version \in Nat BY <1>1, Numbers
  <1>3. jobs[id].version + 1 \in Nat BY <1>2
  <1>4. /\ row \in Row /\ row.version = jobs[id].version + 1 /\ row.status = status
        /\ row.request_hash = jobs[id].request_hash
    BY <1>2, <1>3 DEF Row
  <1> HIDE DEF row
  <1>5. jobs' = [jobs EXCEPT ![id] = row] BY <1>1 DEF Update, TypeOK, row
  <1>6. /\ jobs' \in [Requests -> Row] /\ jobs'[id] = row
        /\ \A other \in Requests \ {id} : jobs'[other] = jobs[other]
    BY <1>1, <1>4, <1>5 DEF TypeOK
  <1>7. jobs[id] # NoRow /\ RowShape(id)
    BY <1>1, NoRowFields DEF KeyInv, Statuses
  <1>8. row # NoRow BY <1>4, NoRowFields DEF Statuses
  <1>9. invalidations' \subseteq [id : Requests, version : Nat]
    BY <1>1, <1>2 DEF TypeOK, Invalidates
  <1>10. TypeOK' BY <1>1, <1>6, <1>9 DEF TypeOK
  <1>11. RowsStay
    <2>1. RowShape(id)' BY <1>2, <1>4, <1>6, <1>7 DEF RowShape
    <2>2. QED BY <1>1, <1>4, <1>6, <1>7, <1>8, <2>1 DEF RowsStay, RowShape, Exists, KeyInv
  <1>12. KeyInv' BY <1>1, <1>11, KeyRests DEF SameCall
  <1>13. CacheInv'
    <2>1. \A other \in Requests : jobs'[other].version >= jobs[other].version
      BY <1>1, <1>4, <1>6, Numbers
    <2>2. \A i \in invalidations' : i \in invalidations \/ i.version <= jobs'[i.id].version
      BY <1>2, <1>4, <1>6 DEF Invalidates
    <2>3. \A q \in Processes : Holding(q)' => StillHeld(q) BY DEF Holding, StillHeld
    <2>4. QED BY <1>1, <1>10, <2>1, <2>2, <2>3, CacheStep
  <1>14. QED BY <1>10, <1>12, <1>13 DEF ServiceInv

LEMMA WorkerSteps ==
  ASSUME ServiceInv, NEW id \in Requests, Claim(id) \/ Finish(id) \/ Requeue(id)
  PROVE  ServiceInv'
PROOF
  <1>1. CASE Claim(id) BY <1>1, UpdateStep DEF Claim, Statuses
  <1>2. CASE Finish(id)
    <2>1. PICK status \in {"pending", "sent", "dead_lettered"} : Update(id, status)
      BY <1>2 DEF Finish
    <2>2. QED BY <1>2, <2>1, UpdateStep DEF Finish, Statuses
  <1>3. CASE Requeue(id) BY <1>3, UpdateStep DEF Requeue, Statuses
  <1>4. QED BY <1>1, <1>2, <1>3

LEMMA InvalidationStep ==
  ASSUME ServiceInv, NEW i \in invalidations, InvalidationArrives(i)
  PROVE  ServiceInv'
PROOF
  <1>1. TypeOK /\ KeyInv /\ CacheInv BY DEF ServiceInv
  <1>2. i.id \in Requests /\ i.version \in Nat /\ i.version <= jobs[i.id].version
    BY <1>1 DEF TypeOK, CacheInv
  <1> DEFINE id == i.id
             v == i.version
             newest == IF invalidated[id] < v THEN v ELSE invalidated[id]
  <1>3. /\ entries' = [entries EXCEPT ![id] = SetIfNewer(@, v, Tombstone)]
        /\ invalidated' = [invalidated EXCEPT ![id] = newest]
        /\ invalidations' = invalidations \ {i}
        /\ UNCHANGED <<jobs, inserting, idempotency, call>>
    BY DEF InvalidationArrives, Invalidate
  <1>4. newest \in Nat /\ (newest = invalidated[id] \/ (newest = v /\ invalidated[id] < v))
    BY <1>1, <1>2, Numbers
  <1>5. SetIfNewer(entries[id], v, Tombstone) \in Entry
    BY <1>1, <1>2, Numbers, SetIfNewerFields
  <1> HIDE DEF newest, id, v
  <1>6. TypeOK' BY <1>1, <1>2, <1>3, <1>4, <1>5 DEF TypeOK, id
  <1>7. KeyInv'
    <2>1. RowsStay BY <1>1, <1>3 DEF RowsStay, KeyInv, RowShape, Exists
    <2>2. QED BY <1>1, <1>3, <2>1, KeyRests DEF SameCall
  <1>8. CacheInv'
    <2>1. \A q \in Processes : Holding(q)' => HeldBefore(q) BY <1>3 DEF HeldBefore, Holding
    <2>2. /\ invalidated'[id] = newest
          /\ \A other \in Requests \ {id} : invalidated'[other] = invalidated[other]
      BY <1>1, <1>2, <1>3 DEF TypeOK, id
    <2>3. id \in Requests /\ v \in Nat /\ v <= jobs[id].version BY <1>2 DEF id, v
    <2>4. jobs' = jobs /\ invalidations' \subseteq invalidations BY <1>3
    <2>5. QED BY <1>1, <1>3, <1>4, <1>6, <2>1, <2>2, <2>3, <2>4, EntryWritten
  <1>9. QED BY <1>6, <1>7, <1>8 DEF ServiceInv

-----------------------------------------------------------------------------
(* Time. *)

LEMMA AgedAnswerFields ==
  ASSUME TypeOK
  PROVE  /\ AgedAnswer \in Cached \cup {NotCached}
         /\ AgedAnswer # NotCached =>
              /\ idempotency # NotCached /\ AgedAnswer.id = idempotency.id
              /\ AgedAnswer.request_hash = idempotency.request_hash
PROOF
  <1>1. NotCached.left = 0 BY DEF NotCached
  <1>2. CASE idempotency.left > 1
    <2>1. idempotency \in Cached /\ idempotency # NotCached /\ idempotency.left \in Nat
      BY <1>1, <1>2 DEF TypeOK, Cached
    <2>2. idempotency.left - 1 \in Nat BY <1>2, <2>1
    <2>3. QED BY <1>2, <2>1, <2>2 DEF AgedAnswer, Cached
  <1>3. CASE ~(idempotency.left > 1) BY <1>3 DEF AgedAnswer
  <1>4. QED BY <1>2, <1>3

LEMMA OlderCall ==
  ASSUME TypeOK, NEW p \in Processes, Tick
  PROVE  /\ call'[p] \in Call
         /\ call'[p].stage = call[p].stage /\ call'[p].hash = call[p].hash
         /\ call'[p].id = call[p].id /\ call'[p].version = call[p].version
         /\ call'[p].status = call[p].status /\ call'[p].code = call[p].code
         /\ call'[p].age = IF Holding(p) THEN call[p].age + 1 ELSE call[p].age
PROOF
  <1> DEFINE older == [call[p] EXCEPT !.age = @ + 1]
  <1>1. call[p] \in Call /\ call[p].age \in Nat BY CallNumbers
  <1>2. call[p].age + 1 \in Nat BY <1>1
  <1>3. /\ older \in Call /\ older.stage = call[p].stage /\ older.hash = call[p].hash
        /\ older.id = call[p].id /\ older.version = call[p].version
        /\ older.status = call[p].status /\ older.code = call[p].code
        /\ older.age = call[p].age + 1
    BY <1>1, <1>2 DEF Call
  <1>4. call'[p] = IF Holding(p) THEN older ELSE call[p] BY DEF Tick
  <1> HIDE DEF older
  <1>5. QED BY <1>1, <1>3, <1>4

LEMMA TickStep ==
  ASSUME ServiceInv, Tick
  PROVE  ServiceInv'
PROOF
  <1>1. TypeOK /\ KeyInv /\ CacheInv BY DEF ServiceInv
  <1>2. /\ UNCHANGED <<jobs, inserting, invalidations, invalidated>>
        /\ \A id \in Requests : entries'[id] = Aged(entries[id])
        /\ idempotency' = AgedAnswer
    BY DEF Tick
  <1>3. TypeOK'
    <2>1. \A id \in Requests : Aged(entries[id]) \in Entry
      BY <1>1, Numbers, AgedFields
    <2>2. entries' \in [Requests -> Entry] BY <2>1 DEF Tick
    <2>3. call' \in [Processes -> Call]
      <3>1. \A p \in Processes : call'[p] \in Call BY <1>1, OlderCall
      <3>2. QED BY <3>1 DEF Tick
    <2>4. QED BY <1>1, <1>2, <2>2, <2>3, AgedAnswerFields DEF TypeOK
  <1>4. KeyInv'
    <2>1. RowsStay BY <1>1, <1>2 DEF RowsStay, KeyInv, RowShape, Exists
    <2>2. \A q \in Requests : SameCall(q) BY <1>1, OlderCall, Apart DEF SameCall
    <2>3. QED BY <1>1, <1>2, <2>1, <2>2, AgedAnswerFields, KeyRests
  \* An entry is as it was, with one tick less to live, or it is gone.
  <1>5. ASSUME NEW id \in Requests
        PROVE  /\ entries'[id].version \in Nat /\ entries'[id].left \in Nat
               /\ \/ /\ Live(entries[id]) /\ Live(entries'[id])
                     /\ entries'[id].version = entries[id].version
                     /\ entries'[id].body = entries[id].body
                     /\ entries'[id].left = entries[id].left - 1
                  \/ /\ ~(entries[id].left > 1)
                     /\ entries'[id] = NoEntry
    <2>1. entries[id] \in Entry /\ entries[id].left \in Nat BY <1>1, Numbers
    <2>2. Aged(entries[id]) \in Entry BY <2>1, AgedFields
    <2>3. QED BY <1>2, <2>1, <2>2, AgedFields, EntryFields DEF Live
  <1>6. ASSUME NEW id \in Requests
        PROVE  /\ entries'[id].version <= jobs'[id].version
               /\ invalidated'[id] <= jobs'[id].version
               /\ Hit(entries'[id]) => entries'[id].version >= invalidated'[id]
    <2>1. /\ entries[id].version <= jobs[id].version /\ invalidated[id] <= jobs[id].version
          /\ Hit(entries[id]) => entries[id].version >= invalidated[id]
      BY <1>1 DEF CacheInv
    <2>2. QED BY <1>1, <1>2, <1>5, <2>1, Numbers, NoEntryFields DEF Hit
  <1>7. ASSUME NEW q \in Processes, Holding(q)' PROVE HeldRow(q)'
    <2>1. /\ Holding(q)
          /\ call'[q].id = call[q].id /\ call'[q].version = call[q].version
          /\ call'[q].status = call[q].status /\ call'[q].age = call[q].age + 1
      BY <1>1, <1>7, OlderCall DEF Holding
    <2> DEFINE id == call[q].id
    <2>2. /\ id \in Requests /\ call[q].status \in Statuses
          /\ call[q].version <= jobs[id].version
          /\ Live(entries[id]) /\ call[q].version < entries[id].version =>
               entries[id].left > ReadDelay - call[q].age
          /\ call[q].version < invalidated[id] =>
               Live(entries[id]) /\ entries[id].version >= invalidated[id]
      BY <1>1, <2>1 DEF CacheInv, HeldRow
    <2>3. call[q].age < ReadDelay BY <2>1 DEF Tick
    <2>4. /\ call[q].version \in Nat /\ call[q].age \in Nat /\ ReadDelay \in Nat
          /\ entries[id].version \in Nat /\ entries[id].left \in Nat /\ invalidated[id] \in Nat
      BY <1>1, <2>2, CallNumbers, Numbers, NumberFields
    <2>5. /\ entries'[id].version \in Nat /\ entries'[id].left \in Nat
          /\ \/ /\ Live(entries[id]) /\ Live(entries'[id])
                /\ entries'[id].version = entries[id].version
                /\ entries'[id].left = entries[id].left - 1
             \/ ~(entries[id].left > 1) /\ entries'[id] = NoEntry
      BY <1>5, <2>2
    <2> HIDE DEF id
    <2>6. call'[q].age <= ReadDelay BY <2>1, <2>3, <2>4
    <2>7. Live(entries'[id]) /\ call[q].version < entries'[id].version =>
            entries'[id].left > ReadDelay - (call[q].age + 1)
      BY <2>2, <2>4, <2>5, NoEntryFields
    \* It cannot be gone: it outlives the reader.
    <2>8. call[q].version < invalidated[id] =>
            Live(entries'[id]) /\ entries'[id].version >= invalidated[id]
      BY <2>2, <2>3, <2>4, <2>5
    <2>9. QED BY <1>2, <2>1, <2>2, <2>6, <2>7, <2>8 DEF HeldRow, id
  <1>8. \A q \in Processes : HeldRow(q)' BY <1>7 DEF HeldRow
  <1>9. CacheInv' BY <1>1, <1>2, <1>6, <1>8 DEF CacheInv
  <1>10. QED BY <1>3, <1>4, <1>9 DEF ServiceInv

-----------------------------------------------------------------------------
(* The invariant, and what it says. *)

LEMMA ServiceInit ==
  ASSUME Init
  PROVE  ServiceInv
PROOF
  <1>1. TypeOK
    <2>1. NoRow \in Row /\ NoEntry \in Entry /\ Idle \in Call
      BY NoRowFields, NoEntryFields, IdleFields
    <2>2. QED BY <2>1 DEF Init, TypeOK
  <1>2. KeyInv
    <2>1. \A r \in Requests : call[r] = Idle BY Apart DEF Init
    <2>2. \A r \in Requests : CallRight(r)
      BY <2>1, IdleFields DEF CallRight, Holding
    <2>3. Idle.stage # "commit" BY IdleFields
    <2>4. QED BY <2>1, <2>2, <2>3 DEF Init, KeyInv, RowShape, Exists
  <1>3. CacheInv
    <2>1. \A p \in Processes : HeldRow(p) BY IdleFields DEF Init, HeldRow, Holding
    <2>2. QED BY <2>1, NoRowFields, NoEntryFields DEF Init, CacheInv
  <1>4. QED BY <1>1, <1>2, <1>3 DEF ServiceInv

LEMMA ServiceStep ==
  ServiceInv /\ [Next]_vars => ServiceInv'
PROOF
  <1> SUFFICES ASSUME ServiceInv, [Next]_vars PROVE ServiceInv'
      OBVIOUS
  <1>1. ASSUME NEW p \in Processes, Get(p) PROVE ServiceInv'
    BY <1>1, GetSteps, PutJobStep DEF Get
  <1>2. ASSUME NEW r \in Requests, Schedule(r) \/ RefuseLate(r) \/ Serve(r) \/ RequestFails(r)
        PROVE  ServiceInv'
    BY <1>1, <1>2, Apart, ScheduleSteps, InsertSteps DEF Serve
  <1>3. ASSUME NEW g \in Readers, Get(g) PROVE ServiceInv'
    BY <1>1, <1>3 DEF Processes
  <1>4. ASSUME NEW id \in Requests, Claim(id) \/ Finish(id) \/ Requeue(id) PROVE ServiceInv'
    BY <1>4, WorkerSteps
  <1>5. ASSUME NEW i \in invalidations, InvalidationArrives(i) PROVE ServiceInv'
    BY <1>5, InvalidationStep
  <1>6. CASE Tick BY <1>6, TickStep
  <1>7. CASE UNCHANGED vars
    BY <1>7 DEF vars, ServiceInv, TypeOK, KeyInv, CacheInv, RowShape, Exists, Told, CallRight,
                Holding, HeldRow, Hit, Live
  <1>8. QED BY <1>2, <1>3, <1>4, <1>5, <1>6, <1>7 DEF Next

LEMMA ServiceHolds == Spec => []ServiceInv
PROOF
  <1>1. Init => ServiceInv BY ServiceInit
  <1>2. QED BY <1>1, ServiceStep, PTL DEF Spec

\* The rows, the entries and what every request and reader is doing have their types: no
\* version and no TTL drops below zero, whatever expires while a process waits.
THEOREM ServiceTypeCorrect == Spec => []TypeOK
PROOF
  <1>1. ServiceInv => TypeOK BY DEF ServiceInv
  <1>2. QED BY <1>1, ServiceHolds, PTL

\* Whoever races, fails, or is answered from the cache: one key makes one job, and every
\* answer is about that job (schedule of services/scheduler.py).
THEOREM OneKeyOneJob == Spec => []OneJobPerKey
PROOF
  <1>1. ServiceInv => OneJobPerKey
    <2> SUFFICES ASSUME ServiceInv, NEW r \in Requests
                 PROVE  LET c == call[r] IN
                        /\ \A id \in Requests \ {r} : ~(Exists(r) /\ Exists(id))
                        /\ c.stage = "done" /\ c.code \in {200, 201} =>
                             Exists(c.id) /\ jobs[c.id].request_hash = c.hash
                        /\ c.stage = "done" /\ c.code = 201 => c.id = r
                        /\ c.stage = "done" /\ c.code = 409 =>
                             Exists(c.id) /\ jobs[c.id].request_hash # c.hash
        BY DEF OneJobPerKey
    <2>1. KeyInv /\ CallRight(r) BY ServiceFacts
    <2>2. QED BY <2>1 DEF KeyInv, CallRight, Told
  <1>2. QED BY <1>1, ServiceHolds, PTL

\* A reader that puts an old row after the invalidation of it meets the tombstone, or
\* something newer, which outlives the reader (put and invalidate of cache/job_cache.py).
THEOREM InvalidatedStaysGone == Spec => []NoStaleAfterInvalidation
PROOF
  <1>1. ServiceInv => NoStaleAfterInvalidation
    BY DEF ServiceInv, CacheInv, NoStaleAfterInvalidation
  <1>2. QED BY <1>1, ServiceHolds, PTL

\* Rows are put, and versions invalidated, after they were committed.
THEOREM CacheIsNeverAhead == Spec => []CacheNeverAhead
PROOF
  <1>1. ServiceInv => CacheNeverAhead BY DEF ServiceInv, CacheInv, CacheNeverAhead
  <1>2. QED BY <1>1, ServiceHolds, PTL

-----------------------------------------------------------------------------
(* Replays.  schedule checks send_at before the key; everything after that check treats a *)
(* replay as the documentation says.                                                      *)

\* How a call ends that was not refused for its send_at.
LEMMA CallEnds ==
  ASSUME ServiceInv, Next, NEW r \in Requests, ~RefuseLate(r),
         call[r].stage # "done", call'[r].stage = "done"
  PROVE  call'[r].code \in {0, 200, 201} \/ (call'[r].code = 409 /\ jobs' = jobs)
PROOF
  <1> DEFINE Goal == call'[r].code \in {0, 200, 201} \/ (call'[r].code = 409 /\ jobs' = jobs)
  <1>1. /\ TypeOK /\ r \in Processes /\ r \notin Readers /\ CallRight(r) /\ call[r] \in Call
        /\ {0, 200, 409} \subseteq Codes
        /\ \A q \in Requests : q \in Processes /\ call[q] \in Call
    BY ServiceFacts DEF Codes
  \* Only r can end its call.
  <1>2. \A p \in Processes : OthersStay(p) => p = r BY <1>1 DEF OthersStay
  <1>3. ASSUME NEW p \in Processes, NEW id \in Requests \cup {"none"}, NEW code \in Codes,
               Answer(p, id, code)
        PROVE  p = r /\ call'[r].code = code
    BY <1>1, <1>2, <1>3, AnswerFields
  <1>4. ASSUME NEW p \in Processes, NEW stage \in Stages, NEW id \in Requests,
               NEW row \in Row, NEW code \in Codes, Hold(p, stage, id, row, code)
        PROVE  FALSE
    BY <1>1, <1>2, <1>4, HoldFields, IdleFields
  <1>5. ASSUME NEW p \in Processes, NEW stage \in Stages, MoveTo(p, stage) PROVE FALSE
    BY <1>1, <1>2, <1>5, MoveToFields, IdleFields
  <1>6. ASSUME NEW q \in Requests, NEW c \in Call, call' = [call EXCEPT ![q] = c],
               c.stage # "done"
        PROVE  FALSE
    BY <1>1, <1>2, <1>6, CallUpdate
  <1> HIDE DEF Goal
  <1>7. ASSUME NEW q \in Requests, Schedule(q) PROVE FALSE
    <2>1. PICK hash \in Hashes :
            call' = [call EXCEPT ![q] = [Idle EXCEPT !.stage = "lookup", !.hash = hash]]
      BY <1>7 DEF Schedule
    <2> DEFINE c == [Idle EXCEPT !.stage = "lookup", !.hash = hash]
    <2>2. c \in Call /\ c.stage # "done" BY IdleFields DEF Call, Stages
    <2>3. call' = [call EXCEPT ![q] = c] BY <2>1
    <2> HIDE DEF c
    <2>4. QED BY <1>6, <2>2, <2>3
  <1>8. ASSUME NEW q \in Requests, RefuseLate(q) PROVE FALSE
    <2>1. PICK hash \in TimedHashes :
            call' = [call EXCEPT ![q] = [Idle EXCEPT !.stage = "done", !.hash = hash,
                                                     !.code = 422]]
      BY <1>8 DEF RefuseLate
    <2>2. OthersStay(q) BY <1>1, <2>1 DEF OthersStay, TypeOK
    <2>3. QED BY <1>1, <1>2, <1>8, <2>2
  <1>9. ASSUME NEW q \in Requests, FastPath(q) PROVE Goal
    <2>1. idempotency # NotCached /\ jobs' = jobs BY <1>9 DEF FastPath
    <2>2. idempotency.id \in Requests BY <2>1, ServiceFacts DEF KeyInv, Told
    <2>3. CASE SameRequest(q)
      <3> DEFINE c == [call[q] EXCEPT !.stage = "get", !.id = idempotency.id]
      <3>1. call' = [call EXCEPT ![q] = c] BY <1>1, <1>9, <2>3 DEF FastPath, TypeOK
      <3>2. c \in Call /\ c.stage # "done"
        <4>1. call[q] \in Call BY <1>1
        <4>2. c \in Call /\ c.stage = "get" BY <2>2, <4>1 DEF Call, Stages
        <4>3. QED BY <4>2
      <3> HIDE DEF c
      <3>3. QED BY <1>6, <3>1, <3>2
    <2>4. CASE ~SameRequest(q)
      <3>1. Answer(q, idempotency.id, 409) BY <1>9, <2>4 DEF FastPath
      <3>2. call'[r].code = 409 BY <1>1, <1>3, <2>2, <3>1
      <3>3. QED BY <2>1, <3>2 DEF Goal
    <2>5. QED BY <2>3, <2>4
  <1>10. ASSUME NEW q \in Requests, SlowPath(q) \/ Insert(q) \/ PutIdempotency(q) PROVE FALSE
    <2>1. MoveTo(q, "insert") \/ MoveTo(q, "commit") \/ MoveTo(q, "put")
      BY <1>10 DEF SlowPath, Insert, PutIdempotency
    <2>2. {"insert", "commit", "put"} \subseteq Stages BY DEF Stages
    <2>3. QED BY <1>1, <1>5, <2>1, <2>2
  <1>11. ASSUME NEW q \in Requests, CommitInsert(q) PROVE FALSE
    <2>1. call[q].stage = "commit" /\ Hold(q, "remember", q, InsertedRow(call[q].hash), 201)
      BY <1>11 DEF CommitInsert, At
    <2>2. "remember" \in Stages /\ "commit" \in Stages /\ 201 \in Codes BY DEF Stages, Codes
    <2>3. call[q].hash \in Hashes BY <2>1, <2>2, ServiceFacts DEF CallRight
    <2>4. InsertedRow(call[q].hash) \in Row BY <2>3, InsertedRowFields
    <2>5. QED BY <1>1, <1>4, <2>1, <2>2, <2>4
  <1>12. ASSUME NEW q \in Requests, InsertConflicts(q) PROVE Goal
    <2>1. jobs' = jobs BY <1>12 DEF InsertConflicts
    <2>2. PICK id \in Requests : \/ Hold(q, "remember", id, jobs[id], 200)
                                 \/ Answer(q, id, 409)
      BY <1>12 DEF InsertConflicts
    <2>3. jobs[id] \in Row /\ "remember" \in Stages BY <1>1 DEF TypeOK, Stages
    <2>4. Answer(q, id, 409) BY <1>1, <1>4, <2>2, <2>3
    <2>5. call'[r].code = 409 BY <1>1, <1>3, <2>4
    <2>6. QED BY <2>1, <2>5 DEF Goal
  <1>13. ASSUME NEW q \in Requests, RequestFails(q) PROVE Goal
    <2>1. Answer(q, "none", 0) BY <1>13 DEF RequestFails
    <2>2. call'[r].code = 0 BY <1>1, <1>3, <2>1
    <2>3. QED BY <2>2 DEF Goal
  <1>14. ASSUME NEW p \in Processes, NEW id \in Requests, GetCached(p, id) PROVE Goal
    <2>1. Answer(p, id, 200) BY <1>14 DEF GetCached
    <2>2. call'[r].code = 200 BY <1>1, <1>3, <2>1
    <2>3. QED BY <2>2 DEF Goal
  <1>15. ASSUME NEW p \in Processes, NEW id \in Requests, Load(p, id) PROVE FALSE
    <2>1. 404 \in Codes /\ "put" \in Stages /\ "insert" \in Stages /\ jobs[id] \in Row
      BY <1>1 DEF Codes, Stages, TypeOK
    <2>2. CASE Exists(id)
      <3>1. Hold(p, "put", id, jobs[id], 200) BY <1>15, <2>2 DEF Load
      <3>2. QED BY <1>1, <1>4, <2>1, <3>1
    <2>3. CASE ~Exists(id) /\ p \in Readers
      <3>1. Answer(p, id, 404) BY <1>15, <2>3 DEF Load
      <3>2. QED BY <1>1, <1>3, <2>1, <2>3, <3>1
    <2>4. CASE ~Exists(id) /\ p \notin Readers
      <3>1. MoveTo(p, "insert") BY <1>15, <2>4 DEF Load
      <3>2. QED BY <1>5, <2>1, <3>1
    <2>5. QED BY <2>2, <2>3, <2>4
  <1>16. ASSUME NEW p \in Processes, PutJob(p) PROVE Goal
    <2>1. call[p].stage = "put" /\ Answer(p, call[p].id, call[p].code)
      BY <1>16 DEF PutJob, At
    <2>2. call[p].id \in Requests \cup {"none"} /\ call[p].code \in Codes
      BY <1>1, CallFields DEF TypeOK
    <2>3. p = r /\ call'[r].code = call[p].code BY <1>3, <2>1, <2>2
    <2>4. call[r].code \in {200, 201} BY <1>1, <2>1, <2>3 DEF CallRight, Holding
    <2>5. QED BY <2>3, <2>4 DEF Goal
  <1>17. ASSUME Tick PROVE FALSE BY <1>1, <1>17, OlderCall
  <1>18. call' # call OBVIOUS
  <1>19. Goal
    BY <1>1, <1>7, <1>8, <1>9, <1>10, <1>11, <1>12, <1>13, <1>14, <1>15, <1>16, <1>17, <1>18
    DEF Next, Serve, Get, Claim, Finish, Requeue, InvalidationArrives, Processes
  <1>20. QED BY <1>19 DEF Goal

\* No request is made after its send_at.
InTime == \A r \in Requests : ~RefuseLate(r)

\* "200 for a replay of the same idempotency key", whether the first answer was lost, is
\* cached or not, or was itself a replay's, if the replay is in time: then its send_at is
\* the only thing that can keep a client from being told of its job.
THEOREM ReplaysInTimeGetTheJob == Spec /\ [][InTime]_vars => ReplayGetsTheJob
PROOF
  <1> DEFINE Replay(r) ==
        (/\ call[r].stage # "done" /\ call'[r].stage = "done" /\ call'[r].code # 0
         /\ \E id \in Requests : /\ Exists(id) /\ jobs[id].request_hash = call'[r].hash
                                 /\ call[id].stage = "done")
        => call'[r].code \in {200, 201}
  <1>1. ServiceInv /\ [Next]_vars /\ [InTime]_vars => [\A r \in Requests : Replay(r)]_vars
    <2> SUFFICES ASSUME ServiceInv, Next, InTime, NEW r \in Requests,
                        call[r].stage # "done", call'[r].stage = "done", call'[r].code # 0,
                        NEW id \in Requests, Exists(id), jobs[id].request_hash = call'[r].hash
                 PROVE  call'[r].code \in {200, 201}
      OBVIOUS
    <2>1. call'[r].code \in {0, 200, 201} \/ (call'[r].code = 409 /\ jobs' = jobs)
      BY CallEnds DEF InTime
    \* A conflict would be with the job that exists, and that has the same body.
    <2>2. ASSUME call'[r].code = 409, jobs' = jobs PROVE FALSE
      <3>1. CallRight(r)' BY ServiceStep DEF ServiceInv, KeyInv
      <3>2. /\ call'[r].id \in Requests /\ Exists(call'[r].id)
            /\ jobs[call'[r].id].request_hash # call'[r].hash
        BY <2>2, <3>1 DEF CallRight, Exists
      <3>3. call'[r].id = id BY <3>2 DEF ServiceInv, KeyInv
      <3>4. QED BY <3>2, <3>3
    <2>3. QED BY <2>1, <2>2
  <1>2. QED BY <1>1, ServiceHolds, PTL DEF Spec, ReplayGetsTheJob
=============================================================================
