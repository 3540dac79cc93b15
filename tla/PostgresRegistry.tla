-------------------------- MODULE PostgresRegistry --------------------------
(***************************************************************************)
(* The PostgreSQL registry (registry/postgres.py, registry/migrations.py)  *)
(* used by several clients at once.  Every operation opens one connection  *)
(* and runs one READ COMMITTED transaction: its statements are separate    *)
(* steps that interleave with those of other clients, and only the commit  *)
(* publishes its row.                                                      *)
(*                                                                         *)
(* PostgreSQL itself is modelled from what the statements rely on: a       *)
(* bigserial id is drawn when the INSERT runs, before the commit, and a    *)
(* rolled back INSERT leaves a gap; an INSERT that meets an uncommitted    *)
(* row with the same UNIQUE key waits for that transaction to end; an      *)
(* advisory transaction lock is held until commit or rollback; a           *)
(* connection can break at any moment, also between the server's commit    *)
(* and the client hearing of it.                                           *)
(*                                                                         *)
(* A SHA-256 hash is modelled by the sequence of event bodies it covers:   *)
(* equal exactly when the hashed bytes are equal.  Names stands for the    *)
(* identifiers that pass validate_identifier; any other raises before a    *)
(* connection is made and changes nothing.                                 *)
(***************************************************************************)
EXTENDS Naturals, Sequences

CONSTANTS
    Clients,        \* processes holding a PostgresRegistry
    Names,          \* valid model_id + version pairs
    Digests,        \* artifact digests
    NoClient,       \* "nobody holds the advisory lock"
    MaxRegisters,   \* bound: register() calls per behaviour
    MaxEvents       \* bound: revoke() and unrevoke() calls per behaviour

ASSUME NoClientAssumption == NoClient \notin Clients
ASSUME BoundsAssumption == MaxRegisters \in Nat /\ MaxEvents \in Nat
ASSUME CallsAssumption == Names # {} /\ Digests # {}

VARIABLES
    rows,       \* registry_records, in the order of their commits
    nextRow,    \* last id drawn from the registry_records sequence
    events,     \* revocation_events, in the order of their commits
    nextEvent,  \* last id drawn from the revocation_events sequence
    lock,       \* the client holding _REVOCATION_LOCK
    begun,      \* calls begun so far, by kind (only for the bounds)
    pc,         \* the next statement of each client's transaction
    arg,        \* the row the client is inserting
    result      \* how the client's latest call ended

table == <<rows, nextRow, events, nextEvent>>
vars == <<rows, nextRow, events, nextEvent, lock, begun, pc, arg, result>>

Actions == {"revoke", "unrevoke"}
Genesis == << >>                         \* _GENESIS_HASH
Body == [name : Names, action : Actions]
Hash == Seq(Body)
Row == [id : Nat, name : Names, digest : Digests]
Event == [id : Nat, name : Names, action : Actions, prev : Hash, hash : Hash]

Arg == [id : Nat, name : Names, digest : Digests, action : Actions,
        prev : Hash, kind : {"register", "event"}]

PcRegister == {"insert", "unique", "commitRow"}
PcEvent == {"lock", "read", "append", "commitEvent"}
PcOwner == {"read", "append", "commitEvent"}
Results == {"none", "ok", "duplicate", "error"}

TypeOK ==
    /\ rows \in Seq(Row)
    /\ nextRow \in Nat
    /\ events \in Seq(Event)
    /\ nextEvent \in Nat
    /\ lock \in Clients \cup {NoClient}
    /\ begun \in [register : 0..MaxRegisters, event : 0..MaxEvents]
    /\ pc \in [Clients -> {"idle"} \cup PcRegister \cup PcEvent]
    /\ arg \in [Clients -> Arg]
    /\ result \in [Clients -> Results]

-----------------------------------------------------------------------------
(* Queries.  Each is a single SELECT, so it sees one committed state.      *)

\* get(): the row stored under a name.
get(n) == {i \in DOMAIN rows : rows[i].name = n}

\* get_by_digest(): ORDER BY id LIMIT 1.
get_by_digest_Newest(d) ==
    {i \in DOMAIN rows :
        /\ rows[i].digest = d
        /\ \A j \in DOMAIN rows : rows[j].digest = d => rows[j].id <= rows[i].id}
get_by_digest(d) ==
    {i \in DOMAIN rows :
        /\ rows[i].digest = d
        /\ \A j \in DOMAIN rows : rows[j].digest = d => rows[i].id <= rows[j].id}

\* is_revoked(): the event ORDER BY id DESC LIMIT 1 of this name is a revoke.
is_revoked_AnyVersion(n) ==
    \E i \in DOMAIN events :
        /\ events[i].action = "revoke"
        /\ \A j \in DOMAIN events : events[j].id <= events[i].id
is_revoked(n) ==
    \E i \in DOMAIN events :
        /\ events[i].name = n
        /\ events[i].action = "revoke"
        /\ \A j \in DOMAIN events : events[j].name = n => events[j].id <= events[i].id

_event_hash_BodyOnly(prev, body) == <<body>>
_event_hash(prev, body) == Append(prev, body)
BodyOf(e) == [name |-> e.name, action |-> e.action]

\* verify_revocation_chain(): walk the events ORDER BY id; each must name
\* the hash of its predecessor and hash to what it stores.
Before(i) == {j \in DOMAIN events : events[j].id < events[i].id}
LinkOK(i) ==
    IF Before(i) = {}
    THEN events[i].prev = Genesis
    ELSE \E j \in Before(i) :
            /\ \A k \in Before(i) : events[k].id <= events[j].id
            /\ events[i].prev = events[j].hash
verify_revocation_chain ==
    \A i \in DOMAIN events :
        /\ LinkOK(i)
        /\ events[i].hash = _event_hash(events[i].prev, BodyOf(events[i]))

-----------------------------------------------------------------------------
(* One call of one client.                                                 *)

Step(c, from, to) ==
    /\ pc[c] = from
    /\ pc' = [pc EXCEPT ![c] = to]

\* The transaction ends: the connection closes and its locks are released.
Return_SessionLock(c, r) ==
    /\ pc' = [pc EXCEPT ![c] = "idle"]
    /\ result' = [result EXCEPT ![c] = r]
    /\ UNCHANGED lock
Return(c, r) ==
    /\ pc' = [pc EXCEPT ![c] = "idle"]
    /\ result' = [result EXCEPT ![c] = r]
    /\ lock' = IF lock = c THEN NoClient ELSE lock

\* register(): connected, schema check passed.
RegisterBegin(c, n, d) ==
    /\ Step(c, "idle", "insert")
    /\ begun.register < MaxRegisters
    /\ begun' = [begun EXCEPT !.register = @ + 1]
    /\ arg' = [arg EXCEPT ![c] = [@ EXCEPT !.kind = "register", !.name = n, !.digest = d]]
    /\ result' = [result EXCEPT ![c] = "none"]
    /\ UNCHANGED <<table, lock>>

\* The INSERT evaluates the bigserial default before it meets the unique index.
DrawRowId(c) ==
    /\ Step(c, "insert", "unique")
    /\ nextRow' = nextRow + 1
    /\ arg' = [arg EXCEPT ![c] = [@ EXCEPT !.id = nextRow + 1]]
    /\ UNCHANGED <<rows, events, nextEvent, lock, begun, result>>

\* The unique index: a conflicting row of a transaction still open.
NameContended(c) ==
    \E o \in Clients \ {c} : pc[o] = "commitRow" /\ arg[o].name = arg[c].name
NameTaken(n) == get(n) # {}

InsertRow(c) ==
    /\ Step(c, "unique", "commitRow")
    /\ ~NameContended(c)
    /\ ~NameTaken(arg[c].name)
    /\ UNCHANGED <<table, lock, begun, arg, result>>

\* UniqueViolation -> DuplicateRegistrationError.
RefuseDuplicate_ReportsOk(c) ==
    /\ pc[c] = "unique"
    /\ ~NameContended(c)
    /\ NameTaken(arg[c].name)
    /\ Return(c, "ok")
    /\ UNCHANGED <<table, begun, arg>>
RefuseDuplicate(c) ==
    /\ pc[c] = "unique"
    /\ ~NameContended(c)
    /\ NameTaken(arg[c].name)
    /\ Return(c, "duplicate")
    /\ UNCHANGED <<table, begun, arg>>

NewRow(c) == [id |-> arg[c].id, name |-> arg[c].name, digest |-> arg[c].digest]

\* The commit.  The connection may break before the client hears of it.
CommitRow(c) ==
    /\ pc[c] = "commitRow"
    /\ rows' = Append(rows, NewRow(c))
    /\ \E r \in {"ok", "error"} : Return(c, r)
    /\ UNCHANGED <<nextRow, events, nextEvent, begun, arg>>

\* revoke() and unrevoke() both run _append_event().
EventBegin(c, n, a) ==
    /\ Step(c, "idle", "lock")
    /\ begun.event < MaxEvents
    /\ begun' = [begun EXCEPT !.event = @ + 1]
    /\ arg' = [arg EXCEPT ![c] = [@ EXCEPT !.kind = "event", !.name = n, !.action = a]]
    /\ result' = [result EXCEPT ![c] = "none"]
    /\ UNCHANGED <<table, lock>>

LockFree == lock = NoClient

\* SELECT pg_advisory_xact_lock(_REVOCATION_LOCK)
AcquireLock_Missing(c) ==
    /\ Step(c, "lock", "read")
    /\ UNCHANGED <<table, lock, begun, arg, result>>
AcquireLock(c) ==
    /\ Step(c, "lock", "read")
    /\ LockFree
    /\ lock' = c
    /\ UNCHANGED <<table, begun, arg, result>>

\* SELECT event_hash ... ORDER BY id DESC LIMIT 1, in a snapshot of its own.
ReadLast(c) ==
    /\ Step(c, "read", "append")
    /\ \/ /\ events = << >>
          /\ arg' = [arg EXCEPT ![c] = [@ EXCEPT !.prev = Genesis]]
       \/ \E i \in DOMAIN events :
            /\ \A j \in DOMAIN events : events[j].id <= events[i].id
            /\ arg' = [arg EXCEPT ![c] = [@ EXCEPT !.prev = events[i].hash]]
    /\ UNCHANGED <<table, lock, begun, result>>

NewEvent(c) ==
    [id |-> arg[c].id, name |-> arg[c].name, action |-> arg[c].action,
     prev |-> arg[c].prev,
     hash |-> _event_hash(arg[c].prev, [name |-> arg[c].name, action |-> arg[c].action])]

\* INSERT INTO revocation_events.  Its UNIQUE (event_hash) never refuses a
\* row: that is EventHashFresh below.
InsertEvent(c) ==
    /\ Step(c, "append", "commitEvent")
    /\ nextEvent' = nextEvent + 1
    /\ arg' = [arg EXCEPT ![c] = [@ EXCEPT !.id = nextEvent + 1]]
    /\ UNCHANGED <<rows, nextRow, events, lock, begun, result>>

CommitEvent(c) ==
    /\ pc[c] = "commitEvent"
    /\ events' = Append(events, NewEvent(c))
    /\ \E r \in {"ok", "error"} : Return(c, r)
    /\ UNCHANGED <<rows, nextRow, nextEvent, begun, arg>>

\* Rollback: statement timeout, lost connection or a client that died.  The
\* caller gets RegistryBackendError; drawn ids are not given back.
Abort(c) ==
    /\ pc[c] # "idle"
    /\ Return(c, "error")
    /\ UNCHANGED <<table, begun, arg>>

\* _connect() fails: server unreachable, permission denied, wrong schema.
ConnectFails(c) ==
    /\ pc[c] = "idle"
    /\ result' = [result EXCEPT ![c] = "error"]
    /\ UNCHANGED <<table, lock, begun, pc, arg>>

-----------------------------------------------------------------------------
\* The argument slot of a client that has not called anything yet.
NoCall == [id |-> 0, name |-> CHOOSE n \in Names : TRUE, digest |-> CHOOSE d \in Digests : TRUE,
           action |-> "revoke", prev |-> Genesis, kind |-> "register"]

Init ==
    /\ rows = << >> /\ nextRow = 0
    /\ events = << >> /\ nextEvent = 0
    /\ lock = NoClient
    /\ begun = [register |-> 0, event |-> 0]
    /\ pc = [c \in Clients |-> "idle"]
    /\ arg = [c \in Clients |-> NoCall]
    /\ result = [c \in Clients |-> "none"]

\* The steps that a started call takes by itself.
Progress(c) ==
    \/ DrawRowId(c) \/ InsertRow(c) \/ RefuseDuplicate(c) \/ CommitRow(c)
    \/ AcquireLock(c) \/ ReadLast(c) \/ InsertEvent(c) \/ CommitEvent(c)

Call(c) ==
    \E n \in Names :
        \/ \E d \in Digests : RegisterBegin(c, n, d)
        \/ \E a \in Actions : EventBegin(c, n, a)

Next == \E c \in Clients : Call(c) \/ Progress(c) \/ Abort(c) \/ ConnectFails(c)

Spec == Init /\ [][Next]_vars

\* The server runs every statement that is not waiting, and grants a lock
\* to its waiters in order, so no waiter is passed over for ever.
Fairness == \A c \in Clients : SF_vars(Progress(c))

-----------------------------------------------------------------------------
(* Properties.                                                             *)

\* However many clients revoke and unrevoke at once, and wherever one of
\* them fails, verify_revocation_chain() never reports a broken chain: the
\* advisory lock keeps concurrent appends from forking it.
ChainVerifies == verify_revocation_chain

\* No append is ever refused by UNIQUE (event_hash): the event about to be
\* inserted hashes differently from every stored one, even when the same
\* name is revoked again with the same words.
EventHashFresh ==
    \A c \in Clients : pc[c] \in {"append", "commitEvent"} =>
        \A i \in DOMAIN events : events[i].hash # NewEvent(c).hash

\* What a call reports is what the database holds: register() returns only
\* if its own row is stored, DuplicateRegistrationError means that the name
\* is taken, and revoke()/unrevoke() return only if their event is stored.
OutcomeIsTruthful ==
    \A c \in Clients :
        /\ result[c] = "ok" /\ arg[c].kind = "register" =>
              \E i \in DOMAIN rows : rows[i] = NewRow(c)
        /\ result[c] = "ok" /\ arg[c].kind = "event" =>
              \E i \in DOMAIN events : events[i] = NewEvent(c)
        /\ result[c] = "duplicate" => NameTaken(arg[c].name)

Resolved(d) == {rows[i].name : i \in get_by_digest(d)}

\* A digest is settled once no open transaction holds a smaller id for it.
Settled(d) ==
    /\ Resolved(d) # {}
    /\ \A c \in Clients : pc[c] \in {"unique", "commitRow"} /\ arg[c].digest = d =>
          \A i \in get_by_digest(d) : rows[i].id < arg[c].id

\* "Earliest registration wins", as far as ORDER BY id goes: a settled digest
\* resolves to the same name for ever, whatever is registered afterwards.
\* (One that is not settled is repointed when the smaller id commits.)
SettledDigestStable ==
    [][\A d \in Digests : Settled(d) => Resolved(d)' = Resolved(d)]_vars

\* The queries and updates of this backend implement the registry contract:
\* names are registered once and never repointed, and only a committed
\* revoke or unrevoke of a name changes what is_revoked() answers for it.
R == INSTANCE Registry WITH
        records <- {<<rows[i].name, rows[i].digest>> : i \in DOMAIN rows},
        revoked <- {n \in Names : is_revoked(n)}
RegistryContract == R!Spec

-----------------------------------------------------------------------------
(* The inductive invariant behind the proofs in PostgresRegistryProofs.    *)

\* The advisory lock is held by exactly the client between taking it and
\* the end of its transaction.
LockInv == \A c \in Clients : lock = c <=> pc[c] \in PcOwner

\* Row ids are drawn once: committed and open rows have distinct ids, none
\* above the sequence.
RowIdInv ==
    /\ \A i \in DOMAIN rows : rows[i].id <= nextRow
    /\ \A i, j \in DOMAIN rows : rows[i].id = rows[j].id => i = j
    /\ \A c \in Clients : pc[c] \in {"unique", "commitRow"} =>
          /\ arg[c].id <= nextRow
          /\ \A i \in DOMAIN rows : rows[i].id # arg[c].id
          /\ \A o \in Clients \ {c} :
                pc[o] \in {"unique", "commitRow"} => arg[o].id # arg[c].id

\* The unique index covers committed rows and the open ones that passed it.
NameInv ==
    /\ \A i, j \in DOMAIN rows : rows[i].name = rows[j].name => i = j
    /\ \A c \in Clients : pc[c] = "commitRow" =>
          /\ \A i \in DOMAIN rows : rows[i].name # arg[c].name
          /\ \A o \in Clients \ {c} : pc[o] = "commitRow" => arg[o].name # arg[c].name

\* Events are committed in the order of their ids.
EventIdInv ==
    /\ \A i \in DOMAIN events : events[i].id <= nextEvent
    /\ \A i, j \in DOMAIN events : i < j => events[i].id < events[j].id
    /\ \A c \in Clients : pc[c] = "commitEvent" =>
          /\ arg[c].id <= nextEvent
          /\ \A i \in DOMAIN events : events[i].id < arg[c].id

\* The hash the next event has to continue from.
LastHash == IF events = << >> THEN Genesis ELSE events[Len(events)].hash

\* In commit order the events form a chain, which the lock owner extends.
ChainInv ==
    /\ \A i \in DOMAIN events :
          /\ events[i].prev = IF i = 1 THEN Genesis ELSE events[i - 1].hash
          /\ events[i].hash = _event_hash(events[i].prev, BodyOf(events[i]))
          /\ Len(events[i].hash) = i
    /\ \A c \in Clients : pc[c] \in {"append", "commitEvent"} => arg[c].prev = LastHash

\* A call under way has no result yet, and its slot says which call it is.
CallInv ==
    \A c \in Clients : pc[c] # "idle" =>
        /\ result[c] = "none"
        /\ arg[c].kind = IF pc[c] \in PcRegister THEN "register" ELSE "event"

Inv == TypeOK /\ LockInv /\ RowIdInv /\ NameInv /\ EventIdInv /\ ChainInv
=============================================================================
