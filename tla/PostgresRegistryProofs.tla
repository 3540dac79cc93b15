----------------------- MODULE PostgresRegistryProofs -----------------------
(***************************************************************************)
(* TLAPS proofs about PostgresRegistry, for any number of clients, names,  *)
(* digests and calls.                                                      *)
(***************************************************************************)
EXTENDS MCPostgresRegistry, TLAPS

\* The chain starts from a hash.
LEMMA GenesisType == Genesis \in Hash
BY DEF Genesis, Hash

\* The hash of an event is a hash: _event_hash() extends what it is given.
LEMMA EventHashType ==
    ASSUME NEW p \in Hash, NEW b \in Body
    PROVE  /\ _event_hash(p, b) \in Hash
           /\ Len(_event_hash(p, b)) = Len(p) + 1
BY DEF _event_hash, Hash

\* What the two tables hold is well typed.
LEMMA RowType ==
    ASSUME TypeOK
    PROVE  \A i \in DOMAIN rows : rows[i] \in Row
BY DEF TypeOK

LEMMA EventType ==
    ASSUME TypeOK
    PROVE  \A i \in DOMAIN events : events[i] \in Event
BY DEF TypeOK

\* A sequence that grows by one has exactly one index more.
LEMMA IntervalGrows ==
    \A n \in Nat : 1..(n + 1) = (1..n) \cup {n + 1} /\ n + 1 \notin 1..n
OBVIOUS

\* The rows a client may commit are well typed.
LEMMA NewRowType ==
    ASSUME TypeOK, NEW c \in Clients
    PROVE  NewRow(c) \in Row /\ NewEvent(c) \in Event
<1>1. arg[c] \in Arg
  BY DEF TypeOK, Arg
<1>2. [name |-> arg[c].name, action |-> arg[c].action] \in Body
  BY <1>1 DEF Arg, Body
<1>3. _event_hash(arg[c].prev, [name |-> arg[c].name, action |-> arg[c].action]) \in Hash
  BY <1>1, <1>2, EventHashType DEF Arg
<1> QED
  BY <1>1, <1>3 DEF NewRow, NewEvent, Row, Event, Arg

\* Recording an id or a predecessor hash keeps a client's slot well typed.
LEMMA ArgUpdate ==
    ASSUME TypeOK, NEW c \in Clients
    PROVE  /\ \A k \in Nat : [arg EXCEPT ![c] = [@ EXCEPT !.id = k]] \in [Clients -> Arg]
           /\ \A p \in Hash : [arg EXCEPT ![c] = [@ EXCEPT !.prev = p]] \in [Clients -> Arg]
<1>1. arg[c] \in Arg
  BY DEF TypeOK
<1>2. /\ \A k \in Nat : [arg[c] EXCEPT !.id = k] \in Arg
      /\ \A p \in Hash : [arg[c] EXCEPT !.prev = p] \in Arg
  BY <1>1 DEF Arg
<1> QED
  BY <1>2 DEF TypeOK

\* Ending a transaction only moves the client, its result and the lock.
LEMMA ReturnType ==
    ASSUME TypeOK, NEW c \in Clients, NEW r \in Results, Return(c, r)
    PROVE  /\ pc' \in [Clients -> {"idle"} \cup PcRegister \cup PcEvent]
           /\ result' \in [Clients -> Results]
           /\ lock' \in Clients \cup {NoClient}
BY DEF TypeOK, Return

\* Type correctness is preserved by every step of every client.
LEMMA TypeStep ==
    ASSUME TypeOK, [Next]_vars
    PROVE  TypeOK'
<1> USE BoundsAssumption
<1>1. CASE UNCHANGED vars
  BY <1>1 DEF TypeOK, vars
<1>2. ASSUME NEW c \in Clients, NEW n \in Names, NEW d \in Digests, RegisterBegin(c, n, d)
      PROVE  TypeOK'
  <2>1. begun' \in [register : 0..MaxRegisters, event : 0..MaxEvents]
    <3>1. /\ begun \in [register : 0..MaxRegisters, event : 0..MaxEvents]
          /\ begun.register < MaxRegisters /\ begun' = [begun EXCEPT !.register = @ + 1]
      BY <1>2 DEF TypeOK, RegisterBegin
    <3>2. begun.register + 1 \in 0..MaxRegisters
      BY <3>1
    <3> QED
      BY <3>1, <3>2
  <2>2. arg' \in [Clients -> Arg]
    <3>1. arg[c] \in Arg
      BY DEF TypeOK
    <3>2. [arg[c] EXCEPT !.kind = "register", !.name = n, !.digest = d] \in Arg
      BY <3>1 DEF Arg
    <3> QED
      BY <1>2, <3>2 DEF TypeOK, RegisterBegin
  <2> QED
    BY <1>2, <2>1, <2>2 DEF TypeOK, RegisterBegin, Step, table, PcRegister, Results, Arg
<1>3. ASSUME NEW c \in Clients, NEW n \in Names, NEW a \in Actions, EventBegin(c, n, a)
      PROVE  TypeOK'
  <2>1. begun' \in [register : 0..MaxRegisters, event : 0..MaxEvents]
    <3>1. /\ begun \in [register : 0..MaxRegisters, event : 0..MaxEvents]
          /\ begun.event < MaxEvents /\ begun' = [begun EXCEPT !.event = @ + 1]
      BY <1>3 DEF TypeOK, EventBegin
    <3>2. begun.event + 1 \in 0..MaxEvents
      BY <3>1
    <3> QED
      BY <3>1, <3>2
  <2>2. arg' \in [Clients -> Arg]
    <3>1. arg[c] \in Arg
      BY DEF TypeOK
    <3>2. [arg[c] EXCEPT !.kind = "event", !.name = n, !.action = a] \in Arg
      BY <3>1 DEF Arg
    <3> QED
      BY <1>3, <3>2 DEF TypeOK, EventBegin
  <2> QED
    BY <1>3, <2>1, <2>2 DEF TypeOK, EventBegin, Step, table, PcEvent, Results, Arg
<1>4. ASSUME NEW c \in Clients, DrawRowId(c)
      PROVE  TypeOK'
  <2>1. arg' \in [Clients -> Arg]
    <3>1. nextRow + 1 \in Nat
      BY DEF TypeOK
    <3> QED
      BY <1>4, <3>1, ArgUpdate DEF DrawRowId
  <2> QED
    BY <1>4, <2>1 DEF TypeOK, DrawRowId, Step, PcRegister
<1>5. ASSUME NEW c \in Clients, InsertRow(c)
      PROVE  TypeOK'
  BY <1>5 DEF TypeOK, InsertRow, Step, table, PcRegister
<1>6. ASSUME NEW c \in Clients, RefuseDuplicate(c)
      PROVE  TypeOK'
  BY <1>6, ReturnType DEF TypeOK, RefuseDuplicate, table, Results
<1>7. ASSUME NEW c \in Clients, CommitRow(c)
      PROVE  TypeOK'
  <2>1. PICK r \in {"ok", "error"} : Return(c, r)
    BY <1>7 DEF CommitRow
  <2>2. rows' \in Seq(Row)
    BY <1>7, NewRowType DEF CommitRow, TypeOK
  <2> QED
    BY <1>7, <2>1, <2>2, ReturnType DEF TypeOK, CommitRow, Results
<1>8. ASSUME NEW c \in Clients, AcquireLock(c)
      PROVE  TypeOK'
  BY <1>8 DEF TypeOK, AcquireLock, Step, table, PcEvent
<1>9. ASSUME NEW c \in Clients, ReadLast(c)
      PROVE  TypeOK'
  <2>1. Genesis \in Hash
    BY GenesisType
  <2>2. \A i \in DOMAIN events : events[i].hash \in Hash
    BY EventType DEF Event
  <2>3. arg' \in [Clients -> Arg]
    <3>1. CASE arg' = [arg EXCEPT ![c] = [@ EXCEPT !.prev = Genesis]]
      BY <3>1, <2>1, ArgUpdate
    <3>2. ASSUME NEW i \in DOMAIN events,
                 arg' = [arg EXCEPT ![c] = [@ EXCEPT !.prev = events[i].hash]]
          PROVE  arg' \in [Clients -> Arg]
      BY <3>2, <2>2, ArgUpdate
    <3> QED
      BY <1>9, <3>1, <3>2 DEF ReadLast
  <2> QED
    BY <1>9, <2>3 DEF TypeOK, ReadLast, Step, table, PcEvent
<1>10. ASSUME NEW c \in Clients, InsertEvent(c)
       PROVE  TypeOK'
  <2>1. arg' \in [Clients -> Arg]
    <3>1. nextEvent + 1 \in Nat
      BY DEF TypeOK
    <3> QED
      BY <1>10, <3>1, ArgUpdate DEF InsertEvent
  <2> QED
    BY <1>10, <2>1 DEF TypeOK, InsertEvent, Step, PcEvent
<1>11. ASSUME NEW c \in Clients, CommitEvent(c)
       PROVE  TypeOK'
  <2>1. PICK r \in {"ok", "error"} : Return(c, r)
    BY <1>11 DEF CommitEvent
  <2>2. events' \in Seq(Event)
    BY <1>11, NewRowType DEF CommitEvent, TypeOK
  <2> QED
    BY <1>11, <2>1, <2>2, ReturnType DEF TypeOK, CommitEvent, Results
<1>12. ASSUME NEW c \in Clients, Abort(c)
       PROVE  TypeOK'
  BY <1>12, ReturnType DEF TypeOK, Abort, table, Results
<1>13. ASSUME NEW c \in Clients, ConnectFails(c)
       PROVE  TypeOK'
  BY <1>13 DEF TypeOK, ConnectFails, table, Results
<1> QED
  BY <1>1, <1>2, <1>3, <1>4, <1>5, <1>6, <1>7, <1>8, <1>9, <1>10, <1>11, <1>12, <1>13
  DEF Next, Call, Progress

\* The initial state is well typed.
LEMMA TypeInit == Init => TypeOK
<1>1. NoCall \in Arg
  <2>1. (CHOOSE n \in Names : TRUE) \in Names /\ (CHOOSE d \in Digests : TRUE) \in Digests
    BY CallsAssumption, Zenon
  <2> QED
    BY <2>1, GenesisType DEF NoCall, Arg, Actions
<1>2. << >> \in Seq(Row) /\ << >> \in Seq(Event)
  OBVIOUS
<1> QED
  BY <1>1, <1>2, BoundsAssumption DEF Init, TypeOK, Results

\* Every reachable state of the PostgreSQL registry is well typed.
THEOREM TypeCorrect == Spec => []TypeOK
BY TypeInit, TypeStep, PTL DEF Spec

-----------------------------------------------------------------------------
(* The advisory lock.                                                      *)

\* A step of one client leaves the program counters of the others alone.
LEMMA OthersWait ==
    ASSUME TypeOK, NEW c \in Clients, NEW o \in Clients \ {c},
           Call(c) \/ Progress(c) \/ Abort(c) \/ ConnectFails(c)
    PROVE  pc'[o] = pc[o] /\ arg'[o] = arg[o]
BY DEF TypeOK, Call, Progress, RegisterBegin, EventBegin, DrawRowId, InsertRow,
       RefuseDuplicate, CommitRow, AcquireLock, ReadLast, InsertEvent, CommitEvent,
       Abort, ConnectFails, Step, Return

\* Ending a transaction releases the advisory lock if, and only if, it held it.
LEMMA LockReturn ==
    ASSUME TypeOK, LockInv, NEW c \in Clients, NEW r \in Results, Return(c, r)
    PROVE  LockInv'
BY NoClientAssumption DEF TypeOK, LockInv, Return, PcOwner

\* Mutual exclusion of the appends is preserved by every step.
LEMMA LockStep ==
    ASSUME TypeOK, LockInv, [Next]_vars
    PROVE  LockInv'
<1> USE NoClientAssumption
<1>1. CASE UNCHANGED vars
  BY <1>1 DEF LockInv, vars
<1>2. ASSUME NEW c \in Clients, Call(c)
      PROVE  LockInv'
  BY <1>2 DEF TypeOK, LockInv, Call, RegisterBegin, EventBegin, Step, PcOwner
<1>3. ASSUME NEW c \in Clients, DrawRowId(c) \/ InsertRow(c)
      PROVE  LockInv'
  BY <1>3 DEF TypeOK, LockInv, DrawRowId, InsertRow, Step, PcOwner
<1>4. ASSUME NEW c \in Clients, RefuseDuplicate(c) \/ CommitRow(c) \/ CommitEvent(c) \/ Abort(c)
      PROVE  LockInv'
  BY <1>4, LockReturn DEF RefuseDuplicate, CommitRow, CommitEvent, Abort, Results
<1>5. ASSUME NEW c \in Clients, AcquireLock(c)
      PROVE  LockInv'
  BY <1>5 DEF TypeOK, LockInv, AcquireLock, LockFree, Step, PcOwner
<1>6. ASSUME NEW c \in Clients, ReadLast(c)
      PROVE  LockInv'
  BY <1>6 DEF TypeOK, LockInv, ReadLast, Step, PcOwner
<1>7. ASSUME NEW c \in Clients, InsertEvent(c)
      PROVE  LockInv'
  BY <1>7 DEF TypeOK, LockInv, InsertEvent, Step, PcOwner
<1>8. ASSUME NEW c \in Clients, ConnectFails(c)
      PROVE  LockInv'
  BY <1>8 DEF TypeOK, LockInv, ConnectFails
<1> QED
  BY <1>1, <1>2, <1>3, <1>4, <1>5, <1>6, <1>7, <1>8 DEF Next, Progress

\* Two clients are never both between taking the lock and committing.
LEMMA OneOwner ==
    ASSUME LockInv, NEW c \in Clients, NEW o \in Clients,
           pc[c] \in PcOwner, pc[o] \in PcOwner
    PROVE  c = o
BY DEF LockInv

-----------------------------------------------------------------------------
(* The revocation events and their hash chain.                             *)

\* The steps that have no business with the events: everything but reading
\* the last event, inserting the next one and committing it.
Elsewhere(c) ==
    \/ Call(c) \/ DrawRowId(c) \/ InsertRow(c) \/ RefuseDuplicate(c)
    \/ CommitRow(c) \/ AcquireLock(c) \/ Abort(c) \/ ConnectFails(c)

\* Those steps leave the events and every half-made append as they were.
LEMMA EventFrame ==
    ASSUME TypeOK, NEW c \in Clients, Elsewhere(c)
    PROVE  /\ events' = events /\ nextEvent' = nextEvent
           /\ \A o \in Clients : pc'[o] \in {"append", "commitEvent"} =>
                pc[o] = pc'[o] /\ arg'[o] = arg[o]
BY DEF TypeOK, Elsewhere, Call, RegisterBegin, EventBegin, DrawRowId, InsertRow,
       RefuseDuplicate, CommitRow, AcquireLock, Abort, ConnectFails, Step, Return, table

\* A committed event is appended; the committing client becomes idle and the
\* other clients do not move.
LEMMA EventCommit ==
    ASSUME TypeOK, NEW c \in Clients, CommitEvent(c)
    PROVE  /\ Len(events) \in Nat
           /\ Len(events') = Len(events) + 1
           /\ DOMAIN events = 1..Len(events)
           /\ DOMAIN events' = 1..(Len(events) + 1)
           /\ \A i \in 1..Len(events) : events'[i] = events[i]
           /\ events'[Len(events) + 1] = NewEvent(c)
           /\ pc'[c] = "idle"
           /\ \A o \in Clients : o # c => pc'[o] = pc[o]
           /\ arg' = arg /\ nextEvent' = nextEvent
<1>1. events \in Seq(Event) /\ NewEvent(c) \in Event
  BY NewRowType DEF TypeOK
<1>2. events' = Append(events, NewEvent(c))
  BY DEF CommitEvent
<1>3. /\ pc'[c] = "idle"
      /\ \A o \in Clients : o # c => pc'[o] = pc[o]
      /\ arg' = arg /\ nextEvent' = nextEvent
  BY DEF TypeOK, CommitEvent, Return
<1> HIDE DEF NewEvent
<1> QED
  BY <1>1, <1>2, <1>3

\* Events stay committed in the order of their ids.
LEMMA EventIdStep ==
    ASSUME TypeOK, LockInv, EventIdInv, [Next]_vars
    PROVE  EventIdInv'
<1>0. TypeOK'
  BY TypeStep
<1>1. CASE UNCHANGED vars
  BY <1>1 DEF EventIdInv, vars
<1>2. ASSUME NEW c \in Clients, Elsewhere(c)
      PROVE  EventIdInv'
  BY <1>2, EventFrame DEF EventIdInv
<1>3. ASSUME NEW c \in Clients, ReadLast(c)
      PROVE  EventIdInv'
  BY <1>3 DEF TypeOK, EventIdInv, ReadLast, Step, table
<1>4. ASSUME NEW c \in Clients, InsertEvent(c)
      PROVE  EventIdInv'
  <2>1. /\ nextEvent \in Nat /\ nextEvent' = nextEvent + 1 /\ events' = events
        /\ arg'[c].id = nextEvent + 1
        /\ \A i \in DOMAIN events : events[i].id \in Nat
    BY <1>4, EventType DEF TypeOK, InsertEvent, Event, Arg
  <2>2. \A o \in Clients : pc'[o] = "commitEvent" => o = c
    <3>1. pc[c] = "append" /\ \A o \in Clients \ {c} : pc'[o] = pc[o]
      BY <1>4 DEF TypeOK, InsertEvent, Step
    <3> QED
      BY <3>1, OneOwner DEF PcOwner
  <2> QED
    BY <2>1, <2>2 DEF EventIdInv
<1>5. ASSUME NEW c \in Clients, CommitEvent(c)
      PROVE  EventIdInv'
  <2>1. pc[c] = "commitEvent"
    BY <1>5 DEF CommitEvent
  <2>2. NewEvent(c).id = arg[c].id
    BY DEF NewEvent
  <2>3. \A o \in Clients : pc'[o] # "commitEvent"
    BY <1>5, <2>1, EventCommit, OneOwner DEF PcOwner
  <2> QED
    BY <1>5, <2>1, <2>2, <2>3, EventCommit DEF EventIdInv
<1> QED
  BY <1>1, <1>2, <1>3, <1>4, <1>5 DEF Next, Progress, Elsewhere

\* The row that ORDER BY id DESC LIMIT 1 picks is the last one committed.
LEMMA NewestIsLast ==
    ASSUME TypeOK, EventIdInv, NEW i \in DOMAIN events,
           \A j \in DOMAIN events : events[j].id <= events[i].id
    PROVE  i = Len(events) /\ events # << >>
<1>1. Len(events) \in Nat /\ DOMAIN events = 1..Len(events)
  BY DEF TypeOK
<1>2. Len(events) \in DOMAIN events /\ events # << >>
  BY <1>1
<1>3. events[i].id \in Nat /\ events[Len(events)].id \in Nat
  BY <1>2, EventType DEF Event
<1> QED
  BY <1>1, <1>2, <1>3 DEF EventIdInv

\* The chain stays whole, and the lock owner keeps holding its last hash.
LEMMA ChainStep ==
    ASSUME TypeOK, LockInv, EventIdInv, ChainInv, [Next]_vars
    PROVE  ChainInv'
<1>1. CASE UNCHANGED vars
  BY <1>1 DEF ChainInv, LastHash, vars
<1>2. ASSUME NEW c \in Clients, Elsewhere(c)
      PROVE  ChainInv'
  BY <1>2, EventFrame DEF ChainInv, LastHash
<1>3. ASSUME NEW c \in Clients, ReadLast(c)
      PROVE  ChainInv'
  <2>1. events' = events /\ pc[c] = "read" /\ \A o \in Clients \ {c} : pc'[o] = pc[o] /\ arg'[o] = arg[o]
    BY <1>3 DEF TypeOK, ReadLast, Step, table
  <2>2. arg'[c].prev = LastHash
    <3>1. arg[c] \in Arg /\ arg \in [Clients -> Arg]
      BY DEF TypeOK
    <3>2. CASE events = << >> /\ arg' = [arg EXCEPT ![c] = [@ EXCEPT !.prev = Genesis]]
      BY <3>1, <3>2 DEF LastHash, Arg
    <3>3. ASSUME NEW i \in DOMAIN events,
                 \A j \in DOMAIN events : events[j].id <= events[i].id,
                 arg' = [arg EXCEPT ![c] = [@ EXCEPT !.prev = events[i].hash]]
          PROVE  arg'[c].prev = LastHash
      <4>1. i = Len(events) /\ events # << >>
        BY <3>3, NewestIsLast
      <4>2. arg'[c].prev = events[i].hash
        BY <3>1, <3>3 DEF Arg
      <4> QED
        BY <4>1, <4>2 DEF LastHash
    <3> QED
      BY <1>3, <3>2, <3>3 DEF ReadLast
  <2>3. LastHash' = LastHash
    BY <2>1 DEF LastHash
  <2> QED
    BY <2>1, <2>2, <2>3 DEF ChainInv
<1>4. ASSUME NEW c \in Clients, InsertEvent(c)
      PROVE  ChainInv'
  <2>1. events' = events /\ pc[c] = "append" /\ \A o \in Clients \ {c} : pc'[o] = pc[o] /\ arg'[o] = arg[o]
    BY <1>4 DEF TypeOK, InsertEvent, Step
  <2>2. arg'[c].prev = arg[c].prev
    BY <1>4 DEF TypeOK, InsertEvent, Arg
  <2>3. LastHash' = LastHash
    BY <2>1 DEF LastHash
  <2> QED
    BY <2>1, <2>2, <2>3 DEF ChainInv
<1>5. ASSUME NEW c \in Clients, CommitEvent(c)
      PROVE  ChainInv'
  <2> DEFINE n == Len(events)
  <2>1. pc[c] = "commitEvent" /\ arg[c].prev = LastHash
    BY <1>5 DEF CommitEvent, ChainInv
  <2>2. \A o \in Clients : pc'[o] \notin {"append", "commitEvent"}
    BY <1>5, <2>1, EventCommit, OneOwner DEF PcOwner
  <2>3. /\ NewEvent(c).prev = IF n + 1 = 1 THEN Genesis ELSE events[n].hash
        /\ NewEvent(c).hash = _event_hash(NewEvent(c).prev, BodyOf(NewEvent(c)))
    <3>1. n = 0 <=> events = << >>
      BY DEF TypeOK
    <3> QED
      BY <2>1, <3>1, <1>5, EventCommit DEF NewEvent, BodyOf, LastHash
  <2>4. Len(NewEvent(c).hash) = n + 1
    <3>1. Len(NewEvent(c).prev) = n /\ NewEvent(c).prev \in Hash
      <4>1. CASE n = 0
        BY <4>1, <2>3, GenesisType DEF Genesis
      <4>2. CASE n # 0
        <5>1. n \in DOMAIN events /\ n + 1 # 1
          BY <4>2, <1>5, EventCommit
        <5> QED
          BY <5>1, <2>3, EventType DEF ChainInv, Event
      <4> QED
        BY <4>1, <4>2
    <3>2. BodyOf(NewEvent(c)) \in Body
      BY NewRowType DEF BodyOf, Body, Event
    <3> QED
      BY <2>3, <3>1, <3>2, EventHashType
  <2>5. ASSUME NEW i \in DOMAIN events'
        PROVE  /\ events'[i].prev = IF i = 1 THEN Genesis ELSE events'[i - 1].hash
               /\ events'[i].hash = _event_hash(events'[i].prev, BodyOf(events'[i]))
               /\ Len(events'[i].hash) = i
    <3>1. CASE i = n + 1
      BY <1>5, <2>3, <2>4, <3>1, EventCommit
    <3>2. CASE i # n + 1
      <4>1. i \in DOMAIN events /\ events'[i] = events[i] /\ i \in 1..n
        BY <1>5, <3>2, EventCommit
      <4>2. i # 1 => i - 1 \in 1..n /\ events'[i - 1] = events[i - 1]
        BY <1>5, <4>1, EventCommit
      <4> QED
        BY <4>1, <4>2 DEF ChainInv
    <3> QED
      BY <3>1, <3>2
  <2> QED
    BY <2>2, <2>5 DEF ChainInv, BodyOf, _event_hash
<1> QED
  BY <1>1, <1>2, <1>3, <1>4, <1>5 DEF Next, Progress, Elsewhere

-----------------------------------------------------------------------------
(* The registered rows.                                                    *)

\* The steps that neither draw an id, pass the unique index nor commit a row.
NotRegistering(c) ==
    \/ Call(c) \/ RefuseDuplicate(c) \/ AcquireLock(c) \/ ReadLast(c)
    \/ InsertEvent(c) \/ CommitEvent(c) \/ Abort(c) \/ ConnectFails(c)

\* Those steps leave the rows and every half-made registration as they were.
LEMMA RowFrame ==
    ASSUME TypeOK, NEW c \in Clients, NotRegistering(c)
    PROVE  /\ rows' = rows /\ nextRow' = nextRow
           /\ \A o \in Clients : pc'[o] \in {"unique", "commitRow"} =>
                pc[o] = pc'[o] /\ arg'[o] = arg[o]
BY DEF TypeOK, NotRegistering, Call, RegisterBegin, EventBegin, RefuseDuplicate,
       AcquireLock, ReadLast, InsertEvent, CommitEvent, Abort, ConnectFails, Step,
       Return, table

\* A committed row is appended; the committing client becomes idle and the
\* other clients do not move.
LEMMA RowCommit ==
    ASSUME TypeOK, NEW c \in Clients, CommitRow(c)
    PROVE  /\ Len(rows) \in Nat
           /\ DOMAIN rows = 1..Len(rows)
           /\ DOMAIN rows' = 1..(Len(rows) + 1)
           /\ \A i \in 1..Len(rows) : rows'[i] = rows[i]
           /\ rows'[Len(rows) + 1] = NewRow(c)
           /\ pc[c] = "commitRow" /\ pc'[c] = "idle"
           /\ \A o \in Clients : o # c => pc'[o] = pc[o]
           /\ arg' = arg /\ nextRow' = nextRow
<1>1. rows \in Seq(Row) /\ NewRow(c) \in Row
  BY NewRowType DEF TypeOK
<1>2. rows' = Append(rows, NewRow(c))
  BY DEF CommitRow
<1>3. /\ pc[c] = "commitRow" /\ pc'[c] = "idle"
      /\ \A o \in Clients : o # c => pc'[o] = pc[o]
      /\ arg' = arg /\ nextRow' = nextRow
  BY DEF TypeOK, CommitRow, Return
<1> QED
  BY <1>1, <1>2, <1>3

\* A name is registered at most once, whoever else is registering it.
LEMMA NameStep ==
    ASSUME TypeOK, NameInv, [Next]_vars
    PROVE  NameInv'
<1>1. CASE UNCHANGED vars
  BY <1>1 DEF NameInv, vars
<1>2. ASSUME NEW c \in Clients, NotRegistering(c)
      PROVE  NameInv'
  BY <1>2, RowFrame DEF NameInv
<1>3. ASSUME NEW c \in Clients, DrawRowId(c)
      PROVE  NameInv'
  BY <1>3 DEF TypeOK, NameInv, DrawRowId, Step
<1>4. ASSUME NEW c \in Clients, InsertRow(c)
      PROVE  NameInv'
  BY <1>4 DEF TypeOK, NameInv, InsertRow, NameContended, NameTaken, get, Step, table
<1>5. ASSUME NEW c \in Clients, CommitRow(c)
      PROVE  NameInv'
  <2>1. NewRow(c).name = arg[c].name
    BY DEF NewRow
  <2> QED
    BY <1>5, <2>1, RowCommit DEF NameInv
<1> QED
  BY <1>1, <1>2, <1>3, <1>4, <1>5 DEF Next, Progress, NotRegistering

\* Row ids stay distinct and below the sequence.
LEMMA RowIdStep ==
    ASSUME TypeOK, RowIdInv, [Next]_vars
    PROVE  RowIdInv'
<1>0. /\ nextRow \in Nat
      /\ \A i \in DOMAIN rows : rows[i].id \in Nat
      /\ \A c \in Clients : arg[c].id \in Nat
  <2>1. nextRow \in Nat /\ \A c \in Clients : arg[c] \in Arg
    BY DEF TypeOK
  <2> QED
    BY <2>1, RowType DEF Row, Arg
<1>1. CASE UNCHANGED vars
  BY <1>1 DEF RowIdInv, vars
<1>2. ASSUME NEW c \in Clients, NotRegistering(c)
      PROVE  RowIdInv'
  BY <1>2, RowFrame DEF RowIdInv
<1>3. ASSUME NEW c \in Clients, DrawRowId(c)
      PROVE  RowIdInv'
  <2>1. /\ rows' = rows /\ nextRow' = nextRow + 1 /\ arg'[c].id = nextRow + 1
        /\ \A o \in Clients \ {c} : pc'[o] = pc[o] /\ arg'[o] = arg[o]
    BY <1>3 DEF TypeOK, DrawRowId, Step, Arg
  <2> QED
    BY <1>0, <2>1 DEF RowIdInv
<1>4. ASSUME NEW c \in Clients, InsertRow(c)
      PROVE  RowIdInv'
  BY <1>4 DEF TypeOK, RowIdInv, InsertRow, Step, table
<1>5. ASSUME NEW c \in Clients, CommitRow(c)
      PROVE  RowIdInv'
  <2>1. NewRow(c).id = arg[c].id /\ pc[c] = "commitRow"
    BY <1>5 DEF NewRow, CommitRow
  <2>2. \A i \in DOMAIN rows' : rows'[i].id <= nextRow'
    BY <1>5, <2>1, RowCommit DEF RowIdInv
  <2>3. \A i, j \in DOMAIN rows' : rows'[i].id = rows'[j].id => i = j
    BY <1>5, <2>1, RowCommit DEF RowIdInv
  <2>4. ASSUME NEW o \in Clients, pc'[o] \in {"unique", "commitRow"}
        PROVE  /\ arg'[o].id <= nextRow'
               /\ \A i \in DOMAIN rows' : rows'[i].id # arg'[o].id
               /\ \A q \in Clients \ {o} :
                     pc'[q] \in {"unique", "commitRow"} => arg'[q].id # arg'[o].id
    <3>1. o # c /\ pc'[o] = pc[o] /\ arg' = arg /\ nextRow' = nextRow
      BY <1>5, <2>4, RowCommit
    <3>2. \A i \in DOMAIN rows : rows[i].id # arg[o].id
      BY <2>4, <3>1 DEF RowIdInv
    <3>3. arg[c].id # arg[o].id
      BY <2>1, <2>4, <3>1 DEF RowIdInv
    <3>4. \A i \in DOMAIN rows' : rows'[i].id # arg'[o].id
      BY <1>5, <2>1, <3>1, <3>2, <3>3, RowCommit
    <3>5. \A q \in Clients : pc'[q] \in {"unique", "commitRow"} => pc'[q] = pc[q]
      BY <1>5, RowCommit
    <3> QED
      BY <2>4, <3>1, <3>4, <3>5 DEF RowIdInv
  <2> QED
    BY <2>2, <2>3, <2>4 DEF RowIdInv
<1> QED
  BY <1>1, <1>2, <1>3, <1>4, <1>5 DEF Next, Progress, NotRegistering

-----------------------------------------------------------------------------
(* The results.                                                            *)

LEMMA InvInit == Init => Inv
<1> SUFFICES ASSUME Init PROVE Inv
  OBVIOUS
<1>1. TypeOK
  BY TypeInit
<1>2. rows = << >> /\ events = << >> /\ lock = NoClient /\ \A c \in Clients : pc[c] = "idle"
  BY DEF Init
<1> QED
  BY <1>1, <1>2, NoClientAssumption
  DEF Inv, LockInv, RowIdInv, NameInv, EventIdInv, ChainInv, PcOwner

LEMMA InvStep == Inv /\ [Next]_vars => Inv'
BY TypeStep, LockStep, RowIdStep, NameStep, EventIdStep, ChainStep DEF Inv

\* The inductive invariant holds in every reachable state.
THEOREM Invariance == Spec => []Inv
BY InvInit, InvStep, PTL DEF Spec

\* In commit order, hence in id order, the events form one unforked chain:
\* this is what verify_revocation_chain() checks.
LEMMA ChainFromInv == Inv => ChainVerifies
<1> SUFFICES ASSUME Inv, NEW i \in DOMAIN events
             PROVE  LinkOK(i) /\ events[i].hash = _event_hash(events[i].prev, BodyOf(events[i]))
  BY DEF ChainVerifies, verify_revocation_chain
<1> USE DEF Inv
<1>1. Len(events) \in Nat /\ DOMAIN events = 1..Len(events)
  BY DEF TypeOK
<1>2. \A k \in DOMAIN events : events[k].id \in Nat
  BY EventType DEF Event
<1>3. Before(i) = 1..(i - 1)
  BY <1>1, <1>2 DEF Before, EventIdInv
<1>4. LinkOK(i)
  <2>1. CASE i = 1
    <3>1. Before(i) = {}
      BY <1>3, <2>1
    <3> QED
      BY <2>1, <3>1 DEF LinkOK, ChainInv
  <2>2. CASE i # 1
    <3>1. i - 1 \in Before(i)
      BY <1>1, <1>3, <2>2
    <3>2. \A k \in Before(i) : events[k].id <= events[i - 1].id
      BY <1>1, <1>2, <1>3, <2>2 DEF EventIdInv
    <3>3. events[i].prev = events[i - 1].hash
      BY <2>2 DEF ChainInv
    <3> QED
      BY <3>1, <3>2, <3>3 DEF LinkOK
  <2> QED
    BY <2>1, <2>2
<1> QED
  BY <1>4 DEF ChainInv

\* verify_revocation_chain() succeeds in every reachable state, whatever
\* number of clients append revocation events concurrently and fail midway.
THEOREM ChainAlwaysVerifies == Spec => []ChainVerifies
BY Invariance, ChainFromInv, PTL

\* The hash an append is about to store covers one event more than any
\* stored hash does.
LEMMA FreshFromInv == Inv => EventHashFresh
<1> SUFFICES ASSUME Inv, NEW c \in Clients, pc[c] \in {"append", "commitEvent"},
                    NEW i \in DOMAIN events
             PROVE  events[i].hash # NewEvent(c).hash
  BY DEF EventHashFresh
<1> USE DEF Inv
<1>1. Len(events) \in Nat /\ DOMAIN events = 1..Len(events) /\ events # << >>
  BY DEF TypeOK
<1>2. Len(arg[c].prev) = Len(events)
  BY <1>1 DEF ChainInv, LastHash
<1>3. Len(NewEvent(c).hash) = Len(events) + 1
  <2>1. arg[c] \in Arg
    BY DEF TypeOK
  <2>2. arg[c].prev \in Hash /\ [name |-> arg[c].name, action |-> arg[c].action] \in Body
    BY <2>1 DEF Arg, Body
  <2> QED
    BY <1>2, <2>2, EventHashType DEF NewEvent
<1>4. Len(events[i].hash) = i
  BY DEF ChainInv
<1> QED
  BY <1>1, <1>3, <1>4

\* UNIQUE (event_hash) never refuses an append.
THEOREM EventHashAlwaysFresh == Spec => []EventHashFresh
BY Invariance, FreshFromInv, PTL

-----------------------------------------------------------------------------
(* Resolving a digest.                                                     *)

\* Only a commit of a registration changes the rows.
LEMMA RowsChange ==
    ASSUME TypeOK, [Next]_vars, rows' # rows
    PROVE  \E c \in Clients : CommitRow(c)
<1>1. PICK c \in Clients : Call(c) \/ Progress(c) \/ Abort(c) \/ ConnectFails(c)
  BY DEF Next, vars
<1>2. DrawRowId(c) \/ InsertRow(c) => rows' = rows
  BY DEF DrawRowId, InsertRow, table
<1>3. NotRegistering(c) => rows' = rows
  BY RowFrame
<1> QED
  BY <1>1, <1>2, <1>3 DEF Progress, NotRegistering

\* Once every open registration of the same bytes holds a larger id, the
\* answer of ORDER BY id LIMIT 1 is final.
LEMMA SettledStep ==
    ASSUME Inv, [Next]_vars, NEW d \in Digests, Settled(d)
    PROVE  Resolved(d)' = Resolved(d)
<1> USE DEF Inv
<1>1. CASE rows' = rows
  BY <1>1 DEF Resolved, get_by_digest
<1>2. ASSUME NEW c \in Clients, CommitRow(c)
      PROVE  Resolved(d)' = Resolved(d)
  <2> DEFINE n == Len(rows)
  <2>1. NewRow(c).id = arg[c].id /\ NewRow(c).digest = arg[c].digest
    BY DEF NewRow
  <2>2. /\ \A i \in DOMAIN rows : rows[i].id \in Nat
        /\ arg[c].id \in Nat
    <3>1. arg[c] \in Arg
      BY DEF TypeOK
    <3> QED
      BY <3>1, RowType DEF Row, Arg
  <2>3. PICK k \in DOMAIN rows : k \in get_by_digest(d)
    BY DEF Settled, Resolved, get_by_digest
  <2>4. arg[c].digest = d => rows[k].id < arg[c].id
    BY <1>2, <2>3, RowCommit DEF Settled
  <2>5. get_by_digest(d)' = get_by_digest(d)
    <3>1. ASSUME NEW i \in get_by_digest(d)
          PROVE  i \in get_by_digest(d)'
      <4>1. i \in DOMAIN rows /\ rows[i].digest = d
        BY DEF get_by_digest
      <4>2. arg[c].digest = d => rows[i].id < arg[c].id
        BY <1>2, RowCommit DEF Settled
      <4>3. \A j \in DOMAIN rows : rows[j].digest = d => rows[i].id <= rows[j].id
        BY DEF get_by_digest
      <4>4. i \in DOMAIN rows' /\ rows'[i] = rows[i]
        BY <1>2, <4>1, RowCommit
      <4>5. ASSUME NEW j \in DOMAIN rows', rows'[j].digest = d
            PROVE  rows'[i].id <= rows'[j].id
        <5>1. CASE j \in DOMAIN rows
          BY <1>2, <4>3, <4>4, <4>5, <5>1, RowCommit
        <5>2. CASE j = n + 1
          BY <1>2, <2>1, <2>2, <4>1, <4>2, <4>4, <4>5, <5>2, RowCommit
        <5> QED
          BY <1>2, <5>1, <5>2, RowCommit, IntervalGrows
      <4> QED
        BY <4>1, <4>4, <4>5 DEF get_by_digest
    <3>2. ASSUME NEW i \in get_by_digest(d)'
          PROVE  i \in get_by_digest(d)
      <4>1. i \in DOMAIN rows' /\ rows'[i].digest = d /\ rows'[i].id <= rows'[k].id
        BY <1>2, <2>3, RowCommit DEF get_by_digest
      <4>2. i # n + 1
        BY <1>2, <2>1, <2>2, <2>3, <2>4, <4>1, RowCommit
      <4> QED
        BY <1>2, <4>1, <4>2, RowCommit DEF get_by_digest
    <3> QED
      BY <3>1, <3>2
  <2>6. \A i \in get_by_digest(d) : rows'[i] = rows[i]
    BY <1>2, RowCommit DEF get_by_digest
  <2> QED
    BY <2>5, <2>6 DEF Resolved
<1> QED
  BY <1>1, <1>2, RowsChange

\* What get_by_digest() resolves a settled digest to never changes again.
THEOREM SettledForEver == Spec => SettledDigestStable
<1>1. Inv /\ [Next]_vars => [\A d \in Digests : Settled(d) => Resolved(d)' = Resolved(d)]_vars
  BY SettledStep
<1> QED
  BY <1>1, Invariance, PTL DEF Spec, SettledDigestStable

-----------------------------------------------------------------------------
(* The registry contract.                                                  *)

\* Only a commit of a revocation event changes the events.
LEMMA EventsChange ==
    ASSUME TypeOK, [Next]_vars, events' # events
    PROVE  \E c \in Clients : CommitEvent(c)
<1>1. PICK c \in Clients : Call(c) \/ Progress(c) \/ Abort(c) \/ ConnectFails(c)
  BY DEF Next, vars
<1>2. ReadLast(c) \/ InsertEvent(c) => events' = events
  BY DEF ReadLast, InsertEvent, table
<1>3. Elsewhere(c) => events' = events
  BY EventFrame
<1> QED
  BY <1>1, <1>2, <1>3 DEF Progress, Elsewhere

Records == {<<rows[i].name, rows[i].digest>> : i \in DOMAIN rows}
Revoked == {n \in Names : is_revoked(n)}

\* Committing a registration is the abstract Register.
LEMMA CommitRowRefines ==
    ASSUME Inv, NEW c \in Clients, CommitRow(c)
    PROVE  R!Register(arg[c].name, arg[c].digest)
<1> USE DEF Inv
<1>1. Records' = Records \cup {<<arg[c].name, arg[c].digest>>}
  <2>1. NewRow(c).name = arg[c].name /\ NewRow(c).digest = arg[c].digest
    BY DEF NewRow
  <2>2. DOMAIN rows' = DOMAIN rows \cup {Len(rows) + 1}
    BY RowCommit, IntervalGrows
  <2>3. \A i \in DOMAIN rows : rows'[i] = rows[i]
    BY RowCommit
  <2>4. rows'[Len(rows) + 1] = NewRow(c)
    BY RowCommit
  <2> QED
    BY <2>1, <2>2, <2>3, <2>4 DEF Records
<1>2. Revoked' = Revoked
  BY DEF CommitRow, Revoked, is_revoked
<1>3. arg[c].name \notin {r[1] : r \in Records}
  BY DEF Records, NameInv, CommitRow
<1> QED
  BY <1>1, <1>2, <1>3 DEF R!Register, R!Registered, Records, Revoked

\* After a commit the newest event of its name is the one just committed,
\* and the newest event of every other name is what it was.
LEMMA CommitEventAnswers ==
    ASSUME Inv, NEW c \in Clients, CommitEvent(c)
    PROVE  \A n \in Names : is_revoked(n)' <=>
               IF n = arg[c].name THEN arg[c].action = "revoke" ELSE is_revoked(n)
<1> USE DEF Inv
<1> DEFINE k == Len(events) + 1
<1>1. /\ NewEvent(c).name = arg[c].name /\ NewEvent(c).action = arg[c].action
      /\ NewEvent(c).id = arg[c].id
  BY DEF NewEvent
<1>2. /\ DOMAIN events' = DOMAIN events \cup {k} /\ k \notin DOMAIN events
      /\ \A i \in DOMAIN events : events'[i] = events[i]
      /\ events'[k] = NewEvent(c)
  BY EventCommit, IntervalGrows
<1>3. arg[c].id \in Nat /\ \A i \in DOMAIN events : events[i].id \in Nat /\ events[i].id < arg[c].id
  <2>1. arg[c] \in Arg /\ pc[c] = "commitEvent"
    BY DEF TypeOK, CommitEvent
  <2> QED
    BY <2>1, EventType DEF Arg, Event, EventIdInv
<1>4. ASSUME NEW n \in Names, n = arg[c].name
      PROVE  is_revoked(n)' <=> arg[c].action = "revoke"
  <2>1. \A j \in DOMAIN events' : events'[j].id <= events'[k].id
    BY <1>1, <1>2, <1>3
  <2>2. \A i \in DOMAIN events' :
          (\A j \in DOMAIN events' : events'[j].name = n => events'[j].id <= events'[i].id)
             => i = k
    BY <1>1, <1>2, <1>3, <1>4
  <2>3. k \in DOMAIN events' /\ events'[k].name = n /\ events'[k].action = arg[c].action
    BY <1>1, <1>2, <1>4
  <2> QED
    BY <2>1, <2>2, <2>3 DEF is_revoked
<1>5. ASSUME NEW n \in Names, n # arg[c].name
      PROVE  is_revoked(n)' <=> is_revoked(n)
  <2>1. \A i \in DOMAIN events' : events'[i].name = n => i \in DOMAIN events
    BY <1>1, <1>2, <1>5
  <2>2. DOMAIN events \subseteq DOMAIN events'
    BY <1>2
  <2> HIDE DEF k
  <2> QED
    BY <1>2, <2>1, <2>2 DEF is_revoked
<1> QED
  BY <1>4, <1>5

\* Committing an event is the abstract Revoke or Unrevoke.
LEMMA CommitEventRefines ==
    ASSUME Inv, NEW c \in Clients, CommitEvent(c)
    PROVE  R!Revoke(arg[c].name) \/ R!Unrevoke(arg[c].name)
<1> USE DEF Inv
<1>1. Records' = Records
  BY DEF CommitEvent, Records
<1>2. arg[c].name \in Names
  <2>1. arg[c] \in Arg
    BY DEF TypeOK
  <2> QED
    BY <2>1 DEF Arg
<1>3. CASE arg[c].action = "revoke"
  <2>1. Revoked' = Revoked \cup {arg[c].name}
    BY <1>2, <1>3, CommitEventAnswers DEF Revoked
  <2> QED
    BY <1>1, <2>1 DEF R!Revoke, Records, Revoked
<1>4. CASE arg[c].action # "revoke"
  <2>1. Revoked' = Revoked \ {arg[c].name}
    BY <1>2, <1>4, CommitEventAnswers DEF Revoked
  <2> QED
    BY <1>1, <2>1 DEF R!Unrevoke, Records, Revoked
<1> QED
  BY <1>3, <1>4

\* Every step is a step of the contract or changes nothing it speaks of.
LEMMA ContractStep ==
    ASSUME Inv, [Next]_vars
    PROVE  [R!Next]_R!vars
<1> USE DEF Inv
<1>1. \A c \in Clients : arg[c].name \in Names /\ arg[c].digest \in Digests
  <2>1. \A c \in Clients : arg[c] \in Arg
    BY DEF TypeOK
  <2> QED
    BY <2>1 DEF Arg
<1>2. ASSUME NEW c \in Clients, CommitRow(c)
      PROVE  [R!Next]_R!vars
  <2>1. R!Register(arg[c].name, arg[c].digest)
    BY <1>2, CommitRowRefines
  <2> QED
    BY <1>1, <2>1 DEF R!Next, R!Register
<1>3. ASSUME NEW c \in Clients, CommitEvent(c)
      PROVE  [R!Next]_R!vars
  <2>1. R!Revoke(arg[c].name) \/ R!Unrevoke(arg[c].name)
    BY <1>3, CommitEventRefines
  <2> QED
    BY <1>1, <2>1 DEF R!Next
<1>4. CASE rows' = rows /\ events' = events
  BY <1>4 DEF R!vars, is_revoked
<1> QED
  BY <1>2, <1>3, <1>4, RowsChange, EventsChange

\* The PostgreSQL registry implements the registry contract: it refines
\* Registry, step by step, under any interleaving and any failure modelled.
THEOREM ContractImplemented == Spec => RegistryContract
<1>1. Init => R!Init
  BY DEF Init, R!Init, is_revoked
<1>2. Inv /\ [Next]_vars => [R!Next]_R!vars
  BY ContractStep
<1> QED
  BY <1>1, <1>2, Invariance, PTL DEF Spec, RegistryContract, R!Spec

-----------------------------------------------------------------------------
(* What callers are told.                                                  *)

\* A step of one client leaves what the others were told alone.
LEMMA OthersHear ==
    ASSUME TypeOK, NEW c \in Clients, NEW o \in Clients \ {c},
           Call(c) \/ Progress(c) \/ Abort(c) \/ ConnectFails(c)
    PROVE  result'[o] = result[o]
BY DEF TypeOK, Call, Progress, RegisterBegin, EventBegin, DrawRowId, InsertRow,
       RefuseDuplicate, CommitRow, AcquireLock, ReadLast, InsertEvent, CommitEvent,
       Abort, ConnectFails, Step, Return

\* A client that ended its call is idle, and was told how the call ended.
LEMMA ReturnEnds ==
    ASSUME TypeOK, NEW c \in Clients, NEW r \in Results, Return(c, r)
    PROVE  pc'[c] = "idle" /\ result'[c] = r
BY DEF TypeOK, Return

\* A call under way has no result yet, and its slot says which call it is.
LEMMA CallStep ==
    ASSUME TypeOK, CallInv, [Next]_vars
    PROVE  CallInv'
<1>1. CASE UNCHANGED vars
  BY <1>1 DEF CallInv, vars
<1>2. ASSUME NEW c \in Clients, Call(c) \/ Progress(c) \/ Abort(c) \/ ConnectFails(c)
      PROVE  CallInv'
  <2>1. \A o \in Clients \ {c} : pc'[o] = pc[o] /\ arg'[o] = arg[o] /\ result'[o] = result[o]
    BY <1>2, OthersWait, OthersHear
  <2>2. arg[c] \in Arg
    BY DEF TypeOK
  <2>3. pc'[c] # "idle" =>
            /\ result'[c] = "none"
            /\ arg'[c].kind = IF pc'[c] \in PcRegister THEN "register" ELSE "event"
    <3> USE DEF PcRegister
    <3>1. CASE Call(c)
      <4>1. ASSUME NEW n \in Names, NEW d \in Digests, RegisterBegin(c, n, d)
            PROVE  pc'[c] = "insert" /\ result'[c] = "none" /\ arg'[c].kind = "register"
        BY <4>1, <2>2 DEF RegisterBegin, Step, TypeOK, Arg
      <4>2. ASSUME NEW n \in Names, NEW a \in Actions, EventBegin(c, n, a)
            PROVE  pc'[c] = "lock" /\ result'[c] = "none" /\ arg'[c].kind = "event"
        BY <4>2, <2>2 DEF EventBegin, Step, TypeOK, Arg
      <4> QED
        BY <3>1, <4>1, <4>2 DEF Call
    <3>2. CASE DrawRowId(c) \/ InsertRow(c) \/ AcquireLock(c) \/ ReadLast(c) \/ InsertEvent(c)
      <4>1. /\ pc[c] # "idle" /\ pc'[c] # "idle" /\ result' = result
            /\ pc[c] \in PcRegister <=> pc'[c] \in PcRegister
        BY <3>2 DEF DrawRowId, InsertRow, AcquireLock, ReadLast, InsertEvent, Step, TypeOK
      <4>2. arg'[c].kind = arg[c].kind
        BY <3>2, <2>2 DEF DrawRowId, InsertRow, AcquireLock, ReadLast, InsertEvent, TypeOK, Arg
      <4> QED
        BY <4>1, <4>2 DEF CallInv
    <3>4. CASE RefuseDuplicate(c) \/ CommitRow(c) \/ CommitEvent(c) \/ Abort(c)
      BY <3>4, ReturnEnds DEF RefuseDuplicate, CommitRow, CommitEvent, Abort, Results
    <3>5. CASE ConnectFails(c)
      BY <3>5 DEF ConnectFails
    <3> QED
      BY <1>2, <3>1, <3>2, <3>4, <3>5 DEF Progress
  <2> QED
    BY <2>1, <2>3 DEF CallInv
<1> QED
  BY <1>1, <1>2 DEF Next

\* What is stored stays stored: both tables only grow.
LEMMA TablesGrow ==
    ASSUME TypeOK, [Next]_vars
    PROVE  /\ \A i \in DOMAIN rows : i \in DOMAIN rows' /\ rows'[i] = rows[i]
           /\ \A i \in DOMAIN events : i \in DOMAIN events' /\ events'[i] = events[i]
<1>1. ASSUME rows' # rows
      PROVE  \A i \in DOMAIN rows : i \in DOMAIN rows' /\ rows'[i] = rows[i]
  BY <1>1, RowsChange, RowCommit
<1>2. ASSUME events' # events
      PROVE  \A i \in DOMAIN events : i \in DOMAIN events' /\ events'[i] = events[i]
  BY <1>2, EventsChange, EventCommit
<1> QED
  BY <1>1, <1>2

\* What one client was told is true.
Truthful(c) ==
    /\ result[c] = "ok" /\ arg[c].kind = "register" => \E i \in DOMAIN rows : rows[i] = NewRow(c)
    /\ result[c] = "ok" /\ arg[c].kind = "event" => \E i \in DOMAIN events : events[i] = NewEvent(c)
    /\ result[c] = "duplicate" => NameTaken(arg[c].name)

\* What was told a client stays true while it makes no other call.
LEMMA TruthStays ==
    ASSUME TypeOK, [Next]_vars, NEW c \in Clients, Truthful(c),
           arg'[c] = arg[c], result'[c] = result[c]
    PROVE  Truthful(c)'
BY TablesGrow DEF Truthful, NewRow, NewEvent, NameTaken, get

\* Whoever is told something is told the truth.
LEMMA TruthStep ==
    ASSUME TypeOK, CallInv, OutcomeIsTruthful, [Next]_vars
    PROVE  OutcomeIsTruthful'
<1>1. SUFFICES ASSUME \A c \in Clients : Truthful(c)
               PROVE  \A c \in Clients : Truthful(c)'
  BY DEF OutcomeIsTruthful, Truthful
<1>2. CASE UNCHANGED vars
  BY <1>1, <1>2, TruthStays DEF vars
<1>3. ASSUME NEW c \in Clients, Call(c) \/ Progress(c) \/ Abort(c) \/ ConnectFails(c)
      PROVE  \A o \in Clients : Truthful(o)'
  <2>1. \A o \in Clients \ {c} : Truthful(o)'
    BY <1>1, <1>3, TruthStays, OthersWait, OthersHear
  <2>2. Truthful(c)'
    <3>1. CASE result'[c] \in {"none", "error"}
      BY <3>1 DEF Truthful
    <3>2. CASE RefuseDuplicate(c)
      BY <3>2, ReturnEnds DEF RefuseDuplicate, Truthful, NameTaken, get, table, Results
    <3>3. CASE CommitRow(c)
      <4>1. arg' = arg /\ arg[c].kind = "register"
        BY <3>3 DEF CommitRow, CallInv, PcRegister
      <4>2. result'[c] \in {"ok", "error"}
        BY <3>3, ReturnEnds DEF CommitRow, Results
      <4>3. rows'[Len(rows) + 1] = NewRow(c)' /\ Len(rows) + 1 \in DOMAIN rows'
        BY <3>3, <4>1, RowCommit DEF NewRow
      <4> QED
        BY <4>1, <4>2, <4>3 DEF Truthful
    <3>4. CASE CommitEvent(c)
      <4>1. arg' = arg /\ arg[c].kind = "event"
        BY <3>4 DEF CommitEvent, CallInv, PcRegister
      <4>2. result'[c] \in {"ok", "error"}
        BY <3>4, ReturnEnds DEF CommitEvent, Results
      <4>3. events'[Len(events) + 1] = NewEvent(c)' /\ Len(events) + 1 \in DOMAIN events'
        BY <3>4, <4>1, EventCommit DEF NewEvent
      <4> QED
        BY <4>1, <4>2, <4>3 DEF Truthful
    <3>5. CASE Call(c)
      BY <3>1, <3>5 DEF Call, RegisterBegin, EventBegin, TypeOK
    <3>6. CASE DrawRowId(c) \/ InsertRow(c) \/ AcquireLock(c) \/ ReadLast(c) \/ InsertEvent(c)
      <4>1. pc[c] # "idle" /\ result' = result
        BY <3>6 DEF DrawRowId, InsertRow, AcquireLock, ReadLast, InsertEvent, Step
      <4> QED
        BY <3>1, <4>1 DEF CallInv
    <3>7. CASE Abort(c)
      BY <3>1, <3>7, ReturnEnds DEF Abort, Results
    <3>8. CASE ConnectFails(c)
      BY <3>1, <3>8 DEF ConnectFails, TypeOK
    <3> QED
      BY <1>3, <3>2, <3>3, <3>4, <3>5, <3>6, <3>7, <3>8 DEF Progress
  <2> QED
    BY <2>1, <2>2
<1> QED
  BY <1>1, <1>2, <1>3 DEF Next

\* However calls interleave and connections break, a caller is told that a
\* registration, a revocation or an unrevocation succeeded only if exactly
\* that row is stored, and that a name is taken only if it is.
THEOREM OutcomesAreTruthful == Spec => []OutcomeIsTruthful
<1>1. Init => CallInv /\ OutcomeIsTruthful
  BY DEF Init, CallInv, OutcomeIsTruthful
<1>2. TypeOK /\ CallInv /\ OutcomeIsTruthful /\ [Next]_vars => (CallInv /\ OutcomeIsTruthful)'
  BY CallStep, TruthStep
<1> QED
  BY <1>1, <1>2, TypeCorrect, PTL DEF Spec

-----------------------------------------------------------------------------
(* The whole.                                                              *)

\* Operations and migrations hold different locks and write different tables:
\* what is proved of each by itself holds where both are model-checked.
THEOREM DatabaseIsBoth == DatabaseSpec => Spec /\ Schema!Spec
<1>1. DatabaseInit => Init /\ Schema!Init
  BY DEF DatabaseInit
<1>2. ASSUME [DatabaseNext]_<<part, registryVars, schemaVars>>
      PROVE  [Next]_vars /\ [Schema!Next]_(Schema!vars)
  BY <1>2 DEF DatabaseNext, registryVars, vars, schemaVars, Schema!vars
<1> QED
  BY <1>1, <1>2, PTL DEF DatabaseSpec, Spec, Schema!Spec
=============================================================================
