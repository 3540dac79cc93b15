----------------------------- MODULE Provenance -----------------------------
(***************************************************************************)
(* The lineage graph (provenance/graph.py, store.py) and the query for     *)
(* deployments of revoked models (sdk.py).  Events are edges appended to a *)
(* log; a query loads the log and walks it with a worklist.  The query for *)
(* deployments loads the log several times and asks the registry about one *)
(* version of one candidate after the other, while others record events    *)
(* and revoke.                                                             *)
(*                                                                         *)
(* The log is a hash chain, whose races and torn writes HashChain models:  *)
(* here an append is one step, and a log that does not parse is one cause  *)
(* of a query that raises.  The relationships of LINEAGE_RELATIONSHIPS are *)
(* one value, the others are DEPLOYED_TO, whose object may be a model or   *)
(* something else: record_provenance() takes any strings.  Only releases   *)
(* in the registry are revoked here: the query asks about no others.       *)
(***************************************************************************)
EXTENDS Naturals, Sequences

CONSTANTS
    Models,         \* model ids
    Versions,       \* version names
    InRegistry,     \* the releases <<model, version>> that are in the registry
    Targets,        \* objects of deployments: environments, but also models
    Unsafe,         \* the ids among all these that validate_identifier() refuses
    None,           \* no answer
    MaxEvents,      \* bound: events recorded
    MaxChanges      \* bound: revocations and their reversals

Lineage == "DERIVED_FROM"
Deployed == "DEPLOYED_TO"
Ids == Models \cup Targets
Event == [subject_id : Models, relationship : {Lineage}, object_id : Models]
         \cup [subject_id : Models, relationship : {Deployed}, object_id : Targets]

VARIABLES
    log,        \* the recorded events
    revoked,    \* the releases that are revoked
    pc,         \* where the query stands
    walk,       \* the local variables of a traversal
    scan,       \* the local variables of the query for deployments
    answer,     \* what a query has just returned
    span,       \* the query for deployments: what held while it ran
    changes     \* counter for the bound

vars == <<log, revoked, pc, walk, scan, answer, span, changes>>

NoWalk == [events |-> << >>, from |-> None, frontier |-> << >>, edges |-> {}, visited |-> {},
           result |-> << >>]
NoScan == [events |-> << >>, next |-> 1, field |-> "subject_id", asked |-> {},
           revoked_ids |-> {}, todo |-> {}, affected |-> {}]
NoSpan == [always |-> {}, ever |-> {}, before |-> << >>]

Init ==
    /\ log = << >> /\ revoked = {}
    /\ pc = "idle"
    /\ walk = NoWalk /\ scan = NoScan /\ answer = None /\ span = NoSpan
    /\ changes = 0

-----------------------------------------------------------------------------
(* Other clients.                                                          *)

FindingDeployments == pc \in {"scan", "collect", "affected"}

record(e) ==
    /\ Len(log) < MaxEvents
    /\ log' = Append(log, e)
    /\ answer' = None
    /\ span' = IF FindingDeployments THEN span ELSE NoSpan
    /\ UNCHANGED <<revoked, pc, walk, scan, changes>>

ChangeRevocation(releases) ==
    /\ changes < MaxChanges
    /\ changes' = changes + 1
    /\ revoked' = releases
    /\ answer' = None
    /\ span' = IF FindingDeployments
               THEN [span EXCEPT !.always = @ \cap releases, !.ever = @ \cup releases]
               ELSE NoSpan
    /\ UNCHANGED <<log, pc, walk, scan>>

-----------------------------------------------------------------------------
(* Traversals.                                                             *)

\* The edges at a node, as positions in the log.
direct_parents(events, id) ==
    {i \in DOMAIN events : events[i].subject_id = id /\ events[i].relationship = Lineage}
direct_children(events, id) ==
    {i \in DOMAIN events : events[i].object_id = id /\ events[i].relationship = Lineage}

\* frontier.pop(), and the edges at the node it returns.
Top(w) == w.frontier[Len(w.frontier)]
Popped(w, edges) ==
    [w EXCEPT !.frontier = SubSeq(@, 1, Len(@) - 1), !.edges = edges]

\* In the loop over these edges a node not seen before is pushed.
Visit_NotPushed(w, i, node) ==
    [w EXCEPT !.edges = @ \ {i}, !.visited = @ \cup {node}]
Visit(w, i, node) ==
    [w EXCEPT !.edges = @ \ {i}, !.visited = @ \cup {node},
              !.frontier = IF node \in w.visited THEN @ ELSE Append(@, node)]

Begin(query) ==
    /\ pc = "idle"
    /\ pc' = query
    /\ answer' = None
    /\ UNCHANGED <<log, revoked, changes>>

\* The local variables before the loop.
Start(id, visited) ==
    [events |-> log, from |-> id, frontier |-> <<id>>, edges |-> {}, visited |-> visited,
     result |-> << >>]

lineage(id) ==
    /\ Begin("lineage")
    /\ walk' = Start(id, {id})
    /\ span' = NoSpan
    /\ UNCHANGED scan

StartDerived(id) == walk' = Start(id, {})
find_models_derived_from(id) ==
    /\ Begin("derived")
    /\ StartDerived(id)
    /\ span' = NoSpan
    /\ UNCHANGED scan

\* One node or one edge at a time; edges are taken in the order of the log.
PopNode == walk.edges = {} /\ walk.frontier # << >>
NextEdge(i) == i \in walk.edges /\ \A j \in walk.edges : i <= j
Traverse == UNCHANGED <<log, revoked, pc, scan, answer, span, changes>>

PopUp ==
    /\ pc = "lineage" /\ PopNode
    /\ walk' = Popped(walk, direct_parents(walk.events, Top(walk)))
    /\ Traverse
FollowUp(i) ==
    /\ pc = "lineage" /\ NextEdge(i)
    /\ walk' = [Visit(walk, i, walk.events[i].object_id) EXCEPT !.result = Append(@, i)]
    /\ Traverse

Deriving == pc \in {"derived", "affected"}
PopDown ==
    /\ Deriving /\ PopNode
    /\ walk' = Popped(walk, direct_children(walk.events, Top(walk)))
    /\ Traverse
FollowDown(i) ==
    /\ Deriving /\ NextEdge(i)
    /\ walk' = Visit(walk, i, walk.events[i].subject_id)
    /\ Traverse

WalkEnded == walk.edges = {} /\ walk.frontier = << >>

Answer(value) ==
    /\ pc' = "idle"
    /\ answer' = value
    /\ UNCHANGED <<log, revoked, changes>>

WalkDone ==
    /\ pc \in {"lineage", "derived"}
    /\ WalkEnded
    /\ Answer([query |-> pc, id |-> walk.from, events |-> walk.events,
               value |-> IF pc = "lineage" THEN walk.result ELSE walk.visited])
    /\ walk' = NoWalk
    /\ UNCHANGED <<scan, span>>

-----------------------------------------------------------------------------
(* find_deployments_using_revoked_model()                                  *)

\* sdk.py: the events whose ids are looked up in the registry.
FindDeployments ==
    /\ Begin("scan")
    /\ scan' = [NoScan EXCEPT !.events = log]
    /\ span' = [always |-> revoked, ever |-> revoked, before |-> log]
    /\ UNCHANGED walk

LookingUp == pc = "scan" /\ scan.next <= Len(scan.events)

\* Both ids of an event, one after the other.
Candidate(s) ==
    LET e == s.events[s.next] IN IF s.field = "subject_id" THEN e.subject_id ELSE e.object_id
Advance_SubjectsOnly(s) == [s EXCEPT !.next = @ + 1, !.asked = {}]
Advance(s) ==
    IF s.field = "subject_id"
    THEN [s EXCEPT !.field = "object_id", !.asked = {}]
    ELSE [s EXCEPT !.field = "subject_id", !.next = @ + 1, !.asked = {}]

list_versions(id) == {v \in Versions : <<id, v>> \in InRegistry}

\* is_revoked() of a version, as the registry is now; in any order.
LookUp(v) ==
    /\ LookingUp
    /\ LET id == Candidate(scan) IN
        /\ v \in list_versions(id) \ scan.asked
        /\ scan' = [scan EXCEPT !.asked = @ \cup {v},
                                !.revoked_ids = @ \cup {x \in {id} : <<x, v>> \in revoked}]
    /\ UNCHANGED <<log, revoked, pc, walk, answer, span, changes>>

\* An id that is no valid name of a model raises in list_versions().
NextCandidate ==
    /\ LookingUp
    /\ Candidate(scan) \notin Unsafe
    /\ list_versions(Candidate(scan)) \subseteq scan.asked
    /\ scan' = Advance(scan)
    /\ UNCHANGED <<log, revoked, pc, walk, answer, span, changes>>

\* graph.py: the events are loaded again.
LoadDeployments ==
    /\ pc = "scan"
    /\ scan.next > Len(scan.events)
    /\ pc' = "collect"
    /\ scan' = [scan EXCEPT !.events = log, !.todo = scan.revoked_ids,
                            !.affected = scan.revoked_ids]
    /\ UNCHANGED <<log, revoked, walk, answer, span, changes>>

\* And once more for each revoked model, in the order of a set.
Derive(id) ==
    /\ pc = "collect"
    /\ id \in scan.todo
    /\ pc' = "affected"
    /\ StartDerived(id)
    /\ scan' = [scan EXCEPT !.todo = @ \ {id}]
    /\ UNCHANGED <<log, revoked, answer, span, changes>>

Derived ==
    /\ pc = "affected"
    /\ WalkEnded
    /\ pc' = "collect"
    /\ scan' = [scan EXCEPT !.affected = @ \cup walk.visited]
    /\ walk' = NoWalk
    /\ UNCHANGED <<log, revoked, answer, span, changes>>

Report ==
    /\ pc = "collect"
    /\ scan.todo = {}
    /\ Answer([query |-> "deployments", id |-> None, events |-> scan.events,
               value |-> {i \in DOMAIN scan.events :
                             /\ scan.events[i].relationship = Deployed
                             /\ scan.events[i].subject_id \in scan.affected}])
    /\ scan' = NoScan
    /\ UNCHANGED <<walk, span>>

\* An id that is not a valid name, an unreadable log, a registry that fails.
Raise ==
    /\ pc # "idle"
    /\ pc' = "idle"
    /\ walk' = NoWalk /\ scan' = NoScan /\ span' = NoSpan
    /\ UNCHANGED <<log, revoked, answer, changes>>

-----------------------------------------------------------------------------
Next ==
    \/ \E e \in Event : record(e)
    \/ \E r \in InRegistry \ revoked : ChangeRevocation(revoked \cup {r})
    \/ \E r \in revoked : ChangeRevocation(revoked \ {r})
    \/ \E id \in Models : lineage(id) \/ find_models_derived_from(id) \/ Derive(id)
    \/ PopUp \/ PopDown \/ (\E i \in walk.edges : FollowUp(i) \/ FollowDown(i)) \/ WalkDone
    \/ FindDeployments \/ (\E v \in Versions : LookUp(v)) \/ NextCandidate \/ LoadDeployments \/ Derived \/ Report
    \/ Raise

Spec == Init /\ [][Next]_vars

-----------------------------------------------------------------------------
(* Properties.                                                             *)

\* Reference: the ids on a path of at least one lineage edge to id, and
\* the ids on such a path from it.
Edge(events, a, b) ==
    \E i \in DOMAIN events : events[i].relationship = Lineage
                             /\ events[i].subject_id = a /\ events[i].object_id = b
Descendants(events, id) ==
    {m \in Ids :
        \A S \in SUBSET Ids :
            (\A a \in Ids, b \in S \cup {id} : Edge(events, a, b) => a \in S) => m \in S}
Ancestors(events, id) ==
    {m \in Ids :
        \A S \in SUBSET Ids :
            (\A a \in S \cup {id}, b \in Ids : Edge(events, a, b) => b \in S) => m \in S}

\* First traversal: lineage() returns every edge from the model and from its
\* ancestors, each once, also if the graph has cycles or parallel edges.
LineageExact ==
    answer # None /\ answer.query = "lineage" =>
        LET sources == {answer.id} \cup Ancestors(answer.events, answer.id) IN
        /\ \A i, j \in DOMAIN answer.value : i # j => answer.value[i] # answer.value[j]
        /\ {answer.value[k] : k \in DOMAIN answer.value} =
               {i \in DOMAIN answer.events :
                   /\ answer.events[i].relationship = Lineage
                   /\ answer.events[i].subject_id \in sources}

\* Second traversal: find_models_derived_from() returns the models on a path to
\* the base, and the base itself exactly if it is on a cycle.
DerivedExact ==
    answer # None /\ answer.query = "derived" =>
        answer.value = Descendants(answer.events, answer.id)

\* Both traversals compute what their reference definitions say, whatever graph
\* was recorded: cycles, self-loops and parallel edges included.
TraversalsExact == LineageExact /\ DerivedExact

Reported == {answer.events[i] : i \in answer.value}

\* Nothing is missed: the query reports every deployment that was on record when
\* it began, of a model that is or derives from one with a version whose
\* revocation stood all the time, whatever is recorded and revoked between its
\* reads.  It may miss a model whose revocation passed from one version to
\* another meanwhile.
DeploymentsComplete ==
    answer # None /\ answer.query = "deployments" =>
        \A i \in DOMAIN span.before :
            LET e == span.before[i] IN
            e.relationship = Deployed
            /\ (\E r \in span.always :
                   e.subject_id \in {r[1]} \cup Descendants(span.before, r[1]))
                => e \in Reported

\* Nothing is made up: every deployment reported is on record, and its model is
\* or derives from one with a version that was revoked while the query ran.
DeploymentsSound ==
    answer # None /\ answer.query = "deployments" =>
        \A e \in Reported :
            /\ \E i \in DOMAIN log : log[i] = e
            /\ \E r \in span.ever : e.subject_id \in {r[1]} \cup Descendants(log, r[1])

\* find_deployments_using_revoked_model() misses nothing and makes nothing up,
\* though it reads the log several times and asks the registry version by
\* version while others record, revoke and unrevoke.
DeploymentsExact == DeploymentsComplete /\ DeploymentsSound
=============================================================================
