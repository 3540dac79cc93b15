----------------------------- MODULE MCReleases -----------------------------
(***************************************************************************)
(* Model-checking instances of what is done about a release: publishing    *)
(* and verifying it, and recording and asking where it comes from and      *)
(* where it is deployed.  Neither touches the state of the other: each has *)
(* a specification, and a run, of its own.                                 *)
(***************************************************************************)
EXTENDS Publishing, Sequences, TLC

CONSTANTS Models, Versions, InRegistry, Targets, Unsafe, MaxEvents, MaxChanges

VARIABLES log, withdrawn, query, walk, scan, answer, span, changes

Graph == INSTANCE Provenance WITH revoked <- withdrawn, pc <- query

\* What the parameters of Provenance stand for: only models have versions in the
\* registry, and only under valid names.
ASSUME IdsAssumption ==
    InRegistry \subseteq (Models \ Unsafe) \X Versions /\ None \notin Models
ASSUME GraphBoundsAssumption == MaxEvents \in Nat /\ MaxChanges \in Nat

EveryRelease == Models \X Versions

publishingVars == vars
graphVars == <<log, withdrawn, query, walk, scan, answer, span, changes>>

NoPublishing ==
    /\ artifact = None /\ file = None /\ records = None /\ revoked = None /\ trusted = None
    /\ pc = None /\ job = None /\ nextKey = None /\ serials = None
    /\ measured = None /\ issued = None /\ commands = None /\ edits = None

PublishingInit == Init /\ Graph!Init
PublishingNext == Next /\ UNCHANGED graphVars
PublishingSpec == PublishingInit /\ [][PublishingNext]_<<publishingVars, graphVars>>

ProvenanceInit == NoPublishing /\ Graph!Init
ProvenanceNext == Graph!Next /\ UNCHANGED publishingVars
ProvenanceSpec == ProvenanceInit /\ [][ProvenanceNext]_<<publishingVars, graphVars>>

PeopleSymmetry == Permutations(People) \cup Permutations(Contents)
ModelsSymmetry == Permutations(Models) \cup Permutations(Versions)

-----------------------------------------------------------------------------
(* The properties of Provenance.                                           *)

\* lineage() and find_models_derived_from() compute the reachable edges and models.
TraversalsExact == Graph!TraversalsExact
\* The query for deployments of revoked models misses nothing and makes nothing up.
DeploymentsExact == Graph!DeploymentsExact
=============================================================================
