-------------------------------- MODULE Desks --------------------------------
(***************************************************************************)
(* The stores of a workspace and the requests that change them.  Each desk   *)
(* is a module of its own: reviews, data sources, connectors, workflows,    *)
(* registries, the knowledge graph, claims, war rooms and the SQLite store.  *)
(*                                                                         *)
(* No two desks share a file, so what a desk does is the same whatever the   *)
(* others do meanwhile: a behaviour follows one of them, or none.  Variables *)
(* that have one name at several desks are the same kind of thing there, and *)
(* those a desk does not have are None.                                     *)
(***************************************************************************)
EXTENDS SourceDesk

R == INSTANCE ReviewDesk
C == INSTANCE ConnectorDesk
W == INSTANCE WorkflowDesk
G == INSTANCE Registry WITH MaxRequests <- 2
K == INSTANCE KnowledgeGraph WITH MaxRequests <- 2
V == INSTANCE ClaimDesk
O == INSTANCE WarRoom
S == INSTANCE WorkspaceStore WITH MaxRequests <- 2

\* What is extracted from texts is whole.
ASSUME ExtractionAssumption == K!FindsEnds

-----------------------------------------------------------------------------

InitReviews ==
    /\ desk = "reviews" /\ R!Init
    /\ NoSources /\ NoConnectors /\ NoWorkflows /\ NoRegistries /\ NoGraph
    /\ NoClaims /\ NoStore
    /\ NoRequests /\ used = None /\ made = None /\ listed = None /\ torn = None

NextReviews ==
    /\ desk = "reviews" /\ R!Next
    /\ UNCHANGED <<ofSources, ofConnectors, ofWorkflows, ofRegistries, ofGraph, ofClaims, ofStore>>
    /\ UNCHANGED <<desk, requests, crashes, used, made, listed, torn>>

InitConnectors ==
    /\ desk = "connectors" /\ C!Init
    /\ NoReviews /\ NoSources /\ NoWorkflows /\ NoRegistries /\ NoGraph
    /\ NoClaims /\ NoStore
    /\ torn = None

NextConnectors ==
    /\ desk = "connectors" /\ C!Next
    /\ UNCHANGED <<ofReviews, ofSources, ofWorkflows, ofRegistries, ofGraph, ofClaims, ofStore>>
    /\ UNCHANGED <<desk, torn>>

InitWorkflows ==
    /\ desk = "workflows" /\ W!Init
    /\ NoReviews /\ NoSources /\ NoConnectors /\ NoRegistries /\ NoGraph
    /\ NoClaims /\ NoStore
    /\ file = None

NextWorkflows ==
    /\ desk = "workflows" /\ W!Next
    /\ UNCHANGED <<ofReviews, ofSources, ofConnectors, ofRegistries, ofGraph, ofClaims, ofStore>>
    /\ UNCHANGED <<desk, file>>

InitRegistries ==
    /\ desk = "registries" /\ G!Init
    /\ NoReviews /\ NoSources /\ NoConnectors /\ NoWorkflows /\ NoGraph
    /\ NoClaims /\ NoStore
    /\ used = None /\ made = None /\ listed = None

NextRegistries ==
    /\ desk = "registries" /\ G!Next
    /\ UNCHANGED <<ofReviews, ofSources, ofConnectors, ofWorkflows, ofGraph, ofClaims, ofStore>>
    /\ UNCHANGED <<desk, used, made, listed>>

InitGraph ==
    /\ desk = "graph" /\ K!Init
    /\ NoReviews /\ NoSources /\ NoConnectors /\ NoWorkflows /\ NoRegistries
    /\ NoClaims /\ NoStore
    /\ used = None /\ made = None /\ listed = None /\ torn = None

NextGraph ==
    /\ desk = "graph" /\ K!Next
    /\ UNCHANGED <<ofReviews, ofSources, ofConnectors, ofWorkflows, ofRegistries, ofClaims, ofStore>>
    /\ UNCHANGED <<desk, used, made, listed, torn>>

InitClaims ==
    /\ desk = "claims" /\ V!Init
    /\ NoReviews /\ NoSources /\ NoConnectors /\ NoWorkflows /\ NoRegistries /\ NoGraph
    /\ NoStore /\ mixed = None /\ made = None /\ torn = None

NextClaims ==
    /\ desk = "claims" /\ V!Next
    /\ UNCHANGED <<ofReviews, ofSources, ofConnectors, ofWorkflows, ofRegistries, ofGraph, ofStore>>
    /\ UNCHANGED <<desk, mixed, made, torn>>

InitRooms ==
    /\ desk = "rooms" /\ O!Init
    /\ NoReviews /\ NoSources /\ NoConnectors /\ NoRegistries /\ NoClaims /\ NoStore
    /\ versions = None /\ index = None /\ schedules = None /\ executions = None /\ summary = None
    /\ mixed = None /\ used = None /\ made = None /\ listed = None

NextRooms ==
    /\ desk = "rooms" /\ O!Next
    /\ UNCHANGED <<ofReviews, ofSources, ofConnectors, ofRegistries, ofClaims, ofStore>>
    /\ UNCHANGED <<desk, mixed, used, made, listed, versions, index, schedules, executions, summary>>

InitStore ==
    /\ desk = "store" /\ S!Init
    /\ NoReviews /\ NoSources /\ NoConnectors /\ NoRegistries /\ NoGraph /\ NoClaims
    /\ versions = None /\ index = None /\ schedules = None /\ executions = None
    /\ used = None /\ made = None /\ file = None /\ listed = None /\ torn = None

NextStore ==
    /\ desk = "store" /\ S!Next
    /\ UNCHANGED <<ofReviews, ofSources, ofConnectors, ofRegistries, ofGraph, ofClaims>>
    /\ UNCHANGED <<desk, used, made, file, listed, torn, versions, index, schedules, executions>>

\* Nothing of this happens: the rules of Workspace are looked at.
InitRules ==
    /\ desk = "rules"
    /\ NoReviews /\ NoSources /\ NoConnectors /\ NoWorkflows /\ NoRegistries
    /\ NoGraph /\ NoClaims /\ NoStore /\ NoRequests /\ thread = None /\ mixed = None /\ used = None /\ made = None
    /\ file = None /\ listed = None /\ torn = None

Init ==
    \/ InitReviews \/ InitSources \/ InitConnectors
    \/ InitWorkflows \/ InitRegistries \/ InitGraph \/ InitClaims \/ InitRooms \/ InitStore \/ InitRules

Next ==
    \/ NextReviews \/ NextSources \/ NextConnectors
    \/ NextWorkflows \/ NextRegistries \/ NextGraph \/ NextClaims \/ NextRooms \/ NextStore

Spec == Init /\ [][Next]_vars

-----------------------------------------------------------------------------
(* What each desk promises, as its module says.                             *)

\* An execution that waits names a review that is on record for it.
AwaitsItsOwnReview == desk = "reviews" => R!AwaitsItsOwnReview

\* What one reviewer decided, a later request does not change.
ResolutionIsFinal == [][desk = "reviews" => R!KeepsResolutions]_vars

\* run_due_schedules syncs a connector once per interval.
ServedAtItsInterval == [][desk = "connectors" => C!KeepsToInterval]_vars

\* The version an execution is linked to is the definition it ran, and a workflow has one
\* schedule for each of its trigger nodes.
RunsWhatItNames == desk = "workflows" => W!RunsWhatItNames /\ W!OneScheduleEach

\* A request changes its own record and no other.
UntouchedStand == [][desk = "registries" => G!ChangesOwnRecord]_vars

\* Every edge of the graph has its nodes, and what a completed run found is stored.
EdgesHaveNodes == desk = "graph" => K!EdgesHaveNodes

\* A verdict on a claim is backed by the evidence the claim names.
VerdictsAreBacked == desk = "claims" => V!VerdictsAreBacked

\* What is serious is flagged for human review whenever a war room is held.
SeriousInsightsReachReview == desk = "rooms" => O!SeriousInsightsReachReview

\* One workspace is active, and imports end with all of what they bring.
WorkspacesStand == [][desk = "store" => S!StoreKeepsOrder]_vars
=============================================================================
