----------------------------- MODULE SourceDesk -----------------------------
(***************************************************************************)
(* The state of the stores of a workspace, desk by desk, and DataSources as  *)
(* the first of the desks.                                                   *)
(*                                                                         *)
(* A behaviour follows one of the desks, or none.  Variables that have one   *)
(* name at several desks are the same kind of thing there, and those a desk  *)
(* does not have are None.                                                   *)
(***************************************************************************)
EXTENDS Naturals, FiniteSets, TLC

CONSTANTS
    Thread,                               \* threads that serve requests
    None,
    Exec, Review, MaxResumes,             \* ReviewDesk
    Source, Doc,                          \* DataSources
    Connector, Every, MaxTime, MaxSchedules,  \* ConnectorDesk
    Workflow, Trigger,                    \* WorkflowDesk
    Id, Default,                          \* Registry
    Claim,                                \* ClaimDesk
    Name, File, Exported,                 \* WorkspaceStore
    MaxRequests, MaxCrashes               \* bounds

ASSUME DesksAssumption ==
    /\ None \notin Exec \cup Review \cup Source \cup Connector \cup Workflow \cup Claim
    /\ Doc \subseteq [kind : {"text", "csv", "xlsx"}, ok : BOOLEAN, n : Nat]
    /\ None \notin [status : {"uploaded", "parsing", "parsed", "failed", "indexed"}, doc : Doc]
    /\ Every \subseteq Nat /\ Default \in Id
    /\ Exported \subseteq File
    /\ None \notin Name \cup File \cup [id : Name, active : BOOLEAN]
    /\ {MaxResumes, MaxTime, MaxSchedules, MaxRequests, MaxCrashes} \subseteq Nat

VARIABLES
    desk,
    thread, requests, crashes, mixed, used, made, file, listed, torn,
    walk, fresh, outs, review, pauses, resumes,
    files, rec, chunks, prof, meta, vec, doomed,
    config, now, ran,
    stored, versions, index, schedules, executions,
    demo,
    summary, runs,
    apart, filed, vectors,
    slug, artifacts, bundles

shared == <<thread, requests, crashes, mixed, used, made, file, listed, torn>>
ofReviews == <<walk, fresh, outs, review, pauses, resumes>>
ofSources == <<files, rec, chunks, prof, meta, vec, doomed>>
ofConnectors == <<config, now, ran>>
ofWorkflows == <<stored, versions, index, schedules, executions>>
ofRegistries == <<demo>>
ofGraph == <<summary, runs>>
ofClaims == <<apart, filed, vectors>>
ofStore == <<slug, artifacts, bundles>>
vars == <<desk, shared, ofReviews, ofSources, ofConnectors, ofWorkflows, ofRegistries,
          ofGraph, ofClaims, ofStore>>

-----------------------------------------------------------------------------
(* What a desk does not have.                                               *)

NoReviews == /\ walk = None /\ fresh = None /\ outs = None /\ review = None
             /\ pauses = None /\ resumes = None
NoSources == /\ files = None /\ rec = None /\ chunks = None /\ prof = None
             /\ meta = None /\ vec = None /\ doomed = None
NoConnectors == config = None /\ now = None /\ ran = None
NoWorkflows == /\ stored = None /\ versions = None /\ index = None
               /\ schedules = None /\ executions = None
NoRegistries == demo = None
NoGraph == summary = None /\ runs = None
NoClaims == apart = None /\ filed = None /\ vectors = None
NoStore == slug = None /\ artifacts = None /\ bundles = None
NoRequests == requests = None /\ crashes = None

-----------------------------------------------------------------------------
(* The desk of data sources.                                                *)

D == INSTANCE DataSources

InitSources ==
    /\ desk = "sources" /\ D!Init
    /\ NoReviews /\ NoConnectors /\ NoWorkflows /\ NoRegistries /\ NoGraph
    /\ NoClaims /\ NoStore
    /\ made = None /\ file = None /\ torn = None

NextSources ==
    /\ desk = "sources" /\ D!Next
    /\ UNCHANGED <<ofReviews, ofConnectors, ofWorkflows, ofRegistries, ofGraph, ofClaims, ofStore>>
    /\ UNCHANGED <<desk, made, file, torn>>

\* Nothing of a data source outlives its record.
NothingOutlivesItsRecord == desk = "sources" => D!NothingOutlivesItsRecord

\* A data source that is called indexed is so as a whole.
IndexedIsWhole == desk = "sources" => D!IndexedIsWhole
=============================================================================
