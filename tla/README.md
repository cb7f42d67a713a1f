# TLA+ models of the decision system

This directory holds TLA+ modules translated from the Python code of the
repository, TLC configurations that check them on small instances, and proofs
checked by TLAPS. Paths such as `engine/executor.py` are relative to
`src/src/decision_system/workflow_engine/`, paths that begin with `connectors/`,
`data_sources/`, `security/` and so on to `src/src/decision_system/`.
`PROJECT.json` lists the components, the runs with the properties each one
checks, the lines of code behind every definition, the hazards found while
reading and the disagreements between the code and what is said about it.

Running: `tlc -config X.cfg M` in this directory checks a configuration,
`tlapm XProofs.tla` checks proofs. A configuration `M.cfg` or `M_name.cfg` belongs
to the module `M`, the run of a configuration is named in `PROJECT.json`.

## 1. The system

The program is a local server (FastAPI) with a web interface and a command line.
Files and connector imports become *evidence*; *workflows*, directed graphs of
nodes, read it, ask language models, wait for reviewers and produce reports.
Almost all state is JSON files below one data directory, rewritten as a whole by
whoever changes them, without locks. There are three kinds of concurrency:

* one asyncio event loop, in which workflow executions, the scheduler, the
  WebSocket streams and the `async def` routes are tasks that interleave at
  `await`;
* a thread per request for the `def` routes: connector imports and syncs,
  edits of schedules, resolving reviews, deleting executions. They interleave
  with the event loop and with each other at every file access;
* the process may die at any time; what was saved stays and what was in memory,
  queues and tasks included, is gone. Nothing is recovered at start.

### Inventory

| Component | State | Operations | Hard because | Correct when |
|---|---|---|---|---|
| DAG engine (`engine/executor.py`) | `ExecutionState`: status, per-node states, paused node; saved at every step | `execute`, `resume`, `_pause_for_review`, `_execute_node` | layers of concurrent tasks, retries that sleep, reviews that pause in the middle, workflows edited meanwhile, crashes | nothing runs below an unanswered gate; the end is final; it always comes to rest |
| Workflow graph (`engine/dag.py`) | none | `validate`, `_find_cycle`, `sort` | duplicate and dangling connections, cycles | layers are in order; the two functions agree about cycles |
| Event stream (`stream.py`) | one queue per watched execution | `emit_event`, connect, iterate, clean up | queues created and removed by tasks that know only the execution's id | a client gets what was emitted since it connected, and is let go |
| Review gate and routes (`nodes/specialist/review_gate.py`, `api.py`) | one file per review | ask, resolve, list; resume and delete executions | resolve runs in threads; reviews and executions are separate files | what waits is on record; a resolution stands |
| Scheduler (`scheduler/`) | one file per schedule; names of files seen | poll, fire, toggle, edit, delete, match expressions | rounds that take as long as the executions they start; requests in between; restarts | once a minute at most; every new file is told; requests are not undone |
| Workflow routes and stores (`api.py`, `stores/`) | workflows, versions with an index, trigger schedules, executions | create, update, delete, execute | three files per update, changed by several threads | an execution names the definition it ran; one schedule per trigger |
| Nodes (`nodes/`) | none | compute, call models | models that fail or answer half; inputs of other nodes | promised fields are set, failures told, verdicts follow findings |
| Connector imports (`connectors/import_jobs.py`, `batch_processor.py`) | job files, the shared processor, hashes and versions of imported items, rate limits | import, cancel, pause, resume | several threads with copies of one job; one batch size for all; checkpoints; crashes between hash and evidence | no item is left out; what counts as imported is stored; windows are kept |
| Connector sync (`connectors/sync_runner.py`, `sync_state.py`, `evidence_bridge.py`) | sync state per connector, data sources and chunks | list, compare, bridge, archive | dozens of file accesses, each of which may be the last; items that vanish and return; two syncs at a time | evidence follows the listing; one source per item; nothing outdated is found |
| Connectors and schedules (`connectors/config_store.py`, `schedule.py`) | configurations, an index, a file of schedules per connector | create, edit, toggle, delete, run what is due | one file read and rewritten by everyone; syncs in between | a connector is synced once per interval |
| Folder imports (`connectors/local_files.py`) | files of the workspace | dry run, import | names that collide once folders are dropped | no copy is overwritten |
| Data sources (`data_sources/`) | index, records, files, chunks, profiles, vectors | upload, parse, index, delete | a request is a dozen file accesses; parses and deletions of one source at a time | nothing outlives its record; indexed means all chunks are found; chunks keep the text |
| Knowledge graph (`graphing/`) | nodes, edges, risks, metrics, summary, runs | extract, upsert, count, reset | every fact is a load and a save | edges have their nodes, completed runs are stored, facts cite their texts |
| Claims and verification (`verification/`, `stores/claim_store.py`) | claims, an index | create, delete, verify, reverify | deletions during a verification; evidence whose source is gone | a verdict is backed by evidence the claim names |
| Insights (`insights/`), orchestration, context, war room | insights, ontology, sessions, runs, `latest.json` | detect, dispatch, discuss, judge | orchestrations write what a war room reads five times | nothing found is lost; what is serious reaches a reviewer |
| Decision pipeline (`rag/`, `llm/`, `ledger/`, `graph/`, `synthesis/`) | run files | chunk, retrieve, analyse, claim, verify, report | markers cut by chunks, models that cite what was not retrieved | the report says what the ledger says |
| Data catalog (`data_catalog/`, `ontology/mapper.py`) | tables by category, profiles | import, profile, map | files whose names make one slug, rows that do not fit their header | no table is overwritten unasked; what is blank or odd is found |
| Evaluations (`provider_eval/`, `war_room/evals.py`) | none | run a suite | probes that ask nothing, citations nobody gave | a case is passed for what was answered |
| Reports (`reports/`) | none | trust and execution reports, coverage, comparison, timeline | sections and limits that leave something out | what speaks against a claim is shown |
| Security, identity (`security/`, `identity/`) | one file each of users, memberships, settings, approvals, providers | ensure, create, change, read | a file is truncated when written, and read as empty then | a request changes its own record |
| Workspace store (`storage/`) | SQLite: workspaces, artifacts, the active one | create, activate, export, import, collect | a request is several commits; overwriting imports | one workspace is active; an import ends with all of what it brings |
| API, command line, web, observability, provider tools | none of interest | call the above | | |

How they interact: a route, a webhook or the scheduler calls `execute`; the
engine calls nodes, saves the state after each step and emits events; a review
gate writes a review and the engine pauses; a route resolves the review, another
resumes the execution; the event stream forwards what is emitted. An import or a
sync calls a connector type, the duplicate store or the sync state, and the
bridge, which writes data sources, chunks and the vector index; users upload and
delete data sources beside it. Claims cite chunks and are verified against them;
an orchestration reads data profiles and the graph and leaves insights, which a
war room discusses and a decision report takes up; artifacts of all of them are
collected into the workspace store and exported from it.

## 2. The modules

| Module | Models | Extends or uses |
|---|---|---|
| `WorkflowGraph` | the vocabulary of graphs: sources, acyclic, layered | |
| `TopologicalSort` | `TopologicalSort.sort`, one step per loop body | `WorkflowGraph` |
| `CycleSearch` | `DAGValidator._find_cycle`, its recursion as a stack | `WorkflowGraph` |
| `GraphChecks` | what `execute` and `resume` do with the two before they walk the layers | `TopologicalSort`, `CycleSearch` |
| `DAGEngine` | `DAGEngine` with the routes that change the stored workflow | `WorkflowGraph`; layers are a constant assumed to be `Layered`, which is what `TopologicalSort` establishes |
| `ReviewedRun` | the abstract promise: one run, paused by one gate at a time | implemented by `DAGEngine` |
| `MCDAGEngine` | all workflow definitions of a few nodes, as numbers | `DAGEngine` |
| `ReviewDesk` | reviews, and executions as far as reviews and files go | |
| `ExecutionStream` | queues, clients and what executions emit | |
| `Scheduler`, `MCScheduler` | polling loop, schedule files, requests, watched directories | |
| `BatchImport`, `MCBatchImport` | imports, resumes, pauses and cancels of jobs | |
| `ConnectorSync` | syncs of connectors and the bridge | |
| `DataSources` | uploads, parsing, indexing and deletion by users | `SourceDesk` |
| `ConnectorDesk` | connectors, their schedules, `run_due_schedules` | `Desks` |
| `WorkflowDesk` | workflows, versions, trigger schedules, links of executions | `Desks` |
| `Registry` | users, memberships, settings, approvals, providers | `Desks` |
| `KnowledgeGraph` | the files of the graph, extraction requests and runs | `Desks` |
| `ClaimDesk` | claims, their index and verification requests | `Verification`; `Desks` |
| `WarRoom` | orchestrations and war rooms over the files they share | `Orchestration`; `Desks` |
| `WorkspaceStore` | SQLite workspaces and artifacts, every commit | `Desks` |
| `SourceDesk` | the variables of all desks, and the desk of `DataSources` | |
| `Desks` | the desks above and `ReviewDesk`, one of them in a behaviour | extends `SourceDesk` |
| `Workspace`, `MCWorkspace` | the desks and the rules | extends `Desks`; `Rules` |
| `Parsing`, `Extraction`, `Catalog`, `Insights`, `Orchestration`, `ConnectorRules`, `Verification` | functions: parsers, fact extraction, tables with their profiles and concepts, detectors, dispatchers, folder imports with retries and versions, verdicts | applied by `Rules` (verdicts by `ClaimDesk`) |
| `Nodes`, `Decision`, `Reports` | functions: builtin and specialist nodes, the decision pipeline, reports and the evaluations of providers and war rooms | applied by `DecisionRules` |
| `Rules`, `DecisionRules` | one of these functions applied to one input; cron expressions, parsed and matched (`Rules`) | `Workspace` |
| `DAGEngineProofs`, `GraphChecksProofs`, `ExecutionStreamProofs`, `SchedulerProofs`, `BatchImportProofs`, `ConnectorSyncProofs`, `FileDesksProofs`, `DesksProofs` | theorems about the module of that name (`DAGEngineProofs` has the refinement of `ReviewedRun`, too) | TLAPS |

Definitions keep the names of the code where there is one. A definition whose
comment begins with "Mutant of", or says "a mutant", is no part of a model: it is
what a plausible mistake would make of the definition after it, and stands there
to show that a property would notice.

### DAGEngine

The unit of a step is what happens between two awaits. `Execute` and `Resume`
are the beginnings of the two methods, `Sort` their call of the sort, `Dispatch`
the gather over a layer, `NothingToDo` its `continue`, `Gathered`,
`PauseForReview` and `GatesChecked` the check of the gates behind it, `Finish`
the code after the loop. `Start`, `Succeed`, `FailRetry` and `Fail` are
`_execute_node` of one node up to its next await; `StartUnknown` is the KeyError
for a node the execution has no state of. `EditWorkflow` and `Crash` are what
happens around it. `status`, `node`, `attempts`, `asks` and `paused` are the
saved record, `wf`, `mode`, `pc`, `level`, `task` and `due` the frames of the
coroutines. `asks` are gates whose outputs say `pending_review`, which is never
cleared: that is why gates can ask again. `approved` is history: the gates a
resume let through and that were not asked again.

Workflow definitions are a constant function `Def` from versions to graphs with
gates, error policies and layers. The data that flows along connections is left
out, except that a gate may or may not find something to review (`Succeed`).

### ReviewedRun and the refinement

`ReviewedRun` says in sixty lines what the engine is for: nodes are attempted
only while the run is in progress or winding down after a failure, a reviewer is
asked about one gate at a time and about none twice, the end is final.
`ImplementsReviewedRun` maps the status, the paused node, the approved gates and
the attempts of `DAGEngine` to it. It holds where each gate has its layer to
itself (`LoneGateLayers`) and is checked and proved under that assumption;
section 3 says what happens in other layers.

### TopologicalSort, CycleSearch and GraphChecks

Every graph with up to three ids and four connections, dangling and duplicate
ones included, is an initial state. `TopologicalSort` takes a frontier as a
layer, counts its connections off one by one and goes on; its result satisfies
`Layered`, which is the assumption `DAGEngine` makes about its constant.
`CycleSearch` colours nodes and reads a cycle off the parent pointers. Both are
compared with `Acyclic`, a definition by sets. `GraphChecks` composes them as the
engine does: `execute` validates and sorts what validation let through, `resume`
sorts whatever is stored by then. The two share the graph and nothing else.

### Workspace

The stores of a workspace have a module each, a *desk*: its files, the requests
that change them and the crashes in between. `Workspace` composes them by INSTANCE, with
variables of its own where the desks keep the same kind of thing (`thread`, `requests`,
`crashes`, `file`, `mixed`, `used`). It is written in layers, for the proofs: `SourceDesk`
has the variables and one desk, `Desks` the other eight and the specification of them
(`Spec`), `Workspace` the rules, some of which are recursive. Modules the proofs reach take the
larger community modules with `LOCAL INSTANCE`, or not at all: every instance of a desk
would bring all their operators into each proof obligation. Every behaviour of
`WorkspaceSpec` is one of `Spec` in the variables of the desks. `DesksAssumption` tells the
placeholders from what is stored: `None` is no id, no name, no file, no record of a data source
and no row of a workspace. `desk` says which one a behaviour follows. No two
desks share a file, so nothing a desk does depends on the others, and following one at
a time leaves nothing out; where one component does write the files of another, it is a
part of that desk (the bridge of `ConnectorSync` writes data sources of its own).

At a desk a request is a program: the sequence of its file accesses, of which a thread
takes one at a time, between any two accesses of another thread, and of which a crash
leaves a beginning. `mixed` is history: the records that two overlapping requests
changed, for which less is promised.

* `ReviewDesk`: one record per review, one file per execution, and per thread the copy
  `resolve_review` holds between loading and saving. Which node runs is left to
  `DAGEngine`; an execution asks, pauses, is let through, rejected, deleted or broken
  off. `Resume` is the route and the beginning of the method in one step, because there
  is no await in between.
* `DataSources`: `files`, `rec`, `chunks`, `prof`, `meta` and `vec` are what the store
  keeps of a source and `listed` its index; a request reads the record, parses, writes,
  and writes the record back from the copy it read.
* `ConnectorDesk`: a configuration, its index entry and the file of schedules. A thread is at a
  step of an operation (`Doing`, `Configuring`): it looks for a configuration, syncs, finds the first
  schedule of the connector, loads the list and saves it. `due` has the schedules that
  `run_due_schedules` listed and has yet to serve; the clock ticks between any two steps; `ran` is
  history, the last sync `run_due_schedules` made of a schedule.
* `WorkflowDesk`: `stored`, `versions` with `index`, `schedules` and `executions`; an
  update saves the workflow, then the version and its index, then replaces the
  schedules of its trigger nodes.
* `Registry`: five registries with one way of working. The only desk where a file that
  is being written is seen truncated, because these files hold all records of their
  kind; a reader that finds one empty may write it back.
* `KnowledgeGraph`: an upsert is a load and a save of one of four files; `summary` and
  `runs` are written after them.
* `ClaimDesk`: creating, deleting and verifying claims while evidence comes and goes.
  Verdicts come from `Verification`, by what words claims and texts share.
* `WarRoom`: an orchestration writes ontology, insights, session and `latest.json`; a
  war room reads the insights for its context, for each role and for the judge. Writing
  truncates.
* `WorkspaceStore`: every statement with its commit is a step. `slug` is the id a name is
  turned into, so two names may clash; artifacts have ids of their own, whichever
  workspace they are in.

### Rules and DecisionRules

What keeps no state is a function, and its module holds nothing else. A behaviour of
`Rules` or `DecisionRules` picks one rule and one input, all small ones of the kind the
rule is called with, and applies it in one step; properties relate input and output.
Text is abstracted to what the rule tells apart: a document is paragraphs of units of
200 characters (`Parsing`), a text the facts the patterns find in it (`Extraction`) or its
set of words (`Verification`, `Nodes`), a table its cells, blank, number or text
(`Catalog`), or its columns that detectors read (`Insights`), a chunk a sequence of pieces of which two make a marker (`Decision`), a
model whether it is asked, fails or answers and which fields the answer has
(`Nodes`) or which texts its claims cite (`Reports`). A node that raises is a result with the field `raises`.

### ExecutionStream

A queue is an object: it is named after the client whose connection created it,
so that two clients may hold the same one and a client may hold one the table no
longer knows. `Take` and `Sent` are the two halves of an iteration, with the
socket's send in between; `Lost` leaves the loop, and `Close` is the event loop
closing the abandoned generator some time later. Executions are reduced to what
they emit, in the order the engine emits it. `shared` is history: the executions
that two clients watched at a time, for which less can be promised.

### Scheduler

The clock ticks only while the loop sleeps or an execution runs: everything else
happens within one turn of the event loop. `known`, `stored` and `dir` are the
names seen, the schedule files and the watched directories. A request, and the
loop after an execution, load a schedule in one action and save it in another.
Minutes are `Minute` ticks long; which of them an expression matches is a
constant. `news`, `absorbed`, `lastRun` and `lost` are history; `lost` are the schedules
whose file does not hold their last firing, because a restart ended the execution or
because a request wrote back what it had loaded before. The names seen are in memory
only: `Restart` forgets them and the changed files in hand, not the obligation to tell
what is new (`news`). The first scan of a process takes all it finds for known; what was
new by then is in `absorbed`. Files are names, because only names are compared. A schedule file that is read while it is written is not
modelled.

### BatchImport

A thread works on a copy of the job and saves it at the places the code does;
the file is the copy saved last. The batch size and the rate limit are shared by
all threads. `Import`, `List`, `Begin`, `SkipBatch`, `EnterBatch`, `FetchContent`,
`FetchFails`, `HoldOff`, `EndBatch`, `Finish` and `Bridge` follow
`run_import_v3` and `process_items`, `Resume` `resume_job`, `Read` and `WriteBack`
the two halves of a cancel or pause request. Fetching an item with its retries is
one step. A job resumed passes neither item ids nor duplicate store nor bridge
along, as the code does not. Items of `Nested` are named by a path with a folder, as local
files and those of GitHub may be: their version is to be saved in a folder nobody makes
(`VersionFails`), after their hash has been. `asked`, `tried` and `dropped` are history; `dropped`
is content that was in memory when the process died or its bridge failed.

### ConnectorSync

One action from one file access to the next: listing, the load and the save of
the sync state for each item, and in the bridge looking for a source, adding or
saving it, its chunks, their vectors, and archiving at the end. A content is a
number and stands for its hash. `faults` is history: the kinds of things that have
gone wrong so far (a listing, a fetch, anything up to the call of the bridge, an item or
its chunks in the bridge, a deletion of chunks, the index, archiving, the process) and
whether an item that was gone came back. What a sync has yet to do is a
set, `todo`, of which the item listed first is taken first, and one that vanished after
those that are listed. The steps that may fail, each in every run, are those the code
treats by itself: the listing and the fetches (`Gets`), all that may raise before the bridge
and ends the sync (`SyncFails`), an item in the bridge (`ItemFails`), the deletion of its old
chunks (`FindSource`), the save of the new ones (`SaveChunks`), the index (`IndexChunks`), the
loop that archives, which ends at the first failure with nothing but a line in the log
(`ArchiveFails`), and the process (`Crash`). Each property names the kinds it is not promised
after; TLC refutes each property with any one of its kinds taken away. Simplifications: a
file is written whole or not at all; a data
source's file and its index entry are one step; the chunks of different contents
have different ids; a content
that parses to nothing, sources deleted by users and the `last_run` of schedules
are left out.

## 3. What the runs show

Runs that pass:

| Run | Shows |
|---|---|
| `engine_single` | with at most one gate in a layer: gates block what depends on them, dependencies are settled, completion is complete, and the engine comes to rest |
| `engine_edits` | with each gate alone in its layer: the engine implements `ReviewedRun` and approvals are final, crashes included, and while the workflow is edited, made cyclic or deleted between pause and resume |
| `graph_checks` | on every small graph: validation finds a cycle exactly if there is one, the layers are right, sorting raises exactly for a cycle |
| `stream` | a client that is alone with an execution gets every event since it connected and is let go |
| `schedules` | a cron schedule fires once a minute at most, restarts and requests included, unless its file lost the last firing; new files are told to an execution, unless they go away, their schedule is disabled, or the first scan of a process takes them for known |
| `imports` | checkpoints are safe and complete jobs have left nothing out, whatever threads overwrite; what counts as imported is stored or about to be, short of restarts, failures of the bridge and nested items, and every request ends |
| `sync` | one source per item, with its own chunks, whatever fails and wherever the process dies; what was listed is in evidence, only what counts as deleted is archived, and all of it is, each short of the failures `SyncedIsHeld` and `ArchivedIsDeleted` name for it |
| `workspace` | the desks and the rules, by the properties below |

The properties of `workspace`:

| Property | Of | Says |
|---|---|---|
| `AwaitsItsOwnReview`, `ResolutionIsFinal` | `ReviewDesk` | an execution that waits names a review that is on record for it; what one reviewer decided, no later request changes |
| `NothingOutlivesItsRecord`, `IndexedIsWhole` | `DataSources` | files, chunks and profiles of a source go with its record; a source called indexed has all its chunks in the index |
| `ServedAtItsInterval` | `ConnectorDesk` | the first schedule of a connector runs once per interval, through edits, toggles and manual syncs |
| `RunsWhatItNames` | `WorkflowDesk` | the version an execution is linked to is what it ran; one schedule per trigger node |
| `UntouchedStand` | `Registry` | a request changes its own record and no other |
| `EdgesHaveNodes` | `KnowledgeGraph` | every edge has its nodes, and what a completed run found is stored |
| `VerdictsAreBacked` | `ClaimDesk` | a verdict is backed by the evidence the claim names |
| `SeriousInsightsReachReview` | `WarRoom` | what is serious is flagged for human review whenever roles discuss it |
| `WorkspacesStand` | `WorkspaceStore` | one workspace is active, and imports end with all of what they bring |
| `ChunksKeepTheText` | `Parsing` | all text of a document is in its chunks, in order; what was not read has a warning |
| `TextsAreCited` | `Extraction` | a text that states something is among its evidence |
| `FindingsAreWhole` | `Insights`, `Catalog`, `Orchestration` | nothing a detector reports is lost; what is blank or does not fit in a table is reported; tools come after those whose results they read |
| `ImportsAreCareful` | `ConnectorRules`, `Catalog` | no copy is overwritten, nor a table without force, cells stay below their headers, windows after rate-limit errors are kept, each change of an item has a version |
| `FailuresAreTold` | `Nodes`, `Decision` | nodes set what they promise and say when a model failed; a missing verdict is no pass |
| `VerdictsMatchFindings` | `Nodes` | what a specialist concludes by its rules goes by all it found, also what it does not list; where the critic is more lenient than its docstrings (below), the property leaves it open |
| `ReportsTellTheLedger` | `Decision`, `Nodes` | a report recommends and cites by what the claims and the evidence say |
| `ReportsHideNothing` | `Reports` | what speaks against a claim is in every trust report; exports called equal are equal; timelines are whole; no case about evidence is passed with invented citations, no failing provider passes but a probe |

Runs in which TLC finds a property violated; each property is what a comment, a
doc or a name in the repository says, quoted in the finding:

| Run | What happens |
|---|---|
| `engine_allgates` | two gates pause in a layer; answering one lets nodes below the other run |
| `desk_approve` | an approved review reads `changes_requested` |
| `schedule_lost_edit` | firing undoes a request that came in between |
| `cron` | `1-5` in the day-of-week field is Tuesday to Saturday |

### Where less holds than one might expect

The conditions in the properties are there because the code does not promise
more. Each of these is a behaviour of the models, unless it says that something always
or never happens, which was noticed while translating it:

* *Engine.* A gate beside others or beside a failing node: a pause overwrites the
  failure; a gate that was let through asks again when its layer is executed
  again.
* *Graphs.* `resume` sorts without validating: the error it may meet is the one
  of the sort, and connections to nodes that are gone are passed over.
* *Stream.* Two clients of one execution share a queue and each gets a part. A
  pause emits `workflow_completed`, which ends the stream of an execution that will
  go on, and a resumed execution emits no terminal event at all.
* *Reviews.* Two requests that resolve a review both find it pending, and the
  second replaces the first. A resume does not look at the review: it passes a
  gate whose review is pending or rejected. The list of pending reviews holds the
  resolved ones too.
* *Scheduler.* A schedule disabled or deleted during a round still fires in it. A
  minute that matches may pass without a poll. A file that is modified is not
  noticed. A file that is new and not yet told when the process restarts is never
  reported: the first scan takes it for known.
* *Imports.* A pause or cancel that the importing thread overwrites is forgotten.
  The batch size is one for all imports and the default again after a restart, and
  a checkpoint taken with another size makes an import leave items out. A resumed
  job takes all the items of the connector. What was fetched when the process died
  counts as imported and never reaches the evidence.
* *Sync.* An item is marked as seen before it is imported: after a crash or a
  failed save it counts as unchanged. An item that vanished is marked as deleted before
  its source is archived, and marked once: when archiving fails, which is only logged, when an
  exception ends the sync in between or the process dies, that source, and those after it,
  stay as evidence and no later sync archives them. An item that comes back unchanged stays
  archived. Vectors of an older content stay in the index. With two connectors a
  deletion at one may archive a source of the other, and two syncs of one connector
  may create two sources for an item.
* *Data sources.* A parse that overlaps with a deletion writes the source back. Vectors
  of a deleted source stay. Two uploads may lose one entry of the index. A chunk's id is
  its place in its piece and the beginning of its text: paragraphs that begin alike may
  overwrite each other's chunks. The parse route never runs the recognition of scans its
  warning announces. An empty JSON object or list is read as nothing, without a warning.
* *Connectors.* Only the first schedule of a connector is brought up to date, so a second
  one, and that of a connector that is deleted or fails, is due at every round. A schedule
  of kind cron is never compared with its expression.
* *Workflows.* Two updates at a time write one version number, or two schedules for a
  trigger. After a crash between a workflow and its version the numbers stay apart and
  executions are linked to the version before. Deleting a workflow leaves its versions
  and schedules. `execute_workflow` saves the state once more after `execute` returns,
  which brings back an execution deleted in between.
* *Registries.* Two changes at a time lose one. In demo mode a mere read that meets a file
  being written replaces all users by the default one. The registry is also empty
  after a crash while it was written.
* *Knowledge graph.* Two extractions at a time lose facts, and a run that lost some is on
  record as completed. Extracting again replaces the evidence of a node. Ids are cut at
  64 characters, so edges of one long name are one edge. Risks, metrics and general
  names found in several texts cite the first.
* *Claims.* A claim deleted while it is verified comes back. Verifying again keeps old
  evidence when none is found. Claims and verification read different directories unless
  the settings make them one (`apart`). The scan for contradictions in a workspace
  searches for nothing and finds nothing.
* *War room.* A run flags what the insights file holds when the judge reads it: an
  orchestration that saves in between takes away what a role had cited. A question of no
  kind dispatches no role, and its serious insights go unreviewed. After a crash within
  a write every run fails, or `latest` does. A later, milder insight replaces a graver one
  of the same key.
* *Workspace store.* A new workspace is committed as active before the one before is
  deactivated. A forced import deletes row by row before it creates: an id that belongs to
  another workspace, or a crash, leaves it without artifacts, and no workspace is active
  after it. Names that make the same slug clash. Two forced imports of one name that overlap may
  mix what their two bundles hold.
* *Folder imports.* What is imported loses its folder: a job names the intended target even
  where the copy got a number behind its name. Two imports at a time may take one name.
* *Tables.* Of two files whose names make one slug the second is skipped, or with `--force`
  replaces the first, and both are recorded as imported, as they are by a dry run. A row of
  a workbook with cells left out moves to the left; of repeated headers the last counts;
  rows beyond the limit are cut without a word. One row too short makes the whole profile
  fail, which is reported as one warning. Profiles are known by file name alone: equal names
  in two categories replace each other. The comment on the column rules says the first match
  wins, the lookup keeps the last rule of a name; a blank name matches the first rule.
* *Evaluations.* The probes of malformed JSON, refusal and timeout ask no provider and are
  passed by every known one. Memos and numbers of claims are passed with invented citations.
* *Nodes.* Retrieval imports a function that does not exist and always returns nothing;
  that hides that `RiskAnalystNode` without a model raises as soon as there is evidence.
  Verified claims are a pair of lists to the report, which therefore never recommends to
  proceed on them. `MergeNode` sets neither field it promises by default, `DetectPatterns`
  always raises. The code runner does not tell that its model failed. The critic finds
  texts in conflict only when one that rises comes before one that falls (`critic.py:65-83`), so
  it passes a fall before a rise; and only a text that is not blank is evidence to it, so that
  a claim backed by records alone, or by records and blanks, is held back as unsupported
  (`critic.py:92`). Its docstrings speak of contradictory pairs and of missing or empty evidence.
* *Pipeline and reports.* A marker that a cut between two chunks takes apart is missed if
  chunks overlap by less than the marker. The command line saves a run without the
  context its report is given. `latest` is the last by file name, which is a random id. A
  trust report leaves pending claims out, and a report with doubted claims can be of high
  confidence. A torn line of the audit log hides all events after it. A comparison of
  workspaces reports insights both have as changed, so that no workspace with insights
  equals itself.

### Bounds

Every counter that would grow without end is capped by a constant named `Max...`
in its module. Why the values are enough:

* *Workflows.* Three nodes have every shape that matters to layers: a chain, a
  fork, a join, siblings of a gate. All connections, gates and error policies are
  enumerated. Four nodes are needed where something happens two layers below a
  gate with another gate beside it (`engine_allgates`). Two resumes let a gate ask
  again; two attempts are one retry.
* *Graphs.* Three ids and four connections have cycles of every length up to
  three, duplicates, self-loops and dangling connections.
* *Jobs.* Three requests on two threads: two imports, which meet in the duplicate store,
  and one that cancels, pauses or resumes, or one import that is paused and resumed from
  its checkpoint. Threads and jobs are interchangeable, and an action constraint says which
  come first (`FirstRequest`). Of two items one is nested. Batches are of one item: partial
  batches, and any number of items, are covered by the proofs, which hold for every `N`
  and size.
* *Syncs.* Two items and two contents with three syncs: one imports, one sees a
  change, one sees what came of it. Two kinds of faults may come together and as
  often as there is an occasion, at any of the accesses.
* *Streams.* Two clients, one after the other or at a time, of which the second
  may have the queue that a late clean-up of the first removes; an execution that
  pauses and is resumed.
* *Schedules.* Minutes of three ticks and a poll of two give a minute with two
  polls and one without; five ticks reach into the second minute. One request and
  one restart come at any time. When the clock has come to its bound the loop goes
  on polling.
* *Desks.* Two threads and three requests: two that overlap and one that sees what
  came of it, with a crash between any two accesses. The graph and the store have two
  requests, because theirs are the longest programs, and the registries, which start with
  one record or with both. Two records of each kind, so that there is another one to leave alone; one connector and one workflow, whose schedules
  and triggers are two. Files are written at once except at the registries and in the
  war room, where what a reader makes of half a file is the subject. Threads,
  executions and reviews are symmetric: no desk compares or orders them, and no property of the run is a liveness property.
* *Rules.* Inputs are all of a kind up to a size at which its cases meet: documents of
  two pieces of two paragraphs, a paragraph above the limit included; pairs of texts
  that repeat, contradict or cut off each other's names; pairs of rows on either side
  of each threshold; two folders of two files; three items fetched under one window; five
  contents of an item; pairs of tables of three rows, by limits of one and three; two
  providers and two cases; texts of four pieces, the marker having two; graphs below, at and
  above the limits of a report (9, 11 and 22 items); logs of three lines.

Deadlock is not checked: all of these systems come to rest when the requests the
bounds allow are used up, and real ones when nobody asks for anything. That they
do not get stuck before is what the liveness properties say.

### Fairness

* `DAGEngine`: weak fairness of the walk and of each node's task. The event loop
  runs every ready callback, and nodes are assumed to return or raise (no node
  has a timeout of its own: one that hangs hangs its execution). Resuming,
  editing and crashing are not fair.
* `ExecutionStream`: the same for an execution's steps and for each connection;
  nobody has to start, resume or watch anything.
* `Scheduler`: the loop goes on and the clock ticks; executions end. No request
  has to come.
* `BatchImport`: each thread is scheduled; requests, the end of a rate-limit
  window and crashes are not fair, and requests end without them.
* `GraphChecks`: a sequential program goes on.

`ConnectorSync` and the desks state safety only: a request that no one interrupts is a
finite program, and none of them waits for another.

## 4. What is proved

The theorems hold for every value of the constants, under the assumptions named
in the modules and the condition each theorem states.

`DAGEngineProofs`. `TypeCorrect` for any workflows. For workflows with at most one
gate in a layer (`SingleGateLayers`, a hypothesis stated beside the proofs),
`SingleGateInv` is inductive: tasks belong to
the layer at hand (`TasksInLayer`), the paused gate is the only one that waits
(`OneGateWaits`), a gate that asked waits, is about to, or belongs to a run that is
over (`UnansweredGates`), and what lies behind has ended (`LayersBehind`). None of
the four is inductive alone: that nothing runs below a waiting gate needs that its
descendants are in later layers (`DescendantsLater`, by induction-free reasoning
about the least closed set) and that later layers have not been reached. From it
follow `GateBlocksDescendants`, `PauseNamesTheGate`, `DependenciesSettled` and
`CompletedMeansSettled`. With each gate alone in its layer (`LoneGateLayers`),
`LoneGateInv` is inductive, and `FailureIsFinal`, `ApprovalIsFinal` and the
refinement follow: each action of `DAGEngine` is one of `ReviewedRun` or changes
nothing it sees.

`GraphChecksProofs`. `SortInv` is inductive on every graph, finite since the
ids and connections are: in-degrees count the connections not yet counted off,
the layers so far are in order, and no set of nodes that feed each other has a
node in a layer. When the sort ends this gives `LayersAreRight` and
`RaisesIffCyclic`; `OncePerFrontier` is an action property from the same invariant.
For the search, `SearchInv` says that the grey nodes are the path on the stack, that a
black node leads to black nodes only and that parent pointers are connections and lead back
along the path; a set of nodes that feed each other would have to lie outside the black ones,
and a path back that does not end would have to be as long as there are nodes. So
`FindsIffCyclic`: a cycle is returned exactly if there is one, and it is one. The two
invariants hold of `GraphChecks`, which runs search and sort one after the other, and give
what neither says alone: the sort does not raise in an execution that was validated
(`ExecuteIsNeverRaisedFor`).

`BatchImportProofs`. With one batch size and whole listings (`OneSize`), for any
number of threads, jobs, items, requests and restarts, `ImportInv` is inductive.
It strengthens `CheckpointsAreSound`, the statement that every copy of a job could
be resumed from: a thread takes the items of a batch in order and never counts
past the last it took. `NothingLeftOut` follows. Each part of the condition is
needed, as section 3 says. `RecordedIsAccountedFor`, the safety of `RecordedReachesEvidence`,
needs no such condition: content the duplicate store knows is evidence, or a request has it in
hand that has not yet passed it on (`AccountInv`; what a request has collected is nothing until
it fetches), or it is on record as lost to a restart, the bridge or a version record. It says
where to look for content that was recorded and never arrived; that a request that lives goes
on to the bridge is the fairness TLC assumes.

`ConnectorSyncProofs`. For any connectors, items, contents and faults, while one runner
syncs at a time (`OneRunner`; nothing in the code sees to it, and section 3 says what two do to
each other). `OneInv`: a runner that found no source for an item is the only one who may add
it, hence `OneSource`, and a source has the chunks of its own content or is the one being
saved, hence `ChunksAreCurrent`. `SyncInv` follows each item from the listing to the save of
its state: what the state calls seen is held, is still to be bridged in this sync, or a fault
of a named kind has happened, hence `SyncedIsHeld`. `ArchivedIsDeleted` rests on two invariants,
because its two directions survive different failures. `GoneInv`: what is archived is marked as
deleted, at every step and through every failure but that of a listing and the return of an item. `ArchInv`: what is marked as deleted is archived or is what this sync has yet to
archive, unless archiving failed or a sync ended before it. Both with one connector only
(`OneConnector`): archiving looks a source up by the id of the item without asking whose it is. Loops take the least number of
a set; that there is one comes from well-foundedness on finite sets (`Least`), in place of an
induction.

The same module has three rules of imports (`ConnectorRules`), which TLC runs over folders,
batches and histories of a few entries. A fold over all entries is an induction the provers
cannot do; its step they can, as an invariant of what the fold carries along, for entries and
states of any size. `CopiesAreNeverOverwritten`: one more file leaves every earlier copy as it is
and takes the first free name. That there is one, and so that the loop of `_copy_safe` ends, is the
pigeonhole principle: no two attempts give the same name, and there is one more of them than
copies. `WindowsAreKeptByEveryItem`: the window the limiter holds tells, of every time
from now on, which errors of the batch still hold items off (`BatchInv`); so closing a window
that is over and replacing it lose nothing. `EveryChangeIsAVersion`: `VersionsInv` ties duplicate
store, versions and bridge to each other, one version being current. What is left to TLC is that
folding a step that keeps an invariant keeps it.

`ExecutionStreamProofs`. `YieldsEvents` for any clients and executions. `StreamInv`: a queue
belongs to the execution it was made for, and as long as no two clients have watched an
execution at a time, its one watcher made the queue it reads, which holds just the events it has
not taken. The exception for shared executions is the property's own.

`FileDesksProofs` (data sources and connectors), `DesksProofs` (the other desks). What the desks promise, of `Spec`, in which a behaviour
follows one desk: each invariant is proved of its desk and lifted by `desk = "..." => ...`,
since no step changes `desk`. The hard part is the same everywhere: a thread acts on
what it read some accesses ago, so the invariant has to say what is still true of it.

* *Reviews* (`AwaitsItsOwnReview`, `ResolutionIsFinal`). `LoadedIsCurrent`: the copy a thread
  holds is the review as it is, unless two threads were let in, which is on record
  (`OverlapsAreKnown`).
* *Registries* (`UntouchedStand`). `WritersMayWrite`, `WritersAreKnown`, `TornIsWritten`: a
  file that is truncated has a writer, and one who reads it then is on record. `CopyHoldsOthers`:
  what a writer will write has all other records as they are.
* *Data sources* (`NothingOutlivesItsRecord`, `IndexedIsWhole`). `SourcesInv`: what a thread has
  yet to do is the end of one of the request's programs, no two threads work on a source that is
  not on record as mixed, and what is on file goes with how far its one thread has come.
* *Connectors* (`ServedAtItsInterval`, an action property). A connector that is not on record as
  mixed has one thread at work (`WorkAlone`), one that lists what is due being at work on all. Its file
  has each schedule once, with the time it is due (`Orderly`), and says of each when it was last
  synced, unless the thread that synced it is about to write that (`FileTells`). So what is listed as
  due has waited for its interval (`DueIsDue`), and still has when its turn comes: nothing but
  serving it moves `ran`, a schedule is listed once, and saves of other schedules of the
  connector leave its interval as it is (`DueAt`, `ServingFits`, `SavingFits`). That the listing
  counts as work on every connector is what makes the statement inductive: an edit between the
  listing and the sync may lengthen the interval of a schedule that is then served too early.
* *Workflows* (`RunsWhatItNames`). A request nobody disturbs finds each file as it left it
  (`FilesAreAsLeft`); version numbers never exceed the number of requests, and a new one is none
  that an execution is linked to (`NumbersAreRequests`, `VersionsAreTold`, `LinksStand`); the
  schedules on file, with those to be saved and without those to be deleted, are those of the
  definition, one for each trigger (`SchedulesAreOwn`, `NodesHaveOne`, `RestIsToDo`, `SchedulesAreAll`).
* *Workspace store* (`WorkspacesStand`). While nothing is cut off, one workspace is active and those
  just created that are about to be activated (`OneOrCreated`); activating makes it one, since ids are
  of one row (`IdsDiffer`). Artifacts refer to rows that are there (`ArtifactsHaveRows`), so the id of a
  row just created has none (`NothingIsThere`), and a collection has every file but those it is yet to
  add (`FilesAreComing`), unless another command disturbed it, which is on record
  (`DisturbancesAreKnown`). The proof showed that the exception had to be wider than the two requests
  of the run could tell: two imports that overlap disturb each other, too.
* *Knowledge graph* (`EdgesHaveNodes`). While no two extractions overlap, one thread is busy
  (`Alone`), what it has loaded is what the file says, and what it found is stored but for what it
  has yet to store (`InStep`). An edge is written when no fact of a lower rank is left, so its nodes
  are there; that what is found has the ends of its edges (`FindsEnds`) is a fold over texts, which
  TLC computes for the texts of the model as `ExtractionAssumption`.
* *Claims* (`VerdictsAreBacked`). A verdict in the memory of a thread, between judging and saving,
  is fair: the texts it names for a claim support it and none of them contradicts it, those
  against it do (`Fair`). What it names is what it was judged by, because texts have ids
  of their own whichever search finds them (`TextsHaveIds`).
* *War rooms* (`SeriousInsightsReachReview`). Each role that has spoken cites all that is relevant, and
  what the room saw to be serious is among that and still on file (`Attends`), unless insights were written
  since the room began, which every write leaves on record with it (`Warned`).

`SchedulerProofs`. For any schedules, expressions, polling interval, requests and restarts:
a firing that no restart or request took away is told of by the file and by what the round has
read of it (`FilesTell`, `RoundTells`), but while the execution is under way; and a schedule found
due fires before time has passed (`FiresWhenDue`). Hence `OncePerMinute`, by arithmetic
(`Windows`). That the round's snapshot needs a conjunct of its own is the point: it may be minutes
old. `NewsIsInSight` is the safety of `NewFilesAreTold`: a file nobody was told of is one the next scan
finds, is in hand, or was absorbed by the first scan of a process. The proof showed one thing the model had to say: a round comes to
no schedule twice, since a directory lists each file once.

`PauseNamesTheGate`, `FailureIsFinal`, `OncePerFrontier`, `ExecuteIsNotRaisedFor`,
`NewsIsInSight` and `RecordedIsAccountedFor` are proved
and not listed with a run; TLC checked them, and the inductive invariants on small instances,
while they were found.

Only model-checked:

* all liveness: fairness and ENABLED are beyond the prover;
* the rules of `Workspace`: their inputs are bounded, many are folds over sequences or recursive, and
  what those compute for every input is beyond the prover. Of the three named above the steps are
  proved.

## 5. What is not modelled, and the plan

`PROJECT.json` has a component for every part, with what is left out of it. Left out
altogether:

* Command lines: they parse arguments and print. What they change is changed by the
  functions the routes call, which are modelled; where the two differ (`ask --save-run`,
  the commands of workspaces) the difference is in `Decision` and `WorkspaceStore`.
* Language models and remote services: HTTP calls. Their answers and failures are inputs.
* Which patterns match a text, wording, HTML and prompts: no property is about them.
* Permissions, policies, redaction, scans and observability: tables, functions of text,
  and counters no decision depends on.
* The resolving of citations, which calls methods that do not exist; the evaluation of
  answers by keywords (`evals/`) and the experiments with providers, one pass over one input.
* `run_import_v2`, which the route for a single import calls: it goes straight from the
  connector to the bridge, without hashes, batches and sync state, and saves its job at
  the end, so that a crash leaves nothing but what the bridge has written.
* Webhook triggers, which fire from a route and keep nothing; a schedule file that is read
  while it is written.
* The web interface. Its editor keeps a workflow in one component. Noticed while
  reading it: a new workflow is executed with the id the closure still holds, none; the
  mark of unsaved changes never goes once there is an id; saving after an import into an
  open workflow overwrites that one.

Next theorems: steps of the other rules that are folds, as for imports, first that a text which
joins the knowledge keeps what was cited before (`TextsAreCited`) and that an insight that is added
twice is there once (`FindingsAreWhole`). Without a restriction to one batch size
`CheckpointsAreSound` is false, and so is `OneSource` with two runners; no theorem is
missing there but a change of the code.

Next modules, if one of the four limits of the desks is to go: the bridge writing the data
sources users delete (`ConnectorSync` with `DataSources`); the executions of `WorkflowDesk`
and the pauses of `ReviewDesk` with those of `DAGEngine`; files of the claims read while
they are written; `run_import_v2` beside `run_import_v3` at the duplicate store.
