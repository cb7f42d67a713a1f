--------------------------- MODULE WorkspaceStore ---------------------------
(***************************************************************************)
(* The SQLite store of workspaces and their artifacts (storage/), and the   *)
(* commands and routes that change it (cli_workspaces.py,                    *)
(* api/routes_workspaces.py).                                                *)
(*                                                                         *)
(* A statement and its commit are one step.  A command goes from step to     *)
(* step, each on what the ones before it read; what violates a constraint of *)
(* a table ends the command with an error, after the steps it has committed.  *)
(***************************************************************************)
EXTENDS Naturals, Functions

CONSTANTS
    Name,       \* names of workspaces
    File,       \* generated files, each imported as an artifact with an id of its own
    Exported,   \* those of a type that exports hold
    Thread, None,
    MaxRequests, MaxCrashes   \* bounds

VARIABLES
    slug,       \* the id made of each name
    stored,     \* rows of workspaces, by name: an id, and whether it is active
    artifacts,  \* rows of artifacts, by id: the workspace's id
    bundles,    \* exported files, by name: an id and artifacts
    thread, requests, crashes,
    mixed       \* history: whether an import overlapped with another, or with a
                \* collection of artifacts

vars == <<slug, stored, artifacts, bundles, thread, requests, crashes, mixed>>

Idle == [at |-> "-", op |-> "-", name |-> None, id |-> None, read |-> {}, bundle |-> None]

Rows == {n \in Name : stored[n] # None}
WithId(id) == {n \in Rows : stored[n].id = id}
Active == {n \in Rows : stored[n].active}
Of(id) == {f \in File : artifacts[f] = id}

At(t, step) == thread[t].at = step
Goes(t, th) == thread' = [thread EXCEPT ![t] = th]
Ends(t) == Goes(t, Idle)

-----------------------------------------------------------------------------
(* Commands                                                                 *)

\* Where a command begins.
First(op) ==
    CASE op \in {"init", "add", "post", "use"} -> "name"
      [] op \in {"export", "collect"} -> "active"
      [] op \in {"import", "force"} -> "open"

\* Two commands of which one imports a workspace and the other does so, too, or adds artifacts.
Disturb(op, other) ==
    /\ {op, other} \subseteq {"import", "force", "collect"} /\ {op, other} # {"collect"}

\* init-workspace and POST /workspaces, with and without activation; use-workspace and
\* POST /workspaces/{name}/activate; import-workspace, with and without --force;
\* export-workspace and import-artifacts, which go by the active workspace.
Begin(t, op, n) ==
    /\ thread[t] = Idle /\ requests < MaxRequests
    /\ requests' = requests + 1
    /\ Goes(t, [Idle EXCEPT !.at = First(op), !.op = op, !.name = n])
    /\ mixed' = (mixed \/ \E u \in Thread : Disturb(op, thread[u].op))
    /\ UNCHANGED <<slug, stored, artifacts, bundles, crashes>>
Command(t) ==
    \/ \E op \in {"init", "add", "post", "use", "import", "force"}, n \in Name : Begin(t, op, n)
    \/ \E op \in {"export", "collect"} : Begin(t, op, None)

Reads == UNCHANGED <<slug, stored, artifacts, bundles, requests, crashes, mixed>>

\* get_by_name.  One that exists is activated, if at all; one that does not is not used.
\* The route looks for the name again before it creates it.
FindName(t) ==
    LET th == thread[t]  n == th.name IN
    /\ At(t, "name")
    /\ CASE n \in Rows /\ th.op # "add" ->
               Goes(t, [th EXCEPT !.at = "activate", !.id = stored[n].id])
         [] n \notin Rows /\ th.op # "use" ->
               Goes(t, [th EXCEPT !.at = IF th.op = "post" THEN "again" ELSE "create", !.id = slug[n]])
         [] OTHER -> Ends(t)
    /\ Reads

\* ensure_exists.
FindAgain(t) ==
    LET th == thread[t] IN
    /\ At(t, "again")
    /\ Goes(t, [th EXCEPT !.at = IF th.name \in Rows THEN "activate" ELSE "create"])
    /\ Reads

\* Names and ids are unique.  What is imported is not active.
CreateRow(t) ==
    LET th == thread[t] IN
    /\ At(t, "create")
    /\ IF th.name \in Rows \/ WithId(th.id) # {} THEN Ends(t) /\ UNCHANGED stored
       ELSE /\ stored' = [stored EXCEPT ![th.name] =
                   [id |-> th.id, active |-> th.op \in {"init", "post"}]]
            /\ CASE th.op = "add" -> Ends(t)
                 [] th.op \in {"init", "post"} -> Goes(t, [th EXCEPT !.at = "activate"])
                 [] OTHER -> Goes(t, [th EXCEPT !.at = "fill"])
    /\ UNCHANGED <<slug, artifacts, bundles, requests, crashes, mixed>>

\* Mutant of SetActive: the others stay as they are.
SetActiveToo(id) ==
    [n \in Name |-> IF n \in WithId(id) THEN [id |-> id, active |-> TRUE] ELSE stored[n]]

\* set_active: all but one are not.
SetActive(id) ==
    [n \in Name |-> IF n \in Rows THEN [stored[n] EXCEPT !.active = (n \in WithId(id))] ELSE None]
Activate(t) ==
    /\ At(t, "activate")
    /\ stored' = SetActive(thread[t].id)
    /\ Ends(t)
    /\ UNCHANGED <<slug, artifacts, bundles, requests, crashes, mixed>>

\* get_active: any of those that are.
FindActive(t) ==
    LET th == thread[t] IN
    /\ At(t, "active")
    /\ IF Active = {} THEN Ends(t)
       ELSE \E n \in Active :
               Goes(t, [th EXCEPT !.at = IF th.op = "export" THEN "row" ELSE "known", !.id = stored[n].id])
    /\ Reads

-----------------------------------------------------------------------------
(* Exports and imports                                                      *)

FindRow(t) ==
    LET th == thread[t] IN
    /\ At(t, "row")
    /\ IF WithId(th.id) = {} THEN Ends(t)
       ELSE \E n \in WithId(th.id) : Goes(t, [th EXCEPT !.at = "write", !.name = n])
    /\ Reads

\* The artifacts of some types are not exported.
Export(t) ==
    LET th == thread[t] IN
    /\ At(t, "write")
    /\ bundles' = [bundles EXCEPT ![th.name] = [id |-> th.id, artifacts |-> Of(th.id) \cap Exported]]
    /\ Ends(t)
    /\ UNCHANGED <<slug, stored, artifacts, requests, crashes, mixed>>

OpenBundle(t) ==
    LET th == thread[t]  b == bundles[th.name] IN
    /\ At(t, "open")
    /\ IF b = None THEN Ends(t) ELSE Goes(t, [th EXCEPT !.at = "clash", !.bundle = b, !.id = b.id])
    /\ Reads

\* A workspace of that name is in the way, unless it is to be overwritten: its artifacts
\* are listed, and deleted one by one, and then its row.
FindClash(t) ==
    LET th == thread[t]  n == th.name IN
    /\ At(t, "clash")
    /\ CASE n \notin Rows -> Goes(t, [th EXCEPT !.at = "create"])
         [] n \in Rows /\ th.op = "import" -> Ends(t)
         [] OTHER -> Goes(t, [th EXCEPT !.at = "drop", !.read = Of(stored[n].id)])
    /\ Reads

DropArtifact(t) ==
    LET th == thread[t] IN
    /\ At(t, "drop")
    /\ IF th.read = {} THEN Goes(t, [th EXCEPT !.at = "remove"]) /\ UNCHANGED artifacts
       ELSE \E f \in th.read :
               /\ artifacts' = [artifacts EXCEPT ![f] = None]
               /\ Goes(t, [th EXCEPT !.read = @ \ {f}])
    /\ UNCHANGED <<slug, stored, bundles, requests, crashes, mixed>>

\* A row that artifacts refer to is not deleted.
RemoveRow(t) ==
    LET th == thread[t] IN
    /\ At(t, "remove")
    /\ IF WithId(th.id) # {} /\ Of(th.id) # {} THEN Ends(t) /\ UNCHANGED stored
       ELSE /\ stored' = [n \in Name |-> IF n \in WithId(th.id) THEN None ELSE stored[n]]
            /\ Goes(t, [th EXCEPT !.at = "create"])
    /\ UNCHANGED <<slug, artifacts, bundles, requests, crashes, mixed>>

\* add_many: all of them, or none if one has the id of another.
FillRow(t) ==
    LET th == thread[t] IN
    /\ At(t, "fill")
    /\ artifacts' = IF WithId(th.id) # {} /\ \A f \in th.bundle.artifacts : artifacts[f] = None
                    THEN [f \in File |-> IF f \in th.bundle.artifacts THEN th.id ELSE artifacts[f]]
                    ELSE artifacts
    /\ Ends(t)
    /\ UNCHANGED <<slug, stored, bundles, requests, crashes, mixed>>

\* import-artifacts: the files that were not in the workspace, one by one.
FindKnown(t) ==
    LET th == thread[t]  new == File \ Of(th.id) IN
    /\ At(t, "known")
    /\ IF new = {} THEN Ends(t) ELSE Goes(t, [th EXCEPT !.at = "add", !.read = new])
    /\ Reads

\* An artifact's id is of its file alone: one that another workspace has ends the import.
AddArtifact(t) ==
    \E f \in thread[t].read :
        LET th == thread[t] IN
        /\ At(t, "add")
        /\ IF artifacts[f] # None \/ WithId(th.id) = {} THEN Ends(t) /\ UNCHANGED artifacts
           ELSE /\ artifacts' = [artifacts EXCEPT ![f] = th.id]
                /\ IF th.read = {f} THEN Ends(t) ELSE Goes(t, [th EXCEPT !.read = @ \ {f}])
        /\ UNCHANGED <<slug, stored, bundles, requests, crashes, mixed>>

\* A command is cut off.
Crash ==
    /\ crashes < MaxCrashes /\ crashes' = crashes + 1
    /\ \E t \in Thread : thread[t] # Idle /\ Ends(t)
    /\ UNCHANGED <<slug, stored, artifacts, bundles, requests, mixed>>

-----------------------------------------------------------------------------

\* Any workspaces of different ids, one of them active or none, with any artifacts; and
\* bundles exported from another store.
Init ==
    /\ slug \in {s \in [Name -> Name] : \A n \in Name : s[s[n]] = s[n]}
    /\ \E has \in SUBSET Name : \E active \in has \cup {None} :
          /\ IsInjective([n \in has |-> slug[n]])
          /\ stored = [n \in Name |-> IF n \in has THEN [id |-> slug[n], active |-> n = active] ELSE None]
    /\ artifacts \in [File -> {stored[n].id : n \in Rows} \cup {None}]
    /\ \E given \in SUBSET Name :
          bundles = [n \in Name |-> IF n \in given THEN [id |-> slug[n], artifacts |-> Exported] ELSE None]
    /\ thread = [t \in Thread |-> Idle] /\ requests = 0 /\ crashes = 0 /\ mixed = FALSE

Next ==
    \/ Crash
    \/ \E t \in Thread :
        \/ Command(t) \/ FindName(t) \/ FindAgain(t) \/ CreateRow(t) \/ Activate(t) \/ FindActive(t)
        \/ FindRow(t) \/ Export(t) \/ OpenBundle(t) \/ FindClash(t) \/ DropArtifact(t) \/ RemoveRow(t)
        \/ FillRow(t) \/ FindKnown(t) \/ AddArtifact(t)

Spec == Init /\ [][Next]_vars

-----------------------------------------------------------------------------
(* Properties                                                               *)

Created(t) == thread[t].op \in {"init", "post"} /\ At(t, "activate")

\* One workspace is active at most, but between the two commits of a creation and after one
\* that was cut off there.  import-artifacts ends well with every file in the workspace, and
\* an import with what the bundle holds and nothing else, if no import overlapped with
\* another or with import-artifacts.
OneIsActive == crashes = 0 /\ (\A t \in Thread : ~Created(t)) => \A n, m \in Active : n = m
Arrives ==
    \A t \in Thread :
        LET th == thread[t]  ends == thread'[t] = Idle /\ artifacts' # artifacts IN
        /\ (th.op = "collect" /\ ends /\ ~mixed) => \A f \in File : artifacts'[f] = th.id
        /\ (At(t, "fill") /\ ends) =>
               /\ th.bundle.artifacts \subseteq {f \in File : artifacts'[f] = th.id}
               /\ ~mixed => {f \in File : artifacts'[f] = th.id} \subseteq th.bundle.artifacts
StoreKeepsOrder == OneIsActive' /\ Arrives
WorkspacesStand == [][StoreKeepsOrder]_vars
=============================================================================
