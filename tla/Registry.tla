------------------------------ MODULE Registry ------------------------------
(***************************************************************************)
(* Registries that are one JSON file each: users and memberships            *)
(* (identity/store.py), security settings (identity/settings.py), approval  *)
(* requests (security/approvals.py) and workflow providers                  *)
(* (workflow_engine/providers/store.py).                                    *)
(*                                                                         *)
(* Every change loads the file, changes one record and writes the file      *)
(* back.  Writing truncates it first, and a file that does not parse counts  *)
(* as empty: who reads it in between sees no records, and if the process    *)
(* dies there, there are none.                                              *)
(***************************************************************************)
EXTENDS Naturals, Sequences, FiniteSets

CONSTANTS
    Id,         \* ids, keys or names of records
    Default,    \* the id of the default user, the owner's membership, ...
    Thread, None,
    MaxRequests, MaxCrashes   \* bounds

RegistryFile == {"users", "memberships", "settings", "approvals", "providers"}

VARIABLES
    demo,       \* whether the security mode is demo
    file,       \* the records of each file: an id and the request that wrote it
    torn,       \* files that are truncated
    thread,     \* what each thread is doing
    requests, crashes,
    mixed       \* history: files two requests that may write worked on at once

vars == <<demo, file, torn, thread, requests, crashes, mixed>>

Idle == [todo |-> <<>>, op |-> "-", f |-> None, id |-> None, by |-> 0, copy |-> {}]

Seen(f) == IF f \in torn THEN {} ELSE file[f]
Has(records, id) == \E r \in records : r.id = id
Without(records, id) == {r \in records : r.id # id}

-----------------------------------------------------------------------------
(* Requests                                                                 *)

Write == <<"truncate", "write">>

\* The routes that update a user or a membership load the record and then save it;
\* a membership is added for a user that exists.
Program(op, f) ==
    CASE op = "read" -> <<"get">>
      [] op = "ensure" -> <<"get", "load">> \o Write
      [] op = "create" /\ f = "memberships" -> <<"who", "load">> \o Write
      [] op = "change" /\ f \in {"users", "memberships"} -> <<"get", "load">> \o Write
      [] OTHER -> <<"load">> \o Write

Does(t, do) == thread[t].todo # <<>> /\ Head(thread[t].todo) = do
Then(t, th) == thread' = [thread EXCEPT ![t] = [th EXCEPT !.todo = Tail(@)]]
Ends(t) == thread' = [thread EXCEPT ![t] = Idle]

\* In governed mode nothing is written for a request that only asks.
MayWrite(op, f) == op # "read" /\ (op = "ensure" /\ f = "users" => demo)

Begin(t, op, f, id) ==
    /\ thread[t] = Idle /\ requests < MaxRequests
    /\ requests' = requests + 1
    /\ thread' = [thread EXCEPT ![t] =
           [todo |-> Program(op, f), op |-> op, f |-> f, id |-> id, by |-> requests', copy |-> {}]]
    /\ mixed' = IF /\ MayWrite(op, f)
                   /\ \E u \in Thread : thread[u].f = f /\ MayWrite(thread[u].op, f)
                THEN mixed \cup {f} ELSE mixed
    /\ UNCHANGED <<demo, file, torn, crashes>>

\* save_user, save_membership, create_approval, ProviderStore.add.
Create(t) == \E f \in RegistryFile \ {"settings"}, id \in Id : Begin(t, "create", f, id)

\* update_existing_user, update_workspace_membership, update_settings,
\* update_approval_status.
Change(t) == \E f \in RegistryFile \ {"providers"}, id \in Id : Begin(t, "change", f, id)

\* The default user is not deleted.
Delete(t) ==
    \E f \in {"users", "memberships", "providers"}, id \in Id :
        (f = "users" => id # Default) /\ Begin(t, "delete", f, id)

\* ensure_owner_membership, when a workspace is created.
EnsureOwner(t) == Begin(t, "ensure", "memberships", Default)

ReadOrCreate(t) ==                       \* a mutant: the default user in any mode
    \E f \in RegistryFile : Begin(t, IF f = "users" THEN "ensure" ELSE "read", f, Default)

\* Every request asks who its user is: in demo mode the default user, created if
\* it is not there (get_current_user, get_or_create_default_user).
Read(t) ==
    \E f \in RegistryFile :
        Begin(t, IF demo /\ f = "users" THEN "ensure" ELSE "read", f, Default)

-----------------------------------------------------------------------------
(* File accesses                                                            *)

\* get_user and get_membership: what is to be changed must be there, what is to be
\* ensured must not.
Get(t) ==
    LET th == thread[t] IN
    /\ Does(t, "get")
    /\ IF th.op # "read" /\ Has(Seen(th.f), th.id) = (th.op = "change") THEN Then(t, th)
       ELSE Ends(t)
    /\ UNCHANGED <<demo, file, torn, requests, crashes, mixed>>

GetUser(t) ==
    /\ Does(t, "who")
    /\ IF Has(Seen("users"), thread[t].id) THEN Then(t, thread[t]) ELSE Ends(t)
    /\ UNCHANGED <<demo, file, torn, requests, crashes, mixed>>

Saved(th, records) == Without(records, th.id) \cup {[id |-> th.id, by |-> th.by]}

\* Loading the file and changing the record in memory.  An approval that is not there
\* is not resolved, and a provider that is there not added.
Load(t) ==
    LET th == thread[t]
        records == Seen(th.f)
        refuses == \/ th.op = "delete" /\ ~Has(records, th.id)
                   \/ th.op = "change" /\ th.f = "approvals" /\ ~Has(records, th.id)
                   \/ th.op = "create" /\ th.f = "providers" /\ Has(records, th.id) IN
    /\ Does(t, "load")
    /\ IF refuses THEN Ends(t)
       ELSE Then(t, [th EXCEPT !.copy =
                IF th.op = "delete" THEN Without(records, th.id) ELSE Saved(th, records)])
    /\ UNCHANGED <<demo, file, torn, requests, crashes, mixed>>

Truncate(t) ==
    /\ Does(t, "truncate")
    /\ torn' = torn \cup {thread[t].f}
    /\ Then(t, thread[t])
    /\ UNCHANGED <<demo, file, requests, crashes, mixed>>

Store(t) ==
    LET th == thread[t] IN
    /\ Does(t, "write")
    /\ file' = [file EXCEPT ![th.f] = th.copy]
    /\ torn' = torn \ {th.f}
    /\ Ends(t)
    /\ UNCHANGED <<demo, requests, crashes, mixed>>

Crash ==
    /\ crashes < MaxCrashes /\ crashes' = crashes + 1
    /\ file' = [f \in RegistryFile |-> Seen(f)]
    /\ torn' = {}
    /\ thread' = [t \in Thread |-> Idle]
    /\ UNCHANGED <<demo, requests, mixed>>

Init ==
    /\ demo \in BOOLEAN
    /\ \E ids \in {{Default}, Id} : file = [f \in RegistryFile |-> [id : ids, by : {0}]]
    /\ torn = {} /\ thread = [t \in Thread |-> Idle]
    /\ requests = 0 /\ crashes = 0 /\ mixed = {}

Next ==
    \/ Crash
    \/ \E t \in Thread :
        \/ Create(t) \/ Change(t) \/ Delete(t) \/ EnsureOwner(t) \/ Read(t)
        \/ Get(t) \/ GetUser(t) \/ Load(t) \/ Truncate(t) \/ Store(t)

Spec == Init /\ [][Next]_vars

-----------------------------------------------------------------------------
(* Properties                                                               *)

\* A request changes no record but its own, whoever reads the file while it is
\* truncated; unless two requests that may write overlapped, or one died writing.
ChangesOwnRecord ==
    \A f \in RegistryFile \ mixed : \A r \in file[f] \ file'[f] :
        \/ crashes' # crashes /\ f \in torn
        \/ \E t \in Thread : Does(t, "write") /\ thread[t].f = f /\ thread[t].id = r.id
UntouchedStand == [][ChangesOwnRecord]_vars
=============================================================================
