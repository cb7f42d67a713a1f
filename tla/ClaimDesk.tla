------------------------------ MODULE ClaimDesk ------------------------------
(***************************************************************************)
(* Claims: the routes that create, delete and verify them                   *)
(* (workflow_engine/api.py, api/routes_graph.py, api/routes_verification.py), *)
(* the service that updates them (verification/service.py), and their files  *)
(* and index (stores/claim_store.py).  Verification says what a verdict is.  *)
(*                                                                         *)
(* Routes that create and delete run in threads and may interleave at every  *)
(* file; verification runs on the event loop, one at a time, beside them.    *)
(* Evidence comes and goes: chunks on file, which a search for words finds,  *)
(* and vectors, which stay when the source they were made of is deleted.     *)
(***************************************************************************)
EXTENDS Naturals, Sequences, FiniteSets

CONSTANTS Claim, Thread, None, MaxRequests, MaxCrashes

Important == {"churn"}
V == INSTANCE Verification

VARIABLES
    apart,      \* whether verification looks for claims in a directory of its own
    file,       \* the file of each claim, or None
    listed,     \* the ids in _index.json
    filed,     \* texts on file
    vectors,    \* texts in the vector index
    thread,     \* what each thread is doing; the last is the event loop
    used, requests, crashes

vars == <<apart, file, listed, filed, vectors, thread, used, requests, crashes>>

-----------------------------------------------------------------------------
(* Claims and texts                                                         *)

Said(id, source, words, tone) == [id |-> id, source |-> source, words |-> words, tone |-> tone]
Texts == {Said(<<"text", "d1">>, "s1", {"churn", "rose"}, {}),
          Said(<<"text", "d3">>, "s2", {"churn", "rose", "again"}, {"turn"})}
Statement == [words |-> {"churn", "rose", "sharply"}, grave |-> TRUE]

\* A text has another id when a search for words finds it.
ByWords(t) == Said(<<"kw", t.id[2]>>, t.source, t.words, t.tone)
Found == IF vectors # {} THEN vectors ELSE {ByWords(t) : t \in filed}
Known == Texts \cup {ByWords(t) : t \in Texts}

Fresh(cites) == [status |-> "pending", quality |-> None, cites |-> cites, against |-> {}]

-----------------------------------------------------------------------------

Doing(op, step, c, verdict, copy) ==
    [op |-> op, step |-> step, c |-> c, verdict |-> verdict, copy |-> copy, ids |-> {}]
Idle == Doing("-", "-", None, None, None)
Goto(t, th) == thread' = [thread EXCEPT ![t] = th]
At(t, step) == thread[t].step = step
Begin(t, th) ==
    /\ thread[t] = Idle /\ requests < MaxRequests
    /\ requests' = requests + 1
    /\ Goto(t, th)

\* create_claim, create_claim_from_graph_fact: whoever asks names the evidence.
Create(t) ==
    \E c \in Claim \ used, cites \in {{}, {<<"text", "d3">>}} :
        /\ Begin(t, Doing("create", "write", c, None, Fresh(cites)))
        /\ used' = used \cup {c}
        /\ UNCHANGED <<apart, file, listed, filed, vectors, crashes>>

Delete(t) ==
    \E c \in Claim :
        /\ file[c] # None
        /\ Begin(t, Doing("delete", "write", c, None, None))
        /\ UNCHANGED <<apart, file, listed, filed, vectors, used, crashes>>

Verifying == \E t \in Thread : thread[t].op = "verify"

\* verify_claim: ids resolve by chance, being looked for like words among vectors.
Judge(t) ==
    \E c \in Claim :
        /\ ~apart /\ file[c] # None /\ ~Verifying
        /\ \E cited \in SUBSET {x \in vectors : x.id \in file[c].cites} :
              Begin(t, Doing("verify", "reload", c, V!VerifyClaim(Statement, cited, Found), None))
        /\ UNCHANGED <<apart, file, listed, filed, vectors, used, crashes>>

KeepOld(new, old) == IF old = {} THEN new ELSE old   \* a mutant: what is on file stays
OrOld(new, old) == IF new = {} THEN old ELSE new

\* _update_claim_verification: what a verdict leaves empty stays as it is on file.
Updated(claim, verdict) ==
    [status |-> verdict.status, quality |-> V!Score(verdict),
     cites |-> OrOld(verdict.cites, claim.cites), against |-> OrOld(verdict.against, claim.against)]

Reload(t) ==
    LET th == thread[t] IN
    /\ At(t, "reload")
    /\ Goto(t, IF file[th.c] = None THEN Idle
               ELSE Doing(th.op, "write", th.c, None, Updated(file[th.c], th.verdict)))
    /\ UNCHANGED <<apart, file, listed, filed, vectors, used, requests, crashes>>

\* JSONClaimStore.save and delete: the file, and then the index, if it has to change.
Write(t) ==
    /\ At(t, "write")
    /\ file' = [file EXCEPT ![thread[t].c] = thread[t].copy]
    /\ Goto(t, Doing(thread[t].op, "ids", thread[t].c, None, None))
    /\ UNCHANGED <<apart, listed, filed, vectors, used, requests, crashes>>

LoadIds(t) ==
    LET th == thread[t] IN
    /\ At(t, "ids")
    /\ IF (th.c \in listed) = (th.op # "delete")
       THEN Goto(t, Idle)
       ELSE Goto(t, [Doing(th.op, "list", th.c, None, None) EXCEPT !.ids = listed])
    /\ UNCHANGED <<apart, file, listed, filed, vectors, used, requests, crashes>>

SaveIds(t) ==
    LET th == thread[t] IN
    /\ At(t, "list")
    /\ listed' = IF th.op = "delete" THEN th.ids \ {th.c} ELSE th.ids \cup {th.c}
    /\ Goto(t, Idle)
    /\ UNCHANGED <<apart, file, filed, vectors, used, requests, crashes>>

-----------------------------------------------------------------------------
(* Evidence, and the end of the process                                     *)

Evidence ==
    /\ \/ \E x \in Texts \ filed : filed' = filed \cup {x} /\ UNCHANGED vectors
       \/ \E x \in filed : filed' = filed \ {x} /\ UNCHANGED vectors
       \/ \E x \in filed \ vectors : vectors' = vectors \cup {x} /\ UNCHANGED filed
    /\ UNCHANGED <<apart, file, listed, thread, used, requests, crashes>>

Crash ==
    /\ crashes < MaxCrashes /\ crashes' = crashes + 1
    /\ thread' = [t \in Thread |-> Idle]
    /\ UNCHANGED <<apart, file, listed, filed, vectors, used, requests>>

Init ==
    /\ apart \in BOOLEAN
    /\ file = [c \in Claim |-> None] /\ listed = {}
    /\ filed = {} /\ vectors = {}
    /\ thread = [t \in Thread |-> Idle]
    /\ used = {} /\ requests = 0 /\ crashes = 0

Next ==
    \/ Evidence \/ Crash
    \/ \E t \in Thread :
        \/ Create(t) \/ Delete(t) \/ Judge(t)
        \/ Reload(t) \/ Write(t) \/ LoadIds(t) \/ SaveIds(t)

Spec == Init /\ [][Next]_vars

-----------------------------------------------------------------------------
(* Properties                                                               *)

Named(ids) == {x \in Known : x.id \in ids}

IsBacked(claim) ==
    /\ claim.status = "supported" =>
          /\ V!Supports(Named(claim.cites), Statement, 3)
          /\ \A x \in Named(claim.cites) : ~V!Contradicts(x, Statement)
    /\ claim.status = "contradicted" =>
          /\ claim.against # {}
          /\ \A x \in Named(claim.against) : V!Contradicts(x, Statement)
    /\ claim.status = "contradicted" <=> claim.quality = "contradicted"

\* A claim that reads supported cites texts that do support it, none of which is
\* against it; one that reads contradicted names what is against it, and its quality
\* says so; whatever was verified before, and whatever evidence there was then.
VerdictsAreBacked ==
    \A c \in Claim : file[c] # None /\ file[c].quality # None => IsBacked(file[c])
=============================================================================
