------------------------------- MODULE WarRoom -------------------------------
(***************************************************************************)
(* Orchestration runs and war room runs (orchestration/workflow.py,          *)
(* war_room/runner.py, war_room/judge.py, and the stores they use).          *)
(*                                                                         *)
(* An orchestration detects insights and writes the ontology, the insights,  *)
(* its session and then latest.json.  A war room reads the insights once for  *)
(* its context, once for each role and once for the judge, and in between an  *)
(* orchestration may write them.  A file that is written is truncated first.  *)
(* Orchestration says what is relevant to a question and who discusses it;    *)
(* which insights there are to detect is any of a few sets.  The texts of     *)
(* what agents write are left out, as is the evidence from data profiles.     *)
(***************************************************************************)
EXTENDS Naturals, Sequences, FiniteSets

CONSTANTS Thread, None, MaxRequests, MaxCrashes

O == INSTANCE Orchestration

VARIABLES
    file,      \* ontology, insights and latest: what the file holds, or None
    torn,      \* files that are truncated
    stored,    \* sessions on file
    runs,      \* war room runs on file
    thread,    \* what each thread is doing
    requests, crashes

vars == <<file, torn, stored, runs, thread, requests, crashes>>

-----------------------------------------------------------------------------

Insight(id, category, severity) ==
    [id |-> id, category |-> category, severity |-> severity, concerns |-> {}]
Clash == Insight("clash", "contradiction", "high")
Margin == Insight("margin", "profit_margin_risk", "high")
Spend == Insight("spend", "marketing_roi_risk", "medium")
Detectable == {{}, {Spend}, {Clash, Spend}, {Margin, Clash}}

Question(types) == [named |-> types, broader |-> {}, about |-> {}]
Questions == {Question({"marketing"}), Question({"technical", "risk"}), Question({})}

Empty == {}

\* load_insights, load_ontology: a file that is truncated raises.
Readable(f) == f \notin torn
Held == IF file["insights"] = None THEN Empty ELSE file["insights"]

-----------------------------------------------------------------------------

Orchestrating(op, step, id, found) == [op |-> op, step |-> step, id |-> id, found |-> found]
Discussing(step, q, context, cited, calm) ==
    [op |-> "discuss", step |-> step, q |-> q, context |-> context, cited |-> cited, calm |-> calm]
Idle == Orchestrating("-", "-", None, Empty)

At(t, step) == thread[t].step = step
Goto(t, th) == thread' = [thread EXCEPT ![t] = th]
Begin(t, th) ==
    /\ thread[t] = Idle /\ requests < MaxRequests
    /\ requests' = requests + 1
    /\ Goto(t, th)

-----------------------------------------------------------------------------
(* run_orchestration                                                        *)

Orchestrate(t) ==
    \E found \in Detectable :
        /\ Begin(t, Orchestrating("orchestrate", "ontology", requests, found))
        /\ UNCHANGED <<file, torn, stored, runs, crashes>>

\* The file to write when one is written.
Following(f) == CASE f = "ontology" -> "insights" [] f = "insights" -> "session"
                  [] f = "latest" -> "-"

Content(th) == [ontology |-> "mapped", insights |-> th.found, latest |-> th.id][th.step]

\* No war room that reads the insights meanwhile can count on them.
Warned(th) ==
    IF th.op = "discuss" THEN Discussing(th.step, th.q, th.context, th.cited, FALSE) ELSE th
Disturbed(f) == IF f = "insights" THEN [u \in Thread |-> Warned(thread[u])] ELSE thread

Truncate(t) ==
    LET th == thread[t]
        f == th.step IN
    /\ th.op = "orchestrate" /\ f \in {"ontology", "insights", "latest"}
    /\ torn' = torn \cup {f}
    /\ thread' = [Disturbed(f) EXCEPT ![t] = Orchestrating("fill", f, th.id, th.found)]
    /\ UNCHANGED <<file, stored, runs, requests, crashes>>

\* When another thread filled the file meanwhile, what it has too much may stay.
Fill(t) ==
    LET th == thread[t]
        f == th.step IN
    /\ th.op = "fill"
    /\ \/ file' = [file EXCEPT ![f] = Content(th)] /\ torn' = torn \ {f}
       \/ f \notin torn /\ torn' = torn \cup {f} /\ UNCHANGED file
    /\ thread' = [Disturbed(f) EXCEPT ![t] =
           IF Following(f) = "-" THEN Idle
           ELSE Orchestrating("orchestrate", Following(f), th.id, th.found)]
    /\ UNCHANGED <<stored, runs, requests, crashes>>

\* save_decision_session, its first half: the file of the session.
SaveSession(t) ==
    /\ thread[t].op = "orchestrate" /\ At(t, "session")
    /\ stored' = stored \cup {thread[t].id}
    /\ Goto(t, Orchestrating("orchestrate", "latest", thread[t].id, thread[t].found))
    /\ UNCHANGED <<file, torn, runs, requests, crashes>>

-----------------------------------------------------------------------------
(* run_war_room                                                             *)

Discuss(t) ==
    \E q \in Questions :
        /\ Begin(t, Discussing("context", q, None, <<>>, TRUE))
        /\ UNCHANGED <<file, torn, stored, runs, crashes>>

\* build_higher_context and build_dispatch_spec: if the ontology or the insights
\* cannot be read, the context has no insights.
Context(q) ==
    LET bare == ~Readable("ontology") \/ ~Readable("insights") IN
    [bare |-> bare, roles |-> O!Roles(O!DecisionType(q)),
     relevant |-> IF bare THEN {} ELSE {i.id : i \in O!Relevant(q, Held)},
     serious |-> IF bare THEN {} ELSE {i.id : i \in {x \in Held : O!Serious(x)}}]

BuildContext(t) ==
    LET th == thread[t] IN
    /\ th.op = "discuss" /\ At(t, "context")
    /\ Goto(t, Discussing("roles", th.q, Context(th.q), <<>>, th.calm))
    /\ UNCHANGED <<file, torn, stored, runs, requests, crashes>>

\* _simulate_agent: an agent cites what is in the context and whatever category is
\* named after the data of the question.
Cited(th, insights) ==
    th.context.relevant \cup {i.id : i \in {x \in insights :
        O!NamedAfter(x.category) \cap O!DataCategories(O!DecisionType(th.q)) # {}}}

Speak(t) ==
    LET th == thread[t] IN
    /\ th.op = "discuss" /\ At(t, "roles") /\ Len(th.cited) < Len(th.context.roles)
    /\ LET said == Cited(th, IF Readable("insights") THEN Held ELSE Empty) IN
       Goto(t, Discussing("roles", th.q, th.context, Append(th.cited, said), th.calm))
    /\ UNCHANGED <<file, torn, stored, runs, requests, crashes>>

\* run_judge: "If any linked insight has critical severity".
CriticalOnly(cited, insights) ==         \* a mutant: what the comment says
    {c \in (DOMAIN cited) \X insights : c[2].id \in cited[c[1]] /\ c[2].severity = "critical"}
Flagged(cited, insights) ==
    {c \in (DOMAIN cited) \X insights :
        c[2].id \in cited[c[1]] /\ (O!Serious(c[2]) \/ c[2].category = "contradiction")}

\* The record of a run; in its history whether its insights are the ones on file.
Report(th) ==
    [roles |-> th.context.roles, flagged |-> {<<f[1], f[2].id>> : f \in Flagged(th.cited, Held)},
     calm |-> th.calm /\ ~th.context.bare, serious |-> th.context.serious]

\* The judge and the record of the run.  Insights that cannot be read end it.
Judge(t) ==
    LET th == thread[t] IN
    /\ th.op = "discuss" /\ At(t, "roles") /\ Len(th.cited) = Len(th.context.roles)
    /\ runs' = IF Readable("insights") THEN runs \cup {Report(th)} ELSE runs
    /\ Goto(t, Idle)
    /\ UNCHANGED <<file, torn, stored, requests, crashes>>

-----------------------------------------------------------------------------

\* What is truncated stays so.
Crash ==
    /\ crashes < MaxCrashes /\ crashes' = crashes + 1
    /\ thread' = [t \in Thread |-> Idle]
    /\ UNCHANGED <<file, torn, stored, runs, requests>>

Init ==
    /\ file = [f \in {"ontology", "insights", "latest"} |-> None] /\ torn = {}
    /\ stored = {} /\ runs = {}
    /\ thread = [t \in Thread |-> Idle]
    /\ requests = 0 /\ crashes = 0

Next ==
    \/ Crash
    \/ \E t \in Thread :
        \/ Orchestrate(t) \/ Truncate(t) \/ Fill(t) \/ SaveSession(t)
        \/ Discuss(t) \/ BuildContext(t) \/ Speak(t) \/ Judge(t)

Spec == Init /\ [][Next]_vars

-----------------------------------------------------------------------------
(* Properties                                                               *)

\* A war room run that is on record has flagged every serious insight there was for
\* human review, in what each of its roles wrote, unless the insights were written
\* during it or could not be read at its start (run_war_room).
SeriousInsightsReachReview ==
    \A r \in runs : r.calm =>
        \A n \in 1..Len(r.roles), id \in r.serious : <<n, id>> \in r.flagged
=============================================================================
