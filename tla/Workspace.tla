------------------------------ MODULE Workspace ------------------------------
(***************************************************************************)
(* A workspace: the desks, which keep its files, and the rules, which keep    *)
(* nothing and say what is made of texts, tables and findings.  The rules    *)
(* are looked at apart from the desks, input by input.                      *)
(***************************************************************************)
EXTENDS Desks

VARIABLES rule, input, output

ofRules == <<rule, input, output>>

F == INSTANCE Rules

NoRules == rule = None /\ input = None /\ output = None

WorkspaceInit ==
    /\ Init
    /\ IF desk = "rules" THEN F!Init ELSE NoRules

WorkspaceNext ==
    \/ Next /\ UNCHANGED ofRules
    \/ desk = "rules" /\ F!Next /\ UNCHANGED vars

WorkspaceSpec == WorkspaceInit /\ [][WorkspaceNext]_<<vars, ofRules>>

-----------------------------------------------------------------------------
(* What the rules promise, as their modules say.                            *)

\* All the text of a document is in its chunks, and what was not read has a warning.
ChunksKeepTheText == desk = "rules" => F!ChunksKeepTheText

\* A text that states something is among the evidence of it.
TextsAreCited == desk = "rules" => F!TextsAreCited

\* Nothing a detector reports is lost, tables are looked into whole, and tools run after those
\* whose results they read.
FindingsAreWhole ==
    desk = "rules" => F!NothingFoundIsLost /\ F!TablesAreLookedInto /\ F!ToolsFollowInputs

\* An import overwrites no earlier copy or table, keeps to the windows rate-limit errors
\* opened, and has a version for each change of an item.
ImportsAreCareful ==
    desk = "rules" => F!CopiesStand /\ F!TablesAreKept /\ F!WindowsAreKept /\ F!ChangesAreVersions

\* Nodes set what they promise, and say what failed.
FailuresAreTold == desk = "rules" => F!N!FailuresAreTold

\* What a specialist concludes by its rules goes by all it found.
VerdictsMatchFindings == desk = "rules" => F!N!VerdictsMatchFindings

\* A report says of the evidence what is in it, and of the claims what was verified.
ReportsTellTheLedger == desk = "rules" => F!N!ReportsTellTheLedger

\* Reports on claims and workspaces leave out nothing that speaks against them.
ReportsHideNothing == desk = "rules" => F!N!ReportsHideNothing
=============================================================================
