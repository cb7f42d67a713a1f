CONSTANTS
    Thread = {t1, t2}
    None = None
    Exec = {e1, e2}
    Review = {r1, r2}
    MaxResumes = 1
    Source = {s1, s2}
    Doc <- Docs
    Connector = {k1}
    Every = {0, 2}
    MaxTime = 4
    MaxSchedules = 2
    Workflow = {w1}
    Trigger = {n1, n2}
    Id = {i0, i1}
    Default = i0
    Claim = {c1, c2}
    Name = {m1, m2}
    File = {f1, f2}
    Exported = {f1}
    MaxRequests = 3
    MaxCrashes = 1
SPECIFICATION WorkspaceSpec
SYMMETRY Symmetry
INVARIANTS AwaitsItsOwnReview NothingOutlivesItsRecord IndexedIsWhole
  RunsWhatItNames EdgesHaveNodes
  VerdictsAreBacked SeriousInsightsReachReview
  ChunksKeepTheText TextsAreCited FindingsAreWhole
  ImportsAreCareful FailuresAreTold VerdictsMatchFindings ReportsTellTheLedger
  ReportsHideNothing
PROPERTIES ResolutionIsFinal ServedAtItsInterval UntouchedStand WorkspacesStand
CHECK_DEADLOCK FALSE
