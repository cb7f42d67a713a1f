--------------------------- MODULE ConnectorRules ---------------------------
(***************************************************************************)
(* What the connectors compute beside their jobs: the import of a folder by *)
(* copying (local_files.py), the retries and the rate-limit windows of a     *)
(* fetch (retry_policy.py, rate_limiter.py), and the duplicate store with the *)
(* versions of an item (dedup.py, provenance.py).                           *)
(*                                                                         *)
(* A file is its folder, name and kind; a name is a sequence, a counter put  *)
(* behind it by a copy being its last element.                             *)
(***************************************************************************)
EXTENDS Integers, Sequences, SequencesExt, FiniteSets, FiniteSetsExt, Functions

CONSTANT None

-----------------------------------------------------------------------------
(* Folder imports                                                           *)

SkippedFolders == {".git", "venv"}
Supported == {"md", "txt", "csv", "json"}
Category(kind) == CASE kind \in {"md", "txt"} -> "documents" [] kind = "csv" -> "datasets"
                    [] kind = "json" -> "json" [] OTHER -> "other"

\* The walk sees nothing below a skipped folder.
Walk(folder) == SelectSeq(folder, LAMBDA f : f.dir \notin SkippedFolders)
Included(f) == ~f.protected /\ ~f.link /\ f.kind \in Supported

\* The files to import, then those to skip.
DryRun(folder) ==
    SelectSeq(Walk(folder), Included) \o SelectSeq(Walk(folder), LAMBDA f : ~Included(f))

\* Documents and data sets lose their folder, JSON files keep it.
NormalizeTarget(f) ==
    [dir |-> IF f.kind = "json" THEN f.dir ELSE "", category |-> Category(f.kind), name |-> f.name,
     kind |-> f.kind]

\* Mutant of CopySafe: a file of the same name is written over.
CopyOver(held, f) ==
    [p \in DOMAIN held \cup {NormalizeTarget(f)} |-> IF p = NormalizeTarget(f) THEN f.body ELSE held[p]]

\* The places a copy tries: its target, then with a counter.
Numbered(f, n) == [NormalizeTarget(f) EXCEPT !.name = IF n = 0 THEN @ ELSE Append(@, n)]

\* A taken name gets the smallest free counter.
CopySafe(held, f) ==
    LET free == {n \in 0..Cardinality(DOMAIN held) : Numbered(f, n) \notin DOMAIN held}
        path == Numbered(f, Min(free)) IN
    [p \in DOMAIN held \cup {path} |-> IF p = path THEN f.body ELSE held[p]]

\* Of the files the dry run found, those still there are copied.
RunLocalFilesImport(job, f) ==
    IF ~f.gone /\ Included(f)
    THEN [held |-> CopySafe(job.held, f), imported |-> job.imported \cup {f}, skipped |-> job.skipped]
    ELSE [job EXCEPT !.skipped = @ \cup {f}]

RunImport(held, folder) ==
    FoldLeft(RunLocalFilesImport, [held |-> held, imported |-> {}, skipped |-> {}],
             DryRun(folder))

-----------------------------------------------------------------------------
(* Fetching with retries, inside and outside rate-limit windows              *)

MaxRetries == 3
RetryAfter == 60

\* What a message is taken for: words that rule a retry out come first.
ClassifyError(words) ==
    IF "final" \in words THEN "non_retryable"
    ELSE IF words \cap {"transient", "429"} # {} THEN "retryable" ELSE "non_retryable"

ShouldRetry(words, attempt) == attempt <= MaxRetries /\ ClassifyError(words) = "retryable"

\* Seconds, the jitter of a tenth left out.
GetDelay(attempt) == Min({2^(attempt - 1), 30})

\* The call is made until an answer is not retried; {} stands for content. It is preceded by
\* as many delays as it has failed, MaxRetries at most.
ExecuteWithRetry(answers) ==
    LET stops == {k \in 1..(MaxRetries + 1) : answers[k] = {} \/ ~ShouldRetry(answers[k], k)}
        calls == Min(stops)
        Wait(k) == IF k < calls THEN GetDelay(k) ELSE 0 IN
    [calls |-> calls, error |-> answers[calls], took |-> Wait(1) + Wait(2) + Wait(3)]

\* check_rate_limited: a window that is over is closed.
CheckRateLimited(limit, now) ==
    IF limit # None /\ now - limit.at >= limit.after THEN None ELSE limit

\* A Retry-After header that parses comes before the default.
Record429(now, header) == [at |-> now, after |-> IF header = None THEN RetryAfter ELSE header]


\* One item of a batch: held off inside a window, else fetched; an error that names the
\* rate limit opens a window of the default length.
ProcessItem(state, item) ==
    LET now == state.now + item.gap
        limit == CheckRateLimited(state.limit, now)
        r == ExecuteWithRetry(item.answers) IN
    IF limit # None
    THEN [state EXCEPT !.now = now, !.limit = limit,
                       !.done = Append(@, [from |-> now, to |-> now, error |-> {}, held |-> TRUE])]
    ELSE [now |-> now + r.took,
          limit |-> IF "429" \in r.error THEN Record429(now + r.took, None) ELSE limit,
          done |-> Append(state.done, [from |-> now, to |-> now + r.took, error |-> r.error,
                                       held |-> FALSE])]

FetchAll(items) == FoldLeft(ProcessItem, [now |-> 0, limit |-> None, done |-> <<>>], items)

-----------------------------------------------------------------------------
(* Duplicates and versions                                                  *)

Unknown == [known |-> None, number |-> 0, versions |-> <<>>, collected |-> <<>>]

\* record_import, then create_version: the version before is marked as superseded.
Versioned(item, hash) ==
    LET old == [i \in DOMAIN item.versions |->
                  IF i = Len(item.versions) THEN [item.versions[i] EXCEPT !.superseded = TRUE]
                  ELSE item.versions[i]]
    IN [known |-> hash, number |-> item.number + 1,
        versions |-> Append(old, [hash |-> hash, superseded |-> FALSE]),
        collected |-> Append(item.collected, hash)]


\* fetch_item_fn: unchanged content is left where it is.
Track(item, hash) == IF hash = item.known THEN item ELSE Versioned(item, hash)

TrackAll(hashes) == FoldLeft(Track, Unknown, hashes)

=============================================================================
