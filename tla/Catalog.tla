-------------------------------- MODULE Catalog --------------------------------
(***************************************************************************)
(* The data catalog: tables are imported from a folder of files              *)
(* (data_catalog/importer.py), loaded and profiled (loader.py, profiler.py,   *)
(* store.py), and their columns mapped to concepts (ontology/mapper.py).      *)
(*                                                                         *)
(* A file is [name, slug, word, ext, opens, headers, rows]; a row is a        *)
(* sequence of cells, "" if blank, "gap" if the sheet has no cell there.      *)
(* What is kept of it is a table [headers, rows] below a category and a slug. *)
(* Headers are as they are normalised; a sheet is the first of its workbook.  *)
(***************************************************************************)
EXTENDS Integers, Sequences, SequencesExt, FiniteSets, FiniteSetsExt, Functions

-----------------------------------------------------------------------------
(* Import                                                                   *)

ClassifyDataset(word) ==
    CASE word = "retail" -> "sales"
      [] word = "inc5000" -> "competitors"
      [] word = "jobchange" -> "operations"
      [] word = "millennial" -> "strategic"
      [] OTHER -> "unknown"

Target(file) == <<ClassifyDataset(file.word), file.slug>>

\* The cell of a row below a header: the last such header counts, and blank is what the row
\* does not reach.
Below(headers, row, h) ==
    LET j == Max({k \in DOMAIN headers : headers[k] = h}) IN
    IF j <= Len(row) THEN row[j] ELSE ""

\* _read_csv passes over empty lines, _xlsx_sheet_rows over the cells a sheet leaves out.
Cells(file) ==
    IF file.ext = ".csv" THEN SelectSeq(file.rows, LAMBDA row : row # <<>>)
    ELSE [n \in DOMAIN file.rows |-> SelectSeq(file.rows[n], LAMBDA cell : cell # "gap")]

ReadSourceRows(file, max) ==
    LET rows == Cells(file) IN
    [headers |-> file.headers,
     rows |-> [n \in 1..Min({max, Len(rows)}) |->
                  [j \in DOMAIN file.headers |-> Below(file.headers, rows[n], file.headers[j])]]]

\* import_datasets, one file
ImportDataset(held, file, options) ==
    LET p == Target(file)
        Result(status, table) ==
            [record |-> [name |-> file.name, status |-> status, path |-> p, rows |-> Len(table.rows)],
             held |-> IF status = "imported" /\ ~options.dry
                      THEN [q \in DOMAIN held \cup {p} |-> IF q = p THEN table ELSE held[q]] ELSE held]
        empty == [headers |-> <<>>, rows |-> <<>>] IN
    IF \/ file.ext \notin {".csv", ".xlsx", ".xls"}
       \/ p \in DOMAIN held /\ ~options.force
       \/ ~file.opens
       \/ file.headers = <<>>
    THEN Result("skipped", empty)
    ELSE Result("imported", ReadSourceRows(file, options.max))

ImportDatasets(held, files, options) ==
    FoldLeft(LAMBDA state, file :
                 LET r == ImportDataset(state.held, file, options) IN
                 [held |-> r.held, records |-> Append(state.records, r.record)],
             [held |-> held, records |-> <<>>], files)

-----------------------------------------------------------------------------
(* Profiles                                                                 *)

\* A column is numeric if all that is not blank in it is a number, or some of it and its
\* name says so.
Numeric(header, values) ==
    LET filled == {i \in DOMAIN values : values[i] # ""}
        numbers == {i \in filled : values[i] = "number"} IN
    numbers # {} /\ (numbers = filled \/ header \in {"cost", "amount"})

MissingShare(values) ==
    IF values = <<>> THEN 0
    ELSE (100 * Cardinality({i \in DOMAIN values : values[i] = ""})) \div Len(values)

\* load_csv and profile_dataset: a row too short has no value to look at, and the profile
\* fails; one that has not as many fields as there are headers, which is one for each
\* header there is and one for the rest of the row, has a warning.
ProfileDataset(path, table) ==
    LET headers == Len(table.headers)
        Fields(row) == Cardinality(Range(table.headers)) + (IF Len(row) > headers THEN 1 ELSE 0)
        odd == {n \in DOMAIN table.rows : Fields(table.rows[n]) # headers}
        Column(h) == [n \in DOMAIN table.rows |-> Below(table.headers, table.rows[n], h)]
        missing == [h \in Range(table.headers) |-> MissingShare(Column(h))]
        sparse == {j \in DOMAIN table.headers : missing[table.headers[j]] > 50} IN
    IF \E n \in DOMAIN table.rows : Len(table.rows[n]) < headers
    THEN [id |-> path[2], kind |-> path[1], rows |-> 0, missing |-> <<>>, numeric |-> {},
          warnings |-> 1]
    ELSE [id |-> path[2], kind |-> path[1], rows |-> Len(table.rows), missing |-> missing,
          numeric |-> {h \in Range(table.headers) : Numeric(h, Column(h))},
          warnings |-> Cardinality(odd) + Cardinality(sparse)
                       + (IF table.headers = <<>> THEN 1 ELSE 0) + (IF table.rows = <<>> THEN 1 ELSE 0)]

\* DataProfileStore.add: a dataset is known by its file name alone.
AddProfile(profiles, p) == Append(SelectSeq(profiles, LAMBDA q : q.id # p.id), p)

\* profile_and_save, the files in the order of their paths.
ProfileAndSave(held, order) ==
    FoldLeft(LAMBDA profiles, path :
                 IF path \in DOMAIN held
                 THEN AddProfile(profiles, ProfileDataset(path, held[path])) ELSE profiles,
             <<>>, order)

-----------------------------------------------------------------------------
(* Concepts                                                                 *)

\* Some rules of COLUMN_RULES, of two names each in two rules, and which names are parts
\* of others.
ColumnRules == <<<<"cost", "expense">>, <<"spend", "expense">>, <<"tier", "customer_segment">>,
                 <<"spend", "marketing_spend">>, <<"tier", "strategic_goal">>, <<"team", "owner">>>>
Parts == {<<"spend", "spend_total">>, <<"cost", "cost_tier">>, <<"tier", "cost_tier">>}

\* _match_concept: the last rule of the name, or else the first whose name is a part of it or
\* has it as a part, as all have a blank name.
MatchConcept(name) ==
    LET exact == {n \in DOMAIN ColumnRules : ColumnRules[n][1] = name}
        partly == {n \in DOMAIN ColumnRules : name = "" \/ {<<ColumnRules[n][1], name>>, <<name, ColumnRules[n][1]>>} \cap Parts # {}} IN
    IF exact # {} THEN ColumnRules[Max(exact)][2]
    ELSE IF partly # {} THEN ColumnRules[Min(partly)][2] ELSE "none"

\* map_profiles_to_ontology
MapProfiles(profiles) ==
    UNION {{<<profiles[i].id, h, MatchConcept(h)>> :
               h \in {h \in DOMAIN profiles[i].missing : MatchConcept(h) # "none"}} : i \in DOMAIN profiles}
=============================================================================
