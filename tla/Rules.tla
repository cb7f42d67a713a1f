-------------------------------- MODULE Rules --------------------------------
(***************************************************************************)
(* The parts of the system that are functions: of a document (Parsing),     *)
(* of a cron expression (here), of texts with facts (Extraction), of folders  *)
(* of tables (Catalog), of data profiles (Insights), of a question            *)
(* (Orchestration).  A behaviour applies one rule to one input; the inputs    *)
(* are all small ones of a kind the rule is called with.                     *)
(***************************************************************************)
EXTENDS Integers, Sequences, SequencesExt, FiniteSets, Functions, TLC

CONSTANT None   \* no output yet

VARIABLES rule, input, output
vars == <<rule, input, output>>

P == INSTANCE Parsing

Long == {"holding"}
E == INSTANCE Extraction
A == INSTANCE Catalog
I == INSTANCE Insights
O == INSTANCE Orchestration
R == INSTANCE ConnectorRules
N == INSTANCE DecisionRules

-----------------------------------------------------------------------------
(* Cron expressions (scheduler/triggers.py).  A field is what its text says: *)
(* a record with a form and, where the form has them, numbers; a list field  *)
(* is a sequence of numbers, which are ranges of one, and ranges.            *)

Values(set) == [ok |-> TRUE, set |-> set]
ValueError == [ok |-> FALSE, set |-> {}]

\* _parse_cron_field: ranges and lists are not held against the bounds of the field.
\* A range that runs backwards is an error on its own, and empty in a list.
ParseCronField(field, min, max) ==
    CASE field.form = "any" -> Values(min..max)
      [] field.form = "step" /\ field.low > 0 ->
             Values({v \in min..max : (v - min) % field.low = 0})
      [] field.form = "range" /\ field.low <= field.high -> Values(field.low..field.high)
      [] field.form = "number" -> Values({field.low})
      [] field.form = "list" ->
             Values(UNION {field.items[i].low..field.items[i].high : i \in DOMAIN field.items})
      [] OTHER -> ValueError

\* _parse_cron: minute, hour, day of month, month, day of week.
FieldRange == <<<<0, 59>>, <<0, 23>>, <<1, 31>>, <<1, 12>>, <<0, 6>>>>
ParseCron(expression) ==
    [i \in 1..5 |-> ParseCronField(expression[i], FieldRange[i][1], FieldRange[i][2])]

\* _cron_matches: dt is <<minute, hour, day, month, weekday>>, weekday 0 a Monday.
CronMatches(expression, dt) ==
    LET parsed == ParseCron(expression) IN
    \A i \in 1..5 : parsed[i].ok /\ dt[i] \in parsed[i].set

-----------------------------------------------------------------------------
(* Inputs                                                                   *)

Para == {<<>>, <<"a">>, <<"a", "b">>, <<"b", "b", "b">>}
Piece(n) == SeqOf(Para, n)
Single == {<<p>> : p \in Piece(3)}
Several == UNION {[1..n -> Piece(2)] : n \in 0..2}

Document(kinds, pieces) == [kind : kinds, opens : {TRUE}, pieces : pieces]
Documents ==
    Document({"text", "image"}, Single)
    \cup Document({"pdf", "docx"}, Several)
    \cup Document({"xlsx"}, Several \ {<<>>})
    \cup Document({"json"}, {ps \in Several : \A i \in DOMAIN ps : ~P!Blank(ps[i])})
    \cup [kind : {"text", "image", "pdf", "docx", "xlsx", "json"}, opens : {FALSE},
          pieces : {<<>>}]

\* What optical recognition makes of a document.
Scans == Document({"pdf"}, {<<>>, <<<<<<>>>>>>, <<<<<<"a">>, <<"b">>>>>>})
         \cup [kind : {"pdf"}, opens : {FALSE}, pieces : {<<>>}]

Field(form, lows, highs) ==
    [form : {form}, low : lows, high : highs, items : {<<>>}]
Item == [low : {0, 5}, high : {1, 5, 7}]
Fields ==
    Field("any", {0}, {0}) \cup Field("step", 0..3, {0}) \cup Field("number", 0..7, {0})
    \cup Field("range", 0..7, 0..7)
    \cup [form : {"list"}, low : {0}, high : {0}, items : [1..2 -> Item]]

\* An expression is looked at in one field, the others being "*".
Star == [form |-> "any", low |-> 0, high |-> 0, items |-> <<>>]
Weekdays(field) == <<Star, Star, Star, Star, field>>

Said == [evidence : {"", "d1", "d2"}, firms : {{}, {"acme"}}, phrases : {{}, {"acme", "beta"}},
         dates : {{"friday"}}, risks : {{}, {"outage"}}, amounts : {{"$1"}}, metrics : {{"revenue"}},
         relations : {<<>>, <<<<"acme", "supplies", "beta">>>>,
                      <<<<"holding", "owns", "acme">>, <<"holding", "owns", "beta">>>>}]

\* Tables in a folder, and tables of the data root: one whose rows are too short or too long,
\* and one below another category.
Table(names, exts, headers, rows) ==
    [name : names, slug : {"q_1"}, word : {"plain"}, ext : exts, opens : {TRUE}, headers : headers, rows : rows]
Sheet == CHOOSE f \in Table({"q 1"}, {".csv"}, {<<"note", "spend">>}, {<<<<"text", "number">>>>}) : TRUE
Tables ==
    Table({"q 1"}, {".csv"}, {<<"note", "spend">>, <<"note", "note">>, <<"cost_tier", "">>},
          {<<>>, <<<<>>, <<"text", "number">>, <<"">>>>, <<<<"">>, <<"", "number", "more">>, <<"text">>>>})
    \cup Table({"q-1"}, {".csv", ".xls"}, {<<"tier">>}, {<<<<"number">>>>})
    \cup Table({"q 1"}, {".xlsx"}, {<<"note", "spend">>}, {<<<<"gap", "number">>>>, <<<<"text", "number">>, <<"", "">>>>})
    \cup {[Sheet EXCEPT !.headers = <<>>, !.rows = <<>>], [Sheet EXCEPT !.opens = FALSE],
          [Sheet EXCEPT !.ext = ".bak"], [Sheet EXCEPT !.word = "retail"], [Sheet EXCEPT !.slug = "r_2"]}
Kept == {<<>>, <<"sales", "q_1">> :> [headers |-> <<"cost">>, rows |-> <<<<"">>, <<"text">>>>]}
        \cup {<<"unknown", "q_1">> :> [headers |-> <<"cost", "team">>, rows |-> <<row>>] :
                 row \in {<<"number">>, <<"number", "text", "more">>}}
Folder == [held : Kept, files : BoundedSeq(Tables, 2), options : [max : {1, 3}, force : BOOLEAN, dry : BOOLEAN]]

\* A profile without missing data and warnings, of rows of one kind.
Profile(kind, tables) ==
    [id : {"p"}, kind : {kind}, rows : {4}, missing : {<<>>}, warnings : {0}, top : {0},
     margin : {None}, table : tables]
Two(rows) == BoundedSeq(rows, 2)
Profiles ==
    [id : {"p"}, kind : {"sales", "customers"}, rows : {4}, missing : {<<>>, [a |-> 30, b |-> 60]},
     warnings : {0, 2, 3, 7}, top : {0, 2, 3, 4}, margin : {None}, table : {<<>>}]
    \cup [id : {"p"}, kind : {"financial"}, rows : {4}, missing : {<<>>}, warnings : {0},
          top : {0}, margin : {None, 4, 9, 20}, table : Two([ratio : {50, 90, 99}])]
    \cup Profile("marketing", Two([channel : {"web", "mail"}, spend : {0, 10}, revenue : {4, 10},
                                  conversions : {0, 1}]))
    \cup Profile("feedback", Two([issue : {"", "late", "broken"}, negative : BOOLEAN, refund : BOOLEAN]))
    \cup Profile("products", Two([product : {"x", "y"}, margin : {4, 10, 20}, returned : {5, 20}]))
    \cup Profile("competitors", Two([competitor : {"x", "y"}, price : {5}, ours : {5, 7}, review : {30, 40}]))
    \cup Profile("operations", Two([process : {"x", "y"}, delay : {2, 4, 8}, bottleneck : BOOLEAN]))
    \cup Profile("analytics", Two([page : {"x", "y"}, sessions : {900, 2000}, conversion : {1, 5},
                                  bounce : {50, 70}]))
    \cup Profile("strategic", Two([goal : {"x", "y"}, urgent : BOOLEAN, constrained : BOOLEAN,
                                  owned : BOOLEAN]))
NoGraph == [entities |-> {}, edges |-> {}]
Edge(id, type, from) == [id |-> id, from |-> from, type |-> type, to |-> "crm"]
Graph(edges) ==
    [entities |-> {[id |-> "crm", kind |-> "system"], [id |-> "ops", kind |-> "team"]}, edges |-> edges]
Graphs == {Graph(edges) : edges \in SUBSET ({Edge(n, "depends_on", "x") : n \in 1..4}
                                           \cup {Edge(5, "contradicts", "x"), Edge(6, "contradicts", "y"),
                                                 Edge(7, "owned_by", "ops")})}
Surveys == [profiles : {<<p>> : p \in Profiles}, graph : {NoGraph}] \cup [profiles : {<<>>}, graph : Graphs]

Few(set) == {s \in SUBSET set : Cardinality(s) <= 2}
Questions == [named : Few(O!Types \ {"general"}), broader : {{}, {"risk"}, {"sales", "risk"}}, about : {{}}]

\* Files two imports find in a folder; what is not of interest is plain.
Found(dirs, names, kinds) ==
    [dir : dirs, name : names, kind : kinds, protected : {FALSE}, link : {FALSE}, gone : {FALSE},
     body : {0}]
Plain == CHOOSE f \in Found({""}, {<<"b">>}, {"md"}) : TRUE
Files == Found({"", "sub"}, {<<"a">>, <<"a", 1>>}, {"md", "json"})
         \cup {[Plain EXCEPT !.dir = ".git"], [Plain EXCEPT !.protected = TRUE],
               [Plain EXCEPT !.link = TRUE], [Plain EXCEPT !.gone = TRUE], [Plain EXCEPT !.kind = "exe"]}
Folders == {folder \in BoundedSeq(Files, 2) : IsInjective(folder)}

\* Answers of a source to one item: content at once, after a retry, or never.
Always(words) == [k \in 1..4 |-> words]
Answers == {Always({}), Always({"final"}), Always({"transient"}), Always({"429"}), Always({"429", "final"}),
            <<{"429"}, {}, {}, {}>>, <<{"transient"}, {"429", "final"}, {}, {}>>,
            <<{"transient"}, {"transient"}, {"429"}, {"429"}>>}
Fetches == [gap : {0, 31, 60}, answers : Answers]

-----------------------------------------------------------------------------

Init ==
    \/ N!Init
    \/ /\ output = None
       /\ \/ rule = "parse" /\ input \in [doc : Documents, scanned : Scans]
          \/ rule = "cron" /\ input \in Fields
          \/ rule = "extract" /\ input \in BoundedSeq(Said, 2)
          \/ rule = "collect" /\ input \in Folder
          \/ rule = "detect" /\ input \in Surveys
          \/ rule = "plan" /\ input \in Questions
          \/ rule = "copy" /\ input \in Folders \X Folders
          \/ rule = "fetch" /\ input \in BoundedSeq(Fetches, 3)
          \/ rule = "track" /\ input \in BoundedSeq({"a", "b", "c"}, 5)

Apply(name, result) ==
    /\ rule = name /\ output = None
    /\ output' = result /\ UNCHANGED <<rule, input>>

\* parse_document
ParseFile == rule = "parse" /\ Apply("parse", P!ParseWithOcr(input.doc, input.scanned))

\* evaluate_cron on each day of a week.
EvaluateCron ==
    /\ rule = "cron"
    /\ Apply("cron", {d \in 0..6 : CronMatches(Weekdays(input), <<0, 0, 1, 1, d>>)})

\* extract_intelligence
ExtractFacts == rule = "extract" /\ Apply("extract", E!ExtractIntelligence(input))

\* import_datasets, profile_and_save, map_profiles_to_ontology
CollectTables ==
    /\ rule = "collect"
    /\ LET kept == A!ImportDatasets(input.held, input.files, input.options)
           profiles == A!ProfileAndSave(kept.held, <<<<"sales", "q_1">>, <<"unknown", "q_1">>, <<"unknown", "r_2">>>>) IN
       Apply("collect", [held |-> kept.held, records |-> kept.records, profiles |-> profiles,
                         mapping |-> A!MapProfiles(profiles)])

\* run_detectors
DetectPatterns == rule = "detect" /\ Apply("detect", I!RunDetectors(input.profiles, input.graph))

\* analyze_problem and build_dispatch_plan
PlanTools == rule = "plan" /\ Apply("plan", O!Plan(input))

\* run_local_files_import of one folder, then of another; a file's body tells it from
\* all others.
CopyFolders ==
    /\ rule = "copy"
    /\ LET Stamped(n) == [k \in DOMAIN input[n] |-> [input[n][k] EXCEPT !.body = <<n, k>>]]
           first == R!RunImport(<<>>, Stamped(1)) IN
       Apply("copy", <<first, R!RunImport(first.held, Stamped(2))>>)

\* _process_batch over items of a source.
FetchItems == rule = "fetch" /\ Apply("fetch", R!FetchAll(input))

\* fetch_item_fn, each time an item is imported.
TrackItem == rule = "track" /\ Apply("track", R!TrackAll(input))

(* The nodes of workflows and the decision pipeline: DecisionRules.          *)

Next == N!Next \/ ParseFile \/ EvaluateCron \/ ExtractFacts \/ CollectTables \/ DetectPatterns \/ PlanTools
        \/ CopyFolders \/ FetchItems \/ TrackItem

Spec == Init /\ [][Next]_vars

-----------------------------------------------------------------------------
(* Properties                                                               *)

Done(name) == rule = name /\ output # None

\* What a parser makes of a document that opens is all of the text in it, in order,
\* in chunks below the limit unless a paragraph alone is above; and a file nothing was
\* read from comes back with a warning, never as a success, an empty JSON value excepted.
ChunksKeepTheText ==
    Done("parse") =>
        LET Text(pieces) == FlattenSeq(FlattenSeq(pieces))
            texts == [i \in DOMAIN output.chunks |-> output.chunks[i].text] IN
        /\ input.doc.opens =>
              /\ Text(texts) \in {Text(input.doc.pieces), Text(input.scanned.pieces)}
              /\ Text(input.doc.pieces) # <<>> => Text(texts) = Text(input.doc.pieces)
        /\ \A i \in DOMAIN texts :
              Len(FlattenSeq(texts[i])) < P!Limit \/ Len(texts[i]) = 1
        /\ texts = <<>> =>
              output.warned \/ (input.doc.kind = "json" /\ input.doc.opens)

\* Every entity and relationship preserves source evidence IDs: what a text says of a
\* firm or of how two things relate cites that text, however often others said so
\* before, and also when the relation shares its cut off id with another; and whatever
\* a text states is found.
TextsAreCited ==
    Done("extract") => \A i \in DOMAIN input :
        LET c == E!Cites(input[i])
            rels == {input[i].relations[j] : j \in DOMAIN input[i].relations} IN
        /\ \A k \in input[i].firms \cup E!Ends(input[i]) :
              k \in DOMAIN output.nodes /\ c \subseteq output.nodes[k]
        /\ \A rel \in rels :
              E!EdgeId(rel) \in DOMAIN output.edges /\ c \subseteq output.edges[E!EdgeId(rel)].cites
        /\ input[i].phrases \cup input[i].dates \subseteq DOMAIN output.nodes
        /\ input[i].risks \subseteq DOMAIN output.risks
        /\ input[i].amounts \cup input[i].metrics \subseteq DOMAIN output.metrics

\* Nothing a detector reports is lost or reported twice, however many others report the
\* same thing of something else; all of several contradictions are there, each serious
\* (InsightStore.add, run_detectors).
NothingFoundIsLost ==
    Done("detect") =>
        LET Keys(category) == {x.id[3][1] : x \in {y \in output : y.category = category}}
            Breaks(p, r) ==
                CASE p.kind = "products" -> r.margin < 15 /\ r.returned > 10
                  [] p.kind = "competitors" -> r.price + 1 < r.ours /\ r.review > 35
                  [] p.kind = "analytics" -> r.bounce > 60 \/ (r.sessions > 1000 /\ r.conversion < 3)
                  [] OTHER -> FALSE
            About(p, r) == CASE p.kind = "products" -> <<"product_risk", r.product>>
                             [] p.kind = "competitors" -> <<"competitor_risk", r.competitor>>
                             [] p.kind = "analytics" -> <<"analytics_conversion_risk", r.page>> IN
        /\ \A x, y \in output : x.id = y.id => x = y
        /\ \A i \in DOMAIN input.profiles :
              LET p == input.profiles[i] IN
              /\ \A n \in DOMAIN p.table : Breaks(p, p.table[n]) =>
                    About(p, p.table[n])[2] \in Keys(About(p, p.table[n])[1])
              /\ \A c \in DOMAIN p.missing : p.missing[c] > 20 => c \in Keys("missing_data")
        /\ \A e \in input.graph.edges : e.type = "contradicts" =>
              I!Insight("contradiction", e.id, <<>>, "high") \in output

\* An import of tables says of each file what became of it, changes no table it was not told
\* to, and what it imported is there, each cell below its header, unless a later file took the
\* place, which without force none does (import_datasets).
TablesAreKept ==
    Done("collect") =>
        LET files == input.files  records == output.records  options == input.options
            imported == {k \in DOMAIN records : records[k].status = "imported"}
            Stays(k) == \A m \in imported : records[m].path = records[k].path => m <= k
            Plainly(file) == IsInjective(file.headers) /\ \A n \in DOMAIN file.rows : "gap" \notin Range(file.rows[n])
            Filled(file) == SelectSeq(file.rows, LAMBDA row : row # <<>>) IN
        /\ Len(records) = Len(files) /\ \A k \in DOMAIN records : records[k].name = files[k].name
        /\ \A p \in DOMAIN input.held :
              /\ p \in DOMAIN output.held
              /\ options.dry \/ ~options.force => output.held[p] = input.held[p]
        /\ options.dry => output.held = input.held
        /\ ~options.dry /\ ~options.force => \A k, m \in imported : k # m => records[k].path # records[m].path
        /\ ~options.dry => \A k \in imported : Stays(k) =>
              LET table == output.held[records[k].path]  source == Filled(files[k]) IN
              /\ table.headers = files[k].headers /\ Len(table.rows) = records[k].rows
              /\ Len(source) <= options.max => Len(table.rows) = Len(source)
              /\ Plainly(files[k]) => \A n \in DOMAIN table.rows, j \in DOMAIN table.headers :
                    table.rows[n][j] = IF j <= Len(source[n]) THEN source[n][j] ELSE ""

\* A table whose name no other category has is looked into whole: what is blank in more than
\* a fifth of its rows is found, a column that the rules name has a concept of its name, and
\* rows that do not fit the header are found, all there is if one of them is too short
\* (profile_and_save, map_profiles_to_ontology).
TablesAreLookedInto ==
    Done("collect") => \A p \in DOMAIN output.held :
        LET table == output.held[p]
            found == UNION {Range(I!MissingData(q) \o I!DataQuality(q)) : q \in Range(output.profiles)}
            quality == \E x \in found : x.category = "data_quality" /\ x.id[2] = p[2]
            short == \E n \in DOMAIN table.rows : Len(table.rows[n]) < Len(table.headers)
            long == \E n \in DOMAIN table.rows : Len(table.rows[n]) > Len(table.headers)
            Blank(j) == {n \in DOMAIN table.rows : table.rows[n][j] = ""}
            Named(h) == {A!ColumnRules[n][2] : n \in {n \in DOMAIN A!ColumnRules : A!ColumnRules[n][1] = h}} IN
        (\A q \in DOMAIN output.held : q[2] = p[2] => q = p) =>
            /\ short \/ (long /\ IsInjective(table.headers)) => quality
            /\ ~short =>
                  /\ \A j \in DOMAIN table.headers : 5 * Cardinality(Blank(j)) > Len(table.rows) =>
                        \E x \in found : x.category = "missing_data" /\ x.id[2] = p[2] /\ x.id[3] = <<table.headers[j]>>
                  /\ \A h \in Range(table.headers) : Named(h) # {} =>
                        \E c \in Named(h) : <<p[2], h, c>> \in output.mapping

\* A tool comes after those whose results it reads, if they are called for at all, and
\* every tool is either called or named as skipped (build_dispatch_plan).
ToolsFollowInputs ==
    Done("plan") =>
        LET order == output.order IN
        /\ \A i, j \in DOMAIN order : order[j] \in O!Reads[order[i]] => j < i
        /\ DOMAIN O!Reads = Range(order) \cup output.skipped
        /\ "detect-patterns" \in Range(order) =>
              {"profile-data", "extract-graph"} \cap Range(order) # {}

\* "never overwriting an existing file silently" of _copy_safe: every file an import
\* found is copied to a place of its own or skipped, and no copy of an earlier import is
\* touched, however the names collide once documents have lost their folder.
CopiesStand ==
    Done("copy") =>
        LET a == output[1]  b == output[2] IN
        /\ \A n \in 1..2 :
              /\ {f.body : f \in output[n].imported \cup output[n].skipped}
                    = {<<n, k>> : k \in {k \in DOMAIN input[n] : input[n][k].dir # ".git"}}
              /\ \A f \in output[n].imported : \E p \in DOMAIN output[n].held :
                    output[n].held[p] = f.body /\ p.kind = f.kind /\ IsPrefix(f.name, p.name)
        /\ \A p \in DOMAIN a.held : p \in DOMAIN b.held /\ b.held[p] = a.held[p]
        /\ Cardinality(DOMAIN b.held) = Cardinality(a.imported) + Cardinality(b.imported)

\* No item is asked for within the window an earlier rate-limit error opened, all its
\* retries being part of the error, and none is held off without such an error
\* (_process_batch, check_rate_limited).
WindowsAreKept ==
    Done("fetch") => \A j \in DOMAIN output.done :
        LET d == output.done IN
        d[j].held <=> \E i \in 1..(j - 1) :
            "429" \in d[i].error /\ d[j].from < d[i].to + R!RetryAfter

\* An item has a version for each change of its content, in order, all superseded but the
\* last, the duplicate store knows the last, and each was handed to the evidence bridge,
\* also when an item changes back (fetch_item_fn, check_duplicate, create_version).
ChangesAreVersions ==
    Done("track") =>
        LET changes == {i \in DOMAIN input : i = 1 \/ input[i] # input[i - 1]}
            v == output.versions IN
        /\ Len(v) = Cardinality(changes) /\ output.number = Len(v)
        /\ \A i \in changes :
              LET n == Cardinality({k \in changes : k <= i}) IN
              /\ v[n].hash = input[i] /\ output.collected[n] = input[i]
              /\ v[n].superseded <=> n # Len(v)
        /\ v # <<>> => output.known = Last(v).hash

\* "N-M -- range (e.g. 1-5 matches Mon-Fri)" of _parse_cron.
OneToFiveIsMondayToFriday ==
    Done("cron") /\ input.form = "range" /\ input.low = 1 /\ input.high = 5 => output = 0..4
=============================================================================
