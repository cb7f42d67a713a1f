------------------------------ MODULE Extraction ------------------------------
(***************************************************************************)
(* extract_intelligence of graphing/extractor_v2.py: what a batch of texts   *)
(* says about named things, relations, risks and metrics, each with the      *)
(* evidence it was found in.                                                *)
(*                                                                         *)
(* A text is what the patterns find in it: [evidence, firms, phrases, dates,  *)
(* risks, amounts, metrics, relations], sets of names, the relations as      *)
(* <<source, type, target>> in the order of the sentences.  What kind of     *)
(* thing a name is, descriptions and units are left out.                    *)
(***************************************************************************)
EXTENDS Sequences

LOCAL INSTANCE SequencesExt

CONSTANT Long    \* names whose slug alone fills the 64 characters of an id

\* Ids are made of the first 64 characters of a slug: nodes keep their names apart,
\* edges of a long name do not.
EdgeId(rel) == IF rel[1] \in Long THEN <<rel[1]>> ELSE rel

Cites(text) == IF text.evidence = "" THEN {} ELSE {text.evidence}

Nothing == [nodes |-> <<>>, edges |-> <<>>, risks |-> <<>>, metrics |-> <<>>]

\* What was found before is passed over (_extract_named_entities, _extract_money,
\* _extract_dates, _extract_risks, _extract_metrics, ...).
CiteFirst(found, keys, cites) ==
    [k \in DOMAIN found \cup keys |-> IF k \in DOMAIN found THEN found[k] ELSE cites]

\* What was found before gets the evidence of this text, too (_upsert_node).
CiteEach(found, keys, cites) ==
    [k \in DOMAIN found \cup keys |->
        IF k \notin DOMAIN found THEN cites
        ELSE IF k \in keys THEN found[k] \cup cites ELSE found[k]]

Relate(edges, rel, cites) ==
    LET id == EdgeId(rel)
        kept == id \in DOMAIN edges IN
    [k \in DOMAIN edges \cup {id} |->
        IF k # id THEN edges[k]
        ELSE [ends |-> IF kept THEN edges[k].ends ELSE {rel[1], rel[3]},
              cites |-> IF kept THEN edges[k].cites \cup cites ELSE cites]]

Ends(text) == UNION {{text.relations[i][1], text.relations[i][3]} : i \in DOMAIN text.relations}

\* Companies, vendors and products; then phrases, where no node has their name;
\* then dates and addresses.
FindFirms(nodes, text) == CiteEach(nodes, text.firms, Cites(text))
FindPhrases(nodes, text) == CiteFirst(nodes, text.phrases, Cites(text))
FindDates(nodes, text) == CiteFirst(nodes, text.dates, Cites(text))
FindRisks(risks, text) == CiteFirst(risks, text.risks, Cites(text))
FindAmounts(metrics, text) == CiteFirst(metrics, text.amounts, Cites(text))
FindMetrics(metrics, text) == CiteFirst(metrics, text.metrics, Cites(text))

\* One relation for each sentence that states one; its ends become nodes.
FindRelations(found, text) ==
    [found EXCEPT
        !.nodes = CiteEach(@, Ends(text), Cites(text)),
        !.edges = FoldLeft(LAMBDA es, rel : Relate(es, rel, Cites(text)), @, text.relations)]

Read(found, text) ==
    FindRelations(
        [found EXCEPT
            !.nodes = FindDates(FindPhrases(FindFirms(@, text), text), text),
            !.risks = FindRisks(@, text),
            !.metrics = FindMetrics(FindAmounts(@, text), text)], text)

ExtractIntelligence(texts) == FoldLeft(Read, Nothing, texts)
=============================================================================
