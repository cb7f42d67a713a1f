---------------------------- MODULE Verification ----------------------------
(***************************************************************************)
(* How a claim is judged by texts of the workspace: the verifier, the scorer *)
(* of evidence and the detector of contradictions (verification/verifier.py, *)
(* quality.py, contradictions.py).                                          *)
(*                                                                         *)
(* A text is [id, source, words, tone, says]: the terms in it; a subset of   *)
(* {"marker", "turn", "not"}: it holds the word CONTRADICTS, a phrase that    *)
(* turns against something, a denial; and what it states of metrics,         *)
(* conditions and risks.  A claim is [words, grave]; grave are recommendation,*)
(* decision and risk.  Words are counted alike whatever their length.        *)
(***************************************************************************)
EXTENDS Naturals, Sequences, FiniteSets

CONSTANT Important     \* the terms that weigh more

Shared(text, claim) == text.words \cap claim.words

\* _is_contradictory_text
Contradicts(text, claim) ==
    \/ "marker" \in text.tone
    \/ "turn" \in text.tone /\ Cardinality(Shared(text, claim)) >= 2
    \/ "not" \in text.tone /\ Cardinality(Shared(text, claim)) >= 3

\* Whether the score of _score_support, 0.4 of the claim's words and 0.6 of its
\* important ones being in the texts, is at least tenths / 10.
Supports(texts, claim, tenths) ==
    LET found == claim.words \cap UNION {t.words : t \in texts}
        all == Cardinality(claim.words)
        important == Cardinality(claim.words \cap Important)
        overlap == 4 * Cardinality(found)
        weighted == 6 * Cardinality(found \cap Important) IN
    /\ all > 0
    /\ IF important = 0 THEN overlap >= tenths * all
       ELSE overlap * important + weighted * all >= tenths * all * important

Ids(texts) == {t.id : t \in texts}
Verdict(status, cites, against, sources) ==
    [status |-> status, cites |-> cites, against |-> against, sources |-> sources]

\* Texts the claim cites, or texts a search has found; only of those that are cited
\* the sources are known.
Judge(texts, claim, direct) ==
    LET against == {t \in texts : Contradicts(t, claim)}
        for == texts \ against
        sources == IF direct THEN {t.source : t \in texts} ELSE {} IN
    IF against # {} THEN Verdict("contradicted", Ids(for), Ids(against), sources)
    ELSE Verdict(IF Supports(texts, claim, 3) THEN "supported" ELSE "uncertain", Ids(for), {}, sources)

\* _make_unsupported
Unsupported(claim) == Verdict(IF claim.grave THEN "needs_review" ELSE "unsupported", {}, {}, {})

\* verify_claim: what is cited comes first, a search second.
VerifyClaim(claim, cited, found) ==
    IF cited # {} THEN Judge(cited, claim, TRUE)
    ELSE IF found # {} THEN Judge(found, claim, FALSE)
    ELSE Unsupported(claim)

ScoreByCount(v) ==                       \* a mutant: how much is cited comes first
    IF Cardinality(v.cites) >= 2 /\ Cardinality(v.sources) > 1 THEN "strong"
    ELSE IF v.cites # {} THEN "moderate"
    ELSE IF v.against # {} THEN "contradicted" ELSE "missing"

\* EvidenceQualityScorer.score
Score(v) ==
    LET resolved == v.cites \ v.against IN
    IF v.against # {} THEN "contradicted"
    ELSE IF Cardinality(resolved) >= 2 /\ Cardinality(v.sources) > 1 THEN "strong"
    ELSE IF resolved # {} THEN "moderate"
    ELSE IF v.cites # {} THEN "weak" ELSE "missing"

-----------------------------------------------------------------------------
(* Contradictions between texts                                             *)

(* A text states metrics, <<unit, value>>; conditions, TRUE or FALSE as they   *)
(* are affirmed or denied; and a risk: "present", "absent" or "-".           *)
MetricConflict(a, b) ==
    \E m \in a.metrics, n \in b.metrics : m[1] = n[1] /\ m[2] # n[2]
OppositeStatus(a, b) ==
    \E s \in a.conditions, u \in b.conditions : s # u
RiskConflict(a, b) == {a.risk, b.risk} = {"present", "absent"}

Conflicts(a, b) ==
    {kind \in {"metric", "status", "risk"} :
        \/ kind = "metric" /\ MetricConflict(a, b)
        \/ kind = "status" /\ OppositeStatus(a, b)
        \/ kind = "risk" /\ RiskConflict(a, b)}

NeighboursOf(n) == {<<i, i + 1>> : i \in 1..(n - 1)}   \* a mutant: each with the next
Pairs(n) == {p \in (1..n) \X (1..n) : p[1] < p[2]}

\* scan_evidence: a record for each pair of texts and each kind.
ScanEvidence(says) ==
    {c \in Pairs(Len(says)) \X {"metric", "status", "risk"} :
        c[2] \in Conflicts(says[c[1][1]], says[c[1][2]])}

\* scan_claim_against_evidence: the texts that state another value than the claim, or
\* that deny what it affirms, or affirm what it denies, in three of its words.
ScanClaim(claim, says) ==
    {i \in DOMAIN says :
        \/ MetricConflict(claim, says[i])
        \/ /\ claim.denies # says[i].denies
           /\ Cardinality(claim.words \cap says[i].words) >= 3}
=============================================================================
