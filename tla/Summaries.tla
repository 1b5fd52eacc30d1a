----------------------------- MODULE Summaries -----------------------------
(***************************************************************************)
(* The two ends of an answer that rest on what a model wrote               *)
(* (knowledge/questions.py): the claims of a summary, which a second call  *)
(* assesses one by one, and the markers of an answer, which become the     *)
(* numbers of the sources shown.  Models may return anything their schema  *)
(* allows, or nothing: the assessor numbers its verdicts as it likes, and   *)
(* of what it read a verdict is taken at its word.                         *)
(***************************************************************************)
EXTENDS Naturals, Sequences, SequencesExt, FiniteSets

CONSTANTS
    Evidences,  \* sequences of passages [doc, literal, content, url]
    ClaimLists, \* what summarize_documents may return: sequences of [doc, passages]
    Answers     \* what answer may return: [group, cites], a group of markers and the citations

VARIABLES
    evidence,
    wrote,      \* what the first call returned
    supported,  \* supported[i]: the i-th claim written follows from its passages
    claims,     \* the claims the summary goes on with
    candidates, \* those sent to the assessor
    assessments, \* what the assessor returned, in order: the number it put, and the claim it read
    accepted,   \* claims presented as findings
    fallback,   \* passages quoted literally
    generated,  \* an answer as written and as consolidated
    cited,      \* the passages cited, in order
    shown,      \* the places in the list of sources the markers became
    stage
summary == <<wrote, supported, claims, candidates, assessments, accepted, fallback>>
answer == <<generated, cited, shown>>
vars == <<evidence, summary, answer, stage>>

Passage(i) == evidence[i]

-----------------------------------------------------------------------------
(* The summary.                                                            *)

\* A claim stands if it names passages, all of them of its own document.
Valid(claim) ==
    /\ claim.passages # <<>>
    /\ \A k \in 1..Len(claim.passages) :
        claim.passages[k] \in 1..Len(evidence) /\ Passage(claim.passages[k]).doc = claim.doc

Assessed(list) == SelectSeq(list, Valid)

\* The summary is written; a provider that fails leaves no claim at all.
Summarize ==
    /\ stage = "summarize"
    /\ \/ \E list \in ClaimLists, truth \in [1..2 -> BOOLEAN] :
            /\ wrote' = list /\ supported' = truth
            /\ candidates' = Assessed(list)
            /\ claims' = IF Assessed(list) = <<>> THEN <<>> ELSE list
            /\ stage' = IF Assessed(list) = <<>> THEN "evaluate" ELSE "assess"
       \/ UNCHANGED <<wrote, supported, claims, candidates>> /\ stage' = "evaluate"
    /\ UNCHANGED <<evidence, assessments, accepted, fallback, answer>>

Truth(claim) == \E i \in 1..Len(wrote) : wrote[i] = claim /\ supported[i]

\* Up to two verdicts, each on some claim sent, under the number of one or of none (0).
Verdicts(n) == UNION {[1..k -> [number : 0..n, about : 1..n]] : k \in 0..2}

\* It may skip claims, judge one twice, or fail: the claims are then the ones written, not
\* the ones that stood.
Assess ==
    /\ stage = "assess"
    /\ \/ \E list \in Verdicts(Len(candidates)) : assessments' = list /\ claims' = candidates
       \/ UNCHANGED <<assessments, claims>>
    /\ stage' = "evaluate"
    /\ UNCHANGED <<evidence, wrote, supported, candidates, accepted, fallback, answer>>

Favourable(k) == Truth(candidates[assessments[k].about])

\* Mutant of Judged: a later claim takes the verdict of an earlier one that was skipped.
JudgedInTurn(i) == Cardinality({k \in DOMAIN assessments : Favourable(k)}) >= i

\* The first verdict under the number of a claim is the claim's.
Judged(i) ==
    \E k \in DOMAIN assessments :
        /\ assessments[k].number = i /\ Favourable(k)
        /\ \A l \in 1..(k - 1) : assessments[l].number # i

\* The rest fall back to a literal sentence of their first passage, and so does
\* every document nothing else speaks for.
Readable(claim) == claim.passages # <<>> /\ claim.passages[1] <= Len(evidence)

Evaluate ==
    /\ stage = "evaluate"
    /\ IF \A i \in 1..Len(claims) : Readable(claims[i])
       THEN LET good == {i \in 1..Len(claims) : Judged(i)}
                first(i) == IF claims[i].passages[1] = 0 THEN Len(evidence) ELSE claims[i].passages[1]
                literal == {first(i) : i \in {j \in 1..Len(claims) \ good : Passage(first(j)).literal}}
                spoken == {Passage(first(i)).doc : i \in good} \cup {Passage(p).doc : p \in literal}
                silent == {p \in 1..Len(evidence) : Passage(p).literal /\ Passage(p).doc \notin spoken}
            IN  /\ accepted' = {claims[i] : i \in good}
                /\ fallback' = literal \cup {p \in silent : \A o \in silent : Passage(o).doc = Passage(p).doc => p <= o}
                /\ stage' = "summarised"
       ELSE stage' = "error" /\ UNCHANGED <<accepted, fallback>>
    /\ UNCHANGED <<evidence, wrote, supported, claims, candidates, assessments, answer>>

-----------------------------------------------------------------------------
(* The answer.                                                             *)

InRange(cites) == \A k \in 1..Len(cites) : cites[k] \in 1..Len(evidence)

\* Passages with the same content count once: one of those cited stands for all.
Alike(i) == {j \in 1..Len(evidence) : Passage(j).content = Passage(i).content}

Canonical(i, cites) ==
    LET used == SelectSeq(cites, LAMBDA j : j \in Alike(i))
        linked == SelectSeq(used, LAMBDA j : Passage(j).url # "")
    IN  IF linked # <<>> THEN linked[1] ELSE used[1]

Alias(i, cites) == IF Contains(cites, i) THEN Canonical(i, cites) ELSE i

Unique(list) == FoldLeft(LAMBDA kept, x : IF Contains(kept, x) THEN kept ELSE Append(kept, x), <<>>, list)

Consolidated(written) ==
    LET aliased(list) == Unique([k \in 1..Len(list) |-> Alias(list[k], written.cites)]) IN
    IF written.cites = <<>> \/ ~ InRange(written.cites) THEN written
    ELSE [group |-> aliased(written.group), cites |-> aliased(written.cites)]

Generate ==
    /\ stage = "answer"
    /\ \E written \in Answers :
        generated' = [written |-> written, kept |-> Consolidated(written)]
    /\ stage' = "number"
    /\ UNCHANGED <<evidence, summary, cited, shown>>

\* What identifies a source to the reader: its link, or its document.
Source(i) == IF Passage(i).url # "" THEN Passage(i).url ELSE Passage(i).doc

ToCite(cites) == IF cites # <<>> /\ InRange(cites) /\ Cardinality(ToSet(cites)) = Len(cites) THEN cites ELSE <<>>

\* The markers become places in the list of sources; those of a passage that is
\* not cited disappear.
Number ==
    /\ stage = "number"
    /\ LET cites == ToCite(generated.kept.cites)
           sources == Unique([k \in 1..Len(cites) |-> Source(cites[k])])
           marks == SelectSeq(generated.kept.group, LAMBDA i : Contains(cites, i))
       IN  /\ cited' = cites
           /\ shown' = Unique([k \in 1..Len(marks) |-> CHOOSE o \in 1..Len(sources) : sources[o] = Source(marks[k])])
    /\ stage' = "answered"
    /\ UNCHANGED <<evidence, summary, generated>>

-----------------------------------------------------------------------------
Init ==
    /\ evidence \in Evidences
    /\ stage \in {"summarize", "answer"}
    /\ wrote = <<>> /\ claims = <<>> /\ supported = <<FALSE, FALSE>> /\ candidates = <<>> /\ assessments = <<>>
    /\ accepted = {} /\ fallback = {}
    /\ generated = <<>> /\ cited = <<>> /\ shown = <<>>

Next == Summarize \/ Assess \/ Evaluate \/ Generate \/ Number

Spec == Init /\ [][Next]_vars

-----------------------------------------------------------------------------
\* The verdict of a claim was put under the number of another.
Misnumbered(claim) ==
    \E k \in DOMAIN assessments :
        LET v == assessments[k] IN v.number \in 1..Len(claims) /\ v.number # v.about /\ claims[v.number] = claim

\* A statement is presented as a finding only if it rests on passages of its own document and
\* follows from them, unless the assessor put another's verdict under its number; a summary
\* that ends leaves no document silent that has a sentence to show; and it ends, unless the
\* assessor failed after the first call had written a claim with no passage to read
\* (_evaluate_summary_claims).
SummaryGrounded ==
    /\ stage = "summarised" =>
        /\ \A claim \in accepted : Valid(claim) /\ (Truth(claim) \/ Misnumbered(claim))
        /\ \A p \in 1..Len(evidence) : Passage(p).literal =>
            \/ \E claim \in accepted : Passage(claim.passages[1]).doc = Passage(p).doc
            \/ \E q \in fallback : Passage(q).doc = Passage(p).doc
    /\ stage = "error" =>
        /\ candidates # <<>> /\ claims # candidates /\ assessments = <<>>
        /\ \E i \in 1..Len(wrote) : ~Readable(wrote[i])

\* Every marker of a passage that was cited still points, in the list shown, at
\* a source that says what that passage says.
MarkersKept ==
    stage = "answered" /\ cited # <<>> =>
        \A k \in 1..Len(generated.written.group) :
            LET i == generated.written.group[k]
                sources == Unique([m \in 1..Len(cited) |-> Source(cited[m])])
            IN  Contains(generated.written.cites, i) =>
                \E o \in ToSet(shown), j \in ToSet(cited) :
                    sources[o] = Source(j) /\ (Passage(j).content = Passage(i).content \/ Source(j) = Source(i))
=============================================================================
