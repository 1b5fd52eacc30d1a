------------------------------ MODULE Passages ------------------------------
(***************************************************************************)
(* The packing of evidence before a model sees it (knowledge/questions.py):*)
(* chunks are taken by score while what they merge into fits the budget,   *)
(* contiguous chunks of a document become one passage, and the text two    *)
(* chunks share is written once.  A text is a sequence of words.           *)
(***************************************************************************)
EXTENDS Naturals, Sequences, SequencesExt, FiniteSets

CONSTANTS
    Evidences,  \* sequences of chunks [doc, pos, text], best score first
    Budget,     \* characters the context may hold: words here
    Wrapper,    \* what the wrapper of one passage costs
    MinOverlap  \* shared words below which nothing is dropped: 3 in the code

VARIABLES
    evidence,   \* the chunks, best first
    left,       \* those not considered yet
    taken,
    chars,      \* chars[d]: what the chunks of d that were taken cost once merged
    passages    \* what is presented: passages[d]

vars == <<evidence, left, taken, chars, passages>>

Found == {c.doc : c \in ToSet(evidence)}

Has(text, part) == \E i \in 0..(Len(text) - Len(part)) : SubSeq(text, i + 1, i + Len(part)) = part

Separator == "|"

\* The prefix function: at each token, the longest beginning of the text that
\* ends there; a mismatch falls back to the next shorter candidate.
Borders(tokens) ==
    LET next(found, i) ==
          LET fall[s \in 0..Len(tokens)] == IF s = 0 \/ tokens[s + 1] = tokens[i] THEN s ELSE fall[found[s]]
              size == fall[found[i - 1]]
          IN  Append(found, IF tokens[size + 1] = tokens[i] THEN size + 1 ELSE size)
    IN  FoldLeft(next, <<0>>, [i \in 1..(Len(tokens) - 1) |-> i + 1])

Overlap(before, after) ==
    LET tail == SubSeq(before, IF Len(before) > Len(after) THEN Len(before) - Len(after) + 1 ELSE 1, Len(before))
        tokens == after \o <<Separator>> \o tail
    IN  Last(Borders(tokens))

Join(before, after) ==
    CASE Has(before, after) -> before
      [] Has(after, before) /\ ~ Has(before, after) -> after
      [] OTHER -> LET k == Overlap(before, after)
                  IN  before \o (IF k >= MinOverlap THEN SubSeq(after, k + 1, Len(after)) ELSE after)

\* A chunk extends the last passage it continues, vanishes into one that holds
\* its text already, or begins a passage.
Extend(found, chunk) ==
    LET last == found[Len(found)]
        holding == {i \in 1..Len(found) : Has(found[i].text, chunk.text)}
    IN  IF found # <<>> /\ last.end + 1 = chunk.pos
        THEN [found EXCEPT ![Len(found)] = [text |-> Join(last.text, chunk.text), end |-> chunk.pos, of |-> last.of \cup {chunk}]]
        ELSE IF holding # {}
        THEN LET i == CHOOSE i \in holding : \A j \in holding : i <= j
             IN  [found EXCEPT ![i].of = @ \cup {chunk}]
        ELSE Append(found, [text |-> chunk.text, end |-> chunk.pos, of |-> {chunk}])

InOrder(chunks) == SetToSortSeq(chunks, LAMBDA a, b : a.pos < b.pos)

Merge(chunks) == FoldLeft(Extend, <<>>, InOrder(chunks))

Cost(found) == FoldLeft(LAMBDA sum, p : sum + Wrapper + Len(p.text), 0, found)

Total == FoldFunction(LAMBDA x, y : x + y, 0, chars)

Proposed(d, cost) == Total - chars[d] + cost

\* A chunk is taken if, merged with those of its document, all still fits.
Consider ==
    /\ left # <<>>
    /\ LET chunk == Head(left)
           cost == Cost(Merge({c \in taken : c.doc = chunk.doc} \cup {chunk}))
       IN  IF Proposed(chunk.doc, cost) <= Budget
           THEN taken' = taken \cup {chunk} /\ chars' = [chars EXCEPT ![chunk.doc] = cost]
           ELSE UNCHANGED <<taken, chars>>
    /\ left' = Tail(left)
    /\ UNCHANGED <<evidence, passages>>

Present ==
    /\ left = <<>> /\ taken # {} /\ \A d \in Found : passages[d] = <<>>
    /\ passages' = [d \in Found |-> Merge({c \in taken : c.doc = d})]
    /\ UNCHANGED <<evidence, left, taken, chars>>

Init ==
    /\ evidence \in Evidences
    /\ left = evidence /\ taken = {}
    /\ chars = [d \in Found |-> 0] /\ passages = [d \in Found |-> <<>>]

Next == Consider \/ Present

Spec == Init /\ [][Next]_vars

-----------------------------------------------------------------------------
Longest(before, after) ==
    CHOOSE k \in 0..Len(after) :
        /\ k <= Len(before) /\ SubSeq(before, Len(before) - k + 1, Len(before)) = SubSeq(after, 1, k)
        /\ \A m \in (k + 1)..Len(after) :
             m > Len(before) \/ SubSeq(before, Len(before) - m + 1, Len(before)) # SubSeq(after, 1, m)

\* What two chunks share is found whole: never a word lost to a longer overlap
\* that was claimed, never a shorter one settled for.
OverlapIsLongest ==
    left = evidence =>
        \A i, j \in 1..Len(evidence) : Overlap(evidence[i].text, evidence[j].text) = Longest(evidence[i].text, evidence[j].text)

\* What is presented fits the budget although the passages were re-merged while
\* packing, every chunk taken is in one passage only, of its document, and its
\* text can be read there word for word.
PackedWhole ==
    (\E d \in Found : passages[d] # <<>>) =>
        /\ FoldSet(LAMBDA d, sum : sum + Cost(passages[d]), 0, Found) <= Budget
        /\ \A c \in taken :
            /\ Cardinality({i \in 1..Len(passages[c.doc]) : c \in passages[c.doc][i].of}) = 1
            /\ \E i \in 1..Len(passages[c.doc]) : c \in passages[c.doc][i].of /\ Has(passages[c.doc][i].text, c.text)
=============================================================================
