------------------------------- MODULE Chunking -------------------------------
(***************************************************************************)
(* How the text of a document becomes the chunks that are embedded         *)
(* (ingestion/service.py): blocks are split into pieces at sentences, and  *)
(* pieces are packed into chunks that repeat the end of the one before.    *)
(*                                                                         *)
(* Words are numbered along their block, so a text is a sequence of        *)
(* numbers; a line of a block is the lengths of its sentences.             *)
(***************************************************************************)
EXTENDS Naturals, SequencesExt

CONSTANTS
  Documents,  \* sequences of blocks; a block is a sequence of lines
  Target,     \* CHUNK_TARGET_TOKENS
  Overlap,    \* CHUNK_OVERLAP_TOKENS
  MaxChunks   \* MAX_CHUNKS_PER_DOCUMENT

VARIABLES
  document,
  read,       \* blocks read so far
  chunks      \* [block, words]; the notice of a cut document has no words

vars == <<document, read, chunks>>

Interval(from, to) == [n \in 1..(IF to < from THEN 0 ELSE to - from + 1) |-> from + n - 1]

\* Mutant of Slices: the slices of a long sentence overlap too.
SlicesOverlapped(words) ==
  LET more == (Len(words) + Overlap - 1) \div (Target - Overlap) IN
  [n \in 1..more |-> SubSeq(words, (n - 1) * (Target - Overlap) + 1,
                            IF (n - 1) * (Target - Overlap) + Target > Len(words) THEN Len(words)
                            ELSE (n - 1) * (Target - Overlap) + Target)]

\* A sentence longer than a chunk: one whole slice, then shorter ones that leave
\* room for the words the chunks repeat.
Slices(words) ==
  LET step == Target - Overlap
      more == (Len(words) - Target + step - 1) \div step
      to(n) == IF Target + n * step > Len(words) THEN Len(words) ELSE Target + n * step
  IN  <<SubSeq(words, 1, Target)>> \o [n \in 1..more |-> SubSeq(words, Target + (n - 1) * step + 1, to(n))]

\* The pieces of a line: sentences together while they fit.
Pieces(line, from) ==
  LET Take(now, length) ==
        LET words == Interval(now.next, now.next + length - 1)
            closed == IF now.piece = <<>> THEN now.pieces ELSE Append(now.pieces, now.piece)
        IN  [next |-> now.next + length,
             pieces |-> IF length > Target THEN closed \o Slices(words)
                        ELSE IF now.piece # <<>> /\ Len(now.piece) + length > Target THEN closed ELSE now.pieces,
             piece |-> IF length > Target THEN <<>>
                       ELSE IF Len(now.piece) + length > Target THEN words ELSE now.piece \o words]
      all == FoldLeft(Take, [next |-> from, pieces |-> <<>>, piece |-> <<>>], line)
  IN  IF all.piece = <<>> THEN all.pieces ELSE Append(all.pieces, all.piece)

\* A piece that does not fit closes the chunk; the next begins with its last words.
Pack(now, piece) ==
  IF now.current # <<>> /\ Len(now.current) + Len(piece) > Target
  THEN [done |-> Append(now.done, now.current),
        current |-> SubSeq(now.current, IF Len(now.current) > Overlap THEN Len(now.current) - Overlap + 1 ELSE 1,
                           Len(now.current)) \o piece]
  ELSE [now EXCEPT !.current = @ \o piece]

Length(block) == FoldLeft(LAMBDA sum, line : FoldLeft(LAMBDA n, length : n + length, sum, line), 0, block)

\* _chunk_block
ChunksOf(block) ==
  LET pieces == FoldLeft(LAMBDA now, line : [next |-> now.next + Length(<<line>>),
                                             all |-> now.all \o Pieces(line, now.next)],
                         [next |-> 1, all |-> <<>>], block).all
      packed == FoldLeft(Pack, [done |-> <<>>, current |-> <<>>], pieces)
  IN  IF packed.current = <<>> THEN packed.done ELSE Append(packed.done, packed.current)

Cut == Len(chunks) = MaxChunks /\ chunks[MaxChunks].words = <<>>

\* _chunk_document: block after block; a document with too many chunks is cut
\* and its last chunk says so.
Read ==
  /\ read < Len(document) /\ ~Cut
  /\ LET found == ChunksOf(document[read + 1])
         all == chunks \o [n \in 1..Len(found) |-> [block |-> read + 1, words |-> found[n]]]
     IN  chunks' = IF Len(all) <= MaxChunks THEN all
                   ELSE Append(SubSeq(all, 1, MaxChunks - 1), [block |-> all[MaxChunks].block, words |-> <<>>])
  /\ read' = read + 1
  /\ UNCHANGED document

Init == document \in Documents /\ read = 0 /\ chunks = <<>>

Next == Read

Spec == Init /\ [][Next]_vars

-----------------------------------------------------------------------------
(* Properties                                                              *)

\* The chunks of a block read in order are its text: each is a run of its words
\* that takes up the last words of the one before and goes on from there;
\* none is longer than Target + Overlap words, and none is lost but where the
\* document was cut, which its last chunk says.
TextKept ==
  \A b \in 1..read :
    LET mine == SelectSeq(chunks, LAMBDA c : c.block = b /\ c.words # <<>>) IN
    /\ \A n \in 1..Len(mine) :
         LET w == mine[n].words IN
         /\ w = Interval(w[1], Last(w)) /\ Len(w) <= Target + Overlap
         /\ IF n = 1 THEN w[1] = 1
            ELSE LET before == mine[n - 1].words IN
                 /\ w[1] = Last(before) + 1 - (IF Len(before) > Overlap THEN Overlap ELSE Len(before))
                 /\ Last(w) > Last(before)
    /\ IF mine = <<>> THEN Length(document[b]) = 0 \/ Cut
       ELSE Last(Last(mine).words) = Length(document[b]) \/ Cut
=============================================================================
