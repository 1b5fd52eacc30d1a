------------------------------ MODULE MCAnswers ------------------------------
(***************************************************************************)
(* Questions, Passages, Summaries, Chunking and Conversations for TLC: a   *)
(* behaviour is one of the five, so that their states add up.              *)
(***************************************************************************)
EXTENDS Questions, Conversations, TLC

CONSTANTS a1, a2, b1, fa, fb, Words, Budget, Wrapper, MinOverlap, p1, p2, f, g

MCFile == (a1 :> a1) @@ (a2 :> a1) @@ (b1 :> b1)
MCFolder == (a1 :> fa) @@ (a2 :> fb) @@ (b1 :> fb)

\* Two chunks of one document, or three of one or two documents.
Texts(n, k) == UNION {[1..l -> Words] : l \in n..k}
Chunk(d, p, t) == [doc |-> d, pos |-> p, text |-> t]
Slots == {s \in [1..3 -> {1, 2} \X (1..3)] : s[1][1] = 1 /\ Cardinality({s[1], s[2], s[3]}) = 3}
Packings ==
    {<<Chunk(1, 1, t), Chunk(1, 2, u)>> : t \in Texts(1, 5), u \in Texts(1, 4)}
    \cup {<<Chunk(s[1][1], s[1][2], t), Chunk(s[2][1], s[2][2], u), Chunk(s[3][1], s[3][2], v)>> :
            s \in Slots, t \in Texts(2, 3), u \in Texts(2, 2), v \in Texts(2, 2)}

\* Two or three passages of two documents; claims and citations in and out of range.
Sources == [doc : {"d1", "d2"}, literal : BOOLEAN, content : {"x", "y"}, url : {"", "u"}]
SourceLists ==
    [1..2 -> Sources]
    \cup {s \in [1..3 -> {p \in Sources : p.doc = "d1" => p.literal}] : s[1].doc = "d1" /\ s[1].content = "x"}
Indexes == {<<>>, <<0>>, <<1>>, <<2>>, <<3>>, <<1, 2>>, <<4>>}
Claims == [doc : {"d1", "d2"}, passages : Indexes]
ClaimLists == {<<c>> : c \in Claims} \cup {<<c, e>> : c \in Claims, e \in {x \in Claims : Len(x.passages) = 1 /\ x.passages[1] < 3}}
Cites == {<<>>, <<4>>, <<1, 4>>, <<0>>} \cup UNION {[1..n -> 1..3] : n \in 1..3}
Answers == [group : {<<1>>, <<2>>, <<3>>, <<1, 2>>, <<3, 1>>, <<4, 2>>}, cites : Cites]

\* Sentences shorter than a chunk's overlap, as long as it or the chunk, and longer.
Lengths == {1, 2, 4, 7, 9}
Lines == {<<x>> : x \in Lengths} \cup {<<x, y>> : x, y \in Lengths}
Headings == {<<>>, <<<<1>>>>, <<<<4>>>>, <<<<9>>>>}
Documents ==
    {<<<<x, y>>>> : x, y \in Lines} \cup {<<h, <<y>>>> : h \in Headings, y \in Lines}
    \cup {<<<<<<x>>>>, h, <<y>>>> : x \in Lengths, h \in Headings, y \in Lines}

VARIABLES packing, left, taken, chars, passages
packVars == <<packing, left, taken, chars, passages>>
Pack == INSTANCE Passages WITH Evidences <- Packings, evidence <- packing

VARIABLES sources, wrote, supported, claims, candidates, assessments, accepted, fallback,
          generated, listed, shown, stage
summaryVars == <<sources, wrote, supported, claims, candidates, assessments, accepted, fallback,
                 generated, listed, shown, stage>>
Sum == INSTANCE Summaries WITH Evidences <- SourceLists, evidence <- sources, cited <- listed

VARIABLES document, read, chunks
chunkVars == <<document, read, chunks>>
Split == INSTANCE Chunking WITH Target <- 4, Overlap <- 2, MaxChunks <- 7

VARIABLE requests
conversationVars == <<requests, talkVars>>

VARIABLE side

FixQuestions ==
    /\ Init /\ version = [d \in Docs |-> 0] /\ embedded = Docs /\ granted = {} /\ status = [x \in Folders |-> TRUE]
FixPack == packing = <<>> /\ left = <<>> /\ taken = {} /\ chars = <<>> /\ passages = <<>>
FixSummary ==
    /\ sources = <<>> /\ stage = "none" /\ wrote = <<>> /\ supported = <<>> /\ claims = <<>> /\ candidates = <<>>
    /\ assessments = <<>> /\ accepted = {} /\ fallback = {} /\ generated = <<>> /\ listed = <<>> /\ shown = <<>>
FixSplit == document = <<>> /\ read = 0 /\ chunks = <<>>
FixTalk ==
    /\ requests = {} /\ filed = [x \in Files |-> "none"] /\ given = {} /\ held = {} /\ placed = {}
    /\ shifts = 0 /\ messages = <<>> /\ begun = 0 /\ lock = Nobody /\ turn = [s \in Requests |-> Idle]

\* The other file is indexed once, a copy not at all or in two versions, with or without
\* its vectors; the person has both folders, or the one with two documents, or none.
Asked ==
    /\ Init /\ version[b1] = 1 /\ version[a1] # 1 /\ embedded \in {Docs, Docs \ {a1}}
    /\ granted \in {{}, {fb}, Folders} /\ status = [x \in Folders |-> TRUE]

\* A summary does not ask whether passages say the same, or for their links.
Summarised ==
    /\ Sum!Init
    /\ stage = "summarize" => \A i \in 1..Len(sources) : sources[i].content = "x" /\ sources[i].url = ""

\* One person's turns while the catalog and the rights change, or two at once without.
Talks ==
    /\ TalkInit
    /\ requests \in {{p1}, {p1, p2}}
    /\ filed[f] = "indexed" /\ filed[g] # "none" /\ placed = {f}
    /\ requests = {p1, p2} => filed[g] = "indexed"

MCInit ==
    \/ side = "questions" /\ Asked /\ FixPack /\ FixSummary /\ FixSplit /\ FixTalk
    \/ side = "passages" /\ FixQuestions /\ Pack!Init /\ FixSummary /\ FixSplit /\ FixTalk
    \/ side = "summaries" /\ FixQuestions /\ FixPack /\ Summarised /\ FixSplit /\ FixTalk
    \/ side = "chunks" /\ FixQuestions /\ FixPack /\ FixSummary /\ Split!Init /\ FixTalk
    \/ side = "talk" /\ FixQuestions /\ FixPack /\ FixSummary /\ FixSplit /\ Talks

ConversationNext ==
    /\ TalkNext
    /\ requests = {p1, p2} => shifts' = 0 /\ \A s \in requests : turn'[s].mentions = {}
    /\ turn'[p2] # turn[p2] => p2 \in requests
    /\ \A s \in requests : turn'[s].mentions # {Container, f}
    /\ UNCHANGED requests

MCNext ==
    /\ UNCHANGED side
    /\ \/ side = "questions" /\ Next /\ UNCHANGED <<packVars, summaryVars, chunkVars, conversationVars>>
       \/ side = "passages" /\ Pack!Next /\ UNCHANGED <<vars, summaryVars, chunkVars, conversationVars>>
       \/ side = "summaries" /\ Sum!Next /\ UNCHANGED <<vars, packVars, chunkVars, conversationVars>>
       \/ side = "chunks" /\ Split!Next /\ UNCHANGED <<vars, packVars, summaryVars, conversationVars>>
       \/ side = "talk" /\ ConversationNext /\ UNCHANGED <<vars, packVars, summaryVars, chunkVars>>

MCSpec == MCInit /\ [][MCNext]_<<vars, packVars, summaryVars, chunkVars, conversationVars, side>>

\* Chunking and Passages: no word of a document is lost or repeated on its way
\* into chunks, nor on the way from the chunks found to what a model is shown.
TextKept ==
    /\ side = "chunks" => Split!TextKept
    /\ side = "passages" => Pack!OverlapIsLongest /\ Pack!PackedWhole

\* Summaries: findings are assessed, no document stays silent, and a marker
\* still points at a source that says it.
SummaryKept == side = "summaries" => Sum!SummaryGrounded /\ Sum!MarkersKept
=============================================================================
