--------------------------- MODULE Conversations ---------------------------
(***************************************************************************)
(* The document agent (knowledge/agent.py): the turns of one conversation, *)
(* what earlier answers leave behind for the models and for the choice of  *)
(* files, and the catalog and the rights that move on meanwhile.           *)
(*                                                                         *)
(* A turn reads the history, locks the conversation and stores the         *)
(* question, checks what the earlier answers were made of, lets a model    *)
(* decide, runs its tools and stores the answer; all of it is one          *)
(* transaction, and its statements read what is committed at the time.     *)
(* What the models say is a choice within what the code accepts.           *)
(***************************************************************************)
EXTENDS Naturals, Sequences, FiniteSets

CONSTANTS
  Files,        \* files of one source
  Container,    \* a catalog folder some of them are in
  Requests,     \* requests of the conversation that may be under way
  Window,       \* MAX_PLANNER_HISTORY_MESSAGES: messages a model is shown
  MaxTurns,     \* bound: questions asked
  MaxShifts,    \* bound: changes of the catalog and of the rights
  Nobody

ASSUME ConversationAssumption == Nobody \notin Requests

VARIABLES
  filed,        \* filed[f]: document none, pending, indexed or removed
  given,        \* files in scopes the person reads
  held,         \* files whose scope admits no question now
  placed,       \* files the catalog shows in Container
  shifts,
  messages,     \* the stored messages
  begun,        \* questions so far
  lock,         \* the request that holds the conversation row
  turn          \* turn[r]: the request's turn

world == <<filed, given, held, placed, shifts>>
talkVars == <<world, messages, begun, lock, turn>>

Listings == {"list_files", "inventory_stats", "select_files_by_topic"}
\* A comparison stands for a draft too: both are written from passages.
Intents == Listings \cup {"conversation", "summarize_files", "restructure_previous",
                          "compare_files", "ask_content"}
Leaning == {"previous_ordinals", "previous_answer_files", "previous_turn_files"}

\* What an answer records: documents cited, files listed, those listed in a folder.
NoRecord == [cites |-> {}, lists |-> {}, foldered |-> {}]
NoMemory == [shown |-> {}, listed |-> {}, foldered |-> {}, attached |-> {}, empty |-> FALSE, answer |-> "none"]
Idle == [pc |-> "idle", number |-> 0, seen |-> <<>>, mentions |-> {}, position |-> 0, memory |-> NoMemory,
         intent |-> "none", target |-> "none", targets |-> {}, leans |-> FALSE, wide |-> FALSE, answer |-> NoRecord]

-----------------------------------------------------------------------------
(* The catalog and the rights.                                             *)

\* A document in a scope granted and admitted, not withdrawn.
Live(f) == f \in given \ held /\ filed[f] \in {"pending", "indexed"}

Readable(f) == Live(f) /\ filed[f] = "indexed"

\* The catalog of a request: the files of its source, once a scope of it is admitted.
Catalog == IF given \ held = {} THEN {} ELSE given

\* A file never seen by a synchronisation has nothing to withdraw.
UsableNode(f) == f \in Catalog /\ (Live(f) \/ filed[f] = "none")

UsableDocument(f) == f \in Catalog /\ Live(f)

\* What is stored may be shown: its documents are read in some scope, and so
\* are the nodes that have any.
Shown(m) ==
  /\ \A f \in m.cites : f \in given /\ filed[f] \in {"pending", "indexed"}
  /\ \A f \in m.lists : filed[f] \in {"none", "removed"} \/ f \in given

-----------------------------------------------------------------------------
(* The memory of a turn.                                                   *)

Assistant(h, i) == h[i].role = "assistant"

\* A message, with what an answer records of its sources.
Message(role, number, position, mentions, listing, record) ==
  [role |-> role, number |-> number, position |-> position, mentions |-> mentions, listing |-> listing,
   cites |-> record.cites, lists |-> record.lists, foldered |-> record.foldered]

\* An answer out of reach is read as a notice that names nothing.
Hidden(position) == Message("assistant", 0, position, {}, FALSE, NoRecord)
Present(h) == [i \in 1..Len(h) |-> IF Assistant(h, i) /\ ~Shown(h[i]) THEN Hidden(h[i].position) ELSE h[i]]

Greatest(S) == IF S = {} THEN 0 ELSE CHOOSE i \in S : \A j \in S : j <= i

Latest(h) == Greatest({i \in 1..Len(h) : Assistant(h, i)})

\* The last message that lists files, or that is a listing of none.
Listing(h) == Greatest({i \in 1..Len(h) : h[i].lists # {} \/ h[i].listing})

InWindow(h) == {i \in 1..Len(h) : i > Len(h) - Window}

\* The answers the turn can use.
Used(h) == {i \in InWindow(h) \cup {Latest(h), Listing(h)} : i > 0 /\ Assistant(h, i)}

Recorded(m) == m.cites \cup m.lists

ChosenFiles(targets) == {f \in Files : f \in targets \/ (Container \in targets /\ f \in placed)}

\* Everything attached has content to read.
Resolvable(targets) == \A x \in targets : \E f \in ChosenFiles({x}) : Readable(f)

ExcludedByCitations(h, mentions) ==
  {i \in Used(h) : Recorded(h[i]) # {} /\ ~(\A f \in h[i].cites : UsableDocument(f))}

\* An answer is kept out whole: something it names is gone, left the folder it
\* was listed in, or the files now chosen are only part of what it is about.
Excluded(h, mentions) ==
  LET chosen == ChosenFiles(mentions)
      gone(m) == ~(\A f \in m.cites : UsableDocument(f)) \/ ~(\A f \in m.lists : UsableNode(f))
      left(m) == ~ m.foldered \subseteq placed \cap given
      partly(m) == \/ ~Resolvable(mentions)
                   \/ mentions # {} /\ Recorded(m) \cap chosen # {} /\ ~ Recorded(m) \subseteq chosen
  IN  {i \in Used(h) : Recorded(h[i]) # {} /\
         (gone(h[i]) \/ (i = Listing(h) /\ left(h[i])) \/ partly(h[i]))}

\* Files of the last listing; without one, those the latest answer cited.
Listed(h, excluded) ==
  IF Listing(h) # 0 /\ h[Listing(h)].lists # {} THEN h[Listing(h)].lists
  ELSE IF Latest(h) = 0 THEN {}
  ELSE IF excluded = {} THEN h[Latest(h)].cites
  ELSE {f \in h[Latest(h)].cites : UsableNode(f)}

ListingExcluded(h, excluded) ==
  (IF Listing(h) # 0 /\ h[Listing(h)].lists # {} THEN Listing(h) ELSE Latest(h)) \in excluded

\* Files attached to the last question that had any.
PreviousMentions(h) ==
  LET i == Greatest({j \in 1..Len(h) : h[j].role = "user" /\ h[j].mentions # {}})
  IN  IF i = 0 THEN {} ELSE h[i].mentions

\* The files behind what a model is shown of earlier answers.
Remembered(h, excluded) ==
  LET used == ({i \in InWindow(h) : Assistant(h, i)} \cup ({Latest(h)} \ {0})) \ excluded
  IN  (UNION {Recorded(h[i]) : i \in used})
      \cup (IF ListingExcluded(h, excluded) THEN {} ELSE Listed(h, excluded))

\* The memory of the conversation for one question.
Memory(h, mentions) ==
  LET excluded == Excluded(h, mentions)
  IN  [shown |-> Remembered(h, excluded), listed |-> Listed(h, excluded), attached |-> PreviousMentions(h),
       foldered |-> IF Listing(h) = 0 \/ mentions # {} THEN {} ELSE h[Listing(h)].foldered,
       empty |-> Listing(h) # 0 /\ h[Listing(h)].lists = {},
       answer |-> IF Latest(h) = 0 THEN "none" ELSE IF Latest(h) \in excluded THEN "excluded" ELSE "there"]

-----------------------------------------------------------------------------
(* Changes around the conversation.                                        *)

Shifts == shifts < MaxShifts /\ shifts' = shifts + 1 /\ UNCHANGED <<messages, begun, lock, turn>>

IndexFile(f) ==
  /\ Shifts /\ filed[f] # "indexed" /\ filed' = [filed EXCEPT ![f] = "indexed"]
  /\ UNCHANGED <<given, held, placed>>

Withdraw(f) ==
  /\ Shifts /\ filed[f] \in {"pending", "indexed"} /\ filed' = [filed EXCEPT ![f] = "removed"]
  /\ UNCHANGED <<given, held, placed>>

Grant(f) == Shifts /\ given' = (given \ {f}) \cup ({f} \ given) /\ UNCHANGED <<filed, held, placed>>

Suspend(f) == Shifts /\ held' = (held \ {f}) \cup ({f} \ held) /\ UNCHANGED <<filed, given, placed>>

Move(f) == Shifts /\ placed' = (placed \ {f}) \cup ({f} \ placed) /\ UNCHANGED <<filed, given, held>>

-----------------------------------------------------------------------------
(* A turn.                                                                 *)

At(r, pc) == turn[r].pc = pc
Sets(r, t) == turn' = [turn EXCEPT ![r] = t]

Selections == {{}, {Container}} \cup {{f} : f \in Files} \cup {Files} \cup {{Container, f} : f \in Files}

\* create_or_load: the history as the person may see it now.
LoadTurn(r, mentions) ==
  /\ At(r, "idle") /\ begun < MaxTurns
  /\ begun' = begun + 1
  /\ Sets(r, [Idle EXCEPT !.pc = "append", !.number = begun + 1, !.seen = Present(messages), !.mentions = mentions])
  /\ UNCHANGED <<world, messages, lock>>

NextPosition == Greatest({messages[i].position : i \in 1..Len(messages)}) + 1

ConversationFree == lock = Nobody

\* The question takes its place under the lock of the conversation.
TakeTurn(r) ==
  /\ At(r, "append") /\ ConversationFree
  /\ lock' = r
  /\ Sets(r, [turn[r] EXCEPT !.pc = "check", !.position = NextPosition])
  /\ UNCHANGED <<world, messages, begun>>

\* Provenance is rechecked before anything reaches a model.
Check(r) ==
  /\ At(r, "check")
  /\ LET t == turn[r]
     IN  Sets(r, [t EXCEPT !.pc = "decide", !.memory = Memory(t.seen, t.mentions), !.seen = <<>>])
  /\ UNCHANGED <<world, messages, begun, lock>>

\* parse_intent: attached files win; positions and files of an answer need some.
TargetOf(t, said) ==
  IF t.mentions # {} THEN "mentioned"
  ELSE IF said = "previous_answer_files" /\ t.memory.listed = {} /\ ~t.memory.empty THEN "previous_turn_files"
  ELSE said

Resolved(t, target, chosen) ==
  IF t.mentions # {} THEN t.mentions
  ELSE IF target = "library" \/ t.memory.empty THEN {}
  ELSE IF target = "previous_ordinals" THEN chosen
  ELSE IF target = "previous_answer_files" /\ t.memory.listed # {} THEN t.memory.listed
  ELSE IF t.memory.attached # {} THEN t.memory.attached
  ELSE t.memory.listed

\* A classifier decides; when none answers well, what is attached is searched.
Decide(r) ==
  LET t == [turn[r] EXCEPT !.pc = "execute", !.memory.shown = {}] IN
  /\ At(r, "decide")
  /\ \/ \E intent \in Intents, said \in Leaning \cup {"library", "mentioned"} :
          LET target == TargetOf(t, said)
          IN  /\ target = "previous_ordinals" => t.memory.listed # {}
              /\ \E chosen \in IF target = "previous_ordinals" THEN SUBSET t.memory.listed \ {{}} ELSE {{}} :
                   Sets(r, [t EXCEPT !.intent = intent, !.target = target, !.targets = Resolved(t, target, chosen)])
     \/ Sets(r, [t EXCEPT !.intent = "ask_content", !.targets = t.mentions,
                          !.target = IF t.mentions = {} THEN "library" ELSE "mentioned"])
  /\ UNCHANGED <<world, messages, begun, lock>>

\* Attached files make a chat a question; without an answer there is nothing to
\* restructure, unless it was kept out.
Meant(t) ==
  CASE t.intent = "conversation" /\ t.targets # {} -> "ask_content"
    [] t.intent = "restructure_previous" /\ t.memory.answer = "none" -> "summarize_files"
    [] OTHER -> t.intent

Catalogued == {"inventory_stats", "select_files_by_topic"}

\* Files reused from a folder listing must still be in it, and have content.
Reused(t) == t.targets \cap t.memory.foldered
Denied(t) == ~ Reused(t) \subseteq given \cap placed \/ (Reused(t) # {} /\ Catalog = {})

\* The message leans on a conversation that has nothing left to lean on.
Leans(t) ==
  \/ t.target \in {"previous_ordinals", "previous_answer_files"}
  \/ /\ t.memory.answer = "excluded" /\ t.mentions = {}
     /\ t.target = "previous_turn_files" \/ t.intent = "restructure_previous"

NothingToReadIn(t, intent, targets) ==
  targets = {} /\ intent \notin {"conversation"} \cup Catalogued /\ Leans(t)

Fails(r) == Sets(r, [Idle EXCEPT !.pc = "denied"])

Responds(r, t, intent, wide, answer) ==
  Sets(r, [Idle EXCEPT !.pc = "finish", !.number = t.number, !.position = t.position, !.mentions = t.mentions,
                       !.intent = intent, !.wide = wide, !.answer = answer,
                       !.leans = t.memory.answer = "excluded" /\ t.mentions = {} /\ t.target \in Leaning])

Execute(r) ==
  LET t == turn[r]
      intent == Meant(t)
      targets == IF intent \in Catalogued THEN t.targets ELSE t.targets \ {f \in Reused(t) : ~Readable(f)}
  IN
  /\ At(r, "execute")
  /\ IF intent \notin Catalogued /\ Denied(t) THEN Fails(r)
     ELSE IF NothingToReadIn(t, intent, targets)
     THEN Responds(r, t, intent, FALSE, NoRecord)
     ELSE Sets(r, [t EXCEPT !.pc = "work", !.intent = intent, !.targets = targets])
  /\ UNCHANGED <<world, messages, begun, lock>>

WithContent(files) == {f \in files : Readable(f)}

\* Files read by identity, checked against the catalog again.
Snapshot(files) == files = {} \/ (files \subseteq given /\ Catalog # {})

\* The passages retrieved come from what is attached, or from everything.
Found(targets) == IF targets = {} THEN {f \in Files : Readable(f)} ELSE WithContent(ChosenFiles(targets))

\* A synthesis that cites no passage it was given is thrown away.
Synthesized(found) == (SUBSET found) \ {{}}

\* The honest answer cites nothing; a content question records the files consulted.
Consulted(t) == {{}} \cup (IF t.intent = "ask_content" THEN {t.targets \cap Files} ELSE {})

Content(r, t) ==
  IF ~Resolvable(t.targets) THEN Fails(r)
  ELSE \/ \E cites \in Synthesized(Found(t.targets)) :
            Responds(r, t, t.intent, t.targets = {}, [NoRecord EXCEPT !.cites = cites])
       \/ \E files \in Consulted(t) :
            Responds(r, t, t.intent, t.targets = {}, [NoRecord EXCEPT !.lists = files])

Cataloged(r, t, files, cites, foldered) ==
  Responds(r, t, t.intent, t.targets = {} /\ files # {}, [cites |-> cites, lists |-> files, foldered |-> foldered])

\* What a model says each file is about counts with a quote of that file.
TopicAssessments(files) == SUBSET WithContent(files)

\* The files among the targets, each still where the listing found it.
InventoryFails(t) ==
  \/ ~ t.targets \subseteq {f \in Files : UsableNode(f)} \cup {Container}
  \/ ~Reused(t) \subseteq placed
  \/ t.targets # {} /\ Catalog = {}

InventoryFiles(t) ==
  LET usable == {f \in Files : UsableNode(f)}
  IN  IF t.targets = {} THEN usable ELSE ChosenFiles(t.targets) \cap usable

Inventory(r, t, cites, kept) ==
  Cataloged(r, t, kept, cites, IF Container \in t.targets THEN kept ELSE kept \cap t.memory.foldered)

InventoryStats(r, t, files) == \E topics \in TopicAssessments(files) : Inventory(r, t, topics, files)

SelectByTopic(r, t, files) == \E matches \in TopicAssessments(files) : Inventory(r, t, matches, matches)

CatalogInventory(r, t) ==
  LET files == InventoryFiles(t)
  IN  IF t.memory.empty /\ t.mentions = {} /\ t.target # "library" THEN Cataloged(r, t, {}, {}, {})
      ELSE IF InventoryFails(t) THEN Fails(r)
      ELSE CASE t.intent = "inventory_stats" -> InventoryStats(r, t, files)
             [] t.intent = "select_files_by_topic" -> SelectByTopic(r, t, files)
             [] OTHER -> Inventory(r, t, WithContent(files), files)

\* All the children of one folder, read page by page; none with content is none at all.
CompleteInventory(r, t) ==
  LET inside == Catalog \cap placed
  IN  IF WithContent(inside) = {} THEN Fails(r) ELSE Cataloged(r, t, inside, WithContent(inside), inside)

\* Files one by one.
FileSnapshots(r, t) ==
  IF Snapshot(t.targets) THEN Cataloged(r, t, t.targets, WithContent(t.targets), {}) ELSE Fails(r)

SearchLibrary(r, t) == \E named \in SUBSET Catalog : Cataloged(r, t, named, WithContent(named), {})

ListFiles(r, t) ==
  CASE t.targets = {Container} -> CompleteInventory(r, t)
    [] t.targets # {Container} /\ Container \in t.targets -> Content(r, t)
    [] t.targets # {} /\ Container \notin t.targets -> FileSnapshots(r, t)
    [] OTHER -> SearchLibrary(r, t) \/ CatalogInventory(r, t)

\* Several files are summed up one by one, one or a folder by its passages.
Summarize(r, t) ==
  IF Cardinality(t.targets) > 1 /\ Container \notin t.targets
  THEN FileSnapshots(r, t)
  ELSE Content(r, t)

\* No tool runs; the files the conversation is about stay its sources.
Converse(r, t) ==
  LET attached == t.memory.attached \ {Container}
      about == IF attached # {} THEN attached ELSE t.memory.listed
  IN  Responds(r, t, t.intent, FALSE, [NoRecord EXCEPT !.cites = IF Snapshot(about) THEN WithContent(about) ELSE {}])

\* A plan its targets cannot serve is answered by relevance.
Work(r) ==
  LET t == turn[r] IN
  /\ At(r, "work")
  /\ CASE t.intent = "conversation" -> Converse(r, t)
       [] t.intent = "list_files" -> ListFiles(r, t)
       [] t.intent \in Catalogued -> CatalogInventory(r, t)
       [] t.intent = "summarize_files" -> Summarize(r, t)
       [] OTHER -> Content(r, t)
  /\ UNCHANGED <<world, messages, begun, lock>>

\* A provider that fails, or time that runs out, ends the turn with its question;
\* a quota that is used up, with nothing.
GiveUp(r) ==
  /\ At(r, "work")
  /\ \/ Fails(r)
     \/ Sets(r, [Idle EXCEPT !.pc = "unavailable", !.number = turn[r].number, !.position = turn[r].position,
                             !.mentions = turn[r].mentions])
  /\ UNCHANGED <<world, messages, begun, lock>>

Question(t) == Message("user", t.number, t.position, t.mentions, FALSE, NoRecord)
Reply(t) ==
  Message("assistant", t.number, Greatest({messages[i].position : i \in 1..Len(messages)} \cup {t.position}) + 1, {},
          t.intent \in Listings, t.answer)

Finish(r) ==
  LET t == turn[r] IN
  /\ \/ At(r, "finish") /\ messages' = messages \o <<Question(t), Reply(t)>>
     \/ At(r, "unavailable") /\ messages' = Append(messages, Question(t))
     \/ At(r, "denied") /\ UNCHANGED messages
  /\ lock' = Nobody
  /\ Sets(r, Idle)
  /\ UNCHANGED <<world, begun>>

-----------------------------------------------------------------------------
TalkInit ==
  /\ filed \in [Files -> {"none", "pending", "indexed"}] /\ given = Files /\ held = {} /\ placed \in SUBSET Files
  /\ shifts = 0 /\ messages = <<>> /\ begun = 0 /\ lock = Nobody
  /\ turn = [r \in Requests |-> Idle]

TalkNext ==
  \/ \E f \in Files : IndexFile(f) \/ Withdraw(f) \/ Grant(f) \/ Suspend(f) \/ Move(f)
  \/ \E r \in Requests :
       \/ \E mentions \in Selections : LoadTurn(r, mentions)
       \/ TakeTurn(r) \/ Check(r) \/ Decide(r) \/ Execute(r) \/ Work(r) \/ GiveUp(r) \/ Finish(r)

TalkSpec == TalkInit /\ [][TalkNext]_talkVars

-----------------------------------------------------------------------------
\* What a model is shown of earlier answers, and the names it may refer to, are
\* within reach when the turn checks them, every file behind them.
MemoryAuthorized ==
  \A r \in Requests : At(r, "check") =>
    \A f \in Memory(turn[r].seen, turn[r].mentions).shown : UsableNode(f)

\* Two questions asked at once are messages one after the other, each answer next
\* to its question.
TurnsContiguous ==
  \A i \in 1..Len(messages) :
    /\ messages[i].position = i
    /\ Assistant(messages, i) => i > 1 /\ messages[i - 1].role = "user" /\ messages[i - 1].number = messages[i].number

\* "No widening to the whole library" (knowledge/agent.py:732-734): when content is asked
\* for, a message that leans on an answer that was kept out is not answered from all
\* there is. (Counts and selections by theme are, agent.py:738.)
NoWideningOfContent ==
  \A r \in Requests :
    turn[r].pc = "finish" /\ turn[r].wide /\ turn[r].leans => turn[r].intent \in Catalogued

ConversationKept == MemoryAuthorized /\ TurnsContiguous /\ NoWideningOfContent
=============================================================================
