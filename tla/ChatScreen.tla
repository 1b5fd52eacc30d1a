------------------------------ MODULE ChatScreen ------------------------------
(***************************************************************************)
(* The conversation on a person's screen (frontend chat-workspace.tsx and  *)
(* conversation-history.tsx): what is shown, while questions, openings,    *)
(* deletions and refreshes are answered in any order.                      *)
(*                                                                         *)
(* One person, one tab.  A request is served at some moment and its answer *)
(* is handled at a later one.  A new question's conversation is new, and   *)
(* what the server does with it is left to Conversations.                  *)
(***************************************************************************)
EXTENDS Naturals, FiniteSets

CONSTANTS
  Ids,        \* conversations
  Before,     \* those there are when the screen opens
  MaxSequence, MaxRequests, MaxEpoch,
  Absent

\* Questions are numbered; a conversation there was before is its own oldest message.
ASSUME ChatAssumption ==
  Before \subseteq Ids /\ Ids \cap Nat = {} /\ Absent \notin Ids

VARIABLES
  server,     \* conversation -> questions saved in it (an older one: itself), or Absent
  open,       \* conversationId
  stored,     \* the session's storage
  shown,      \* questions of the messages on the screen
  failed,     \* those shown with an error for an answer
  pending,    \* the question being asked, or 0
  restoring,
  epoch,      \* conversationEpoch
  sequence,   \* askSequence
  flight      \* requests, and answers being revealed

chatVars == <<server, open, stored, shown, failed, pending, restoring, epoch, sequence, flight>>

Asking == pending # 0

\* was: the open conversation when a deletion was asked for, which is the one
\* its handler compares; it is not read again.
Request(kind, id, e, s) ==
  [kind |-> kind, id |-> id, epoch |-> e, sequence |-> s, was |-> open, served |-> FALSE, reply |-> Absent]

\* setMessages with what was read, or with nothing.
Display(what) == shown' = what /\ failed' = {}

Send(r) == Cardinality(flight) < MaxRequests /\ flight' = flight \cup {r}

-----------------------------------------------------------------------------
(* The person                                                              *)

\* openConversation
OpenConversation(c) ==
  /\ server[c] # Absent \/ c \in Before
  /\ ~Asking /\ c # open /\ epoch < MaxEpoch
  /\ Send(Request("open", c, epoch + 1, sequence))
  /\ epoch' = epoch + 1 /\ sequence' = sequence + 1 /\ restoring' = TRUE
  /\ UNCHANGED <<server, open, stored, shown, failed, pending>>

\* startNewConversation
StartNew ==
  /\ ~Asking /\ (open # Absent \/ restoring) /\ epoch < MaxEpoch
  /\ epoch' = epoch + 1
  /\ stored' = Absent /\ open' = Absent /\ Display({}) /\ restoring' = FALSE
  /\ UNCHANGED <<server, pending, sequence, flight>>

\* ask
Ask(q) ==
  /\ ~Asking /\ ~restoring
  /\ q = sequence + 1 /\ q <= MaxSequence
  /\ Send(Request("ask", open, epoch, q))
  /\ sequence' = q /\ pending' = q /\ shown' = shown \cup {q}
  /\ UNCHANGED <<server, open, stored, failed, restoring, epoch>>

\* ConversationHistory's remove
Delete(c) ==
  /\ server[c] # Absent /\ ~Asking
  /\ \A r \in flight : r.kind = "delete" => r.id # c
  /\ Send(Request("delete", c, epoch, sequence))
  /\ UNCHANGED <<server, open, stored, shown, failed, pending, restoring, epoch, sequence>>

-----------------------------------------------------------------------------
(* The server                                                              *)

Served(r, reply) == flight' = (flight \ {r}) \cup {[r EXCEPT !.served = TRUE, !.reply = reply]}

ServeRead(r) ==
  /\ r.kind \in {"restore", "open", "refresh"} /\ ~r.served
  /\ \E reply \in {server[r.id], Absent} : Served(r, reply)
  /\ UNCHANGED <<server, open, stored, shown, failed, pending, restoring, epoch, sequence>>

\* A question is saved in its conversation, or in a new one.  The reply is which, or an
\* error: the model could not be reached after the question was saved, or the answer was lost.
ServeAsk(r) ==
  /\ r.kind = "ask" /\ ~r.served
  /\ \/ \E c \in Ids :
          /\ IF r.id = Absent THEN server[c] = Absent /\ c \notin Before ELSE c = r.id /\ server[c] # Absent
          /\ server' = [server EXCEPT ![c] = {r.sequence} \cup (IF server[c] = Absent THEN {} ELSE server[c])]
          /\ \E reply \in {c, Absent} : Served(r, reply)
     \/ Served(r, Absent) /\ UNCHANGED server
  /\ UNCHANGED <<open, stored, shown, failed, pending, restoring, epoch, sequence>>

ServeDelete(r) ==
  /\ r.kind = "delete" /\ ~r.served
  /\ \/ server' = [server EXCEPT ![r.id] = Absent] /\ Served(r, r.id)
     \/ flight' = flight \ {r} /\ UNCHANGED server
  /\ UNCHANGED <<open, stored, shown, failed, pending, restoring, epoch, sequence>>

-----------------------------------------------------------------------------
(* Answers                                                                 *)

\* The conversation was not left since.
Current(r) == r.epoch = epoch

\* The first opening, and openConversation's answer.
Opened(r) ==
  /\ r.kind \in {"restore", "open"} /\ r.served
  /\ flight' = flight \ {r}
  /\ IF Current(r)
     THEN /\ restoring' = FALSE
          /\ IF r.reply # Absent THEN open' = r.id /\ stored' = r.id /\ Display(r.reply)
             ELSE IF r.kind = "restore" THEN open' = Absent /\ stored' = Absent /\ Display({})
             ELSE UNCHANGED <<open, stored, shown, failed>>
     ELSE UNCHANGED <<restoring, open, stored, shown, failed>>
  /\ UNCHANGED <<server, pending, epoch, sequence>>

\* ask's answer; asking ends whatever it is.
Answered(r) ==
  /\ r.kind = "ask" /\ r.served
  /\ pending' = 0
  /\ IF Current(r) /\ r.reply # Absent
     THEN /\ open' = r.reply /\ stored' = r.reply
          /\ flight' = (flight \ {r}) \cup {[r EXCEPT !.kind = "reveal", !.id = r.reply, !.served = FALSE,
                                                      !.reply = Absent, !.was = Absent]}
     ELSE flight' = flight \ {r} /\ UNCHANGED <<open, stored>>
  /\ failed' = IF Current(r) /\ r.reply = Absent THEN failed \cup {r.sequence} ELSE failed
  /\ UNCHANGED <<server, shown, restoring, epoch, sequence>>

\* Mutant of NoNewer: a refresh does not mind a newer question.
NoNewerInConversation(r) == Current(r)

\* No newer question, no other conversation.
NoNewer(r) == Current(r) /\ r.sequence = sequence

\* restoreTranscript, once the answer was revealed.
Revealed(r) ==
  /\ r.kind = "reveal"
  /\ flight' = (flight \ {r}) \cup (IF NoNewer(r) THEN {[r EXCEPT !.kind = "refresh"]} ELSE {})
  /\ UNCHANGED <<server, open, stored, shown, failed, pending, restoring, epoch, sequence>>

Refreshed(r) ==
  /\ r.kind = "refresh" /\ r.served
  /\ flight' = flight \ {r}
  /\ IF r.reply # Absent /\ NoNewer(r) THEN Display(r.reply) ELSE UNCHANGED <<shown, failed>>
  /\ UNCHANGED <<server, open, stored, pending, restoring, epoch, sequence>>

\* conversationDeleted
Deleted(r) ==
  /\ r.kind = "delete" /\ r.served
  /\ flight' = flight \ {r}
  /\ IF r.id = r.was
     THEN /\ epoch' = epoch + 1 /\ sequence' = sequence + 1
          /\ open' = Absent /\ stored' = Absent /\ Display({})
     ELSE UNCHANGED <<epoch, sequence, open, stored, shown, failed>>
  /\ UNCHANGED <<server, pending, restoring>>

ChatInit ==
  /\ server = [c \in Ids |-> IF c \in Before THEN {c} ELSE Absent]
  /\ open = Absent /\ shown = {} /\ failed = {} /\ pending = 0 /\ epoch = 1 /\ sequence = 0
  /\ stored \in Before \cup {Absent} /\ restoring = (stored # Absent)
  /\ flight = IF stored = Absent THEN {} ELSE {Request("restore", stored, epoch, sequence)}

ChatNext ==
  \/ \E c \in Ids : OpenConversation(c) \/ Delete(c)
  \/ StartNew \/ \E q \in 1..MaxSequence : Ask(q)
  \/ \E r \in flight : ServeRead(r) \/ ServeAsk(r) \/ ServeDelete(r)
                       \/ Opened(r) \/ Answered(r) \/ Revealed(r) \/ Refreshed(r) \/ Deleted(r)

ChatSpec == ChatInit /\ [][ChatNext]_chatVars

-----------------------------------------------------------------------------
(* Properties                                                              *)

\* The question a person waits for stays on the screen as long as its
\* conversation does, whatever older answers, refreshes and openings arrive.
QuestionKept ==
  \A r \in flight : r.kind = "ask" /\ r.epoch = epoch => r.sequence \in shown

\* What is shown is what the next question continues, and what a reload brings
\* back: no message of another conversation stays or comes onto the screen, except
\* a question shown with its error.  That one may have been saved, in a conversation
\* of its own that the screen was never told of.
ShownIsOpen ==
  /\ open # Absent => stored = open
  /\ \A c \in Ids : server[c] # Absent => \A q \in server[c] \cap shown : q = pending \/ q \in failed \/ c = open

ScreenKept == QuestionKept /\ ShownIsOpen
=============================================================================
