----------------------------- MODULE Conversation -----------------------------
(***************************************************************************)
(* One chat room as its user and the language model see it: the send, list *)
(* and message-delete handlers of chat_template_impl.py with               *)
(* AIChatService, over the three places that hold the messages of a room.  *)
(* The rows are written later, from the queue; messages:<room> caches a    *)
(* page of them for an hour; chat:<room> is the memory of the language     *)
(* model, which never expires.                                             *)
(*                                                                         *)
(* The room is ACTIVE throughout, as in ChatRoom it is; how a queued       *)
(* message becomes a row, or a deleted row, is ChatMessage.  A handler     *)
(* gives way to the others of its process at every await; from reading the *)
(* memory to the reply, and while history is loaded, it has none.          *)
(*                                                                         *)
(* A list asks for page 1, the default.  Another page is one of the rows   *)
(* only, and only while the cache is empty; it then fills the cache, and   *)
(* an empty memory, as if it were the first.  Rows have the ids their      *)
(* messages were sent with, as on shard 1 (see ChatMessage for shard 2).   *)
(***************************************************************************)
EXTENDS Naturals, Sequences, SequencesExt

CONSTANTS
    Turn,         \* on_chat_message_send_req calls: a question and its answer
    Past,         \* the turns of the room that are rows when the model begins
    Lister,       \* on_chat_message_list_req calls, one after the other
    Deletable,    \* the messages that a user may delete
    Process,
    ProcessOf,    \* the process of a turn or lister
    PageSize,     \* limit (50)
    MaxFaults     \* bound: commands that fail, or are repeated, and requests that end

Question(t) == <<t, "USER">>
Answer(t)   == <<t, "AI">>
Message     == Turn \X {"USER", "AI"}

ASSUME ConversationAssumption ==
    /\ Past \in Seq(Turn)
    /\ Turn \cap Lister = {}
    /\ Deletable \subseteq Message
    /\ ProcessOf \in [Turn \cup Lister -> Process]
    /\ PageSize \in Nat \ {0} /\ MaxFaults \in Nat

VARIABLES
    dated,      \* the messages in the order of their created_at
    waiting,    \* messages in the queue to be written
    rows,       \* the rows of the room that are not deleted, by their created_at
    cache,      \* messages:<room> in Redis
    mortal,     \* that key has a lifetime
    memory,     \* the messages in chat:<room> in Redis, however often each is there
    tpc,        \* where each send handler is
    known,      \* what the user has seen: answered turns, and the history listed to him
    owed,       \* that, when he asked each question
    calm,       \* no two lists have overlapped
    lpc,        \* where each list handler is
    page,       \* the page it answers with
    todo,       \* what of it is still to be written to the cache or the memory
    dpc,        \* the messages whose deletion has begun, is queued
    faults

storeVars  == <<dated, waiting, rows, memory>>
cacheVars  == <<cache, mortal>>
turnVars   == <<tpc, owed>>
seenVars   == <<known, calm>>
listVars   == <<lpc, page, todo>>
conversationVars == <<storeVars, cacheVars, turnVars, seenVars, listVars, dpc, faults>>

ConversationTypeOK ==
    /\ dated \in Seq(Message) /\ waiting \subseteq Message /\ rows \in Seq(Message)
    /\ cache \in Seq(Message) /\ mortal \in BOOLEAN /\ memory \subseteq Message
    /\ tpc \in [Turn -> {"begin", "remember", "queueQ", "ask", "answer", "queueA",
                      "cacheQ", "cacheA", "expire", "done", "failed"}]
    /\ owed \in [Turn -> SUBSET Message] /\ known \subseteq Message /\ calm \in BOOLEAN
    /\ lpc \in [Lister -> {"idle", "query", "drop", "fill", "expire", "recall", "load"}]
    /\ page \in [Lister -> Seq(Message)] /\ todo \in [Lister -> Seq(Message)]
    /\ dpc \in [Deletable -> {"no", "uncache", "queue", "queued", "done"}]
    /\ faults \in 0..MaxFaults

\* The rooms of a server whose Redis was emptied: rows, but neither cache nor memory.
ConversationInit ==
    /\ dated = [i \in 1..(2 * Len(Past)) |->
                  IF i % 2 = 1 THEN Question(Past[(i + 1) \div 2]) ELSE Answer(Past[i \div 2])]
    /\ waiting = {}
    /\ rows = dated
    /\ cache = <<>> /\ mortal = FALSE /\ memory = {}
    /\ tpc = [t \in Turn |-> IF t \in ToSet(Past) THEN "done" ELSE "begin"]
    /\ owed = [t \in Turn |-> {}] /\ known = {} /\ calm = TRUE
    /\ lpc = [l \in Lister |-> "idle"]
    /\ page = [l \in Lister |-> <<>>] /\ todo = [l \in Lister |-> <<>>]
    /\ dpc = [m \in Deletable |-> "no"]
    /\ faults = 0

\* A command fails, is repeated after a lost reply, or a request ends on the way.
Fault == faults < MaxFaults /\ faults' = faults + 1
NoFault == UNCHANGED faults

-----------------------------------------------------------------------------
(* The event loop                                                          *)

\* Between these steps a handler does not await.
TurnHolds(t) == tpc[t] = "answer"
ListHolds(l) == lpc[l] = "load"

\* No other handler of the process is between two such steps.
LoopFree(h) ==
    /\ \A t \in Turn \ {h} : ProcessOf[t] = ProcessOf[h] => ~ TurnHolds(t)
    /\ \A l \in Lister \ {h} : ProcessOf[l] = ProcessOf[h] => ~ ListHolds(l)

TurnStep(t, from, to) ==
    /\ tpc[t] = from /\ LoopFree(t)
    /\ tpc' = [tpc EXCEPT ![t] = to]

ListStep(l, from, to) ==
    /\ lpc[l] = from /\ LoopFree(l)
    /\ lpc' = [lpc EXCEPT ![l] = to]

-----------------------------------------------------------------------------
(* messages:<room>                                                         *)

FirstPage(s) == SubSeq(s, 1, IF Len(s) < PageSize THEN Len(s) ELSE PageSize)

\* fp_chat_messages_get: the oldest rows of the room.
RowPage == FirstPage(rows)

\* RPUSH keeps the lifetime of the key; a new key has none.  Its reply may be lost.
Push(m) ==
    /\ \/ cache' = Append(cache, m) /\ NoFault
       \/ cache' = cache \o <<m, m>> /\ Fault
    /\ UNCHANGED mortal

\* A push that fails, or whose replies are all lost.
PushFails(m) == cache' \in {cache, Append(cache, m)} /\ UNCHANGED mortal /\ Fault

Delete == cache' = <<>> /\ mortal' = FALSE

\* EXPIRE does nothing without the key, and its failure is not noticed.
SetExpire ==
    /\ \/ mortal' = (cache # <<>>) /\ NoFault
       \/ UNCHANGED mortal /\ Fault
    /\ UNCHANGED cache

\* The hour is over.
Expire ==
    /\ mortal
    /\ Delete
    /\ UNCHANGED <<storeVars, turnVars, seenVars, listVars, dpc, faults>>

-----------------------------------------------------------------------------
(* on_chat_message_send_req                                                *)

\* The question gets its time.
SendBegins(t) ==
    /\ TurnStep(t, "begin", "remember")
    /\ dated' = Append(dated, Question(t))
    /\ owed' = [owed EXCEPT ![t] = known]
    /\ UNCHANGED <<waiting, rows, memory, cacheVars, seenVars, listVars, dpc, faults>>

Recall(m) == memory' = memory \cup {m}

\* The question is written to the memory before it is asked ...
Remember(t) ==
    /\ TurnStep(t, "remember", "queueQ")
    /\ Recall(Question(t))
    /\ UNCHANGED <<dated, waiting, rows, cacheVars, owed, seenVars, listVars, dpc, faults>>

\* ... and queued, which may fail; the answer gets its time before it is there.
QueueQuestion(t) ==
    /\ TurnStep(t, "queueQ", "ask")
    /\ \/ waiting' = waiting \cup {Question(t)} /\ NoFault
       \/ UNCHANGED waiting /\ Fault
    /\ dated' = Append(dated, Answer(t))
    /\ UNCHANGED <<rows, memory, cacheVars, owed, seenVars, listVars, dpc>>

\* After the tools have run in a thread, _full_answer reads the memory and calls the
\* model with it ...
Ask(t) ==
    /\ TurnStep(t, "ask", "answer")
    /\ UNCHANGED <<storeVars, cacheVars, owed, seenVars, listVars, dpc, faults>>

\* ... and the answer is added; _full_answer adds the question once more, and after it
\* the handler the answer.
AddAnswer(t) ==
    /\ TurnStep(t, "answer", "queueA")
    /\ memory' = memory \cup {Question(t), Answer(t)}
    /\ UNCHANGED <<dated, waiting, rows, cacheVars, owed, seenVars, listVars, dpc, faults>>

QueueAnswer(t) ==
    /\ TurnStep(t, "queueA", "cacheQ")
    /\ \/ waiting' = waiting \cup {Answer(t)} /\ NoFault
       \/ UNCHANGED waiting /\ Fault
    /\ UNCHANGED <<dated, rows, memory, cacheVars, owed, seenVars, listVars, dpc>>

CacheQuestion(t) ==
    /\ TurnStep(t, "cacheQ", "cacheA")
    /\ Push(Question(t))
    /\ UNCHANGED <<storeVars, owed, seenVars, listVars, dpc>>

CacheAnswer(t) ==
    /\ TurnStep(t, "cacheA", "expire")
    /\ Push(Answer(t))
    /\ UNCHANGED <<storeVars, owed, seenVars, listVars, dpc>>

Finish(t) == known' = known \cup {Question(t), Answer(t)}

\* The lifetime of the cache is renewed, and the answer returned.
Reply(t) ==
    /\ TurnStep(t, "expire", "done")
    /\ SetExpire
    /\ Finish(t)
    /\ UNCHANGED <<storeVars, owed, calm, listVars, dpc>>

\* It is returned as well if a push fails.
CacheFails(t) ==
    /\ \/ TurnStep(t, "cacheQ", "done") /\ PushFails(Question(t))
       \/ TurnStep(t, "cacheA", "done") /\ PushFails(Answer(t))
    /\ Finish(t)
    /\ UNCHANGED <<storeVars, owed, calm, listVars, dpc>>

\* What a failing step may yet have added to the memory.
Added(t) ==
    CASE tpc[t] = "remember" -> {Question(t)}
      [] tpc[t] = "answer"   -> {Question(t), Answer(t)}
      [] OTHER               -> {}

\* A tool, the model or the memory raises, or the process ends.
SendFails(t) ==
    /\ \E step \in {"remember", "queueQ", "ask", "answer", "queueA", "cacheQ", "cacheA", "expire"} :
            TurnStep(t, step, "failed")
    /\ memory' \in {memory, memory \cup Added(t)}
    /\ Fault
    /\ UNCHANGED <<dated, waiting, rows, cacheVars, owed, seenVars, listVars, dpc>>

-----------------------------------------------------------------------------
(* on_chat_message_list_req                                                *)

ListBegins(l, to) ==
    /\ ListStep(l, "idle", to)
    /\ calm' = (calm /\ \A k \in Lister : lpc[k] = "idle")

\* A page of the cache, whatever page was asked for ...
ListCache(l) ==
    /\ cache # <<>>
    /\ ListBegins(l, "recall")
    /\ page' = [page EXCEPT ![l] = FirstPage(cache)]
    /\ UNCHANGED <<storeVars, cacheVars, turnVars, known, todo, dpc, faults>>

\* ... or, when it is empty or cannot be read, of the rows.
ListMisses(l) ==
    /\ ListBegins(l, "query")
    /\ \/ cache = <<>> /\ NoFault
       \/ cache # <<>> /\ Fault
    /\ UNCHANGED <<storeVars, cacheVars, turnVars, known, page, todo, dpc>>

\* Page 1 (see above): the rows at the offset (page - 1) * limit, which is 0.
ListRows(l) ==
    /\ ListStep(l, "query", IF RowPage = <<>> THEN "idle" ELSE "drop")
    /\ page' = [page EXCEPT ![l] = RowPage]
    /\ UNCHANGED <<storeVars, cacheVars, turnVars, seenVars, todo, dpc, faults>>

\* _cache_chatbot_messages_to_redis: the cache is deleted, the page is pushed
\* message by message, and the key gets its lifetime.
DropCache(l) ==
    /\ ListStep(l, "drop", "fill")
    /\ Delete
    /\ todo' = [todo EXCEPT ![l] = page[l]]
    /\ UNCHANGED <<storeVars, turnVars, seenVars, page, dpc, faults>>

FillCache(l) ==
    /\ ListStep(l, "fill", IF Len(todo[l]) = 1 THEN "expire" ELSE "fill")
    /\ Push(Head(todo[l]))
    /\ todo' = [todo EXCEPT ![l] = Tail(todo[l])]
    /\ UNCHANGED <<storeVars, turnVars, seenVars, page, dpc>>

\* A mutant of KeepForAnHour: the refilled cache gets no lifetime.
KeepForever == UNCHANGED <<cacheVars, faults>>

KeepForAnHour == SetExpire

FilledCache(l) ==
    /\ ListStep(l, "expire", "recall")
    /\ KeepForAnHour
    /\ UNCHANGED <<storeVars, turnVars, seenVars, page, todo, dpc>>

FillFails(l) ==
    /\ \/ /\ ListStep(l, "drop", "recall")
          /\ Fault
          /\ Delete \/ UNCHANGED cacheVars
       \/ ListStep(l, "fill", "recall") /\ PushFails(Head(todo[l]))
    /\ todo' = [todo EXCEPT ![l] = <<>>]
    /\ UNCHANGED <<storeVars, turnVars, seenVars, page, dpc>>

\* A mutant of Forgotten: what the user lists is never loaded.
NeverForgotten == FALSE

Forgotten == memory = {}

\* Only lists so far, one after the other, and no deletion that moves a message of a long
\* history onto the page: a memory that has been begun is not completed.
HistoryOnly ==
    /\ calm /\ faults = 0
    /\ \A t \in Turn \ ToSet(Past) : tpc[t] = "begin"
    /\ Len(dated) <= PageSize \/ \A m \in Deletable : dpc[m] = "no"

\* The user has the page.
Shown(l) ==
    /\ known' = IF HistoryOnly THEN known \cup ToSet(page[l]) ELSE known
    /\ page' = [page EXCEPT ![l] = <<>>]

\* The memory is there, and nothing is loaded ...
RecallNothing(l) ==
    /\ ~ Forgotten
    /\ ListStep(l, "recall", "idle")
    /\ NoFault
    /\ Shown(l)
    /\ UNCHANGED <<storeVars, cacheVars, turnVars, calm, todo, dpc>>

\* ... or it is empty, and load_chat_history adds the page message by message.
RecallPage(l) ==
    /\ Forgotten
    /\ ListStep(l, "recall", "load")
    /\ todo' = [todo EXCEPT ![l] = page[l]]
    /\ UNCHANGED <<storeVars, cacheVars, turnVars, seenVars, page, dpc, faults>>

\* A message that cannot be added is left out.
LoadMessage(l) ==
    /\ todo[l] # <<>>
    /\ ListStep(l, "load", "load")
    /\ \/ Recall(Head(todo[l])) /\ NoFault
       \/ UNCHANGED memory /\ Fault
    /\ todo' = [todo EXCEPT ![l] = Tail(todo[l])]
    /\ UNCHANGED <<dated, waiting, rows, cacheVars, turnVars, seenVars, page, dpc>>

LoadedPage(l) ==
    /\ todo[l] = <<>>
    /\ ListStep(l, "load", "idle")
    /\ NoFault
    /\ Shown(l)
    /\ UNCHANGED <<storeVars, cacheVars, turnVars, calm, todo, dpc>>

\* The database fails, or the process ends.
ListEnds(l) ==
    /\ \E step \in {"query", "drop", "fill", "expire", "recall", "load"} :
            ListStep(l, step, "idle")
    /\ Fault
    /\ page' = [page EXCEPT ![l] = <<>>]
    /\ todo' = [todo EXCEPT ![l] = <<>>]
    /\ UNCHANGED <<storeVars, cacheVars, turnVars, seenVars, dpc>>

-----------------------------------------------------------------------------
(* on_chat_message_delete_req, and the jobs of ChatMessage                 *)

DeleteStep(m, from, to) ==
    /\ dpc[m] = from
    /\ dpc' = [dpc EXCEPT ![m] = to]

\* A message that is stored becomes DELETING ...
Mark(m) ==
    /\ m \in ToSet(rows)
    /\ DeleteStep(m, "no", "uncache")
    /\ UNCHANGED <<storeVars, cacheVars, turnVars, seenVars, listVars, faults>>

\* ... the cache is deleted, for the next list to read the rows ...
Uncache(m) ==
    /\ DeleteStep(m, "uncache", "queue")
    /\ Delete
    /\ UNCHANGED <<storeVars, turnVars, seenVars, listVars, faults>>

\* ... and the deletion of the row is queued.
QueueDeletion(m) ==
    /\ DeleteStep(m, "queue", "queued")
    /\ UNCHANGED <<storeVars, cacheVars, turnVars, seenVars, listVars, faults>>

\* Redis or the queue fails.
DeleteFails(m) ==
    /\ \E step \in {"uncache", "queue"} : DeleteStep(m, step, "done")
    /\ Fault
    /\ UNCHANGED <<storeVars, cacheVars, turnVars, seenVars, listVars>>

SoftDelete(m) ==
    /\ DeleteStep(m, "queued", "done")
    /\ \E i \in DOMAIN rows : rows[i] = m /\ rows' = RemoveAt(rows, i)
    /\ UNCHANGED <<dated, waiting, memory, cacheVars, turnVars, seenVars, listVars, faults>>

Older(m, n) == \E i, j \in DOMAIN dated : i < j /\ dated[i] = m /\ dated[j] = n

\* The queued messages become rows, in any order; each has its place by its time.
Store(m) ==
    /\ m \in waiting
    /\ waiting' = waiting \ {m}
    /\ \E i \in 1..(Len(rows) + 1) :
        /\ \A k \in DOMAIN rows : (k < i) <=> Older(rows[k], m)
        /\ rows' = InsertAt(rows, i, m)
    /\ UNCHANGED <<dated, memory, cacheVars, turnVars, seenVars, listVars, dpc, faults>>

-----------------------------------------------------------------------------
SendRuns(t) ==
    \/ Remember(t) \/ QueueQuestion(t) \/ Ask(t) \/ AddAnswer(t) \/ QueueAnswer(t)
    \/ CacheQuestion(t) \/ CacheAnswer(t) \/ Reply(t)

ListRuns(l) ==
    \/ ListRows(l) \/ DropCache(l) \/ FillCache(l) \/ FilledCache(l)
    \/ RecallNothing(l) \/ RecallPage(l) \/ LoadMessage(l) \/ LoadedPage(l)

DeleteRuns(m) == Uncache(m) \/ QueueDeletion(m) \/ SoftDelete(m)

ConversationNext ==
    \/ \E t \in Turn : SendBegins(t) \/ SendRuns(t) \/ CacheFails(t) \/ SendFails(t)
    \/ \E l \in Lister : ListCache(l) \/ ListMisses(l) \/ ListRuns(l) \/ FillFails(l) \/ ListEnds(l)
    \/ \E m \in Deletable : Mark(m) \/ DeleteRuns(m) \/ DeleteFails(m)
    \/ \E m \in waiting : Store(m)
    \/ Expire

ConversationSpec == ConversationInit /\ [][ConversationNext]_conversationVars

\* Handlers that have begun go on, queued messages and deletions reach the rows, and
\* Redis ends lifetimes.
ConversationFairness ==
    /\ \A t \in Turn : WF_conversationVars(SendRuns(t))
    /\ \A l \in Lister : WF_conversationVars(ListRuns(l))
    /\ \A m \in Deletable : WF_conversationVars(DeleteRuns(m))
    /\ \A m \in Message : WF_conversationVars(Store(m))
    /\ WF_conversationVars(Expire)

FairConversationSpec == ConversationSpec /\ ConversationFairness

-----------------------------------------------------------------------------
(* Properties                                                              *)

\* The model answers with everything in mind that the user had seen before he asked:
\* the turns that were answered, in whichever process, and the history listed to him
\* since Redis was emptied, unless that list raced another handler or a deletion had
\* moved the page of a long history (the history is added and never cleared, and loaded
\* only into an empty memory, AIChat_service.py:389-398).
KnowsThePast ==
    [][\A t \in Turn : tpc[t] = "ask" /\ tpc'[t] = "answer" => owed[t] \subseteq memory
      ]_conversationVars

\* What a list request would show now.
NextPage == IF cache # <<>> THEN FirstPage(cache) ELSE RowPage

\* The cache of the room is being written anew.
Refilling == \E l \in Lister : lpc[l] \in {"drop", "fill"}

\* Unless a command fails or two lists overlap, what is listed agrees with the rows in
\* the end, also for a room that is listed again and again: a message that a racing
\* list or an expired cache has hidden is seen again, and a deleted one that a racing
\* list has cached again goes (chat_template_impl.py:163-184, 404-449, 728-733).
PageCatchesUp == <>[](faults = 0 /\ calm /\ ~ Refilling => NextPage = RowPage)
=============================================================================
