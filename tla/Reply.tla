-------------------------------- MODULE Reply --------------------------------
(***************************************************************************)
(* Answering questions: StreamReplyUseCase and the chats and messages it   *)
(* writes, while chats and projects are deleted, indexes come and go, and  *)
(* clients disconnect.                                                     *)
(*                                                                         *)
(* The calls are coroutines of one event loop: a step ends at an await (a  *)
(* statement of the database, a call of the language model) or at a yield  *)
(* to the client.  What a prompt, an answer or a citation says is left     *)
(* out; which index an answer cites and whose metrics it carries is not.   *)
(***************************************************************************)
EXTENDS Naturals, FiniteSets

CONSTANTS
    Projects,
    Chats,      \* identifiers of the chats ever created (bound)
    Replies,    \* calls of StreamReplyUseCase.execute (bound)
    NumIndexes, \* indexes ever created, numbered in the order of created_at (bound)
    Faults,     \* which failures the environment may produce
    None

FaultKinds == {"context",    \* rewriting, embedding or searching raises
               "llm",        \* the answer's stream raises
               "disconnect", \* the client goes away, or a statement of the database raises
               "reopen"}     \* a late cancel takes an index back from READY

ASSUME ReplyAssumption ==
    /\ NumIndexes \in Nat
    /\ Faults \subseteq FaultKinds
    /\ None \notin Projects \cup Chats \cup Replies \cup Nat

Indexes == 1..NumIndexes

VARIABLES
    clock,       \* utcnow(), advanced whenever it is read
    project,     \* projects row: TRUE while it is there
    indexOf,     \* the project of each index, None when not created yet
    ready,       \* the indexes whose row says READY
    chat,        \* chats rows
    messages,    \* chat_messages rows
    call,        \* local state of each StreamReply call
    lastMetrics  \* _last_metrics of the shared reply generator: whose they are

rows == <<project, indexOf, ready, chat, messages>>
vars == <<clock, rows, call, lastMetrics>>

Init ==
    /\ clock = 0
    /\ project = [p \in Projects |-> TRUE]
    /\ indexOf = [i \in Indexes |-> None]
    /\ ready = {}
    /\ chat = [c \in Chats |-> [state |-> "absent", project |-> None, updated |-> 0]]
    /\ messages = {}
    /\ call = [r \in Replies |->
                 [pc |-> "idle", project |-> None, chat |-> None, index |-> None, at |-> 0,
                  metrics |-> None]]
    /\ lastMetrics = None

-----------------------------------------------------------------------------
(* The rows around the calls. *)

(* get_latest_ready_by_project_and_owner: the set with the newest, or none.*)
LatestReady(p) ==
    {i \in ready : indexOf[i] = p /\ \A j \in ready : indexOf[j] = p => j <= i}

LiveChat(c) == chat[c].state = "live"

(* CreateChatUseCase: the chat's foreign key is checked at the commit.     *)
CreateChat(c, p) ==
    /\ chat[c].state = "absent"
    /\ project[p]
    /\ clock' = clock + 1
    /\ chat' = [chat EXCEPT ![c] = [state |-> "live", project |-> p, updated |-> clock + 1]]
    /\ UNCHANGED <<project, indexOf, ready, messages, call, lastMetrics>>

(* The chats go, and their messages with them (ON DELETE CASCADE).         *)
DropChats(cs) ==
    /\ chat' = [c \in Chats |-> IF c \in cs THEN [chat[c] EXCEPT !.state = "deleted"] ELSE chat[c]]
    /\ messages' = {m \in messages : m.chat \notin cs}

DeleteChat(c) ==
    /\ LiveChat(c)
    /\ DropChats({c})
    /\ UNCHANGED <<clock, project, indexOf, ready, call, lastMetrics>>

DeleteProject(p) ==
    /\ project[p]
    /\ project' = [project EXCEPT ![p] = FALSE]
    /\ DropChats({c \in Chats : LiveChat(c) /\ chat[c].project = p})
    /\ UNCHANGED <<clock, indexOf, ready, call, lastMetrics>>

(* An indexing job ends well, for a project that may be gone by then.      *)
PublishIndex(i, p) ==
    /\ indexOf[i] = None
    /\ indexOf' = [indexOf EXCEPT ![i] = p]
    /\ ready' = ready \cup {i}
    /\ UNCHANGED <<clock, project, chat, messages, call, lastMetrics>>

ReopenIndex(i) ==
    /\ "reopen" \in Faults
    /\ i \in ready
    /\ ready' = ready \ {i}
    /\ UNCHANGED <<clock, project, indexOf, chat, messages, call, lastMetrics>>

-----------------------------------------------------------------------------
(* StreamReplyUseCase.execute. *)

Goto(r, from, to) == call[r].pc = from /\ call' = [call EXCEPT ![r].pc = to]

Fail(r, from) == Goto(r, from, "failed") /\ UNCHANGED <<clock, rows, lastMetrics>>

(* Variant: a project without a READY index is not refused.                *)
FindIndexUnchecked(r, p, c) ==
    /\ call[r].pc = "idle"
    /\ project[p] /\ chat[c].state # "absent"
    /\ \E i \in LatestReady(p) \cup {None} :
          call' = [call EXCEPT ![r] =
                     [@ EXCEPT !.pc = "chat", !.project = p, !.chat = c, !.index = i]]
    /\ UNCHANGED <<clock, rows, lastMetrics>>

(* 1) The latest READY index of the project.  A call that does not find    *)
(* one ends without a trace.                                               *)
FindIndex(r, p, c) ==
    /\ call[r].pc = "idle"
    /\ project[p] /\ chat[c].state # "absent"
    /\ \E i \in LatestReady(p) :
          call' = [call EXCEPT ![r] =
                     [@ EXCEPT !.pc = "chat", !.project = p, !.chat = c, !.index = i]]
    /\ UNCHANGED <<clock, rows, lastMetrics>>

(* Variant: any chat of the owner will do.                                 *)
FindAnyChat(r) ==
    /\ call[r].pc = "chat"
    /\ IF LiveChat(call[r].chat)
       THEN Goto(r, "chat", "question") /\ UNCHANGED <<clock, rows, lastMetrics>>
       ELSE Fail(r, "chat")

(* ... and a chat of that project.                                         *)
FindChat(r) ==
    /\ call[r].pc = "chat"
    /\ IF LiveChat(call[r].chat) /\ chat[call[r].chat].project = call[r].project
       THEN Goto(r, "chat", "question") /\ UNCHANGED <<clock, rows, lastMetrics>>
       ELSE Fail(r, "chat")

(* CreateChatMessageUseCase: the chat is looked up, the message gets its   *)
(* created_at ...                                                          *)
Stamp(r, from, to) ==
    /\ call[r].pc = from
    /\ IF LiveChat(call[r].chat)
       THEN /\ clock' = clock + 1
            /\ call' = [call EXCEPT ![r] = [@ EXCEPT !.pc = to, !.at = clock + 1]]
            /\ UNCHANGED <<rows, lastMetrics>>
       ELSE Fail(r, from)

Message(r, role, index, metrics) ==
    [reply |-> r, chat |-> call[r].chat, role |-> role, at |-> call[r].at,
     index |-> index, metrics |-> metrics]

(* Variant: no foreign key.                                                *)
SaveAnyway(r, from, to, role, index, metrics) ==
    /\ Goto(r, from, to)
    /\ messages' = messages \cup {Message(r, role, index, metrics)}
    /\ UNCHANGED <<clock, project, indexOf, ready, chat, lastMetrics>>

(* ... and is written: insert, touch of the chat, commit.  The foreign key *)
(* refuses it when the chat has been deleted in between.                   *)
Save(r, from, to, role, index, metrics) ==
    /\ call[r].pc = from
    /\ IF LiveChat(call[r].chat)
       THEN /\ Goto(r, from, to)
            /\ messages' = messages \cup {Message(r, role, index, metrics)}
            /\ chat' = [chat EXCEPT ![call[r].chat].updated = call[r].at]
            /\ UNCHANGED <<clock, project, indexOf, ready, lastMetrics>>
       ELSE Fail(r, from)

StampQuestion(r) == Stamp(r, "question", "asking")

SaveQuestion(r) == Save(r, "asking", "history", "user", None, None)

(* 4) GetChatMessagesUseCase.                                              *)
ReadHistory(r) ==
    /\ call[r].pc = "history"
    /\ IF LiveChat(call[r].chat)
       THEN Goto(r, "history", "context") /\ UNCHANGED <<clock, rows, lastMetrics>>
       ELSE Fail(r, "history")

(* 3) BuildIndexContextUseCase looks at project and index once more.       *)
BuildContext(r) ==
    /\ call[r].pc = "context"
    /\ IF project[call[r].project] /\ call[r].index \in ready
       THEN Goto(r, "context", "streaming") /\ UNCHANGED <<clock, rows, lastMetrics>>
       ELSE Fail(r, "context")

ContextFails(r) == "context" \in Faults /\ Fail(r, "context")

(* Variant: the client's stream is closed before the answer is saved.      *)
StreamEndsUnsaved(r) ==
    /\ call[r].pc = "streaming"
    /\ lastMetrics' = r
    /\ call' = [call EXCEPT ![r] = [@ EXCEPT !.pc = "closed", !.metrics = r]]
    /\ UNCHANGED <<clock, rows>>

(* 6) The answer's stream ends; the generator stores its metrics and 7)    *)
(* the call reads them, with no await in between.                          *)
StreamEnds(r) ==
    /\ call[r].pc = "streaming"
    /\ lastMetrics' = r
    /\ call' = [call EXCEPT ![r] = [@ EXCEPT !.pc = "answer", !.metrics = lastMetrics']]
    /\ UNCHANGED <<clock, rows>>

StreamFails(r) == "llm" \in Faults /\ Fail(r, "streaming")

(* Variant: question and answer share one created_at.                      *)
StampAnswerOnce(r) == Goto(r, "answer", "saving") /\ UNCHANGED <<clock, rows, lastMetrics>>

StampAnswer(r) == Stamp(r, "answer", "saving")

(* Variant: the metrics are read when the message is written.              *)
SaveAnswerLateMetrics(r) ==
    Save(r, "saving", "closed", "assistant", call[r].index, lastMetrics)

(* 8) The client sees the end of the stream only after this.               *)
SaveAnswer(r) ==
    Save(r, "saving", "closed", "assistant", call[r].index, call[r].metrics)

(* The call is cancelled at its await or yield, or the database raises.    *)
Interrupted(r) ==
    /\ "disconnect" \in Faults
    /\ call[r].pc \notin {"idle", "closed", "failed"}
    /\ Fail(r, call[r].pc)

-----------------------------------------------------------------------------
Next ==
    \/ \E r \in Replies :
          \/ \E p \in Projects, c \in Chats : FindIndex(r, p, c)
          \/ FindChat(r) \/ StampQuestion(r) \/ SaveQuestion(r) \/ ReadHistory(r) \/ BuildContext(r)
          \/ ContextFails(r) \/ StreamEnds(r) \/ StreamFails(r) \/ StampAnswer(r) \/ SaveAnswer(r)
          \/ Interrupted(r)
    \/ \E c \in Chats : DeleteChat(c) \/ \E p \in Projects : CreateChat(c, p)
    \/ \E p \in Projects : DeleteProject(p)
    \/ \E i \in Indexes : ReopenIndex(i) \/ \E p \in Projects : PublishIndex(i, p)

Spec == Init /\ [][Next]_vars

-----------------------------------------------------------------------------
(* Properties. *)

Calls ==
    [pc : {"idle", "chat", "question", "asking", "history", "context", "streaming", "answer", "saving",
           "closed", "failed"},
     project : Projects \cup {None}, chat : Chats \cup {None}, index : Indexes \cup {None},
     at : Nat, metrics : Replies \cup {None}]

MessageRows ==
    [reply : Replies, chat : Chats, role : {"user", "assistant"}, at : Nat,
     index : Indexes \cup {None}, metrics : Replies \cup {None}]

(* Every variable has its type; a call under way knows its chat.           *)
TypeOK ==
    /\ clock \in Nat
    /\ project \in [Projects -> BOOLEAN]
    /\ indexOf \in [Indexes -> Projects \cup {None}]
    /\ ready \subseteq Indexes
    /\ chat \in [Chats -> [state : {"absent", "live", "deleted"},
                           project : Projects \cup {None}, updated : Nat]]
    /\ messages \subseteq MessageRows
    /\ call \in [Replies -> Calls]
    /\ \A r \in Replies : call[r].pc # "idle" =>
          call[r].chat \in Chats /\ call[r].project \in Projects /\ call[r].index \in Indexes
    /\ lastMetrics \in Replies \cup {None}

(* However deletions of chats and projects interleave with calls that are  *)
(* between two transactions, no message outlives its chat and no chat its  *)
(* project.                                                                *)
NoOrphans ==
    /\ \A m \in messages : LiveChat(m.chat)
    /\ \A c \in Chats : LiveChat(c) => project[chat[c].project]

(* An answer stands in the chat of its question, later than it: the        *)
(* history, ordered by created_at, never shows an answer first, whatever   *)
(* the other calls on the chat do.                                         *)
AnswersFollowTheirQuestion ==
    \A a \in messages : a.role = "assistant" =>
        \E q \in messages :
            q.role = "user" /\ q.reply = a.reply /\ q.chat = a.chat /\ q.at < a.at

(* The metrics stored with an answer are those of its own stream, although *)
(* all calls share one generator and its _last_metrics.                    *)
MetricsAreOwn ==
    \A a \in messages : a.role = "assistant" => a.metrics = a.reply

(* The index an answer cites belongs to the project of the chat it stands  *)
(* in, although the index is chosen before the chat is looked up again.    *)
AnswersCiteTheirProject ==
    \A a \in messages : a.role = "assistant" => indexOf[a.index] = chat[a.chat].project

(* A client that has seen the end of the stream finds question and answer  *)
(* when it reloads the chat, unless the chat has been deleted.             *)
SeenAnswersAreKept ==
    \A r \in Replies : call[r].pc = "closed" /\ LiveChat(call[r].chat) =>
        \A role \in {"user", "assistant"} :
            \E m \in messages : m.reply = r /\ m.role = role /\ m.chat = call[r].chat

=============================================================================
