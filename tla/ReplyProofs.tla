----------------------------- MODULE ReplyProofs -----------------------------
(***************************************************************************)
(* Theorems about Reply: for any number of projects, chats, indexes and    *)
(* calls, whatever fails and whatever is deleted.                          *)
(***************************************************************************)
EXTENDS Reply, TLAPS

(* A call that has checked its chat, and one whose question is saved.      *)
Checked == {"question", "asking", "history", "context", "streaming", "answer", "saving"}
Asked   == {"history", "context", "streaming", "answer", "saving"}

(* The question stays in its chat as long as the chat lives, and the time  *)
(* of the answer is later.                                                 *)
Question(r, v) ==
    \E q \in messages :
        /\ q.role = "user" /\ q.reply = r /\ q.chat = v.chat /\ q.at <= v.at
        /\ v.pc = "saving" => q.at < v.at

(* What a call r in state v may rely on: its index, its project and, once  *)
(* checked, its chat never change hands.                                   *)
Sound(r, v) ==
    /\ v.pc # "idle" =>
          /\ v.chat \in Chats /\ v.project \in Projects /\ v.index \in Indexes
          /\ indexOf[v.index] = v.project /\ chat[v.chat].state # "absent"
    /\ v.pc \in Checked => chat[v.chat].project = v.project
    /\ v.pc \in {"answer", "saving"} => v.metrics = r
    /\ v.pc \in Asked /\ LiveChat(v.chat) => Question(r, v)

CallInv == \A r \in Replies : call[r].at <= clock /\ Sound(r, call[r])

AnswersHaveAnIndex ==
    \A a \in messages :
        a.role = "assistant" => a.index \in Indexes /\ indexOf[a.index] \in Projects

MessageInv ==
    /\ NoOrphans /\ AnswersFollowTheirQuestion /\ MetricsAreOwn /\ AnswersCiteTheirProject
    /\ AnswersHaveAnIndex

IInv == TypeOK /\ CallInv /\ MessageInv /\ SeenAnswersAreKept

-----------------------------------------------------------------------------
LEMMA InitInv == Init => IInv
BY ReplyAssumption
   DEF Init, IInv, TypeOK, Calls, MessageRows, CallInv, Sound, Checked, Asked, MessageInv,
       NoOrphans, AnswersFollowTheirQuestion, MetricsAreOwn, AnswersCiteTheirProject,
       AnswersHaveAnIndex,
       SeenAnswersAreKept, LiveChat

(* A step of a call that writes no row keeps the invariant when the call's *)
(* new state is sound.                                                     *)
LEMMA CallStep ==
  ASSUME IInv, NEW r \in Replies,
         call' \in [Replies -> Calls], \A s \in Replies \ {r} : call'[s] = call[s],
         rows' = rows, clock' \in Nat, clock' >= clock, call'[r].at <= clock',
         lastMetrics' \in Replies \cup {None},
         call'[r].pc \notin {"idle", "closed"}, Sound(r, call[r])'
  PROVE  IInv'
<1> USE DEF rows
<1>1. TypeOK'
  BY DEF IInv, TypeOK, Calls, Sound
<1>2. CallInv'
  <2> SUFFICES ASSUME NEW s \in Replies \ {r}
               PROVE  call'[s].at <= clock' /\ Sound(s, call[s])'
    BY DEF CallInv
  <2>1. call'[s] = call[s] /\ call[s].at <= clock /\ Sound(s, call[s])
    BY DEF IInv, CallInv
  <2>2. call[s].at \in Nat /\ clock \in Nat
    BY DEF IInv, TypeOK, Calls
  <2> QED  BY <2>1, <2>2 DEF Sound, Question, LiveChat
<1>3. MessageInv'
  BY DEF IInv, MessageInv, NoOrphans, AnswersFollowTheirQuestion, MetricsAreOwn,
         AnswersCiteTheirProject, AnswersHaveAnIndex, LiveChat
<1>4. SeenAnswersAreKept'
  <2>1. \A s \in Replies : call'[s].pc = "closed" => call'[s] = call[s]
    OBVIOUS
  <2> QED  BY <2>1 DEF IInv, SeenAnswersAreKept, LiveChat
<1> QED  BY <1>1, <1>2, <1>3, <1>4 DEF IInv

Becomes(r, v) ==
    /\ call' \in [Replies -> Calls]
    /\ call'[r] = v
    /\ \A s \in Replies \ {r} : call'[s] = call[s]

(* The same for a step that gives the call the state v.                    *)
LEMMA CallBecomes ==
  ASSUME IInv, NEW r \in Replies, NEW v, Becomes(r, v), rows' = rows,
         clock' \in Nat, clock' >= clock, v.at <= clock',
         lastMetrics' \in Replies \cup {None},
         v.pc \notin {"idle", "closed"}, Sound(r, v)
  PROVE  IInv'
<1>1. Sound(r, call[r])'
  BY DEF Becomes, Sound, Question, LiveChat, rows
<1> QED  BY <1>1, CallStep DEF Becomes

(* A call may fail anywhere: nothing is written, nothing has to be undone. *)
LEMMA FailStep ==
  ASSUME IInv, NEW r \in Replies, NEW from \in {"chat"} \cup Checked, Fail(r, from)
  PROVE  IInv'
<1>v. PICK v : v = [call[r] EXCEPT !.pc = "failed"]
  OBVIOUS
<1>1. call[r] \in Calls /\ call[r].at \in Nat /\ clock \in Nat
  BY DEF IInv, TypeOK, Calls
<1>2. v \in Calls /\ v.at = call[r].at /\ v.pc = "failed" /\ v.chat = call[r].chat
      /\ v.project = call[r].project /\ v.index = call[r].index
  BY <1>v, <1>1 DEF Calls
<1>3. Becomes(r, v) /\ clock' = clock /\ rows' = rows
      /\ lastMetrics' = lastMetrics
  BY <1>v, <1>2 DEF Fail, Goto, Becomes, IInv, TypeOK
<1>4. call[r].pc # "idle" /\ call[r].at <= clock /\ Sound(r, call[r])
  BY DEF Fail, Goto, Checked, IInv, CallInv
<1>5. Sound(r, v)
  BY <1>2, <1>4 DEF Sound, Checked, Asked
<1>6. lastMetrics' \in Replies \cup {None}
  BY <1>3 DEF IInv, TypeOK
<1> QED  BY <1>1, <1>2, <1>3, <1>4, <1>5, <1>6, CallBecomes

-----------------------------------------------------------------------------
(* The steps of a call that write no row: it only moves on, with what it   *)
(* has read.                                                               *)
LEMMA ReadingStep ==
  ASSUME IInv, NEW r \in Replies,
         \/ \E p \in Projects, c \in Chats : FindIndex(r, p, c)
         \/ FindChat(r) \/ StampQuestion(r) \/ ReadHistory(r) \/ BuildContext(r)
         \/ ContextFails(r) \/ StreamEnds(r) \/ StreamFails(r) \/ StampAnswer(r)
         \/ Interrupted(r)
  PROVE  IInv'
<1> DEFINE u == call[r]
<1>0. /\ u \in Calls /\ u.at \in Nat /\ clock \in Nat /\ u.at <= clock /\ Sound(r, u)
      /\ lastMetrics \in Replies \cup {None}
  BY DEF IInv, TypeOK, Calls, CallInv
<1>1. ASSUME NEW p \in Projects, NEW c \in Chats, FindIndex(r, p, c) PROVE IInv'
  <2>1. PICK i \in LatestReady(p) :
          call' = [call EXCEPT ![r] =
                     [@ EXCEPT !.pc = "chat", !.project = p, !.chat = c, !.index = i]]
    BY <1>1 DEF FindIndex
  <2>2. i \in Indexes /\ indexOf[i] = p
    BY DEF LatestReady, IInv, TypeOK
  <2>v. PICK v : v = [u EXCEPT !.pc = "chat", !.project = p, !.chat = c, !.index = i]
    OBVIOUS
  <2>3. /\ v \in Calls /\ v.at = u.at /\ v.pc = "chat" /\ v.chat = c /\ v.project = p
        /\ v.index = i
    BY <1>0, <2>v, <2>2 DEF Calls
  <2>4. /\ Becomes(r, v) /\ clock' = clock /\ rows' = rows
        /\ lastMetrics' = lastMetrics /\ chat[c].state # "absent"
    BY <1>1, <2>v, <2>1, <2>3 DEF FindIndex, Becomes, IInv, TypeOK
  <2>5. Sound(r, v)
    BY <2>2, <2>3, <2>4 DEF Sound, Checked, Asked
  <2> QED  BY <1>0, <2>3, <2>4, <2>5, CallBecomes
<1>2. ASSUME NEW from \in {"chat"} \cup Checked, NEW to \in Checked,
             Goto(r, from, to), UNCHANGED <<clock, rows, lastMetrics>>,
             to = "question" => chat[u.chat].project = u.project,
             to \in Asked \ {"saving"} => from \in Asked \ {"saving"},
             to # "saving", to # "answer", from = "chat" => to = "question"
      PROVE  IInv'
  <2>v. PICK v : v = [u EXCEPT !.pc = to]
    OBVIOUS
  <2>1. /\ v \in Calls /\ v.at = u.at /\ v.pc = to /\ v.chat = u.chat
        /\ v.project = u.project /\ v.index = u.index
    BY <1>0, <2>v DEF Calls, Checked
  <2>2. /\ Becomes(r, v) /\ u.pc = from /\ clock' = clock /\ rows' = rows
        /\ lastMetrics' = lastMetrics
    BY <1>2, <2>v, <2>1 DEF Goto, Becomes, IInv, TypeOK
  <2>3. Sound(r, v)
    BY <1>0, <1>2, <2>1, <2>2 DEF Sound, Checked, Asked, Question
  <2>4. v.pc \notin {"idle", "closed"}
    BY <2>1 DEF Checked
  <2> QED  BY <1>0, <1>2, <2>1, <2>2, <2>3, <2>4, CallBecomes
<1>3. ASSUME FindChat(r) PROVE IInv'
  BY <1>2, <1>3, FailStep DEF FindChat, Checked, Asked
<1>4. ASSUME ReadHistory(r) PROVE IInv'
  BY <1>2, <1>4, FailStep DEF ReadHistory, Checked, Asked
<1>5. ASSUME BuildContext(r) PROVE IInv'
  BY <1>2, <1>5, FailStep DEF BuildContext, Checked, Asked
<1>6. ASSUME ContextFails(r) \/ StreamFails(r) PROVE IInv'
  BY <1>6, FailStep DEF ContextFails, StreamFails, Checked
<1>7. ASSUME Interrupted(r) PROVE IInv'
  BY <1>0, <1>7, FailStep DEF Interrupted, Checked, Calls
<1>8. ASSUME StreamEnds(r) PROVE IInv'
  <2>v. PICK v : v = [u EXCEPT !.pc = "answer", !.metrics = r]
    OBVIOUS
  <2>1. /\ v \in Calls /\ v.at = u.at /\ v.pc = "answer" /\ v.chat = u.chat
        /\ v.project = u.project /\ v.index = u.index /\ v.metrics = r
    BY <1>0, <2>v DEF Calls
  <2>2. /\ Becomes(r, v) /\ u.pc = "streaming" /\ lastMetrics' = r
        /\ clock' = clock /\ rows' = rows
    BY <1>8, <2>v, <2>1 DEF StreamEnds, Becomes, IInv, TypeOK
  <2>3. Sound(r, v)
    BY <1>0, <2>1, <2>2 DEF Sound, Checked, Asked, Question
  <2> QED  BY <1>0, <2>1, <2>2, <2>3, CallBecomes
<1>9. ASSUME NEW from \in {"question", "answer"}, NEW to \in {"asking", "saving"},
             from = "question" <=> to = "asking", Stamp(r, from, to)
      PROVE  IInv'
  <2>1. CASE ~LiveChat(u.chat)
    BY <1>9, <2>1, FailStep DEF Stamp, Checked
  <2>2. CASE LiveChat(u.chat)
    <3>v. PICK v : v = [u EXCEPT !.pc = to, !.at = clock + 1]
      OBVIOUS
    <3>1. /\ v \in Calls /\ v.at = clock + 1 /\ v.pc = to /\ v.chat = u.chat
          /\ v.project = u.project /\ v.index = u.index /\ v.metrics = u.metrics
      <4>1. clock + 1 \in Nat
        BY <1>0
      <4>2. CASE to = "asking"
        BY <1>0, <3>v, <4>1, <4>2 DEF Calls
      <4>3. CASE to = "saving"
        BY <1>0, <3>v, <4>1, <4>3 DEF Calls
      <4> QED  BY <4>2, <4>3
    <3>2. /\ Becomes(r, v) /\ u.pc = from /\ clock' = clock + 1
          /\ rows' = rows /\ lastMetrics' = lastMetrics
      BY <1>9, <2>2, <3>v, <3>1 DEF Stamp, Becomes, IInv, TypeOK
    <3>3. ASSUME to = "saving" PROVE Question(r, v)
      <4>1. PICK q \in messages :
              q.role = "user" /\ q.reply = r /\ q.chat = u.chat /\ q.at <= u.at
        BY <1>0, <1>9, <2>2, <3>2, <3>3 DEF Sound, Asked, Question
      <4>2. q.at \in Nat
        BY DEF IInv, TypeOK, MessageRows
      <4> QED  BY <1>0, <3>1, <4>1, <4>2 DEF Question
    <3>4. Sound(r, v)
      BY <1>0, <1>9, <3>1, <3>2, <3>3 DEF Sound, Checked, Asked
    <3> QED  BY <1>0, <3>1, <3>2, <3>4, CallBecomes
  <2> QED  BY <2>1, <2>2
<1>10. ASSUME StampQuestion(r) \/ StampAnswer(r) PROVE IInv'
  BY <1>9, <1>10 DEF StampQuestion, StampAnswer
<1> QED  BY <1>1, <1>3, <1>4, <1>5, <1>6, <1>7, <1>8, <1>10

(* The call r writes message m and goes on to the place to.                *)
Saves(r, m, to) ==
    /\ messages' = messages \cup {m}
    /\ call' = [call EXCEPT ![r].pc = to]
    /\ \/ /\ call[r].pc = "asking" /\ to = "history"
          /\ m = Message(r, "user", None, None)
       \/ /\ call[r].pc = "saving" /\ to = "closed"
          /\ m = Message(r, "assistant", call[r].index, call[r].metrics)
    /\ chat' = [chat EXCEPT ![call[r].chat].updated = call[r].at]
    /\ UNCHANGED <<clock, project, indexOf, ready, lastMetrics>>

(* The two writing steps: the chat lives, so the message is no orphan, and *)
(* an answer finds its question there.                                     *)
LEMMA SavingStep ==
  ASSUME IInv, NEW r \in Replies, SaveQuestion(r) \/ SaveAnswer(r)
  PROVE  IInv'
<1> DEFINE u == call[r]
           c == call[r].chat
<1>0. /\ u \in Calls /\ u.at \in Nat /\ clock \in Nat /\ u.at <= clock /\ Sound(r, u)
      /\ messages \subseteq MessageRows
  BY DEF IInv, TypeOK, Calls, CallInv
<1>1. CASE ~LiveChat(c)
  BY <1>1, FailStep DEF SaveQuestion, SaveAnswer, Save, Checked
<1>2. CASE LiveChat(c)
  <2>0. PICK m, to : Saves(r, m, to)
    <3>1. CASE SaveQuestion(r)
      <4>1. Saves(r, Message(r, "user", None, None), "history")
        BY <1>2, <3>1 DEF SaveQuestion, Save, Goto, Saves
      <4> QED  BY <4>1
    <3>2. CASE SaveAnswer(r)
      <4>1. Saves(r, Message(r, "assistant", u.index, u.metrics), "closed")
        BY <1>2, <3>2 DEF SaveAnswer, Save, Goto, Saves
      <4> QED  BY <4>1
    <3> QED  BY <3>1, <3>2
  <2>1. /\ messages' = messages \cup {m}
        /\ call' = [call EXCEPT ![r].pc = to]
        /\ \/ /\ u.pc = "asking" /\ to = "history"
              /\ m = Message(r, "user", None, None)
           \/ /\ u.pc = "saving" /\ to = "closed"
              /\ m = Message(r, "assistant", u.index, u.metrics)
        /\ chat' = [chat EXCEPT ![c].updated = u.at]
        /\ UNCHANGED <<clock, project, indexOf, ready, lastMetrics>>
    BY <2>0 DEF Saves
  <2>2. /\ c \in Chats /\ u.project \in Projects /\ u.index \in Indexes
        /\ indexOf[u.index] = u.project /\ chat[c].project = u.project
        /\ u.pc = "saving" => u.metrics = r
    BY <1>0, <2>1 DEF Sound, Checked
  <2>3. m \in MessageRows /\ m.reply = r /\ m.chat = c /\ m.at = u.at
        /\ m.role = (IF to = "history" THEN "user" ELSE "assistant")
        /\ (to = "closed" => m.index = u.index /\ m.metrics = r)
    BY <1>0, <2>1, <2>2 DEF Message, MessageRows
  <2>4. \A d \in Chats : /\ chat'[d].state = chat[d].state
                         /\ chat'[d].project = chat[d].project
    BY <2>1, <2>2 DEF IInv, TypeOK
  <2>5. \A s \in Replies :
          /\ s # r => call'[s] = call[s]
          /\ call'[s] = [call[s] EXCEPT !.pc = IF s = r THEN to ELSE @]
    BY <2>1 DEF IInv, TypeOK, Calls
  <2>6. /\ call'[r].pc = to /\ call'[r].chat = c /\ call'[r].at = u.at
        /\ call'[r].project = u.project /\ call'[r].index = u.index
        /\ call'[r] \in Calls
    BY <1>0, <2>1, <2>5 DEF Calls
  <2>7. TypeOK'
    <3>1. call' \in [Replies -> Calls]
      BY <2>1, <2>6 DEF IInv, TypeOK
    <3>2. chat' \in [Chats -> [state : {"absent", "live", "deleted"},
                               project : Projects \cup {None}, updated : Nat]]
      BY <1>0, <2>1, <2>2 DEF IInv, TypeOK
    <3>3. \A s \in Replies : call'[s].pc # "idle" =>
            call'[s].chat \in Chats /\ call'[s].project \in Projects /\ call'[s].index \in Indexes
      BY <2>2, <2>5, <2>6 DEF IInv, TypeOK
    <3> QED  BY <2>1, <2>3, <3>1, <3>2, <3>3 DEF IInv, TypeOK
  <2>8. CallInv'
    <3> SUFFICES ASSUME NEW s \in Replies
                 PROVE  call'[s].at <= clock' /\ Sound(s, call[s])'
      BY DEF CallInv
    <3>1. CASE s # r
      <4>1. call'[s] = call[s] /\ call[s].at <= clock /\ Sound(s, call[s])
        BY <2>5, <3>1 DEF IInv, CallInv
      <4>2. call[s].pc # "idle" => LiveChat(call[s].chat)' = LiveChat(call[s].chat)
        BY <2>4, <4>1 DEF Sound, LiveChat
      <4>3. Question(s, call[s]) => Question(s, call[s])'
        BY <2>1, <4>1 DEF Question
      <4> QED  BY <2>1, <2>4, <4>1, <4>2, <4>3 DEF Sound, Checked, Asked
    <3>2. CASE s = r
      <4>1. to = "history" => Question(r, call[r])'
        BY <1>0, <2>1, <2>3, <2>6 DEF Question
      <4>2. chat'[c].state # "absent"
        BY <1>2, <2>2, <2>4 DEF LiveChat
      <4> QED
        BY <1>0, <2>1, <2>2, <2>4, <2>6, <3>2, <4>1, <4>2 DEF Sound, Checked, Asked
    <3> QED  BY <3>1, <3>2
  <2>9. NoOrphans'
    BY <1>2, <2>1, <2>3, <2>4 DEF IInv, MessageInv, NoOrphans, LiveChat, TypeOK, MessageRows
  <2>10. ASSUME to = "closed"
         PROVE  \E q \in messages :
                  q.role = "user" /\ q.reply = r /\ q.chat = c /\ q.at < u.at
    BY <1>0, <1>2, <2>1, <2>10 DEF Sound, Asked, Question
  <2>11. AnswersFollowTheirQuestion' /\ MetricsAreOwn' /\ AnswersHaveAnIndex'
    BY <2>1, <2>2, <2>3, <2>10
       DEF IInv, MessageInv, AnswersFollowTheirQuestion, MetricsAreOwn,
           AnswersHaveAnIndex
  <2>12. AnswersCiteTheirProject'
    BY <1>0, <2>1, <2>2, <2>3, <2>4
       DEF IInv, MessageInv, AnswersCiteTheirProject, MessageRows
  <2>13. SeenAnswersAreKept'
    <3> SUFFICES ASSUME NEW s \in Replies, call'[s].pc = "closed", LiveChat(call[s].chat)',
                        NEW role \in {"user", "assistant"}
                 PROVE  \E n \in messages' :
                          n.reply = s /\ n.role = role /\ n.chat = call'[s].chat
      BY DEF SeenAnswersAreKept
    <3>1. CASE s # r
      <4>1. call'[s] = call[s] /\ call[s].chat \in Chats
        BY <2>5, <3>1 DEF IInv, TypeOK
      <4>2. LiveChat(call[s].chat)
        BY <2>4, <4>1 DEF LiveChat
      <4>3. PICK n \in messages : n.reply = s /\ n.role = role /\ n.chat = call[s].chat
        BY <4>1, <4>2 DEF IInv, SeenAnswersAreKept
      <4> QED  BY <2>1, <4>1, <4>3
    <3>2. CASE s = r
      BY <2>1, <2>3, <2>6, <2>10, <3>2
    <3> QED  BY <3>1, <3>2
  <2> QED  BY <2>7, <2>8, <2>9, <2>11, <2>12, <2>13 DEF IInv, MessageInv
<1> QED  BY <1>1, <1>2

-----------------------------------------------------------------------------
(* Deleting chats, one or all of a project, takes their messages along.    *)
LEMMA DropStep ==
  ASSUME IInv, NEW cs \in SUBSET Chats, DropChats(cs),
         UNCHANGED <<clock, indexOf, ready, call, lastMetrics>>,
         project' \in [Projects -> BOOLEAN],
         \A c \in Chats \ cs : LiveChat(c) => project'[chat[c].project]
  PROVE  IInv'
<1>1. \A c \in Chats :
        /\ chat'[c].project = chat[c].project
        /\ chat'[c].state = IF c \in cs THEN "deleted" ELSE chat[c].state
  BY DEF DropChats, IInv, TypeOK
<1>2. messages' = {m \in messages : m.chat \notin cs}
  BY DEF DropChats
<1>3. TypeOK'
  <2>1. chat' \in [Chats -> [state : {"absent", "live", "deleted"},
                             project : Projects \cup {None}, updated : Nat]]
    BY DEF DropChats, IInv, TypeOK
  <2> QED  BY <1>2, <2>1 DEF IInv, TypeOK
<1>4. \A c \in Chats : LiveChat(c)' <=> (LiveChat(c) /\ c \notin cs)
  BY <1>1 DEF LiveChat
<1>5. CallInv'
  <2> SUFFICES ASSUME NEW r \in Replies
               PROVE  call'[r].at <= clock' /\ Sound(r, call[r])'
    BY DEF CallInv
  <2>1. call'[r] = call[r] /\ call[r].at <= clock /\ Sound(r, call[r])
    BY DEF IInv, CallInv
  <2>2. call[r].chat \notin cs /\ Question(r, call[r]) => Question(r, call[r])'
    BY <1>2, <2>1 DEF Question
  <2> QED  BY <1>1, <1>4, <2>1, <2>2 DEF Sound, Checked, Asked
<1>6. MessageInv'
  <2>1. NoOrphans'
    BY <1>1, <1>2, <1>4 DEF IInv, TypeOK, MessageRows, MessageInv, NoOrphans
  <2>2. AnswersFollowTheirQuestion' /\ MetricsAreOwn' /\ AnswersHaveAnIndex'
    BY <1>2 DEF IInv, MessageInv, AnswersFollowTheirQuestion, MetricsAreOwn,
           AnswersHaveAnIndex
  <2>3. AnswersCiteTheirProject'
    BY <1>1, <1>2 DEF IInv, TypeOK, MessageRows, MessageInv, AnswersCiteTheirProject
  <2> QED  BY <2>1, <2>2, <2>3 DEF MessageInv
<1>7. SeenAnswersAreKept'
  BY <1>2, <1>4 DEF IInv, TypeOK, SeenAnswersAreKept
<1> QED  BY <1>3, <1>5, <1>6, <1>7 DEF IInv

LEMMA DeletionStep ==
  ASSUME IInv,
         (\E c \in Chats : DeleteChat(c)) \/ (\E p \in Projects : DeleteProject(p))
  PROVE  IInv'
<1>1. ASSUME NEW c \in Chats, DeleteChat(c) PROVE IInv'
  <2>1. \A d \in Chats \ {c} : LiveChat(d) => project'[chat[d].project]
    BY <1>1 DEF DeleteChat, IInv, MessageInv, NoOrphans
  <2>2. project' \in [Projects -> BOOLEAN]
    BY <1>1 DEF DeleteChat, IInv, TypeOK
  <2> QED  BY <1>1, <2>1, <2>2, DropStep DEF DeleteChat
<1>2. ASSUME NEW p \in Projects, DeleteProject(p) PROVE IInv'
  <2> DEFINE cs == {c \in Chats : LiveChat(c) /\ chat[c].project = p}
  <2>1. project' = [project EXCEPT ![p] = FALSE] /\ project \in [Projects -> BOOLEAN]
    BY <1>2 DEF DeleteProject, IInv, TypeOK
  <2>2. project' \in [Projects -> BOOLEAN]
    BY <2>1
  <2>3. ASSUME NEW c \in Chats \ cs, LiveChat(c) PROVE project'[chat[c].project]
    <3>1. chat[c].project # p /\ project[chat[c].project]
      BY <2>3 DEF IInv, MessageInv, NoOrphans
    <3>2. chat[c].project \in Projects \/ chat[c].project \notin Projects
      OBVIOUS
    <3> QED  BY <2>1, <3>1
  <2> QED  BY <1>2, <2>2, <2>3, DropStep DEF DeleteProject
<1> QED  BY <1>1, <1>2

(* New chats and the life of indexes do not touch what calls rely on.      *)
LEMMA WorldStep ==
  ASSUME IInv,
         \/ \E c \in Chats, p \in Projects : CreateChat(c, p)
         \/ \E i \in Indexes : ReopenIndex(i) \/ \E p \in Projects : PublishIndex(i, p)
  PROVE  IInv'
<1>1. ASSUME NEW c \in Chats, NEW p \in Projects, CreateChat(c, p) PROVE IInv'
  <2>1. /\ chat[c].state = "absent" /\ project[p] /\ clock' = clock + 1
        /\ chat' = [chat EXCEPT ![c] = [state |-> "live", project |-> p, updated |-> clock + 1]]
        /\ UNCHANGED <<project, indexOf, ready, messages, call, lastMetrics>>
    BY <1>1 DEF CreateChat
  <2>2. \A d \in Chats : d # c => chat'[d] = chat[d]
    BY <2>1 DEF IInv, TypeOK
  <2>3. chat'[c].state = "live" /\ chat'[c].project = p
    BY <2>1 DEF IInv, TypeOK
  <2>4. TypeOK'
    <3>1. clock' \in Nat /\ clock + 1 \in Nat
      BY <2>1 DEF IInv, TypeOK
    <3>2. chat' \in [Chats -> [state : {"absent", "live", "deleted"},
                               project : Projects \cup {None}, updated : Nat]]
      BY <2>1, <3>1 DEF IInv, TypeOK
    <3> QED  BY <2>1, <3>1, <3>2 DEF IInv, TypeOK
  <2>5. \A m \in messages : m.chat \in Chats /\ m.chat # c
    BY <2>1 DEF IInv, TypeOK, MessageRows, MessageInv, NoOrphans, LiveChat
  <2>6. CallInv'
    <3> SUFFICES ASSUME NEW r \in Replies
                 PROVE  call'[r].at <= clock' /\ Sound(r, call[r])'
      BY DEF CallInv
    <3>1. call'[r] = call[r] /\ call[r].at <= clock /\ Sound(r, call[r])
      BY <2>1 DEF IInv, CallInv
    <3>2. call[r].at \in Nat /\ clock \in Nat
      BY DEF IInv, TypeOK, Calls
    <3>3. call[r].pc # "idle" => call[r].chat # c
      BY <2>1, <3>1 DEF Sound
    <3>4. Question(r, call[r])' <=> Question(r, call[r])
      BY <2>1, <3>1 DEF Question
    <3> QED  BY <2>1, <2>2, <3>1, <3>2, <3>3, <3>4 DEF Sound, Checked, Asked, LiveChat
  <2>7. MessageInv'
    <3>1. NoOrphans'
      BY <2>1, <2>2, <2>3, <2>5 DEF IInv, MessageInv, NoOrphans, LiveChat
    <3>2. AnswersFollowTheirQuestion' /\ MetricsAreOwn' /\ AnswersHaveAnIndex'
      BY <2>1 DEF IInv, MessageInv, AnswersFollowTheirQuestion, MetricsAreOwn,
           AnswersHaveAnIndex
    <3>3. AnswersCiteTheirProject'
      BY <2>1, <2>2, <2>5 DEF IInv, MessageInv, AnswersCiteTheirProject
    <3> QED  BY <3>1, <3>2, <3>3 DEF MessageInv
  <2>8. \A r \in Replies : call[r].pc = "closed" => call[r].chat \in Chats \ {c}
    BY <2>1 DEF IInv, CallInv, Sound
  <2>9. SeenAnswersAreKept'
    BY <2>1, <2>2, <2>8 DEF IInv, SeenAnswersAreKept, LiveChat
  <2> QED  BY <2>4, <2>6, <2>7, <2>9 DEF IInv
<1>2. ASSUME NEW i \in Indexes,
             UNCHANGED <<clock, project, chat, messages, call, lastMetrics>>,
             ready' \subseteq Indexes, indexOf' \in [Indexes -> Projects \cup {None}],
             \A j \in Indexes : indexOf[j] # None => indexOf'[j] = indexOf[j]
      PROVE  IInv'
  <2>1. TypeOK'
    BY <1>2 DEF IInv, TypeOK
  <2>2. CallInv'
    <3> SUFFICES ASSUME NEW r \in Replies
                 PROVE  call'[r].at <= clock' /\ Sound(r, call[r])'
      BY DEF CallInv
    <3>1. call'[r] = call[r] /\ call[r].at <= clock /\ Sound(r, call[r])
      BY <1>2 DEF IInv, CallInv
    <3>2. Question(r, call[r])' <=> Question(r, call[r])
      BY <1>2, <3>1 DEF Question
    <3>3. call[r].pc # "idle" => indexOf[call[r].index] # None
      BY <3>1, ReplyAssumption DEF Sound
    <3> QED  BY <1>2, <3>1, <3>2, <3>3 DEF Sound, LiveChat
  <2>3. NoOrphans' /\ AnswersFollowTheirQuestion' /\ MetricsAreOwn' /\ AnswersHaveAnIndex'
    BY <1>2 DEF IInv, MessageInv, NoOrphans, AnswersFollowTheirQuestion, MetricsAreOwn,
           AnswersHaveAnIndex, LiveChat
  <2>4. AnswersCiteTheirProject'
    <3> SUFFICES ASSUME NEW a \in messages, a.role = "assistant"
                 PROVE  indexOf'[a.index] = chat[a.chat].project
      BY <1>2 DEF AnswersCiteTheirProject
    <3>1. /\ indexOf[a.index] = chat[a.chat].project
          /\ a.index \in Indexes /\ indexOf[a.index] \in Projects
      BY DEF IInv, MessageInv, AnswersCiteTheirProject, AnswersHaveAnIndex
    <3>2. indexOf[a.index] # None
      BY <3>1, ReplyAssumption
    <3> QED  BY <1>2, <3>1, <3>2
  <2>5. SeenAnswersAreKept'
    BY <1>2 DEF IInv, SeenAnswersAreKept, LiveChat
  <2> QED  BY <2>1, <2>2, <2>3, <2>4, <2>5 DEF IInv, MessageInv
<1>3. ASSUME NEW i \in Indexes, ReopenIndex(i) PROVE IInv'
  BY <1>2, <1>3 DEF ReopenIndex, IInv, TypeOK
<1>4. ASSUME NEW i \in Indexes, NEW p \in Projects, PublishIndex(i, p) PROVE IInv'
  <2>1. /\ indexOf' \in [Indexes -> Projects \cup {None}] /\ ready' \subseteq Indexes
        /\ \A j \in Indexes : indexOf[j] # None => indexOf'[j] = indexOf[j]
    BY <1>4 DEF PublishIndex, IInv, TypeOK
  <2> QED  BY <1>2, <1>4, <2>1 DEF PublishIndex
<1> QED  BY <1>1, <1>3, <1>4

LEMMA StutterInv ==
  ASSUME IInv, UNCHANGED vars
  PROVE  IInv'
BY DEF vars, rows, IInv, TypeOK, CallInv, Sound, Question, MessageInv, NoOrphans,
       AnswersFollowTheirQuestion, MetricsAreOwn, AnswersCiteTheirProject,
       AnswersHaveAnIndex, SeenAnswersAreKept, LiveChat

LEMMA NextInv == IInv /\ [Next]_vars => IInv'
<1> SUFFICES ASSUME IInv, Next PROVE IInv'
  BY StutterInv
<1>1. ASSUME NEW r \in Replies, SaveQuestion(r) \/ SaveAnswer(r) PROVE IInv'
  BY <1>1, SavingStep
<1> QED  BY <1>1, ReadingStep, DeletionStep, WorldStep DEF Next

-----------------------------------------------------------------------------
(* The inductive invariant holds throughout.                               *)
THEOREM Invariance == Spec => []IInv
BY InitInv, NextInv, PTL DEF Spec

(* Every variable keeps its type: a call under way never loses track of    *)
(* its chat, its project and its index.                                    *)
THEOREM TypeCorrect == Spec => []TypeOK
<1>1. IInv => TypeOK
  BY DEF IInv
<1> QED  BY <1>1, Invariance, PTL

(* No message without its chat, no chat without its project, however calls *)
(* and deletions interleave.                                               *)
THEOREM MessagesAreNeverOrphaned == Spec => []NoOrphans
<1>1. IInv => NoOrphans
  BY DEF IInv, MessageInv
<1> QED  BY <1>1, Invariance, PTL

(* An answer is later than its question, which is in the same chat.        *)
THEOREM QuestionsComeFirst == Spec => []AnswersFollowTheirQuestion
<1>1. IInv => AnswersFollowTheirQuestion
  BY DEF IInv, MessageInv
<1> QED  BY <1>1, Invariance, PTL

(* The shared _last_metrics never attributes one stream to another's       *)
(* answer.                                                                 *)
THEOREM MetricsAreNeverMixed == Spec => []MetricsAreOwn
<1>1. IInv => MetricsAreOwn
  BY DEF IInv, MessageInv
<1> QED  BY <1>1, Invariance, PTL

(* The index that was checked when the call began still belongs to the     *)
(* project of the chat when the answer is written.                         *)
THEOREM CitationsStayInTheProject == Spec => []AnswersCiteTheirProject
<1>1. IInv => AnswersCiteTheirProject
  BY DEF IInv, MessageInv
<1> QED  BY <1>1, Invariance, PTL

(* What a client saw to its end is in the chat as long as the chat is.     *)
THEOREM SeenAnswersStay == Spec => []SeenAnswersAreKept
<1>1. IInv => SeenAnswersAreKept
  BY DEF IInv
<1> QED  BY <1>1, Invariance, PTL

=============================================================================
