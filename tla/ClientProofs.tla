---------------------------- MODULE ClientProofs ----------------------------
(***************************************************************************)
(* Theorems about Client: for any users, projects, runs and chats, and any *)
(* number of messages, however few of them the page reads.                 *)
(***************************************************************************)
EXTENDS Client, TLAPS

(* Who is logged in: past their first call the pages have a user, and the  *)
(* token, while there is one, is of this user.                             *)
UserInv ==
    /\ user # None /\ token # None => token = user
    /\ page # "login" /\ at # "top" => user # None
    /\ at \in {"welcome", "registered"} => page = "login"

(* Past its first calls the project page has a project of the user.        *)
ProjectInv ==
    page = "project" /\ at \notin {"top", "failed", "leaving"} =>
        selected # None /\ token # None /\ owner[selected] = token

(* While a switch of the project is under way, or was stopped, messages    *)
(* may be of another project than the one viewed last.                     *)
Switching == torn \/ at \in {"unselect", "forget"}

(* What the tab keeps of a chat is a stretch of it, and unless it is empty *)
(* the chat is of the user who made the project viewed last.               *)
KeptInv ==
    \A c \in Chats : messages[c] # NotLoaded =>
        /\ IsStretch(messages[c], log[c])
        /\ messages[c] # <<>> /\ ~Switching =>
              /\ lastViewed # None /\ projectOf[c] # None
              /\ owner[lastViewed] # None
              /\ owner[projectOf[c]] = owner[lastViewed]

(* Past the sidebar the project viewed last is the open one, and what is   *)
(* shown was loaded.                                                       *)
ViewInv ==
    /\ page = "project" /\ at \in {"messages", "loaded", "stream"} => shows = "ready" /\ chat # None
    /\ ConversationShown \/ (page = "project" /\ at = "loaded") => messages[chat] # NotLoaded
    /\ ConversationShown \/ (page = "project" /\ at \in {"messages", "loaded", "unselect", "forget"}) =>
          lastViewed = selected

(* The inductive invariant.                                              *)
IInv == TypeOK /\ UserInv /\ ProjectInv /\ KeptInv /\ ViewInv

(* The empty tables and a new session satisfy the invariant.               *)
LEMMA InitInv == Init => IInv
<1> SUFFICES ASSUME Init PROVE IInv
  OBVIOUS
<1>0. <<>> \in Seq(Messages)
  OBVIOUS
<1>1. TypeOK
  BY <1>0 DEF Init, TypeOK, Opt
<1>2. UserInv /\ ProjectInv /\ ViewInv
  BY DEF Init, UserInv, ProjectInv, ViewInv, ConversationShown
<1>3. KeptInv
  BY DEF Init, KeptInv
<1>. QED  BY <1>1, <1>2, <1>3 DEF IInv

(* An empty list of messages is not the same as none read.                 *)
LEMMA NotLoadedIsNoConversation == NotLoaded \notin Seq(Messages)
  BY ClientAssumption DEF NotLoaded

(* The types of what the tab holds, its messages left out.                 *)
SessionOK ==
    /\ token \in Opt(Users) /\ user \in Opt(Users)
    /\ selected \in Opt(Projects)
    /\ pending \in Opt(Projects) /\ auto \in BOOLEAN /\ current \in Opt(Indexes)
    /\ lastViewed \in Opt(Projects) /\ chat \in Opt(Chats)
    /\ reload \in BOOLEAN
    /\ page \in {"login", "home", "project"}
    /\ at \in {"top", "idle", "failed", "welcome", "registered", "leaving",
              "created", "pending", "start", "started", "status", "sidebar",
              "unselect", "forget", "messages", "loaded", "stream"}
    /\ clicked \in BOOLEAN /\ shows \in {"none", "busy", "ready"}
    /\ torn \in BOOLEAN

(* A conversation that has only grown.                                     *)
Earlier(s, t) == Len(s) <= Len(t) /\ \A k \in DOMAIN s : s[k] = t[k]

(* A stretch of a conversation is one of the conversation that has grown.  *)
LEMMA StretchStays ==
  ASSUME NEW S, NEW r \in Seq(S), NEW s \in Seq(S), NEW t \in Seq(S), IsStretch(r, s), Earlier(s, t)
  PROVE  IsStretch(r, t)
<1>1. PICK d \in 0..Len(s) : Len(r) <= Len(s) - d /\ \A k \in DOMAIN r : r[k] = s[d + k]
  BY DEF IsStretch
<1>2. Len(s) \in Nat /\ Len(t) \in Nat /\ Len(r) \in Nat
  OBVIOUS
<1>3. d \in 0..Len(t) /\ Len(r) <= Len(t) - d
  BY <1>1, <1>2 DEF Earlier
<1>4. ASSUME NEW k \in DOMAIN r PROVE r[k] = t[d + k]
  <2>1. k \in 1..Len(r) /\ d + k \in 1..Len(s)
    BY <1>1, <1>2
  <2>2. d + k \in DOMAIN s
    BY <2>1
  <2>. QED  BY <1>1, <2>2 DEF Earlier
<1>. QED  BY <1>3, <1>4 DEF IsStretch

(* The newest messages are a stretch of the conversation.                  *)
LEMMA NewestIsStretch ==
  ASSUME NEW S, NEW s \in Seq(S)
  PROVE  Newest(s) \in Seq(S) /\ IsStretch(Newest(s), s)
<1> DEFINE m == IF Len(s) > MessageLimit THEN Len(s) - MessageLimit + 1 ELSE 1
           d == m - 1
<1>1. MessageLimit \in Nat /\ Len(s) \in Nat
  BY ClientAssumption
<1>2. m \in 1..(Len(s) + 1) /\ d \in 0..Len(s)
  BY <1>1
<1>3. Newest(s) = SubSeq(s, m, Len(s))
  BY DEF Newest
<1> HIDE DEF m
<1>4. Newest(s) \in Seq(S) /\ Len(Newest(s)) = Len(s) - d
  BY <1>1, <1>2, <1>3
<1>5. ASSUME NEW k \in DOMAIN Newest(s) PROVE Newest(s)[k] = s[d + k]
  <2>1. k \in 1..(Len(s) - m + 1)
    BY <1>1, <1>2, <1>4, <1>5
  <2>2. SubSeq(s, m, Len(s))[k] = s[m + k - 1]
    BY <1>1, <1>2, <2>1
  <2>. QED  BY <1>1, <1>2, <1>3, <2>1, <2>2
<1> HIDE DEF d
<1>. QED  BY <1>2, <1>4, <1>5 DEF IsStretch

(* A call of the back end keeps the types of its tables, gives away no     *)
(* project and no chat, and only appends to a conversation.                *)
Kept ==
    /\ accounts' \subseteq Users
    /\ owner' \in [Projects -> Opt(Users)]
    /\ projectOf' \in [Chats \cup Indexes -> Opt(Projects)]
    /\ published' \subseteq Indexes
    /\ deleted' \subseteq Projects \cup Chats \cup Indexes
    /\ log' \in [Chats -> Seq(Messages)]
    /\ \A p \in Projects : owner[p] # None => owner'[p] = owner[p]
    /\ \A x \in Chats \cup Indexes : projectOf[x] # None => projectOf'[x] = projectOf[x]
    /\ \A c \in Chats : Earlier(log[c], log'[c])

(* A step that leaves the tables alone keeps them.                         *)
LEMMA UnchangedKeeps == ASSUME TypeOK, UNCHANGED backend PROVE Kept
  BY DEF TypeOK, backend, Kept, Earlier

(* StartIndexing gives a run to a project once.                            *)
LEMMA StartKeeps ==
  ASSUME TypeOK, NEW p, NEW d, NEW i \in Indexes, StartIndexing(p, d, i)
  PROVE  Kept
  BY ClientAssumption DEF TypeOK, StartIndexing, OwnProject, ActiveRuns, Of, Own, Kept, Earlier, Opt

(* A new project takes an id nobody uses.                                  *)
LEMMA InsertKeeps ==
  ASSUME TypeOK, NEW p \in Projects, InsertProject(p)
  PROVE  Kept
  BY ClientAssumption DEF TypeOK, InsertProject, Kept, Earlier, Opt

(* A new chat takes an id nobody uses.                                     *)
LEMMA CreateChatKeeps ==
  ASSUME TypeOK, NEW p, NEW c \in Chats, CreateChat(p, c)
  PROVE  Kept
  BY ClientAssumption DEF TypeOK, CreateChat, OwnProject, Kept, Earlier, Opt

(* A deletion marks rows and moves none to another owner.                  *)
LEMMA DeleteKeeps ==
  ASSUME TypeOK, NEW x \in Projects \cup Chats \cup Indexes, Delete(x)
  PROVE  Kept
  BY DEF TypeOK, Delete, Kept, Earlier

(* A message is added at the end of its conversation only.                 *)
LEMMA AppendKeeps ==
  ASSUME TypeOK, NEW c \in Chats,
         NEW roles \in Seq({"user", "assistant"}), AppendMessages(c, roles)
  PROVE  Kept
<1> DEFINE new == [k \in DOMAIN roles |-> [chat |-> c, role |-> roles[k]]]
<1>1. new \in Seq(Messages)
  <2>1. PICK n \in Nat : roles \in [1..n -> {"user", "assistant"}]
    BY SMT
  <2>2. new \in [1..n -> Messages]
    BY <2>1 DEF Messages
  <2>. QED  BY <2>1, <2>2
<1> HIDE DEF new
<1>2. log[c] \in Seq(Messages)
  BY DEF TypeOK
<1>3. log[c] \o new \in Seq(Messages) /\ Earlier(log[c], log[c] \o new)
  BY <1>1, <1>2 DEF Earlier
<1>4. log' = [log EXCEPT ![c] = log[c] \o new]
  BY DEF AppendMessages, new
<1>5. log' \in [Chats -> Seq(Messages)]
  BY <1>3, <1>4 DEF TypeOK
<1>6. \A d \in Chats : Earlier(log[d], log'[d])
  <2> TAKE d \in Chats
  <2>1. CASE d = c
    BY <1>3, <1>4, <2>1 DEF TypeOK
  <2>2. CASE d # c
    BY <1>4, <2>2 DEF TypeOK, Earlier
  <2>. QED  BY <2>1, <2>2
<1>. QED  BY <1>5, <1>6 DEF TypeOK, AppendMessages, Kept

(* A streamed query adds messages to the chat of the tab only.             *)
LEMMA QueryKeeps ==
  ASSUME TypeOK, QueryProjectStream(<<"user">>) \/ QueryProjectStream(<<"user", "assistant">>)
  PROVE  Kept
<1>1. chat \in Chats
  BY DEF TypeOK, QueryProjectStream, Own, Opt
<1>2. <<"user">> \in Seq({"user", "assistant"}) /\ <<"user", "assistant">> \in Seq({"user", "assistant"})
  OBVIOUS
<1>. QED  BY <1>1, <1>2, AppendKeeps DEF QueryProjectStream

(* Every step, of this tab or elsewhere, keeps what others rely on.        *)
LEMMA NextKeeps == ASSUME TypeOK, Next PROVE Kept
<1>1. UNCHANGED backend => Kept
  BY UnchangedKeeps
<1>2. CASE \E u \in Users : Register(u)
  BY <1>2 DEF Register, RegisterUser, TypeOK, Kept, Earlier
<1>3. CASE \E p \in Projects : CreateProject(p)
  BY <1>1, <1>3, InsertKeeps DEF CreateProject, Fails
<1>4. CASE \E p \in Projects : DeleteProject(p)
  BY <1>1, <1>4, DeleteKeeps DEF DeleteProject, Fails
<1>5. CASE AutoStart \/ StartButton
  BY <1>1, <1>5, StartKeeps DEF AutoStart, StartButton, Fails
<1>6. CASE NewChat
  BY <1>1, <1>6, CreateChatKeeps DEF NewChat, Fails
<1>7. CASE DeleteChat
  BY <1>1, <1>7, DeleteKeeps DEF DeleteChat, Listed, Of, Fails
<1>8. CASE Ask
  BY <1>1, <1>8, QueryKeeps DEF Ask, Fails
<1>9. CASE Elsewhere
  <2>1. CASE \E i \in Indexes : Publish(i)
    BY <2>1 DEF Publish, TypeOK, Kept, Earlier
  <2>2. CASE \E x \in Projects \cup Chats : DeletedElsewhere(x)
    BY <2>2, DeleteKeeps DEF DeletedElsewhere
  <2>3. CASE \E c \in Chats : AskedElsewhere(c)
    <3>1. <<"user", "assistant">> \in Seq({"user", "assistant"})
      OBVIOUS
    <3>. QED  BY <2>3, <3>1, AppendKeeps DEF AskedElsewhere
  <2>. QED  BY <1>9, <2>1, <2>2, <2>3 DEF Elsewhere
<1>. QED
  BY <1>1, <1>2, <1>3, <1>4, <1>5, <1>6, <1>7, <1>8, <1>9
     DEF Next, Script, SyncUserState, RequireLogin, Leave, LoginPage, EnterLogin, ShowForm, Welcome, StayUnknown,
         Login, HomePage, ShowHome, PutDownDocument, PutDownStart, OpenProject, RenameProject, GoHome, Logout,
         ProjectPage, GetProject, AutoStarted, ReadStatus, Refresh, Cancel, OpenChat, Proceed, Unselect, Forget,
         Conversation, ConversationRead, Click, BackToHome

(* A tab leaves the login page with a user, and drops the token before the *)
(* user.                                                                   *)
LEMMA UserInvariance ==
  ASSUME IInv, Next
  PROVE  UserInv'
<1>. UserInv /\ TypeOK
  BY DEF IInv
<1>. None \notin accounts
  BY ClientAssumption DEF IInv, TypeOK
<1> USE DEF UserInv, SwitchTo, Rerun, Goto, Finish, Done, backend, session, login,
         indexing, viewing, script
<1>1. CASE SyncUserState \/ RequireLogin
  BY <1>1 DEF SyncUserState, RequireLogin, LoggedInUser
<1>2. CASE EnterLogin \/ ShowForm
  BY <1>2 DEF EnterLogin, ShowForm, AtForm
<1>3. CASE \E u \in Users : Login(u)
  BY <1>3, ClientAssumption DEF Login, AtForm, LoginUser
<1>4. CASE \E u \in Users : Register(u)
  BY <1>4, ClientAssumption DEF Register, AtForm, RegisterUser
<1>5. CASE Welcome \/ StayUnknown \/ Leave
  BY <1>5 DEF Welcome, StayUnknown, Leave
<1>6. CASE ShowHome
  BY <1>6 DEF ShowHome, AtHome
<1>7. CASE \E p \in Projects : CreateProject(p)
  BY <1>7 DEF CreateProject, AtHome, InsertProject
<1>8. CASE PutDownDocument \/ PutDownStart
  BY <1>8 DEF PutDownDocument, PutDownStart
<1>9. CASE \E p \in Projects : OpenProject(p) \/ RenameProject(p)
  BY <1>9 DEF OpenProject, RenameProject, AtHome, OwnProjects, OwnProject
<1>10. CASE \E p \in Projects : DeleteProject(p)
  BY <1>10 DEF DeleteProject, AtHome
<1>11. CASE ((AtHome /\ clicked) \/ Clicked) /\ GoHome
  BY <1>11 DEF GoHome, AtHome, Clicked, On
<1>12. CASE ((AtHome /\ clicked) \/ Clicked) /\ Logout
  BY <1>12 DEF Logout, AtHome, Clicked, On
<1>13. CASE GetProject
  BY <1>13 DEF GetProject, On, OwnProject
<1>14. CASE AutoStart
  BY <1>14 DEF AutoStart, On
<1>15. CASE AutoStarted
  BY <1>15 DEF AutoStarted, On
<1>16. CASE ReadStatus
  BY <1>16 DEF ReadStatus, On, Shows, StatusOf, Latest, ReadyRuns, ActiveRuns, Of
<1>17. CASE Refresh \/ Cancel
  BY <1>17 DEF Refresh, Cancel, Clicked, On, Unclicked
<1>18. CASE StartButton
  BY <1>18 DEF StartButton, Clicked, On, Unclicked
<1>19. CASE NewChat
  BY <1>19 DEF NewChat, Clicked, On, Unclicked
<1>20. CASE OpenChat
  BY <1>20 DEF OpenChat, Clicked, On, Listed, Of
<1>21. CASE DeleteChat
  BY <1>21 DEF DeleteChat, Clicked, On, Listed, Of, Unclicked
<1>22. CASE Proceed
  BY <1>22 DEF Proceed, ShowChat, On
<1>23. CASE Unselect \/ Forget
  BY <1>23 DEF Unselect, Forget, Loaded, On
<1>24. CASE Conversation
  BY <1>24 DEF Conversation, Converse, On
<1>25. CASE ConversationRead
  BY <1>25 DEF ConversationRead, Converse, On
<1>26. CASE Ask
  BY <1>26 DEF Ask, On
<1>27. CASE Click \/ BackToHome
  BY <1>27 DEF Click, BackToHome, GoHome, On
<1>28. CASE Elsewhere
  BY <1>28 DEF Elsewhere, Publish, DeletedElsewhere, AskedElsewhere
<1>. QED
  BY <1>1, <1>2, <1>3, <1>4, <1>5, <1>6, <1>7, <1>8, <1>9, <1>10, <1>11, <1>12,
     <1>13, <1>14, <1>15, <1>16, <1>17, <1>18, <1>19, <1>20, <1>21, <1>22, <1>23,
     <1>24, <1>25, <1>26, <1>27, <1>28 DEF Next, Script, LoginPage, HomePage,
     ProjectPage

(* The project page goes on only with a project it was given.              *)
LEMMA ProjectInvariance ==
  ASSUME IInv, Next
  PROVE  ProjectInv'
<1>. ProjectInv /\ UserInv
  BY DEF IInv
<1>. selected = None \/ selected \in Projects
  BY DEF IInv, TypeOK, Opt
<1>. \A p \in Projects : owner[p] # None => owner'[p] = owner[p]
  BY NextKeeps DEF IInv, Kept
<1> USE DEF ProjectInv, UserInv, SwitchTo, Rerun, Goto, Finish, Done, backend,
         session, login, indexing, viewing, script
<1>1. CASE SyncUserState \/ RequireLogin
  BY <1>1 DEF SyncUserState, RequireLogin, LoggedInUser
<1>2. CASE EnterLogin \/ ShowForm
  BY <1>2 DEF EnterLogin, ShowForm, AtForm
<1>3. CASE \E u \in Users : Login(u)
  BY <1>3 DEF Login, AtForm, LoginUser
<1>4. CASE \E u \in Users : Register(u)
  BY <1>4 DEF Register, AtForm, RegisterUser
<1>5. CASE Welcome \/ StayUnknown \/ Leave
  BY <1>5 DEF Welcome, StayUnknown, Leave
<1>6. CASE ShowHome
  BY <1>6 DEF ShowHome, AtHome
<1>7. CASE \E p \in Projects : CreateProject(p)
  BY <1>7 DEF CreateProject, AtHome, InsertProject
<1>8. CASE PutDownDocument \/ PutDownStart
  BY <1>8 DEF PutDownDocument, PutDownStart
<1>9. CASE \E p \in Projects : OpenProject(p) \/ RenameProject(p)
  BY <1>9 DEF OpenProject, RenameProject, AtHome, OwnProjects, OwnProject
<1>10. CASE \E p \in Projects : DeleteProject(p)
  BY <1>10 DEF DeleteProject, AtHome
<1>11. CASE ((AtHome /\ clicked) \/ Clicked) /\ GoHome
  BY <1>11 DEF GoHome, AtHome, Clicked, On
<1>12. CASE ((AtHome /\ clicked) \/ Clicked) /\ Logout
  BY <1>12 DEF Logout, AtHome, Clicked, On
<1>13. CASE GetProject
  BY <1>13, ClientAssumption DEF GetProject, On, OwnProject
<1>14. CASE AutoStart
  BY <1>14 DEF AutoStart, On
<1>15. CASE AutoStarted
  BY <1>15 DEF AutoStarted, On
<1>16. CASE ReadStatus
  BY <1>16 DEF ReadStatus, On, Shows, StatusOf, Latest, ReadyRuns, ActiveRuns, Of
<1>17. CASE Refresh \/ Cancel
  BY <1>17 DEF Refresh, Cancel, Clicked, On, Unclicked
<1>18. CASE StartButton
  BY <1>18 DEF StartButton, Clicked, On, Unclicked
<1>19. CASE NewChat
  BY <1>19 DEF NewChat, Clicked, On, Unclicked
<1>20. CASE OpenChat
  BY <1>20 DEF OpenChat, Clicked, On, Listed, Of
<1>21. CASE DeleteChat
  BY <1>21 DEF DeleteChat, Clicked, On, Listed, Of, Unclicked
<1>22. CASE Proceed
  BY <1>22 DEF Proceed, ShowChat, On
<1>23. CASE Unselect \/ Forget
  BY <1>23 DEF Unselect, Forget, Loaded, On
<1>24. CASE Conversation
  BY <1>24 DEF Conversation, Converse, On
<1>25. CASE ConversationRead
  BY <1>25 DEF ConversationRead, Converse, On
<1>26. CASE Ask
  BY <1>26 DEF Ask, On
<1>27. CASE Click \/ BackToHome
  BY <1>27 DEF Click, BackToHome, GoHome, On
<1>28. CASE Elsewhere
  BY <1>28 DEF Elsewhere, Publish, DeletedElsewhere, AskedElsewhere
<1>. QED
  BY <1>1, <1>2, <1>3, <1>4, <1>5, <1>6, <1>7, <1>8, <1>9, <1>10, <1>11, <1>12,
     <1>13, <1>14, <1>15, <1>16, <1>17, <1>18, <1>19, <1>20, <1>21, <1>22, <1>23,
     <1>24, <1>25, <1>26, <1>27, <1>28 DEF Next, Script, LoginPage, HomePage,
     ProjectPage

(* The conversation is shown after a load, with the project viewed last.   *)
LEMMA ViewInvariance ==
  ASSUME IInv, Next
  PROVE  ViewInv'
<1>. ViewInv /\ UserInv
  BY DEF IInv
<1>. chat = None \/ chat \in Chats
  BY DEF IInv, TypeOK, Opt
<1>. messages \in [Chats -> Seq(Messages) \cup {NotLoaded}] /\ log \in [Chats -> Seq(Messages)]
  BY DEF IInv, TypeOK
<1>. NotLoaded \notin Seq(Messages)
  BY NotLoadedIsNoConversation
<1> USE DEF ViewInv, ConversationShown, SwitchTo, Rerun, Goto, Finish, Done,
         backend, session, login, indexing, viewing, script
<1>1. CASE SyncUserState \/ RequireLogin
  BY <1>1 DEF SyncUserState, RequireLogin, LoggedInUser
<1>2. CASE EnterLogin \/ ShowForm
  BY <1>2 DEF EnterLogin, ShowForm, AtForm
<1>3. CASE \E u \in Users : Login(u)
  BY <1>3 DEF Login, AtForm, LoginUser
<1>4. CASE \E u \in Users : Register(u)
  BY <1>4 DEF Register, AtForm, RegisterUser
<1>5. CASE Welcome \/ StayUnknown \/ Leave
  BY <1>5, UserInvariance DEF UserInv, Welcome, StayUnknown, Leave
<1>6. CASE ShowHome
  BY <1>6 DEF ShowHome, AtHome
<1>7. CASE \E p \in Projects : CreateProject(p)
  BY <1>7 DEF CreateProject, AtHome, InsertProject
<1>8. CASE PutDownDocument \/ PutDownStart
  BY <1>8 DEF PutDownDocument, PutDownStart
<1>9. CASE \E p \in Projects : OpenProject(p) \/ RenameProject(p)
  BY <1>9 DEF OpenProject, RenameProject, AtHome, OwnProjects, OwnProject
<1>10. CASE \E p \in Projects : DeleteProject(p)
  BY <1>10 DEF DeleteProject, AtHome
<1>11. CASE ((AtHome /\ clicked) \/ Clicked) /\ GoHome
  BY <1>11 DEF GoHome, AtHome, Clicked, On
<1>12. CASE ((AtHome /\ clicked) \/ Clicked) /\ Logout
  BY <1>12 DEF Logout, AtHome, Clicked, On
<1>13. CASE GetProject
  BY <1>13 DEF GetProject, On, OwnProject
<1>14. CASE AutoStart
  BY <1>14 DEF AutoStart, On
<1>15. CASE AutoStarted
  BY <1>15 DEF AutoStarted, On
<1>16. CASE ReadStatus
  BY <1>16 DEF ReadStatus, On, Shows, StatusOf, Latest, ReadyRuns, ActiveRuns, Of
<1>17. CASE Refresh \/ Cancel
  BY <1>17 DEF Refresh, Cancel, Clicked, On, Unclicked
<1>18. CASE StartButton
  BY <1>18 DEF StartButton, Clicked, On, Unclicked
<1>19. CASE NewChat
  BY <1>19 DEF NewChat, Clicked, On, Unclicked
<1>20. CASE OpenChat
  BY <1>20 DEF OpenChat, Clicked, On, Listed, Of
<1>21. CASE DeleteChat
  BY <1>21 DEF DeleteChat, Clicked, On, Listed, Of, Unclicked
<1>22. CASE Proceed
  BY <1>22 DEF Proceed, ShowChat, On
<1>23. CASE Unselect \/ Forget
  BY <1>23 DEF Unselect, Forget, Loaded, On
<1>24. CASE Conversation
  <2>1. <<>> \in Seq(Messages) /\ Newest(log[chat]) \in Seq(Messages)
    BY <1>24, NewestIsStretch DEF Conversation, On
  <2>2. messages'[chat] # NotLoaded
    BY <1>24, <2>1 DEF Conversation, ReadsMessages, On
  <2>. QED
    BY <1>24, <2>2 DEF Conversation, Converse, On
<1>25. CASE ConversationRead
  BY <1>25 DEF ConversationRead, Converse, On
<1>26. CASE Ask
  BY <1>26 DEF Ask, On
<1>27. CASE Click \/ BackToHome
  BY <1>27 DEF Click, BackToHome, GoHome, On
<1>28. CASE Elsewhere
  BY <1>28 DEF Elsewhere, Publish, DeletedElsewhere, AskedElsewhere
<1>. QED
  BY <1>1, <1>2, <1>3, <1>4, <1>5, <1>6, <1>7, <1>8, <1>9, <1>10, <1>11, <1>12,
     <1>13, <1>14, <1>15, <1>16, <1>17, <1>18, <1>19, <1>20, <1>21, <1>22, <1>23,
     <1>24, <1>25, <1>26, <1>27, <1>28 DEF Next, Script, LoginPage, HomePage,
     ProjectPage

(* The messages are those read, or none.                                   *)
LEMMA MessagesType ==
  ASSUME IInv, Next
  PROVE  messages' \in [Chats -> Seq(Messages) \cup {NotLoaded}]
<1>. messages \in [Chats -> Seq(Messages) \cup {NotLoaded}] /\ log \in [Chats -> Seq(Messages)]
  BY DEF IInv, TypeOK
<1>1. CASE Conversation
  <2>1. <<>> \in Seq(Messages) /\ \A c \in Chats : Newest(log[c]) \in Seq(Messages)
    BY NewestIsStretch
  <2>2. chat \in Chats \/ messages' = messages
    BY <1>1 DEF IInv, TypeOK, Opt, ViewInv, Conversation, On
  <2>. QED  BY <1>1, <2>1, <2>2 DEF Conversation
<1>2. CASE Forget
  BY <1>2 DEF Forget
<1>3. CASE ~(Conversation \/ Forget)
  BY <1>3
     DEF Next, Script, SyncUserState, RequireLogin, Leave, LoginPage, EnterLogin, ShowForm, Welcome, StayUnknown,
         Login, Register, HomePage, ShowHome, CreateProject, PutDownDocument, PutDownStart, OpenProject,
         RenameProject, DeleteProject, GoHome, Logout, ProjectPage, GetProject, AutoStart, AutoStarted, ReadStatus,
         Refresh, Cancel, StartButton, NewChat, OpenChat, DeleteChat, Proceed, Unselect, ConversationRead, Ask,
         Click, BackToHome, Elsewhere, Publish, DeletedElsewhere, AskedElsewhere, session, viewing
<1>. QED  BY <1>1, <1>2, <1>3

(* The session state and the run keep their types.                         *)
LEMMA SessionType ==
  ASSUME IInv, Next
  PROVE  SessionOK'
<1>. SessionOK /\ accounts \subseteq Users
  BY DEF IInv, TypeOK, SessionOK
<1> USE DEF SessionOK, Opt, SwitchTo, Rerun, Goto, Finish, Done, backend, session,
         login, indexing, viewing, script
<1>1. CASE SyncUserState \/ RequireLogin
  BY <1>1 DEF SyncUserState, RequireLogin, LoggedInUser
<1>2. CASE EnterLogin \/ ShowForm
  BY <1>2 DEF EnterLogin, ShowForm, AtForm
<1>3. CASE \E u \in Users : Login(u)
  BY <1>3 DEF Login, AtForm, LoginUser
<1>4. CASE \E u \in Users : Register(u)
  BY <1>4 DEF Register, AtForm, RegisterUser
<1>5. CASE Welcome \/ StayUnknown \/ Leave
  BY <1>5 DEF Welcome, StayUnknown, Leave
<1>6. CASE ShowHome
  BY <1>6 DEF ShowHome, AtHome
<1>7. CASE \E p \in Projects : CreateProject(p)
  BY <1>7 DEF CreateProject, AtHome, InsertProject
<1>8. CASE PutDownDocument \/ PutDownStart
  BY <1>8 DEF PutDownDocument, PutDownStart
<1>9. CASE \E p \in Projects : OpenProject(p) \/ RenameProject(p)
  BY <1>9 DEF OpenProject, RenameProject, AtHome, OwnProjects, OwnProject
<1>10. CASE \E p \in Projects : DeleteProject(p)
  BY <1>10 DEF DeleteProject, AtHome
<1>11. CASE ((AtHome /\ clicked) \/ Clicked) /\ GoHome
  BY <1>11 DEF GoHome, AtHome, Clicked, On
<1>12. CASE ((AtHome /\ clicked) \/ Clicked) /\ Logout
  BY <1>12 DEF Logout, AtHome, Clicked, On
<1>13. CASE GetProject
  BY <1>13 DEF GetProject, On, OwnProject
<1>14. CASE AutoStart
  BY <1>14 DEF AutoStart, On
<1>15. CASE AutoStarted
  <2>1. /\ UNCHANGED <<token, user, selected, pending, current, lastViewed, chat, page, shows>>
        /\ at' = "status"
    BY <1>15 DEF AutoStarted, On
  <2>2. auto' = FALSE /\ UNCHANGED <<reload, clicked, torn>>
    BY <1>15 DEF AutoStarted, On
  <2>3. auto' \in BOOLEAN /\ reload' \in BOOLEAN /\ clicked' \in BOOLEAN /\ torn' \in BOOLEAN
    BY <2>2
  <2>. QED  BY <2>1, <2>3
<1>16. CASE ReadStatus
  BY <1>16 DEF ReadStatus, On, Shows, StatusOf, Latest, ReadyRuns, ActiveRuns, Of
<1>17. CASE Refresh \/ Cancel
  <2>1. /\ UNCHANGED <<token, user, selected, pending, current, lastViewed, chat, page>>
        /\ at' \in {at, "top"} /\ shows' \in {shows, "none"}
    BY <1>17 DEF Refresh, Cancel, Clicked, On, Unclicked
  <2>2. UNCHANGED <<auto, reload, torn>> /\ clicked' = FALSE
    BY <1>17 DEF Refresh, Cancel, Clicked, On, Unclicked
  <2>3. auto' \in BOOLEAN /\ reload' \in BOOLEAN /\ clicked' \in BOOLEAN /\ torn' \in BOOLEAN
    BY <2>2
  <2>. QED  BY <2>1, <2>3
<1>18. CASE StartButton
  BY <1>18 DEF StartButton, Clicked, On, Unclicked
<1>19. CASE NewChat
  BY <1>19 DEF NewChat, Clicked, On, Unclicked
<1>20. CASE OpenChat
  BY <1>20 DEF OpenChat, Clicked, On, Listed, Of
<1>21. CASE DeleteChat
  BY <1>21 DEF DeleteChat, Clicked, On, Listed, Of, Unclicked
<1>22. CASE Proceed
  <2>1. /\ UNCHANGED <<token, user, selected, pending, current, chat, page>>
        /\ lastViewed' \in {lastViewed, selected} /\ at' \in {"unselect", "messages", "idle"} /\ shows' \in {shows, "none"}
    BY <1>22 DEF Proceed, ShowChat, On
  <2>2. UNCHANGED <<auto, reload, torn>> /\ clicked' \in {clicked, FALSE}
    BY <1>22 DEF Proceed, ShowChat, On
  <2>3. auto' \in BOOLEAN /\ reload' \in BOOLEAN /\ clicked' \in BOOLEAN /\ torn' \in BOOLEAN
    BY <2>2
  <2>. QED  BY <2>1, <2>3
<1>23. CASE Unselect \/ Forget
  <2>1. /\ UNCHANGED <<token, user, selected, pending, current, lastViewed, page>>
        /\ chat' \in {chat, None} /\ at' \in {at, "forget", "top"} /\ shows' \in {shows, "none"}
    BY <1>23 DEF Unselect, Forget, Loaded, On
  <2>2. UNCHANGED <<auto, reload>> /\ torn' \in {torn, FALSE} /\ clicked' \in {clicked, FALSE}
    BY <1>23 DEF Unselect, Forget, Loaded, On
  <2>3. auto' \in BOOLEAN /\ reload' \in BOOLEAN /\ clicked' \in BOOLEAN /\ torn' \in BOOLEAN
    BY <2>2
  <2>. QED  BY <2>1, <2>3
<1>24. CASE Conversation
  <2>1. /\ UNCHANGED <<token, user, selected, pending, current, lastViewed, chat, page, shows>>
        /\ at' \in {"loaded", "idle", "stream"}
    BY <1>24 DEF Conversation, Converse, On
  <2>2. UNCHANGED <<auto, reload, torn>> /\ clicked' \in {clicked, FALSE}
    BY <1>24 DEF Conversation, Converse, On
  <2>3. auto' \in BOOLEAN /\ reload' \in BOOLEAN /\ clicked' \in BOOLEAN /\ torn' \in BOOLEAN
    BY <2>2
  <2>. QED  BY <2>1, <2>3
<1>25. CASE ConversationRead
  <2>1. /\ UNCHANGED <<token, user, selected, pending, current, lastViewed, chat, page, shows>>
        /\ at' \in {"idle", "stream"}
    BY <1>25 DEF ConversationRead, Converse, On
  <2>2. UNCHANGED <<auto, torn>> /\ reload' = FALSE /\ clicked' = FALSE
    BY <1>25 DEF ConversationRead, Converse, On
  <2>3. auto' \in BOOLEAN /\ reload' \in BOOLEAN /\ clicked' \in BOOLEAN /\ torn' \in BOOLEAN
    BY <2>2
  <2>. QED  BY <2>1, <2>3
<1>26. CASE Ask
  <2>1. /\ UNCHANGED <<token, user, selected, pending, current, lastViewed, chat, page>>
        /\ at' \in {"top", "idle"} /\ shows' \in {shows, "none"}
    BY <1>26 DEF Ask, On
  <2>2. UNCHANGED <<auto, torn>> /\ reload' \in {reload, TRUE} /\ clicked' \in {clicked, FALSE}
    BY <1>26 DEF Ask, On
  <2>3. auto' \in BOOLEAN /\ reload' \in BOOLEAN /\ clicked' \in BOOLEAN /\ torn' \in BOOLEAN
    BY <2>2
  <2>. QED  BY <2>1, <2>3
<1>27. CASE Click \/ BackToHome
  BY <1>27 DEF Click, BackToHome, GoHome, On
<1>28. CASE Elsewhere
  BY <1>28 DEF Elsewhere, Publish, DeletedElsewhere, AskedElsewhere
<1>. QED
  BY <1>1, <1>2, <1>3, <1>4, <1>5, <1>6, <1>7, <1>8, <1>9, <1>10, <1>11, <1>12,
     <1>13, <1>14, <1>15, <1>16, <1>17, <1>18, <1>19, <1>20, <1>21, <1>22, <1>23,
     <1>24, <1>25, <1>26, <1>27, <1>28 DEF Next, Script, LoginPage, HomePage,
     ProjectPage

(* What the tab keeps stays as it is, while conversations only grow and    *)
(* nothing changes hands; it is forgotten when another project is viewed.  *)
LEMMA KeptInvariance ==
  ASSUME IInv, Next
  PROVE  KeptInv'
<1>. KeptInv /\ Kept
  BY NextKeeps DEF IInv
<1>. log \in [Chats -> Seq(Messages)] /\ messages \in [Chats -> Seq(Messages) \cup {NotLoaded}]
  BY DEF IInv, TypeOK
<1> DEFINE OwnersAgree(c) ==
              /\ lastViewed # None /\ projectOf[c] # None
              /\ owner[lastViewed] # None
              /\ owner[projectOf[c]] = owner[lastViewed]
<1>1. ASSUME UNCHANGED <<messages, lastViewed>>,
             Switching => Switching' \/ Held = {}
      PROVE  KeptInv'
  <2> SUFFICES ASSUME NEW c \in Chats, messages[c] # NotLoaded
               PROVE  /\ IsStretch(messages[c], log'[c])
                      /\ messages[c] # <<>> /\ ~Switching' => OwnersAgree(c)'
    BY <1>1 DEF KeptInv
  <2>1. IsStretch(messages[c], log[c]) /\ Earlier(log[c], log'[c])
    BY DEF KeptInv, Kept
  <2>2. IsStretch(messages[c], log'[c])
    BY <2>1, StretchStays DEF Kept
  <2>3. ASSUME messages[c] # <<>>, ~Switching'
        PROVE  OwnersAgree(c) /\ lastViewed \in Projects /\ projectOf[c] \in Projects
    <3>1. ~Switching
      BY <1>1, <2>3 DEF Held
    <3>. QED  BY <2>3, <3>1 DEF KeptInv, IInv, TypeOK, Opt
  <2>. QED  BY <1>1, <2>2, <2>3 DEF Kept
<1>2. CASE Proceed
  <2>1. CASE lastViewed # selected
    <3>1. Switching' /\ UNCHANGED <<messages, log>>
      BY <1>2, <2>1 DEF Proceed, Finish, Switching, backend
    <3>. QED  BY <3>1 DEF KeptInv
  <2>2. CASE lastViewed = selected
    <3>1. UNCHANGED <<messages, lastViewed, torn>> /\ at = "sidebar"
      BY <1>2, <2>2 DEF Proceed, On
    <3>. QED  BY <1>1, <3>1 DEF Switching
  <2>. QED  BY <2>1, <2>2
<1>3. CASE Forget
  <2>1. UNCHANGED <<log, owner, projectOf, lastViewed>>
    BY <1>3 DEF Forget, backend
  <2>2. CASE Loaded = {}
    <3>1. \A c \in Chats : messages'[c] = NotLoaded
      BY <1>3, <2>2 DEF Forget, Loaded
    <3>. QED  BY <3>1 DEF KeptInv
  <2>3. CASE \E c \in Loaded : messages' = [messages EXCEPT ![c] = NotLoaded] /\ UNCHANGED <<script, torn>>
    BY <1>3, <2>1, <2>3 DEF KeptInv, Loaded, Switching, script
  <2>. QED  BY <1>3, <2>2, <2>3 DEF Forget
<1>4. CASE Conversation
  <2>1. UNCHANGED <<log, owner, projectOf, lastViewed, torn>> /\ page = "project" /\ at = "messages"
    BY <1>4 DEF Conversation, On, backend
  <2>2. ~Switching' => ~Switching
    BY <2>1 DEF Switching
  <2>3. CASE Own(chat) /\ messages' = [messages EXCEPT ![chat] = Newest(log[chat])]
    <3>1. /\ chat \in Chats /\ lastViewed = selected
          /\ selected # None /\ owner[selected] = token /\ token # None
      BY <2>1, <2>3 DEF IInv, TypeOK, Opt, Own, ProjectInv, ViewInv
    <3>2. projectOf[chat] # None /\ owner[projectOf[chat]] = token
      BY <2>3 DEF Own, OwnProject
    <3>3. IsStretch(Newest(log[chat]), log[chat])
      BY <3>1, NewestIsStretch
    <3>. QED  BY <2>1, <2>2, <2>3, <3>1, <3>2, <3>3 DEF KeptInv
  <2>4. CASE messages' = [messages EXCEPT ![chat] = <<>>]
    <3>1. \A c \in Chats : IsStretch(<<>>, log[c])
      BY DEF IsStretch
    <3>. QED  BY <2>1, <2>2, <2>4, <3>1 DEF KeptInv
  <2>5. CASE UNCHANGED messages
    BY <1>1, <2>1, <2>2, <2>5
  <2>. QED  BY <1>4, <2>3, <2>4, <2>5 DEF Conversation
<1>5. CASE Click
  <2>1. UNCHANGED <<messages, lastViewed>> /\ (Switching => Switching' \/ Held = {})
    BY <1>5 DEF Click, session, viewing, Switching
  <2>. QED  BY <1>1, <2>1
<1>6. CASE Unselect
  <2>1. UNCHANGED <<messages, lastViewed>> /\ Switching'
    BY <1>6 DEF Unselect, Finish, Switching
  <2>. QED  BY <1>1, <2>1
<1>7. CASE ~(Proceed \/ Forget \/ Conversation \/ Click \/ Unselect)
  <2>1. UNCHANGED <<messages, lastViewed, torn>>
    BY <1>7
       DEF Next, Script, SyncUserState, RequireLogin, Leave, LoginPage, EnterLogin, ShowForm, Welcome, StayUnknown,
           Login, Register, HomePage, ShowHome, CreateProject, PutDownDocument, PutDownStart, OpenProject,
           RenameProject, DeleteProject, GoHome, Logout, ProjectPage, GetProject, AutoStart, AutoStarted, ReadStatus,
           Refresh, Cancel, StartButton, NewChat, OpenChat, DeleteChat, ConversationRead, Ask, BackToHome, Elsewhere,
           Publish, DeletedElsewhere, AskedElsewhere, session, viewing
  <2>2. at \in {"unselect", "forget"} => at' = at
    BY <1>7
       DEF Next, Script, SyncUserState, RequireLogin, Leave, LoginPage, EnterLogin, ShowForm, AtForm, Welcome,
           StayUnknown, Login, Register, HomePage, ShowHome, AtHome, CreateProject, PutDownDocument, PutDownStart,
           OpenProject, RenameProject, DeleteProject, ProjectPage, On, Clicked, GetProject, AutoStart, AutoStarted,
           ReadStatus, Refresh, Cancel, StartButton, NewChat, OpenChat, DeleteChat, ConversationRead, Ask,
           BackToHome, Elsewhere, Publish, DeletedElsewhere, AskedElsewhere, script
  <2>3. Switching => Switching'
    BY <2>1, <2>2 DEF Switching
  <2>. QED  BY <1>1, <2>1, <2>3
<1>. QED  BY <1>2, <1>3, <1>4, <1>5, <1>6, <1>7

(* Every reachable state satisfies the invariant.                          *)
LEMMA Invariance == Spec => []IInv
<1>1. IInv /\ [Next]_vars => IInv'
  <2>1. ASSUME IInv, Next PROVE IInv'
    <3>1. TypeOK'
      BY <2>1, NextKeeps, SessionType, MessagesType DEF IInv, Kept, SessionOK, TypeOK
    <3>. QED
      BY <2>1, <3>1, UserInvariance, ProjectInvariance, KeptInvariance, ViewInvariance DEF IInv
  <2>2. ASSUME IInv, UNCHANGED vars PROVE IInv'
    BY <2>2 DEF IInv, TypeOK, UserInv, ProjectInv, KeptInv, Switching, ViewInv, ConversationShown,
                IsStretch, vars, backend, session, login, indexing, viewing, script
  <2>. QED  BY <2>1, <2>2
<1>. QED  BY InitInv, <1>1, PTL DEF Spec

(* The tables, the session state and the run keep their types.             *)
THEOREM TypeCorrect == Spec => []TypeOK
<1>1. IInv => TypeOK
  BY DEF IInv
<1>. QED  BY Invariance, <1>1, PTL

(* What the project page shows was said in one chat, and is shown with a   *)
(* project of the user who is logged in; unless a switch of the project    *)
(* was stopped half way, the chat is of this user too: the session state   *)
(* survives log-outs, but no conversation is shown past one unless it was  *)
(* loaded for the project viewed last, and that project is given only to   *)
(* its owner.                                                              *)
THEOREM OnlyOwnIsShown == Spec => []ShownIsOwn
<1>1. IInv => ShownIsOwn
  <2> SUFFICES ASSUME IInv, ConversationShown PROVE ShownIsOwn
    BY DEF ShownIsOwn
  <2>1. user # None /\ token = user /\ owner[selected] = user
    BY DEF IInv, UserInv, ProjectInv, ConversationShown
  <2>2. chat \in Chats /\ messages[chat] # NotLoaded /\ lastViewed = selected
    BY DEF IInv, TypeOK, Opt, ViewInv, ConversationShown
  <2>3. at \notin {"unselect", "forget"}
    BY DEF ConversationShown
  <2>. QED  BY <2>1, <2>2, <2>3 DEF IInv, KeptInv, Switching, ShownIsOwn
<1>. QED  BY Invariance, <1>1, PTL

(* What restarts the script without a click leaves it less to answer.      *)
LEMMA RestartMeasure ==
  ASSUME IInv, Next
  PROVE  ~Waiting /\ script' # script /\ at' = "top" /\ ~clicked' => Left' < Left
<1>. SessionOK /\ UserInv /\ ViewInv
  BY DEF IInv, TypeOK, SessionOK
<1> USE DEF SessionOK, UserInv, ViewInv, Waiting, Left, Answering, SwitchTo, Rerun,
         Goto, Finish, Done, backend, session, login, indexing, viewing, script
<1>1. CASE SyncUserState \/ RequireLogin
  BY <1>1 DEF SyncUserState, RequireLogin, LoggedInUser
<1>2. CASE EnterLogin \/ ShowForm
  BY <1>2 DEF EnterLogin, ShowForm, AtForm
<1>3. CASE \E u \in Users : Login(u)
  BY <1>3 DEF Login, AtForm, LoginUser
<1>4. CASE \E u \in Users : Register(u)
  BY <1>4 DEF Register, AtForm, RegisterUser
<1>5. CASE Welcome \/ StayUnknown \/ Leave
  BY <1>5 DEF Welcome, StayUnknown, Leave
<1>6. CASE ShowHome
  BY <1>6 DEF ShowHome, AtHome
<1>7. CASE \E p \in Projects : CreateProject(p)
  BY <1>7 DEF CreateProject, AtHome, InsertProject
<1>8. CASE PutDownDocument \/ PutDownStart
  BY <1>8 DEF PutDownDocument, PutDownStart
<1>9. CASE \E p \in Projects : OpenProject(p) \/ RenameProject(p)
  BY <1>9 DEF OpenProject, RenameProject, AtHome, OwnProjects, OwnProject
<1>10. CASE \E p \in Projects : DeleteProject(p)
  BY <1>10 DEF DeleteProject, AtHome
<1>11. CASE ((AtHome /\ clicked) \/ Clicked) /\ GoHome
  BY <1>11 DEF GoHome, AtHome, Clicked, On
<1>12. CASE ((AtHome /\ clicked) \/ Clicked) /\ Logout
  BY <1>12 DEF Logout, AtHome, Clicked, On
<1>13. CASE GetProject
  BY <1>13 DEF GetProject, On, OwnProject
<1>14. CASE AutoStart
  BY <1>14 DEF AutoStart, On
<1>15. CASE AutoStarted
  BY <1>15 DEF AutoStarted, On
<1>16. CASE ReadStatus
  BY <1>16 DEF ReadStatus, On, Shows, StatusOf, Latest, ReadyRuns, ActiveRuns, Of
<1>17. CASE Refresh \/ Cancel
  BY <1>17 DEF Refresh, Cancel, Clicked, On, Unclicked
<1>18. CASE StartButton
  BY <1>18 DEF StartButton, Clicked, On, Unclicked
<1>19. CASE NewChat
  BY <1>19 DEF NewChat, Clicked, On, Unclicked
<1>20. CASE OpenChat
  BY <1>20 DEF OpenChat, Clicked, On, Listed, Of
<1>21. CASE DeleteChat
  BY <1>21 DEF DeleteChat, Clicked, On, Listed, Of, Unclicked
<1>22. CASE Proceed
  BY <1>22 DEF Proceed, ShowChat, On
<1>23. CASE Unselect \/ Forget
  BY <1>23 DEF Unselect, Forget, Loaded, On
<1>24. CASE Conversation
  BY <1>24 DEF Conversation, Converse, On
<1>25. CASE ConversationRead
  BY <1>25 DEF ConversationRead, Converse, On
<1>26. CASE Ask
  BY <1>26 DEF Ask, On
<1>27. CASE Click \/ BackToHome
  BY <1>27 DEF Click, BackToHome, GoHome, On
<1>28. CASE Elsewhere
  BY <1>28 DEF Elsewhere, Publish, DeletedElsewhere, AskedElsewhere
<1>. QED
  BY <1>1, <1>2, <1>3, <1>4, <1>5, <1>6, <1>7, <1>8, <1>9, <1>10, <1>11, <1>12,
     <1>13, <1>14, <1>15, <1>16, <1>17, <1>18, <1>19, <1>20, <1>21, <1>22, <1>23,
     <1>24, <1>25, <1>26, <1>27, <1>28 DEF Next, Script, LoginPage, HomePage,
     ProjectPage

(* The redirects and reruns of the pages end.                              *)
THEOREM RestartsDecrease == Spec => RestartsEnd
<1>1. IInv /\ [Next]_vars =>
        [~Waiting /\ script' # script /\ at' = "top" /\ ~clicked' => Left' < Left]_vars
  BY RestartMeasure
<1>. QED  BY Invariance, <1>1, PTL DEF Spec, RestartsEnd

=============================================================================
