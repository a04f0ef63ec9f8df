------------------------------- MODULE Client -------------------------------
(***************************************************************************)
(* One browser tab of the Streamlit front end, and what it sees of the     *)
(* accounts, projects, runs and chats that other clients and the indexing  *)
(* workers change meanwhile.                                               *)
(*                                                                         *)
(* Streamlit runs the script of a page from its top after every click; the *)
(* click is seen where the script draws the widget, and is lost when it    *)
(* does not.  A click while the script runs stops it, at its next access   *)
(* to st.session_state or call of st, and starts it again.  What survives  *)
(* is st.session_state, over page switches and log-outs.  The scripts are  *)
(* cut at their calls to the API, any of which may fail, before or after   *)
(* it took effect, and between two writes to the session state; a write    *)
(* that only a switch of the page or a rerun follows is one step with it.  *)
(* Modelled with SKIP_AUTH off.                                            *)
(***************************************************************************)
EXTENDS Naturals, Sequences

CONSTANTS
    Users,        \* e-mail addresses, and the accounts made for them
    Projects,     \* project ids; a project has one document, called by its id
    Indexes,      \* runs of the indexing
    Chats,
    MessageLimit, \* how many messages the page reads: limit=100
    MaxMessages,  \* bound of the messages of a chat
    None

Messages == [chat : Chats, role : {"user", "assistant"}]

ASSUME ClientAssumption ==
    /\ MessageLimit \in Nat /\ MaxMessages \in Nat
    /\ None \notin Users \cup Projects \cup Indexes \cup Chats \cup Messages

VARIABLES
    accounts,   \* the addresses that are registered
    owner,      \* the user who made each project; None: the id is not in use yet
    projectOf,  \* the project of each chat and run; None: the id is not in use yet
    published,  \* the runs that are READY; the others are active, failed or cancelled
    deleted,    \* ids of the rows deleted since; ids are never used again
    log,        \* the messages of each chat, deleted chats included
    \* st.session_state:
    token,      \* access_token
    user,       \* current_user
    selected,   \* selected_project_id
    pending,    \* pending_index_document_id
    auto,       \* auto_start_indexing
    current,    \* current_index_id
    lastViewed, \* last_viewed_project
    chat,       \* selected_chat_id
    messages,   \* chat_messages_<id> of each chat
    reload,     \* reload_messages
    \* the script:
    page,       \* "login", "home" or "project"
    at,         \* what it does next; "idle", "failed": it has ended
    clicked,    \* whether a click that started it is still to be answered
    shows,      \* what it knows of the indexing: "none", "busy" or "ready"
    \* history:
    torn        \* whether a switch of the project was stopped half way, with messages left

backend  == <<accounts, owner, projectOf, published, deleted, log>>
login    == <<token, user>>
indexing == <<pending, auto, current>>
viewing  == <<lastViewed, chat, messages, reload>>
session  == <<login, selected, indexing, viewing>>
script   == <<page, at, clicked, shows>>
vars     == <<backend, session, script, torn>>

NotLoaded == <<None>>   \* no key chat_messages_<id> in the session state

Init ==
    /\ accounts = {}
    /\ owner = [p \in Projects |-> None]
    /\ projectOf = [x \in Chats \cup Indexes |-> None]
    /\ published = {}
    /\ deleted = {}
    /\ log = [c \in Chats |-> <<>>]
    /\ token = None /\ user = None
    /\ selected = None
    /\ pending = None /\ auto = FALSE /\ current = None
    /\ lastViewed = None /\ chat = None
    /\ messages = [c \in Chats |-> NotLoaded] /\ reload = FALSE
    /\ page \in {"login", "home", "project"}   \* each has a URL of its own
    /\ at = "top" /\ clicked = FALSE /\ shows = "none"
    /\ torn = FALSE

-----------------------------------------------------------------------------
(* What the back end answers to the user of the tab's token.               *)

(* RegisterUserUseCase: the unique e-mail address makes one of two         *)
(* registrations fail, wherever they meet: it is one step.                 *)
RegisterUser(u) ==
    /\ u \notin accounts
    /\ accounts' = accounts \cup {u}
    /\ UNCHANGED <<owner, projectOf, published, deleted, log>>

(* LoginUserUseCase, with the right password: the token names the account. *)
LoginUser(u) == u \in accounts

(* get_logged_in_user: the account of a token.                             *)
LoggedInUser(t) == t \in accounts

OwnProject(p) == p \in Projects \ deleted /\ owner[p] # None /\ owner[p] = token

Own(x) == x # None /\ x \notin deleted /\ projectOf[x] # None /\ OwnProject(projectOf[x])

OwnProjects == {p \in Projects : OwnProject(p)}

Of(ids, p) == {x \in ids : projectOf[x] = p /\ Own(x)}

(* Which of several runs is the latest, and which of those that are not    *)
(* READY is active, is left open.                                          *)
ReadyRuns(p) == Of(Indexes, p) \cap published

ActiveRuns(p) == Of(Indexes, p) \ published

(* GetLatestIndexStatusUseCase: a ready run, else an active one if any is. *)
Latest(p) == IF ReadyRuns(p) # {} THEN ReadyRuns(p) ELSE ActiveRuns(p)

(* StartIndexingUseCase returns run i, an active run of the project or a   *)
(* new one.                                                                *)
StartIndexing(p, doc, i) ==
    /\ OwnProject(p) /\ doc = p
    /\ i \in ActiveRuns(p) \/ projectOf[i] = None
    /\ projectOf' = [projectOf EXCEPT ![i] = p]
    /\ UNCHANGED <<accounts, owner, published, deleted, log>>

InsertProject(p) ==
    /\ token # None /\ owner[p] = None
    /\ owner' = [owner EXCEPT ![p] = token]
    /\ UNCHANGED <<accounts, projectOf, published, deleted, log>>

CreateChat(p, c) ==
    /\ OwnProject(p) /\ projectOf[c] = None
    /\ projectOf' = [projectOf EXCEPT ![c] = p]
    /\ UNCHANGED <<accounts, owner, published, deleted, log>>

(* A row goes with the rows of its project.                                *)
Delete(x) ==
    /\ deleted' = deleted \cup {x} \cup {y \in Chats \cup Indexes : projectOf[y] = x}
    /\ published' = published \ deleted'
    /\ UNCHANGED <<accounts, owner, projectOf, log>>

AppendMessages(c, roles) ==
    /\ Len(log[c]) + Len(roles) <= MaxMessages
    /\ log' = [log EXCEPT ![c] = @ \o [k \in DOMAIN roles |-> [chat |-> c, role |-> roles[k]]]]
    /\ UNCHANGED <<accounts, owner, projectOf, published, deleted>>

(* An ApiError of a call: it did nothing, or its answer was lost.          *)
Fails(call) == UNCHANGED backend \/ call

-----------------------------------------------------------------------------
(* Clicks and page switches.                                               *)

(* st.switch_page.                                                         *)
SwitchTo(p) == page' = p /\ at' = "top" /\ clicked' = FALSE /\ shows' = "none"

(* st.rerun, and a click that was answered.                                *)
Rerun == SwitchTo(page)

Goto(a) == at' = a /\ UNCHANGED <<page, clicked, shows>>

(* The script is on its way to a switch or a rerun: all it knows is left   *)
(* behind.                                                                 *)
Finish(a) == at' = a /\ clicked' = FALSE /\ shows' = "none" /\ UNCHANGED page

Shows(s) == at' = "sidebar" /\ shows' = s /\ UNCHANGED <<page, clicked>>

Done == at' = "idle" /\ clicked' = FALSE /\ UNCHANGED <<page, shows>>

Waiting == at \in {"idle", "failed"}

(* The chats the session state has messages of.                            *)
Held == {c \in Chats : messages[c] \notin {NotLoaded, <<>>}}

(* Which button or field it was is left open until the script draws it;    *)
(* a click is lost when its widget is not drawn.                           *)
Click ==
    /\ at # "failed"
    /\ at' = "top" /\ clicked' = TRUE /\ shows' = "none"
    /\ torn' = (torn \/ (at \in {"unselect", "forget"} /\ Held # {}))
    /\ UNCHANGED <<backend, session, page>>

GoHome == SwitchTo("home") /\ UNCHANGED <<backend, session, torn>>

(* logout drops the token, then the user.                                  *)
Logout ==
    /\ token' = None
    /\ Finish("leaving")
    /\ UNCHANGED <<backend, user, selected, indexing, viewing, torn>>

Leave ==
    /\ at = "leaving"
    /\ user' = None
    /\ SwitchTo("login")
    /\ UNCHANGED <<backend, token, selected, indexing, viewing, torn>>

(* sync_user_state, with a token of an account.                            *)
SyncUserState ==
    /\ at = "top" /\ user = None
    /\ LoggedInUser(token) /\ user' = token
    /\ UNCHANGED <<backend, token, selected, indexing, viewing, script, torn>>

(* require_login of the pages that need a user, when there is none.        *)
RequireLogin ==
    /\ page # "login" /\ at = "top" /\ user = None
    /\ SwitchTo("login")
    /\ UNCHANGED <<backend, session, torn>>

-----------------------------------------------------------------------------
(* The login and register pages.                                           *)

EnterLogin ==
    /\ page = "login" /\ at = "top"
    /\ user # None /\ SwitchTo("home")
    /\ UNCHANGED <<backend, session, torn>>

AtForm == page = "login" /\ at = "top" /\ user = None

(* The form without a click, or with one that is refused: nothing is sent, *)
(* or an error comes back.                                                 *)
ShowForm == AtForm /\ Done /\ UNCHANGED <<backend, session, torn>>

(* Log in and ask who that is; then token and user are kept.               *)
Login(u) ==
    /\ AtForm /\ clicked
    /\ LoginUser(u)
    /\ token' = u
    /\ Finish("welcome")
    /\ UNCHANGED <<backend, user, selected, indexing, viewing, torn>>

(* Register and log in; then the token is kept before it is asked who that *)
(* is.  The account is kept when the log-in fails.                         *)
Register(u) ==
    /\ AtForm /\ clicked
    /\ RegisterUser(u)
    /\ \/ UNCHANGED token /\ Done
       \/ token' = u /\ Finish("registered")
    /\ UNCHANGED <<user, selected, indexing, viewing, torn>>

Welcome ==
    /\ at \in {"welcome", "registered"}
    /\ user' = token
    /\ SwitchTo("home")
    /\ UNCHANGED <<backend, token, selected, indexing, viewing, torn>>

(* get_me fails: the next run of the script finds the token.               *)
StayUnknown == at = "registered" /\ Done /\ UNCHANGED <<backend, session, torn>>

-----------------------------------------------------------------------------
(* The home page.                                                          *)

AtHome == page = "home" /\ at = "top" /\ user # None

(* The page without a click, or with one that is lost: _load_projects      *)
(* fails with an empty list.                                               *)
ShowHome == AtHome /\ Done /\ UNCHANGED <<backend, session, torn>>

(* The answer names project and document, which are put down one after the *)
(* other.                                                                  *)
CreateProject(p) ==
    /\ AtHome /\ clicked
    /\ \/ InsertProject(p) /\ selected' = p /\ Finish("created")
       \/ Fails(InsertProject(p)) /\ UNCHANGED selected /\ Done
    /\ UNCHANGED <<login, indexing, viewing, torn>>

PutDownDocument ==
    /\ at = "created"
    /\ pending' = selected
    /\ Finish("pending")
    /\ UNCHANGED <<backend, login, selected, auto, current, viewing, torn>>

PutDownStart ==
    /\ at = "pending"
    /\ auto' = TRUE
    /\ SwitchTo("project")
    /\ UNCHANGED <<backend, login, selected, pending, current, viewing, torn>>

(* What _load_projects does not list has no buttons.                       *)
OpenProject(p) ==
    /\ AtHome /\ clicked
    /\ p \in OwnProjects
    /\ selected' = p
    /\ SwitchTo("project")
    /\ UNCHANGED <<backend, login, indexing, viewing, torn>>

(* Names are not part of this module.                                      *)
RenameProject(p) ==
    /\ AtHome /\ clicked
    /\ p \in OwnProjects
    /\ Rerun \/ Done
    /\ UNCHANGED <<backend, session, torn>>

DeleteProject(p) ==
    /\ AtHome /\ clicked
    /\ p \in OwnProjects
    /\ \/ Delete(p) /\ selected' = (IF selected = p THEN None ELSE selected) /\ Rerun
       \/ Fails(Delete(p)) /\ UNCHANGED selected /\ Done
    /\ UNCHANGED <<login, indexing, viewing, torn>>

-----------------------------------------------------------------------------
(* The project page.                                                       *)

On(a) == page = "project" /\ at = a

(* An error ends the page with a link to the home page.                    *)
GetProject ==
    /\ On("top") /\ user # None
    /\ UNCHANGED <<backend, session, torn>>
    /\ \/ selected = None /\ SwitchTo("home")
       \/ OwnProject(selected) /\ Goto(IF auto THEN "start" ELSE "status")
       \/ selected # None /\ at' = "failed" /\ clicked' = FALSE /\ UNCHANGED <<page, shows>>

BackToHome == On("failed") /\ GoHome

(* The run that was started is what the page shows if the next call fails. *)
AutoStart ==
    /\ On("start")
    /\ \E i \in Indexes :
          \/ /\ StartIndexing(selected, pending, i)
             /\ current' = i
             /\ at' = "started" /\ shows' = "busy" /\ UNCHANGED <<page, clicked>>
          \/ /\ Fails(StartIndexing(selected, pending, i))
             /\ UNCHANGED current
             /\ Goto("started")
    /\ UNCHANGED <<login, selected, pending, auto, viewing, torn>>

AutoStarted ==
    /\ On("started")
    /\ auto' = FALSE
    /\ Goto("status")
    /\ UNCHANGED <<backend, login, selected, pending, current, viewing, torn>>

StatusOf(i) == IF i \in published THEN "ready" ELSE "busy"

(* The run the tab last knew of is asked for, whatever its project.        *)
ReadStatus ==
    /\ On("status")
    /\ \/ Own(current) /\ Shows(StatusOf(current)) /\ UNCHANGED current
       \/ current = None /\ \E i \in Latest(selected) : Shows(StatusOf(i)) /\ current' = i
       \/ Goto("sidebar") /\ UNCHANGED current
    /\ UNCHANGED <<backend, login, selected, pending, auto, viewing, torn>>

Clicked == On("sidebar") /\ clicked

(* A call failed: the error is shown and the page goes on.                 *)
Unclicked == clicked' = FALSE /\ UNCHANGED <<page, at, shows>>

Refresh == Clicked /\ shows # "none" /\ Rerun /\ UNCHANGED <<backend, session, torn>>

(* What the cancellation does to the run is not part of this module.       *)
Cancel ==
    /\ Clicked /\ shows # "none"
    /\ \/ Own(current) /\ Rerun
       \/ Unclicked
    /\ UNCHANGED <<backend, session, torn>>

StartButton ==
    /\ Clicked /\ shows = "none" /\ pending # None
    /\ \E i \in Indexes :
          \/ StartIndexing(selected, pending, i) /\ current' = i /\ Rerun
          \/ Fails(StartIndexing(selected, pending, i)) /\ UNCHANGED current /\ Unclicked
    /\ UNCHANGED <<login, selected, pending, auto, viewing, torn>>

NewChat ==
    /\ Clicked /\ shows = "ready"
    /\ \E c \in Chats :
          \/ CreateChat(selected, c) /\ chat' = c /\ Rerun
          \/ Fails(CreateChat(selected, c)) /\ UNCHANGED chat /\ Unclicked
    /\ UNCHANGED <<login, selected, indexing, lastViewed, messages, reload, torn>>

Listed == IF shows = "ready" THEN Of(Chats, selected) ELSE {}

OpenChat ==
    /\ Clicked
    /\ \E c \in Listed : chat' = c
    /\ Rerun
    /\ UNCHANGED <<backend, login, selected, indexing, lastViewed, messages, reload, torn>>

DeleteChat ==
    /\ Clicked
    /\ \E c \in Listed :
          \/ Delete(c) /\ chat' = (IF chat = c THEN None ELSE chat) /\ Rerun
          \/ Fails(Delete(c)) /\ UNCHANGED chat /\ Unclicked
    /\ UNCHANGED <<login, selected, indexing, lastViewed, messages, reload, torn>>

(* What follows the sidebar.                                               *)
ShowChat == IF shows = "ready" /\ chat # None THEN Goto("messages") ELSE Done

(* Variants: the switch keeps what the tab showed of the other project; it *)
(* is not recorded.                                                        *)
ProceedKeepingChat ==
    /\ On("sidebar")
    /\ IF lastViewed # selected THEN lastViewed' = selected /\ Rerun
       ELSE UNCHANGED lastViewed /\ ShowChat
    /\ UNCHANGED <<backend, login, selected, indexing, chat, messages, reload, torn>>

ProceedUnrecorded ==
    /\ On("sidebar")
    /\ IF lastViewed # selected THEN Finish("unselect") ELSE ShowChat
    /\ UNCHANGED <<backend, session, torn>>

(* The sidebar is drawn, or as much of it as list_chats allows, without a  *)
(* widget that was clicked.  Then a switch of the project is recorded, and *)
(* forgets the chat, and its messages one key after the other; without a   *)
(* ready run or a chat the page ends here.                                 *)
Proceed ==
    /\ On("sidebar")
    /\ IF lastViewed # selected THEN lastViewed' = selected /\ Finish("unselect")
       ELSE UNCHANGED lastViewed /\ ShowChat
    /\ UNCHANGED <<backend, login, selected, indexing, chat, messages, reload, torn>>

Unselect ==
    /\ On("unselect")
    /\ chat' = None
    /\ Finish("forget")
    /\ UNCHANGED <<backend, login, selected, indexing, lastViewed, messages, reload, torn>>

Loaded == {c \in Chats : messages[c] # NotLoaded}

Forget ==
    /\ On("forget")
    /\ \/ /\ \E c \in Loaded : messages' = [messages EXCEPT ![c] = NotLoaded]
          /\ UNCHANGED <<script, torn>>
       \/ Loaded = {} /\ torn' = FALSE /\ Rerun /\ UNCHANGED messages
    /\ UNCHANGED <<backend, login, selected, indexing, lastViewed, chat, reload>>

(* The conversation is drawn; a question that was asked goes on.           *)
Converse ==
    \/ Done
    \/ clicked /\ at' = "stream" /\ clicked' = FALSE /\ UNCHANGED <<page, shows>>

(* GetChatMessagesUseCase: the newest messages, the oldest of them first.  *)
Newest(s) == SubSeq(s, IF Len(s) > MessageLimit THEN Len(s) - MessageLimit + 1 ELSE 1, Len(s))

ReadsMessages == messages[chat] = NotLoaded \/ reload

(* Variant: no default after a failed reading.                             *)
ConversationWithoutDefault ==
    /\ On("messages")
    /\ \/ /\ ReadsMessages /\ Own(chat)
          /\ messages' = [messages EXCEPT ![chat] = Newest(log[chat])]
          /\ Goto("loaded")
       \/ ReadsMessages /\ messages' = [messages EXCEPT ![chat] = None] /\ Converse
       \/ ~ReadsMessages /\ UNCHANGED messages /\ Converse
    /\ UNCHANGED <<backend, login, selected, indexing, lastViewed, chat, reload, torn>>

(* The messages come from the session state unless they are to be read; a  *)
(* failed reading leaves an empty conversation there.                      *)
Conversation ==
    /\ On("messages")
    /\ \/ /\ ReadsMessages /\ Own(chat)
          /\ messages' = [messages EXCEPT ![chat] = Newest(log[chat])]
          /\ Goto("loaded")
       \/ ReadsMessages /\ messages' = [messages EXCEPT ![chat] = <<>>] /\ Converse
       \/ ~ReadsMessages /\ UNCHANGED messages /\ Converse
    /\ UNCHANGED <<backend, login, selected, indexing, lastViewed, chat, reload, torn>>

ConversationRead ==
    /\ On("loaded")
    /\ reload' = FALSE
    /\ Converse
    /\ UNCHANGED <<backend, login, selected, indexing, lastViewed, chat, messages, torn>>

(* What a streamed query stores: the question, then the answer.            *)
QueryProjectStream(roles) ==
    /\ Own(chat) /\ projectOf[chat] = selected
    /\ AppendMessages(chat, roles)

(* The stream comes to its end, or to an error: then the question and the  *)
(* answer may be stored, and are not read again.                           *)
Ask ==
    /\ On("stream")
    /\ \/ QueryProjectStream(<<"user", "assistant">>) /\ reload' = TRUE /\ Rerun
       \/ /\ Fails(QueryProjectStream(<<"user">>) \/ QueryProjectStream(<<"user", "assistant">>))
          /\ UNCHANGED reload
          /\ Goto("idle")
    /\ UNCHANGED <<login, selected, indexing, lastViewed, chat, messages, torn>>

-----------------------------------------------------------------------------
(* Workers and other clients.                                              *)

Publish(i) ==
    /\ projectOf[i] # None /\ i \notin deleted
    /\ published' = published \cup {i}
    /\ UNCHANGED <<accounts, owner, projectOf, deleted, log, session, script, torn>>

DeletedElsewhere(x) ==
    /\ x \notin deleted
    /\ IF x \in Projects THEN owner[x] # None ELSE projectOf[x] # None
    /\ Delete(x)
    /\ UNCHANGED <<session, script, torn>>

AskedElsewhere(c) ==
    /\ projectOf[c] # None /\ c \notin deleted
    /\ AppendMessages(c, <<"user", "assistant">>)
    /\ UNCHANGED <<session, script, torn>>

Elsewhere ==
    \/ \E i \in Indexes : Publish(i)
    \/ \E x \in Projects \cup Chats : DeletedElsewhere(x)
    \/ \E c \in Chats : AskedElsewhere(c)

LoginPage ==
    \/ EnterLogin \/ ShowForm \/ Welcome \/ StayUnknown
    \/ \E u \in Users : Login(u) \/ Register(u)

HomePage ==
    \/ ShowHome \/ PutDownDocument \/ PutDownStart
    \/ \E p \in Projects :
          CreateProject(p) \/ OpenProject(p) \/ RenameProject(p) \/ DeleteProject(p)
    \/ AtHome /\ clicked /\ (GoHome \/ Logout)

ProjectPage ==
    \/ GetProject \/ AutoStart \/ AutoStarted \/ ReadStatus
    \/ Refresh \/ Cancel \/ StartButton \/ NewChat \/ OpenChat \/ DeleteChat
    \/ Proceed \/ Unselect \/ Forget \/ Conversation \/ ConversationRead \/ Ask
    \/ Clicked /\ (GoHome \/ Logout)

Script == SyncUserState \/ RequireLogin \/ Leave \/ LoginPage \/ HomePage \/ ProjectPage

Next == Script \/ Click \/ BackToHome \/ Elsewhere

Spec == Init /\ [][Next]_vars

-----------------------------------------------------------------------------
(* Properties.                                                             *)

Opt(S) == S \cup {None}

(* The tables, the session state and the run keep their types.             *)
TypeOK ==
    /\ accounts \subseteq Users
    /\ owner \in [Projects -> Opt(Users)]
    /\ projectOf \in [Chats \cup Indexes -> Opt(Projects)]
    /\ published \subseteq Indexes
    /\ deleted \subseteq Projects \cup Chats \cup Indexes
    /\ log \in [Chats -> Seq(Messages)]
    /\ token \in Opt(Users) /\ user \in Opt(Users)
    /\ selected \in Opt(Projects)
    /\ pending \in Opt(Projects) /\ auto \in BOOLEAN /\ current \in Opt(Indexes)
    /\ lastViewed \in Opt(Projects) /\ chat \in Opt(Chats)
    /\ messages \in [Chats -> Seq(Messages) \cup {NotLoaded}] /\ reload \in BOOLEAN
    /\ page \in {"login", "home", "project"}
    /\ at \in {"top", "idle", "failed", "welcome", "registered", "leaving",
              "created", "pending", "start", "started", "status", "sidebar",
              "unselect", "forget", "messages", "loaded", "stream"}
    /\ clicked \in BOOLEAN /\ shows \in {"none", "busy", "ready"}
    /\ torn \in BOOLEAN

(* s is a stretch of t.                                                    *)
IsStretch(s, t) ==
    \E d \in 0..Len(t) : Len(s) <= Len(t) - d /\ \A k \in DOMAIN s : s[k] = t[d + k]

ConversationShown ==
    page = "project" /\ at \in {"idle", "stream"} /\ shows = "ready" /\ chat # None

(* The messages the project page shows are consecutive ones of one chat,   *)
(* shown with a project of the user who is logged in; and the chat is of   *)
(* this user too, whatever the tab kept from other projects, chats and     *)
(* users, unless a click stopped the last switch of the project half way.  *)
ShownIsOwn ==
    ConversationShown =>
        /\ user # None /\ token = user
        /\ owner[selected] = user
        /\ IsStretch(messages[chat], log[chat])
        /\ messages[chat] # <<>> => torn \/ owner[projectOf[chat]] = user

(* The chat the project page shows is one of the open project: a switch of *)
(* the project clears the selection of the chat.                           *)
ChatIsOfTheProject == ConversationShown => projectOf[chat] = selected

Answering == {"welcome", "registered", "leaving", "created", "pending", "stream"}

(* How much a script that runs has left to answer: a click, or the answer  *)
(* it streams; then a user to find, a log-in to notice or a project to     *)
(* switch to.                                                              *)
Left ==
    (IF clicked \/ at \in Answering THEN 5 ELSE 0)
    + CASE page = "login" -> 3
        [] page # "login" /\ user = None -> 4
        [] page = "project" /\ user # None ->
              IF lastViewed # selected \/ at \in {"unselect", "forget"} THEN 2 ELSE 1
        [] page = "home" /\ user # None -> 0

(* Pages redirect to each other and rerun themselves, but never in circles *)
(* or without end: each restart of a script that no new click has caused   *)
(* leaves less to answer.                                                  *)
RestartsEnd ==
    [][~Waiting /\ script' # script /\ at' = "top" /\ ~clicked' => Left' < Left]_vars
=============================================================================
