------------------------------ MODULE Accounts ------------------------------
(***************************************************************************)
(* Accounts, their roles and their chats: UsersController, the User model  *)
(* and what Ability lets a role do.  Requests interleave statement by      *)
(* statement, as in module Shop.                                           *)
(***************************************************************************)
EXTENDS Naturals, FiniteSets

CONSTANTS
    Users,       \* e-mail addresses; each names at most one account, ever
    Admin,       \* the account the installation starts with
    Threads,     \* Puma threads
    Loads,       \* what may arrive in a behaviour, see Load
    MaxChats,    \* bound: rows ever inserted into chats
    MaxMessages, \* bound: rows ever inserted into chat_messages
    None         \* no user

ASSUME AccountsAssumption ==
    /\ Admin \in Users /\ None \notin Users
    /\ MaxChats \in Nat /\ MaxMessages \in Nat

VARIABLES
    users,      \* the users table and each user's role
    chats,      \* the chats table
    messages,   \* the chat_messages table
    req,        \* what each Puma thread is serving, with its locals
    load        \* what arrives in this behaviour; it stays as it is chosen

ChatIds == 1..MaxChats
MessageIds == 1..MaxMessages
Roles == {"none", "user", "staff", "admin"}

\* Ids not given out yet are "new", deleted rows are "gone".
UserRow == [st : {"new", "live", "gone"}, role : Roles]
ChatRow == [st : {"new", "live", "gone"}, sender : Users \cup {None}]
\* window is history: the sender of the chat whose window it was typed into.
MessageRow ==
    [st : {"new", "live", "gone"}, chat : ChatIds \cup {0}, user : Users \cup {None},
     window : Users \cup {None}]

NoUser == [st |-> "new", role |-> "none"]
NoChat == [st |-> "new", sender |-> None]
NoMessage == [st |-> "new", chat |-> 0, user |-> None, window |-> None]

Request ==
    [pc : {"idle", "find", "save", "role", "chat", "load", "commit", "insert", "enqueue"},
     role : Roles, chatty : BOOLEAN, todo : SUBSET Users, user : Users \cup {None},
     window : Users \cup {None}, chat : ChatIds \cup {0}, rows : SUBSET MessageIds, row : MessageIds \cup {0}]

NoRequest ==
    [pc |-> "idle", role |-> "none", chatty |-> FALSE, todo |-> {}, user |-> None,
     window |-> None, chat |-> 0, rows |-> {}, row |-> 0]

(***************************************************************************)
(* The request kinds and the lists of addresses that arrive, how many      *)
(* threads and workers serve, and the bounds on posts, on broadcasts that  *)
(* fail and on restarts.                                                   *)
(***************************************************************************)
Load ==
    [handlers : SUBSET STRING, lists : SUBSET SUBSET Users, threads : SUBSET Threads,
     posts : 0..MaxMessages, failures : Nat, crashes : Nat]

-----------------------------------------------------------------------------
LiveUser(u) == u \in Users /\ users[u].st = "live"

LiveChats == {c \in ChatIds : chats[c].st = "live"}

LiveMessages == {m \in MessageIds : messages[m].st = "live"}

IsStaff(u) == users[u].role \in {"admin", "staff"}

FirstOf(S) == {x \in S : \A y \in S : x <= y}

\* dependent: :destroy of Chat
MessagesOf(c) == {m \in LiveMessages : messages[m].chat = c}

(***************************************************************************)
(* What a role may manage.                                                 *)
(***************************************************************************)
Can(role, subject) ==
    \/ role = "admin"
    \/ role = "staff" /\ subject \in {"Bill", "Product"}
    \/ subject \in {"Cart", "ChatMessage", "Chat", "Booking"}

Starts(t, h) == h \in load.handlers /\ t \in load.threads /\ req[t].pc = "idle"

SomeoneMay(subject) == \E a \in Users : LiveUser(a) /\ Can(users[a].role, subject)

Continue(t, r) == req' = [req EXCEPT ![t] = r]

\* The response is sent, or an exception ends the request with a 500.
Finish(t) == Continue(t, NoRequest)

-----------------------------------------------------------------------------
(***************************************************************************)
(* create: for each address, skip it if it has an account, save the user,  *)
(* add the role, and give everyone but admins and staff a chat.  import    *)
(* does the same without the chat; it compares a symbol with two strings,  *)
(* so that every row becomes a "user".                                     *)
(***************************************************************************)
BeginCreate(t, role, list) ==
    /\ Starts(t, "create")
    /\ SomeoneMay("User")
    /\ Continue(t, [NoRequest EXCEPT !.pc = "find", !.role = role, !.chatty = TRUE, !.todo = list])
    /\ UNCHANGED <<users, chats, messages>>

BeginImport(t, list) ==
    /\ Starts(t, "import")
    /\ SomeoneMay("User")
    /\ Continue(t, [NoRequest EXCEPT !.pc = "find", !.role = "user", !.todo = list])
    /\ UNCHANGED <<users, chats, messages>>

\* A deleted account's address is not used again (bound): it counts as found.
FindAccount(t, u) ==
    /\ req[t].pc = "find" /\ u \in req[t].todo
    /\ IF users[u].st # "new"
       THEN Continue(t, [req[t] EXCEPT !.todo = @ \ {u}])
       ELSE Continue(t, [req[t] EXCEPT !.todo = @ \ {u}, !.user = u, !.pc = "save"])
    /\ UNCHANGED <<users, chats, messages>>

(***************************************************************************)
(* An address taken since it was looked up fails the uniqueness validation *)
(* (next) or, when taken after that, the unique index: the exception ends  *)
(* the request.                                                            *)
(***************************************************************************)
SaveUser(t) ==
    LET u == req[t].user IN
    /\ req[t].pc = "save"
    /\ \/ /\ users[u].st = "new"
          /\ users' = [users EXCEPT ![u].st = "live"]
          /\ Continue(t, [req[t] EXCEPT !.pc = "role"])
       \/ /\ users[u].st # "new"
          /\ \/ Continue(t, [req[t] EXCEPT !.pc = "find", !.user = None])
             \/ Finish(t)
          /\ UNCHANGED users
    /\ UNCHANGED <<chats, messages>>

\* Staff are told apart from customers by the role the form sends.
GetsChatAlways(r) == r.chatty

GetsChat(r) == r.chatty /\ r.role \notin {"admin", "staff"}

AddRole(t) ==
    LET u == req[t].user IN
    /\ req[t].pc = "role"
    /\ users' = [users EXCEPT ![u].role = IF LiveUser(u) THEN req[t].role ELSE @]
    /\ Continue(t, IF GetsChat(req[t]) THEN [req[t] EXCEPT !.pc = "chat"]
                   ELSE [req[t] EXCEPT !.pc = "find", !.user = None])
    /\ UNCHANGED <<chats, messages>>

InsertChat(u) ==
    \E c \in FirstOf({x \in ChatIds : chats[x].st = "new"}) :
        chats' = [chats EXCEPT ![c] = [st |-> "live", sender |-> u]]

CreateChat(t) ==
    /\ req[t].pc = "chat"
    /\ InsertChat(req[t].user)
    /\ Continue(t, [req[t] EXCEPT !.pc = "find", !.user = None])
    /\ UNCHANGED <<users, messages>>

EndCreate(t) ==
    /\ req[t].pc = "find" /\ req[t].todo = {}
    /\ Finish(t)
    /\ UNCHANGED <<users, chats, messages>>

\* Devise's own sign-up: a user without role or chat.
Register(u) ==
    /\ "register" \in load.handlers /\ u \in UNION load.lists
    /\ users[u].st = "new"
    /\ users' = [users EXCEPT ![u].st = "live"]
    /\ UNCHANGED <<chats, messages, req>>

-----------------------------------------------------------------------------
(***************************************************************************)
(* User#destroy: one transaction that reads, at its snapshot, the user's   *)
(* first chat and that chat's messages, and deletes user, roles, chat and  *)
(* messages.  Without a chat, after_destroy calls destroy on nil and the   *)
(* transaction is rolled back.                                             *)
(***************************************************************************)
BeginDestroy(t, u) ==
    /\ Starts(t, "destroy_user")
    /\ LiveUser(u)
    /\ \E a \in Users \ {u} : LiveUser(a) /\ Can(users[a].role, "User")
    /\ Continue(t, [NoRequest EXCEPT !.pc = "load", !.user = u])
    /\ UNCHANGED <<users, chats, messages>>

FirstChat(u) == FirstOf({c \in LiveChats : chats[c].sender = u})

LoadDependents(t) ==
    LET u == req[t].user IN
    /\ req[t].pc = "load"
    /\ IF ~LiveUser(u) \/ FirstChat(u) = {}
       THEN Finish(t)
       ELSE \E c \in FirstChat(u) :
               Continue(t, [req[t] EXCEPT !.pc = "commit", !.chat = c, !.rows = MessagesOf(c)])
    /\ UNCHANGED <<users, chats, messages>>

DeleteMessages(rows) ==
    messages' = [m \in MessageIds |->
        IF m \in rows THEN [messages[m] EXCEPT !.st = "gone"] ELSE messages[m]]

\* after_destroy that leaves the chat behind.
KeepChat(t) == UNCHANGED <<chats, messages>>

DropChat(t) ==
    /\ chats' = [chats EXCEPT ![req[t].chat].st = "gone"]
    /\ DeleteMessages(req[t].rows)

\* The same steps serve ChatsController#destroy, which has no user.
CommitDestroy(t) ==
    /\ req[t].pc = "commit"
    /\ users' = IF req[t].user = None THEN users
                ELSE [users EXCEPT ![req[t].user] = [st |-> "gone", role |-> "none"]]
    /\ DropChat(t)
    /\ Finish(t)

AccountsStep(t) ==
    \/ \E u \in Users : FindAccount(t, u)
    \/ SaveUser(t) \/ AddRole(t) \/ CreateChat(t) \/ EndCreate(t)
    \/ LoadDependents(t) \/ CommitDestroy(t)

AccountsNext ==
    \/ \E t \in Threads :
          \/ \E role \in {"user", "staff"}, list \in load.lists : BeginCreate(t, role, list)
          \/ \E list \in load.lists : BeginImport(t, list)
          \/ \E u \in Users : BeginDestroy(t, u)
          \/ AccountsStep(t)
    \/ \E u \in Users : Register(u)

AccountsInit ==
    /\ users = [u \in Users |-> IF u = Admin THEN [st |-> "live", role |-> "admin"] ELSE NoUser]
    /\ chats = [c \in ChatIds |-> NoChat]
    /\ messages = [m \in MessageIds |-> NoMessage]
    /\ req = [t \in Threads |-> NoRequest]
    /\ load \in Loads
=============================================================================
