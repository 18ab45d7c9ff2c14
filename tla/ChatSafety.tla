----------------------------- MODULE ChatSafety -----------------------------
(***************************************************************************)
(* Proofs about Chat, for any users, threads, workers, loads and bounds:   *)
(* its state is well typed and, while nobody uses the generated chat       *)
(* pages, chats have living senders, answers are stored where they were    *)
(* typed, and customers are sent nothing but their own chat.               *)
(***************************************************************************)
EXTENDS Chat, TLAPS

\* Row ids that were given out.
Chatted(c) == chats[c].st # "new"
Posted(m) == messages[m].st # "new"

\* The sender of the chat of a message.
SenderOf(m) == chats[messages[m].chat].sender

\* A request that queues a job has its message, a worker at work its job.
RefsTyped ==
    /\ \A t \in Threads : req[t].pc = "enqueue" => req[t].row \in MessageIds
    /\ \A w \in Workers : work[w].pc # "idle" => work[w].job \in Job

Typed == TypeOK /\ RefsTyped /\ load \in Load

\* An account has no role before it is saved.
NewUsersPlain == \A u \in Users : users[u].st = "new" => users[u].role = "none"

\* Chats belong to customers, one each, who live as long as their chat.
ChatsOwned ==
    /\ \A c \in ChatIds : Chatted(c) =>
          /\ chats[c].sender \in Users /\ ~IsStaff(chats[c].sender)
          /\ users[chats[c].sender].st # "new"
          /\ chats[c].st = "live" => LiveUser(chats[c].sender)
    /\ \A c, d \in ChatIds : Chatted(c) /\ Chatted(d) /\ c # d =>
          chats[c].sender # chats[d].sender

\* A request about to add a role or a chat is the only one with that account.
AccountOwned(t) ==
    req[t].pc \in {"role", "chat"} =>
        /\ LiveUser(req[t].user)
        /\ req[t].pc = "role" => users[req[t].user].role = "none"
        /\ ~IsStaff(req[t].user)
        /\ \A c \in ChatIds : Chatted(c) => chats[c].sender # req[t].user
        /\ \A x \in Threads \ {t} :
              req[x].pc \in {"role", "chat"} => req[x].user # req[t].user

\* What the locals of the other requests refer to.
LocalsRefer(t) ==
    /\ req[t].pc \in {"save", "load"} => req[t].user \in Users
    /\ req[t].pc = "commit" =>
          /\ req[t].user \in Users /\ req[t].chat \in ChatIds
          /\ Chatted(req[t].chat) /\ chats[req[t].chat].sender = req[t].user
          /\ \A m \in req[t].rows : Posted(m)
    /\ req[t].pc = "insert" =>
          /\ req[t].user \in Users /\ req[t].chat \in ChatIds
          /\ Chatted(req[t].chat) /\ chats[req[t].chat].sender = req[t].window
          /\ IsStaff(req[t].user) \/ req[t].user = req[t].window
    /\ req[t].pc = "enqueue" => Posted(req[t].row)

\* A message is in the chat it was typed into, by staff or by the sender.
MessagesPlaced ==
    \A m \in MessageIds : Posted(m) =>
        /\ messages[m].user \in Users /\ messages[m].chat \in ChatIds
        /\ Chatted(messages[m].chat) /\ SenderOf(m) = messages[m].window
        /\ IsStaff(messages[m].user) \/ messages[m].user = messages[m].window

JobsRefer ==
    /\ \A i \in DOMAIN queue : Posted(queue[i].message)
    /\ \A job \in retry : Posted(job.message)
    /\ \A w \in Workers : work[w].pc # "idle" =>
          /\ Posted(work[w].job.message)
          /\ \A u \in work[w].todo : IsStaff(u) \/ u = SenderOf(work[w].job.message)

PagesOwn ==
    \A u \in Users : \A i \in DOMAIN pushed[u] :
        Posted(pushed[u][i]) /\ (IsStaff(u) \/ u = SenderOf(pushed[u][i]))

Tables == NewUsersPlain /\ ChatsOwned /\ MessagesPlaced

Requests == \A t \in Threads : AccountOwned(t) /\ LocalsRefer(t)

(***************************************************************************)
(* The inductive invariant: types and, without the generated pages, what   *)
(* the rows, the locals, the jobs and the pages refer to.                  *)
(***************************************************************************)
Sound == Tables /\ Requests /\ JobsRefer /\ PagesOwn

ChatInv == Typed /\ (Without(GeneratedPages) => Sound)

-----------------------------------------------------------------------------
(***************************************************************************)
(* Types.                                                                  *)
(***************************************************************************)
LEMMA DefaultTypes ==
  /\ NoRequest \in Request /\ NoWork \in Work /\ NoChat \in ChatRow /\ NoMessage \in MessageRow
  /\ NoUser \in UserRow
  BY AccountsAssumption, Zenon
     DEF NoRequest, Request, Roles, NoWork, Work, NoChat, ChatRow, NoMessage,
     MessageRow, NoUser, UserRow

\* The first state is well typed.
LEMMA InitType == Init => TypeOK /\ load \in Load
  <1> SUFFICES ASSUME Init PROVE TypeOK /\ load \in Load
    OBVIOUS
  <1>1. load \in Load
    BY ChatAssumption DEF Init, AccountsInit
  <1>2. users \in [Users -> UserRow]
    BY DEF Init, AccountsInit, NoUser, UserRow, Roles
  <1>3. chats \in [ChatIds -> ChatRow] /\ messages \in [MessageIds -> MessageRow]
        /\ req \in [Threads -> Request] /\ work \in [Workers -> Work]
    BY DefaultTypes DEF Init, AccountsInit
  <1>4. queue \in Seq(Job) /\ retry \subseteq Job /\ streams \subseteq Users
        /\ pushed \in [Users -> Seq(MessageIds)]
    BY DEF Init
  <1>5. faults \in [failures : 0..load.failures, crashes : 0..load.crashes]
    BY <1>1 DEF Init, Load
  <1>6. QED
    BY <1>1, <1>2, <1>3, <1>4, <1>5 DEF TypeOK

\* Account requests keep the tables and their locals typed.
LEMMA AccountsType ==
  ASSUME TypeOK, load \in Load, AccountsNext
  PROVE  /\ users' \in [Users -> UserRow] /\ chats' \in [ChatIds -> ChatRow]
         /\ messages' \in [MessageIds -> MessageRow] /\ req' \in [Threads -> Request]
  <1> DEFINE Types == /\ users' \in [Users -> UserRow] /\ chats' \in [ChatIds -> ChatRow]
                      /\ messages' \in [MessageIds -> MessageRow]
                      /\ req' \in [Threads -> Request]
  <1>0. /\ users \in [Users -> UserRow] /\ chats \in [ChatIds -> ChatRow]
        /\ messages \in [MessageIds -> MessageRow] /\ req \in [Threads -> Request]
        /\ UNION load.lists \subseteq Users
        /\ NoRequest \in Request
    BY DefaultTypes, Zenon DEF TypeOK, Load
  <1>1. ASSUME NEW t \in Threads, NEW r \in Request, Continue(t, r)
        PROVE  req' \in [Threads -> Request]
    BY <1>0, <1>1 DEF Continue
  <1>2. ASSUME NEW t \in Threads, NEW role \in {"user", "staff"}, NEW list \in load.lists,
               BeginCreate(t, role, list) \/ BeginImport(t, list)
        PROVE  Types
    <2>1. /\ [NoRequest EXCEPT !.pc = "find", !.role = role, !.chatty = TRUE, !.todo = list] \in Request
          /\ [NoRequest EXCEPT !.pc = "find", !.role = "user", !.todo = list] \in Request
      BY <1>0, Zenon DEF Request, Roles
    <2>2. QED
      BY <1>0, <1>1, <1>2, <2>1, Zenon DEF BeginCreate, BeginImport
  <1>3. ASSUME NEW t \in Threads, NEW u \in Users, BeginDestroy(t, u)
        PROVE  Types
    <2>1. [NoRequest EXCEPT !.pc = "load", !.user = u] \in Request
      BY <1>0, Zenon DEF Request
    <2>2. QED
      BY <1>0, <1>1, <1>3, <2>1 DEF BeginDestroy
  <1>4. ASSUME NEW t \in Threads, NEW u \in Users, FindAccount(t, u)
        PROVE  Types
    <2>1. /\ [req[t] EXCEPT !.todo = @ \ {u}] \in Request
          /\ [req[t] EXCEPT !.todo = @ \ {u}, !.user = u, !.pc = "save"] \in Request
      BY <1>0, Zenon DEF Request
    <2>2. QED
      BY <1>0, <1>1, <1>4, <2>1 DEF FindAccount
  <1>5. ASSUME NEW t \in Threads, SaveUser(t)
        PROVE  Types
    <2>1. /\ [req[t] EXCEPT !.pc = "role"] \in Request
          /\ [req[t] EXCEPT !.pc = "find", !.user = None] \in Request
      BY <1>0, Zenon DEF Request
    <2>2. users' \in [Users -> UserRow]
      BY <1>0, <1>5 DEF SaveUser, UserRow
    <2>3. QED
      BY <1>0, <1>1, <1>5, <2>1, <2>2, Zenon DEF SaveUser, Finish
  <1>6. ASSUME NEW t \in Threads, AddRole(t)
        PROVE  Types
    <2>1. /\ [req[t] EXCEPT !.pc = "chat"] \in Request
          /\ [req[t] EXCEPT !.pc = "find", !.user = None] \in Request
      BY <1>0, Zenon DEF Request
    <2>2. users' \in [Users -> UserRow]
      <3>1. CASE req[t].user \in Users
        <4>1. PICK role \in Roles : users' = [users EXCEPT ![req[t].user].role = role]
          BY <1>0, <1>6, <3>1, Zenon DEF AddRole, UserRow, Request
        <4>2. QED
          BY <1>0, <4>1, Zenon DEF UserRow
      <3>2. CASE req[t].user \notin Users
        BY <1>0, <1>6, <3>2, Zenon DEF AddRole
      <3>3. QED
        BY <3>1, <3>2
    <2>3. QED
      BY <1>0, <1>1, <1>6, <2>1, <2>2, Zenon DEF AddRole
  <1>7. ASSUME NEW t \in Threads, CreateChat(t)
        PROVE  Types
    <2>1. [req[t] EXCEPT !.pc = "find", !.user = None] \in Request
      BY <1>0, Zenon DEF Request
    <2>2. req[t].user \in Users \cup {None}
      BY <1>0 DEF Request
    <2>3. chats' \in [ChatIds -> ChatRow]
      <3>1. PICK c \in ChatIds : chats' = [chats EXCEPT ![c] = [st |-> "live", sender |-> req[t].user]]
        BY <1>7, Zenon DEF CreateChat, InsertChat, FirstOf
      <3>2. QED
        BY <1>0, <2>2, <3>1 DEF ChatRow
    <2>4. QED
      BY <1>0, <1>1, <1>7, <2>1, <2>3 DEF CreateChat
  <1>8. ASSUME NEW t \in Threads, EndCreate(t)
        PROVE  Types
    BY <1>0, <1>1, <1>8 DEF EndCreate, Finish
  <1>9. ASSUME NEW u \in Users, Register(u)
        PROVE  Types
    BY <1>0, <1>9 DEF Register, UserRow
  <1>10. ASSUME NEW t \in Threads, LoadDependents(t)
         PROVE  Types
    <2>1. \A c \in ChatIds :
             [req[t] EXCEPT !.pc = "commit", !.chat = c, !.rows = MessagesOf(c)] \in Request
      BY <1>0, Zenon DEF Request, MessagesOf, LiveMessages
    <2>2. FirstChat(req[t].user) \subseteq ChatIds
      BY DEF FirstChat, FirstOf, LiveChats
    <2>3. QED
      BY <1>0, <1>1, <1>10, <2>1, <2>2, Zenon DEF LoadDependents, Finish
  <1>11. ASSUME NEW t \in Threads, CommitDestroy(t)
         PROVE  Types
    <2>1. users' \in [Users -> UserRow]
      BY <1>0, <1>11, Zenon DEF CommitDestroy, UserRow, Roles
    <2>2. chats' \in [ChatIds -> ChatRow]
      <3>1. PICK c : chats' = [chats EXCEPT ![c].st = "gone"]
        BY <1>11, Zenon DEF CommitDestroy, DropChat
      <3>2. CASE c \in ChatIds
        BY <1>0, <3>1, <3>2 DEF ChatRow
      <3>3. CASE c \notin ChatIds
        BY <1>0, <3>1, <3>3, Zenon
      <3>4. QED
        BY <3>2, <3>3
    <2>3. messages' \in [MessageIds -> MessageRow]
      <3>1. PICK S : messages' = [m \in MessageIds |->
                        IF m \in S THEN [messages[m] EXCEPT !.st = "gone"] ELSE messages[m]]
        BY <1>11, Zenon DEF CommitDestroy, DropChat, DeleteMessages
      <3>2. QED
        BY <1>0, <3>1 DEF MessageRow
    <2>4. QED
      BY <1>0, <1>1, <1>11, <2>1, <2>2, <2>3, Zenon DEF CommitDestroy, Finish
  <1> HIDE DEF Types
  <1>12. Types
    BY <1>2, <1>3, <1>4, <1>5, <1>6, <1>7, <1>8, <1>9, <1>10, <1>11, AccountsNext, Zenon
       DEF AccountsNext, AccountsStep
  <1>13. QED
    BY <1>12 DEF Types

\* Posting a message does.
LEMMA PostsType ==
  ASSUME TypeOK, RefsTyped, load' = load, NEW t \in Threads,
         \/ \E u \in Users, w \in ChatIds : BeginPost(t, u, w)
         \/ InsertMessage(t) \/ Enqueue(t)
         \/ \E c \in ChatIds : ChatsDestroy(t, c)
  PROVE  TypeOK'
  <1> USE DEF rows, jobs, pages
  <1>0. /\ messages \in [MessageIds -> MessageRow] /\ req \in [Threads -> Request]
        /\ chats \in [ChatIds -> ChatRow] /\ queue \in Seq(Job) /\ req[t] \in Request
        /\ NoRequest \in Request
    BY DefaultTypes DEF TypeOK
  <1>1. ASSUME NEW r \in Request, Continue(t, r)
        PROVE  req' \in [Threads -> Request]
    BY <1>0, <1>1 DEF Continue
  <1>2. ASSUME NEW u \in Users, NEW w \in ChatIds, BeginPost(t, u, w)
        PROVE  TypeOK'
    <2>1. chats[w].sender \in Users \cup {None}
      BY <1>0 DEF ChatRow
    <2>2. PICK c \in ChatIds : Continue(t, [NoRequest EXCEPT !.pc = "insert", !.user = u,
                                              !.window = chats[w].sender, !.chat = c])
      BY <1>2, Zenon DEF BeginPost, ChatFor, FirstOf, LiveChats
    <2>3. [NoRequest EXCEPT !.pc = "insert", !.user = u,
                            !.window = chats[w].sender, !.chat = c] \in Request
      BY <1>0, <2>1, Zenon DEF Request
    <2>4. req' \in [Threads -> Request]
      BY <1>1, <2>2, <2>3
    <2>5. UNCHANGED <<rows, jobs, pages, faults>>
      BY <1>2, Zenon DEF BeginPost
    <2>6. QED
      BY <2>4, <2>5, Zenon DEF TypeOK
  <1>3. CASE InsertMessage(t)
    <2>1. PICK m \in MessageIds :
             /\ messages' = [messages EXCEPT ![m] =
                   [st |-> "live", chat |-> req[t].chat, user |-> req[t].user,
                    window |-> req[t].window]]
             /\ Continue(t, [req[t] EXCEPT !.pc = "enqueue", !.row = m])
      BY <1>3, Zenon DEF InsertMessage, FirstOf
    <2>2. /\ [st |-> "live", chat |-> req[t].chat, user |-> req[t].user,
              window |-> req[t].window] \in MessageRow
          /\ [req[t] EXCEPT !.pc = "enqueue", !.row = m] \in Request
      BY <1>0, Zenon DEF Request, MessageRow
    <2>3. messages' \in [MessageIds -> MessageRow] /\ req' \in [Threads -> Request]
      BY <1>0, <1>1, <2>1, <2>2, Zenon
    <2>4. UNCHANGED <<users, chats, jobs, pages, faults>>
      BY <1>3, Zenon DEF InsertMessage
    <2>5. QED
      BY <2>3, <2>4, Zenon DEF TypeOK
  <1>4. CASE Enqueue(t)
    <2>1. req' \in [Threads -> Request]
      BY <1>0, <1>1, <1>4, Zenon DEF Enqueue, Finish
    <2>2. UNCHANGED <<rows, retry, work, pages, faults>>
      BY <1>4, Zenon DEF Enqueue
    <2>3. [message |-> req[t].row, tries |-> 0] \in Job
      BY <1>4, ChatAssumption DEF Enqueue, RefsTyped, Job
    <2>4. queue' \in Seq(Job)
      BY <1>0, <1>4, <2>3 DEF Enqueue
    <2>5. QED
      BY <2>1, <2>2, <2>4, Zenon DEF TypeOK
  <1>5. ASSUME NEW c \in ChatIds, ChatsDestroy(t, c)
        PROVE  TypeOK'
    <2>1. [NoRequest EXCEPT !.pc = "commit", !.chat = c, !.rows = MessagesOf(c)] \in Request
      BY <1>0, Zenon DEF Request, MessagesOf, LiveMessages
    <2>2. req' \in [Threads -> Request]
      BY <1>1, <1>5, <2>1, Zenon DEF ChatsDestroy
    <2>3. UNCHANGED <<rows, jobs, pages, faults>>
      BY <1>5, Zenon DEF ChatsDestroy
    <2>4. QED
      BY <2>2, <2>3, Zenon DEF TypeOK
  <1>6. QED
    BY <1>2, <1>3, <1>4, <1>5

\* A page is sent messages.
LEMMA BroadcastType ==
  ASSUME TypeOK, NEW u, NEW m \in MessageIds, Broadcast(u, m)
  PROVE  pushed' \in [Users -> Seq(MessageIds)]
  <1>0. pushed \in [Users -> Seq(MessageIds)] /\ streams \subseteq Users
    BY DEF TypeOK
  <1>1. CASE u \in streams
    <2>1. Append(pushed[u], m) \in Seq(MessageIds)
      BY <1>0, <1>1
    <2>2. pushed' = [pushed EXCEPT ![u] = Append(pushed[u], m)]
      BY <1>1 DEF Broadcast
    <2>3. QED
      BY <1>0, <2>1, <2>2, Zenon
  <1>2. CASE u \notin streams
    BY <1>0, <1>2 DEF Broadcast
  <1>3. QED
    BY <1>1, <1>2

\* A job that failed is queued for a retry.
LEMMA FailType ==
  ASSUME TypeOK, RefsTyped, NEW w \in Workers, work[w].pc # "idle", Fail(w)
  PROVE  /\ retry' \subseteq Job /\ work' = [work EXCEPT ![w] = NoWork] /\ queue' = queue
         /\ work' \in [Workers -> Work]
  <1>0. retry \subseteq Job /\ work \in [Workers -> Work] /\ NoWork \in Work
    BY DefaultTypes DEF TypeOK
  <1>1. PICK job : job = work[w].job
    OBVIOUS
  <1>2. job \in Job
    BY <1>1 DEF RefsTyped
  <1>3. job.tries < MaxTries => [job EXCEPT !.tries = job.tries + 1] \in Job
    BY <1>2, ChatAssumption DEF Job
  <1>4. retry' = IF job.tries < MaxTries
                 THEN retry \cup {[job EXCEPT !.tries = job.tries + 1]} ELSE retry
    BY <1>1 DEF Fail
  <1>5. retry' \subseteq Job
    BY <1>0, <1>3, <1>4
  <1>6. QED
    BY <1>0, <1>5, Zenon DEF Fail

\* A message goes to users.
LEMMA RecipientsType ==
  ASSUME NEW m
  PROVE  Recipients(m) \subseteq Users
  BY Zenon DEF Recipients, StaffUsers

\* Workers keep the types.
LEMMA JobsType ==
  ASSUME TypeOK, RefsTyped, load \in Load, load' = load, NEW w \in Workers,
         JobStep(w) \/ BroadcastFails(w)
  PROVE  TypeOK' /\ \A v \in Workers : work'[v].pc # "idle" => work'[v].job \in Job
  <1> USE DEF rows, jobs, pages
  <1>0. /\ work \in [Workers -> Work] /\ work[w] \in Work /\ NoWork \in Work
        /\ queue \in Seq(Job) /\ retry \subseteq Job
        /\ \A v \in Workers : work[v].pc # "idle" => work[v].job \in Job
    BY DefaultTypes, Zenon DEF TypeOK, RefsTyped
  <1>1. CASE Fetch(w)
    <2>1. Head(queue) \in Job /\ Tail(queue) \in Seq(Job)
      BY <1>0, <1>1 DEF Fetch
    <2>2. PICK job \in Job : job = Head(queue)
      BY <2>1
    <2>3. [NoWork EXCEPT !.pc = "load", !.job = job] \in Work
      BY <1>0, Zenon DEF Work
    <2>4. work' \in [Workers -> Work] /\ queue' \in Seq(Job)
      BY <1>0, <1>1, <2>1, <2>2, <2>3 DEF Fetch
    <2>5. \A v \in Workers : work'[v].pc # "idle" => work'[v].job \in Job
      BY <1>0, <1>1, <2>2 DEF Fetch, NoWork
    <2>6. QED
      BY <1>1, <2>4, <2>5, Zenon DEF Fetch, TypeOK
  <1>2. ASSUME work[w].pc # "idle", Fail(w)
        PROVE  /\ retry' \subseteq Job /\ queue' = queue /\ work' \in [Workers -> Work]
               /\ \A v \in Workers : work'[v].pc # "idle" => work'[v].job \in Job
    <2>1. retry' \subseteq Job /\ queue' = queue /\ work' \in [Workers -> Work]
          /\ work' = [work EXCEPT ![w] = NoWork]
      BY <1>2, FailType
    <2>2. QED
      BY <1>0, <2>1, Zenon DEF NoWork
  <1>3. CASE LoadJob(w)
    <2>1. CASE Fail(w)
      BY <1>2, <1>3, <2>1, Zenon DEF LoadJob, TypeOK
    <2>2. CASE ~Fail(w)
      <3>1. PICK todo, seen : /\ todo = Recipients(work[w].job.message)
                              /\ seen = IsStaff(messages[work[w].job.message].user)
        BY Zenon
      <3>2. /\ work' = [work EXCEPT ![w].pc = "sender", ![w].todo = todo, ![w].seen = seen]
            /\ UNCHANGED <<queue, retry>> /\ work[w].pc = "load"
        BY <1>3, <2>2, <3>1, Zenon DEF LoadJob
      <3>3. todo \subseteq Users /\ seen \in BOOLEAN
        BY <3>1, RecipientsType DEF IsStaff
      <3>4. work' \in [Workers -> Work]
        BY <1>0, <3>2, <3>3, Zenon DEF Work
      <3>5. \A v \in Workers : work'[v].pc # "idle" => work'[v].job \in Job
        BY <1>0, <3>2, Zenon DEF Work
      <3>6. QED
        BY <1>3, <3>2, <3>4, <3>5, Zenon DEF LoadJob, TypeOK
    <2>3. QED
      BY <2>1, <2>2
  <1>4. CASE PushSender(w)
    <2>1. work[w].pc = "sender" /\ work[w].job.message \in MessageIds
      BY <1>0, <1>4, Zenon DEF PushSender, Job
    <2>2. PICK m, u : m \in MessageIds /\ m = work[w].job.message /\ u = messages[m].user
      BY <2>1
    <2>3. pushed' \in [Users -> Seq(MessageIds)]
      BY <1>4, <2>2, BroadcastType, Zenon DEF PushSender
    <2>4. work' = [work EXCEPT ![w].pc = "recipients"]
      BY <1>4, Zenon DEF PushSender
    <2>5. work' \in [Workers -> Work] /\ \A v \in Workers : work'[v].pc # "idle" => work'[v].job \in Job
      BY <1>0, <2>1, <2>4, Zenon DEF Work
    <2>6. QED
      BY <1>4, <2>3, <2>5, Zenon DEF PushSender, TypeOK
  <1>5. ASSUME NEW u \in Users, PushRecipient(w, u)
        PROVE  TypeOK' /\ \A v \in Workers : work'[v].pc # "idle" => work'[v].job \in Job
    <2>1. work[w].pc = "recipients" /\ work[w].job.message \in MessageIds
      BY <1>0, <1>5, Zenon DEF PushRecipient, Job
    <2>2. CASE Fail(w) /\ UNCHANGED pushed
      BY <1>2, <1>5, <2>1, <2>2, Zenon DEF PushRecipient, TypeOK
    <2>3. CASE ~(Fail(w) /\ UNCHANGED pushed)
      <3>1. PICK m \in MessageIds : m = work[w].job.message
        BY <2>1
      <3>2. /\ Broadcast(u, m) /\ UNCHANGED <<queue, retry>>
            /\ work' = [work EXCEPT ![w].todo = work[w].todo \ {u}, ![w].seen = TRUE]
        BY <1>5, <2>3, <3>1, Zenon DEF PushRecipient
      <3>3. pushed' \in [Users -> Seq(MessageIds)]
        BY <3>2, BroadcastType
      <3>4. work' \in [Workers -> Work] /\ \A v \in Workers : work'[v].pc # "idle" => work'[v].job \in Job
        BY <1>0, <2>1, <3>2, Zenon DEF Work
      <3>5. QED
        BY <1>5, <3>2, <3>3, <3>4, Zenon DEF PushRecipient, TypeOK
    <2>4. QED
      BY <2>2, <2>3
  <1>6. CASE EndJob(w)
    <2>1. work' \in [Workers -> Work] /\ \A v \in Workers : work'[v].pc # "idle" => work'[v].job \in Job
      BY <1>0, <1>6, Zenon DEF EndJob, NoWork
    <2>2. QED
      BY <1>6, <2>1, Zenon DEF EndJob, TypeOK
  <1>7. CASE BroadcastFails(w)
    <2>1. work[w].pc # "idle" /\ Fail(w)
      BY <1>7 DEF BroadcastFails
    <2>2. faults' \in [failures : 0..load.failures, crashes : 0..load.crashes]
      <3>1. faults \in [failures : 0..load.failures, crashes : 0..load.crashes]
        BY DEF TypeOK
      <3>2. load.failures \in Nat /\ load.crashes \in Nat
        BY DEF Load
      <3>3. QED
        BY <1>7, <3>1, <3>2 DEF BroadcastFails
    <2>3. QED
      BY <1>2, <1>7, <2>1, <2>2, Zenon DEF BroadcastFails, TypeOK
  <1>8. QED
    BY <1>1, <1>3, <1>4, <1>5, <1>6, <1>7, Zenon DEF JobStep

\* No request of UsersController queues a job.
LEMMA AccountsQueueNothing ==
  ASSUME TypeOK, AccountsNext, NEW x \in Threads
  PROVE  req'[x] = req[x] \/ req'[x].pc # "enqueue"
  <1> DEFINE Quiet == req'[x] = req[x] \/ req'[x].pc # "enqueue"
  <1>0. req \in [Threads -> Request] /\ NoRequest \in Request
    BY DefaultTypes DEF TypeOK
  <1>1. ASSUME NEW t \in Threads, NEW r, Continue(t, r), r.pc # "enqueue"
        PROVE  Quiet
    BY <1>0, <1>1 DEF Continue
  <1>2. NoRequest.pc # "enqueue"
    BY DEF NoRequest
  <1> HIDE DEF Quiet
  <1>3. ASSUME NEW t \in Threads, NEW role, NEW list, BeginCreate(t, role, list) \/ BeginImport(t, list)
        PROVE  Quiet
    <2>1. PICK r : Continue(t, r) /\ r.pc = "find"
      <3>1. /\ [NoRequest EXCEPT !.pc = "find", !.role = role, !.chatty = TRUE, !.todo = list].pc = "find"
            /\ [NoRequest EXCEPT !.pc = "find", !.role = "user", !.todo = list].pc = "find"
        BY <1>0 DEF Request
      <3>2. QED
        BY <1>3, <3>1, Zenon DEF BeginCreate, BeginImport
    <2>2. QED
      BY <1>1, <2>1
  <1>4. ASSUME NEW t \in Threads, NEW u, BeginDestroy(t, u)
        PROVE  Quiet
    <2>1. [NoRequest EXCEPT !.pc = "load", !.user = u].pc = "load"
      BY <1>0 DEF Request
    <2>2. QED
      BY <1>1, <1>4, <2>1, Zenon DEF BeginDestroy
  <1>5. ASSUME NEW t \in Threads, NEW u, FindAccount(t, u)
        PROVE  Quiet
    <2>1. PICK r : Continue(t, r) /\ r.pc \in {"find", "save"}
      <3>1. /\ [req[t] EXCEPT !.todo = @ \ {u}].pc = req[t].pc
            /\ [req[t] EXCEPT !.todo = @ \ {u}, !.user = u, !.pc = "save"].pc = "save"
        BY <1>0 DEF Request
      <3>2. QED
        BY <1>5, <3>1, Zenon DEF FindAccount
    <2>2. QED
      BY <1>1, <2>1
  <1>6. ASSUME NEW t \in Threads, SaveUser(t) \/ AddRole(t) \/ CreateChat(t) \/ EndCreate(t)
        PROVE  Quiet
    <2>1. /\ [req[t] EXCEPT !.pc = "role"].pc = "role" /\ [req[t] EXCEPT !.pc = "chat"].pc = "chat"
          /\ [req[t] EXCEPT !.pc = "find", !.user = None].pc = "find"
      BY <1>0 DEF Request
    <2>2. PICK r : Continue(t, r) /\ r.pc # "enqueue"
      BY <1>2, <1>6, <2>1, Zenon DEF SaveUser, AddRole, CreateChat, EndCreate, Finish
    <2>3. QED
      BY <1>1, <2>2
  <1>7. ASSUME NEW t \in Threads, LoadDependents(t) \/ CommitDestroy(t)
        PROVE  Quiet
    <2>1. \A c : [req[t] EXCEPT !.pc = "commit", !.chat = c, !.rows = MessagesOf(c)].pc = "commit"
      BY <1>0 DEF Request
    <2>2. PICK r : Continue(t, r) /\ r.pc # "enqueue"
      BY <1>2, <1>7, <2>1, Zenon DEF LoadDependents, CommitDestroy, Finish
    <2>3. QED
      BY <1>1, <2>2
  <1>8. ASSUME NEW u, Register(u)
        PROVE  Quiet
    BY <1>8 DEF Register, Quiet
  <1>9. Quiet
    BY <1>3, <1>4, <1>5, <1>6, <1>7, <1>8, Zenon DEF AccountsNext, AccountsStep
  <1>10. QED
    BY <1>9 DEF Quiet

\* A request that queues a job has stored its message.
LEMMA RequestRefs ==
  ASSUME TypeOK, RefsTyped, [Next]_vars, NEW x \in Threads, req'[x].pc = "enqueue"
  PROVE  req'[x].row \in MessageIds
  <1> USE DEF rows, jobs, pages
  <1>0. /\ req \in [Threads -> Request] /\ NoRequest \in Request /\ NoRequest.pc = "idle"
        /\ req[x].pc = "enqueue" => req[x].row \in MessageIds
    BY DefaultTypes, Zenon DEF TypeOK, RefsTyped, NoRequest
  <1>1. CASE AccountsNext
    BY <1>0, <1>1, AccountsQueueNothing
  <1>2. ASSUME NEW t \in Threads, InsertMessage(t)
        PROVE  req'[x].row \in MessageIds
    <2>1. PICK m \in MessageIds : req' = [req EXCEPT ![t] = [req[t] EXCEPT !.pc = "enqueue", !.row = m]]
      BY <1>2, Zenon DEF InsertMessage, FirstOf, Continue
    <2>2. QED
      BY <1>0, <2>1 DEF Request
  <1>3. ASSUME NEW t \in Threads, NEW u, NEW w, BeginPost(t, u, w)
        PROVE  req'[x].row \in MessageIds
    <2>1. PICK c, s : req' = [req EXCEPT ![t] = [NoRequest EXCEPT !.pc = "insert", !.user = u,
                                                                    !.window = s, !.chat = c]]
      BY <1>3, Zenon DEF BeginPost, Continue
    <2>2. QED
      BY <1>0, <2>1 DEF Request
  <1>4. ASSUME NEW t \in Threads, NEW c, ChatsDestroy(t, c)
        PROVE  req'[x].row \in MessageIds
    BY <1>0, <1>4 DEF ChatsDestroy, Continue, Request
  <1>5. ASSUME NEW t \in Threads, Enqueue(t)
        PROVE  req'[x].row \in MessageIds
    BY <1>0, <1>5, Zenon DEF Enqueue, Continue, Finish
  <1>6. CASE Crash
    BY <1>0, <1>6 DEF Crash
  <1>7. CASE UNCHANGED req
    BY <1>0, <1>7
  <1>8. ASSUME NEW w \in Workers, JobStep(w) \/ BroadcastFails(w)
        PROVE  UNCHANGED req
    BY <1>8, Zenon DEF JobStep, Fetch, LoadJob, PushSender, PushRecipient, EndJob, BroadcastFails
  <1>9. ASSUME NEW u, ChatsCreate(u) \/ OpenPage(u) \/ ClosePage(u) \/ \E c \in ChatIds : ChatsUpdate(c, u)
        PROVE  UNCHANGED req
    BY <1>9, Zenon DEF ChatsCreate, OpenPage, ClosePage, ChatsUpdate
  <1>10. QED
    BY <1>1, <1>2, <1>3, <1>4, <1>5, <1>6, <1>7, <1>8, <1>9, Zenon DEF Next, vars, RetryDue

\* Every step keeps the types.
LEMMA NextTyped == Typed /\ [Next]_vars => Typed'
  <1> SUFFICES ASSUME Typed, [Next]_vars PROVE Typed'
    OBVIOUS
  <1> USE DEF rows, jobs, pages
  <1> DEFINE WorkRefs == \A w \in Workers : work[w].pc # "idle" => work[w].job \in Job
  <1>0. TypeOK /\ RefsTyped /\ load \in Load /\ load' = load
    BY Zenon DEF Typed, Next, vars
  <1>1. \A t \in Threads : req'[t].pc = "enqueue" => req'[t].row \in MessageIds
    BY <1>0, RequestRefs
  <1>2. WorkRefs
    BY <1>0 DEF RefsTyped
  <1>3. CASE AccountsNext /\ UNCHANGED <<jobs, pages, faults>>
    <2>1. TypeOK'
      BY <1>0, <1>3, AccountsType, Zenon DEF TypeOK
    <2>2. QED
      BY <1>0, <1>1, <1>2, <1>3, <2>1, Zenon DEF Typed, RefsTyped
  <1>4. ASSUME NEW t \in Threads,
               \/ \E u \in Users, w \in ChatIds : BeginPost(t, u, w)
               \/ InsertMessage(t) \/ Enqueue(t)
               \/ \E c \in ChatIds : ChatsDestroy(t, c)
        PROVE  Typed'
    <2>1. TypeOK'
      BY <1>0, <1>4, PostsType
    <2>2. UNCHANGED work
      BY <1>4, Zenon DEF BeginPost, InsertMessage, Enqueue, ChatsDestroy
    <2>3. QED
      BY <1>0, <1>1, <1>2, <2>1, <2>2, Zenon DEF Typed, RefsTyped
  <1>5. ASSUME NEW u \in Users, ChatsCreate(u) \/ \E c \in ChatIds : ChatsUpdate(c, u)
        PROVE  Typed'
    <2>0. chats \in [ChatIds -> ChatRow]
      BY <1>0 DEF TypeOK
    <2>1. chats' \in [ChatIds -> ChatRow]
      <3>1. CASE ChatsCreate(u)
        <4>1. PICK c \in ChatIds : chats' = [chats EXCEPT ![c] = [st |-> "live", sender |-> u]]
          BY <3>1, Zenon DEF ChatsCreate, InsertChat, FirstOf
        <4>2. QED
          BY <2>0, <4>1 DEF ChatRow
      <3>2. ASSUME NEW c \in ChatIds, ChatsUpdate(c, u)
            PROVE  chats' \in [ChatIds -> ChatRow]
        BY <2>0, <3>2 DEF ChatsUpdate, ChatRow
      <3>3. QED
        BY <1>5, <3>1, <3>2
    <2>2. UNCHANGED <<users, messages, req, jobs, pages, faults>>
      BY <1>5 DEF ChatsCreate, ChatsUpdate
    <2>3. TypeOK'
      BY <1>0, <2>1, <2>2, Zenon DEF TypeOK
    <2>4. QED
      BY <1>0, <1>1, <1>2, <2>2, <2>3, Zenon DEF Typed, RefsTyped
  <1>6. ASSUME NEW u \in Users, OpenPage(u) \/ ClosePage(u)
        PROVE  Typed'
    <2>1. streams' \subseteq Users /\ pushed' \in [Users -> Seq(MessageIds)]
      <3>1. streams \subseteq Users /\ pushed \in [Users -> Seq(MessageIds)]
        BY <1>0 DEF TypeOK
      <3>2. <<>> \in Seq(MessageIds)
        OBVIOUS
      <3>3. QED
        BY <1>6, <3>1, <3>2, Zenon DEF OpenPage, ClosePage
    <2>2. UNCHANGED <<rows, req, jobs, faults>>
      BY <1>6 DEF OpenPage, ClosePage
    <2>3. TypeOK'
      BY <1>0, <2>1, <2>2, Zenon DEF TypeOK
    <2>4. QED
      BY <1>0, <1>1, <1>2, <2>2, <2>3, Zenon DEF Typed, RefsTyped
  <1>7. ASSUME NEW w \in Workers, JobStep(w) \/ BroadcastFails(w)
        PROVE  Typed'
    BY <1>0, <1>1, <1>7, JobsType, Zenon DEF Typed, RefsTyped
  <1>8. ASSUME NEW job \in retry, RetryDue(job)
        PROVE  Typed'
    <2>1. job \in Job /\ queue \in Seq(Job) /\ retry \subseteq Job
      BY <1>0 DEF TypeOK
    <2>2. queue' \in Seq(Job) /\ retry' \subseteq Job /\ UNCHANGED <<rows, req, work, pages, faults>>
      BY <1>8, <2>1 DEF RetryDue
    <2>3. TypeOK'
      BY <1>0, <2>2, Zenon DEF TypeOK
    <2>4. QED
      BY <1>0, <1>1, <1>2, <2>2, <2>3, Zenon DEF Typed, RefsTyped
  <1>9. CASE Crash
    <2>0. NoRequest \in Request /\ NoWork \in Work /\ NoWork.pc = "idle"
      BY DefaultTypes DEF NoWork
    <2>1. req' \in [Threads -> Request] /\ work' \in [Workers -> Work] /\ streams' \subseteq Users
      BY <1>0, <1>9, <2>0 DEF Crash, TypeOK
    <2>2. faults' \in [failures : 0..load.failures, crashes : 0..load.crashes]
      <3>1. faults \in [failures : 0..load.failures, crashes : 0..load.crashes]
        BY <1>0 DEF TypeOK
      <3>2. load.failures \in Nat /\ load.crashes \in Nat
        BY <1>0 DEF Load
      <3>3. QED
        BY <1>9, <3>1, <3>2 DEF Crash
    <2>3. TypeOK'
      BY <1>0, <1>9, <2>1, <2>2, Zenon DEF Crash, TypeOK
    <2>4. WorkRefs'
      BY <1>2, <1>9, <2>0 DEF Crash
    <2>5. QED
      BY <1>0, <1>1, <2>3, <2>4, Zenon DEF Typed, RefsTyped
  <1>10. CASE UNCHANGED vars
    BY <1>0, <1>10, Zenon DEF vars, Typed, TypeOK, RefsTyped
  <1>11. QED
    BY <1>3, <1>4, <1>5, <1>6, <1>7, <1>8, <1>9, <1>10, Zenon DEF Next

-----------------------------------------------------------------------------
(***************************************************************************)
(* The tables, while nobody uses the generated pages.  Kept is what every  *)
(* step leaves of them: staff stay staff, a row that was inserted stays    *)
(* inserted, a chat keeps its sender and a message its place.              *)
(***************************************************************************)
Kept ==
    /\ \A u \in Users : (IsStaff(u) => IsStaff(u)') /\ (users[u].st # "new" => users'[u].st # "new")
    /\ \A c \in ChatIds : Chatted(c) => Chatted(c)' /\ chats'[c].sender = chats[c].sender
    /\ \A m \in MessageIds : Posted(m) =>
          /\ Posted(m)' /\ messages'[m].chat = messages[m].chat
          /\ messages'[m].user = messages[m].user /\ messages'[m].window = messages[m].window

\* Steps that write no table.
LEMMA TablesSame ==
  ASSUME Tables, UNCHANGED <<users, chats, messages>>
  PROVE  Kept /\ Tables'
  BY Zenon
     DEF Tables, NewUsersPlain, ChatsOwned, MessagesPlaced, Kept, IsStaff, Chatted, Posted, SenderOf,
     LiveUser

\* Messages keep their place when staff, chats and messages are kept.
LEMMA PlacesKept ==
  ASSUME TypeOK, MessagesPlaced, Kept, \A m \in MessageIds : Posted(m)' => Posted(m)
  PROVE  MessagesPlaced'
  <1>1. ASSUME NEW m \in MessageIds, Posted(m)'
        PROVE  /\ messages'[m].user \in Users /\ messages'[m].chat \in ChatIds
               /\ Chatted(messages[m].chat)' /\ messages'[m].chat = messages[m].chat
               /\ chats'[messages[m].chat].sender = messages'[m].window
               /\ IsStaff(messages[m].user)' \/ messages'[m].user = messages'[m].window
               /\ messages'[m].user = messages[m].user
    <2>1. Posted(m)
      BY <1>1
    <2>2. PICK c, u : c = messages[m].chat /\ u = messages[m].user
      OBVIOUS
    <2>3. /\ u \in Users /\ c \in ChatIds /\ Chatted(c) /\ chats[c].sender = messages[m].window
          /\ IsStaff(u) \/ u = messages[m].window
      BY <2>1, <2>2, Zenon DEF MessagesPlaced, SenderOf
    <2>4. /\ messages'[m].chat = c /\ messages'[m].user = u /\ messages'[m].window = messages[m].window
          /\ Chatted(c)' /\ chats'[c].sender = chats[c].sender /\ (IsStaff(u) => IsStaff(u)')
      BY <2>1, <2>2, <2>3, Zenon DEF Kept
    <2>5. QED
      BY <2>2, <2>3, <2>4, Zenon DEF IsStaff, Chatted
  <1>2. QED
    BY <1>1, Zenon DEF MessagesPlaced, SenderOf, Chatted, IsStaff, Posted

\* A saved account has neither role nor chat yet.
LEMMA UserSaved ==
  ASSUME TypeOK, Tables, NEW u \in Users, users[u].st = "new",
         users' = [users EXCEPT ![u].st = "live"], UNCHANGED <<chats, messages>>
  PROVE  Kept /\ Tables'
  <1>0. users \in [Users -> UserRow]
    BY DEF TypeOK
  <1>1. /\ \A v \in Users \ {u} : users'[v] = users[v]
        /\ users'[u].st = "live" /\ users'[u].role = users[u].role
    BY <1>0 DEF UserRow
  <1>2. Kept
    BY <1>1 DEF Kept, IsStaff, Chatted, Posted
  <1>3. NewUsersPlain'
    BY <1>1 DEF Tables, NewUsersPlain
  <1>4. ChatsOwned'
    BY <1>1 DEF Tables, ChatsOwned, Chatted, IsStaff, LiveUser
  <1>5. MessagesPlaced'
    BY <1>2, PlacesKept DEF Tables, Posted
  <1>6. QED
    BY <1>2, <1>3, <1>4, <1>5 DEF Tables

\* add_role, before the account has a chat.
LEMMA RoleAdded ==
  ASSUME TypeOK, Tables, NEW t \in Threads, AccountOwned(t), AddRole(t)
  PROVE  Kept /\ Tables'
  <1>0. users \in [Users -> UserRow] /\ UNCHANGED <<chats, messages>>
    BY Zenon DEF TypeOK, AddRole
  <1>1. PICK u, role : u = req[t].user /\ role = req[t].role
    OBVIOUS
  <1>2. /\ LiveUser(u) /\ u \in Users /\ users[u].role = "none" /\ ~IsStaff(u)
        /\ \A c \in ChatIds : Chatted(c) => chats[c].sender # u
    BY <1>1, Zenon DEF AddRole, AccountOwned, LiveUser
  <1>3. users' = [users EXCEPT ![u].role = role]
    BY <1>1, <1>2, Zenon DEF AddRole
  <1>4. /\ \A v \in Users \ {u} : users'[v] = users[v]
        /\ users'[u].st = "live"
    BY <1>0, <1>2, <1>3 DEF UserRow, LiveUser
  <1>5. Kept
    BY <1>0, <1>2, <1>4, Zenon DEF Kept, IsStaff, Chatted, Posted
  <1>6. NewUsersPlain'
    BY <1>4 DEF Tables, NewUsersPlain
  <1>7. ChatsOwned'
    BY <1>0, <1>2, <1>4, Zenon DEF Tables, ChatsOwned, Chatted, IsStaff, LiveUser
  <1>8. MessagesPlaced'
    BY <1>0, <1>5, PlacesKept DEF Tables, Posted
  <1>9. QED
    BY <1>5, <1>6, <1>7, <1>8 DEF Tables

\* Chat.create for a customer who has none.
LEMMA ChatGiven ==
  ASSUME TypeOK, Tables, NEW t \in Threads, AccountOwned(t), CreateChat(t)
  PROVE  Kept /\ Tables'
  <1>0. chats \in [ChatIds -> ChatRow] /\ UNCHANGED <<users, messages>>
    BY DEF TypeOK, CreateChat
  <1>1. PICK u : u = req[t].user
    OBVIOUS
  <1>2. LiveUser(u) /\ ~IsStaff(u) /\ \A c \in ChatIds : Chatted(c) => chats[c].sender # u
    BY <1>1, Zenon DEF CreateChat, AccountOwned
  <1>3. PICK c \in ChatIds : ~Chatted(c) /\ chats' = [chats EXCEPT ![c] = [st |-> "live", sender |-> u]]
    BY <1>1, Zenon DEF CreateChat, InsertChat, FirstOf, Chatted
  <1>4. /\ \A d \in ChatIds \ {c} : chats'[d] = chats[d]
        /\ chats'[c].st = "live" /\ chats'[c].sender = u
    BY <1>0, <1>3
  <1>5. Kept
    BY <1>0, <1>3, <1>4, Zenon DEF Kept, IsStaff, Chatted, Posted
  <1>6. NewUsersPlain'
    BY <1>0 DEF Tables, NewUsersPlain
  <1>7. ChatsOwned'
    BY <1>0, <1>2, <1>4 DEF Tables, ChatsOwned, Chatted, IsStaff, LiveUser
  <1>8. MessagesPlaced'
    BY <1>0, <1>5, PlacesKept DEF Tables, Posted
  <1>9. QED
    BY <1>5, <1>6, <1>7, <1>8 DEF Tables

\* What an account's destroy writes: the account and its one chat go together.
LEMMA DestroyWrites ==
  ASSUME TypeOK, Tables, NEW t \in Threads, LocalsRefer(t), CommitDestroy(t)
  PROVE  \E u \in Users, c \in ChatIds :
            /\ u = req[t].user /\ Chatted(c) /\ chats[c].sender = u
            /\ \A v \in Users \ {u} : users'[v] = users[v]
            /\ users'[u].st = "gone" /\ users'[u].role = "none"
            /\ \A d \in ChatIds \ {c} : chats'[d] = chats[d]
            /\ chats'[c].st = "gone" /\ chats'[c].sender = u
            /\ \A m \in MessageIds : /\ messages'[m].st \in {messages[m].st, "gone"}
                                     /\ messages'[m].chat = messages[m].chat
                                     /\ messages'[m].user = messages[m].user
                                     /\ messages'[m].window = messages[m].window
                                     /\ (Posted(m)' <=> Posted(m))
  <1>0. /\ users \in [Users -> UserRow] /\ chats \in [ChatIds -> ChatRow]
        /\ messages \in [MessageIds -> MessageRow] /\ None \notin Users
    BY AccountsAssumption DEF TypeOK
  <1>1. PICK u, c, S : /\ u \in Users /\ c \in ChatIds
                       /\ u = req[t].user /\ c = req[t].chat /\ S = req[t].rows
                       /\ Chatted(c) /\ chats[c].sender = u
                       /\ \A m \in S : Posted(m)
    BY Zenon DEF CommitDestroy, LocalsRefer
  <1>2. /\ users' = [users EXCEPT ![u] = [st |-> "gone", role |-> "none"]]
        /\ chats' = [chats EXCEPT ![c].st = "gone"]
        /\ messages' = [m \in MessageIds |->
              IF m \in S THEN [messages[m] EXCEPT !.st = "gone"] ELSE messages[m]]
    BY <1>0, <1>1, Zenon DEF CommitDestroy, DropChat, DeleteMessages
  <1>3. /\ \A v \in Users \ {u} : users'[v] = users[v]
        /\ users'[u].st = "gone" /\ users'[u].role = "none"
    BY <1>0, <1>1, <1>2, Zenon
  <1>4. /\ \A d \in ChatIds \ {c} : chats'[d] = chats[d]
        /\ chats'[c].st = "gone" /\ chats'[c].sender = u
    BY <1>0, <1>1, <1>2 DEF ChatRow
  <1>5. ASSUME NEW m \in MessageIds
        PROVE  /\ messages'[m].st \in {messages[m].st, "gone"}
               /\ messages'[m].chat = messages[m].chat
               /\ messages'[m].user = messages[m].user
               /\ messages'[m].window = messages[m].window
               /\ (Posted(m)' <=> Posted(m))
    BY <1>0, <1>1, <1>2, ZenonT(30) DEF MessageRow, Posted
  <1>6. QED
    BY <1>1, <1>3, <1>4, <1>5, Zenon
\* A destroyed account takes its chat along.
LEMMA AccountDestroyed ==
  ASSUME TypeOK, Tables, NEW t \in Threads, LocalsRefer(t), CommitDestroy(t)
  PROVE  Kept /\ Tables'
  <1>1. PICK u \in Users, c \in ChatIds :
            /\ u = req[t].user /\ Chatted(c) /\ chats[c].sender = u
            /\ \A v \in Users \ {u} : users'[v] = users[v]
            /\ users'[u].st = "gone" /\ users'[u].role = "none"
            /\ \A d \in ChatIds \ {c} : chats'[d] = chats[d]
            /\ chats'[c].st = "gone" /\ chats'[c].sender = u
            /\ \A m \in MessageIds : /\ messages'[m].st \in {messages[m].st, "gone"}
                                     /\ messages'[m].chat = messages[m].chat
                                     /\ messages'[m].user = messages[m].user
                                     /\ messages'[m].window = messages[m].window
                                     /\ (Posted(m)' <=> Posted(m))
    BY DestroyWrites, Zenon
  <1>2. /\ ~IsStaff(u) /\ users[u].st # "new"
        /\ \A d \in ChatIds \ {c} : Chatted(d) => chats[d].sender # u
    BY <1>1, ZenonT(40) DEF Tables, ChatsOwned
  <1>3. Kept
    BY <1>1, <1>2 DEF Kept, IsStaff, Chatted
  <1>4. NewUsersPlain'
    BY <1>1 DEF Tables, NewUsersPlain
  <1>5. ChatsOwned'
    <2>1. \A d \in ChatIds : Chatted(d)' => Chatted(d) /\ chats'[d].sender = chats[d].sender
      BY <1>1, Zenon DEF Chatted
    <2>2. ASSUME NEW d \in ChatIds, Chatted(d)'
          PROVE  /\ chats'[d].sender \in Users /\ users'[chats'[d].sender].role \notin {"admin", "staff"}
                 /\ users'[chats'[d].sender].st # "new"
                 /\ (chats'[d].st = "live" => users'[chats'[d].sender].st = "live")
      <3>1. CASE d = c
        BY <1>1, <3>1, ZenonT(40)
      <3>2. CASE d # c
        <4>1. PICK v : v = chats[d].sender
          OBVIOUS
        <4>2. /\ chats'[d] = chats[d] /\ Chatted(d) /\ v # u /\ v \in Users
              /\ ~IsStaff(v) /\ users[v].st # "new" /\ (chats[d].st = "live" => users[v].st = "live")
          BY <1>1, <1>2, <2>1, <2>2, <3>2, <4>1, ZenonT(40) DEF Tables, ChatsOwned, LiveUser
        <4>3. users'[v] = users[v]
          BY <1>1, <4>2, Zenon
        <4>4. QED
          BY <4>1, <4>2, <4>3, Zenon DEF IsStaff
      <3>3. QED
        BY <3>1, <3>2, Zenon
    <2>3. \A d, e \in ChatIds : Chatted(d)' /\ Chatted(e)' /\ d # e =>
             chats'[d].sender # chats'[e].sender
      BY <2>1, Zenon DEF Tables, ChatsOwned
    <2>4. QED
      BY <2>2, <2>3, Zenon DEF ChatsOwned, IsStaff, LiveUser
  <1>6. MessagesPlaced'
    BY <1>1, <1>3, PlacesKept, Zenon DEF Tables
  <1>7. QED
    BY <1>3, <1>4, <1>5, <1>6 DEF Tables

\* A message is stored in the chat of its window.
LEMMA MessageStored ==
  ASSUME TypeOK, Tables, NEW t \in Threads, LocalsRefer(t), InsertMessage(t)
  PROVE  /\ Kept /\ Tables'
         /\ \E m \in MessageIds : /\ req' = [req EXCEPT ![t] = [req[t] EXCEPT !.pc = "enqueue", !.row = m]]
                                  /\ Posted(m)'
  <1>0. messages \in [MessageIds -> MessageRow] /\ UNCHANGED <<users, chats>>
    BY Zenon DEF TypeOK, InsertMessage
  <1>1. PICK m \in MessageIds :
           /\ ~Posted(m)
           /\ messages' = [messages EXCEPT ![m] =
                 [st |-> "live", chat |-> req[t].chat, user |-> req[t].user,
                  window |-> req[t].window]]
           /\ Continue(t, [req[t] EXCEPT !.pc = "enqueue", !.row = m])
    BY Zenon DEF InsertMessage, FirstOf, Posted
  <1>2. /\ \A n \in MessageIds \ {m} : messages'[n] = messages[n]
        /\ messages'[m].st = "live" /\ messages'[m].chat = req[t].chat
        /\ messages'[m].user = req[t].user /\ messages'[m].window = req[t].window
    BY <1>0, <1>1
  <1>3. Kept
    BY <1>0, <1>1, <1>2, Zenon DEF Kept, IsStaff, Chatted, Posted
  <1>4. /\ req[t].user \in Users /\ req[t].chat \in ChatIds
        /\ Chatted(req[t].chat) /\ chats[req[t].chat].sender = req[t].window
        /\ IsStaff(req[t].user) \/ req[t].user = req[t].window
    BY Zenon DEF InsertMessage, LocalsRefer
  <1>5. MessagesPlaced'
    BY <1>0, <1>2, <1>4, SMTT(30) DEF Tables, MessagesPlaced, Posted, Chatted, SenderOf, IsStaff
  <1>6. NewUsersPlain' /\ ChatsOwned'
    BY <1>0, Zenon DEF Tables, NewUsersPlain, ChatsOwned, Chatted, IsStaff, LiveUser
  <1>7. QED
    BY <1>1, <1>2, <1>3, <1>5, <1>6, Zenon DEF Tables, Continue, Posted

\* Every step keeps the tables sound.
LEMMA TablesNext ==
  ASSUME Typed, Sound, Without(GeneratedPages), [Next]_vars
  PROVE  Kept /\ Tables'
  <1> USE DEF rows, jobs, pages
  <1>0. TypeOK /\ Tables /\ \A t \in Threads : AccountOwned(t) /\ LocalsRefer(t)
    BY DEF Typed, Sound, Requests
  <1>1. ASSUME UNCHANGED <<users, chats, messages>>
        PROVE  Kept /\ Tables'
    BY <1>0, <1>1, TablesSame
  <1>2. ASSUME NEW t \in Threads, SaveUser(t)
        PROVE  Kept /\ Tables'
    <2>1. PICK u \in Users : u = req[t].user
      BY <1>0, <1>2, Zenon DEF SaveUser, LocalsRefer
    <2>2. CASE users[u].st = "new"
      BY <1>0, <1>2, <2>1, <2>2, UserSaved, Zenon DEF SaveUser
    <2>3. CASE users[u].st # "new"
      BY <1>1, <1>2, <2>1, <2>3, Zenon DEF SaveUser
    <2>4. QED
      BY <2>2, <2>3
  <1>3. ASSUME NEW u \in Users, Register(u)
        PROVE  Kept /\ Tables'
    BY <1>0, <1>3, UserSaved, Zenon DEF Register
  <1>4. ASSUME NEW t \in Threads, AccountsStep(t)
        PROVE  Kept /\ Tables'
    <2>1. CASE \/ \E u \in Users : FindAccount(t, u)
               \/ EndCreate(t) \/ LoadDependents(t)
      BY <1>1, <2>1, ZenonT(40) DEF FindAccount, EndCreate, LoadDependents
    <2>2. QED
      BY <1>0, <1>2, <1>4, <2>1, RoleAdded, ChatGiven, AccountDestroyed, Zenon DEF AccountsStep
  <1>5. CASE AccountsNext
    <2>1. ASSUME NEW t \in Threads,
                 \/ \E role \in {"user", "staff"}, list \in load.lists : BeginCreate(t, role, list)
                 \/ \E list \in load.lists : BeginImport(t, list)
                 \/ \E u \in Users : BeginDestroy(t, u)
          PROVE  Kept /\ Tables'
      BY <1>1, <2>1, Zenon DEF BeginCreate, BeginImport, BeginDestroy
    <2>2. QED
      BY <1>3, <1>4, <1>5, <2>1 DEF AccountsNext
  <1>6. ASSUME NEW t \in Threads, InsertMessage(t)
        PROVE  Kept /\ Tables'
    BY <1>0, <1>6, MessageStored, Zenon
  <1>7. ASSUME NEW t \in Threads, \/ \E u \in Users, w \in ChatIds : BeginPost(t, u, w)
                                  \/ Enqueue(t)
        PROVE  UNCHANGED <<users, chats, messages>>
    BY <1>7, Zenon DEF BeginPost, Enqueue
  <1>8. ASSUME NEW u \in Users, OpenPage(u) \/ ClosePage(u)
        PROVE  UNCHANGED <<users, chats, messages>>
    BY <1>8 DEF OpenPage, ClosePage
  <1>9. ASSUME NEW w \in Workers, JobStep(w) \/ BroadcastFails(w)
        PROVE  UNCHANGED <<users, chats, messages>>
    BY <1>9, Zenon DEF JobStep, Fetch, LoadJob, PushSender, PushRecipient, EndJob, BroadcastFails
  <1>10. ASSUME \/ \E t \in Threads, c \in ChatIds : ChatsDestroy(t, c)
                \/ \E u \in Users : ChatsCreate(u) \/ \E c \in ChatIds : ChatsUpdate(c, u)
         PROVE  FALSE
    BY <1>10, Zenon DEF ChatsDestroy, ChatsCreate, ChatsUpdate, Starts, Without, GeneratedPages
  <1>11. ASSUME Crash \/ \E job \in retry : RetryDue(job)
         PROVE  UNCHANGED <<users, chats, messages>>
    BY <1>11 DEF Crash, RetryDue
  <1>12. CASE UNCHANGED vars
    BY <1>1, <1>12 DEF vars
  <1>13. QED
    BY <1>1, <1>5, <1>6, <1>7, <1>8, <1>9, <1>10, <1>11, <1>12, ZenonT(30) DEF Next
-----------------------------------------------------------------------------
(***************************************************************************)
(* The requests.                                                           *)
(***************************************************************************)
LEMMA LocalsStay ==
  ASSUME TypeOK, RefsTyped, Kept, NEW x \in Threads, LocalsRefer(x), req'[x] = req[x]
  PROVE  LocalsRefer(x)'
  <1>1. PICK r : r = req[x]
    OBVIOUS
  <1>2. r.rows \subseteq MessageIds /\ (r.pc = "enqueue" => r.row \in MessageIds)
    BY <1>1, Zenon DEF TypeOK, RefsTyped, Request
  <1>3. /\ r.pc \in {"save", "load"} => r.user \in Users
        /\ r.pc = "commit" =>
              /\ r.user \in Users /\ r.chat \in ChatIds
              /\ Chatted(r.chat) /\ chats[r.chat].sender = r.user
              /\ \A m \in r.rows : Posted(m)
        /\ r.pc = "insert" =>
              /\ r.user \in Users /\ r.chat \in ChatIds
              /\ Chatted(r.chat) /\ chats[r.chat].sender = r.window
              /\ IsStaff(r.user) \/ r.user = r.window
        /\ r.pc = "enqueue" => Posted(r.row)
    BY <1>1, Zenon DEF LocalsRefer
  <1>4. /\ r.pc = "commit" =>
              /\ Chatted(r.chat)' /\ chats'[r.chat].sender = r.user
              /\ \A m \in r.rows : Posted(m)'
        /\ r.pc = "insert" =>
              /\ Chatted(r.chat)' /\ chats'[r.chat].sender = r.window
              /\ IsStaff(r.user)' \/ r.user = r.window
        /\ r.pc = "enqueue" => Posted(r.row)'
    BY <1>2, <1>3, Zenon DEF Kept
  <1>5. req'[x] = r
    BY <1>1
  <1>6. QED
    BY <1>3, <1>4, <1>5, Zenon DEF LocalsRefer, Chatted, Posted, IsStaff

\* A request that is creating an account keeps it to itself when the others
\* do not come to own one, and neither change it nor give it a chat.
LEMMA OwnersStay ==
  ASSUME Requests,
         \A x \in Threads : req'[x].pc \in {"role", "chat"} =>
            /\ req'[x] = req[x] /\ users'[req[x].user] = users[req[x].user]
            /\ \A c \in ChatIds : Chatted(c)' =>
                  (Chatted(c) /\ chats'[c].sender = chats[c].sender) \/ chats'[c].sender # req[x].user
  PROVE  \A x \in Threads : AccountOwned(x)'
  <1> SUFFICES ASSUME NEW x \in Threads, req'[x].pc \in {"role", "chat"}
               PROVE  AccountOwned(x)'
    BY Zenon DEF AccountOwned
  <1>1. PICK r, u : r = req[x] /\ u = req[x].user
    BY Zenon
  <1>2. req'[x] = r /\ users'[u] = users[u] /\ r.pc \in {"role", "chat"} /\ r.user = u
        /\ \A c \in ChatIds : Chatted(c)' =>
              (Chatted(c) /\ chats'[c].sender = chats[c].sender) \/ chats'[c].sender # u
    BY <1>1, Zenon
  <1>3. /\ LiveUser(u) /\ (r.pc = "role" => users[u].role = "none") /\ ~IsStaff(u)
        /\ \A c \in ChatIds : Chatted(c) => chats[c].sender # u
        /\ \A y \in Threads \ {x} : req[y].pc \in {"role", "chat"} => req[y].user # u
    BY <1>1, <1>2 DEF Requests, AccountOwned
  <1>4. LiveUser(u)' /\ (r.pc = "role" => users'[u].role = "none") /\ ~IsStaff(u)'
    BY <1>2, <1>3, Zenon DEF LiveUser, IsStaff
  <1>5. \A c \in ChatIds : Chatted(c)' => chats'[c].sender # u
    BY <1>2, <1>3, ZenonT(40)
  <1>6. \A y \in Threads \ {x} : req'[y].pc \in {"role", "chat"} => req'[y].user # u
    BY <1>3, Zenon
  <1>7. QED
    BY <1>2, <1>4, <1>5, <1>6, ZenonT(40) DEF AccountOwned, LiveUser, IsStaff, Chatted

\* Most steps move one request, to a control point that owns no account.
LEMMA OthersStay ==
  ASSUME TypeOK, RefsTyped, Requests, Kept, NEW t \in Threads, NEW r, Continue(t, r),
         LocalsRefer(t)', r.pc \notin {"role", "chat"}, UNCHANGED <<users, chats>>
  PROVE  Requests'
  <1>1. req' = [req EXCEPT ![t] = r] /\ req \in [Threads -> Request]
    BY DEF Continue, TypeOK
  <1>2. \A x \in Threads \ {t} : req'[x] = req[x]
    BY <1>1
  <1>3. \A x \in Threads : AccountOwned(x)'
    BY <1>1, OwnersStay, Zenon DEF Chatted
  <1>4. \A x \in Threads : LocalsRefer(x)'
    BY <1>2, LocalsStay DEF Requests
  <1>5. QED
    BY <1>3, <1>4 DEF Requests

\* Requests that begin, and those that end.
LEMMA BeginsRequest ==
  ASSUME TypeOK, RefsTyped, Requests, Kept, NEW t \in Threads,
         \/ \E role, list : BeginCreate(t, role, list) \/ BeginImport(t, list)
         \/ \E u \in Users : BeginDestroy(t, u)
         \/ EndCreate(t)
         \/ Enqueue(t)
  PROVE  Requests'
  <1> USE DEF rows
  <1>0. NoRequest \in Request /\ NoRequest.pc = "idle" /\ req \in [Threads -> Request]
    BY DefaultTypes, Zenon DEF NoRequest, TypeOK
  <1>1. PICK r : /\ Continue(t, r) /\ r.pc \in {"idle", "find", "load"}
                 /\ (r.pc = "load" => r.user \in Users)
    <2>1. ASSUME NEW role, NEW list
          PROVE  /\ [NoRequest EXCEPT !.pc = "find", !.role = role, !.chatty = TRUE, !.todo = list].pc = "find"
                 /\ [NoRequest EXCEPT !.pc = "find", !.role = "user", !.todo = list].pc = "find"
      BY <1>0 DEF Request
    <2>2. ASSUME NEW u
          PROVE  /\ [NoRequest EXCEPT !.pc = "load", !.user = u].pc = "load"
                 /\ [NoRequest EXCEPT !.pc = "load", !.user = u].user = u
      BY <1>0 DEF Request
    <2>3. CASE \E role, list : BeginCreate(t, role, list) \/ BeginImport(t, list)
      BY <2>1, <2>3, Zenon DEF BeginCreate, BeginImport
    <2>4. CASE \E u \in Users : BeginDestroy(t, u)
      <3>1. PICK u \in Users : BeginDestroy(t, u)
        BY <2>4
      <3>2. PICK r : r = [NoRequest EXCEPT !.pc = "load", !.user = u]
        OBVIOUS
      <3>3. Continue(t, r) /\ r.pc = "load" /\ r.user = u
        BY <2>2, <3>1, <3>2, ZenonT(40) DEF BeginDestroy
      <3>4. QED
        BY <3>3
    <2>5. CASE EndCreate(t) \/ Enqueue(t)
      BY <1>0, <2>5, Zenon DEF EndCreate, Enqueue, Finish
    <2>6. QED
      BY <2>3, <2>4, <2>5
  <1>2. LocalsRefer(t)'
    BY <1>0, <1>1, Zenon DEF LocalsRefer, Continue
  <1>3. UNCHANGED <<users, chats>>
    BY Zenon DEF BeginCreate, BeginImport, BeginDestroy, EndCreate, Enqueue
  <1>4. QED
    BY <1>1, <1>2, <1>3, OthersStay

\* A request that found its account.
LEMMA FindRequest ==
  ASSUME TypeOK, RefsTyped, Requests, Kept, NEW t \in Threads, NEW u \in Users, FindAccount(t, u)
  PROVE  Requests'
  <1>0. req \in [Threads -> Request] /\ req[t] \in Request
    BY DEF TypeOK
  <1>1. /\ [req[t] EXCEPT !.todo = @ \ {u}].pc = req[t].pc
        /\ [req[t] EXCEPT !.todo = @ \ {u}, !.user = u, !.pc = "save"].pc = "save"
        /\ [req[t] EXCEPT !.todo = @ \ {u}, !.user = u, !.pc = "save"].user = u
    BY <1>0 DEF Request
  <1>2. PICK r : Continue(t, r) /\ r.pc \in {"find", "save"} /\ (r.pc = "save" => r.user \in Users)
    BY <1>1, ZenonT(40) DEF FindAccount
  <1>3. LocalsRefer(t)'
    BY <1>0, <1>2, Zenon DEF LocalsRefer, Continue
  <1>4. QED
    BY <1>2, <1>3, OthersStay DEF FindAccount
\* A destroy that loaded the chat and its messages.
LEMMA LoadsDependents ==
  ASSUME TypeOK, RefsTyped, Requests, Kept, Tables, NEW t \in Threads, LoadDependents(t)
  PROVE  Requests'
  <1>0. /\ req \in [Threads -> Request] /\ req[t] \in Request /\ UNCHANGED <<users, chats, messages>>
        /\ NoRequest.pc = "idle" /\ req[t].pc = "load"
    BY Zenon DEF TypeOK, LoadDependents, NoRequest
  <1>1. PICK u \in Users : u = req[t].user
    BY <1>0, Zenon DEF Requests, LocalsRefer
  <1>2. CASE Finish(t)
    <2>1. LocalsRefer(t)'
      BY <1>0, <1>2, Zenon DEF LocalsRefer, Continue, Finish
    <2>2. QED
      BY <1>0, <1>2, <2>1, OthersStay DEF Finish
  <1>3. CASE ~Finish(t)
    <2>1. PICK c \in FirstChat(u) :
             Continue(t, [req[t] EXCEPT !.pc = "commit", !.chat = c, !.rows = MessagesOf(c)])
      BY <1>1, <1>3, Zenon DEF LoadDependents
    <2>2. c \in ChatIds /\ Chatted(c) /\ chats[c].sender = u
      BY <2>1 DEF FirstChat, FirstOf, LiveChats, Chatted
    <2>3. \A m \in MessagesOf(c) : Posted(m)
      BY DEF MessagesOf, LiveMessages, Posted
    <2>4. PICK r : r = [req[t] EXCEPT !.pc = "commit", !.chat = c, !.rows = MessagesOf(c)]
      OBVIOUS
    <2>5. /\ r.pc = "commit" /\ r.chat = c /\ r.rows = MessagesOf(c) /\ r.user = u
          /\ Continue(t, r)
      BY <1>0, <1>1, <2>1, <2>4, Zenon DEF Request
    <2>6. LocalsRefer(t)'
      BY <1>0, <2>2, <2>3, <2>5, Zenon DEF LocalsRefer, Continue, Chatted, Posted
    <2>7. QED
      BY <1>0, <2>5, <2>6, OthersStay
  <1>4. QED
    BY <1>2, <1>3

\* A request that saved an account is alone with it.
LEMMA SavesUser ==
  ASSUME TypeOK, RefsTyped, Requests, Kept, Tables, NEW t \in Threads, SaveUser(t)
  PROVE  Requests'
  <1>0. /\ req \in [Threads -> Request] /\ req[t] \in Request /\ UNCHANGED <<chats, messages>>
        /\ NoRequest.pc = "idle" /\ req[t].pc = "save" /\ users \in [Users -> UserRow]
    BY Zenon DEF TypeOK, SaveUser, NoRequest
  <1>1. PICK u \in Users : u = req[t].user
    BY <1>0, Zenon DEF Requests, LocalsRefer
  <1>2. CASE users[u].st # "new"
    <2>1. [req[t] EXCEPT !.pc = "find", !.user = None].pc = "find"
      BY <1>0 DEF Request
    <2>2. PICK r : Continue(t, r) /\ r.pc \in {"idle", "find"}
      BY <1>0, <1>1, <1>2, <2>1, ZenonT(40) DEF SaveUser, Finish
    <2>3. LocalsRefer(t)'
      BY <1>0, <2>2, Zenon DEF LocalsRefer, Continue
    <2>4. UNCHANGED users
      BY <1>1, <1>2, Zenon DEF SaveUser
    <2>5. QED
      BY <1>0, <2>2, <2>3, <2>4, OthersStay
  <1>3. CASE users[u].st = "new"
    <2>1. users' = [users EXCEPT ![u].st = "live"]
      BY <1>1, <1>3, Zenon DEF SaveUser
    <2>2. /\ \A v \in Users \ {u} : users'[v] = users[v]
          /\ users'[u].st = "live" /\ users'[u].role = "none"
      BY <1>0, <1>3, <2>1 DEF UserRow, Tables, NewUsersPlain
    <2>3. PICK r : r = [req[t] EXCEPT !.pc = "role"]
      BY Zenon
    <2>4. r.pc = "role" /\ r.user = u /\ req' = [req EXCEPT ![t] = r]
      BY <1>0, <1>1, <1>3, <2>3, Zenon DEF SaveUser, Continue, Request
    <2>5. req'[t] = r /\ \A x \in Threads \ {t} : req'[x] = req[x]
      BY <1>0, <2>4
    <2>6. \A x \in Threads : LocalsRefer(x)'
      <3>1. LocalsRefer(t)'
        BY <2>4, <2>5, Zenon DEF LocalsRefer
      <3>2. QED
        BY <2>5, <3>1, LocalsStay DEF Requests
    <2>7. \A c \in ChatIds : Chatted(c) => chats[c].sender # u
      BY <1>3, Zenon DEF Tables, ChatsOwned
    <2>8. \A x \in Threads \ {t} : req[x].pc \in {"role", "chat"} => req[x].user # u
      BY <1>3, Zenon DEF Requests, AccountOwned, LiveUser
    <2>9. AccountOwned(t)'
      BY <1>0, <2>2, <2>4, <2>5, <2>7, <2>8, Zenon DEF AccountOwned, LiveUser, IsStaff, Chatted
    <2>10. ASSUME NEW x \in Threads \ {t}
           PROVE  AccountOwned(x)'
      <3>1. AccountOwned(x) /\ req'[x] = req[x]
        BY <2>5 DEF Requests
      <3>2. req[x].pc \in {"role", "chat"} => users'[req[x].user] = users[req[x].user]
        BY <2>2, <2>8, <3>1, Zenon DEF AccountOwned, LiveUser
      <3>3. QED
        BY <1>0, <2>4, <2>5, <2>8, <3>1, <3>2, Zenon DEF AccountOwned, LiveUser, IsStaff, Chatted
    <2>11. QED
      BY <2>6, <2>9, <2>10 DEF Requests
  <1>4. QED
    BY <1>2, <1>3

\* A request that added the role.
LEMMA AddsRole ==
  ASSUME TypeOK, RefsTyped, Requests, Kept, NEW t \in Threads, AddRole(t)
  PROVE  Requests'
  <1>0. /\ req \in [Threads -> Request] /\ req[t] \in Request /\ UNCHANGED <<chats, messages>>
        /\ req[t].pc = "role" /\ users \in [Users -> UserRow]
    BY Zenon DEF TypeOK, AddRole
  <1>1. PICK u, role : u = req[t].user /\ role = req[t].role
    OBVIOUS
  <1>2. /\ LiveUser(u) /\ u \in Users /\ ~IsStaff(u)
        /\ \A c \in ChatIds : Chatted(c) => chats[c].sender # u
        /\ \A x \in Threads \ {t} : req[x].pc \in {"role", "chat"} => req[x].user # u
    BY <1>0, <1>1, Zenon DEF Requests, AccountOwned, LiveUser
  <1>3. users' = [users EXCEPT ![u].role = role]
    BY <1>1, <1>2, Zenon DEF AddRole
  <1>4. /\ \A v \in Users \ {u} : users'[v] = users[v]
        /\ users'[u].st = "live" /\ users'[u].role = role
    BY <1>0, <1>2, <1>3 DEF UserRow, LiveUser
  <1>5. PICK r : /\ req' = [req EXCEPT ![t] = r] /\ r.pc \in {"chat", "find"}
                 /\ (r.pc = "chat" => r.user = u /\ role \notin {"admin", "staff"})
    <2>1. /\ [req[t] EXCEPT !.pc = "chat"].pc = "chat" /\ [req[t] EXCEPT !.pc = "chat"].user = u
          /\ [req[t] EXCEPT !.pc = "find", !.user = None].pc = "find"
      BY <1>0, <1>1 DEF Request
    <2>2. CASE GetsChat(req[t])
      <3>1. PICK r : r = [req[t] EXCEPT !.pc = "chat"]
        BY Zenon
      <3>2. req' = [req EXCEPT ![t] = r] /\ r.pc = "chat" /\ r.user = u /\ role \notin {"admin", "staff"}
        BY <1>1, <2>1, <2>2, <3>1, Zenon DEF AddRole, Continue, GetsChat
      <3>3. QED
        BY <3>2, Zenon
    <2>3. CASE ~GetsChat(req[t])
      <3>1. PICK r : r = [req[t] EXCEPT !.pc = "find", !.user = None]
        OBVIOUS
      <3>2. req' = [req EXCEPT ![t] = r] /\ r.pc = "find"
        BY <2>1, <2>3, <3>1, Zenon DEF AddRole, Continue
      <3>3. QED
        BY <3>2, Zenon
    <2>4. QED
      BY <2>2, <2>3
  <1>6. req'[t] = r /\ \A x \in Threads \ {t} : req'[x] = req[x]
    BY <1>0, <1>5
  <1>7. \A x \in Threads : LocalsRefer(x)'
    <2>1. LocalsRefer(t)'
      BY <1>5, <1>6, Zenon DEF LocalsRefer
    <2>2. QED
      BY <1>6, <2>1, LocalsStay DEF Requests
  <1>8. AccountOwned(t)'
    BY <1>0, <1>2, <1>4, <1>5, <1>6, Zenon DEF AccountOwned, LiveUser, IsStaff, Chatted
  <1>9. ASSUME NEW x \in Threads \ {t}
        PROVE  AccountOwned(x)'
    <2>1. AccountOwned(x) /\ req'[x] = req[x]
      BY <1>6 DEF Requests
    <2>2. req[x].pc \in {"role", "chat"} => users'[req[x].user] = users[req[x].user]
      BY <1>2, <1>4, <2>1, Zenon DEF AccountOwned, LiveUser
    <2>3. QED
      BY <1>0, <1>2, <1>5, <1>6, <2>1, <2>2, ZenonT(30) DEF AccountOwned, LiveUser, IsStaff, Chatted
  <1>10. QED
    BY <1>7, <1>8, <1>9 DEF Requests
\* A request that created the chat.
LEMMA CreatesChat ==
  ASSUME TypeOK, RefsTyped, Requests, Kept, NEW t \in Threads, CreateChat(t)
  PROVE  Requests'
  <1>0. /\ req \in [Threads -> Request] /\ req[t] \in Request /\ UNCHANGED <<users, messages>>
        /\ req[t].pc = "chat" /\ chats \in [ChatIds -> ChatRow]
    BY DEF TypeOK, CreateChat
  <1>1. PICK u : u = req[t].user
    OBVIOUS
  <1>2. \A x \in Threads \ {t} : req[x].pc \in {"role", "chat"} => req[x].user # u
    BY <1>0, <1>1, Zenon DEF Requests, AccountOwned
  <1>3. PICK c \in ChatIds : chats' = [chats EXCEPT ![c] = [st |-> "live", sender |-> u]]
    BY <1>1, Zenon DEF CreateChat, InsertChat, FirstOf
  <1>4. /\ \A d \in ChatIds \ {c} : chats'[d] = chats[d]
        /\ chats'[c].sender = u
    BY <1>0, <1>3
  <1>5. PICK r : r = [req[t] EXCEPT !.pc = "find", !.user = None]
    OBVIOUS
  <1>6. r.pc = "find" /\ req'[t] = r /\ \A x \in Threads \ {t} : req'[x] = req[x]
    BY <1>0, <1>5, Zenon DEF CreateChat, Continue, Request
  <1>7. \A x \in Threads : req'[x].pc \in {"role", "chat"} =>
            /\ req'[x] = req[x] /\ users'[req[x].user] = users[req[x].user]
            /\ \A d \in ChatIds : Chatted(d)' =>
                  (Chatted(d) /\ chats'[d].sender = chats[d].sender) \/ chats'[d].sender # req[x].user
    BY <1>0, <1>2, <1>4, <1>6 DEF Chatted
  <1>8. \A x \in Threads : AccountOwned(x)'
    BY <1>7, OwnersStay, Zenon
  <1>9. LocalsRefer(t)'
    BY <1>6, Zenon DEF LocalsRefer
  <1>10. \A x \in Threads : LocalsRefer(x)'
    BY <1>6, <1>9, LocalsStay DEF Requests
  <1>11. QED
    BY <1>8, <1>10 DEF Requests

\* A destroy that committed.
LEMMA CommitsDestroy ==
  ASSUME TypeOK, RefsTyped, Requests, Kept, Tables, NEW t \in Threads, CommitDestroy(t)
  PROVE  Requests'
  <1>0. req \in [Threads -> Request] /\ NoRequest.pc = "idle"
    BY Zenon DEF TypeOK, NoRequest
  <1>1. PICK u \in Users, c \in ChatIds :
            /\ Chatted(c) /\ chats[c].sender = u
            /\ \A v \in Users \ {u} : users'[v] = users[v]
            /\ \A d \in ChatIds \ {c} : chats'[d] = chats[d]
            /\ chats'[c].sender = u
    BY DestroyWrites, Zenon DEF Requests
  <1>2. req'[t] = NoRequest /\ \A x \in Threads \ {t} : req'[x] = req[x]
    BY <1>0 DEF CommitDestroy, Finish, Continue
  <1>3. ASSUME NEW x \in Threads, req'[x].pc \in {"role", "chat"}
        PROVE  /\ req'[x] = req[x] /\ users'[req[x].user] = users[req[x].user]
               /\ \A d \in ChatIds : Chatted(d)' =>
                     (Chatted(d) /\ chats'[d].sender = chats[d].sender) \/ chats'[d].sender # req[x].user
    <2>1. x # t /\ req'[x] = req[x]
      BY <1>0, <1>2, <1>3
    <2>2. req[x].user \in Users /\ req[x].user # u
      BY <1>1, <1>3, <2>1 DEF Requests, AccountOwned, LiveUser
    <2>3. QED
      BY <1>1, <2>1, <2>2, Zenon DEF Chatted
  <1>4. \A x \in Threads : AccountOwned(x)'
    BY <1>3, OwnersStay, ZenonT(40)
  <1>5. LocalsRefer(t)'
    BY <1>0, <1>2, Zenon DEF LocalsRefer
  <1>6. \A x \in Threads : LocalsRefer(x)'
    BY <1>2, <1>5, LocalsStay DEF Requests
  <1>7. QED
    BY <1>4, <1>6 DEF Requests

\* A registration.
LEMMA RegistersUser ==
  ASSUME TypeOK, RefsTyped, Requests, Kept, NEW u \in Users, Register(u)
  PROVE  Requests'
  <1>0. users \in [Users -> UserRow] /\ UNCHANGED <<chats, messages, req>>
    BY DEF TypeOK, Register
  <1>1. users[u].st = "new" /\ \A v \in Users \ {u} : users'[v] = users[v]
    BY <1>0 DEF Register
  <1>2. ASSUME NEW x \in Threads, req'[x].pc \in {"role", "chat"}
        PROVE  req'[x] = req[x] /\ users'[req[x].user] = users[req[x].user]
    <2>1. req[x].user \in Users /\ req[x].user # u
      BY <1>0, <1>1, <1>2, Zenon DEF Requests, AccountOwned, LiveUser
    <2>2. QED
      BY <1>0, <1>1, <2>1, Zenon
  <1>3. \A x \in Threads : AccountOwned(x)'
    BY <1>0, <1>2, OwnersStay, Zenon DEF Chatted
  <1>4. \A x \in Threads : LocalsRefer(x)'
    BY <1>0, LocalsStay DEF Requests
  <1>5. QED
    BY <1>3, <1>4 DEF Requests

\* Staff have no chat of their own, so where(..).or(..).first finds the chat
\* of the window; a customer's windows are the customer's own.
LEMMA BeginsPost ==
  ASSUME TypeOK, RefsTyped, Requests, Kept, Tables, NEW t \in Threads, NEW u \in Users,
         NEW w \in ChatIds, BeginPost(t, u, w)
  PROVE  Requests'
  <1> USE DEF rows
  <1>0. /\ req \in [Threads -> Request] /\ NoRequest \in Request
        /\ UNCHANGED <<users, chats, messages>>
    BY DefaultTypes, Zenon DEF TypeOK, BeginPost
  <1>1. PICK s : s = chats[w].sender
    OBVIOUS
  <1>2. PICK c \in ChatFor(u, s) :
           Continue(t, [NoRequest EXCEPT !.pc = "insert", !.user = u, !.window = s, !.chat = c])
    BY <1>1, Zenon DEF BeginPost
  <1>3. c \in ChatIds /\ Chatted(c) /\ chats[c].sender \in {u, s}
    BY <1>2 DEF ChatFor, FirstOf, LiveChats, Chatted
  <1>4. IsStaff(u) \/ u = s
    BY <1>1, Zenon DEF BeginPost, Windows
  <1>5. chats[c].sender = s
    BY <1>3, <1>4, Zenon DEF Tables, ChatsOwned
  <1>6. PICK r : r = [NoRequest EXCEPT !.pc = "insert", !.user = u, !.window = s, !.chat = c]
    OBVIOUS
  <1>7. r.pc = "insert" /\ r.user = u /\ r.window = s /\ r.chat = c /\ Continue(t, r)
    BY <1>0, <1>2, <1>6 DEF Request
  <1>8. LocalsRefer(t)'
    BY <1>0, <1>3, <1>4, <1>5, <1>7, Zenon DEF LocalsRefer, Continue, Chatted, IsStaff
  <1>9. QED
    BY <1>0, <1>7, <1>8, OthersStay

\* A request that stored its message.
LEMMA StoresMessage ==
  ASSUME TypeOK, RefsTyped, Requests, Kept, Tables, NEW t \in Threads, InsertMessage(t)
  PROVE  Requests'
  <1>0. req \in [Threads -> Request] /\ req[t] \in Request /\ UNCHANGED <<users, chats>>
    BY Zenon DEF TypeOK, InsertMessage
  <1>1. PICK m \in MessageIds : /\ req' = [req EXCEPT ![t] = [req[t] EXCEPT !.pc = "enqueue", !.row = m]]
                                /\ Posted(m)'
    BY MessageStored, Zenon DEF Requests
  <1>2. PICK r : r = [req[t] EXCEPT !.pc = "enqueue", !.row = m]
    OBVIOUS
  <1>3. r.pc = "enqueue" /\ r.row = m /\ Continue(t, r)
    BY <1>0, <1>1, <1>2 DEF Request, Continue
  <1>4. LocalsRefer(t)'
    BY <1>0, <1>1, <1>3 DEF LocalsRefer, Continue, Posted
  <1>5. QED
    BY <1>0, <1>3, <1>4, OthersStay

\* Every step keeps what the requests refer to.
LEMMA RequestsNext ==
  ASSUME Typed, Sound, Without(GeneratedPages), [Next]_vars
  PROVE  Requests'
  <1> USE DEF rows, jobs, pages
  <1>0. TypeOK /\ RefsTyped /\ Tables /\ Requests /\ Kept
    BY TablesNext DEF Typed, Sound
  <1>1. ASSUME UNCHANGED <<users, chats, messages, req>>
        PROVE  Requests'
    <2>1. \A x \in Threads : AccountOwned(x)'
      BY <1>0, <1>1, OwnersStay DEF Chatted
    <2>2. \A x \in Threads : LocalsRefer(x)'
      BY <1>0, <1>1, LocalsStay DEF Requests
    <2>3. QED
      BY <2>1, <2>2 DEF Requests
  <1>2. CASE AccountsNext
    <2>1. ASSUME NEW t \in Threads, AccountsStep(t)
          PROVE  Requests'
      BY <1>0, <2>1, FindRequest, SavesUser, AddsRole, CreatesChat, BeginsRequest, LoadsDependents,
         CommitsDestroy, Zenon DEF AccountsStep
    <2>2. ASSUME NEW t \in Threads,
                 \/ \E role \in {"user", "staff"}, list \in load.lists : BeginCreate(t, role, list)
                 \/ \E list \in load.lists : BeginImport(t, list)
                 \/ \E u \in Users : BeginDestroy(t, u)
          PROVE  Requests'
      BY <1>0, <2>2, BeginsRequest
    <2>3. ASSUME NEW u \in Users, Register(u)
          PROVE  Requests'
      BY <1>0, <2>3, RegistersUser
    <2>4. QED
      BY <1>2, <2>1, <2>2, <2>3 DEF AccountsNext
  <1>3. ASSUME NEW t \in Threads, \/ \E u \in Users, w \in ChatIds : BeginPost(t, u, w)
                                  \/ InsertMessage(t) \/ Enqueue(t)
        PROVE  Requests'
    BY <1>0, <1>3, BeginsPost, StoresMessage, BeginsRequest, Zenon
  <1>4. ASSUME NEW u \in Users, OpenPage(u) \/ ClosePage(u)
        PROVE  UNCHANGED <<users, chats, messages, req>>
    BY <1>4 DEF OpenPage, ClosePage
  <1>5. ASSUME NEW w \in Workers, JobStep(w) \/ BroadcastFails(w)
        PROVE  UNCHANGED <<users, chats, messages, req>>
    BY <1>5, Zenon DEF JobStep, Fetch, LoadJob, PushSender, PushRecipient, EndJob, BroadcastFails
  <1>6. ASSUME \/ \E t \in Threads, c \in ChatIds : ChatsDestroy(t, c)
               \/ \E u \in Users : ChatsCreate(u) \/ \E c \in ChatIds : ChatsUpdate(c, u)
        PROVE  FALSE
    BY <1>6, Zenon DEF ChatsDestroy, ChatsCreate, ChatsUpdate, Starts, Without, GeneratedPages
  <1>7. ASSUME NEW job \in retry, RetryDue(job)
        PROVE  UNCHANGED <<users, chats, messages, req>>
    BY <1>7 DEF RetryDue
  <1>8. CASE Crash
    <2>1. CASE UNCHANGED req
      BY <1>1, <1>8, <2>1 DEF Crash
    <2>2. CASE req' = [t \in Threads |-> NoRequest]
      BY <2>2, Zenon DEF Requests, AccountOwned, LocalsRefer, NoRequest
    <2>3. QED
      BY <1>8, <2>1, <2>2 DEF Crash
  <1>9. CASE UNCHANGED vars
    BY <1>1, <1>9 DEF vars
  <1>10. QED
    BY <1>1, <1>2, <1>3, <1>4, <1>5, <1>6, <1>7, <1>8, <1>9, Zenon DEF Next
-----------------------------------------------------------------------------
(***************************************************************************)
(* The jobs and the pages.                                                 *)
(***************************************************************************)
LEMMA SenderKept ==
  ASSUME MessagesPlaced, Kept, NEW m \in MessageIds, Posted(m)
  PROVE  Posted(m)' /\ SenderOf(m)' = SenderOf(m)
  <1>1. PICK c : c = messages[m].chat
    OBVIOUS
  <1>2. c \in ChatIds /\ Chatted(c)
    BY <1>1 DEF MessagesPlaced
  <1>3. Posted(m)' /\ messages'[m].chat = c /\ chats'[c].sender = chats[c].sender
    BY <1>1, <1>2, Zenon DEF Kept
  <1>4. QED
    BY <1>1, <1>3 DEF SenderOf

WorkRefers(w) ==
    work[w].pc # "idle" =>
        /\ Posted(work[w].job.message)
        /\ \A u \in work[w].todo : IsStaff(u) \/ u = SenderOf(work[w].job.message)

\* A worker that goes on with its job.
LEMMA WorkStays ==
  ASSUME TypeOK, RefsTyped, MessagesPlaced, Kept, NEW w \in Workers, WorkRefers(w),
         work'[w].pc # "idle" => /\ work[w].pc # "idle" /\ work'[w].job = work[w].job
                                 /\ work'[w].todo \subseteq work[w].todo
  PROVE  WorkRefers(w)'
  <1> SUFFICES ASSUME work'[w].pc # "idle" PROVE WorkRefers(w)'
    BY Zenon DEF WorkRefers
  <1>1. PICK m, todo, less :
           /\ m \in MessageIds
           /\ m = work[w].job.message /\ todo = work[w].todo /\ less = work'[w].todo
    BY Zenon DEF RefsTyped, Job
  <1>2. Posted(m) /\ (\A u \in todo : IsStaff(u) \/ u = SenderOf(m))
    BY <1>1, Zenon DEF WorkRefers
  <1>3. todo \subseteq Users /\ less \subseteq todo /\ work'[w].job.message = m
    BY <1>1, Zenon DEF TypeOK, Work
  <1>4. Posted(m)' /\ SenderOf(m)' = SenderOf(m)
    BY <1>1, <1>2, SenderKept, Zenon
  <1>5. \A u \in less : IsStaff(u)' \/ u = SenderOf(m)'
    BY <1>2, <1>3, <1>4, Zenon DEF Kept
  <1>6. QED
    BY <1>1, <1>3, <1>4, <1>5, ZenonT(40) DEF WorkRefers, Posted, IsStaff, SenderOf

\* A message that is queued stays stored.
LEMMA QueuesStay ==
  ASSUME TypeOK, MessagesPlaced, Kept, JobsRefer
  PROVE  /\ \A i \in DOMAIN queue : messages'[queue[i].message].st # "new"
         /\ \A job \in retry : messages'[job.message].st # "new"
  <1>1. \A m \in MessageIds : Posted(m) => messages'[m].st # "new"
    BY SenderKept DEF Posted
  <1>2. ASSUME NEW i \in DOMAIN queue
        PROVE  messages'[queue[i].message].st # "new"
    <2>1. queue[i] \in Job
      <3>1. queue \in Seq(Job)
        BY DEF TypeOK
      <3>2. QED
        BY <3>1
    <2>2. queue[i].message \in MessageIds
      BY <2>1 DEF Job
    <2>3. QED
      BY <1>1, <2>2 DEF JobsRefer
  <1>3. ASSUME NEW job \in retry
        PROVE  messages'[job.message].st # "new"
    <2>1. job.message \in MessageIds
      BY DEF TypeOK, Job
    <2>2. QED
      BY <1>1, <2>1 DEF JobsRefer
  <1>4. QED
    BY <1>2, <1>3

\* Steps that leave queue and workers alone.
LEMMA JobsStay ==
  ASSUME TypeOK, RefsTyped, MessagesPlaced, Kept, JobsRefer, UNCHANGED <<queue, retry, work>>
  PROVE  JobsRefer'
  <1>1. \A w \in Workers : WorkRefers(w)'
    BY WorkStays, Zenon DEF JobsRefer, WorkRefers
  <1>2. QED
    BY <1>1, QueuesStay, Zenon DEF JobsRefer, WorkRefers, Posted

\* A job is added behind the queue.
LEMMA JobAdded ==
  ASSUME TypeOK, RefsTyped, MessagesPlaced, Kept, JobsRefer, NEW job \in Job,
         Posted(job.message), queue' = Append(queue, job), retry' \subseteq retry, UNCHANGED work
  PROVE  JobsRefer'
  <1>0. queue \in Seq(Job) /\ job.message \in MessageIds
    BY DEF TypeOK, Job
  <1>1. \A w \in Workers : WorkRefers(w)'
    BY WorkStays, Zenon DEF JobsRefer, WorkRefers
  <1>2. messages'[job.message].st # "new"
    BY <1>0, SenderKept DEF Posted
  <1>3. \A i \in DOMAIN queue' : messages'[queue'[i].message].st # "new"
    <2>1. \A i \in DOMAIN queue' : queue'[i] = job \/ (i \in DOMAIN queue /\ queue'[i] = queue[i])
      BY <1>0
    <2>2. QED
      BY <1>2, <2>1, QueuesStay, Zenon
  <1>4. QED
    BY <1>1, <1>3, QueuesStay, Zenon DEF JobsRefer, WorkRefers, Posted

\* The worker's job fails.
LEMMA JobFails ==
  ASSUME TypeOK, RefsTyped, MessagesPlaced, Kept, JobsRefer, NEW w \in Workers,
         work[w].pc # "idle", Fail(w)
  PROVE  JobsRefer'
  <1>0. work \in [Workers -> Work] /\ NoWork.pc = "idle"
    BY DEF TypeOK, NoWork
  <1>1. PICK job \in Job : job = work[w].job
    BY DEF RefsTyped
  <1>2. job.message \in MessageIds /\ Posted(job.message)
    BY <1>1, Zenon DEF Job, JobsRefer
  <1>3. messages'[job.message].st # "new"
    BY <1>2, SenderKept DEF Posted
  <1>4. [job EXCEPT !.tries = job.tries + 1].message = job.message
    BY DEF Job
  <1>5. /\ retry' \subseteq retry \cup {[job EXCEPT !.tries = job.tries + 1]}
        /\ work' = [work EXCEPT ![w] = NoWork] /\ queue' = queue
    BY <1>1, Zenon DEF Fail
  <1>6. \A v \in Workers : WorkRefers(v)'
    <2>1. ASSUME NEW v \in Workers
          PROVE  work'[v].pc # "idle" => work'[v] = work[v]
      BY <1>0, <1>5
    <2>2. QED
      BY <2>1, WorkStays, Zenon DEF JobsRefer, WorkRefers
  <1>7. \A x \in retry' : messages'[x.message].st # "new"
    BY <1>3, <1>4, <1>5, QueuesStay, Zenon
  <1>8. QED
    BY <1>5, <1>6, <1>7, QueuesStay, Zenon DEF JobsRefer, WorkRefers, Posted

\* A job fetched has staff and the chat's sender as recipients.
LEMMA JobFetched ==
  ASSUME TypeOK, RefsTyped, MessagesPlaced, Kept, JobsRefer, NEW w \in Workers, Fetch(w)
  PROVE  JobsRefer'
  <1>0. /\ work \in [Workers -> Work] /\ NoWork \in Work /\ queue \in Seq(Job) /\ queue # <<>>
        /\ NoWork.todo = {} /\ retry' = retry
    BY DefaultTypes DEF TypeOK, NoWork, Fetch
  <1>1. PICK job \in Job : job = Head(queue)
    BY <1>0
  <1>2. messages'[job.message].st # "new"
    BY <1>0, <1>1, QueuesStay
  <1>3. \A i \in DOMAIN queue' : messages'[queue'[i].message].st # "new"
    <2>1. queue' = Tail(queue)
      BY DEF Fetch
    <2>2. \A i \in DOMAIN queue' : i + 1 \in DOMAIN queue /\ queue'[i] = queue[i + 1]
      BY <1>0, <2>1
    <2>3. QED
      BY <2>2, QueuesStay
  <1>4. work' = [work EXCEPT ![w] = [NoWork EXCEPT !.pc = "load", !.job = job]]
    BY <1>1 DEF Fetch
  <1>5. /\ work'[w].todo = {} /\ work'[w].job = job
        /\ \A v \in Workers \ {w} : work'[v] = work[v]
    BY <1>0, <1>4 DEF Work
  <1>6. WorkRefers(w)'
    BY <1>2, <1>5 DEF WorkRefers, Posted
  <1>7. \A v \in Workers \ {w} : WorkRefers(v)'
    BY <1>5, WorkStays, Zenon DEF JobsRefer, WorkRefers
  <1>8. QED
    BY <1>0, <1>3, <1>6, <1>7, QueuesStay, Zenon DEF JobsRefer, WorkRefers, Posted

\* The recipients of a message are staff and the sender of its chat.
LEMMA JobLoaded ==
  ASSUME TypeOK, RefsTyped, MessagesPlaced, Kept, JobsRefer, NEW w \in Workers, LoadJob(w)
  PROVE  JobsRefer'
  <1> USE DEF rows
  <1>0. work \in [Workers -> Work] /\ UNCHANGED <<users, chats, messages>> /\ work[w].pc = "load"
    BY Zenon DEF TypeOK, LoadJob
  <1>1. PICK m \in MessageIds : m = work[w].job.message
    BY <1>0 DEF RefsTyped, Job
  <1>2. CASE Fail(w)
    BY <1>0, <1>2, JobFails
  <1>3. CASE ~Fail(w)
    <2>1. PICK todo, seen : todo = Recipients(m) /\ seen = IsStaff(messages[m].user)
      OBVIOUS
    <2>2. /\ work' = [work EXCEPT ![w].pc = "sender", ![w].todo = todo, ![w].seen = seen]
          /\ UNCHANGED <<queue, retry>>
      BY <1>1, <1>3, <2>1, Zenon DEF LoadJob
    <2>3. \A u \in todo : IsStaff(u) \/ u = SenderOf(m)
      BY <2>1, Zenon DEF Recipients, StaffUsers, SenderOf
    <2>4. Posted(m)
      BY <1>0, <1>1 DEF JobsRefer
    <2>5. /\ work'[w].todo = todo /\ work'[w].job = work[w].job
          /\ \A v \in Workers \ {w} : work'[v] = work[v]
      BY <1>0, <2>2, Zenon DEF Work
    <2>6. WorkRefers(w)'
      BY <1>0, <1>1, <2>3, <2>4, <2>5, Zenon DEF WorkRefers, Posted, IsStaff, SenderOf
    <2>7. \A v \in Workers \ {w} : WorkRefers(v)'
      BY <2>5, WorkStays, Zenon DEF JobsRefer, WorkRefers
    <2>8. QED
      BY <2>2, <2>6, <2>7, QueuesStay, Zenon DEF JobsRefer, WorkRefers, Posted
  <1>4. QED
    BY <1>2, <1>3

\* Every step keeps what the jobs refer to.
LEMMA JobsNext ==
  ASSUME Typed, Sound, Without(GeneratedPages), [Next]_vars
  PROVE  JobsRefer'
  <1> USE DEF rows, jobs, pages
  <1>0. /\ TypeOK /\ RefsTyped /\ MessagesPlaced /\ Kept /\ JobsRefer
        /\ work \in [Workers -> Work] /\ NoWork.pc = "idle"
    BY TablesNext, Zenon DEF Typed, Sound, Tables, TypeOK, NoWork
  <1>1. ASSUME UNCHANGED <<queue, retry, work>>
        PROVE  JobsRefer'
    BY <1>0, <1>1, JobsStay
  <1>2. ASSUME NEW w \in Workers, JobStep(w) \/ BroadcastFails(w)
        PROVE  JobsRefer'
    <2>1. CASE PushSender(w) \/ EndJob(w)
      <3>1. UNCHANGED <<queue, retry>>
        BY <2>1, Zenon DEF PushSender, EndJob
      <3>2. ASSUME NEW v \in Workers, work'[v].pc # "idle"
            PROVE  work[v].pc # "idle" /\ work'[v].job = work[v].job /\ work'[v].todo = work[v].todo
        BY <1>0, <2>1, <3>2 DEF PushSender, EndJob, Work
      <3>3. \A v \in Workers : WorkRefers(v)'
        BY <1>0, <3>2, WorkStays, Zenon DEF JobsRefer, WorkRefers
      <3>4. QED
        BY <1>0, <3>1, <3>3, QueuesStay, Zenon DEF JobsRefer, WorkRefers, Posted
    <2>2. ASSUME NEW u \in Users, PushRecipient(w, u)
          PROVE  JobsRefer'
      <3>1. CASE Fail(w)
        BY <1>0, <2>2, <3>1, JobFails, Zenon DEF PushRecipient
      <3>2. CASE ~Fail(w)
        <4>1. /\ UNCHANGED <<queue, retry>> /\ work[w].pc # "idle"
              /\ work' = [work EXCEPT ![w].todo = work[w].todo \ {u}, ![w].seen = TRUE]
          BY <2>2, <3>2, Zenon DEF PushRecipient
        <4>2. ASSUME NEW v \in Workers, work'[v].pc # "idle"
              PROVE  work[v].pc # "idle" /\ work'[v].job = work[v].job
                     /\ work'[v].todo \subseteq work[v].todo
          BY <1>0, <4>1, <4>2 DEF Work
        <4>3. \A v \in Workers : WorkRefers(v)'
          BY <1>0, <4>2, WorkStays, Zenon DEF JobsRefer, WorkRefers
        <4>4. QED
          BY <1>0, <4>1, <4>3, QueuesStay, Zenon DEF JobsRefer, WorkRefers, Posted
      <3>3. QED
        BY <3>1, <3>2
    <2>3. CASE BroadcastFails(w)
      BY <1>0, <2>3, JobFails DEF BroadcastFails
    <2>4. QED
      BY <1>0, <1>2, <2>1, <2>2, <2>3, JobFetched, JobLoaded DEF JobStep
  <1>3. ASSUME NEW t \in Threads, Enqueue(t)
        PROVE  JobsRefer'
    <2>1. PICK job : job = [message |-> req[t].row, tries |-> 0]
      BY Zenon
    <2>2. job.message = req[t].row /\ req[t].row \in MessageIds /\ Posted(req[t].row)
      BY <1>0, <1>3, <2>1, Zenon DEF Enqueue, RefsTyped, Sound, Requests, LocalsRefer
    <2>3. job \in Job
      BY <2>1, <2>2, ChatAssumption DEF Job
    <2>4. QED
      BY <1>0, <1>3, <2>1, <2>2, <2>3, JobAdded, Zenon DEF Enqueue
  <1>4. ASSUME NEW job \in retry, RetryDue(job)
        PROVE  JobsRefer'
    <2>1. job \in Job /\ Posted(job.message)
      BY <1>0, Zenon DEF TypeOK, JobsRefer
    <2>2. QED
      BY <1>0, <1>4, <2>1, JobAdded, Zenon DEF RetryDue
  <1>5. CASE Crash
    <2>1. \A v \in Workers : work'[v].pc # "idle" => work'[v] = work[v]
      BY <1>0, <1>5 DEF Crash
    <2>2. \A v \in Workers : WorkRefers(v)'
      BY <1>0, <2>1, WorkStays, Zenon DEF JobsRefer, WorkRefers
    <2>3. UNCHANGED <<queue, retry>>
      BY <1>5 DEF Crash
    <2>4. QED
      BY <1>0, <2>2, <2>3, QueuesStay, Zenon DEF JobsRefer, WorkRefers, Posted
  <1>6. ASSUME NEW t \in Threads, \/ \E u \in Users, w \in ChatIds : BeginPost(t, u, w)
                                  \/ InsertMessage(t)
                                  \/ \E c \in ChatIds : ChatsDestroy(t, c)
        PROVE  UNCHANGED <<queue, retry, work>>
    BY <1>6, Zenon DEF BeginPost, InsertMessage, ChatsDestroy
  <1>7. ASSUME NEW u \in Users,
               ChatsCreate(u) \/ OpenPage(u) \/ ClosePage(u) \/ \E c \in ChatIds : ChatsUpdate(c, u)
        PROVE  UNCHANGED <<queue, retry, work>>
    BY <1>7, Zenon DEF ChatsCreate, OpenPage, ClosePage, ChatsUpdate
  <1>8. CASE UNCHANGED vars
    BY <1>1, <1>8 DEF vars
  <1>9. QED
    BY <1>1, <1>2, <1>3, <1>4, <1>5, <1>6, <1>7, <1>8, Zenon DEF Next

\* What a page was sent stays its own.
LEMMA PagesStay ==
  ASSUME TypeOK, MessagesPlaced, Kept, PagesOwn, NEW u \in Users, NEW i \in DOMAIN pushed[u]
  PROVE  /\ messages'[pushed[u][i]].st # "new"
         /\ IsStaff(u)' \/ u = chats'[messages'[pushed[u][i]].chat].sender
  <1>1. pushed[u] \in Seq(MessageIds)
    BY DEF TypeOK
  <1>2. PICK m \in MessageIds : m = pushed[u][i]
    BY <1>1
  <1>3. Posted(m) /\ (IsStaff(u) \/ u = SenderOf(m))
    BY <1>2 DEF PagesOwn
  <1>4. Posted(m)' /\ SenderOf(m)' = SenderOf(m)
    BY <1>3, SenderKept
  <1>5. IsStaff(u)' \/ u = SenderOf(m)'
    BY <1>3, <1>4, Zenon DEF Kept
  <1>6. QED
    BY <1>2, <1>4, <1>5, Zenon DEF Posted, SenderOf

\* What is sent to a page is its own.
LEMMA PageSent ==
  ASSUME TypeOK, MessagesPlaced, Kept, PagesOwn, UNCHANGED <<users, chats, messages>>,
         NEW u \in Users, NEW m \in MessageIds, Posted(m), IsStaff(u) \/ u = SenderOf(m),
         Broadcast(u, m)
  PROVE  PagesOwn'
  <1>0. pushed \in [Users -> Seq(MessageIds)]
    BY DEF TypeOK
  <1>1. /\ \A v \in Users \ {u} : pushed'[v] = pushed[v]
        /\ pushed'[u] = pushed[u] \/ pushed'[u] = Append(pushed[u], m)
    BY <1>0 DEF Broadcast
  <1>2. PICK s \in Seq(MessageIds) : s = pushed[u]
    BY <1>0
  <1>3. \A i \in DOMAIN Append(s, m) : Append(s, m)[i] = m \/ (i \in DOMAIN s /\ Append(s, m)[i] = s[i])
    BY <1>2
  <1>4. \A i \in DOMAIN pushed'[u] :
            pushed'[u][i] = m \/ (i \in DOMAIN pushed[u] /\ pushed'[u][i] = pushed[u][i])
    BY <1>1, <1>2, <1>3, Zenon
  <1>5. ASSUME NEW v \in Users, NEW i \in DOMAIN pushed'[v]
        PROVE  /\ messages'[pushed'[v][i]].st # "new"
               /\ IsStaff(v)' \/ v = chats'[messages'[pushed'[v][i]].chat].sender
    <2>1. CASE i \in DOMAIN pushed[v] /\ pushed'[v][i] = pushed[v][i]
      BY <2>1, PagesStay, ZenonT(40)
    <2>2. CASE v = u /\ pushed'[v][i] = m
      BY <2>2, Zenon DEF Posted, IsStaff, SenderOf
    <2>3. QED
      BY <1>1, <1>4, <2>1, <2>2, Zenon
  <1>6. QED
    BY <1>5, Zenon DEF PagesOwn, Posted, IsStaff, SenderOf

\* Every step keeps the pages apart.
LEMMA PagesNext ==
  ASSUME Typed, Sound, Without(GeneratedPages), [Next]_vars
  PROVE  PagesOwn'
  <1> USE DEF rows, jobs, pages
  <1>0. /\ TypeOK /\ RefsTyped /\ MessagesPlaced /\ Kept /\ JobsRefer /\ PagesOwn
        /\ pushed \in [Users -> Seq(MessageIds)]
    BY TablesNext, Zenon DEF Typed, Sound, Tables, TypeOK
  <1>1. ASSUME UNCHANGED pushed
        PROVE  PagesOwn'
    BY <1>0, <1>1, PagesStay, ZenonT(40) DEF PagesOwn, Posted, IsStaff, SenderOf
  <1>2. ASSUME NEW u \in Users, OpenPage(u)
        PROVE  PagesOwn'
    <2>1. pushed'[u] = <<>> /\ \A v \in Users \ {u} : pushed'[v] = pushed[v]
      BY <1>0, <1>2 DEF OpenPage
    <2>2. ASSUME NEW v \in Users, NEW i \in DOMAIN pushed'[v]
          PROVE  /\ messages'[pushed'[v][i]].st # "new"
                 /\ IsStaff(v)' \/ v = chats'[messages'[pushed'[v][i]].chat].sender
      <3>1. v # u
        BY <2>1, <2>2
      <3>2. pushed'[v] = pushed[v]
        BY <2>1, <3>1
      <3>3. QED
        BY <1>0, <2>2, <3>2, PagesStay, Zenon
    <2>3. QED
      BY <2>2, Zenon DEF PagesOwn, Posted, IsStaff, SenderOf
  <1>3. ASSUME NEW w \in Workers, PushSender(w)
        PROVE  PagesOwn'
    <2>1. PICK m, u : m \in MessageIds /\ m = work[w].job.message /\ u = messages[m].user
      BY <1>0, <1>3, Zenon DEF PushSender, RefsTyped, Job
    <2>2. Posted(m)
      BY <1>0, <1>3, <2>1, Zenon DEF PushSender, JobsRefer
    <2>3. u \in Users /\ (IsStaff(u) \/ u = SenderOf(m))
      BY <1>0, <2>1, <2>2, Zenon DEF MessagesPlaced
    <2>4. Broadcast(u, m) /\ UNCHANGED <<users, chats, messages>>
      BY <1>3, <2>1, Zenon DEF PushSender
    <2>5. QED
      BY <1>0, <2>1, <2>2, <2>3, <2>4, PageSent, Zenon
  <1>4. ASSUME NEW w \in Workers, NEW u \in Users, PushRecipient(w, u)
        PROVE  PagesOwn'
    <2>1. PICK m \in MessageIds : m = work[w].job.message
      BY <1>0, <1>4, Zenon DEF PushRecipient, RefsTyped, Job
    <2>2. Posted(m) /\ (IsStaff(u) \/ u = SenderOf(m))
      BY <1>0, <1>4, <2>1, Zenon DEF PushRecipient, JobsRefer
    <2>3. CASE UNCHANGED pushed
      BY <1>1, <2>3
    <2>4. CASE Broadcast(u, m)
      BY <1>0, <1>4, <2>2, <2>4, PageSent, Zenon DEF PushRecipient
    <2>5. QED
      BY <1>4, <2>1, <2>3, <2>4, Zenon DEF PushRecipient
  <1>5. ASSUME NEW w \in Workers, Fetch(w) \/ LoadJob(w) \/ EndJob(w) \/ BroadcastFails(w)
        PROVE  UNCHANGED pushed
    BY <1>5, Zenon DEF Fetch, LoadJob, EndJob, BroadcastFails
  <1>6. ASSUME NEW t \in Threads, \/ \E u \in Users, w \in ChatIds : BeginPost(t, u, w)
                                  \/ InsertMessage(t) \/ Enqueue(t)
                                  \/ \E c \in ChatIds : ChatsDestroy(t, c)
        PROVE  UNCHANGED pushed
    BY <1>6, Zenon DEF BeginPost, InsertMessage, Enqueue, ChatsDestroy
  <1>7. ASSUME NEW u \in Users,
               ChatsCreate(u) \/ ClosePage(u) \/ \E c \in ChatIds : ChatsUpdate(c, u)
        PROVE  UNCHANGED pushed
    BY <1>7 DEF ChatsCreate, ClosePage, ChatsUpdate
  <1>8. ASSUME Crash \/ (\E job \in retry : RetryDue(job)) \/ UNCHANGED vars
        PROVE  UNCHANGED pushed
    BY <1>8 DEF Crash, RetryDue, vars
  <1>9. QED
    BY <1>1, <1>2, <1>3, <1>4, <1>5, <1>6, <1>7, <1>8, Zenon DEF Next, JobStep

-----------------------------------------------------------------------------
(***************************************************************************)
(* The invariant, and what follows from it.                                *)
(***************************************************************************)
LEMMA InitChat == Init => ChatInv
  <1> SUFFICES ASSUME Init PROVE ChatInv
    OBVIOUS
  <1>1. RefsTyped
    BY Zenon DEF Init, AccountsInit, RefsTyped, NoRequest, NoWork
  <1>2. Tables
    BY Zenon
       DEF Init, AccountsInit, Tables, NewUsersPlain, ChatsOwned, MessagesPlaced, Chatted, Posted,
       NoUser, NoChat, NoMessage
  <1>3. Requests
    BY ZenonT(40) DEF Init, AccountsInit, Requests, AccountOwned, LocalsRefer, NoRequest
  <1>4. JobsRefer
    BY DEF Init, JobsRefer, NoWork
  <1>5. PagesOwn
    <2>1. \A u \in Users : pushed[u] = <<>>
      BY DEF Init
    <2>2. QED
      BY <2>1 DEF PagesOwn
  <1>6. QED
    BY <1>1, <1>2, <1>3, <1>4, <1>5, InitType DEF ChatInv, Sound, Typed

\* Every step keeps the invariant.
LEMMA NextChat == ChatInv /\ [Next]_vars => ChatInv'
  <1> SUFFICES ASSUME ChatInv, [Next]_vars PROVE ChatInv'
    OBVIOUS
  <1>1. Typed'
    BY NextTyped DEF ChatInv
  <1>2. load' = load
    BY DEF Next, vars
  <1>3. ASSUME Without(GeneratedPages)' PROVE Sound'
    BY <1>2, <1>3, TablesNext, RequestsNext, JobsNext, PagesNext DEF ChatInv, Sound, Without
  <1>4. QED
    BY <1>1, <1>3 DEF ChatInv

\* Every request, job and page of the chat, and every row of its tables, is
\* well typed in every reachable state, and refers to rows that exist.
THEOREM ChatInvariant == Spec => []ChatInv
  BY InitChat, NextChat, PTL DEF Spec

\* UsersController#create, import and destroy, ChatMessagesController#create,
\* MessageBroadcastJob and the pages keep the types of their tables, locals
\* and jobs.
THEOREM ChatTypeCorrect == Spec => []TypeOK
  <1>1. ChatInv => TypeOK
    BY DEF ChatInv, Typed
  <1>2. QED
    BY <1>1, ChatInvariant, PTL

\* User#destroy takes the account's only chat along, in one transaction, and
\* create gives a chat to an account it alone works on: no chat outlives its
\* sender, so the layout of the admin pages can always show the name.
THEOREM ChatsHaveSenders == Spec => []AdminPagesRender
  <1>1. ChatInv => AdminPagesRender
    BY Zenon DEF ChatInv, Sound, Tables, ChatsOwned, AdminPagesRender, LiveChats, Chatted
  <1>2. QED
    BY <1>1, ChatInvariant, PTL

\* MessageBroadcastJob sends a customer's page nothing but messages of that
\* customer's chat, whatever posts, answers, retries and restarts overlap.
THEOREM CustomersSeeTheirChat == Spec => []CustomerSeesOwnChat
  <1>1. ChatInv => CustomerSeesOwnChat
    <2>1. Typed => streams \subseteq Users
      BY DEF Typed, TypeOK
    <2>2. QED
      BY <2>1, Zenon DEF ChatInv, Sound, PagesOwn, CustomerSeesOwnChat, SenderOf
  <1>2. QED
    BY <1>1, ChatInvariant, PTL

\* The chat ChatMessagesController#create finds is the one the form was shown
\* in, as staff never own a chat.
THEOREM AnswersStayInTheirChat == Spec => []AnswerInItsChat
  <1>1. ChatInv => AnswerInItsChat
    BY Zenon
       DEF ChatInv, Sound, Tables, MessagesPlaced, AnswerInItsChat, LiveMessages, Posted, SenderOf
  <1>2. QED
    BY <1>1, ChatInvariant, PTL
=============================================================================
