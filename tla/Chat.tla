-------------------------------- MODULE Chat --------------------------------
(***************************************************************************)
(* The support chat: messages are stored by ChatMessagesController, a      *)
(* Sidekiq job queued after the commit broadcasts each one through Action  *)
(* Cable, and open pages append what they are sent.  Composed with the     *)
(* accounts whose chats these are.                                         *)
(***************************************************************************)
EXTENDS Accounts, Sequences

CONSTANTS
    Workers,     \* Sidekiq threads
    MaxTries     \* a job is given up after so many retries (25 in Sidekiq)

ASSUME ChatAssumption ==
    Loads \subseteq Load /\ MaxTries \in Nat

VARIABLES
    queue,      \* the Sidekiq queue in Redis, head next
    retry,      \* jobs that failed and wait for their next try
    work,       \* the job each Sidekiq thread runs, with its locals
    streams,    \* users with an open page, subscribed to their channel
    pushed,     \* the messages broadcast to each user's open pages, in order
    faults      \* failed broadcasts and restarts so far

jobs == <<queue, retry, work>>
pages == <<streams, pushed>>
rows == <<users, chats, messages>>
vars == <<rows, req, jobs, pages, faults, load>>

Job == [message : MessageIds, tries : 0..MaxTries]

\* seen: message.chat has been loaded.
Work ==
    [pc : {"idle", "load", "sender", "recipients"}, job : Job \cup {None},
     todo : SUBSET Users, seen : BOOLEAN]

NoWork == [pc |-> "idle", job |-> None, todo |-> {}, seen |-> FALSE]

-----------------------------------------------------------------------------
(***************************************************************************)
(* The chat windows of a page (set_chat), and the form in each of them,    *)
(* which sends the chat's sender_id along.                                 *)
(***************************************************************************)
Windows(u) ==
    IF IsStaff(u) THEN {c \in LiveChats : MessagesOf(c) # {}}
    ELSE {c \in LiveChats : chats[c].sender = u}

\* where(sender_id: current_user).or(where(sender_id: params)).first
ChatFor(u, s) == FirstOf({c \in LiveChats : chats[c].sender \in {u, s}})

BeginPost(t, u, w) ==
    /\ Starts(t, "post")
    /\ LiveUser(u) /\ w \in Windows(u)
    /\ Cardinality({x \in Threads : req[x].pc = "insert"})
          + Cardinality({m \in MessageIds : messages[m].st # "new"}) < load.posts
    /\ \E c \in ChatFor(u, chats[w].sender) :
          Continue(t, [NoRequest EXCEPT !.pc = "insert", !.user = u,
                                            !.window = chats[w].sender, !.chat = c])
    /\ UNCHANGED <<rows, jobs, pages, faults>>

\* There is no foreign key: the chat may be gone by now.
InsertMessage(t) ==
    /\ req[t].pc = "insert"
    /\ \E m \in FirstOf({x \in MessageIds : messages[x].st = "new"}) :
          /\ messages' = [messages EXCEPT ![m] =
                [st |-> "live", chat |-> req[t].chat, user |-> req[t].user,
                 window |-> req[t].window]]
          /\ Continue(t, [req[t] EXCEPT !.pc = "enqueue", !.row = m])
    /\ UNCHANGED <<users, chats, jobs, pages, faults>>

\* after_create_commit
Enqueue(t) ==
    /\ req[t].pc = "enqueue"
    /\ queue' = Append(queue, [message |-> req[t].row, tries |-> 0])
    /\ Finish(t)
    /\ UNCHANGED <<rows, retry, work, pages, faults>>

-----------------------------------------------------------------------------
(***************************************************************************)
(* The generated pages of ChatsController, open to every user who is       *)
(* signed in: a chat for any sender, and its removal.                      *)
(***************************************************************************)
ChatsCreate(u) ==
    /\ "chats_create" \in load.handlers /\ u \in UNION load.lists
    /\ InsertChat(u)
    /\ UNCHANGED <<users, messages, req, jobs, pages, faults>>

ChatsUpdate(c, u) ==
    /\ "chats_update" \in load.handlers /\ u \in UNION load.lists
    /\ c \in LiveChats
    /\ chats' = [chats EXCEPT ![c].sender = u]
    /\ UNCHANGED <<users, messages, req, jobs, pages, faults>>

ChatsDestroy(t, c) ==
    /\ Starts(t, "chats_destroy")
    /\ c \in LiveChats
    /\ Continue(t, [NoRequest EXCEPT !.pc = "commit", !.chat = c, !.rows = MessagesOf(c)])
    /\ UNCHANGED <<rows, jobs, pages, faults>>

-----------------------------------------------------------------------------
(***************************************************************************)
(* MessageBroadcastJob.  A job that raises is tried again later, from the  *)
(* start; a Sidekiq thread that dies takes its job with it.                *)
(***************************************************************************)
Fetch(w) ==
    /\ work[w].pc = "idle" /\ queue # <<>>
    /\ work' = [work EXCEPT ![w] = [NoWork EXCEPT !.pc = "load", !.job = Head(queue)]]
    /\ queue' = Tail(queue)
    /\ UNCHANGED <<rows, req, retry, pages, faults>>

\* discard_on ActiveJob::DeserializationError, for every error.
FailDiscards(w) ==
    work' = [work EXCEPT ![w] = NoWork] /\ UNCHANGED <<queue, retry>>

Fail(w) ==
    LET job == work[w].job IN
    /\ retry' = IF job.tries < MaxTries
                THEN retry \cup {[job EXCEPT !.tries = @ + 1]} ELSE retry
    /\ work' = [work EXCEPT ![w] = NoWork]
    /\ UNCHANGED queue

RetryDue(job) ==
    /\ job \in retry
    /\ retry' = retry \ {job}
    /\ queue' = Append(queue, job)
    /\ UNCHANGED <<rows, req, work, pages, faults>>

\* User.with_any_role(:staff, :admin)
StaffUsers == {u \in Users : LiveUser(u) /\ IsStaff(u)}

\* The channel everyone streams from.
RecipientsEveryone(m) == {u \in Users : LiveUser(u)} \ {messages[m].user}

\* Staff write to the customer and to the other staff, customers to all staff.
Recipients(m) ==
    LET row == messages[m] IN
    IF IsStaff(row.user)
    THEN {u \in Users : LiveUser(u) /\ u = chats[row.chat].sender}
            \cup (StaffUsers \ {row.user})
    ELSE StaffUsers

(***************************************************************************)
(* The message (the job's argument), its user and, for staff, its chat     *)
(* must still be there.                                                    *)
(***************************************************************************)
LoadJob(w) ==
    LET m == work[w].job.message
        row == messages[m]
        found == /\ row.st = "live" /\ LiveUser(row.user)
                 /\ IsStaff(row.user) => row.chat \in LiveChats
    IN  /\ work[w].pc = "load"
        /\ IF found
           THEN /\ work' = [work EXCEPT ![w].pc = "sender", ![w].todo = Recipients(m),
                                        ![w].seen = IsStaff(row.user)]
                /\ UNCHANGED <<queue, retry>>
           ELSE Fail(w)
        /\ UNCHANGED <<rows, req, pages, faults>>

\* ActionCable.server.broadcast: who is not subscribed now never gets it.
Broadcast(u, m) ==
    pushed' = IF u \in streams THEN [pushed EXCEPT ![u] = Append(@, m)] ELSE pushed

PushSender(w) ==
    LET m == work[w].job.message IN
    /\ work[w].pc = "sender"
    /\ Broadcast(messages[m].user, m)
    /\ work' = [work EXCEPT ![w].pc = "recipients"]
    /\ UNCHANGED <<rows, req, queue, retry, streams, faults>>

\* The partial reads the chat of the message when it is another's.
PushRecipient(w, u) ==
    LET m == work[w].job.message IN
    /\ work[w].pc = "recipients" /\ u \in work[w].todo
    /\ \/ /\ work[w].seen \/ messages[m].chat \in LiveChats
          /\ Broadcast(u, m)
          /\ work' = [work EXCEPT ![w].todo = @ \ {u}, ![w].seen = TRUE]
          /\ UNCHANGED <<queue, retry>>
       \/ /\ ~work[w].seen /\ messages[m].chat \notin LiveChats
          /\ Fail(w)
          /\ UNCHANGED pushed
    /\ UNCHANGED <<rows, req, streams, faults>>

EndJob(w) ==
    /\ work[w].pc = "recipients" /\ work[w].todo = {}
    /\ work' = [work EXCEPT ![w] = NoWork]
    /\ UNCHANGED <<rows, req, queue, retry, pages, faults>>

\* Redis cannot be reached when the job broadcasts.
BroadcastFails(w) ==
    /\ faults.failures < load.failures
    /\ work[w].pc \in {"sender", "recipients"}
    /\ Fail(w)
    /\ faults' = [faults EXCEPT !.failures = @ + 1]
    /\ UNCHANGED <<rows, req, pages>>

-----------------------------------------------------------------------------
\* A signed-in user opens a page, which subscribes; or closes it.
OpenPage(u) ==
    /\ LiveUser(u) /\ u \notin streams
    /\ streams' = streams \cup {u}
    /\ pushed' = [pushed EXCEPT ![u] = <<>>]
    /\ UNCHANGED <<rows, req, jobs, faults>>

ClosePage(u) ==
    /\ "close" \in load.handlers
    /\ u \in streams
    /\ streams' = streams \ {u}
    /\ UNCHANGED <<rows, req, jobs, pushed, faults>>

\* A restart of Puma or of Sidekiq: requests or jobs in flight are lost.
Crash ==
    /\ faults.crashes < load.crashes
    /\ faults' = [faults EXCEPT !.crashes = @ + 1]
    /\ \/ req' = [t \in Threads |-> NoRequest] /\ streams' = {} /\ UNCHANGED work
       \/ work' = [w \in Workers |-> NoWork] /\ UNCHANGED <<req, streams>>
    /\ UNCHANGED <<rows, queue, retry, pushed>>

Init ==
    /\ AccountsInit
    /\ queue = <<>> /\ retry = {}
    /\ work = [w \in Workers |-> NoWork]
    /\ streams = {}
    /\ pushed = [u \in Users |-> <<>>]
    /\ faults = [failures |-> 0, crashes |-> 0]

JobStep(w) ==
    \/ Fetch(w) \/ LoadJob(w) \/ PushSender(w) \/ EndJob(w)
    \/ \E u \in Users : PushRecipient(w, u)

RequestStep(t) ==
    \/ AccountsStep(t) /\ UNCHANGED <<jobs, pages, faults>>
    \/ InsertMessage(t)
    \/ Enqueue(t)

Next ==
    /\ \/ AccountsNext /\ UNCHANGED <<jobs, pages, faults>>
       \/ \E t \in Threads :
             \/ \E u \in Users, w \in ChatIds : BeginPost(t, u, w)
             \/ InsertMessage(t) \/ Enqueue(t)
             \/ \E c \in ChatIds : ChatsDestroy(t, c)
       \/ \E u \in Users :
             ChatsCreate(u) \/ OpenPage(u) \/ ClosePage(u) \/ \E c \in ChatIds : ChatsUpdate(c, u)
       \/ \E w \in Workers : JobStep(w) \/ BroadcastFails(w)
       \/ \E job \in retry : RetryDue(job)
       \/ Crash
    /\ UNCHANGED load

Spec == Init /\ [][Next]_vars

(***************************************************************************)
(* Threads go on with what they serve, Sidekiq threads with their job and  *)
(* with the queue, and the retry poller with what is due.                  *)
(***************************************************************************)
Fairness ==
    /\ \A t \in Threads : WF_vars(RequestStep(t) /\ UNCHANGED load)
    /\ \A w \in Workers : WF_vars(JobStep(w) /\ UNCHANGED load)
    /\ WF_vars((\E job \in retry : RetryDue(job)) /\ UNCHANGED load)

FairSpec == Spec /\ Fairness

-----------------------------------------------------------------------------
\* Tables, locals, queue and pages hold values of their type.
TypeOK ==
    /\ users \in [Users -> UserRow] /\ chats \in [ChatIds -> ChatRow]
    /\ messages \in [MessageIds -> MessageRow]
    /\ req \in [Threads -> Request]
    /\ queue \in Seq(Job) /\ retry \subseteq Job
    /\ work \in [Workers -> Work]
    /\ streams \subseteq Users /\ pushed \in [Users -> Seq(MessageIds)]
    /\ faults \in [failures : 0..load.failures, crashes : 0..load.crashes]

Without(handlers) == load.handlers \cap handlers = {}

GeneratedPages == {"chats_create", "chats_update", "chats_destroy"}

(***************************************************************************)
(* Every admin page shows the name of each chat's sender                   *)
(* (layouts/application.html.erb): while nobody uses the generated chat    *)
(* pages, a chat with messages never outlives its sender, whatever         *)
(* requests overlap.                                                       *)
(***************************************************************************)
AdminPagesRender ==
    Without(GeneratedPages) =>
        \A c \in LiveChats : MessagesOf(c) # {} => LiveUser(chats[c].sender)

(***************************************************************************)
(* While nobody uses the generated chat pages, a customer's page is only   *)
(* ever sent messages of the customer's own chat: staff answers are stored *)
(* in the chat whose window they were typed into, and broadcast to that    *)
(* chat's sender.                                                          *)
(***************************************************************************)
CustomerSeesOwnChat ==
    Without(GeneratedPages) =>
        \A u \in streams : \A i \in DOMAIN pushed[u] :
            IsStaff(u) \/ chats[messages[pushed[u][i]].chat].sender = u

(***************************************************************************)
(* An answer is stored in the chat it was typed into.  ChatMessages#create *)
(* prefers the poster's own chat, so this rests on staff never being given *)
(* one: by UsersController, and by nobody using the generated pages.       *)
(***************************************************************************)
AnswerInItsChat ==
    Without(GeneratedPages) =>
        \A m \in LiveMessages : chats[messages[m].chat].sender = messages[m].window

\* The job of a message has not started, or starts again.
Waiting(m) ==
    \/ \E t \in Threads : req[t].pc = "enqueue" /\ req[t].row = m
    \/ \E i \in DOMAIN queue : queue[i].message = m
    \/ \E job \in retry : job.message = m

\* Message, poster and chat are there, and u's page is open on a staff account.
Standing(m, u) ==
    /\ messages[m].st = "live" /\ LiveUser(messages[m].user)
    /\ messages[m].chat \in LiveChats
    /\ u \in streams /\ u \in StaffUsers
    /\ faults.crashes = 0

IsPushed(m, u) == \E i \in DOMAIN pushed[u] : pushed[u][i] = m

(***************************************************************************)
(* A stored message reaches every staff page that stays open, although     *)
(* broadcasts fail now and then, as long as message, poster and chat stay  *)
(* and no process is restarted.                                            *)
(***************************************************************************)
ReachesStaff ==
    \A m \in MessageIds, u \in Users :
        Waiting(m) /\ Standing(m, u) ~> ~Standing(m, u) \/ IsPushed(m, u)
=============================================================================
