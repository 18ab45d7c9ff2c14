------------------------------ MODULE Clients ------------------------------
(***************************************************************************)
(* The connections of one Redis server (networking.c, and the parts of     *)
(* server.c, blocked.c and timeout.c that drive them): accepting, reading  *)
(* and parsing requests that arrive in pieces, the reply buffers and       *)
(* partial writes, the queues of clients to write, read, resume and close, *)
(* I/O threads, CLIENT PAUSE, busy scripts, output buffer limits, client   *)
(* eviction, MONITOR and the event loop that calls all of them in turn.    *)
(*                                                                         *)
(* The query buffer is a sequence of tokens: <<"*", n>> and <<"$", n>> are *)
(* the headers of the protocol, <<"c", x>> any other text.  A reply is a   *)
(* sequence of units.  Allocations have the size that is asked for.        *)
(***************************************************************************)
EXTENDS Integers, Sequences, SequencesExt, FiniteSetsExt

CONSTANTS Visits,        \* the workloads: configuration, and what every connection sends
          BucketMin,     \* CLIENT_MEM_USAGE_BUCKET_MIN_LOG
          BucketMax,     \* CLIENT_MEM_USAGE_BUCKET_MAX_LOG
          ThreadRatio,   \* pending writes per I/O thread that start the threads
          LineMax,       \* PROTO_INLINE_MAX_SIZE
          BigArg         \* PROTO_MBULK_BIG_ARG

VARIABLE net             \* the server and its connections

Ids(s) == DOMAIN s.cl

Live(s) == {i \in Ids(s) : s.cl[i].live}

Has(s, i, flag) == flag \in s.cl[i].flags

Set(s, i, flag) == [s EXCEPT !.cl[i].flags = @ \cup {flag}]

Clear(s, i, flag) == [s EXCEPT !.cl[i].flags = @ \ {flag}]

CR == <<"c", "CR">>

LF == <<"c", "LF">>

-----------------------------------------------------------------------------
(* Memory accounting: what a client uses, by type and by bucket.           *)

getClientType(c) ==
    IF "slave" \in c.flags /\ "monitor" \notin c.flags THEN "slave" ELSE "normal"

getClientOutputBufferMemoryUsage(c) == c.bytes + Len(c.list)

ArgvSum(argv) == FoldLeft(LAMBDA n, a : n + Len(a), 0, argv)

getClientMemoryUsage(c) ==
    getClientOutputBufferMemoryUsage(c) + Len(c.qb) + c.cap + ArgvSum(c.argv)

BitLength(n) == CHOOSE k \in 0..31 : n < 2 ^ k /\ (k = 0 \/ n >= 2 ^ (k - 1))

getMemUsageBucket(mem) == Max({BucketMin, Min({BucketMax, BitLength(mem)})}) - BucketMin

clientEvictionAllowed(s, i) == s.visit.evict > 0 /\ ~Has(s, i, "no_evict")

\* stat_clients_type_memory follows the usage last seen
updateClientMemoryUsage(s, i) ==
    LET mem == getClientMemoryUsage(s.cl[i]) IN
    [s EXCEPT !.used = (@ - s.cl[i].mem) + mem, !.cl[i].mem = mem]

\* The bucket keeps the client when it stays evictable; only its sum changes then.
removeClientFromMemUsageBucket(s, i, allow) ==
    LET b == s.cl[i].bucket IN
    IF b < 0 THEN s
    ELSE LET lighter == [s EXCEPT !.buckets[b].sum = @ - s.cl[i].mem] IN
         IF allow THEN lighter
         ELSE [lighter EXCEPT !.buckets[b].clients = SelectSeq(@, LAMBDA j : j # i), !.cl[i].bucket = -1]

\* Into the bucket of its size, where it may be already
addClientToMemUsageBucket(s, i) ==
    LET b == getMemUsageBucket(s.cl[i].mem)
        old == s.cl[i].bucket
    IN [s EXCEPT
          !.cl[i].bucket = b,
          !.buckets = [k \in DOMAIN @ |->
              [sum |-> @[k].sum + (IF k = b THEN s.cl[i].mem ELSE 0),
               clients |-> IF b = old \/ k \notin {b, old} THEN @[k].clients
                           ELSE IF k = b THEN Append(@[k].clients, i)
                           ELSE SelectSeq(@[k].clients, LAMBDA j : j # i)]]]

updateClientMemUsageAndBucket(s, i) ==
    IF clientEvictionAllowed(s, i)
    THEN addClientToMemUsageBucket(
             updateClientMemoryUsage(removeClientFromMemUsageBucket(s, i, TRUE), i), i)
    ELSE [removeClientFromMemUsageBucket(s, i, FALSE) EXCEPT !.asserted = @ \/ s.io.op # "idle"]

-----------------------------------------------------------------------------
(* Reply buffers.  A block of the reply list that is still to be filled is *)
(* Null.                                                                   *)

Block(u, size) == [null |-> FALSE, u |-> u, size |-> size]

Null == [null |-> TRUE, u |-> <<>>, size |-> 0]

clientHasPendingReplies(c) == c.buf # <<>> \/ c.list # <<>>

putClientInPendingWriteQueue(s, i) ==
    IF Has(s, i, "pending_write") THEN s
    ELSE [Set(s, i, "pending_write") EXCEPT !.pendingWrite = <<i>> \o @]

freeClientAsync(s, i) ==
    IF Has(s, i, "close_asap") THEN s
    ELSE [Set(s, i, "close_asap") EXCEPT !.toClose = Append(@, i)]

\* The hard limit, and the soft one when it has been reached for long enough
checkClientOutputBufferLimits(s, i) ==
    LET used == getClientOutputBufferMemoryUsage(s.cl[i])
        soft == s.visit.soft > 0 /\ used >= s.visit.soft
        since == s.cl[i].softSince
        over == \/ s.visit.hard > 0 /\ used >= s.visit.hard
                \/ soft /\ since > 0 /\ s.now - since > s.visit.softTime
    IN [over |-> over,
        s |-> [s EXCEPT !.cl[i].softSince = IF ~soft THEN 0 ELSE IF @ = 0 THEN s.now ELSE @]]

LimitChecked(s, i) == s.cl[i].bytes > 0 /\ ~Has(s, i, "close_asap")

\* From the code that adds replies: the client is only scheduled to be closed.
AsyncIfOver(r, i) == IF r.over THEN freeClientAsync(r.s, i) ELSE r.s

CloseAsyncOnLimit(s, i) ==
    IF LimitChecked(s, i) THEN AsyncIfOver(checkClientOutputBufferLimits(s, i), i) ELSE s

MayReceive(c) == c.flags \cap {"close_asap", "reply_off", "reply_skip"} = {}

prepareClientToWrite(s, i) ==
    IF ~clientHasPendingReplies(s.cl[i]) /\ s.io.op = "idle" THEN putClientInPendingWriteQueue(s, i) ELSE s

\* How much of a reply the static buffer takes: nothing once the list is in use
_addReplyToBuffer(c, u) == IF c.list # <<>> THEN 0 ELSE Min({Len(u), c.cap - Len(c.buf)})

Buffered(c, u) == [c EXCEPT !.buf = @ \o u, !.peak = Max({@, Len(c.buf) + Len(u)})]

\* A new block of the list
NewBlock(s, i, u, size) ==
    CloseAsyncOnLimit([s EXCEPT !.cl[i].list = Append(@, Block(u, size)), !.cl[i].bytes = @ + size], i)

\* What the last block of the list still has room for
Room(list) ==
    LET k == Len(list) IN IF k = 0 \/ list[k].null THEN 0 ELSE list[k].size - Len(list[k].u)

ListThenBlock(s, i, u, n) ==
    LET k == Len(s.cl[i].list)
        full == IF n = 0 THEN s ELSE [s EXCEPT !.cl[i].list[k].u = @ \o SubSeq(u, 1, n)]
    IN IF n = Len(u) THEN full
       ELSE NewBlock(full, i, SubSeq(u, n + 1, Len(u)), Max({Len(u) - n, s.visit.chunk}))

_addReplyProtoToList(s, i, u) == ListThenBlock(s, i, u, Min({Room(s.cl[i].list), Len(u)}))

BufferThenList(s, i, u, n) ==
    LET t == [s EXCEPT !.cl[i] = Buffered(@, SubSeq(u, 1, n))] IN
    IF n < Len(u) THEN _addReplyProtoToList(t, i, SubSeq(u, n + 1, Len(u))) ELSE t

_addReplyToBufferOrList(s, i, u) ==
    IF Has(s, i, "close_after_reply") THEN s
    ELSE BufferThenList(s, i, u, _addReplyToBuffer(s.cl[i], u))

addReply(s, i, u) ==
    IF ~MayReceive(s.cl[i]) THEN s ELSE _addReplyToBufferOrList(prepareClientToWrite(s, i), i, u)

trimReplyUnusedTailSpace(s, i) ==
    LET list == s.cl[i].list
        k == Len(list)
        used == Len(list[k].u)
    IN IF k = 0 \/ list[k].null THEN s
       ELSE IF list[k].size - used > list[k].size \div 4 /\ used < s.visit.chunk
            THEN [s EXCEPT !.cl[i].list[k].size = used, !.cl[i].bytes = (@ + used) - list[k].size]
            ELSE s

\* The placeholder is the last node of the list; there is none when the client may not receive.
addReplyDeferredLen(s, i) ==
    IF ~MayReceive(s.cl[i]) THEN s
    ELSE LET t == trimReplyUnusedTailSpace(prepareClientToWrite(s, i), i) IN
         [t EXCEPT !.cl[i].list = Append(@, Null)]

\* Node p is filled, or its text goes to the end of the node before or to the head of the node after it.
setDeferredReply(s, i, p, u) ==
    LET list == s.cl[i].list
        room == IF p > 1 THEN list[p - 1].size - Len(list[p - 1].u) ELSE 0
        n == Min({room, Len(u)})
        s1 == IF n = 0 THEN s ELSE [s EXCEPT !.cl[i].list[p - 1].u = @ \o SubSeq(u, 1, n)]
        rest == SubSeq(u, n + 1, Len(u))
        gone == [s1 EXCEPT !.cl[i].list = RemoveAt(@, p)]
        nextFits == /\ p < Len(list) /\ ~list[p + 1].null
                    /\ list[p + 1].size - Len(list[p + 1].u) >= Len(rest)
                    /\ Len(list[p + 1].u) < 4 * s.visit.chunk
    IN CASE rest = <<>> -> gone
         [] rest # <<>> /\ nextFits -> [gone EXCEPT !.cl[i].list[p].u = rest \o @]
         [] OTHER -> CloseAsyncOnLimit([s1 EXCEPT !.cl[i].list[p] = Block(rest, Len(rest)),
                                                  !.cl[i].bytes = @ + Len(rest)], i)

-----------------------------------------------------------------------------
(* Sending: n units leave the buffer and then the blocks of the list.      *)

Pending(c) ==
    LET all == c.buf \o FoldLeft(LAMBDA out, b : out \o b.u, <<>>, c.list) IN
    SubSeq(all, c.sentlen + 1, Len(all))

RECURSIVE ReleaseBlocks(_, _)
ReleaseBlocks(c, n) ==
    IF n = 0 THEN c
    ELSE LET left == Len(Head(c.list).u) - c.sentlen IN
         IF n < left THEN [c EXCEPT !.sentlen = @ + n]
         ELSE ReleaseBlocks([c EXCEPT !.bytes = @ - Head(c.list).size, !.list = Tail(@), !.sentlen = 0], n - left)

_writevToClient(c, n) ==
    LET left == Len(c.buf) - c.sentlen IN
    IF c.buf = <<>> THEN ReleaseBlocks(c, n)
    ELSE IF n < left THEN [c EXCEPT !.sentlen = @ + n]
    ELSE ReleaseBlocks([c EXCEPT !.buf = <<>>, !.sentlen = 0], n - left)

_writeToClient(s, i, n) ==
    LET c == _writevToClient(s.cl[i], n) IN
    [s EXCEPT !.cl[i] = [c EXCEPT !.wire = @ \o SubSeq(Pending(s.cl[i]), 1, n)],
              !.asserted = @ \/ (\E b \in ToSet(s.cl[i].list) : b.null) \/ (c.list = <<>> /\ c.bytes # 0)]

\* What one call may send: an error (-1) closes the client, 0 is a full socket buffer.
Sends(s, i) ==
    LET n == Len(Pending(s.cl[i])) IN
    ({0, 1, n} \cap 0..n) \cup (IF s.cl[i].shut THEN {-1} ELSE {})

\* A client that waited for its last reply goes.
AfterWrite(s, i) ==
    IF ~clientHasPendingReplies(s.cl[i]) /\ Has(s, i, "close_after_reply") THEN freeClientAsync(s, i)
    ELSE IF s.io.op = "idle" THEN updateClientMemUsageAndBucket(s, i) ELSE s

\* When everything was sent the handler goes.
Sent(s, i, handler) ==
    IF clientHasPendingReplies(s.cl[i]) THEN s
    ELSE [s EXCEPT !.cl[i].sentlen = 0, !.cl[i].w = IF handler THEN FALSE ELSE @,
                   !.asserted = @ \/ (handler /\ s.io.op # "idle")]

writeToClient(s, i, handler, n) ==
    IF n = -1 THEN freeClientAsync(s, i)
    ELSE AfterWrite(
             Sent([(IF n > 0 THEN _writeToClient(s, i, n) ELSE s) EXCEPT
                      !.cl[i].last = IF n > 0 /\ s.visit.idle > 0 THEN s.now ELSE @], i, handler),
             i)

installClientWriteHandler(s, i) == [s EXCEPT !.cl[i].w = TRUE]

KeepWriting(s, i) ==
    IF ~Has(s, i, "close_asap") /\ clientHasPendingReplies(s.cl[i]) THEN installClientWriteHandler(s, i) ELSE s

\* One client of handleClientsWithPendingWrites
WritePending(s, n) ==
    LET i == Head(s.pendingWrite)
        out == [Clear(s, i, "pending_write") EXCEPT !.pendingWrite = Tail(@)]
    IN IF s.cl[i].flags \cap {"protected", "close_asap"} # {} THEN out
       ELSE KeepWriting(writeToClient(out, i, FALSE, n), i)

-----------------------------------------------------------------------------
(* Blocking, and the queue of the clients that go on.                      *)

resetClient(s, i) ==
    [s EXCEPT !.cl[i].argv = <<>>, !.cl[i].reqtype = "none", !.cl[i].mbl = 0, !.cl[i].bulk = -1,
              !.cl[i].flags = (@ \ {"reply_skip", "skip_next"}) \cup
                              (IF "skip_next" \in @ THEN {"reply_skip"} ELSE {})]

blockClient(s, i, btype, timeout) ==
    LET t == [Set(s, i, "blocked") EXCEPT !.cl[i].btype = btype, !.cl[i].timeout = timeout,
                                          !.timeouts = IF timeout = 0 THEN @ ELSE @ \cup {<<timeout, i>>}]
    IN IF btype = "postpone"
       THEN [Set(t, i, "pending_command") EXCEPT !.postponed = Append(@, i)] ELSE t

queueClientForReprocessing(s, i) ==
    IF Has(s, i, "unblocked") THEN s ELSE [Set(s, i, "unblocked") EXCEPT !.unblocked = Append(@, i)]

unblockClient(s, i) ==
    LET post == s.cl[i].btype = "postpone"
        t == IF post THEN [s EXCEPT !.postponed = SelectSeq(@, LAMBDA j : j # i)] ELSE resetClient(s, i)
        free == [Clear(t, i, "blocked") EXCEPT !.cl[i].btype = "none",
                                               !.timeouts = {e \in @ : e[2] # i}]
    IN queueClientForReprocessing(free, i)

\* What a client was sent: an entry for every command that ran, and for what came outside of one
Log(s, i, a, u) == [s EXCEPT !.cl[i].done = Append(@, [a |-> a, u |-> u])]

Reply(s, i, a, u) == addReply(Log(s, i, a, u), i, u)

CloseAfterReply(s, i) == Set(Log(s, i, "closed", <<>>), i, "close_after_reply")

\* Only commands that wait for data time out: anything else is a panic.
replyToBlockedClientTimedOut(s, i) ==
    IF s.cl[i].btype = "data" THEN Reply(s, i, "late", <<"nil">>) ELSE [s EXCEPT !.asserted = TRUE]

RECURSIVE handleBlockedClientsTimeout(_)
handleBlockedClientsTimeout(s) ==
    LET due == {e \in s.timeouts : e[1] < s.now}
        e == CHOOSE e \in due : \A x \in due : e[1] < x[1] \/ (e[1] = x[1] /\ e[2] <= x[2])
    IN IF due = {} THEN s
       ELSE handleBlockedClientsTimeout(unblockClient(replyToBlockedClientTimedOut(s, e[2]), e[2]))

-----------------------------------------------------------------------------
(* Closing.                                                                *)

Without(list, i) == SelectSeq(list, LAMBDA j : j # i)

\* A mutant: a client that is to be resumed stays in the list.
unlinkLeavesUnblocked(s, i) ==
    [s EXCEPT !.clients = Without(@, i), !.pendingWrite = Without(@, i), !.pendingRead = Without(@, i)]

\* The client leaves every list its flags say it is in.
unlinkClient(s, i) ==
    LET f == s.cl[i].flags IN
    [s EXCEPT !.clients = Without(@, i),
              !.pendingWrite = IF "pending_write" \in f THEN Without(@, i) ELSE @,
              !.pendingRead = Without(@, i),
              !.unblocked = IF "unblocked" \in f THEN Without(@, i) ELSE @,
              !.asserted = \/ @ \/ s.io.op # "idle"
                           \/ "pending_write" \in f /\ i \notin ToSet(s.pendingWrite)
                           \/ "unblocked" \in f /\ i \notin ToSet(s.unblocked)]

Vanished(c) == [c EXCEPT !.live = FALSE, !.flags = {}, !.qb = <<>>, !.argv = <<>>, !.buf = <<>>, !.list = <<>>,
                     !.bytes = 0, !.sentlen = 0, !.r = FALSE, !.w = FALSE, !.btype = "none", !.bucket = -1,
                     !.mem = 0, !.rest = <<>>, !.reqtype = "none", !.mbl = 0, !.bulk = -1, !.timeout = 0,
                     !.last = 0, !.softSince = 0, !.peak = 0, !.shut = TRUE]

\* The sums and the list of monitors forget it.
Forgotten(s, i) ==
    LET b == s.cl[i].bucket IN
    [s EXCEPT !.used = @ - s.cl[i].mem,
              !.monitors = IF Has(s, i, "monitor") THEN Without(@, i) ELSE @,
              !.buckets = [k \in DOMAIN @ |-> IF k # b THEN @[k]
                              ELSE [sum |-> @[k].sum - s.cl[i].mem, clients |-> Without(@[k].clients, i)]],
              !.cl[i] = Vanished(@)]

freeClient(s, i) ==
    LET q == [s EXCEPT !.toClose = IF Has(s, i, "close_asap") THEN Without(@, i) ELSE @]
    IN IF Has(s, i, "protected") THEN freeClientAsync(s, i)
       ELSE Forgotten(unlinkClient(IF Has(s, i, "blocked") THEN unblockClient(q, i) ELSE q, i), i)

freeClientsInAsyncFreeQueue(s) ==
    FoldLeft(LAMBDA t, i : IF Has(t, i, "protected") THEN t
                           ELSE [freeClient(Clear(t, i, "close_asap"), i) EXCEPT !.toClose = Without(@, i)],
             s, s.toClose)

beforeNextClient(s, i) ==
    IF s.io.op = "idle" /\ s.cl[i].live /\ Has(s, i, "close_asap") THEN freeClient(s, i) ELSE s

\* From the bucket of the largest clients down, while the clients use more than they may
evictClients(s) ==
    LET order == FoldLeft(LAMBDA l, k : s.buckets[k].clients \o l, <<>>,
                          [k \in 1..(BucketMax - BucketMin) |-> k])
                 \o s.buckets[0].clients
    IN IF s.visit.evict = 0 THEN s
       ELSE FoldLeft(LAMBDA t, i : IF t.used >= s.visit.evict THEN freeClient(t, i) ELSE t, s, order)

CloseIfOver(r, i) == IF r.over THEN freeClient(r.s, i) ELSE r.s

CloseOnLimit(s, i) ==
    IF LimitChecked(s, i) THEN CloseIfOver(checkClientOutputBufferLimits(s, i), i) ELSE s

-----------------------------------------------------------------------------
(* Parsing.  The verdict is "ok", "more" (input) or "bad".                 *)

Parsed(verdict, c) == [verdict |-> verdict, c |-> c]

FirstOf(q, tok) == LET at == {k \in DOMAIN q : q[k] = tok} IN IF at = {} THEN 0 ELSE Min(at)

From(q, k) == SubSeq(q, k, Len(q))

\* A line without an end is too long, or still to come.
NoLine(c) == Parsed(IF Len(c.qb) > LineMax THEN "bad" ELSE "more", c)

processInlineBuffer(c) ==
    LET nl == FirstOf(c.qb, LF)
        end == IF nl > 1 /\ c.qb[nl - 1] = CR THEN nl - 2 ELSE nl - 1
        words == SubSeq(c.qb, 1, end)
        argv == FoldLeft(LAMBDA out, t : Append(out, <<t>>), <<>>, words)
    IN CASE nl = 0 -> NoLine(c)
         [] nl > 0 /\ <<"c", "'">> \in ToSet(words) -> Parsed("bad", c)
         [] OTHER -> Parsed("ok", [c EXCEPT !.qb = From(@, nl + 1), !.argv = argv])

\* A mutant: the line feed is taken for granted.
LineWithoutFeed(c) == LET nl == FirstOf(c.qb, CR) IN
                      IF nl = 0 THEN NoLine(c) ELSE Parsed("ok", c)

\* The header at the front of the buffer has its line end: what follows it needs one more byte.
Line(c) == LET nl == FirstOf(c.qb, CR) IN
           IF nl = 0 THEN NoLine(c) ELSE Parsed(IF nl < Len(c.qb) THEN "ok" ELSE "more", c)

AfterLine(c) == From(c.qb, FirstOf(c.qb, CR) + 2)

RECURSIVE Bulks(_)
Bulks(c) ==
    LET hd == Line(c)
        good == c.qb[1][1] = "$" /\ c.qb[1][2] >= 0 /\ FirstOf(c.qb, CR) = 2
        n == c.bulk
    IN CASE c.mbl = 0 -> Parsed("ok", c)
         [] c.mbl > 0 /\ n = -1 /\ hd.verdict # "ok" -> hd
         [] c.mbl > 0 /\ n = -1 /\ hd.verdict = "ok" ->
                IF good THEN Bulks([c EXCEPT !.bulk = c.qb[1][2], !.qb = AfterLine(c)]) ELSE Parsed("bad", c)
         [] OTHER -> IF Len(c.qb) < n + 2 THEN Parsed("more", c)
                     ELSE Bulks([c EXCEPT !.argv = Append(@, SubSeq(c.qb, 1, n)), !.qb = From(@, n + 3),
                                          !.bulk = -1, !.mbl = @ - 1])

processMultibulkBuffer(c) ==
    LET hd == Line(c)
        n == c.qb[1][2]
        good == FirstOf(c.qb, CR) = 2
        next == [c EXCEPT !.qb = AfterLine(c)]
    IN CASE c.mbl > 0 -> Bulks(c)
         [] c.mbl = 0 /\ hd.verdict # "ok" -> hd
         [] c.mbl = 0 /\ hd.verdict = "ok" /\ ~good -> Parsed("bad", c)
         [] OTHER -> IF n <= 0 THEN Parsed("ok", next) ELSE Bulks([next EXCEPT !.mbl = n])

Parse(c) ==
    LET type == IF c.reqtype # "none" THEN c.reqtype ELSE IF c.qb[1][1] = "*" THEN "multibulk" ELSE "inline"
        t == [c EXCEPT !.reqtype = type]
    IN IF type = "inline" THEN processInlineBuffer(t) ELSE processMultibulkBuffer(t)

\* The reply, and the flags of setProtocolError
ProtocolError(s, i) ==
    Set(CloseAfterReply(Reply(s, i, "error", <<"-ERR">>), i), i, "protocol_error")

-----------------------------------------------------------------------------
(* CLIENT PAUSE and the pause of a failover.                               *)

Rank(type) == CASE type = "off" -> 0 [] type = "write" -> 1 [] type = "all" -> 2

unblockPostponedClients(s) == FoldLeft(unblockClient, s, s.postponed)

updateClientPauseTypeAndEndTime(s) ==
    LET kept == [p \in {"client", "failover"} |->
                    IF s.pause[p].type # "off" /\ s.pause[p].end < s.now THEN [type |-> "off", end |-> 0] ELSE s.pause[p]]
        top == Max({Rank(kept[p].type) : p \in {"client", "failover"}})
        type == CHOOSE x \in {"off", "write", "all"} : Rank(x) = top
        end == Max({0} \cup {kept[p].end : p \in {q \in {"client", "failover"} : kept[q].type = type}})
        t == [s EXCEPT !.pause = kept, !.pauseType = type, !.pauseEnd = end]
    IN IF top < Rank(s.pauseType) THEN unblockPostponedClients(t) ELSE t

pauseClients(s, purpose, end, type) ==
    LET p == s.pause[purpose]
        more == IF Rank(p.type) > Rank(type) THEN p.type ELSE type
    IN updateClientPauseTypeAndEndTime([s EXCEPT !.pause[purpose] = [type |-> more, end |-> Max({p.end, end})]])

unpauseClients(s, purpose) ==
    IF s.pause[purpose].type = "off" THEN s
    ELSE updateClientPauseTypeAndEndTime([s EXCEPT !.pause[purpose] = [type |-> "off", end |-> 0]])

checkClientPauseTimeoutAndReturnIfPaused(s) ==
    IF s.pauseType # "off" /\ s.pauseEnd < s.now THEN updateClientPauseTypeAndEndTime(s) ELSE s

-----------------------------------------------------------------------------
(* Commands.                                                               *)

Name(c) == c.argv[1][1][2]

Arg(c) == c.argv[2][1][2]

Commands == {"get", "set", "big", "keys", "busy", "block", "quit", "reset", "on", "off", "skip", "noevict", "evictable",
             "kill", "killall", "unblock", "setname", "unpause", "pause", "pausewrite", "monitor"}

\* CMD_READONLY; CMD_WRITE or CMD_MAY_REPLICATE; CMD_ALLOW_BUSY; not shown to monitors
Reads == {"get", "big", "keys"}

Replicates == {"set", "block", "busy"}

AllowBusy == {"quit", "reset"}

Hidden == {"kill", "killall", "unblock", "unpause", "pause", "pausewrite", "monitor", "noevict", "evictable", "busy"}

replicationFeedMonitors(s) == FoldLeft(LAMBDA t, m : Reply(t, m, "push", <<"monitor">>), s, s.monitors)

protectClient(s, i) == [Set(s, i, "protected") EXCEPT !.cl[i].r = FALSE, !.cl[i].w = FALSE]

unprotectClient(s, i) ==
    LET t == [Clear(s, i, "protected") EXCEPT !.cl[i].r = TRUE] IN
    IF ~Has(s, i, "protected") THEN s
    ELSE IF clientHasPendingReplies(t.cl[i]) THEN putClientInPendingWriteQueue(t, i) ELSE t

\* An array whose length is known after its elements
ReplyKeysIn(s, i) ==
    IF MayReceive(s.cl[i])
    THEN setDeferredReply(addReply(addReply(s, i, <<"k1">>), i, <<"k2">>), i, Len(s.cl[i].list), <<"*", "2">>)
    ELSE s

ReplyKeys(s, i) == ReplyKeysIn(addReplyDeferredLen(Log(s, i, "keys", <<"*", "2", "k1", "k2">>), i), i)

monitorCommand(s, i) ==
    IF Has(s, i, "slave") THEN Log(s, i, "monitor", <<>>)
    ELSE Reply([Set(Set(s, i, "slave"), i, "monitor") EXCEPT !.monitors = Append(@, i)], i, "monitor", <<"OK">>)

clearClientConnectionState(s, i) ==
    [s EXCEPT !.monitors = Without(@, i), !.cl[i].flags = @ \ {"monitor", "slave", "reply_off", "skip_next"},
              !.cl[i].name = FALSE]

resetCommand(s, i) == Reply(clearClientConnectionState(s, i), i, "reset", <<"RESET">>)

quitCommand(s, i) == CloseAfterReply(Reply(s, i, "quit", <<"OK">>), i)

\* CLIENT KILL: every client of the set but the caller goes now, the caller after its reply.
CloseSelf(s, i, self) == IF self THEN CloseAfterReply(s, i) ELSE s

Kill(s, i, targets) ==
    LET dead == SelectSeq(s.clients, LAMBDA j : j \in targets)
        left == FoldLeft(LAMBDA u, j : IF j = i THEN u ELSE freeClient(u, j), s, dead)
    IN CloseSelf(Reply(left, i, Name(s.cl[i]), <<IF dead = <<>> THEN "none" ELSE "killed">>),
                 i, i \in ToSet(dead))

Unblock(s, i, target) ==
    LET ok == target \in ToSet(s.clients) /\ Has(s, target, "blocked") IN
    Reply(IF ok THEN unblockClient(replyToBlockedClientTimedOut(s, target), target) ELSE s,
          i, "unblock", <<IF ok THEN "1" ELSE "0">>)

\* CLIENT REPLY OFF | SKIP
ReplyMode(s, i, mode) ==
    LET t == Log(s, i, mode, <<>>) IN
    IF mode = "off" THEN Set(t, i, "reply_off")
    ELSE IF Has(s, i, "reply_off") THEN t ELSE Set(t, i, "skip_next")

\* What the subcommands that reply OK do: CLIENT REPLY ON, NO-EVICT, SETNAME, PAUSE and UNPAUSE
OkAfter(s, i, cmd) ==
    CASE cmd = "on" -> Clear(Clear(s, i, "reply_off"), i, "reply_skip")
      [] cmd = "noevict" -> removeClientFromMemUsageBucket(Set(s, i, "no_evict"), i, FALSE)
      [] cmd = "evictable" -> updateClientMemUsageAndBucket(Clear(s, i, "no_evict"), i)
      [] cmd = "setname" -> [s EXCEPT !.cl[i].name = TRUE]
      [] cmd = "unpause" -> unpauseClients(s, "client")
      [] cmd \in {"pause", "pausewrite"} ->
             pauseClients(s, "client", s.now + Arg(s.cl[i]), IF cmd = "pause" THEN "all" ELSE "write")

\* The subcommands of CLIENT
clientCommand(s, i) ==
    LET c == s.cl[i]
        cmd == Name(c)
    IN CASE cmd \in {"off", "skip"} -> ReplyMode(s, i, cmd)
         [] cmd \in {"kill", "killall"} -> Kill(s, i, IF cmd = "kill" THEN {Arg(c)} ELSE Ids(s) \ {i})
         [] cmd = "unblock" -> Unblock(s, i, Arg(c))
         [] OTHER -> Reply(OkAfter(s, i, cmd), i, cmd, <<"OK">>)

-----------------------------------------------------------------------------
(* Running commands.  A busy script re-enters the event loop: its client   *)
(* is protected and waits in the frame.                                    *)

Busy(s) == s.frame # <<>>

Suspended(s, i) == Busy(s) /\ s.frame[1].i = i

EnterBusy(s, i) ==
    [protectClient(replicationFeedMonitors(s), i) EXCEPT
        !.frame = <<[i |-> i, pc |-> s.pc, fired |-> s.fired, stopping |-> s.stopping]>>,
        !.pc = "sleep", !.fired = {}, !.stopping = FALSE]

Run(s, i) ==
    LET c == s.cl[i]
        cmd == Name(c)
    IN CASE cmd \in {"get", "set"} -> Reply(s, i, cmd, <<"v">>)
         [] cmd = "big" -> Reply(s, i, cmd, <<"b1", "b2", "b3">>)
         [] cmd = "keys" -> ReplyKeys(s, i)
         [] cmd = "block" -> blockClient(Log(s, i, cmd, <<>>), i, "data", IF Arg(c) = 0 THEN 0 ELSE s.now + Arg(c))
         [] cmd = "quit" -> quitCommand(s, i)
         [] cmd = "reset" -> resetCommand(s, i)
         [] cmd = "monitor" -> monitorCommand(s, i)
         [] OTHER -> clientCommand(s, i)

\* call shows the monitors what ran.
Shown(s, cmd) == IF cmd \in Hidden THEN s ELSE replicationFeedMonitors(s)

call(s, i) ==
    IF Name(s.cl[i]) = "busy" THEN EnterBusy(s, i) ELSE Shown(Run(s, i), Name(s.cl[i]))

rejectCommand(s, i) == Reply(s, i, "reject", <<"-ERR">>)

Paused(s, cmd) == s.pauseType = "all" \/ (s.pauseType = "write" /\ cmd \in Replicates)

\* The checks after the eviction, which may have taken the client itself
Admit(s, i) ==
    LET cmd == Name(s.cl[i])
        slave == Has(s, i, "slave")
    IN IF ~s.cl[i].live THEN s
       ELSE IF (Busy(s) /\ cmd \notin AllowBusy) \/ (slave /\ cmd \in Reads \cup Replicates)
            THEN rejectCommand(s, i)
       ELSE IF ~slave /\ Paused(s, cmd) THEN blockClient(s, i, "postpone", 0)
       ELSE call(s, i)

processCommand(s, i) ==
    IF Name(s.cl[i]) \notin Commands THEN rejectCommand(s, i) ELSE Admit(evictClients(s), i)

commandProcessed(s, i) ==
    IF ~s.cl[i].live \/ Suspended(s, i) THEN s
    ELSE updateClientMemUsageAndBucket(IF Has(s, i, "blocked") THEN s ELSE resetClient(s, i), i)

processCommandAndResetClient(s, i) == commandProcessed(processCommand(s, i), i)

InputStops(c) == c.qb = <<>> \/ c.flags \cap {"blocked", "pending_command", "close_after_reply", "close_asap"} # {}

EndOfInput(s, i) == IF s.io.op = "idle" THEN updateClientMemUsageAndBucket(s, i) ELSE s

RECURSIVE processInputBuffer(_, _), ProcessMore(_, _), ProcessParsed(_, _, _)
ProcessMore(s, i) == IF ~s.cl[i].live \/ Suspended(s, i) THEN s ELSE processInputBuffer(s, i)

ProcessParsed(s, i, verdict) ==
    CASE verdict = "more" -> EndOfInput(s, i)
      [] verdict = "bad" -> EndOfInput(ProtocolError(s, i), i)
      [] verdict = "ok" -> IF s.cl[i].argv = <<>> THEN ProcessMore(resetClient(s, i), i)
                           ELSE IF s.io.op # "idle" THEN Set(s, i, "pending_command")
                           ELSE ProcessMore(processCommandAndResetClient(s, i), i)

processInputBuffer(s, i) ==
    IF InputStops(s.cl[i]) THEN EndOfInput(s, i)
    ELSE LET p == Parse(s.cl[i]) IN ProcessParsed([s EXCEPT !.cl[i] = p.c], i, p.verdict)

\* Of processPendingCommandAndInputBuffer: the input that is left
ProcessLeft(s, i) ==
    IF s.cl[i].live /\ ~Suspended(s, i) /\ s.cl[i].qb # <<>> THEN processInputBuffer(s, i) ELSE s

processPendingCommandAndInputBuffer(s, i) ==
    ProcessLeft(IF Has(s, i, "pending_command")
                THEN processCommandAndResetClient(Clear(s, i, "pending_command"), i) ELSE s, i)

\* A bulk argument that is large enough is read exactly.
ReadLen(s, i) ==
    LET c == s.cl[i]
        left == c.bulk + 2 - Len(c.qb)
    IN IF c.reqtype = "multibulk" /\ c.mbl > 0 /\ c.bulk >= BigArg /\ left > 0 THEN Min({left, Len(c.rest)})
       ELSE Len(c.rest)

AfterRead(s, i) == IF Suspended(s, i) THEN s ELSE beforeNextClient(s, i)

\* Zero bytes are the end of the stream; after too long a buffer the client is closed.
readQueryFromClient(s, i, k) ==
    LET c == s.cl[i]
        t == [s EXCEPT !.cl[i].qb = @ \o SubSeq(c.rest, 1, k), !.cl[i].rest = From(@, k + 1),
                       !.cl[i].last = IF s.visit.idle > 0 THEN s.now ELSE 0]
    IN AfterRead(IF k = 0 THEN freeClientAsync(s, i)
                 ELSE IF Len(t.cl[i].qb) > s.visit.qbmax THEN freeClientAsync(t, i)
                 ELSE processInputBuffer(t, i), i)

postponeClientRead(s, i) ==
    /\ s.io.active /\ s.visit.reads /\ ~Busy(s) /\ s.io.op = "idle"
    /\ s.cl[i].flags \cap {"slave", "blocked"} = {}

-----------------------------------------------------------------------------
(* The event loop.  "events" serves the file events; before it sleeps it   *)
(* goes through the pending reads, the unblocked clients and the pending   *)
(* writes, and closes what is to be closed.                                *)

\* The clients of the list, dealt to the threads in turn
Dealt(s, list) ==
    [t \in 1..s.visit.threads |->
        FoldLeft(LAMBDA out, k : IF (k - 1) % s.visit.threads = t - 1 THEN Append(out, list[k]) ELSE out,
                 <<>>, [k \in 1..Len(list) |-> k])]

ToEvents(s) ==
    LET t == freeClientsInAsyncFreeQueue(s) IN
    [(IF Busy(s) THEN t ELSE evictClients(t)) EXCEPT !.pc = "events", !.fired = {}]

Few(s) == Len(s.pendingWrite) < s.visit.threads * ThreadRatio

ToWrites(s) ==
    LET keep == SelectSeq(s.pendingWrite, LAMBDA i : ~Has(s, i, "close_asap"))
        cleared == FoldLeft(LAMBDA t, i : Clear(t, i, "pending_write"), s, s.pendingWrite)
    IN IF s.pendingWrite = <<>> THEN ToEvents(s)
       ELSE IF Busy(s) \/ s.visit.threads = 1 THEN [s EXCEPT !.pc = "write"]
       ELSE IF Few(s) THEN [s EXCEPT !.pc = "write", !.io.active = FALSE,
                                     !.asserted = @ \/ (s.io.active /\ s.visit.reads /\ s.pendingRead # <<>>)]
       ELSE [cleared EXCEPT !.pc = "threads", !.pendingWrite = keep,
                            !.io = [op |-> "write", active |-> TRUE, lists |-> Dealt(s, keep)]]

\* The clients that go on wait for a script to end.
AfterReads(s) ==
    IF s.stopping THEN [s EXCEPT !.io.active = FALSE, !.stopping = FALSE, !.pc = "sleep"]
    ELSE IF Busy(s) \/ s.unblocked = <<>> THEN ToWrites(s) ELSE [s EXCEPT !.pc = "unblocked"]

ToReads(s) ==
    IF s.io.active /\ s.visit.reads /\ s.pendingRead # <<>>
    THEN [s EXCEPT !.pc = "threads", !.io.op = "read", !.io.lists = Dealt(s, s.pendingRead)]
    ELSE AfterReads(s)

beforeSleep(s) == ToReads(IF Busy(s) THEN s ELSE handleBlockedClientsTimeout(s))

HandlerIfLeft(s, i) == IF clientHasPendingReplies(s.cl[i]) THEN installClientWriteHandler(s, i) ELSE s

\* The threads are done: what they may not touch is done here.
FanIn(s) ==
    LET idle == [s EXCEPT !.io.op = "idle"] IN
    IF s.io.op = "read" THEN [idle EXCEPT !.pc = "fanin"]
    ELSE ToEvents([FoldLeft(LAMBDA t, i : HandlerIfLeft(updateClientMemUsageAndBucket(t, i), i),
                            idle, s.pendingWrite) EXCEPT !.pendingWrite = <<>>])

\* A client of the pending reads was served; next the others, or the next stage.
FanInNext(s) == IF s.pendingRead = <<>> THEN AfterReads(s) ELSE s

FanInRest(s, i) ==
    IF Suspended(s, i) THEN s
    ELSE FanInNext(IF s.cl[i].live /\ ~Has(s, i, "pending_write") /\ clientHasPendingReplies(s.cl[i])
                   THEN putClientInPendingWriteQueue(s, i) ELSE s)

FanInClient(s) ==
    LET i == Head(s.pendingRead)
        out == [s EXCEPT !.pendingRead = Tail(@), !.asserted = @ \/ Has(s, i, "blocked")]
    IN FanInRest(IF Has(s, i, "close_asap") THEN freeClient(out, i)
                 ELSE processPendingCommandAndInputBuffer(updateClientMemUsageAndBucket(out, i), i), i)

UnblockedNext(s) == IF s.unblocked = <<>> THEN ToWrites(s) ELSE s

UnblockedRest(s, i) == IF Suspended(s, i) THEN s ELSE UnblockedNext(beforeNextClient(s, i))

\* One client of processUnblockedClients
UnblockedClient(s) ==
    LET i == Head(s.unblocked)
        out == [Clear(s, i, "unblocked") EXCEPT !.unblocked = Tail(@)]
    IN UnblockedRest(IF Has(s, i, "blocked") THEN out ELSE processPendingCommandAndInputBuffer(out, i), i)

\* A client goes on where it was read from.
GoOn(s, i, pc) ==
    CASE pc = "events" -> AfterRead(s, i)
      [] pc = "fanin" -> FanInRest(s, i)
      [] pc = "unblocked" -> UnblockedRest(s, i)

\* The script ends: its client replies.
EndBusy(s) ==
    LET fr == s.frame[1]
        i == fr.i
        back == [s EXCEPT !.frame = <<>>, !.pc = fr.pc, !.fired = fr.fired, !.stopping = fr.stopping]
    IN GoOn(processInputBuffer(
                commandProcessed(unprotectClient(Reply(back, i, "busy", <<"done">>), i), i), i),
            i, fr.pc)

-----------------------------------------------------------------------------
(* serverCron.                                                             *)

clientsCronHandleTimeout(s, i) ==
    IF /\ s.visit.idle > 0 /\ s.cl[i].flags \cap {"slave", "blocked"} = {}
       /\ s.now - s.cl[i].last > s.visit.idle
    THEN freeClient(s, i) ELSE s

\* The buffer shrinks when its peak was below half of it, and grows when the peak filled it.
clientsCronResizeOutputBuffer(s, i) ==
    LET c == s.cl[i]
        cap == IF c.cap \div 2 >= s.visit.minbuf /\ c.peak < c.cap \div 2 THEN Max({s.visit.minbuf, c.peak + 1})
               ELSE IF c.cap * 2 < s.visit.chunk * 2 /\ c.peak = c.cap THEN Min({s.visit.chunk, c.cap * 2})
               ELSE c.cap
    IN IF s.visit.minbuf = 0 THEN s ELSE [s EXCEPT !.cl[i].cap = cap, !.cl[i].peak = Len(c.buf)]

CronMemory(s, i) ==
    IF clientEvictionAllowed(s, i) THEN updateClientMemUsageAndBucket(s, i)
    ELSE updateClientMemoryUsage(updateClientMemUsageAndBucket(s, i), i)

CronRest(s, i) ==
    IF s.cl[i].live THEN CloseOnLimit(CronMemory(clientsCronResizeOutputBuffer(s, i), i), i) ELSE s

CronClient(s, i) == CronRest(clientsCronHandleTimeout(s, i), i)

clientsCron(s) == FoldLeft(CronClient, s, Reverse(s.clients))

StopThreads(s) == IF s.io.active /\ Few(s) THEN ToReads([s EXCEPT !.stopping = TRUE]) ELSE s

serverCronOfClients(s) ==
    StopThreads([checkClientPauseTimeoutAndReturnIfPaused(clientsCron(s)) EXCEPT !.pc = "sleep"])

-----------------------------------------------------------------------------
(* Actions.                                                                *)

Stream(requests) == FoldLeft(LAMBDA out, r : out \o r.raw, <<>>, requests)

NewClient(visit, i, now) ==
    [live |-> FALSE, shut |-> FALSE, rest |-> Stream(visit.send[i]), wire |-> <<>>, qb |-> <<>>,
     reqtype |-> "none", mbl |-> 0, bulk |-> -1, argv |-> <<>>, flags |-> {}, btype |-> "none", timeout |-> 0,
     buf |-> <<>>, cap |-> visit.cap, peak |-> visit.cap, list |-> <<>>, bytes |-> 0, sentlen |-> 0,
     r |-> FALSE, w |-> FALSE, mem |-> 0, bucket |-> -1, softSince |-> 0, last |-> now, name |-> FALSE,
     met |-> FALSE, done |-> <<>>]

ClientsInit ==
    \E v \in Visits :
        net = [visit |-> v, now |-> 1, cl |-> [i \in DOMAIN v.send |-> NewClient(v, i, 0)], clients |-> <<>>,
               pendingWrite |-> <<>>, pendingRead |-> <<>>, toClose |-> <<>>, unblocked |-> <<>>,
               postponed |-> <<>>, monitors |-> <<>>, timeouts |-> {}, used |-> 0,
               buckets |-> [b \in 0..(BucketMax - BucketMin) |-> [sum |-> 0, clients |-> <<>>]],
               pause |-> [p \in {"client", "failover"} |-> [type |-> "off", end |-> 0]],
               pauseType |-> "off", pauseEnd |-> 0,
               io |-> [op |-> "idle", active |-> FALSE, lists |-> [t \in 1..v.threads |-> <<>>]],
               pc |-> "events", fired |-> {}, frame |-> <<>>, stopping |-> FALSE, asserted |-> FALSE,
               failovers |-> v.failovers, closes |-> v.closes]

\* createClient and linkClient
createClient(s, i) ==
    [s EXCEPT !.cl[i].live = TRUE, !.cl[i].met = TRUE, !.cl[i].r = TRUE, !.clients = Append(@, i),
              !.cl[i].last = IF s.visit.idle > 0 THEN s.now ELSE 0]

\* acceptCommonHandler: over the limit the connection is refused; else it is accepted, at once or with an error.
AcceptClient(i) ==
    LET met == [net EXCEPT !.cl[i].met = TRUE, !.cl[i].rest = <<>>] IN
    /\ net.pc = "events" /\ ~net.cl[i].met
    /\ \A j \in Ids(net) : j < i => net.cl[j].met
    /\ IF Len(net.clients) >= net.visit.maxclients THEN net' = met
       ELSE \/ net' = createClient(net, i)
            \/ net.visit.errors /\ net' = freeClientAsync(createClient(net, i), i)
            \/ net.visit.errors /\ net' = freeClient(createClient(net, i), i)

\* How much a read returns: the stream is cut anywhere, at the end of a line, or not at all.
Sizes(s, i) == LET n == ReadLen(s, i) IN
               IF n = 0 THEN IF s.cl[i].shut THEN {0} ELSE {}
               ELSE CASE s.visit.cuts = "any" -> 1..n
                      [] s.visit.cuts = "lines" -> {n, Min({n} \cup {k \in 1..n : s.cl[i].rest[k] = LF})}
                      [] s.visit.cuts = "none" -> {n}

ReadEvent(i) ==
    /\ net.pc = "events" /\ net.cl[i].r /\ net.fired \cap {<<i, "r">>, <<i, "w">>} = {}
    /\ LET s == [net EXCEPT !.fired = @ \cup {<<i, "r">>}] IN
       IF postponeClientRead(net, i)
       THEN /\ Sizes(net, i) # {}
            /\ net' = [s EXCEPT !.pendingRead = <<i>> \o @]
       ELSE \E k \in Sizes(net, i) : net' = readQueryFromClient(s, i, k)

\* sendReplyToClient
WriteEvent(i) ==
    /\ net.pc = "events" /\ net.cl[i].w /\ <<i, "w">> \notin net.fired
    /\ \E n \in Sends(net, i) :
          net' = writeToClient([net EXCEPT !.fired = @ \cup {<<i, "w">>}], i, TRUE, n)

Sleep ==
    /\ net.pc \in {"events", "sleep"}
    /\ net' = beforeSleep(net)

\* A thread serves the first client of its list.
IOThreadMain(t) ==
    /\ net.pc = "threads" /\ net.io.lists[t] # <<>>
    /\ LET i == Head(net.io.lists[t])
           s == [net EXCEPT !.io.lists[t] = Tail(@)]
       IN IF net.io.op = "read" THEN \E k \in Sizes(net, i) : net' = readQueryFromClient(s, i, k)
          ELSE \E n \in Sends(net, i) : net' = writeToClient(s, i, FALSE, n)

ThreadsDone ==
    /\ net.pc = "threads" /\ \A t \in DOMAIN net.io.lists : net.io.lists[t] = <<>>
    /\ net' = FanIn(net)

FanInStep == net.pc = "fanin" /\ net' = FanInClient(net)

UnblockedStep == net.pc = "unblocked" /\ net' = UnblockedClient(net)

WritesDone(s) == IF s.pendingWrite = <<>> THEN ToEvents(s) ELSE s

WriteStep ==
    /\ net.pc = "write"
    /\ \E n \in Sends(net, Head(net.pendingWrite)) : net' = WritesDone(WritePending(net, n))

ScriptEnds == net.pc = "events" /\ Busy(net) /\ net' = EndBusy(net)

Cron == net.pc = "events" /\ ~Busy(net) /\ net.visit.cron /\ net' = serverCronOfClients(net)

Tick ==
    /\ net.pc = "events" /\ net.now < net.visit.time
    /\ net' = [net EXCEPT !.now = @ + 1]

\* The peer closes; what it sent before is still read.
PeerCloses(i) ==
    /\ net.closes > 0 /\ net.cl[i].live /\ ~net.cl[i].shut /\ net.pc \in {"events", "sleep"}
    /\ net' = [net EXCEPT !.cl[i].shut = TRUE, !.closes = @ - 1]

\* A failover pauses the writes, and ends.
Failover ==
    /\ net.pc = "events" /\ ~Busy(net) /\ net.failovers > 0
    /\ net' = [(IF net.pause["failover"].type = "off"
                THEN pauseClients(net, "failover", net.visit.time + 1, "write")
                ELSE unpauseClients(net, "failover")) EXCEPT !.failovers = @ - 1]

ClientsNext ==
    \/ Sleep \/ ThreadsDone \/ FanInStep \/ UnblockedStep \/ WriteStep \/ ScriptEnds \/ Cron \/ Tick \/ Failover
    \/ \E i \in Ids(net) : AcceptClient(i) \/ ReadEvent(i) \/ WriteEvent(i) \/ PeerCloses(i)
    \/ \E t \in DOMAIN net.io.lists : IOThreadMain(t)

-----------------------------------------------------------------------------
(* Properties.                                                             *)

\* What a client must be sent for the commands it ran, by CLIENT REPLY ON | OFF | SKIP
Owed(done) ==
    LET step(st, e) ==
            LET on == IF e.a \in {"on", "reset"} THEN TRUE ELSE st.on
                skip == IF e.a = "on" THEN FALSE ELSE st.skip
                said == IF st.open /\ on /\ ~skip THEN st.out \o e.u ELSE st.out
                ends == e.a \notin {"push", "block", "error", "closed"}
            IN [on |-> on /\ e.a # "off", out |-> said, open |-> st.open /\ e.a # "closed",
                skip |-> IF ends THEN e.a = "skip" /\ st.on ELSE skip]
    IN FoldLeft(step, [on |-> TRUE, skip |-> FALSE, open |-> TRUE, out |-> <<>>], done).out

\* The commands of the requests up to the first malformed one
Wanted(requests) ==
    LET good == FoldLeft(LAMBDA st, r : [ok |-> st.ok /\ r.ok,
                                         out |-> IF st.ok /\ r.ok /\ r.args # <<>>
                                                 THEN Append(st.out, r.args[1][1][2]) ELSE st.out],
                         [ok |-> TRUE, out |-> <<>>], requests)
    IN good.out

Ran(c) == SelectSeq(c.done, LAMBDA e : e.a \notin {"push", "late", "error", "closed"})

(* However a stream of requests is cut into reads, by whichever thread and
   around pauses, blocking commands and busy scripts, every connection runs
   its commands once and in order, up to the first malformed request, and
   only that one is answered by a protocol error; and what it was sent with what is buffered for it (static buffer, reply list,
   deferred lengths, partial writes) is what those commands reply, in order,
   under CLIENT REPLY (processInputBuffer, _addReplyToBuffer,
   setDeferredReply, _writevToClient in networking.c). *)
ClientsAnswer ==
    \A i \in Ids(net) :
        LET c == net.cl[i]
            ran == Ran(c)
            wanted == Wanted(net.visit.send[i])
        IN /\ Len(ran) <= Len(wanted)
           /\ \A k \in DOMAIN ran : ran[k].a \in {wanted[k], "reject"}
           /\ (\E k \in DOMAIN c.done : c.done[k].a = "error") =>
                  Len(ran) = Len(wanted) /\ \E k \in DOMAIN net.visit.send[i] : ~net.visit.send[i][k].ok
           /\ IF c.live /\ "close_asap" \notin c.flags
              THEN c.wire \o Pending(c) = Owed(c.done)
              ELSE IsPrefix(c.wire, Owed(c.done))

Agrees(s, list, flag) ==
    /\ IsInjective(list)
    /\ ToSet(list) = {i \in Live(s) : Has(s, i, flag)}

ListsAgree(s) ==
    /\ IsInjective(s.clients) /\ ToSet(s.clients) = Live(s)
    /\ s.io.op = "write" \/ Agrees(s, s.pendingWrite, "pending_write")
    /\ Agrees(s, s.unblocked, "unblocked") /\ Agrees(s, s.toClose, "close_asap")
    /\ Agrees(s, s.monitors, "monitor")
    /\ IsInjective(s.pendingRead) /\ ToSet(s.pendingRead) \subseteq Live(s)
    /\ IsInjective(s.postponed) /\ ToSet(s.postponed) = {i \in Live(s) : s.cl[i].btype = "postpone"}
    /\ \A e \in s.timeouts : Has(s, e[2], "blocked") /\ s.cl[e[2]].timeout = e[1]

MemoryAgrees(s) ==
    /\ s.used = MapThenSumSet(LAMBDA i : s.cl[i].mem, Live(s))
    /\ \A b \in DOMAIN s.buckets :
          /\ ToSet(s.buckets[b].clients) = {i \in Live(s) : s.cl[i].bucket = b}
          /\ s.buckets[b].sum = MapThenSumSet(LAMBDA i : s.cl[i].mem, ToSet(s.buckets[b].clients))
    /\ \A i \in Live(s) : /\ Len(s.cl[i].buf) <= s.cl[i].cap
                           /\ s.cl[i].bytes = FoldLeft(LAMBDA n, b : n + b.size, 0, s.cl[i].list)

\* Whoever has something to do is where it will be found.
NobodyForgotten(s) ==
    \A i \in Live(s) :
        LET c == s.cl[i]
            queued == c.flags \cap {"unblocked", "protected", "close_asap"} # {} \/ i \in ToSet(s.pendingRead)
        IN /\ s.io.op = "idle" /\ s.pc # "fanin" /\ clientHasPendingReplies(c) =>
                  c.w \/ c.flags \cap {"pending_write", "close_asap", "protected"} # {}
           /\ "pending_command" \in c.flags => c.btype = "postpone" \/ queued
           /\ s.pc = "events" /\ ~queued => InputStops(c) \/ Parse(c).verdict = "more"
           /\ c.btype = "postpone" => Paused(s, Name(c))

(* No assertion of networking.c or blocked.c fails; the lists of clients
   (pending writes and reads, unblocked, postponed, monitors, to be closed)
   hold each client once and agree with its flags, also while clients are
   killed, evicted or time out in the middle of a stage of the event loop;
   the incremental memory sums are exact; a client with replies, with a
   parsed command or with a whole request in its buffer is in the queue that
   will serve it; and only commands that the pause in force holds back are
   postponed (unlinkClient, updateClientMemUsageAndBucket,
   handleClientsWithPendingReadsUsingThreads, unblockPostponedClients). *)
ClientsHold ==
    ~net.asserted /\ ListsAgree(net) /\ MemoryAgrees(net) /\ NobodyForgotten(net)
=============================================================================
