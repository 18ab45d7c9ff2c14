---------------------------- MODULE Persistence ----------------------------
(***************************************************************************)
(* How a Redis server keeps its dataset on disk: the append only file in   *)
(* its multi part form (aof.c), the RDB snapshots (rdb.c), the background  *)
(* threads that fsync and close files (bio.c) and the part of the event    *)
(* loop that drives them (beforeSleep, serverCron, SHUTDOWN and start up   *)
(* in server.c).                                                           *)
(*                                                                         *)
(* A write is a number; the dataset is the sequence of writes applied to   *)
(* it, so "the same data" and "data applied twice" are told apart.  What   *)
(* is propagated as one unit (a command, or MULTI .. EXEC) is one write.   *)
(* A file is the writes it holds, how many of them have been fsynced, and  *)
(* whether half of one more follows (torn).  Every system call may fail,   *)
(* within a budget, and the process may die after every one of them:       *)
(* helpers therefore return the set of boxes they may leave.               *)
(***************************************************************************)
EXTENDS Integers, Sequences, SequencesExt

CONSTANT Houses   \* configurations and budgets: see PersistenceInit

VARIABLE box      \* the server process, its disk, and what is remembered of both

None == <<"none", 0>>
Base(n) == <<"base", n>>
Incr(n) == <<"incr", n>>
TempBase == <<"temp-base", 0>>
TempIncr == <<"temp-incr", 0>>
OldFile == <<"cwd", 0>>      \* appendonly.aof of a version before 7, in the working directory
OldAof == <<"old", 1>>       \* the same file once moved into the AOF directory
Rdb == <<"rdb", 0>>
Gone == <<"gone", 0>>        \* an open file that has no name any more

NoManifest == [base |-> None, incr |-> <<>>, hist |-> <<>>, bseq |-> 0, iseq |-> 0]
NoChild == [type |-> "none", data |-> <<>>, done |-> "run"]

\* Systems calls and deaths

Stop(b) == [b EXCEPT !.up = FALSE, !.child = NoChild, !.syncs = <<>>, !.closes = <<>>]

OrDies(b) == {b} \cup (IF b.crashes > 0 THEN {Stop([b EXCEPT !.crashes = @ - 1])} ELSE {})

May(S) == {[b EXCEPT !.faults = @ - 1] : b \in {c \in S : c.faults > 0}}

Then(S, Op(_)) == UNION {IF b.up THEN Op(b) ELSE {b} : b \in S}

Err(b) == [b EXCEPT !.ret = "err"]
Ok(b) == [b EXCEPT !.ret = "ok"]

Put(b, f, body, synced) ==
    [b EXCEPT !.files = [g \in {f} |-> [body |-> body, synced |-> synced, torn |-> FALSE]] @@ @]

\* An open descriptor follows the file it was opened on, whatever its name becomes
Unlink(b, S) ==
    [b EXCEPT !.files = [f \in DOMAIN @ \ S |-> @[f]],
              !.fd = IF @ \in S THEN Gone ELSE @]

Rename(b, f, g) ==
    LET Follow(x) == IF x = f THEN g ELSE x
    IN  [b EXCEPT !.files = [h \in {g} |-> @[f]] @@ [h \in DOMAIN @ \ {f} |-> @[h]],
                  !.fd = Follow(@),
                  !.syncs = [i \in DOMAIN @ |-> Follow(@[i])],
                  !.closes = [i \in DOMAIN @ |-> Follow(@[i])]]

fsync(b, f) ==
    IF f \in DOMAIN b.files THEN [b EXCEPT !.files[f].synced = Len(b.files[f].body)] ELSE b

hasActiveChildProcess(b) == b.child.type # "none"

\* The manifest

\* getNewBaseFileNameAndMarkPreAsHistory
WithNewBase(m) ==
    [m EXCEPT !.base = Base(m.bseq + 1), !.bseq = @ + 1,
              !.hist = IF m.base = None THEN @ ELSE <<m.base>> \o @]

\* getNewIncrAofName
WithNewIncr(m) == [m EXCEPT !.incr = Append(@, Incr(m.iseq + 1)), !.iseq = @ + 1]

WithIncrAsHistoryAll(m, open) == [m EXCEPT !.incr = <<>>, !.hist = Reverse(m.incr) \o @]

\* markRewrittenIncrAofAsHistory: the file being written, the last, stays
WithIncrAsHistory(m, open) ==
    LET kept == IF open THEN <<Last(m.incr)>> ELSE <<>>
        gone == IF open THEN Front(m.incr) ELSE m.incr
    IN  [m EXCEPT !.incr = kept, !.hist = Reverse(gone) \o @]

\* writeAofManifestFile: a temporary file is written, fsynced and renamed; when the
\* last step, the fsync of the directory, fails the new manifest is already in place
persistAofManifest(b, m) ==
    LET put == [b EXCEPT !.ondisk = m]
    IN  OrDies(Ok(put)) \cup May({Err(b), [Err(put) EXCEPT !.taint = @ \cup {"dirsync"}]})

\* aofDelHistoryFiles: the files go first, then their lines in the manifest
aofDelHistoryFiles(b) ==
    IF b.man.hist = <<>> THEN {b}
    ELSE LET m == [b.man EXCEPT !.hist = <<>>]
             c == [Unlink(b, Range(b.man.hist)) EXCEPT !.man = m]
         IN  Then(OrDies(c), LAMBDA d : persistAofManifest(d, m))

\* Writing the buffer

\* The tail of flushAppendOnlyFile from try_fsync; with everysec the second may not be over
TryFsync(b) ==
    CASE b.house.policy = "always" ->
            OrDies([fsync(b, b.fd) EXCEPT !.lag = FALSE]) \cup May({Stop(b)})
      [] b.house.policy = "everysec" ->
            {b, IF b.syncs = <<>> THEN [b EXCEPT !.syncs = <<b.fd>>, !.lag = FALSE] ELSE b}
      [] OTHER -> {b}

\* A write(2) of k of the writes in the buffer and, when torn, of half of the next
Wrote(b, k, torn) ==
    [b EXCEPT !.files = [f \in DOMAIN @ |->
                            IF f = b.fd THEN [@[f] EXCEPT !.body = @ \o SubSeq(b.buf, 1, k), !.torn = torn]
                            ELSE @[f]],
              !.buf = SubSeq(@, k + 1, Len(@)), !.lag = TRUE]

WroteAll(b) == [Wrote(b, Len(b.buf), FALSE) EXCEPT !.wok = TRUE]

\* A write error: fatal with appendfsync always, otherwise the buffer is kept for later
WriteError(b) == IF b.house.policy = "always" THEN Stop(b) ELSE [b EXCEPT !.wok = FALSE]

\* aofWrite.  A descriptor of -1 never works; a short write that ftruncate cannot undo
\* stays in the file and leaves the buffer.
aofWrite(b) ==
    LET c == [b EXCEPT !.postponed = FALSE]
    IN  IF b.fd = None THEN {WriteError(c)}
        ELSE Then(OrDies(WroteAll(c)), TryFsync)
             \cup May({WriteError(c)} \cup {WriteError(Wrote(c, k, TRUE)) : k \in 0..(Len(b.buf) - 1)})

flushAppendOnlyFile(b, force) ==
    IF b.buf = <<>>
    THEN IF b.lag /\ (b.house.policy = "always" \/ (b.house.policy = "everysec" /\ b.syncs = <<>>))
         THEN TryFsync(b)
         ELSE {b}
    ELSE LET busy == b.house.policy = "everysec" /\ ~force /\ b.syncs # <<>>
             late == IF busy THEN {[b EXCEPT !.postponed = TRUE]} ELSE {}
             now == IF busy /\ ~b.postponed THEN {}
                    ELSE aofWrite(b)
         IN  late \cup now

\* A background thread: BIO_AOF_FSYNC jobs fsync, BIO_CLOSE_FILE jobs fsync and close.
\* A failed fsync of the first kind is remembered and denies writes.
bioProcessBackgroundJobs(b) ==
    (IF b.syncs = <<>> THEN {}
     ELSE LET c == [b EXCEPT !.syncs = Tail(@)]
          IN  {[fsync(c, Head(b.syncs)) EXCEPT !.fok = TRUE]} \cup May({[c EXCEPT !.fok = FALSE]}))
    \cup
    (IF b.closes = <<>> THEN {}
     ELSE LET c == [b EXCEPT !.closes = Tail(@)] IN {fsync(c, Head(b.closes))} \cup May({c}))

\* Rewriting the append only file in the background

Opened(b, f) ==
    [b EXCEPT !.fd = f, !.lag = FALSE,
              !.closes = IF b.fd = None THEN @ ELSE Append(@, b.fd)]

openNewIncrAofForAppend(b) ==
    CASE b.state = "off" -> {Ok(b)}
      [] b.state = "wait" ->
            Then(OrDies(Put(b, TempIncr, <<>>, 0)), LAMBDA c : {Ok(Opened(c, TempIncr))})
            \cup May({Err(b)})
      [] b.state = "on" ->
            LET m == WithNewIncr(b.man)
                Use(c) == IF c.ret = "err" THEN {c}
                          ELSE {[Opened(c, Last(m.incr)) EXCEPT !.man = m]}
            IN  Then(Then(OrDies(Put(b, Last(m.incr), <<>>, 0)),
                          LAMBDA c : persistAofManifest(c, m)), Use)
                \cup May({Err(b)})

\* What the forced flush could not write goes to the new file, although the snapshot
\* of the child, taken later, contains it too
rewriteAppendOnlyFileBackground(b) ==
    LET Open(c) == openNewIncrAofForAppend(
                      IF c.buf = <<>> THEN c ELSE [c EXCEPT !.taint = @ \cup {"flush"}])
        Fork(c) ==
            IF c.ret = "err" THEN {c}
            ELSE {[c EXCEPT !.child = [type |-> "aof", data |-> c.data, done |-> "run"], !.sched = FALSE]}
                 \cup May({Err(c)})
    IN  IF hasActiveChildProcess(b) THEN {Err(b)}
        ELSE Then(Then(flushAppendOnlyFile(b, TRUE), Open), Fork)

\* The end of backgroundRewriteDoneHandler, from the label cleanup
RewriteCleanup(b) ==
    LET c == Unlink(b, {TempBase})
    IN  IF b.state # "wait" THEN c
        ELSE [Unlink(c, {TempIncr}) EXCEPT !.buf = <<>>, !.sched = TRUE]

RewriteFailed(b) == {RewriteCleanup([b EXCEPT !.fails = IF @ = 3 THEN @ ELSE @ + 1])}

\* The success branch once both files have their names
PersistRewrite(b, m) ==
    LET open == b.fd # None
        new == WithIncrAsHistory(m, open)
        names == {m.base} \cup (IF b.state = "wait" THEN {Last(m.incr)} ELSE {})
        Finish(c) == {RewriteCleanup([c EXCEPT !.fails = 0, !.ret = "ok",
                                               !.state = IF @ = "wait" THEN "on" ELSE @])}
        Use(c) == IF c.ret = "err" THEN RewriteFailed(Unlink(c, names))
                  ELSE Then(aofDelHistoryFiles([c EXCEPT !.man = new]), Finish)
    IN  IF open /\ m.incr = <<>>
        THEN {Stop([b EXCEPT !.assert = FALSE])}   \* serverAssert(ln != NULL)
        ELSE Then(persistAofManifest(b, new), Use)

backgroundRewriteDoneHandler(b) ==
    LET m1 == WithNewBase(b.man)
        m2 == WithNewIncr(m1)
        Named(c) ==
            LET undone == Unlink(c, {m1.base})
            IN  IF b.state # "wait" THEN PersistRewrite(c, m1)
                ELSE IF TempIncr \notin DOMAIN c.files THEN RewriteFailed(undone)
                ELSE Then(OrDies(Rename(c, TempIncr, Last(m2.incr))), LAMBDA d : PersistRewrite(d, m2))
                     \cup UNION {RewriteFailed(d) : d \in May({undone})}
    IN  IF b.child.done = "ok"
        THEN Then(OrDies(Rename(b, TempBase, m1.base)), Named)
             \cup UNION {RewriteFailed(d) : d \in May({b})}
        ELSE RewriteFailed(b)

killAppendOnlyChild(b) ==
    IF b.child.type # "aof" THEN b ELSE [Unlink(b, {TempBase}) EXCEPT !.child = NoChild]

stopAppendOnly(b) ==
    Then(flushAppendOnlyFile(b, TRUE),
         LAMBDA c : {killAppendOnlyChild([fsync(c, c.fd) EXCEPT
                        !.fd = None, !.state = "off", !.sched = FALSE, !.lag = FALSE, !.buf = <<>>])})

startAppendOnly(b, inExec) ==
    LET w == [b EXCEPT !.state = "wait"]
        Clear(c) == [c EXCEPT !.wok = TRUE, !.fok = TRUE]
        Use(c) == IF c.ret = "err" THEN {[c EXCEPT !.state = "off"]} ELSE {Clear(c)}
    IN  IF (b.child.type = "rdb") \/ inExec
        THEN {Clear([w EXCEPT !.sched = TRUE,
                              !.taint = IF b.child.type = "aof" THEN @ \cup {"exec"} ELSE @])}
        ELSE Then(rewriteAppendOnlyFileBackground(killAppendOnlyChild(w)), Use)

\* RDB snapshots

\* A synchronous save.  The dump is replaced by a rename; the fsync of the directory
\* may still fail after it.
rdbSave(b) ==
    LET put == Put(b, Rdb, b.data, Len(b.data))
    IN  Then(OrDies(put), LAMBDA c : {[Ok(c) EXCEPT !.dirty = 0, !.bgok = TRUE]})
        \cup May({Err(b), Err(put)})

rdbSaveBackground(b) ==
    LET c == [b EXCEPT !.dirtyb = b.dirty]
    IN  IF hasActiveChildProcess(b) THEN {Err(b)}
        ELSE {[Ok(c) EXCEPT !.child = [type |-> "rdb", data |-> b.data, done |-> "run"]]}
             \cup May({[Err(c) EXCEPT !.bgok = FALSE]})

backgroundSaveDoneHandler(b) ==
    CASE b.child.done = "ok" -> [b EXCEPT !.dirty = @ - b.dirtyb, !.bgok = TRUE]
      [] b.child.done = "err" -> [b EXCEPT !.bgok = FALSE]
      [] OTHER -> b

\* A child writes its file and exits; the AOF child leaves it under a temporary name,
\* the RDB child renames it over the dump itself
ChildExits(b) ==
    LET exit(c, how) == [c EXCEPT !.child.done = how]
        name == IF b.child.type = "aof" THEN TempBase ELSE Rdb
        put == Put(b, name, b.child.data, Len(b.child.data))
    IN  IF ~hasActiveChildProcess(b) \/ b.child.done # "run" THEN {}
        ELSE {exit(put, "ok")}
             \cup May({exit(b, "err")} \cup (IF name = Rdb THEN {exit(put, "err")} ELSE {}))

checkChildrenDone(b) ==
    IF b.child.done = "run" THEN {b}
    ELSE LET S == IF b.child.type = "aof" THEN backgroundRewriteDoneHandler(b)
                  ELSE {backgroundSaveDoneHandler(b)}
         IN  {[c EXCEPT !.child = NoChild] : c \in S}

\* The event loop

\* aofRewriteLimited: after three failures in a row a rewrite waits for minutes
Unlimited(b, S) == IF b.fails = 3 THEN {b} \cup S ELSE S

\* The BGSAVE that had to wait for a child to end, later in the same run of serverCron
ScheduledSave(b) ==
    IF ~hasActiveChildProcess(b) /\ b.bgsched
    THEN {[d EXCEPT !.bgsched = d.ret = "err"] : d \in rdbSaveBackground(b)} ELSE {b}

\* One run of serverCron; due and grow say whether a save point and the growth of the
\* append only file ask for a child by now
serverCron(b, due, grow) ==
    LET Scheduled(c) ==
            IF ~hasActiveChildProcess(c) /\ c.sched
            THEN Unlimited(c, rewriteAppendOnlyFileBackground(c)) ELSE {c}
        Grown(c) ==
            IF grow /\ c.state = "on" /\ ~hasActiveChildProcess(c)
            THEN Unlimited(c, rewriteAppendOnlyFileBackground(c)) ELSE {c}
        Children(c) ==
            IF hasActiveChildProcess(c) THEN checkChildrenDone(c)
            ELSE Then(IF due /\ c.house.save /\ c.dirty > 0 THEN rdbSaveBackground(c) ELSE {c}, Grown)
        Postponed(c) == IF c.state # "off" /\ c.postponed THEN flushAppendOnlyFile(c, FALSE) ELSE {c}
        Retried(c) == IF c.state # "off" /\ ~c.wok THEN {c} \cup flushAppendOnlyFile(c, FALSE) ELSE {c}
    IN  Then(Then(Then(Then(Scheduled(b), Children), Postponed), Retried), ScheduledSave)

writeCommandsDeniedByDiskError(b) ==
    \/ b.house.save /\ ~b.bgok
    \/ b.state # "off" /\ (~b.wok \/ ~b.fok)

feedAppendOnlyFile(b, w) ==
    IF b.state = "on" \/ (b.state = "wait" /\ b.child.type = "aof")
    THEN [b EXCEPT !.buf = Append(@, w)] ELSE b

beforeSleepRepliesFirst(b) ==
    LET c == [b EXCEPT !.acked = @ \cup {w \in Range(b.data) : w >= b.since}]
    IN  IF b.state = "off" THEN {c} ELSE flushAppendOnlyFile(c, FALSE)

\* Replies leave the server at the end of beforeSleep, after the buffer was written
beforeSleepPersist(b) ==
    {IF c.up THEN [c EXCEPT !.acked = @ \cup {w \in Range(c.data) : w >= c.since}] ELSE c :
        c \in IF b.state = "off" THEN {b} ELSE flushAppendOnlyFile(b, FALSE)}

bgrewriteaofCommand(b, inExec) ==
    IF b.child.type = "aof" THEN {b}
    ELSE IF hasActiveChildProcess(b) \/ inExec THEN {[b EXCEPT !.sched = TRUE, !.fails = 0]}
    ELSE rewriteAppendOnlyFileBackground(b)

bgsaveCommand(b, schedule, inExec) ==
    IF b.child.type = "rdb" THEN {b}
    ELSE IF hasActiveChildProcess(b) \/ inExec
    THEN {IF schedule \/ inExec THEN [b EXCEPT !.bgsched = TRUE] ELSE b}
    ELSE rdbSaveBackground(b)

saveCommand(b) == IF b.child.type = "rdb" THEN {b} ELSE rdbSave(b)

updateAppendonly(b, inExec) ==
    IF b.state = "off" THEN startAppendOnly(b, inExec) ELSE stopAppendOnly(b)

\* SHUTDOWN [SAVE | NOSAVE] [FORCE]
finishShutdown(b, how, force) ==
    LET Calm(c) == IF c.child.type = "rdb" /\ c.child.done = "run"
                   THEN [c EXCEPT !.child.done = "sig"] ELSE c
        Synced(c) == IF c.state = "off" THEN {c}
                     ELSE Then(flushAppendOnlyFile(c, TRUE), LAMBDA d : {fsync(d, d.fd)})
        Saved(c) == IF (c.house.save /\ how # "nosave") \/ how = "save"
                    THEN {IF d.ret = "ok" \/ force THEN Stop(d) ELSE d : d \in rdbSave(c)}
                    ELSE {Stop(c)}
    IN  IF b.child.type = "aof" /\ b.state = "wait" /\ ~force THEN {b}
        ELSE Then(Synced(killAppendOnlyChild(Calm(b))), Saved)

\* Starting

Restored(m) ==
    [m EXCEPT !.bseq = IF m.base = None THEN 0 ELSE m.base[2],
              !.iseq = IF m.incr = <<>> THEN 0 ELSE Last(m.incr)[2]]

NeedsUpgrade(files, m) ==
    /\ OldFile \in DOMAIN files
    /\ m.incr = <<>>
    /\ m.base = None \/ (m.base = OldAof /\ OldAof \notin DOMAIN files)

aofUpgradePrepare(b) ==
    LET m == [b.man EXCEPT !.base = OldAof, !.bseq = 1]
        Move(c) == IF c.ret = "err" THEN {Stop(c)}
                   ELSE OrDies([Rename(c, OldFile, OldAof) EXCEPT !.man = m]) \cup May({Stop(c)})
    IN  Then(persistAofManifest(b, m), Move)

Listed(m) == (IF m.base = None THEN <<>> ELSE <<m.base>>) \o m.incr

\* loadSingleAppendOnlyFile cuts a torn tail off; only the last file may have one
Untorn(b, S) == [b EXCEPT !.files = [f \in DOMAIN @ |->
                    IF f \in S THEN [@[f] EXCEPT !.torn = FALSE] ELSE @[f]]]

TornBefore(files, l) == {i \in 1..(Len(l) - 1) : files[l[i]].torn}

loadAppendOnlyFiles(b) ==
    LET Read(c) ==
            LET l == Listed(c.man)
                bad == TornBefore(c.files, l)
            IN  IF ~(Range(l) \subseteq DOMAIN c.files) THEN {Stop(c)}
                ELSE IF bad # {}
                THEN {Stop(Untorn(c, {l[CHOOSE i \in bad : \A j \in bad : i <= j]}))}
                ELSE OrDies(Untorn(c, Range(l)))
    IN  Then(IF NeedsUpgrade(b.files, b.man) THEN aofUpgradePrepare(b) ELSE {b}, Read)

Replayed(files, l) == FlattenSeq([i \in DOMAIN l |-> files[l[i]].body])

aofOpenIfNeededOnServerStart(b) ==
    LET empty == Listed(b.man) = <<>>
        m1 == IF empty THEN WithNewBase(b.man) ELSE b.man
        m2 == IF m1.incr = <<>> THEN WithNewIncr(m1) ELSE m1
        f == Last(m2.incr)
        Create(c) == OrDies(IF f \in DOMAIN c.files THEN c ELSE Put(c, f, <<>>, 0)) \cup May({Stop(c)})
        Save(c) == IF m2 = b.man THEN {Ok(c)} ELSE persistAofManifest(c, m2)
        Use(c) == {IF c.ret = "err" THEN Stop(c)
                   ELSE [c EXCEPT !.man = m2, !.fd = f,
                                  !.taint = IF f \in Range(m2.hist) THEN @ \cup {"history"} ELSE @]}
    IN  Then(Then(Then(IF empty THEN OrDies(Put(b, m1.base, <<>>, 0)) \cup May({Stop(b)}) ELSE {b},
                       Create), Save), Use)

\* The new process: what it read is its dataset
Boot(b, data, dirty) ==
    [b EXCEPT !.data = data, !.dirty = dirty, !.buf = <<>>, !.state = IF b.house.conf THEN "on" ELSE "off",
              !.acked = @ \cap Range(data), !.since = b.next, !.ret = "ok",
              !.sched = FALSE, !.bgsched = FALSE, !.wok = TRUE, !.fok = TRUE, !.bgok = TRUE,
              !.postponed = FALSE, !.lag = FALSE, !.fails = 0, !.dirtyb = 0]

Start(b) ==
    LET c == [b EXCEPT !.up = TRUE, !.man = Restored(b.ondisk), !.fd = None]
        Open(d) ==
            LET data == Replayed(d.files, Listed(d.man))
                dirty == Len(Replayed(d.files, d.man.incr))
            IN  Then(Then(aofOpenIfNeededOnServerStart(d), aofDelHistoryFiles),
                     LAMBDA g : {Boot(g, data, dirty)})
    IN  IF b.house.conf THEN Then(loadAppendOnlyFiles(c), Open)
        ELSE Then(aofDelHistoryFiles(c),
                  LAMBDA d : {Boot(d, IF Rdb \in DOMAIN d.files THEN d.files[Rdb].body ELSE <<>>, 0)})

\* The specification

\* What a server that was never started has: nothing, or the files of an older version
PersistenceInit ==
    \E h \in Houses :
        LET old == IF h.old THEN <<1>> ELSE <<>>
        IN  box = [house |-> h, up |-> FALSE, ret |-> "ok",
                   data |-> old, buf |-> <<>>, state |-> IF h.conf THEN "on" ELSE "off",
                   fd |-> None, man |-> NoManifest, ondisk |-> NoManifest,
                   files |-> IF h.old
                             THEN [f \in {OldFile} |-> [body |-> old, synced |-> 1, torn |-> FALSE]]
                             ELSE [f \in {} |-> 0],
                   child |-> NoChild, syncs |-> <<>>, closes |-> <<>>,
                   sched |-> FALSE, bgsched |-> FALSE, wok |-> TRUE, fok |-> TRUE, bgok |-> TRUE,
                   postponed |-> FALSE, lag |-> FALSE, fails |-> 0, dirty |-> 0, dirtyb |-> 0,
                   acked |-> {}, since |-> 1, taint |-> {}, assert |-> TRUE,
                   next |-> Len(old) + 1, faults |-> h.faults, crashes |-> h.crashes, ops |-> h.ops]

\* An operator's command, or a child the server starts by itself, within the budget
Spending(S(_)) == box.up /\ box.ops > 0 /\ box' \in S([box EXCEPT !.ops = @ - 1])

WriteCommand ==
    /\ box.up /\ box.next <= box.house.writes
    /\ ~writeCommandsDeniedByDiskError(box)
    /\ LET b == [box EXCEPT !.data = Append(@, box.next), !.next = @ + 1, !.dirty = @ + 1]
       IN  box' = feedAppendOnlyFile(b, box.next)
BeforeSleepPersist == box.up /\ box' \in beforeSleepPersist(box)
CronPersist == box.up /\ box' \in serverCron(box, FALSE, FALSE)
CronStarts == \E due, grow \in BOOLEAN : Spending(LAMBDA b : serverCron(b, due, grow))
BgRewriteAof == \E inExec \in BOOLEAN : Spending(LAMBDA b : bgrewriteaofCommand(b, inExec))
BgSave == \E sch, inExec \in BOOLEAN : Spending(LAMBDA b : bgsaveCommand(b, sch, inExec))
SaveCommand == Spending(saveCommand)
ConfigAppendonly == \E inExec \in BOOLEAN : Spending(LAMBDA b : updateAppendonly(b, inExec))
Shutdown == \E how \in {"plain", "save", "nosave"}, force \in BOOLEAN :
                Spending(LAMBDA b : finishShutdown(b, how, force))
Child == box.up /\ box' \in ChildExits(box)
Bio == box.up /\ box' \in bioProcessBackgroundJobs(box)
CrashPersist == box.up /\ box.crashes > 0 /\ box' = Stop([box EXCEPT !.crashes = @ - 1])
StartServer == ~box.up /\ box.assert /\ box' \in Start(box)

PersistenceNext ==
    \/ WriteCommand \/ BeforeSleepPersist \/ CronPersist \/ CronStarts
    \/ BgRewriteAof \/ BgSave \/ SaveCommand \/ ConfigAppendonly \/ Shutdown
    \/ Child \/ Bio \/ CrashPersist \/ StartServer

\* Properties

\* What a start would read from the given files and manifest
Reload(files, m) ==
    LET l == IF NeedsUpgrade(files, m) THEN <<OldFile>> ELSE Listed(m)
        ok == Range(l) \subseteq DOMAIN files /\ TornBefore(files, l) = {}
    IN  [ok |-> ok, data |-> IF ok THEN Replayed(files, l) ELSE <<>>]

\* The files with every byte that was never fsynced lost
Synced(files) ==
    [f \in DOMAIN files |-> [files[f] EXCEPT !.body = SubSeq(@, 1, files[f].synced), !.torn = FALSE]]

\* While the append only file is on, the process may die at any moment, in the middle of a
\* rewrite, of its start or of an upgrade included: the next start accepts the files and
\* rebuilds the dataset from them, every write once and in order, but for the ones still in
\* aof_buf (loadAppendOnlyFiles, backgroundRewriteDoneHandler).  Not after four events
\* that taint says have happened: a rewrite begun when the buffer could not be flushed, a
\* manifest that was renamed but whose directory could not be fsynced, a start that gave its
\* file the name of a history file, and an append only file switched on inside MULTI while a
\* rewrite from the time it was off was running.
ReloadsItsData ==
    box.state = "on" /\ box.taint = {} =>
        LET r == Reload(box.files, box.ondisk) IN r.ok /\ r.data \o box.buf = box.data

\* The comment on the call of aofDelHistoryFiles in backgroundRewriteDoneHandler: "the
\* history deletion failure will not cause any problems".  Whatever becomes of the history
\* files, the next starts accept the files and rebuild the dataset.
HistoryIsHarmless ==
    box.state = "on" /\ box.taint \subseteq {"history"} =>
        LET r == Reload(box.files, box.ondisk) IN r.ok /\ r.data \o box.buf = box.data

\* With appendfsync always, a write the client was told of survives the loss of everything
\* that was never fsynced (flushAppendOnlyFile runs before the replies are sent, and exits
\* when it cannot write or fsync).
AckedIsDurable ==
    box.state = "on" /\ box.house.policy = "always" /\ box.taint = {} =>
        LET r == Reload(Synced(box.files), box.ondisk) IN r.ok /\ box.acked \subseteq Range(r.data)

=============================================================================
