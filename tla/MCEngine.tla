------------------------------ MODULE MCEngine ------------------------------
(***************************************************************************)
(* Small instances of the parts of one Redis server that its dataset and   *)
(* its peers do not show, side by side: a behaviour runs one part, chosen  *)
(* in Init.                                                                *)
(***************************************************************************)
EXTENDS PubSub, Persistence, Clients, TLC

CONSTANTS Parts,               \* the parts to run
          ch1, ch2, pat        \* channels and a pattern

VARIABLE part                  \* the part this behaviour runs

Pick(S) == CHOOSE e \in S : TRUE

-----------------------------------------------------------------------------
\* Two channels of one slot, and a pattern that matches one of them.
MCMatches == {<<pat, ch1>>}

MCSlotOf == (ch1 :> 1) @@ (ch2 :> 1)

-----------------------------------------------------------------------------
House(policy, conf, save, old, writes, faults, crashes, ops) ==
    [policy |-> policy, conf |-> conf, save |-> save, old |-> old,
     writes |-> writes, faults |-> faults, crashes |-> crashes, ops |-> ops]

MCHouses ==
    {House("everysec", TRUE, FALSE, FALSE, 1, 1, 1, 2),
     House("everysec", TRUE, FALSE, FALSE, 2, 0, 1, 2),
     House("everysec", TRUE, FALSE, FALSE, 2, 1, 1, 1),
     House("always", TRUE, FALSE, TRUE, 3, 1, 1, 1),
     House("everysec", FALSE, TRUE, FALSE, 2, 1, 0, 2),
     House("everysec", FALSE, FALSE, FALSE, 1, 3, 0, 1),
     House("no", TRUE, FALSE, FALSE, 2, 0, 2, 2)}

\* One fault and three orders: enough to keep a history line in the manifest.
MCHistory == {House("everysec", TRUE, FALSE, FALSE, 1, 1, 0, 3)}

-----------------------------------------------------------------------------
T(x) == <<"c", x>>

Num(n) == <<"n", n>>

Bulk(arg) == <<<<"$", Len(arg)>>, CR, LF>> \o arg \o <<CR, LF>>

\* A request in the protocol, as a line, and one that cannot be parsed
Resp(args) ==
    [ok |-> TRUE, args |-> args,
     raw |-> <<<<"*", Len(args)>>, CR, LF>> \o FoldLeft(LAMBDA out, a : out \o Bulk(a), <<>>, args)]

Typed(args) == [ok |-> TRUE, args |-> args, raw |-> FoldLeft(LAMBDA out, a : out \o a, <<>>, args) \o <<CR, LF>>]

Malformed(raw) == [ok |-> FALSE, args |-> <<>>, raw |-> raw]

Nothing(raw) == [ok |-> TRUE, args |-> <<>>, raw |-> raw]

\* Commands typed as lines
Do(cmd) == Typed(<<<<T(cmd)>>>>)

DoWith(cmd, n) == Typed(<<<<T(cmd)>>, <<Num(n)>>>>)

BaseVisit ==
    [send |-> <<<<>>>>, threads |-> 1, reads |-> FALSE, maxclients |-> 3, cap |-> 2, chunk |-> 2, minbuf |-> 0,
     hard |-> 0, soft |-> 0, softTime |-> 0, evict |-> 0, idle |-> 0, qbmax |-> 99, time |-> 1, cuts |-> "none",
     cron |-> FALSE, errors |-> FALSE, failovers |-> 0, closes |-> 0]

MCVisits ==
    {\* requests of every form, cut anywhere
     [BaseVisit EXCEPT !.cuts = "any", !.cap = 9,
        !.send = <<<<Resp(<<<<T("set")>>, <<T("x"), CR, LF, T("y")>>>>), Nothing(<<<<"*", 0>>, CR, LF>>), Nothing(<<LF>>),
                     Do("get"), Malformed(<<<<"*", 1>>, CR, LF, T("z"), CR, LF>>), Do("get")>>>>],
     [BaseVisit EXCEPT !.cuts = "any", !.send = <<<<Do("get"), Malformed(<<T("'"), LF>>)>>>>],
     [BaseVisit EXCEPT !.cuts = "any", !.qbmax = 12, !.send = <<<<Do("get"), Malformed([k \in 1..11 |-> T("z")]), Do("get")>>>>],
     [BaseVisit EXCEPT !.cuts = "any", !.qbmax = 4, !.send = <<<<Do("get"), Malformed([k \in 1..6 |-> T("z")])>>>>],
     \* replies larger than the buffer, and deferred lengths
     [BaseVisit EXCEPT !.send = <<<<Do("big"), Do("keys"), Do("get"), Do("keys"), Do("quit"), Do("get")>>>>],
     [BaseVisit EXCEPT !.cap = 4, !.chunk = 5, !.cron = TRUE, !.minbuf = 1, !.time = 2,
        !.send = <<<<Do("keys"), Do("big"), Do("big"), Do("keys")>>>>],
     [BaseVisit EXCEPT !.send = <<<<Do("get"), Do("skip"), Do("keys"), Do("off"), Do("big"), Do("on"), Do("get"), Do("nothing")>>>>],
     \* limits of the output buffers
     [BaseVisit EXCEPT !.hard = 9, !.soft = 3, !.softTime = 1, !.time = 4, !.cron = TRUE, !.cuts = "lines",
        !.send = <<<<Do("big"), Do("big"), Do("get")>>>>],
     \* connections that are refused, idle or closed by the peer
     [BaseVisit EXCEPT !.maxclients = 2, !.idle = 1, !.time = 3, !.cron = TRUE, !.errors = TRUE, !.closes = 1,
        !.send = <<<<Do("get")>>, <<Do("quit")>>, <<>>>>],
     \* clients killed while they block, wait or monitor
     [BaseVisit EXCEPT !.time = 3, !.closes = 1,
        !.send = <<<<DoWith("block", 1), Do("get")>>, <<Do("monitor"), Do("get"), Do("reset"), Do("get")>>,
                   <<DoWith("unblock", 1), DoWith("kill", 1), Do("set"), Do("killall")>>>>],
     [BaseVisit EXCEPT !.send = <<<<DoWith("kill", 1), Do("get")>>, <<Do("monitor"), DoWith("kill", 2), Do("get")>>, <<Do("set"), DoWith("kill", 3)>>>>],
     \* pauses
     [BaseVisit EXCEPT !.time = 3, !.cron = TRUE, !.failovers = 2,
        !.send = <<<<Do("set")>>, <<DoWith("pause", 1), Do("busy")>>, <<DoWith("pausewrite", 2), Do("unpause"), Do("killall")>>>>],
     \* a busy script
     [BaseVisit EXCEPT !.closes = 1, !.send = <<<<Do("get"), Do("busy"), Do("get")>>, <<Do("monitor"), Do("quit")>>, <<DoWith("kill", 1), Do("get")>>>>],
     \* threads
     [BaseVisit EXCEPT !.threads = 2, !.reads = TRUE, !.cron = TRUE, !.cuts = "lines",
        !.send = <<<<Do("get"), Do("busy"), Do("set")>>, <<Do("big"), DoWith("kill", 1)>>>>],
     [BaseVisit EXCEPT !.threads = 2, !.reads = TRUE, !.cuts = "any", !.send = <<<<Do("get"), Malformed(<<T("'"), LF>>)>>, <<Do("get"), Do("big")>>>>],
     [BaseVisit EXCEPT !.threads = 2, !.reads = TRUE, !.time = 3, !.cron = TRUE,
        !.send = <<<<Do("get"), DoWith("block", 1), Do("get")>>, <<Do("big"), DoWith("pause", 1), Do("set")>>>>],
     \* client eviction
     [BaseVisit EXCEPT !.evict = 10, !.send = <<<<Do("big"), Do("get")>>, <<Do("noevict"), Do("keys"), Do("evictable"), Do("get")>>, <<Do("get"), Do("busy")>>>>]}

-----------------------------------------------------------------------------
engineVars == <<pubsubVars, box, net, part>>

\* The parts that do not run stay in one of their initial states.
EngineInit ==
    /\ part \in Parts
    /\ PubSubInit
    /\ PersistenceInit /\ (part = "persistence" \/ box.house = Pick(Houses))
    /\ ClientsInit /\ (part = "clients" \/ net.visit = Pick(Visits))

EngineNext ==
    \/ part = "pubsub" /\ PubSubNext /\ UNCHANGED <<box, net, part>>
    \/ part = "persistence" /\ PersistenceNext /\ UNCHANGED <<pubsubVars, net, part>>
    \/ part = "clients" /\ ClientsNext /\ UNCHANGED <<pubsubVars, box, part>>

EngineSpec == EngineInit /\ [][EngineNext]_engineVars
=============================================================================
