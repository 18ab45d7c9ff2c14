------------------------------ MODULE Sentinel ------------------------------
(***************************************************************************)
(* Sentinels watching one group of vendored Redis servers (sentinel.c).    *)
(*                                                                         *)
(* Each Sentinel keeps a monitor record: the address it takes for the      *)
(* master, its epochs and vote, the failover it runs, and what it knows of *)
(* the replicas and of the other Sentinels; saved is its configuration     *)
(* file.  A conversation is SENTINEL IS-MASTER-DOWN-BY-ADDR on its way to  *)
(* another Sentinel, then the answer on its way back.  cmds are SLAVEOF    *)
(* transactions on their way to a server.  INFO and the hello messages are *)
(* exchanged in one step.  Time is not modelled: a timer step says which   *)
(* timeout has just elapsed, if any.                                       *)
(***************************************************************************)
EXTENDS Integers, FiniteSets, FiniteSetsExt

CONSTANTS Sentinels,     \* the Sentinel processes
          Servers,       \* the Redis servers
          Nobody,        \* no server, no Sentinel, SLAVEOF NO ONE
          Groups         \* the settings and budgets Init chooses from

VARIABLES mon,      \* the monitor record of each Sentinel
          inst,     \* each server: running or not, and the server it follows
          wire,     \* the conversations between Sentinels
          cmds,     \* SLAVEOF commands sent and not yet executed
          cut,      \* pairs whose network link is down
          group,    \* the chosen member of Groups
          spent,    \* how much of each budget has been spent
          won       \* the elections won so far

sentinelVars == <<mon, inst, wire, cmds, cut, group, spent, won>>

Silence == [kind |-> "none"]

ASSUME SentinelAssumption ==
    /\ Nobody \notin Sentinels \cup Servers
    /\ \A g \in Groups :
          /\ g.members \subseteq Sentinels /\ g.quorum \in Nat \ {0}
          /\ g.servers \subseteq Servers /\ g.master \in g.servers
          /\ g.priority \in [g.servers -> Nat] /\ g.offset \in [g.servers -> Nat]
          /\ g.acquainted \in BOOLEAN
          /\ {g.talks, g.epochs, g.faults, g.repairs, g.orders, g.crashes} \subseteq Nat

Reach(a, b) == /\ {a, b} \notin cut
               /\ b \in group.servers => inst[b].up

Charge(what) == /\ spent[what] < group[what]
                /\ spent' = [spent EXCEPT ![what] = @ + 1]

-----------------------------------------------------------------------------
(* Monitor records.                                                        *)

\* createSentinelRedisInstance, for a replica and for a Sentinel.
NewSlave == [down |-> FALSE, reconf |-> "NONE"]

NewSentinel == [masterdown |-> FALSE, leader |-> Nobody, epoch |-> 0]

sentinelGetCurrentMasterAddress(m) ==
    IF m.state \in {"RECONF_SLAVES", "UPDATE_CONFIG"} /\ m.promoted # Nobody
    THEN m.promoted ELSE m.addr

\* The file: who voted for whom is not in it, only the epoch of the vote.
rewriteConfigSentinelOption(m) ==
    LET addr == sentinelGetCurrentMasterAddress(m)
    IN [addr |-> addr, epoch |-> m.epoch, config_epoch |-> m.config_epoch,
        leader_epoch |-> m.leader_epoch,
        slaves |-> (DOMAIN m.slaves \cup {m.addr}) \ {addr}, others |-> DOMAIN m.others]

sentinelFlushConfig(m) == [m EXCEPT !.saved = rewriteConfigSentinelOption(m)]

sentinelResetMaster(m, others) ==
    [m EXCEPT !.slaves = <<>>, !.others = others, !.down = FALSE, !.odown = FALSE,
              !.forced = FALSE, !.leader = Nobody, !.state = "NONE",
              !.promoted = Nobody, !.role = "master"]

sentinelResetMasterAndChangeAddress(m, new) ==
    LET kept == (DOMAIN m.slaves \cup {m.addr}) \ {new}
    IN sentinelFlushConfig(
           [sentinelResetMaster(m, m.others) EXCEPT
               !.addr = new, !.slaves = [i \in kept |-> NewSlave]])

\* sentinelHandleConfiguration: the state a restarted Sentinel begins with.
Loaded(file) ==
    [addr |-> file.addr, epoch |-> Max({file.epoch, file.config_epoch}),
     config_epoch |-> file.config_epoch, leader |-> Nobody,
     leader_epoch |-> file.leader_epoch, failover_epoch |-> 0, state |-> "NONE",
     down |-> FALSE, odown |-> FALSE, forced |-> FALSE, promoted |-> Nobody,
     role |-> "master", tilt |-> FALSE, saved |-> file,
     slaves |-> [i \in file.slaves |-> NewSlave],
     others |-> [t \in file.others |-> NewSentinel]]

-----------------------------------------------------------------------------
(* Failure detection.                                                      *)

\* silent is the set of servers without an answer for down-after-milliseconds.
sentinelCheckSubjectivelyDown(s, m, silent, timeout) ==
    LET StillDown(i, was) == i \in silent \/ (was /\ ~Reach(s, i))
    IN [m EXCEPT !.down = \/ StillDown(m.addr, @)
                          \/ m.role = "slave" /\ (@ \/ timeout = "role"),
                 !.slaves = [i \in DOMAIN @ |->
                                [@[i] EXCEPT !.down = StillDown(i, @)]]]

sentinelCheckObjectivelyDown(m) ==
    [m EXCEPT !.odown = m.down /\ group.quorum <=
        1 + Cardinality({t \in DOMAIN m.others : m.others[t].masterdown})]

-----------------------------------------------------------------------------
(* Votes.                                                                  *)

\* Mutant of sentinelVoteLeader: the vote is answered before it is in the file.
VoteNotSaved(m, req_epoch, runid) ==
    LET v == IF req_epoch > m.epoch
             THEN sentinelFlushConfig([m EXCEPT !.epoch = req_epoch]) ELSE m
    IN IF v.leader_epoch < req_epoch /\ v.epoch <= req_epoch
       THEN [v EXCEPT !.leader = runid, !.leader_epoch = v.epoch]
       ELSE v

\* Mutant of sentinelVoteLeader: votes for whoever asks last in an epoch.
VotesForTheLast(m, req_epoch, runid) ==
    IF m.epoch <= req_epoch
    THEN sentinelFlushConfig([m EXCEPT !.epoch = req_epoch, !.leader = runid,
                                       !.leader_epoch = req_epoch])
    ELSE m

sentinelVoteLeader(m, req_epoch, runid) ==
    LET v == IF req_epoch > m.epoch
             THEN sentinelFlushConfig([m EXCEPT !.epoch = req_epoch]) ELSE m
    IN IF v.leader_epoch < req_epoch /\ v.epoch <= req_epoch
       THEN sentinelFlushConfig([v EXCEPT !.leader = runid,
                                          !.leader_epoch = v.epoch])
       ELSE v

\* Votes of the others in the current epoch.
Ballots(m, c) == Cardinality({t \in DOMAIN m.others :
                     m.others[t].leader = c /\ m.others[t].epoch = m.epoch})

Majority(m, votes) == /\ votes >= (Cardinality(DOMAIN m.others) + 1) \div 2 + 1
                      /\ votes >= group.quorum

(***************************************************************************)
(* What sentinelGetLeader may answer, with the record after the vote it    *)
(* casts: the candidate first in the dictionary is the winner among those  *)
(* with as many votes, and the own vote counts when it is of that epoch.   *)
(***************************************************************************)
sentinelGetLeader(s, m, epoch) ==
    LET most == Max({Ballots(m, c) : c \in Sentinels})
        front == IF most = 0 THEN {Nobody}
                 ELSE {c \in Sentinels : Ballots(m, c) = most}
        Outcome(first) ==
            LET v == sentinelVoteLeader(m, epoch, IF first = Nobody THEN s ELSE first)
                mine == v.leader # Nobody /\ v.leader_epoch = epoch
                votes == Ballots(m, v.leader) + 1
                winner == IF mine /\ votes > most THEN v.leader ELSE first
                count == IF mine /\ votes > most THEN votes ELSE most
            IN [m |-> v, leader |-> IF Majority(m, count) THEN winner ELSE Nobody]
    IN {Outcome(first) : first \in front}

-----------------------------------------------------------------------------
(* The failover state machine.                                             *)

sentinelStartFailover(m) == [m EXCEPT !.state = "WAIT_START",
                                      !.epoch = @ + 1,
                                      !.failover_epoch = m.epoch + 1]

sentinelStartFailoverIfNeeded(m, timeout) ==
    IF m.odown /\ m.state = "NONE" /\ timeout = "retry"
    THEN sentinelStartFailover(m) ELSE m

sentinelAbortFailover(m) == [m EXCEPT !.state = "NONE", !.forced = FALSE,
                                      !.promoted = Nobody]

\* A lower priority, then a larger offset, comes first; 0 is never promoted.
compareSlavesForPromotion(i, j) ==
    \/ group.priority[i] < group.priority[j]
    \/ group.priority[i] = group.priority[j] /\ group.offset[i] > group.offset[j]

sentinelSelectSlave(s, m) ==
    LET fit == {i \in DOMAIN m.slaves : /\ ~m.slaves[i].down /\ Reach(s, i)
                                        /\ group.priority[i] # 0}
    IN {i \in fit : \A j \in fit : ~compareSlavesForPromotion(j, i)}

\* A step's result: the record, the commands it sends, the election it won.
Step(m, sent) == [m |-> m, sent |-> sent, won |-> FALSE]

sentinelFailoverWaitStart(s, m, timeout) ==
    {IF r.leader = s \/ m.forced
     THEN [m |-> [r.m EXCEPT !.state = "SELECT_SLAVE"], sent |-> {}, won |-> ~m.forced]
     ELSE Step(IF timeout = "late" THEN sentinelAbortFailover(r.m) ELSE r.m, {})
     : r \in sentinelGetLeader(s, m, m.failover_epoch)}

sentinelFailoverSelectSlave(s, m) ==
    IF sentinelSelectSlave(s, m) = {} THEN {Step(sentinelAbortFailover(m), {})}
    ELSE {Step([m EXCEPT !.promoted = i, !.state = "SEND_SLAVEOF_NOONE"], {})
          : i \in sentinelSelectSlave(s, m)}

sentinelSendSlaveOf(s, i, host) == [from |-> s, to |-> i, host |-> host]

sentinelFailoverSendSlaveOfNoOne(s, m, timeout) ==
    IF Reach(s, m.promoted)
    THEN {Step([m EXCEPT !.state = "WAIT_PROMOTION"],
               {sentinelSendSlaveOf(s, m.promoted, Nobody)})}
    ELSE {Step(IF timeout = "late" THEN sentinelAbortFailover(m) ELSE m, {})}

sentinelFailoverWaitPromotion(m, timeout) ==
    {Step(IF timeout = "late" THEN sentinelAbortFailover(m) ELSE m, {})}

SlaveOfPromoted(s, m, slaves) ==
    {sentinelSendSlaveOf(s, i, m.promoted) : i \in slaves}

Marked(m, slaves) == [m EXCEPT !.slaves = [i \in DOMAIN @ |->
                         IF i \in slaves THEN [@[i] EXCEPT !.reconf = "SENT"] ELSE @[i]]]

sentinelFailoverDetectEnd(s, x, timeout) ==
    LET m == x.m
        left == {i \in DOMAIN m.slaves \ {m.promoted} : m.slaves[i].reconf # "DONE"}
        late == {i \in left : m.slaves[i].reconf # "SENT" /\ Reach(s, i)}
        ended == [m EXCEPT !.state = "UPDATE_CONFIG"]
    IN CASE m.promoted = Nobody \/ m.slaves[m.promoted].down -> x
         [] timeout = "late" -> Step(Marked(ended, late),
                                     x.sent \cup SlaveOfPromoted(s, m, late))
         [] \A i \in left : m.slaves[i].down -> Step(ended, x.sent)
         [] OTHER -> x

\* parallel-syncs is 1: one replica at a time.
sentinelFailoverReconfNextSlave(s, m, timeout) ==
    LET busy == \E i \in DOMAIN m.slaves : m.slaves[i].reconf \in {"SENT", "INPROG"}
        next == {i \in DOMAIN m.slaves \ {m.promoted} :
                    m.slaves[i].reconf = "NONE" /\ Reach(s, i)}
        sends == IF busy \/ next = {} THEN {Step(m, {})}
                 ELSE {Step(Marked(m, {i}), SlaveOfPromoted(s, m, {i})) : i \in next}
    IN {sentinelFailoverDetectEnd(s, x, timeout) : x \in sends}

sentinelFailoverStateMachine(s, m, timeout) ==
    CASE m.state = "WAIT_START" -> sentinelFailoverWaitStart(s, m, timeout)
      [] m.state = "SELECT_SLAVE" -> sentinelFailoverSelectSlave(s, m)
      [] m.state = "SEND_SLAVEOF_NOONE" -> sentinelFailoverSendSlaveOfNoOne(s, m, timeout)
      [] m.state = "WAIT_PROMOTION" -> sentinelFailoverWaitPromotion(m, timeout)
      [] m.state = "RECONF_SLAVES" -> sentinelFailoverReconfNextSlave(s, m, timeout)
      [] OTHER -> {Step(m, {})}

sentinelFailoverSwitchToPromotedSlave(m) ==
    IF m.state = "UPDATE_CONFIG"
    THEN sentinelResetMasterAndChangeAddress(m, m.promoted) ELSE m

-----------------------------------------------------------------------------
(* What a Sentinel does: its timer, and the messages it receives.          *)

\* Answers older than five ask periods are forgotten; then the others are asked.
ForgetStale(s, m, timeout) ==
    [m EXCEPT !.others = [t \in DOMAIN @ |->
        IF timeout = "stale" /\ ~(m.down /\ Reach(s, t))
        THEN [@[t] EXCEPT !.masterdown = FALSE, !.leader = Nobody] ELSE @[t]]]

sentinelAskMasterStateToOtherSentinels(s, m) ==
    LET open == {p \in DOMAIN wire : wire[p] # Silence}
        askable == {t \in DOMAIN m.others :
                       m.down /\ Reach(s, t) /\ wire[s, t] = Silence}
        room == Min({group.talks - Cardinality(open), Cardinality(askable)})
        q == [kind |-> "ask", addr |-> m.addr, epoch |-> m.epoch,
              runid |-> IF m.state = "NONE" THEN Nobody ELSE s]
    IN {[p \in DOMAIN wire |-> IF p[1] = s /\ p[2] \in asked THEN q ELSE wire[p]]
        : asked \in kSubset(room, askable)}

\* The timeouts that may elapse and make a difference: failover-timeout since the
\* last attempt or state change, the ask periods, and two INFO periods.
Due(m) == {"none", "stale"} \cup {IF m.state = "NONE" THEN "retry" ELSE "late"}
                            \cup (IF m.role = "slave" THEN {"role"} ELSE {})

sentinelTimer(s) ==
    \E timeout \in Due(mon[s]), silent \in {{}} \cup {{i} : i \in group.servers} :
       LET m0 == [mon[s] EXCEPT !.tilt = FALSE]
           m1 == sentinelCheckObjectivelyDown(
                     sentinelCheckSubjectivelyDown(s, m0, silent, timeout))
           m2 == sentinelStartFailoverIfNeeded(m1, timeout)
       IN /\ silent # {} => timeout = "none"
          /\ \A i \in silent : ~Reach(s, i)
          /\ m2.epoch <= group.epochs
          /\ \E x \in sentinelFailoverStateMachine(s, m2, timeout) :
                LET m3 == ForgetStale(s, x.m, timeout)
                IN /\ mon' = [mon EXCEPT ![s] =
                                 sentinelFailoverSwitchToPromotedSlave(m3)]
                   /\ cmds' = cmds \cup x.sent
                   /\ wire' \in sentinelAskMasterStateToOtherSentinels(s, m3)
                   /\ won' = IF x.won
                             THEN won \cup {[by |-> s, epoch |-> m2.failover_epoch,
                                             at |-> m2.epoch]}
                             ELSE won
          /\ UNCHANGED <<inst, cut, group, spent>>

\* SENTINEL IS-MASTER-DOWN-BY-ADDR, at the Sentinel t that s asks.
sentinelIsMasterDownByAddr(s, t) ==
    LET q == wire[s, t]
        m == mon[t]
        known == q.addr = m.addr
        voted == IF known /\ q.runid # Nobody
                 THEN sentinelVoteLeader(m, q.epoch, q.runid) ELSE m
        asked == known /\ q.runid # Nobody
    IN /\ q.kind = "ask"
       /\ mon' = [mon EXCEPT ![t] = voted]
       /\ wire' = [wire EXCEPT ![<<s, t>>] =
                      [kind |-> "answer", down |-> known /\ m.down /\ ~m.tilt,
                       leader |-> IF asked THEN voted.leader ELSE Nobody,
                       epoch |-> IF asked THEN voted.leader_epoch ELSE 0]]
       /\ UNCHANGED <<inst, cmds, cut, group, spent, won>>

sentinelReceiveIsMasterDownReply(s, t) ==
    LET r == wire[s, t]
        heard == [mon[s].others[t] EXCEPT
                     !.masterdown = r.down,
                     !.leader = IF r.leader # Nobody THEN r.leader ELSE @,
                     !.epoch = IF r.leader # Nobody THEN r.epoch ELSE @]
    IN /\ r.kind = "answer"
       /\ wire' = [wire EXCEPT ![<<s, t>>] = Silence]
       /\ mon' = IF t \in DOMAIN mon[s].others
                 THEN [mon EXCEPT ![s].others[t] = heard] ELSE mon
       /\ UNCHANGED <<inst, cmds, cut, group, spent, won>>

sentinelSendHello(m) == [addr |-> sentinelGetCurrentMasterAddress(m),
                         epoch |-> m.epoch, config_epoch |-> m.config_epoch]

\* A hello of s is published on a server both are connected to, or sent directly.
Hears(t, s) ==
    \/ t \in DOMAIN mon[s].others /\ Reach(s, t)
    \/ \E i \in group.servers : /\ \A u \in {s, t} : /\ i \in {mon[u].addr} \cup DOMAIN mon[u].slaves
                                             /\ Reach(u, i)

sentinelProcessHelloMessage(t, s) ==
    LET hello == sentinelSendHello(mon[s])
        m0 == mon[t]
        m1 == IF s \in DOMAIN m0.others THEN m0
              ELSE sentinelFlushConfig([m0 EXCEPT !.others =
                       [u \in DOMAIN @ \cup {s} |-> IF u = s THEN NewSentinel ELSE @[u]]])
        m2 == IF hello.epoch > m1.epoch
              THEN sentinelFlushConfig([m1 EXCEPT !.epoch = hello.epoch]) ELSE m1
        newer == [m2 EXCEPT !.config_epoch = hello.config_epoch]
    IN /\ t # s /\ Hears(t, s)
       /\ mon' = [mon EXCEPT ![t] =
              CASE hello.config_epoch <= m2.config_epoch -> m2
                [] hello.addr = m2.addr -> newer
                [] OTHER -> sentinelResetMasterAndChangeAddress(newer, hello.addr)]
       /\ UNCHANGED <<inst, wire, cmds, cut, group, spent, won>>

sentinelMasterLooksSane(m) == m.role = "master" /\ ~m.down /\ ~m.odown

Role(i) == IF inst[i].host = Nobody THEN "master" ELSE "slave"

\* INFO of the server taken for the master: the replicas it lists are added.
RefreshMaster(m, i) ==
    LET new == {j \in group.servers \ DOMAIN m.slaves : inst[j].up /\ inst[j].host = i}
        heard == [m EXCEPT !.role = Role(i)]
    IN IF new = {} THEN heard
       ELSE sentinelFlushConfig([heard EXCEPT !.slaves =
                [j \in DOMAIN @ \cup new |-> IF j \in new THEN NewSlave ELSE @[j]]])

\* SENT becomes INPROG when the replica follows the promoted one, and INPROG
\* becomes DONE when it has caught up.
Progress(m, i) ==
    LET host == inst[i].host
        inprog == \/ m.slaves[i].reconf = "INPROG"
                  \/ m.slaves[i].reconf = "SENT" /\ host = m.promoted
    IN CASE host = Nobody \/ ~inprog -> m.slaves[i].reconf
         [] inst[host].up -> "DONE"
         [] OTHER -> "INPROG"

\* INFO of a replica; waited: what it reports has been so for long enough.
RefreshSlave(s, m, i, waited) ==
    LET strays == /\ waited /\ sentinelMasterLooksSane(m)
                  /\ IF Role(i) = "master" THEN i # m.promoted
                                           ELSE inst[i].host # m.addr
    IN CASE m.tilt -> Step(m, {})
         [] Role(i) = "master" /\ i = m.promoted /\ m.state = "WAIT_PROMOTION" ->
               Step(sentinelFlushConfig([m EXCEPT !.config_epoch = m.failover_epoch,
                                                  !.state = "RECONF_SLAVES"]), {})
         [] OTHER ->
               Step([m EXCEPT !.slaves[i].reconf = Progress(m, i)],
                    IF strays THEN {sentinelSendSlaveOf(s, i, m.addr)} ELSE {})

sentinelRefreshInstanceInfo(s, i) ==
    /\ Reach(s, i)
    /\ i \in {mon[s].addr} \cup DOMAIN mon[s].slaves
    /\ \E waited \in BOOLEAN :
          LET x == IF i = mon[s].addr THEN Step(RefreshMaster(mon[s], i), {})
                   ELSE RefreshSlave(s, mon[s], i, waited)
          IN mon' = [mon EXCEPT ![s] = x.m] /\ cmds' = cmds \cup x.sent
    /\ UNCHANGED <<inst, wire, cut, group, spent, won>>

-----------------------------------------------------------------------------
(* Orders of the operator, the servers, and what may fail.                 *)

\* SENTINEL FAILOVER: without asking the other Sentinels.
SentinelFailover(s) ==
    /\ Charge("orders")
    /\ mon[s].state = "NONE" /\ sentinelSelectSlave(s, mon[s]) # {}
    /\ mon[s].epoch < group.epochs
    /\ mon' = [mon EXCEPT ![s] = [sentinelStartFailover(@) EXCEPT !.forced = TRUE]]
    /\ UNCHANGED <<inst, wire, cmds, cut, group, won>>

\* SENTINEL RESET: replicas and Sentinels are forgotten, the file is not written.
SentinelReset(s) ==
    /\ Charge("orders")
    /\ mon' = [mon EXCEPT ![s] = sentinelResetMaster(@, <<>>)]
    /\ UNCHANGED <<inst, wire, cmds, cut, group, won>>

\* The server executes the SLAVEOF transaction and rewrites its configuration.
ExecuteSlaveOf(c) ==
    /\ inst' = [inst EXCEPT ![c.to].host = c.host]
    /\ cmds' = cmds \ {c}
    /\ UNCHANGED <<mon, wire, cut, group, spent, won>>

ServerCrash(i) ==
    /\ Charge("faults") /\ {i} \in group.fragile /\ inst[i].up
    /\ inst' = [inst EXCEPT ![i].up = FALSE]
    /\ cmds' = {c \in cmds : c.to # i}
    /\ UNCHANGED <<mon, wire, cut, group, won>>

ServerRestart(i) ==
    /\ Charge("repairs") /\ ~inst[i].up
    /\ inst' = [inst EXCEPT ![i].up = TRUE]
    /\ UNCHANGED <<mon, wire, cmds, cut, group, won>>

\* What was on its way over a link that breaks is lost.
LinkDown(l) ==
    /\ Charge("faults") /\ l \notin cut
    /\ cut' = cut \cup {l}
    /\ cmds' = {c \in cmds : {c.from, c.to} # l}
    /\ wire' = [p \in DOMAIN wire |-> IF {p[1], p[2]} = l THEN Silence ELSE wire[p]]
    /\ UNCHANGED <<mon, inst, group, won>>

LinkUp(l) ==
    /\ Charge("repairs")
    /\ cut' = cut \ {l}
    /\ UNCHANGED <<mon, inst, wire, cmds, group, won>>

\* A Sentinel stops and starts again from its configuration file.
SentinelRestart(s) ==
    /\ Charge("crashes") /\ {s} \in group.fragile
    /\ mon' = [mon EXCEPT ![s] = Loaded(@.saved)]
    /\ wire' = [p \in DOMAIN wire |-> IF s \in {p[1], p[2]} THEN Silence ELSE wire[p]]
    /\ UNCHANGED <<inst, cmds, cut, group, won>>

\* sentinelCheckTiltCondition finds that the clock jumped.
SentinelTilt(s) ==
    /\ Charge("crashes") /\ {s} \in group.fragile /\ ~mon[s].tilt
    /\ mon' = [mon EXCEPT ![s].tilt = TRUE]
    /\ UNCHANGED <<inst, wire, cmds, cut, group, won>>

-----------------------------------------------------------------------------
SentinelInit ==
    /\ group \in Groups
    /\ LET file(s) == [addr |-> group.master, epoch |-> 0, config_epoch |-> 0,
                       leader_epoch |-> 0, slaves |-> group.servers \ {group.master},
                       others |-> IF group.acquainted THEN group.members \ {s} ELSE {}]
       IN mon = [s \in group.members |-> Loaded(file(s))]
    /\ inst = [i \in group.servers |->
                  [up |-> TRUE, host |-> IF i = group.master THEN Nobody ELSE group.master]]
    /\ wire = [p \in group.members \X group.members |-> Silence]
    /\ cmds = {} /\ cut = {} /\ won = {}
    /\ spent = [faults |-> 0, repairs |-> 0, orders |-> 0, crashes |-> 0]

SentinelNext ==
    \/ \E s \in group.members :
          \/ sentinelTimer(s)
          \/ SentinelFailover(s) \/ SentinelReset(s)
          \/ SentinelRestart(s) \/ SentinelTilt(s)
          \/ \E t \in group.members : \/ sentinelIsMasterDownByAddr(s, t)
                                 \/ sentinelReceiveIsMasterDownReply(s, t)
                                 \/ sentinelProcessHelloMessage(s, t)
          \/ \E i \in group.servers : sentinelRefreshInstanceInfo(s, i)
    \/ \E c \in cmds : ExecuteSlaveOf(c)
    \/ \E i \in group.servers : ServerCrash(i) \/ ServerRestart(i)
    \/ \E l \in {f \in group.fragile : Cardinality(f) = 2} : LinkDown(l)
    \/ \E l \in cut : LinkUp(l)

-----------------------------------------------------------------------------
(* Properties.                                                             *)

(***************************************************************************)
(* A Sentinel never takes back a vote: not when it hears of newer epochs,  *)
(* not when it follows another master, and not when it restarts from its   *)
(* file, where only the epoch of the vote is kept (sentinelVoteLeader).    *)
(***************************************************************************)
VotesStand ==
    [][\A s \in group.members :
          /\ mon'[s].leader_epoch >= mon[s].leader_epoch
          /\ mon'[s].leader_epoch = mon[s].leader_epoch
                => mon'[s].leader \in {mon[s].leader, Nobody}]_mon

(***************************************************************************)
(* Where every Sentinel that was elected stood for the epoch it was in,    *)
(* and no failover was ordered by hand, an epoch has one leader and names  *)
(* one master: Sentinels with the same configuration epoch give clients    *)
(* the same address, whatever was lost, delayed or restarted.              *)
(***************************************************************************)
OneMasterPerEpoch ==
    \/ spent.orders > 0 \/ \E e \in won : e.epoch # e.at
    \/ /\ \A a, b \in won : a.epoch = b.epoch => a.by = b.by
       /\ \A s, t \in group.members :
             mon[s].config_epoch = mon[t].config_epoch =>
                 sentinelGetCurrentMasterAddress(mon[s])
                     = sentinelGetCurrentMasterAddress(mon[t])

=============================================================================
