--------------------------- MODULE SentinelSafety ---------------------------
(***************************************************************************)
(* Proofs about the Sentinels: a vote, once cast, stands (VotesStand), for *)
(* any number of Sentinels and servers, any epochs, and whatever is lost,  *)
(* delayed or restarted.  The argument is about one monitor record at a    *)
(* time: every function of sentinel.c that takes one leaves its vote as it *)
(* is or casts a newer one, and does not return before the file has it.    *)
(***************************************************************************)
EXTENDS Sentinel, TLAPS

\* The Sentinels on their own, without the fairness no safety property needs.
SentinelSpec == SentinelInit /\ [][SentinelNext]_sentinelVars

Fields == {"addr", "epoch", "config_epoch", "leader", "leader_epoch", "failover_epoch",
           "state", "down", "odown", "forced", "promoted", "role", "tilt", "saved",
           "slaves", "others"}

(***************************************************************************)
(* A monitor record: its epochs are numbers, and the epoch of its vote is  *)
(* the one in the file.  The last conjunct is what a restart rests on.     *)
(***************************************************************************)
Monitor(m) ==
    /\ m = [f \in Fields |-> m[f]]
    /\ m.epoch \in Nat /\ m.config_epoch \in Nat
    /\ m.leader_epoch \in Nat /\ m.failover_epoch \in Nat
    /\ m.saved.epoch \in Nat /\ m.saved.config_epoch \in Nat
    /\ m.saved.leader_epoch = m.leader_epoch

\* Every pair of Sentinels has a conversation, and a question asks for a vote in a
\* numbered epoch.
Questions(w) ==
    /\ w = [p \in group.members \X group.members |-> w[p]]
    /\ \A p \in group.members \X group.members : w[p].kind = "ask" => w[p].epoch \in Nat

MonitorInv ==
    /\ group \in Groups
    /\ mon = [s \in group.members |-> mon[s]]
    /\ \A s \in group.members : Monitor(mon[s])
    /\ Questions(wire)

\* The step from record m to record n takes no vote back.
VoteStands(m, n) ==
    /\ n.leader_epoch >= m.leader_epoch
    /\ n.leader_epoch = m.leader_epoch => n.leader \in {m.leader, Nobody}

Stands(m, n) == Monitor(n) /\ VoteStands(m, n)

-----------------------------------------------------------------------------
(* One record.                                                             *)

\* A record stands by its own vote, and by the votes its steps stand by.
LEMMA StandsSelf ==
    ASSUME NEW m, Monitor(m)
    PROVE  Stands(m, m)
  BY DEF Stands, VoteStands, Monitor

\* Votes that stand through two changes stand through both.
LEMMA StandsTransitive ==
    ASSUME NEW m, NEW n, NEW k, Monitor(m), Stands(m, n), Stands(n, k)
    PROVE  Stands(m, k)
  <1>1. Monitor(n) /\ Monitor(k)
    BY DEF Stands
  <1>2. m.leader_epoch \in Nat /\ n.leader_epoch \in Nat /\ k.leader_epoch \in Nat
    BY <1>1, Zenon DEF Monitor
  <1>3. QED
    BY <1>1, <1>2 DEF Stands, VoteStands

\* Functions that neither vote nor write the file.
LEMMA Untouched ==
    ASSUME NEW m, Monitor(m), NEW n, n = [f \in Fields |-> n[f]],
           n.epoch \in Nat, n.config_epoch \in Nat, n.failover_epoch \in Nat,
           n.leader_epoch = m.leader_epoch, n.saved = m.saved,
           n.leader \in {m.leader, Nobody}
    PROVE  Stands(m, n)
  BY DEF Stands, VoteStands, Monitor

\* sentinelFlushConfig writes the epoch of the vote, whatever it is.
LEMMA FlushStands ==
    ASSUME NEW m, NEW n, n = [f \in Fields |-> n[f]], Monitor(m),
           n.epoch \in Nat, n.config_epoch \in Nat, n.failover_epoch \in Nat,
           n.leader_epoch \in Nat, VoteStands(m, n)
    PROVE  Stands(m, sentinelFlushConfig(n))
  <1> DEFINE k == sentinelFlushConfig(n)
  <1>1. k = [n EXCEPT !.saved = rewriteConfigSentinelOption(n)]
    BY DEF sentinelFlushConfig
  <1>2. k = [f \in Fields |-> k[f]]
    BY <1>1
  <1>3. \A f \in Fields \ {"saved"} : k[f] = n[f]
    BY <1>1
  <1>4. k.saved = rewriteConfigSentinelOption(n)
    BY <1>1 DEF Fields
  <1>5. /\ k.saved.epoch = n.epoch /\ k.saved.config_epoch = n.config_epoch
        /\ k.saved.leader_epoch = n.leader_epoch
    BY <1>4 DEF rewriteConfigSentinelOption
  <1>6. /\ k.epoch = n.epoch /\ k.config_epoch = n.config_epoch
        /\ k.leader_epoch = n.leader_epoch /\ k.failover_epoch = n.failover_epoch
        /\ k.leader = n.leader
    BY <1>3, Zenon DEF Fields
  <1> HIDE DEF k
  <1>7. QED
    BY <1>2, <1>5, <1>6, ZenonT(30) DEF Stands, VoteStands, Monitor, k

\* sentinelResetMaster forgets for whom it voted, but not in which epoch.
LEMMA ResetStands ==
    ASSUME NEW m, Monitor(m), NEW others
    PROVE  Stands(m, sentinelResetMaster(m, others))
  <1> DEFINE n == sentinelResetMaster(m, others)
  <1>1. n = [f \in Fields |-> n[f]]
    BY DEF sentinelResetMaster, Monitor
  <1>2. /\ n.epoch = m.epoch /\ n.config_epoch = m.config_epoch
        /\ n.failover_epoch = m.failover_epoch /\ n.leader_epoch = m.leader_epoch
        /\ n.saved = m.saved /\ n.leader = Nobody
    BY DEF sentinelResetMaster, Monitor, Fields
  <1> HIDE DEF n
  <1>3. Stands(m, n)
    BY <1>1, <1>2, Untouched, ZenonT(30) DEF Monitor
  <1>4. QED
    BY <1>3 DEF n

\* sentinelResetMasterAndChangeAddress: the same, then the file is written.
LEMMA ChangeAddressStands ==
    ASSUME NEW m, Monitor(m), NEW new
    PROVE  Stands(m, sentinelResetMasterAndChangeAddress(m, new))
  <1> DEFINE r == sentinelResetMaster(m, m.others)
             kept == (DOMAIN m.slaves \cup {m.addr}) \ {new}
             n == [r EXCEPT !.addr = new, !.slaves = [i \in kept |-> NewSlave]]
  <1>1. Stands(m, r)
    BY ResetStands
  <1>2. Monitor(r)
    BY <1>1 DEF Stands
  <1> HIDE DEF r, kept
  <1>3. n = [f \in Fields |-> n[f]]
    BY <1>2, Zenon DEF Monitor
  <1>4. /\ n.epoch = r.epoch /\ n.config_epoch = r.config_epoch
        /\ n.failover_epoch = r.failover_epoch /\ n.leader_epoch = r.leader_epoch
        /\ n.leader = r.leader
    BY <1>2 DEF Monitor, Fields
  <1>5. sentinelResetMasterAndChangeAddress(m, new) = sentinelFlushConfig(n)
    BY DEF sentinelResetMasterAndChangeAddress, r, kept
  <1> HIDE DEF n
  <1>6. VoteStands(m, n)
    BY <1>1, <1>4 DEF Stands, VoteStands
  <1>7. /\ n.epoch \in Nat /\ n.config_epoch \in Nat /\ n.failover_epoch \in Nat
        /\ n.leader_epoch \in Nat
    BY <1>2, <1>4, Zenon DEF Monitor
  <1>8. QED
    BY <1>3, <1>5, <1>6, <1>7, FlushStands

\* A Sentinel that restarts votes as if its vote had gone to somebody else: the epoch of
\* the vote is in the file, the name is not.
LEMMA LoadedStands ==
    ASSUME NEW m, Monitor(m)
    PROVE  Stands(m, Loaded(m.saved))
  <1> DEFINE n == Loaded(m.saved)
  <1>1. n = [f \in Fields |-> n[f]]
    BY Zenon DEF Loaded, Fields
  <1>2. /\ n.epoch = Max({m.saved.epoch, m.saved.config_epoch})
        /\ n.config_epoch = m.saved.config_epoch /\ n.failover_epoch = 0
        /\ n.leader_epoch = m.saved.leader_epoch /\ n.leader = Nobody /\ n.saved = m.saved
    BY Zenon DEF Loaded
  <1> HIDE DEF n
  <1>3. n.epoch \in Nat
    <2>1. m.saved.epoch \in Nat /\ m.saved.config_epoch \in Nat
      BY Zenon DEF Monitor
    <2>2. PICK a, b : a = m.saved.epoch /\ b = m.saved.config_epoch
      OBVIOUS
    <2>3. \E x \in {a, b} : \A y \in {a, b} : x >= y
      BY <2>1, <2>2
    <2>4. Max({a, b}) \in {a, b}
      BY <2>3 DEF Max
    <2>5. QED
      BY <1>2, <2>1, <2>2, <2>4
  <1>4. n.config_epoch \in Nat /\ n.failover_epoch \in Nat /\ n.leader_epoch = m.leader_epoch
    BY <1>2 DEF Monitor
  <1>5. Stands(m, n)
    BY <1>1, <1>2, <1>3, <1>4, Untouched, Zenon
  <1>6. QED
    BY <1>5 DEF n

\* sentinelVoteLeader, at any time and for any request: a vote already cast in the epoch
\* asked for, or in a later one, is answered again; otherwise a vote is cast in an epoch
\* later than that of the last one, and is in the file when the function returns.
LEMMA VoteLeaderStands ==
    ASSUME NEW m, Monitor(m), NEW req_epoch \in Nat, NEW runid
    PROVE  Stands(m, sentinelVoteLeader(m, req_epoch, runid))
  <1> DEFINE r == [m EXCEPT !.epoch = req_epoch]
             v == IF req_epoch > m.epoch THEN sentinelFlushConfig(r) ELSE m
             n == [v EXCEPT !.leader = runid, !.leader_epoch = v.epoch]
  <1>0. m.epoch \in Nat /\ m.leader_epoch \in Nat
    BY DEF Monitor
  <1>1. Stands(m, v) /\ v.epoch >= req_epoch
    <2>1. CASE req_epoch > m.epoch
      <3>1. r = [f \in Fields |-> r[f]]
        BY DEF Monitor
      <3>2. /\ r.epoch = req_epoch /\ r.config_epoch = m.config_epoch
            /\ r.failover_epoch = m.failover_epoch /\ r.leader_epoch = m.leader_epoch
            /\ r.leader = m.leader
        BY DEF Monitor, Fields
      <3> HIDE DEF r
      <3>3. VoteStands(m, r)
        BY <1>0, <3>2 DEF VoteStands
      <3>4. Stands(m, sentinelFlushConfig(r))
        BY <3>1, <3>2, <3>3, FlushStands, Zenon DEF Monitor
      <3>5. sentinelFlushConfig(r).epoch = r.epoch
        BY <3>1 DEF sentinelFlushConfig, Fields
      <3>6. QED
        BY <2>1, <3>2, <3>4, <3>5
    <2>2. CASE ~(req_epoch > m.epoch)
      BY <1>0, <2>2, StandsSelf
    <2>3. QED
      BY <2>1, <2>2
  <1>2. Monitor(v)
    BY <1>1 DEF Stands
  <1>3. sentinelVoteLeader(m, req_epoch, runid)
          = IF v.leader_epoch < req_epoch /\ v.epoch <= req_epoch
            THEN sentinelFlushConfig(n) ELSE v
    BY DEF sentinelVoteLeader
  <1> HIDE DEF v
  <1>4. CASE v.leader_epoch < req_epoch /\ v.epoch <= req_epoch
    <2>1. n = [f \in Fields |-> n[f]]
      BY <1>2, Zenon DEF Monitor
    <2>2. /\ n.epoch = v.epoch /\ n.config_epoch = v.config_epoch
          /\ n.failover_epoch = v.failover_epoch /\ n.leader_epoch = v.epoch
      BY <1>2 DEF Monitor, Fields
    <2> HIDE DEF n
    <2>3. v.epoch \in Nat /\ v.leader_epoch \in Nat
      BY <1>2, Zenon DEF Monitor
    <2>4. n.leader_epoch > v.leader_epoch
      BY <1>1, <1>4, <2>2, <2>3
    <2>5. VoteStands(v, n)
      BY <2>2, <2>3, <2>4 DEF VoteStands
    <2>6. Stands(v, sentinelFlushConfig(n))
      BY <1>2, <2>1, <2>2, <2>5, FlushStands, Zenon DEF Monitor
    <2>7. QED
      BY <1>1, <1>3, <1>4, <2>6, StandsTransitive
  <1>5. CASE ~(v.leader_epoch < req_epoch /\ v.epoch <= req_epoch)
    BY <1>1, <1>3, <1>5
  <1>6. QED
    BY <1>4, <1>5

-----------------------------------------------------------------------------
(* The functions the timer calls.                                          *)

\* What changes neither the epochs nor the vote stands by the vote.
LEMMA PlainStands ==
    ASSUME NEW m, Monitor(m), NEW n, n = [f \in Fields |-> n[f]],
           n.epoch = m.epoch, n.config_epoch = m.config_epoch,
           n.failover_epoch = m.failover_epoch, n.leader_epoch = m.leader_epoch,
           n.saved = m.saved, n.leader = m.leader
    PROVE  Stands(m, n)
  BY Untouched, Zenon DEF Monitor

\* The detection of failures.
LEMMA DetectionStands ==
    ASSUME NEW s, NEW m, Monitor(m), NEW silent, NEW timeout
    PROVE  Stands(m, sentinelCheckObjectivelyDown(
                         sentinelCheckSubjectivelyDown(s, m, silent, timeout)))
  <1> DEFINE n == sentinelCheckSubjectivelyDown(s, m, silent, timeout)
  <1>1. Stands(m, n)
    <2>1. n = [f \in Fields |-> n[f]]
      BY Zenon DEF sentinelCheckSubjectivelyDown, Monitor
    <2>2. /\ n.epoch = m.epoch /\ n.config_epoch = m.config_epoch
          /\ n.failover_epoch = m.failover_epoch /\ n.leader_epoch = m.leader_epoch
          /\ n.saved = m.saved /\ n.leader = m.leader
      BY DEF sentinelCheckSubjectivelyDown, Monitor, Fields
    <2> HIDE DEF n
    <2>3. QED
      BY <2>1, <2>2, PlainStands
  <1>2. Monitor(n)
    BY <1>1 DEF Stands
  <1> HIDE DEF n
  <1> DEFINE k == sentinelCheckObjectivelyDown(n)
  <1>3. Stands(n, k)
    <2>1. k = [f \in Fields |-> k[f]]
      BY <1>2, Zenon DEF sentinelCheckObjectivelyDown, Monitor
    <2>2. /\ k.epoch = n.epoch /\ k.config_epoch = n.config_epoch
          /\ k.failover_epoch = n.failover_epoch /\ k.leader_epoch = n.leader_epoch
          /\ k.saved = n.saved /\ k.leader = n.leader
      BY <1>2 DEF sentinelCheckObjectivelyDown, Monitor, Fields
    <2> HIDE DEF k
    <2>3. QED
      BY <1>2, <2>1, <2>2, PlainStands
  <1>4. Stands(m, k)
    BY <1>1, <1>3, StandsTransitive
  <1>5. QED
    BY <1>4 DEF n

\* sentinelStartFailover moves to a new epoch without voting in it yet.
LEMMA StartFailoverStands ==
    ASSUME NEW m, Monitor(m)
    PROVE  Stands(m, sentinelStartFailover(m))
  <1> DEFINE n == sentinelStartFailover(m)
  <1>1. n = [f \in Fields |-> n[f]]
    BY Zenon DEF sentinelStartFailover, Monitor
  <1>2. /\ n.epoch = m.epoch + 1 /\ n.config_epoch = m.config_epoch
        /\ n.failover_epoch = m.epoch + 1 /\ n.leader_epoch = m.leader_epoch
        /\ n.saved = m.saved /\ n.leader = m.leader
    BY DEF sentinelStartFailover, Monitor, Fields
  <1> HIDE DEF n
  <1>3. n.epoch \in Nat /\ n.config_epoch \in Nat /\ n.failover_epoch \in Nat
    BY <1>2 DEF Monitor
  <1>4. Stands(m, n)
    BY <1>1, <1>2, <1>3, Untouched, Zenon
  <1>5. QED
    BY <1>4 DEF n

\* The states of a failover, entered and left.
LEMMA StateStands ==
    ASSUME NEW m, Monitor(m), NEW state
    PROVE  /\ Stands(m, [m EXCEPT !.state = state])
           /\ Stands(m, sentinelAbortFailover(m))
           /\ \A i : Stands(m, [m EXCEPT !.promoted = i, !.state = state])
           /\ \A slaves : Stands(m, Marked(m, slaves))
  <1>1. ASSUME NEW n, NEW i, NEW slaves,
               \/ n = [m EXCEPT !.state = state]
               \/ n = sentinelAbortFailover(m)
               \/ n = [m EXCEPT !.promoted = i, !.state = state]
               \/ n = Marked(m, slaves)
        PROVE  Stands(m, n)
    <2>1. n = [f \in Fields |-> n[f]]
      BY <1>1, Zenon DEF sentinelAbortFailover, Marked, Monitor
    <2>2. /\ n.epoch = m.epoch /\ n.config_epoch = m.config_epoch
          /\ n.failover_epoch = m.failover_epoch /\ n.leader_epoch = m.leader_epoch
          /\ n.saved = m.saved /\ n.leader = m.leader
      BY <1>1, ZenonT(30) DEF sentinelAbortFailover, Marked, Monitor, Fields
    <2>3. QED
      BY <2>1, <2>2, PlainStands
  <1>2. QED
    BY <1>1, Zenon

\* The record of a step.
LEMMA StepRecord == \A m, sent : Step(m, sent).m = m
  BY DEF Step

\* sentinelFailoverWaitStart: counting the votes may cast the own one.
LEMMA WaitStartStands ==
    ASSUME NEW s, NEW m, Monitor(m), NEW timeout,
           NEW x \in sentinelFailoverWaitStart(s, m, timeout)
    PROVE  Stands(m, x.m)
  <1>1. PICK r \in sentinelGetLeader(s, m, m.failover_epoch) :
           x = IF r.leader = s \/ m.forced
               THEN [m |-> [r.m EXCEPT !.state = "SELECT_SLAVE"], sent |-> {}, won |-> ~m.forced]
               ELSE Step(IF timeout = "late" THEN sentinelAbortFailover(r.m) ELSE r.m, {})
    BY DEF sentinelFailoverWaitStart
  <1>2. \E runid : r.m = sentinelVoteLeader(m, m.failover_epoch, runid)
    <2> DEFINE epoch == m.failover_epoch
               most == Max({Ballots(m, c) : c \in Sentinels})
               front == IF most = 0 THEN {Nobody} ELSE {c \in Sentinels : Ballots(m, c) = most}
               V(first) == sentinelVoteLeader(m, epoch, IF first = Nobody THEN s ELSE first)
               mine(first) == V(first).leader # Nobody /\ V(first).leader_epoch = epoch
               votes(first) == Ballots(m, V(first).leader) + 1
               winner(first) == IF mine(first) /\ votes(first) > most THEN V(first).leader ELSE first
               count(first) == IF mine(first) /\ votes(first) > most THEN votes(first) ELSE most
               L(first) == IF Majority(m, count(first)) THEN winner(first) ELSE Nobody
    <2>1. sentinelGetLeader(s, m, epoch) = {[m |-> V(first), leader |-> L(first)] : first \in front}
      BY Zenon DEF sentinelGetLeader
    <2> HIDE DEF V, L, front, epoch
    <2>2. PICK first \in front : r = [m |-> V(first), leader |-> L(first)]
      BY <1>1, <2>1 DEF epoch
    <2>3. r.m = V(first)
      BY <2>2
    <2>4. QED
      BY <2>3 DEF V, epoch
  <1>3. m.failover_epoch \in Nat
    BY DEF Monitor
  <1>4. PICK n : n = r.m
    OBVIOUS
  <1>5. Stands(m, n)
    <2>1. PICK e : e = m.failover_epoch
      OBVIOUS
    <2>2. PICK runid : n = sentinelVoteLeader(m, e, runid)
      BY <1>2, <1>4, <2>1
    <2>3. QED
      BY <1>3, <2>1, <2>2, VoteLeaderStands
  <1>6. Monitor(n)
    BY <1>5 DEF Stands
  <1>7. \/ x.m = [n EXCEPT !.state = "SELECT_SLAVE"]
        \/ x.m = sentinelAbortFailover(n)
        \/ x.m = n
    BY <1>1, <1>4, Zenon DEF Step
  <1>8. Stands(n, x.m)
    <2>1. /\ Stands(n, [n EXCEPT !.state = "SELECT_SLAVE"])
          /\ Stands(n, sentinelAbortFailover(n)) /\ Stands(n, n)
      BY <1>6, StateStands, StandsSelf, ZenonT(30)
    <2>2. QED
      BY ONLY <1>7, <2>1, Zenon
  <1>9. PICK k : k = x.m
    OBVIOUS
  <1>10. QED
    BY <1>5, <1>8, <1>9, StandsTransitive

\* sentinelFailoverReconfNextSlave: replicas are marked, and the failover may end.
LEMMA ReconfStands ==
    ASSUME NEW s, NEW m, Monitor(m), NEW timeout,
           NEW x \in sentinelFailoverReconfNextSlave(s, m, timeout)
    PROVE  Stands(m, x.m)
  <1>1. PICK y, slaves : /\ x = sentinelFailoverDetectEnd(s, y, timeout)
                         /\ y.m = m \/ y.m = Marked(m, slaves)
    <2> DEFINE busy == \E i \in DOMAIN m.slaves : m.slaves[i].reconf \in {"SENT", "INPROG"}
               next == {i \in DOMAIN m.slaves \ {m.promoted} :
                           m.slaves[i].reconf = "NONE" /\ Reach(s, i)}
               sends == IF busy \/ next = {} THEN {Step(m, {})}
                        ELSE {Step(Marked(m, {i}), SlaveOfPromoted(s, m, {i})) : i \in next}
    <2>1. sentinelFailoverReconfNextSlave(s, m, timeout)
            = {sentinelFailoverDetectEnd(s, y, timeout) : y \in sends}
      BY Zenon DEF sentinelFailoverReconfNextSlave
    <2> HIDE DEF busy, next
    <2>2. ASSUME NEW y \in sends
          PROVE  \E slaves : y.m = m \/ y.m = Marked(m, slaves)
      <3>1. \/ y = Step(m, {})
            \/ \E i \in next : y = Step(Marked(m, {i}), SlaveOfPromoted(s, m, {i}))
        BY Zenon
      <3>2. CASE y = Step(m, {})
        BY ONLY <3>2, StepRecord
      <3>3. ASSUME NEW i \in next, y = Step(Marked(m, {i}), SlaveOfPromoted(s, m, {i}))
            PROVE  y.m = Marked(m, {i})
        BY ONLY <3>3, StepRecord
      <3>4. QED
        BY ONLY <3>1, <3>2, <3>3, Zenon
    <2> HIDE DEF sends
    <2>3. PICK y \in sends : x = sentinelFailoverDetectEnd(s, y, timeout)
      BY <2>1
    <2>4. QED
      BY <2>2, <2>3
  <1>2. PICK n : n = y.m
    OBVIOUS
  <1>3. Stands(m, n)
    BY <1>1, <1>2, StateStands, StandsSelf, ZenonT(30)
  <1>4. Monitor(n)
    BY <1>3 DEF Stands
  <1>5. PICK late : \/ x = y
                    \/ x.m = Marked([n EXCEPT !.state = "UPDATE_CONFIG"], late)
                    \/ x.m = [n EXCEPT !.state = "UPDATE_CONFIG"]
    <2> DEFINE left == {i \in DOMAIN n.slaves \ {n.promoted} : n.slaves[i].reconf # "DONE"}
               tardy == {i \in left : n.slaves[i].reconf # "SENT" /\ Reach(s, i)}
               ended == [n EXCEPT !.state = "UPDATE_CONFIG"]
    <2>1. x = CASE n.promoted = Nobody \/ n.slaves[n.promoted].down -> y
                [] timeout = "late" -> Step(Marked(ended, tardy),
                                            y.sent \cup SlaveOfPromoted(s, n, tardy))
                [] \A i \in left : n.slaves[i].down -> Step(ended, y.sent)
                [] OTHER -> y
      BY <1>1, <1>2, Zenon DEF sentinelFailoverDetectEnd
    <2> HIDE DEF left, tardy, ended
    <2>2. x = y \/ x.m = Marked(ended, tardy) \/ x.m = ended
      BY <2>1 DEF Step
    <2>3. QED
      BY <2>2 DEF ended
  <1>6. PICK k : k = [n EXCEPT !.state = "UPDATE_CONFIG"]
    BY Zenon
  <1>7. Stands(n, k) /\ Monitor(k)
    BY <1>4, <1>6, StateStands, Zenon DEF Stands
  <1>8. Stands(n, x.m)
    <2>1. PICK z : z = x.m
      OBVIOUS
    <2>2. CASE x = y
      BY <1>2, <1>4, <2>2, StandsSelf
    <2>3. CASE x.m = Marked(k, late)
      <3>1. Stands(k, z)
        BY <1>7, <2>1, <2>3, StateStands
      <3>2. QED
        BY <1>4, <1>7, <2>1, <3>1, StandsTransitive
    <2>4. CASE x.m = k
      BY <1>7, <2>4
    <2>5. QED
      BY <1>5, <1>6, <2>2, <2>3, <2>4
  <1>9. PICK z : z = x.m
    OBVIOUS
  <1>10. QED
    BY <1>3, <1>8, <1>9, StandsTransitive

\* The state machine of a failover, in whatever state it is.
LEMMA StateMachineStands ==
    ASSUME NEW s, NEW m, Monitor(m), NEW timeout,
           NEW x \in sentinelFailoverStateMachine(s, m, timeout)
    PROVE  Stands(m, x.m)
  <1> DEFINE Late == Step(IF timeout = "late" THEN sentinelAbortFailover(m) ELSE m, {})
  <1>0. Stands(m, m) /\ Stands(m, sentinelAbortFailover(m))
    BY StandsSelf, StateStands, Zenon
  <1>1. Stands(m, Late.m)
    BY <1>0, StepRecord, Zenon
  <1>2. CASE m.state = "WAIT_START"
    BY <1>2, WaitStartStands DEF sentinelFailoverStateMachine
  <1>3. CASE m.state = "SELECT_SLAVE"
    <2>1. x \in sentinelFailoverSelectSlave(s, m)
      BY <1>3 DEF sentinelFailoverStateMachine
    <2>2. \/ x = Step(sentinelAbortFailover(m), {})
          \/ \E i : x = Step([m EXCEPT !.promoted = i, !.state = "SEND_SLAVEOF_NOONE"], {})
      BY <2>1, Zenon DEF sentinelFailoverSelectSlave
    <2>3. ASSUME NEW i, x = Step([m EXCEPT !.promoted = i, !.state = "SEND_SLAVEOF_NOONE"], {})
          PROVE  Stands(m, x.m)
      <3>1. x.m = [m EXCEPT !.promoted = i, !.state = "SEND_SLAVEOF_NOONE"]
        BY ONLY <2>3, StepRecord
      <3>2. Stands(m, [m EXCEPT !.promoted = i, !.state = "SEND_SLAVEOF_NOONE"])
        BY StateStands, ZenonT(30)
      <3>3. QED
        BY ONLY <3>1, <3>2
    <2>4. QED
      BY <1>0, <2>2, <2>3, StepRecord, Zenon
  <1>4. CASE m.state = "SEND_SLAVEOF_NOONE"
    <2>1. x \in sentinelFailoverSendSlaveOfNoOne(s, m, timeout)
      BY <1>4 DEF sentinelFailoverStateMachine
    <2>2. \/ x = Late
          \/ x = Step([m EXCEPT !.state = "WAIT_PROMOTION"],
                      {sentinelSendSlaveOf(s, m.promoted, Nobody)})
      BY <2>1, Zenon DEF sentinelFailoverSendSlaveOfNoOne
    <2>3. Stands(m, [m EXCEPT !.state = "WAIT_PROMOTION"])
      BY StateStands, ZenonT(30)
    <2> HIDE DEF Late
    <2>4. CASE x = Late
      BY ONLY <1>1, <2>4
    <2>5. ASSUME NEW n, NEW sent, x = Step(n, sent), Stands(m, n)
          PROVE  Stands(m, x.m)
      BY ONLY <2>5, StepRecord
    <2>6. QED
      BY <2>2, <2>3, <2>4, <2>5, Zenon
  <1>5. CASE m.state = "WAIT_PROMOTION"
    <2>1. x = Late
      BY <1>5 DEF sentinelFailoverStateMachine, sentinelFailoverWaitPromotion
    <2> HIDE DEF Late
    <2>2. QED
      BY <1>1, <2>1
  <1>6. CASE m.state = "RECONF_SLAVES"
    BY <1>6, ReconfStands DEF sentinelFailoverStateMachine
  <1>7. CASE m.state \notin {"WAIT_START", "SELECT_SLAVE", "SEND_SLAVEOF_NOONE",
                             "WAIT_PROMOTION", "RECONF_SLAVES"}
    <2>1. x = Step(m, {})
      BY <1>7 DEF sentinelFailoverStateMachine
    <2>2. QED
      BY <1>0, <2>1, StepRecord
  <1>8. QED
    BY <1>2, <1>3, <1>4, <1>5, <1>6, <1>7

\* The end of the timer: stale answers are forgotten and the promoted replica is adopted.
LEMMA TimerEndStands ==
    ASSUME NEW s, NEW m, Monitor(m), NEW timeout
    PROVE  /\ Monitor(ForgetStale(s, m, timeout))
           /\ Stands(m, sentinelFailoverSwitchToPromotedSlave(ForgetStale(s, m, timeout)))
  <1> DEFINE n == ForgetStale(s, m, timeout)
  <1>1. Stands(m, n)
    <2>1. n = [f \in Fields |-> n[f]]
      BY Zenon DEF ForgetStale, Monitor
    <2>2. /\ n.epoch = m.epoch /\ n.config_epoch = m.config_epoch
          /\ n.failover_epoch = m.failover_epoch /\ n.leader_epoch = m.leader_epoch
          /\ n.saved = m.saved /\ n.leader = m.leader
      BY DEF ForgetStale, Monitor, Fields
    <2> HIDE DEF n
    <2>3. QED
      BY <2>1, <2>2, PlainStands
  <1>2. Monitor(n)
    BY <1>1 DEF Stands
  <1> HIDE DEF n
  <1> DEFINE k == sentinelFailoverSwitchToPromotedSlave(n)
  <1>3. Stands(n, k)
    <2>1. PICK new : new = n.promoted
      OBVIOUS
    <2>2. k = n \/ k = sentinelResetMasterAndChangeAddress(n, new)
      BY <2>1 DEF sentinelFailoverSwitchToPromotedSlave
    <2> HIDE DEF k
    <2>3. QED
      BY <1>2, <2>2, StandsSelf, ChangeAddressStands
  <1> HIDE DEF k
  <1>4. Stands(m, k)
    BY <1>1, <1>3, StandsTransitive
  <1>5. QED
    BY <1>2, <1>4 DEF n, k

-----------------------------------------------------------------------------
(* What arrives.                                                           *)

\* What a hello message may tell: a Sentinel, a newer epoch, a newer configuration.
LEMMA HelloStands ==
    ASSUME NEW m, Monitor(m), NEW others, NEW epoch \in Nat
    PROVE  /\ Stands(m, sentinelFlushConfig([m EXCEPT !.others = others]))
           /\ Stands(m, sentinelFlushConfig([m EXCEPT !.epoch = epoch]))
           /\ Stands(m, [m EXCEPT !.config_epoch = epoch])
  <1>0. m.leader_epoch \in Nat
    BY DEF Monitor
  <1>1. Stands(m, sentinelFlushConfig([m EXCEPT !.others = others]))
    <2> DEFINE n == [m EXCEPT !.others = others]
    <2>1. n = [f \in Fields |-> n[f]]
      BY Zenon DEF Monitor
    <2>2. /\ n.epoch = m.epoch /\ n.config_epoch = m.config_epoch
          /\ n.failover_epoch = m.failover_epoch /\ n.leader_epoch = m.leader_epoch
          /\ n.leader = m.leader
      BY DEF Monitor, Fields
    <2> HIDE DEF n
    <2>3. VoteStands(m, n)
      BY ONLY <1>0, <2>2 DEF VoteStands
    <2>4. Stands(m, sentinelFlushConfig(n))
      BY <2>1, <2>2, <2>3, FlushStands, ZenonT(30) DEF Monitor
    <2>5. QED
      BY <2>4 DEF n
  <1>2. Stands(m, sentinelFlushConfig([m EXCEPT !.epoch = epoch]))
    <2> DEFINE n == [m EXCEPT !.epoch = epoch]
    <2>1. n = [f \in Fields |-> n[f]]
      BY Zenon DEF Monitor
    <2>2. /\ n.epoch = epoch /\ n.config_epoch = m.config_epoch
          /\ n.failover_epoch = m.failover_epoch /\ n.leader_epoch = m.leader_epoch
          /\ n.leader = m.leader
      BY DEF Monitor, Fields
    <2> HIDE DEF n
    <2>3. VoteStands(m, n)
      BY ONLY <1>0, <2>2 DEF VoteStands
    <2>4. Stands(m, sentinelFlushConfig(n))
      BY <2>1, <2>2, <2>3, FlushStands, Zenon DEF Monitor
    <2>5. QED
      BY <2>4 DEF n
  <1>3. Stands(m, [m EXCEPT !.config_epoch = epoch])
    <2> DEFINE n == [m EXCEPT !.config_epoch = epoch]
    <2>1. n = [f \in Fields |-> n[f]]
      BY DEF Monitor
    <2>2. /\ n.epoch = m.epoch /\ n.config_epoch = epoch
          /\ n.failover_epoch = m.failover_epoch /\ n.leader_epoch = m.leader_epoch
          /\ n.saved = m.saved /\ n.leader = m.leader
      BY DEF Monitor, Fields
    <2> HIDE DEF n
    <2>3. Stands(m, n)
      BY <2>1, <2>2, Untouched, Zenon DEF Monitor
    <2>4. QED
      BY <2>3 DEF n
  <1>4. QED
    BY <1>1, <1>2, <1>3

\* INFO of the master: replicas are added, and the file is written when there are any.
LEMMA RefreshMasterStands ==
    ASSUME NEW m, Monitor(m), NEW i
    PROVE  Stands(m, RefreshMaster(m, i))
  <1>1. PICK role, slaves :
           LET heard == [m EXCEPT !.role = role]
           IN  \/ RefreshMaster(m, i) = heard
               \/ RefreshMaster(m, i) = sentinelFlushConfig([heard EXCEPT !.slaves = slaves])
    BY Zenon DEF RefreshMaster
  <1> DEFINE heard == [m EXCEPT !.role = role]
             n == [heard EXCEPT !.slaves = slaves]
  <1>2. heard = [f \in Fields |-> heard[f]]
    BY DEF Monitor
  <1>3. /\ heard.epoch = m.epoch /\ heard.config_epoch = m.config_epoch
        /\ heard.failover_epoch = m.failover_epoch /\ heard.leader_epoch = m.leader_epoch
        /\ heard.saved = m.saved /\ heard.leader = m.leader
    BY DEF Monitor, Fields
  <1>4. RefreshMaster(m, i) = heard \/ RefreshMaster(m, i) = sentinelFlushConfig(n)
    BY <1>1
  <1> HIDE DEF heard
  <1>5. Stands(m, heard)
    BY <1>2, <1>3, PlainStands
  <1>6. n = [f \in Fields |-> n[f]]
    BY <1>2
  <1>7. /\ n.epoch = m.epoch /\ n.config_epoch = m.config_epoch
        /\ n.failover_epoch = m.failover_epoch /\ n.leader_epoch = m.leader_epoch
        /\ n.leader = m.leader
    BY <1>2, <1>3 DEF Fields
  <1> HIDE DEF n
  <1>8. m.leader_epoch \in Nat
    BY DEF Monitor
  <1>9. VoteStands(m, n)
    BY ONLY <1>7, <1>8 DEF VoteStands
  <1>10. Stands(m, sentinelFlushConfig(n))
    BY <1>6, <1>7, <1>9, FlushStands, ZenonT(30) DEF Monitor
  <1>11. QED
    BY ONLY <1>4, <1>5, <1>10

\* INFO of a replica: the promoted one begins the reconfiguration in the epoch of the
\* failover, any other one only makes progress.
LEMMA RefreshSlaveStands ==
    ASSUME NEW s, NEW m, Monitor(m), NEW i, NEW waited
    PROVE  Stands(m, RefreshSlave(s, m, i, waited).m)
  <1> DEFINE x == RefreshSlave(s, m, i, waited)
             promoted == [m EXCEPT !.config_epoch = m.failover_epoch, !.state = "RECONF_SLAVES"]
  <1>1. PICK slaves : \/ x.m = m
                      \/ x.m = sentinelFlushConfig(promoted)
                      \/ x.m = [m EXCEPT !.slaves = slaves]
    <2>1. [m EXCEPT !.slaves[i].reconf = Progress(m, i)]
            = [m EXCEPT !.slaves = [m.slaves EXCEPT ![i].reconf = Progress(m, i)]]
      BY DEF Monitor, Fields
    <2>2. PICK n, sent, flushed :
             /\ n = [m EXCEPT !.slaves[i].reconf = Progress(m, i)]
             /\ flushed = sentinelFlushConfig(promoted)
             /\ x = Step(m, {}) \/ x = Step(flushed, {}) \/ x = Step(n, sent)
      <3> DEFINE strays == /\ waited /\ sentinelMasterLooksSane(m)
                           /\ IF Role(i) = "master" THEN i # m.promoted
                                                    ELSE inst[i].host # m.addr
                 sends == IF strays THEN {sentinelSendSlaveOf(s, i, m.addr)} ELSE {}
                 done == Role(i) = "master" /\ i = m.promoted /\ m.state = "WAIT_PROMOTION"
                 progress == [m EXCEPT !.slaves[i].reconf = Progress(m, i)]
      <3>1. x = CASE m.tilt -> Step(m, {})
                  [] done -> Step(sentinelFlushConfig(promoted), {})
                  [] OTHER -> Step(progress, sends)
        BY DEF RefreshSlave
      <3> HIDE DEF x, promoted, sends, done, progress
      <3>2. x = Step(m, {}) \/ x = Step(sentinelFlushConfig(promoted), {}) \/ x = Step(progress, sends)
        BY <3>1
      <3>3. QED
        BY ONLY <3>2, Zenon DEF progress
    <2> HIDE DEF x, promoted
    <2>3. PICK slaves, told : \/ x = Step(m, {})
                              \/ x = Step(sentinelFlushConfig(promoted), {})
                              \/ x = Step([m EXCEPT !.slaves = slaves], told)
      BY ONLY <2>1, <2>2, Zenon
    <2>4. ASSUME NEW k, NEW y, x = Step(k, y)
          PROVE  x.m = k
      BY ONLY <2>4, StepRecord
    <2>5. QED
      BY <2>3, <2>4, Zenon
  <1> HIDE DEF x
  <1>2. promoted = [f \in Fields |-> promoted[f]]
    BY Zenon DEF Monitor
  <1>3. /\ promoted.epoch = m.epoch /\ promoted.config_epoch = m.failover_epoch
        /\ promoted.failover_epoch = m.failover_epoch
        /\ promoted.leader_epoch = m.leader_epoch /\ promoted.leader = m.leader
    BY DEF Monitor, Fields
  <1> HIDE DEF promoted
  <1>4. m.leader_epoch \in Nat
    BY DEF Monitor
  <1>5. VoteStands(m, promoted)
    BY ONLY <1>3, <1>4 DEF VoteStands
  <1>6. Stands(m, sentinelFlushConfig(promoted))
    BY <1>2, <1>3, <1>5, FlushStands, ZenonT(30) DEF Monitor
  <1>7. Stands(m, [m EXCEPT !.slaves = slaves])
    <2> DEFINE n == [m EXCEPT !.slaves = slaves]
    <2>1. n = [f \in Fields |-> n[f]]
      BY DEF Monitor
    <2>2. /\ n.epoch = m.epoch /\ n.config_epoch = m.config_epoch
          /\ n.failover_epoch = m.failover_epoch /\ n.leader_epoch = m.leader_epoch
          /\ n.saved = m.saved /\ n.leader = m.leader
      BY DEF Monitor, Fields
    <2> HIDE DEF n
    <2>3. Stands(m, n)
      BY <2>1, <2>2, PlainStands
    <2>4. QED
      BY <2>3 DEF n
  <1>8. Stands(m, m)
    BY StandsSelf
  <1>9. Stands(m, x.m)
    BY ONLY <1>1, <1>6, <1>7, <1>8, Zenon
  <1>10. QED
    BY <1>9 DEF x

-----------------------------------------------------------------------------
(* The Sentinels together.                                                 *)

\* What every step of the group does.
Kept == MonitorInv' /\ \A s \in group.members : VoteStands(mon[s], mon'[s])

\* A step that changes one record keeps the votes of all when it stands by its own.
LEMMA OneMonitor ==
    ASSUME MonitorInv, NEW t \in group.members, NEW n, Stands(mon[t], n),
           mon' = [mon EXCEPT ![t] = n], UNCHANGED group, Questions(wire)'
    PROVE  Kept
  <1>1. mon' = [s \in group'.members |-> mon'[s]]
    BY Zenon DEF MonitorInv
  <1>2. \A s \in group.members : mon'[s] = IF s = t THEN n ELSE mon[s]
    BY Zenon DEF MonitorInv
  <1>3. \A s \in group.members : Monitor(mon'[s])
    BY <1>2, Zenon DEF MonitorInv, Stands
  <1>4. \A s \in group.members : VoteStands(mon[s], mon'[s])
    <2>1. ASSUME NEW s \in group.members
          PROVE  VoteStands(mon[s], mon'[s])
      <3>1. PICK m : m = mon[s]
        OBVIOUS
      <3>2. Stands(m, m)
        BY <3>1, StandsSelf, Zenon DEF MonitorInv
      <3>3. QED
        BY <1>2, <3>1, <3>2 DEF Stands
    <2>2. QED
      BY <2>1
  <1>5. QED
    BY <1>1, <1>3, <1>4, ZenonT(30) DEF Kept, MonitorInv

\* A step that leaves the records alone keeps them.
LEMMA NoMonitor ==
    ASSUME MonitorInv, UNCHANGED <<mon, group>>, Questions(wire)'
    PROVE  Kept
  <1>1. ASSUME NEW s \in group.members
        PROVE  VoteStands(mon[s], mon'[s])
    <2>1. PICK m : m = mon[s]
      OBVIOUS
    <2>2. Stands(m, m)
      BY <2>1, StandsSelf DEF MonitorInv
    <2>3. QED
      BY <2>1, <2>2 DEF Stands
  <1>2. MonitorInv'
    BY DEF MonitorInv
  <1>3. QED
    BY <1>1, <1>2 DEF Kept

\* Questions that stay as they are.
LEMMA QuestionsSame ==
    ASSUME MonitorInv, UNCHANGED group, UNCHANGED wire
    PROVE  Questions(wire)'
  BY Zenon DEF MonitorInv, Questions

\* Conversations that end or are lost leave the questions of the others.
LEMMA QuestionsFewer ==
    ASSUME MonitorInv, UNCHANGED group,
           wire' = [p \in group.members \X group.members |-> wire'[p]],
           \A p \in group.members \X group.members : wire'[p].kind # "ask" \/ wire'[p] = wire[p]
    PROVE  Questions(wire)'
  BY Zenon DEF MonitorInv, Questions

\* The timer: failures are detected, a failover begins or goes on, the others are asked.
LEMMA TimerKeeps ==
    ASSUME MonitorInv, NEW s \in group.members, sentinelTimer(s)
    PROVE  Kept
  <1>0. PICK m : m = mon[s]
    OBVIOUS
  <1>1. Monitor(m)
    BY <1>0 DEF MonitorInv
  <1>2. PICK timeout, silent, x, m0, m1, m2, m3 :
           /\ m0 = [m EXCEPT !.tilt = FALSE]
           /\ m1 = sentinelCheckObjectivelyDown(
                       sentinelCheckSubjectivelyDown(s, m0, silent, timeout))
           /\ m2 = sentinelStartFailoverIfNeeded(m1, timeout)
           /\ x \in sentinelFailoverStateMachine(s, m2, timeout)
           /\ m3 = ForgetStale(s, x.m, timeout)
           /\ mon' = [mon EXCEPT ![s] = sentinelFailoverSwitchToPromotedSlave(m3)]
           /\ wire' \in sentinelAskMasterStateToOtherSentinels(s, m3)
           /\ UNCHANGED group
    BY <1>0, Zenon DEF sentinelTimer
  <1>3. Stands(m, m0) /\ Monitor(m0)
    <2>1. m0 = [f \in Fields |-> m0[f]]
      BY <1>1, <1>2, Zenon DEF Monitor
    <2>2. /\ m0.epoch = m.epoch /\ m0.config_epoch = m.config_epoch
          /\ m0.failover_epoch = m.failover_epoch /\ m0.leader_epoch = m.leader_epoch
          /\ m0.saved = m.saved /\ m0.leader = m.leader
      BY <1>1, <1>2, Zenon DEF Monitor, Fields
    <2>3. QED
      BY ONLY <1>1, <2>1, <2>2, PlainStands DEF Stands
  <1>4. Stands(m0, m1) /\ Monitor(m1)
    BY <1>2, <1>3, DetectionStands DEF Stands
  <1>5. Stands(m1, m2) /\ Monitor(m2)
    <2>1. m2 = m1 \/ m2 = sentinelStartFailover(m1)
      BY <1>2, Zenon DEF sentinelStartFailoverIfNeeded
    <2>2. QED
      BY ONLY <1>4, <2>1, StandsSelf, StartFailoverStands DEF Stands
  <1>6. PICK n : n = x.m
    OBVIOUS
  <1>7. Stands(m2, n) /\ Monitor(n)
    BY ONLY <1>2, <1>5, <1>6, StateMachineStands DEF Stands
  <1>8. PICK k : k = sentinelFailoverSwitchToPromotedSlave(m3)
    OBVIOUS
  <1>9. Stands(n, k) /\ Monitor(m3)
    BY ONLY <1>2, <1>6, <1>7, <1>8, TimerEndStands
  <1>10. Stands(m, k)
    <2>1. Stands(m, m1)
      BY ONLY <1>1, <1>3, <1>4, StandsTransitive
    <2>2. Stands(m, m2)
      BY ONLY <1>1, <1>5, <2>1, StandsTransitive
    <2>3. Stands(m, n)
      BY ONLY <1>1, <1>7, <2>2, StandsTransitive
    <2>4. QED
      BY ONLY <1>1, <1>9, <2>3, StandsTransitive
  <1>11. Questions(wire)'
    <2> DEFINE q == [kind |-> "ask", addr |-> m3.addr, epoch |-> m3.epoch,
                     runid |-> IF m3.state = "NONE" THEN Nobody ELSE s]
    <2>1. PICK asked :
             wire' = [p \in DOMAIN wire |-> IF p[1] = s /\ p[2] \in asked THEN q ELSE wire[p]]
      BY <1>2, Zenon DEF sentinelAskMasterStateToOtherSentinels
    <2>2. DOMAIN wire = group.members \X group.members
      BY Zenon DEF MonitorInv, Questions
    <2>3. q.epoch \in Nat
      BY <1>9, Zenon DEF Monitor
    <2> HIDE DEF q
    <2>4. \A p \in group.members \X group.members : wire'[p] = q \/ wire'[p] = wire[p]
      BY ONLY <2>1, <2>2, Zenon
    <2>5. wire' = [p \in group.members \X group.members |-> wire'[p]]
      BY ONLY <2>1, <2>2, Zenon
    <2>6. QED
      BY ONLY <1>2, <2>3, <2>4, <2>5, MonitorInv, ZenonT(30) DEF MonitorInv, Questions
  <1>12. QED
    BY <1>0, <1>2, <1>8, <1>10, <1>11, OneMonitor, Zenon

\* A question: the vote it asks for is cast, or the one cast earlier is answered.
LEMMA IsMasterDownKeeps ==
    ASSUME MonitorInv, NEW s \in group.members, NEW t \in group.members,
           sentinelIsMasterDownByAddr(s, t)
    PROVE  Kept
  <1>1. PICK m, q, n, answer :
           /\ m = mon[t] /\ q = wire[<<s, t>>]
           /\ n = m \/ n = sentinelVoteLeader(m, q.epoch, q.runid)
           /\ q.kind = "ask"
           /\ mon' = [mon EXCEPT ![t] = n]
           /\ answer.kind = "answer"
           /\ wire' = [wire EXCEPT ![<<s, t>>] = answer]
           /\ UNCHANGED group
    <2> DEFINE m == mon[t]
               q == wire[<<s, t>>]
               asked == q.addr = m.addr /\ q.runid # Nobody
               n == IF asked THEN sentinelVoteLeader(m, q.epoch, q.runid) ELSE m
               answer == [kind |-> "answer", down |-> q.addr = m.addr /\ m.down /\ ~m.tilt,
                          leader |-> IF asked THEN n.leader ELSE Nobody,
                          epoch |-> IF asked THEN n.leader_epoch ELSE 0]
    <2>1. /\ q.kind = "ask" /\ mon' = [mon EXCEPT ![t] = n]
          /\ wire' = [wire EXCEPT ![<<s, t>>] = answer] /\ UNCHANGED group
      BY ZenonT(30) DEF sentinelIsMasterDownByAddr
    <2>2. answer.kind = "answer"
      BY Zenon
    <2>3. n = m \/ n = sentinelVoteLeader(m, q.epoch, q.runid)
      BY Zenon
    <2> HIDE DEF n, answer, q, m
    <2>4. QED
      BY ONLY <2>1, <2>2, <2>3, Zenon DEF q, m
  <1>2. Monitor(m)
    BY <1>1, Zenon DEF MonitorInv
  <1>3. q.epoch \in Nat
    BY <1>1, Zenon DEF MonitorInv, Questions
  <1>4. Stands(m, n)
    <2>1. PICK e, runid : e = q.epoch /\ runid = q.runid
      OBVIOUS
    <2>2. QED
      BY ONLY <1>1, <1>2, <1>3, <2>1, StandsSelf, VoteLeaderStands, Zenon
  <1>5. Questions(wire)'
    <2>1. wire = [p \in group.members \X group.members |-> wire[p]]
      BY Zenon DEF MonitorInv, Questions
    <2>2. wire' = [p \in group.members \X group.members |-> wire'[p]]
      BY ONLY <1>1, <2>1, Zenon
    <2>3. \A p \in group.members \X group.members : wire'[p].kind # "ask" \/ wire'[p] = wire[p]
      BY ONLY <1>1, <2>1, Zenon
    <2>4. QED
      BY <1>1, <2>2, <2>3, QuestionsFewer, ZenonT(30)
  <1>6. QED
    BY <1>1, <1>4, <1>5, OneMonitor, ZenonT(30)

\* An answer changes what is remembered of the Sentinel that gave it.
LEMMA ReplyKeeps ==
    ASSUME MonitorInv, NEW s \in group.members, NEW t \in group.members,
           sentinelReceiveIsMasterDownReply(s, t)
    PROVE  Kept
  <1>1. PICK others :
           /\ mon' = mon \/ mon' = [mon EXCEPT ![s] = [mon[s] EXCEPT !.others = others]]
           /\ wire' = [wire EXCEPT ![<<s, t>>] = Silence]
           /\ UNCHANGED group
    BY Zenon DEF sentinelReceiveIsMasterDownReply
  <1>2. Questions(wire)'
    <2>1. wire = [p \in group.members \X group.members |-> wire[p]]
      BY Zenon DEF MonitorInv, Questions
    <2>2. wire' = [p \in group.members \X group.members |-> wire'[p]]
      BY ONLY <1>1, <2>1, Zenon
    <2>3. \A p \in group.members \X group.members : wire'[p].kind # "ask" \/ wire'[p] = wire[p]
      BY ONLY <1>1, <2>1, ZenonT(30) DEF Silence
    <2>4. QED
      BY <1>1, <2>2, <2>3, QuestionsFewer, Zenon
  <1>3. CASE mon' = mon
    BY <1>1, <1>2, <1>3, NoMonitor
  <1>4. CASE mon' = [mon EXCEPT ![s] = [mon[s] EXCEPT !.others = others]]
    <2>1. PICK m, n : m = mon[s] /\ n = [m EXCEPT !.others = others]
      BY Zenon
    <2>2. Monitor(m)
      BY <2>1, Zenon DEF MonitorInv
    <2>3. n = [f \in Fields |-> n[f]]
      BY <2>1, <2>2, Zenon DEF Monitor
    <2>4. /\ n.epoch = m.epoch /\ n.config_epoch = m.config_epoch
          /\ n.failover_epoch = m.failover_epoch /\ n.leader_epoch = m.leader_epoch
          /\ n.saved = m.saved /\ n.leader = m.leader
      BY <2>1, <2>2, ZenonT(30) DEF Monitor, Fields
    <2>5. Stands(m, n)
      BY ONLY <2>2, <2>3, <2>4, PlainStands
    <2>6. QED
      BY <1>1, <1>2, <1>4, <2>1, <2>5, OneMonitor, Zenon
  <1>5. QED
    BY <1>1, <1>3, <1>4

\* A hello: the newer epoch, and with a newer configuration the other master.
LEMMA HelloKeeps ==
    ASSUME MonitorInv, NEW t \in group.members, NEW s \in group.members,
           sentinelProcessHelloMessage(t, s)
    PROVE  Kept
  <1>1. PICK m0, addr, epoch, config_epoch :
           /\ m0 = mon[t] /\ addr = sentinelGetCurrentMasterAddress(mon[s])
           /\ epoch = mon[s].epoch /\ config_epoch = mon[s].config_epoch
    OBVIOUS
  <1>2. PICK m1 : m1 = (IF s \in DOMAIN m0.others THEN m0
                        ELSE sentinelFlushConfig([m0 EXCEPT !.others =
                               [u \in DOMAIN @ \cup {s} |-> IF u = s THEN NewSentinel ELSE @[u]]]))
    OBVIOUS
  <1>3. PICK m2 : m2 = (IF epoch > m1.epoch
                        THEN sentinelFlushConfig([m1 EXCEPT !.epoch = epoch]) ELSE m1)
    OBVIOUS
  <1>4. PICK newer : newer = [m2 EXCEPT !.config_epoch = config_epoch]
    BY ZenonT(30)
  <1>5. PICK n :
           /\ n = CASE config_epoch <= m2.config_epoch -> m2
                    [] addr = m2.addr -> newer
                    [] OTHER -> sentinelResetMasterAndChangeAddress(newer, addr)
           /\ mon' = [mon EXCEPT ![t] = n]
           /\ UNCHANGED <<wire, group>>
    BY <1>1, <1>2, <1>3, <1>4, ZenonT(30) DEF sentinelProcessHelloMessage, sentinelSendHello
  <1>6. Monitor(m0) /\ epoch \in Nat /\ config_epoch \in Nat
    BY <1>1, ZenonT(30) DEF MonitorInv, Monitor
  <1>7. /\ Stands(m0, m2) /\ Stands(m0, newer)
        /\ Stands(m0, sentinelResetMasterAndChangeAddress(newer, addr))
    <2>1. Stands(m0, m1) /\ Monitor(m1)
      <3>1. PICK others : m1 = m0 \/ m1 = sentinelFlushConfig([m0 EXCEPT !.others = others])
        BY ONLY <1>2, Zenon
      <3>2. Stands(m0, sentinelFlushConfig([m0 EXCEPT !.others = others]))
        BY ONLY <1>6, HelloStands, ZenonT(30)
      <3>3. QED
        BY ONLY <1>6, <3>1, <3>2, StandsSelf DEF Stands
    <2>2. Stands(m1, m2) /\ Monitor(m2)
      <3>1. m2 = m1 \/ m2 = sentinelFlushConfig([m1 EXCEPT !.epoch = epoch])
        BY ONLY <1>3, Zenon
      <3>2. Stands(m1, sentinelFlushConfig([m1 EXCEPT !.epoch = epoch]))
        BY ONLY <1>6, <2>1, HelloStands, ZenonT(30)
      <3>3. QED
        BY ONLY <2>1, <3>1, <3>2, StandsSelf DEF Stands
    <2>3. Stands(m0, m2)
      BY ONLY <1>6, <2>1, <2>2, StandsTransitive
    <2>4. Stands(m2, newer) /\ Monitor(newer)
      BY ONLY <1>4, <1>6, <2>2, HelloStands, Zenon DEF Stands
    <2>5. Stands(m0, newer)
      BY ONLY <1>6, <2>3, <2>4, StandsTransitive
    <2>6. PICK k : k = sentinelResetMasterAndChangeAddress(newer, addr)
      OBVIOUS
    <2>7. Stands(newer, k)
      BY ONLY <2>4, <2>6, ChangeAddressStands
    <2>8. QED
      BY ONLY <1>6, <2>3, <2>5, <2>6, <2>7, StandsTransitive
  <1>8. Stands(m0, n)
    BY ONLY <1>5, <1>7
  <1>9. QED
    BY <1>1, <1>5, <1>8, QuestionsSame, OneMonitor, Zenon

\* INFO.
LEMMA RefreshKeeps ==
    ASSUME MonitorInv, NEW s \in group.members, NEW i, sentinelRefreshInstanceInfo(s, i)
    PROVE  Kept
  <1>1. PICK waited, m, x :
           /\ m = mon[s]
           /\ x = Step(RefreshMaster(m, i), {}) \/ x = RefreshSlave(s, m, i, waited)
           /\ mon' = [mon EXCEPT ![s] = x.m]
           /\ UNCHANGED <<wire, group>>
    BY Zenon DEF sentinelRefreshInstanceInfo
  <1>2. Monitor(m)
    BY <1>1, Zenon DEF MonitorInv
  <1>3. PICK n : n = x.m
    OBVIOUS
  <1>4. Stands(m, n)
    <2>1. CASE x = Step(RefreshMaster(m, i), {})
      <3>1. n = RefreshMaster(m, i)
        BY ONLY <1>3, <2>1, StepRecord
      <3>2. QED
        BY ONLY <1>2, <3>1, RefreshMasterStands
    <2>2. CASE x = RefreshSlave(s, m, i, waited)
      BY ONLY <1>2, <1>3, <2>2, RefreshSlaveStands
    <2>3. QED
      BY ONLY <1>1, <2>1, <2>2
  <1>5. QED
    BY <1>1, <1>3, <1>4, QuestionsSame, OneMonitor, Zenon

\* The operator's failover and reset, a restart from the file, a jump of the clock.
LEMMA OrdersKeep ==
    ASSUME MonitorInv, NEW s \in group.members,
           SentinelFailover(s) \/ SentinelReset(s) \/ SentinelRestart(s) \/ SentinelTilt(s)
    PROVE  Kept
  <1>0. PICK m : m = mon[s]
    OBVIOUS
  <1>1. Monitor(m)
    BY <1>0 DEF MonitorInv
  <1>2. CASE SentinelFailover(s)
    <2>1. PICK k, n : /\ k = sentinelStartFailover(m) /\ n = [k EXCEPT !.forced = TRUE]
                      /\ mon' = [mon EXCEPT ![s] = n] /\ UNCHANGED <<wire, group>>
      BY <1>0, <1>2, ZenonT(30) DEF SentinelFailover
    <2>2. Stands(m, k) /\ Monitor(k)
      BY <1>1, <2>1, StartFailoverStands DEF Stands
    <2>3. Stands(k, n)
      <3>1. n = [f \in Fields |-> n[f]]
        BY <2>1, <2>2, ZenonT(30) DEF Monitor
      <3>2. /\ n.epoch = k.epoch /\ n.config_epoch = k.config_epoch
            /\ n.failover_epoch = k.failover_epoch /\ n.leader_epoch = k.leader_epoch
            /\ n.saved = k.saved /\ n.leader = k.leader
        BY <2>1, <2>2, ZenonT(30) DEF Monitor, Fields
      <3>3. QED
        BY ONLY <2>2, <3>1, <3>2, PlainStands
    <2>4. Stands(m, n)
      BY ONLY <1>1, <2>2, <2>3, StandsTransitive
    <2>5. QED
      BY <1>0, <2>1, <2>4, QuestionsSame, OneMonitor, Zenon
  <1>3. CASE SentinelReset(s)
    <2>1. PICK n : /\ n = sentinelResetMaster(m, <<>>)
                   /\ mon' = [mon EXCEPT ![s] = n] /\ UNCHANGED <<wire, group>>
      BY <1>0, <1>3, ZenonT(30) DEF SentinelReset
    <2>2. Stands(m, n)
      BY <1>1, <2>1, ResetStands
    <2>3. QED
      BY <1>0, <2>1, <2>2, QuestionsSame, OneMonitor, Zenon
  <1>4. CASE SentinelRestart(s)
    <2>1. PICK n : /\ n = Loaded(m.saved)
                   /\ mon' = [mon EXCEPT ![s] = n] /\ UNCHANGED group
                   /\ wire' = [p \in DOMAIN wire |->
                                  IF s \in {p[1], p[2]} THEN Silence ELSE wire[p]]
      BY <1>0, <1>4, ZenonT(30) DEF SentinelRestart
    <2>2. Stands(m, n)
      BY <1>1, <2>1, LoadedStands
    <2>3. DOMAIN wire = group.members \X group.members
      BY Zenon DEF MonitorInv, Questions
    <2>4. /\ wire' = [p \in group.members \X group.members |-> wire'[p]]
          /\ \A p \in group.members \X group.members : wire'[p].kind # "ask" \/ wire'[p] = wire[p]
      BY ONLY <2>1, <2>3, Zenon DEF Silence
    <2>5. QED
      BY <1>0, <2>1, <2>2, <2>4, QuestionsFewer, OneMonitor, Zenon
  <1>5. CASE SentinelTilt(s)
    <2>1. PICK n : /\ n = [m EXCEPT !.tilt = TRUE]
                   /\ mon' = [mon EXCEPT ![s] = n] /\ UNCHANGED <<wire, group>>
      BY <1>0, <1>5, ZenonT(30) DEF SentinelTilt
    <2>2. n = [f \in Fields |-> n[f]]
      BY <1>1, <2>1, Zenon DEF Monitor
    <2>3. /\ n.epoch = m.epoch /\ n.config_epoch = m.config_epoch
          /\ n.failover_epoch = m.failover_epoch /\ n.leader_epoch = m.leader_epoch
          /\ n.saved = m.saved /\ n.leader = m.leader
      BY <1>1, <2>1 DEF Monitor, Fields
    <2>4. Stands(m, n)
      BY ONLY <1>1, <2>2, <2>3, PlainStands
    <2>5. QED
      BY <1>0, <2>1, <2>4, QuestionsSame, OneMonitor, Zenon
  <1>6. QED
    BY <1>2, <1>3, <1>4, <1>5

\* The servers and the network: no record changes, and questions can only be lost.
LEMMA OutsideKeeps ==
    ASSUME MonitorInv,
           \/ \E c \in cmds : ExecuteSlaveOf(c)
           \/ \E i \in group.servers : ServerCrash(i) \/ ServerRestart(i)
           \/ \E l : LinkDown(l) \/ LinkUp(l)
    PROVE  Kept
  <1>1. /\ UNCHANGED <<mon, group>>
        /\ \/ UNCHANGED wire
           \/ \E l : wire' = [p \in DOMAIN wire |->
                                 IF {p[1], p[2]} = l THEN Silence ELSE wire[p]]
    BY ZenonT(30) DEF ExecuteSlaveOf, ServerCrash, ServerRestart, LinkDown, LinkUp
  <1>2. CASE UNCHANGED wire
    BY <1>1, <1>2, QuestionsSame, NoMonitor
  <1>3. ASSUME NEW l, wire' = [p \in DOMAIN wire |->
                                  IF {p[1], p[2]} = l THEN Silence ELSE wire[p]]
        PROVE  Kept
    <2>1. DOMAIN wire = group.members \X group.members
      BY ZenonT(30) DEF MonitorInv, Questions
    <2>2. /\ wire' = [p \in group.members \X group.members |-> wire'[p]]
          /\ \A p \in group.members \X group.members : wire'[p].kind # "ask" \/ wire'[p] = wire[p]
      BY ONLY <1>3, <2>1, ZenonT(30) DEF Silence
    <2>3. QED
      BY <1>1, <2>2, QuestionsFewer, NoMonitor, ZenonT(30)
  <1>4. QED
    BY <1>1, <1>2, <1>3

\* Every step keeps the invariant and lets votes stand.
LEMMA SentinelNextKeeps ==
    ASSUME MonitorInv, [SentinelNext]_sentinelVars
    PROVE  Kept
  <1>1. CASE UNCHANGED sentinelVars
    BY <1>1, QuestionsSame, NoMonitor DEF sentinelVars
  <1>2. CASE SentinelNext
    <2>1. ASSUME NEW s \in group.members,
                 \/ sentinelTimer(s)
                 \/ SentinelFailover(s) \/ SentinelReset(s)
                 \/ SentinelRestart(s) \/ SentinelTilt(s)
          PROVE  Kept
      BY <2>1, TimerKeeps, OrdersKeep
    <2>2. ASSUME NEW s \in group.members, NEW t \in group.members,
                 \/ sentinelIsMasterDownByAddr(s, t)
                 \/ sentinelReceiveIsMasterDownReply(s, t)
                 \/ sentinelProcessHelloMessage(s, t)
          PROVE  Kept
      BY <2>2, IsMasterDownKeeps, ReplyKeeps, HelloKeeps
    <2>3. ASSUME NEW s \in group.members, NEW i \in group.servers,
                 sentinelRefreshInstanceInfo(s, i)
          PROVE  Kept
      BY <2>3, RefreshKeeps
    <2>4. ASSUME \/ \E c \in cmds : ExecuteSlaveOf(c)
                 \/ \E i \in group.servers : ServerCrash(i) \/ ServerRestart(i)
                 \/ \E l \in {f \in group.fragile : Cardinality(f) = 2} : LinkDown(l)
                 \/ \E l \in cut : LinkUp(l)
          PROVE  Kept
      BY <2>4, OutsideKeeps
    <2>5. QED
      BY ONLY <1>2, <2>1, <2>2, <2>3, <2>4, Zenon DEF SentinelNext
  <1>3. QED
    BY <1>1, <1>2

\* The Sentinels start with the configuration file an operator wrote.
LEMMA SentinelInitMonitors == SentinelInit => MonitorInv
  <1> SUFFICES ASSUME SentinelInit PROVE MonitorInv
    OBVIOUS
  <1> DEFINE file(s) == [addr |-> group.master, epoch |-> 0, config_epoch |-> 0,
                         leader_epoch |-> 0, slaves |-> group.servers \ {group.master},
                         others |-> IF group.acquainted THEN group.members \ {s} ELSE {}]
  <1>1. /\ group \in Groups /\ mon = [s \in group.members |-> Loaded(file(s))]
        /\ wire = [p \in group.members \X group.members |-> Silence]
    BY Zenon DEF SentinelInit
  <1>2. ASSUME NEW s \in group.members
        PROVE  Monitor(Loaded(file(s)))
    <2> DEFINE f == file(s)
               n == Loaded(f)
    <2>1. f.epoch = 0 /\ f.config_epoch = 0 /\ f.leader_epoch = 0
      OBVIOUS
    <2> HIDE DEF f
    <2>2. n = [g \in Fields |-> n[g]]
      BY Zenon DEF Loaded, Fields
    <2>3. /\ n.epoch = Max({f.epoch, f.config_epoch}) /\ n.config_epoch = f.config_epoch
          /\ n.failover_epoch = 0 /\ n.leader_epoch = f.leader_epoch /\ n.saved = f
      BY Zenon DEF Loaded
    <2> HIDE DEF n
    <2>4. Max({0, 0}) = 0
      <3>1. \E x \in {0, 0} : \A y \in {0, 0} : x >= y
        OBVIOUS
      <3>2. Max({0, 0}) \in {0, 0}
        BY <3>1 DEF Max
      <3>3. QED
        BY <3>2
    <2>5. Monitor(n)
      BY <2>1, <2>2, <2>3, <2>4 DEF Monitor
    <2>6. QED
      BY <2>5 DEF n, f
  <1> HIDE DEF file
  <1>3. Questions(wire)
    BY <1>1, Zenon DEF Questions, Silence
  <1>4. QED
    BY <1>1, <1>2, <1>3 DEF MonitorInv

(***************************************************************************)
(* A vote stands, whoever asks for another one, whatever the Sentinel      *)
(* learns since, and when it stops and starts again: the epoch of its vote *)
(* never goes back, and within an epoch its vote goes to nobody else       *)
(* (sentinelVoteLeader, sentinelFlushConfig).  The argument is the last    *)
(* conjunct of Monitor: in every state the file has the epoch of the vote. *)
(***************************************************************************)
THEOREM VotesOfSentinelsStand == SentinelSpec => VotesStand
  <1> DEFINE A == \A s \in group.members :
                     /\ mon'[s].leader_epoch >= mon[s].leader_epoch
                     /\ mon'[s].leader_epoch = mon[s].leader_epoch
                           => mon'[s].leader \in {mon[s].leader, Nobody}
  <1>1. SentinelInit => MonitorInv
    BY SentinelInitMonitors
  <1>2. MonitorInv /\ [SentinelNext]_sentinelVars => MonitorInv'
    BY SentinelNextKeeps DEF Kept
  <1>3. MonitorInv /\ [SentinelNext]_sentinelVars => [A]_mon
    <2>1. ASSUME MonitorInv, [SentinelNext]_sentinelVars PROVE A
      BY <2>1, SentinelNextKeeps, Zenon DEF Kept, VoteStands
    <2>2. QED
      BY <2>1, Zenon
  <1>4. QED
    BY <1>1, <1>2, <1>3, PTL DEF SentinelSpec, VotesStand
=============================================================================
