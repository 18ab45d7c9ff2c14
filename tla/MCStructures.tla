---------------------------- MODULE MCStructures ----------------------------
(***************************************************************************)
(* Small instances of the data structures of the vendored Redis, side by   *)
(* side: a behaviour runs one of them, chosen in Init.                     *)
(***************************************************************************)
EXTENDS Dict, Rax, Quicklist, Packed, SortedSet

VARIABLE part      \* the structure this behaviour runs

\* Keys whose hashes share their low bits, two of them three
MCHash == <<0, 4, 6, 2, 3>>

\* SCAN with keys whose hashes share low bits, and iterators
MCDictLoads == {[keys |-> {1, 3, 4}, iter |-> FALSE, scan |-> TRUE], [keys |-> 1..3, iter |-> TRUE, scan |-> FALSE]}

\* Keys that share prefixes, one of them empty, and one a prefix of another
MCRaxKeys == {<<>>, <<1>>, <<1, 1>>, <<1, 2, 1>>, <<1, 2, 2>>, <<2>>, <<1, 2, 1, 1>>}

MCRaxProbes == SeqOf({1, 2}, 3) \cup MCRaxKeys

\* A small item, one that fills a node by its size, and one that has a node for itself
MCItemBytes == <<5, 20, 100>>

MCSizeLevel == <<64>>

MCListOptions ==
    {[fill |-> 1, compress |-> 2, defrag |-> FALSE], [fill |-> 2, compress |-> 1, defrag |-> FALSE],
     [fill |-> -1, compress |-> 1, defrag |-> FALSE], [fill |-> 2, compress |-> 0, defrag |-> TRUE]}

Str(n, c) == <<"str", [i \in 1..n |-> c]>>

\* Integers of three widths, an empty string, one whose entry has room for one kind of length only, a long one
MCElements ==
    {<<"int", 7>>, <<"int", -300>>, <<"int", -2000000000>>, Str(0, 97), Str(8, 97), Str(20, 98)}

MCIntsetValues == {-100, -8, -2, 0, 1, 7, 120}

-----------------------------------------------------------------------------
Idle == "idle"

StructuresInit ==
    /\ part \in {"dict", "rax", "quicklist", "packed", "sorted set"}
    /\ IF part = "dict" THEN DictInit ELSE dict = Idle
    /\ IF part = "rax" THEN RaxInit ELSE rax = Idle
    /\ IF part = "quicklist" THEN QuickInit ELSE quick = Idle
    /\ IF part = "packed" THEN PackInit ELSE pack = Idle
    /\ IF part = "sorted set" THEN ZsetInit ELSE zset = Idle

StructuresNext ==
    \/ part = "dict" /\ DictNext /\ UNCHANGED <<rax, quick, pack, zset, part>>
    \/ part = "rax" /\ RaxNext /\ UNCHANGED <<dict, quick, pack, zset, part>>
    \/ part = "quicklist" /\ QuickNext /\ UNCHANGED <<dict, rax, pack, zset, part>>
    \/ part = "packed" /\ PackNext /\ UNCHANGED <<dict, rax, quick, zset, part>>
    \/ part = "sorted set" /\ ZsetNext /\ UNCHANGED <<dict, rax, quick, pack, part>>

StructuresSpec == StructuresInit /\ [][StructuresNext]_<<dict, rax, quick, pack, zset, part>>

\* Every structure holds what its callers have put in it, whatever the sequence of operations, and its
\* redundant state (counts, spans, tails, back links, compression) agrees; see DictHolds, RaxHolds,
\* QuicklistHolds, PackHolds and SortedSetHolds.
StructuresHold ==
    /\ part = "dict" => DictHolds
    /\ part = "rax" => RaxHolds
    /\ part = "quicklist" => QuicklistHolds
    /\ part = "packed" => PackHolds
    /\ part = "sorted set" => SortedSetHolds

\* What the structures answer is what their contents say: scans and iterators that are interrupted by
\* changes, seeks, searches, indexes, ranks, ranges and counts; see IterationComplete, RaxSeeks,
\* QuicklistReads, PackReads and SortedSetReads.
StructuresRead ==
    /\ part = "dict" => IterationComplete
    /\ part = "rax" => RaxSeeks
    /\ part = "quicklist" => QuicklistReads
    /\ part = "packed" => PackReads
    /\ part = "sorted set" => SortedSetReads
=============================================================================
