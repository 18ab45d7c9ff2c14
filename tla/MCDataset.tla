----------------------------- MODULE MCDataset ------------------------------
(***************************************************************************)
(* Small workloads for Dataset, one family of commands in each.            *)
(***************************************************************************)
EXTENDS Dataset

A == <<0, "a">>
B == <<0, "b">>

X == <<12>>     \* a string that is no number
One == <<1>>

Ttl(relative, n) == [unit |-> "ms", relative |-> relative, n |-> n]
Seconds(n) == [unit |-> "s", relative |-> TRUE, n |-> n]

KeyArgvs ==
    {PlainSet(A, One, ttl, FALSE) : ttl \in {NoTtl, Ttl(TRUE, 1)}}
    \cup {PlainSet(B, X, NoTtl, FALSE), PlainSet(A, X, NoTtl, TRUE)}
    \cup [op : {"del", "exists"}, ks : {<<A, B>>}]
    \cup [op : {"rename"}, k : {A}, to : {B}, nx : BOOLEAN]
    \cup [op : {"copy"}, k : {A}, to : {B, <<1, "a">>}, replace : BOOLEAN]
    \cup [op : {"move"}, k : {A}, db : {1}]
    \cup {[op |-> "swapdb", db |-> 0, with |-> 1], [op |-> "flush", dbs |-> {0}]}
    \cup [op : {"expire"}, k : {A}, ttl : {Ttl(TRUE, 2), Seconds(0)}, flags : ExpireFlags]
    \cup [op : {"persist"}, k : {A, B}]

StringArgvs ==
    SetArguments({A}, {One}, {Ttl(FALSE, 2)})
    \cup {PlainSet(A, X, Seconds(1), FALSE), PlainSet(A, X, NoTtl, TRUE)}
    \cup [op : {"getex"}, k : {A}, ttl : {Ttl(TRUE, 1), Ttl(FALSE, 1)}, persist : {FALSE}]
    \cup [op : {"getex"}, k : {A}, ttl : {NoTtl}, persist : BOOLEAN]
    \cup [op : {"getdel"}, k : {A}]
    \cup [op : {"getset"}, k : {A}, v : {X}]
    \cup [op : {"setrange"}, k : {A}, offset : {0, 2}, v : {X, <<>>}]
    \cup [op : {"append"}, k : {A}, v : {One}]
    \cup [op : {"mset"}, ks : {<<A, B>>}, vs : {<<One, X>>}, nx : BOOLEAN]
    \cup [op : {"incr"}, k : {A, B}, by : {1, -2}]
    \cup [op : {"incrbyfloat"}, k : {A}, by : {1}]

ListArgvs ==
    [op : {"push"}, k : {A}, where : {"L", "R"}, vs : {<<1, 2>>}, xx : BOOLEAN]
    \cup {PlainSet(B, X, NoTtl, FALSE)}
    \cup [op : {"pop"}, k : {A}, where : {"L"}, count : {NoCount, 0, 3}]
    \cup [op : {"lmpop"}, ks : {<<B, A>>}, where : {"R"}, count : {2}]
    \cup [op : {"lmove"}, k : {A}, to : {A, B}, where : {"L"}, whereto : {"R", "L"}]
    \cup [op : {"lset"}, k : {A}, index : {-1, 4}, e : {3}]
    \cup [op : {"linsert"}, k : {A}, where : {"L", "R"}, pivot : {2, 9}, e : {3}]
    \cup [op : {"ltrim"}, k : {A}, start : {0, 1}, end : {-2, -1, 0}]
    \cup [op : {"lrem"}, k : {A}, count : {-1, 0, 1}, e : {2}]
    \cup [op : {"expire"}, k : {A}, ttl : {Ttl(TRUE, 1)}, flags : {{}}]

SetArgvs ==
    [op : {"sadd"}, k : {A, B}, es : {{1, 2}, {3}}]
    \cup [op : {"srem"}, k : {A}, es : {{1}, {1, 2, 3}}]
    \cup [op : {"smove"}, k : {A}, to : {B, A}, e : {1}]
    \cup [op : {"spop"}, k : {A}]
    \cup [op : {"spopcount"}, k : {A}, count : {0, 1, 3}]
    \cup [op : {"sstore"}, k : {A, B}, ks : {<<A, B>>}, how : {"inter", "union", "diff"}]
    \cup {PlainSet(B, X, NoTtl, FALSE)}
    \cup [op : {"expire"}, k : {A}, ttl : {Ttl(TRUE, 1)}, flags : {{}}]

HashArgvs ==
    [op : {"hset"}, k : {A}, fv : {(1 :> X), (1 :> One) @@ (2 :> One)}, nx : BOOLEAN]
    \cup [op : {"hincrby"}, k : {A}, f : {1}, by : {1, -1, 3}]
    \cup [op : {"hincrbyfloat"}, k : {A}, f : {1, 2}, by : {1}]
    \cup [op : {"hdel"}, k : {A}, fs : {{1}, {1, 2}}]
    \cup {PlainSet(A, X, NoTtl, FALSE), [op |-> "del", ks |-> <<A>>]}
    \cup [op : {"expire"}, k : {A}, ttl : {Ttl(TRUE, 1)}, flags : {{}}]

Scores(min, minex, max, maxex) ==
    [by |-> "score", min |-> min, minex |-> minex, max |-> max, maxex |-> maxex]

ZSetArgvs ==
    [op : {"zadd"}, k : {A}, flags : ZaddFlags,
     pairs : {<<<<1, 1>>, <<2, 2>>>>}]
    \cup [op : {"zadd"}, k : {A}, flags : {{}, {"XX"}}, pairs : {<<<<0, 2>>>>}]
    \cup [op : {"zrem"}, k : {A}, es : {{1}, {1, 2}}]
    \cup [op : {"zremrange"}, k : {A},
          range : {[by |-> "rank", start |-> 0, end |-> -2], Scores(1, TRUE, 2, FALSE),
                   [Scores(1, FALSE, 2, TRUE) EXCEPT !.by = "lex"]}]
    \cup [op : {"zpop"}, k : {A}, where : {"MIN", "MAX"}, count : {NoCount, 0, 3}]
    \cup [op : {"zmpop"}, ks : {<<B, A>>}, where : {"MAX"}, count : {1}]
    \cup [op : {"zstore"}, k : {A, B}, ks : {<<A, B>>}, how : {"inter", "union", "diff"},
          weights : {<<1, 2>>}, aggregate : {"sum", "min"}]
    \cup [op : {"zrangestore"}, k : {B}, from : {A}, range : {Scores(0, FALSE, 2, FALSE)},
          rev : {TRUE}, offset : {0, 1}, limit : {-1, 1}]
    \cup [op : {"sadd"}, k : {B}, es : {{1}}]
    \cup [op : {"expire"}, k : {A}, ttl : {Ttl(TRUE, 1)}, flags : {{}}]

Xadd(id, seq, trim) ==
    [op |-> "xadd", k |-> A, id |-> id, seq |-> seq, mkstream |-> TRUE, trim |-> trim]
Trim(by, n, approx) == [by |-> by, n |-> n, approx |-> approx]
Read(g, from, noack, block) ==
    [op |-> "xread", ks |-> <<A>>, from |-> <<from>>, g |-> g, c |-> "z", noack |-> noack,
     count |-> 1, block |-> block]
Claim(c, ids, minidle, force) ==
    [op |-> "xclaim", k |-> A, g |-> "g", c |-> c, minidle |-> minidle, ids |-> ids,
     time |-> NoTime, idle |-> NoTime, force |-> force, last |-> 0]

StreamArgvs ==
    {Xadd(NextSeq, FALSE, NoTrim), Xadd(0, TRUE, NoTrim), Xadd(0, FALSE, Trim("maxlen", 1, TRUE)),
     Xadd(5, TRUE, Trim("minid", 2, TRUE)), Xadd(NextSeq, FALSE, Trim("maxlen", 1, FALSE))}
    \cup [op : {"xtrim"}, k : {A}, trim : {Trim("maxlen", 0, TRUE), Trim("minid", 3, FALSE)}]
    \cup [op : {"xdel"}, k : {A}, ids : {{1}, {1, 2}}]
    \cup [op : {"xsetid"}, k : {A}, id : {5}, added : {NotKnown, 2}, maxdel : {0}]

GroupArgvs ==
    {Xadd(NextSeq, FALSE, NoTrim)}
    \cup [op : {"xdel"}, k : {A}, ids : {{1}}]
    \cup {[Xgroup("create", A, "g", 0, NotKnown, "z") EXCEPT !.mkstream = m] : m \in BOOLEAN}
    \cup {Xgroup("setid", A, "g", LastId, 0, "z"), Xgroup("destroy", A, "g", 0, NotKnown, "z"),
          Xgroup("createconsumer", A, "g", 0, NotKnown, "z"),
          Xgroup("delconsumer", A, "g", 0, NotKnown, "z"), Xgroup("setid", A, "g", 0, 0, "z")}
    \cup {Read("g", MaxId, noack, FALSE) : noack \in BOOLEAN}
    \cup {[Read("g", MaxId, FALSE, FALSE) EXCEPT !.c = "y"], Read("g", 0, FALSE, FALSE)}
    \cup [op : {"xack"}, k : {A}, g : {"g"}, ids : {<<1, 2>>}]
    \cup {Claim("y", <<1, 2>>, 0, FALSE), Claim("y", <<1>>, 2, TRUE),
          [Claim("z", <<2>>, 0, TRUE) EXCEPT !.last = 1, !.idle = 1]}
    \cup [op : {"xautoclaim"}, k : {A}, g : {"g"}, c : {"y"}, minidle : {0, 1}, start : {0},
          count : {1, 2}]

BlockingArgvs ==
    [op : {"push"}, k : {A, B}, where : {"L"}, vs : {<<1>>, <<1, 2>>}, xx : {FALSE}]
    \cup [op : {"blpop"}, ks : {<<A>>, <<A, B, A>>}, where : {"R"}, count : {NoCount, 2}]
    \cup [op : {"blmove"}, k : {A}, to : {A, B}, where : {"L"}, whereto : {"R"}]
    \cup [op : {"pop"}, k : {A}, where : {"L"}, count : {NoCount}]
    \cup [op : {"zadd"}, k : {A}, flags : {{}}, pairs : {<<<<1, 1>>>>, <<<<1, 1>>, <<1, 2>>>>}]
    \cup [op : {"bzpop"}, ks : {<<A>>, <<B, A>>}, where : {"MIN"}, count : {NoCount, 2}]
    \cup [op : {"rename"}, k : {B}, to : {A}, nx : {FALSE}]
    \cup {[op |-> "swapdb", db |-> 0, with |-> 1], [op |-> "del", ks |-> <<A>>]}

BlockingStreamArgvs ==
    {Xadd(NextSeq, FALSE, NoTrim), Read(NoGroup, LastId, FALSE, TRUE), Read(NoGroup, 0, FALSE, TRUE),
     Read("g", MaxId, FALSE, TRUE), Read("g", MaxId, TRUE, TRUE),
     [Read("g", MaxId, FALSE, TRUE) EXCEPT !.c = "y"],
     [Xgroup("create", A, "g", LastId, NotKnown, "z") EXCEPT !.mkstream = TRUE],
     Xgroup("destroy", A, "g", 0, NotKnown, "z"),
     [op |-> "del", ks |-> <<A>>], PlainSet(A, X, NoTtl, FALSE),
     [op |-> "expire", k |-> A, ttl |-> Ttl(TRUE, 1), flags |-> {}],
     [op |-> "rename", k |-> A, to |-> B, nx |-> FALSE],
     [op |-> "swapdb", db |-> 0, with |-> 1], [op |-> "flush", dbs |-> {0, 1}],
     [op |-> "push", k |-> A, where |-> "L", vs |-> <<1>>, xx |-> FALSE]}

Watch(ks) == [op |-> "watch", ks |-> ks]

TransactionArgvs ==
    {Watch(<<A>>), Watch(<<B, A>>)}
    \cup [op : {"unwatch", "multi", "exec", "discard", "rejected"}]
    \cup {PlainSet(A, X, NoTtl, FALSE),
          [op |-> "push", k |-> B, where |-> "L", vs |-> <<1>>, xx |-> FALSE],
          [op |-> "blpop", ks |-> <<B>>, where |-> "L", count |-> NoCount],
          [op |-> "exists", ks |-> <<A>>]}

ConflictArgvs ==
    {PlainSet(A, X, NoTtl, FALSE), PlainSet(A, One, Ttl(TRUE, 1), FALSE), Watch(<<A>>),
     [op |-> "push", k |-> B, where |-> "L", vs |-> <<1>>, xx |-> FALSE],
     [op |-> "expire", k |-> A, ttl |-> Ttl(TRUE, 1), flags |-> {}],
     [op |-> "rename", k |-> A, to |-> B, nx |-> FALSE], [op |-> "del", ks |-> <<A>>],
     [op |-> "swapdb", db |-> 0, with |-> 1], [op |-> "flush", dbs |-> {0}]}

TrackingOn(bcast, noloop, opt, prefixes) ==
    [op |-> "tracking",
     o |-> [on |-> TRUE, bcast |-> bcast, noloop |-> noloop, opt |-> opt, prefixes |-> prefixes]]

TrackingArgvs ==
    {TrackingOn(FALSE, FALSE, opt, <<>>) : opt \in {"none", "in", "out"}}
    \cup {TrackingOn(TRUE, FALSE, "none", ps) : ps \in {<<>>, <<{"a"}>>, <<{"b"}, {"a"}, {"a"}>>}}
    \cup {TrackingOn(bcast, TRUE, "none", <<>>) : bcast \in BOOLEAN}
    \cup {[TrackingOn(FALSE, FALSE, "none", <<>>) EXCEPT !.o.on = FALSE]}
    \cup [op : {"caching", "multi", "exec"}]
    \cup {[op |-> "exists", ks |-> <<A>>], [op |-> "exists", ks |-> <<A, B>>],
          PlainSet(A, X, NoTtl, FALSE)}

ChangeArgvs ==
    {TrackingOn(FALSE, FALSE, "none", <<>>), [op |-> "exists", ks |-> <<A, B>>],
     PlainSet(A, X, NoTtl, FALSE), PlainSet(A, One, Ttl(TRUE, 1), FALSE),
     PlainSet(<<1, "a">>, X, NoTtl, FALSE),
     [op |-> "rename", k |-> A, to |-> B, nx |-> FALSE],
     [op |-> "flush", dbs |-> {1}], [op |-> "flush", dbs |-> {0, 1}]}

Family(name, most, until, seeds, argvs) ==
    [name |-> name, steps |-> most, until |-> until, seeds |-> seeds, argvs |-> argvs]

Alone(argvs) == "c1" :> argvs

All(argvs) == "c1" :> argvs @@ "c2" :> argvs @@ "c3" :> argvs

Two(first, second) == "c1" :> first @@ "c2" :> second

MCLoads ==
    {Family("keys", 5, 2, {0}, Alone(KeyArgvs)),
     Family("strings", 4, 2, {0}, Alone(StringArgvs)),
     Family("lists", 4, 1, {0}, Alone(ListArgvs)),
     Family("sets", 5, 2, {0, 1}, Alone(SetArgvs)),
     Family("hashes", 5, 2, {0}, Alone(HashArgvs)),
     Family("zsets", 4, 1, {0}, Alone(ZSetArgvs)),
     Family("streams", 5, 1, {0, 1}, Alone(StreamArgvs)),
     Family("groups", 6, 2, {0}, Alone(GroupArgvs)),
     Family("blocking", 4, 0, {0}, All(BlockingArgvs)),
     Family("blockingStreams", 4, 2, {0}, All(BlockingStreamArgvs)),
     Family("transactions", 5, 2, {0}, Two(TransactionArgvs, ConflictArgvs)),
     Family("tracking", 5, 1, {0}, Two(TrackingArgvs, ChangeArgvs))}

Next == DatasetNext

Spec == DatasetInit /\ [][Next]_datasetVars

=============================================================================
