------------------------------- MODULE MCChat -------------------------------
(***************************************************************************)
(* Chat under four loads: two threads creating and destroying accounts;    *)
(* a customer and staff answering each other; one thread with everything   *)
(* that writes accounts and chats, and a restart; broadcasts that fail.    *)
(***************************************************************************)
EXTENDS Chat

CONSTANTS a, c, s, t1, t2

TwoThreads ==
    [handlers |-> {"create", "destroy_user", "post", "close"}, lists |-> {{c}},
     threads |-> {t1, t2}, posts |-> 1, failures |-> 0, crashes |-> 0]

Answers ==
    [handlers |-> {"create", "post"}, lists |-> {{c}, {s}},
     threads |-> {t1}, posts |-> 2, failures |-> 0, crashes |-> 0]

AllPages ==
    [handlers |-> {"create", "import", "register", "destroy_user", "post"} \cup GeneratedPages,
     lists |-> {{c}}, threads |-> {t1}, posts |-> 1, failures |-> 0, crashes |-> 1]

FailingRedis ==
    [handlers |-> {"create", "post"}, lists |-> {{c}}, threads |-> {t1},
     posts |-> 2, failures |-> 1, crashes |-> 0]

MCLoads == {TwoThreads, Answers, AllPages, FailingRedis}
=============================================================================
