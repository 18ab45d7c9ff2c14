SPECIFICATION FairSpec
CONSTANTS
    a = a
    c = c
    s = s
    t1 = t1
    t2 = t2
    Users = {a, c, s}
    Admin = a
    Threads = {t1, t2}
    Loads <- MCLoads
    MaxChats = 2
    MaxMessages = 2
    Workers = {w1}
    MaxTries = 2
    None = None
INVARIANT AdminPagesRender
INVARIANT CustomerSeesOwnChat
INVARIANT AnswerInItsChat
PROPERTY ReachesStaff
CHECK_DEADLOCK FALSE
