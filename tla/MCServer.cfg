\* Two token requests and one unix-socket request behind the middlewares;
\* r1 and p1 reach the sysnet handlers, r2 the tdnf command handler.
CONSTANTS
    u1 = u1  u2 = u2  t1 = t1  t2 = t2  t3 = t3  NoUser = NoUser
    Users = {u1, u2}
    Tokens = {t1, t2, t3}
    AuthReqs = {r1, r2}
    PeerReqs = {p1}
    Confs <- MCConfs
    SysReqs = {r1, p1}
    SysChoices <- MCSysChoices
    TdnfReqs = {r2}
    TdnfChoices <- MCTdnfChoices
    OptionFields <- MCOptionFields
    QueryKeys = {"best", "config", "disablerepo", "nogpgcheck", "Best"}
    BoolWords = {"true", "false", "1", "0"}
SPECIFICATION ServerSpec
INVARIANTS AuthTypeOK ForbiddenIffUnknown PlainRequestsTouchTheirFile
