\* The same instance, checked for confinement to /proc/sys/net.
CONSTANTS
    u1 = u1  u2 = u2  t1 = t1  t2 = t2  t3 = t3  NoUser = NoUser
    Users = {u1, u2}
    Tokens = {t1, t2, t3}
    AuthReqs = {r1, r2}
    PeerReqs = {p1}
    Confs <- MCConfs
    SysReqs = {r1, p1}
    SysChoices <- MCSysChoices
    TdnfReqs = {r2}
    TdnfChoices <- MCTdnfChoices
    OptionFields <- MCOptionFields
    QueryKeys = {"best", "config", "disablerepo", "nogpgcheck", "Best"}
    BoolWords = {"true", "false", "1", "0"}
SPECIFICATION ServerSpec
INVARIANT AccessConfined
