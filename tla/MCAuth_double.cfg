CONSTANTS
    u1 = u1  u2 = u2  t1 = t1  t2 = t2  t3 = t3  NoUser = NoUser
    Users = {u1, u2}
    Tokens = {t1, t2, t3}
    AuthReqs = {r1, r2}
    PeerReqs = {}
    Confs <- MCConfs
SPECIFICATION AuthSpec
INVARIANT HandlerRunsOnlyWhenAuthenticated
