\* A rejected netdev request must not have written anything (spec 4.3).
CONSTANTS
    Links = {l1}
    l1 = l1
    Reqs = {r1}
    DevReqs = {d1, d2}
    Keys = {k1}
    k1 = k1
    k2 = k2
    Vals = {a}
    a = a
    b = b
    NoVal = NoVal
    NoFile = NoFile
    NoReq = NoReq
    DevNames = {v1, br}
    v1 = v1
    br = br
    Kinds = {"vlan", "bridge"}
    ReqChoices <- MCReqChoices
    InitDocs <- MCInitDocs
    DevChoices <- MCDevChoices
    SerializedClients = TRUE
    SaveMayFail = FALSE
    ReloadMayFail = FALSE
SPECIFICATION AllSpec
INVARIANT RejectedWritesNothing
