\* Concurrent requests for one link, no failures: spec 5/8 require no lost update.
CONSTANTS
    Links = {l1, l2}
    Reqs = {r1, r2, r3}
    Keys = {k1, k2}
    k1 = k1
    k2 = k2
    Vals = {a, b}
    a = a
    b = b
    NoVal = NoVal
    NoFile = NoFile
    NoReq = NoReq
    DevNames = {}
    ReqChoices <- MCReqChoices
    InitDocs <- MCInitDocs
    SerializedClients = FALSE
    SaveMayFail = FALSE
    ReloadMayFail = FALSE
SPECIFICATION Spec
INVARIANT PersistedUpdatesSurvive
