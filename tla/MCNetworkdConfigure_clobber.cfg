\* Serialized clients, reload fails after a successful save: spec 7 says the save is durable.
CONSTANTS
    Links = {l1, l2}
    Reqs = {r1, r2, r3}
    Keys = {k1, k2}
    k1 = k1
    k2 = k2
    Vals = {a, b}
    a = a
    b = b
    NoVal = NoVal
    NoFile = NoFile
    NoReq = NoReq
    DevNames = {}
    ReqChoices <- MCReqChoices
    InitDocs <- MCInitDocs
    SerializedClients = TRUE
    SaveMayFail = FALSE
    ReloadMayFail = TRUE
SPECIFICATION Spec
INVARIANT PersistedUpdatesSurvive
