\* Serialized clients, reliable reload, failing writes.
CONSTANTS
    Links = {l1, l2}
    Reqs = {r1, r2, r3}
    Keys = {k1, k2}
    k1 = k1
    k2 = k2
    Vals = {a, b}
    a = a
    b = b
    NoVal = NoVal
    NoFile = NoFile
    NoReq = NoReq
    DevNames = {}
    ReqChoices <- MCReqChoices
    InitDocs <- MCInitDocs
    SerializedClients = TRUE
    SaveMayFail = TRUE
    ReloadMayFail = FALSE
SPECIFICATION Spec
INVARIANT TypeOK
INVARIANT PersistedUpdatesSurvive
INVARIANT InSync
PROPERTY Refines
PROPERTY RequestsAnswered
