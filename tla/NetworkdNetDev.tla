--------------------------- MODULE NetworkdNetDev ---------------------------
(***************************************************************************)
(* POST /networkd/netdev/configure (NetDev.ConfigureNetDev), composed with *)
(* the configure requests of NetworkdConfigure: both read and write the    *)
(* parent link's 10-<link>.network, without a lock.                        *)
(*                                                                         *)
(*   CreateNetDevFile -> BuildNetDevSection (validate Name, Kind, MAC,     *)
(*   MTU) -> BuildKindSection (CreateOrParseNetworkFile(parent), validate  *)
(*   the VLAN Id, append VLAN=<name>, save the parent) -> save .netdev ->  *)
(*   CreateNetDevNetworkFile -> DBusNetworkReload                          *)
(***************************************************************************)
EXTENDS NetworkdConfigure

CONSTANTS
    DevReqs,        \* netdev configure requests (one goroutine each)
    DevChoices,     \* NetDev bodies a client may send
    Kinds           \* NetDev kinds, "vlan" among them

VARIABLES
    dpc,      \* dpc[d]: where request d's goroutine is
    dreq,     \* dreq[d]: the decoded NetDev body
    parent,   \* parent[d]: the parent link's Meta, as loaded and appended to
    netdev,   \* netdev[n]: /etc/systemd/network/<n>.netdev, or NoFile
    devnet,   \* devnet[n]: TRUE once the netdev's own .network file exists
    dresp,    \* dresp[d]: what the HTTP response says
    wrote     \* history: wrote[d] is TRUE once request d has written any file

devvars == <<dpc, dreq, parent, netdev, devnet, dresp, wrote>>
allvars == <<vars, devvars>>

(* type NetDev: Name, Kind, MTUBytes and MACAddress (attrs: both valid or *)
(* absent), VLanSection.Id (absent, within [1,4094], or not), parent Link. *)
NetDevBody == [name : DevNames \cup {NoVal}, kind : Kinds \cup {NoVal},
               attrs : BOOLEAN, id : {"none", "ok", "bad"}, link : Links]

(* A .netdev file: [NetDev] Kind=, and [VLAN] Id= for a vlan. *)
NetDevDoc == [kind : Kinds, id : {"none", "ok", "bad"}]

DevBusy == {"build", "resolve", "create", "load", "psave", "save", "devnet", "reload"}

ASSUME /\ DevChoices \subseteq NetDevBody
       /\ "vlan" \in Kinds

DevTypeOK ==
    /\ dpc \in [DevReqs -> {"idle", "done"} \cup DevBusy]
    /\ dreq \in [DevReqs -> NetDevBody \cup {NoReq}]
    /\ parent \in [DevReqs -> Doc \cup {NoFile}]
    /\ netdev \in [DevNames -> NetDevDoc \cup {NoFile}]
    /\ devnet \in [DevNames -> BOOLEAN]
    /\ dresp \in [DevReqs -> {"none", "configured", "invalid", "persist_error", "notify_error"}]
    /\ wrote \in [DevReqs -> BOOLEAN]

AllTypeOK == TypeOK /\ DevTypeOK

DevInit ==
    /\ dpc = [d \in DevReqs |-> "idle"]
    /\ dreq = [d \in DevReqs |-> NoReq]
    /\ parent = [d \in DevReqs |-> NoFile]
    /\ netdev = [n \in DevNames |-> NoFile]
    /\ devnet = [n \in DevNames |-> FALSE]
    /\ dresp = [d \in DevReqs |-> "none"]
    /\ wrote = [d \in DevReqs |-> FALSE]

DevInFlight(l) == {d \in DevReqs : dpc[d] \in DevBusy /\ dreq[d].link = l}

(* The .netdev document CreateNetDevFile + BuildNetDevSection + the VLAN  *)
(* part of BuildKindSection put together.                                 *)
NetDevOf(q) == [kind |-> q.kind, id |-> IF q.kind = "vlan" THEN q.id ELSE "none"]

Finish(d, outcome) ==
    /\ dpc' = [dpc EXCEPT ![d] = "done"]
    /\ dresp' = [dresp EXCEPT ![d] = outcome]

-----------------------------------------------------------------------------
(* routerConfigureNetDev decodes the body. A client that serializes its   *)
(* requests does not send one while another touches the same link.       *)
DevStart(d) ==
    /\ dpc[d] = "idle"
    /\ \E q \in DevChoices :
          /\ SerializedClients =>
                /\ InFlight(q.link) \cup DevInFlight(q.link) = {}
                /\ \A e \in DevReqs : dpc[e] \in DevBusy => dreq[e].name # q.name
          /\ dreq' = [dreq EXCEPT ![d] = q]
    /\ dpc' = [dpc EXCEPT ![d] = "build"]
    /\ UNCHANGED <<vars, parent, netdev, devnet, dresp, wrote>>

(* Fault variants of the definitions below, each a plausible slip in the *)
(* code it models; every property of a passing run is violated by one.    *)

(* The "missing netdev kind" check is lost.                              *)
BuildNetDevSectionNoKindCheck(d) ==
    /\ dpc[d] = "build"
    /\ IF dreq[d].name # NoVal /\ dreq[d].attrs
          THEN /\ dpc' = [dpc EXCEPT ![d] = "resolve"]
               /\ UNCHANGED dresp
          ELSE Finish(d, "invalid")
    /\ UNCHANGED <<vars, dreq, parent, netdev, devnet, wrote>>

(* CreateNetDevFile, then BuildNetDevSection: Name and Kind must be set,  *)
(* MACAddress and MTUBytes valid when present; nothing is written yet.    *)
BuildNetDevSection(d) ==
    /\ dpc[d] = "build"
    /\ IF dreq[d].name # NoVal /\ dreq[d].kind # NoVal /\ dreq[d].attrs
          THEN /\ dpc' = [dpc EXCEPT ![d] = "resolve"]
               /\ UNCHANGED dresp
          ELSE Finish(d, "invalid")
    /\ UNCHANGED <<vars, dreq, parent, netdev, devnet, wrote>>

(* BuildKindSection begins with CreateOrParseNetworkFile(n.Link), for     *)
(* every kind and before the VLAN Id is looked at.                        *)
DevResolveParent(d) ==
    /\ dpc[d] = "resolve"
    /\ dpc' = [dpc EXCEPT ![d] = IF NeedsCreate(dreq[d].link) THEN "create" ELSE "load"]
    /\ UNCHANGED <<vars, dreq, parent, netdev, devnet, dresp, wrote>>

DevCreateParent(d) ==
    /\ dpc[d] = "create"
    /\ \/ /\ file' = [file EXCEPT ![dreq[d].link] = MatchOnly]
          /\ dpc' = [dpc EXCEPT ![d] = "load"]
          /\ wrote' = [wrote EXCEPT ![d] = TRUE]
          /\ UNCHANGED dresp
       \/ /\ SaveMayFail
          /\ Finish(d, "persist_error")
          /\ UNCHANGED <<file, wrote>>
    /\ UNCHANGED <<daemon, pc, req, local, resp, dreq, parent, netdev, devnet>>

(* The IsVLanId check is lost: any Id is written. *)
BuildKindSectionNoIdCheck(d) ==
    LET q == dreq[d]
        p == file[q.link]
    IN
    /\ dpc[d] = "load"
    /\ parent' = [parent EXCEPT ![d] =
                     IF q.kind = "vlan" THEN NewKeyToSectionString(p, q.name) ELSE p]
    /\ dpc' = [dpc EXCEPT ![d] = "psave"]
    /\ UNCHANGED <<vars, dreq, netdev, devnet, dresp, wrote>>

(* The VLAN=<name> line is never appended to the parent. *)
BuildKindSectionNoAppend(d) ==
    LET q == dreq[d] IN
    /\ dpc[d] = "load"
    /\ IF q.kind = "vlan" /\ q.id # "ok"
          THEN /\ Finish(d, "invalid")
               /\ UNCHANGED parent
          ELSE /\ parent' = [parent EXCEPT ![d] = file[q.link]]
               /\ dpc' = [dpc EXCEPT ![d] = "psave"]
               /\ UNCHANGED dresp
    /\ UNCHANGED <<vars, dreq, netdev, devnet, wrote>>

(* The rest of BuildKindSection up to nm.Save(): for a vlan the Id must   *)
(* be present and within [1,4094]; then VLAN=<name> is appended to the    *)
(* parent's Meta.  Other kinds keep the parent's Meta as loaded.          *)
BuildKindSection(d) ==
    LET q == dreq[d]
        p == file[q.link]
    IN
    /\ dpc[d] = "load"
    /\ IF q.kind = "vlan" /\ q.id # "ok"
          THEN /\ Finish(d, "invalid")
               /\ UNCHANGED parent
          ELSE /\ parent' = [parent EXCEPT ![d] =
                               IF q.kind = "vlan" THEN NewKeyToSectionString(p, q.name) ELSE p]
               /\ dpc' = [dpc EXCEPT ![d] = "psave"]
               /\ UNCHANGED dresp
    /\ UNCHANGED <<vars, dreq, netdev, devnet, wrote>>

(* nm.Save() at the end of BuildKindSection: the parent file is written   *)
(* before the .netdev file.                                               *)
SaveParent(d) ==
    /\ dpc[d] = "psave"
    /\ \/ /\ file' = [file EXCEPT ![dreq[d].link] = parent[d]]
          /\ dpc' = [dpc EXCEPT ![d] = "save"]
          /\ wrote' = [wrote EXCEPT ![d] = TRUE]
          /\ UNCHANGED dresp
       \/ /\ SaveMayFail
          /\ Finish(d, "persist_error")
          /\ UNCHANGED <<file, wrote>>
    /\ parent' = [parent EXCEPT ![d] = NoFile]
    /\ UNCHANGED <<daemon, pc, req, local, resp, dreq, netdev, devnet>>

(* m.Save() in ConfigureNetDev. *)
SaveNetDev(d) ==
    /\ dpc[d] = "save"
    /\ \/ /\ netdev' = [netdev EXCEPT ![dreq[d].name] = NetDevOf(dreq[d])]
          /\ dpc' = [dpc EXCEPT ![d] = "devnet"]
          /\ wrote' = [wrote EXCEPT ![d] = TRUE]
          /\ UNCHANGED dresp
       \/ /\ SaveMayFail
          /\ Finish(d, "persist_error")
          /\ UNCHANGED <<netdev, wrote>>
    /\ UNCHANGED <<vars, dreq, parent, devnet>>

(* CreateNetDevNetworkFile(n.Name, n.Kind). *)
CreateNetDevNetworkFile(d) ==
    /\ dpc[d] = "devnet"
    /\ \/ /\ devnet' = [devnet EXCEPT ![dreq[d].name] = TRUE]
          /\ dpc' = [dpc EXCEPT ![d] = "reload"]
          /\ wrote' = [wrote EXCEPT ![d] = TRUE]
          /\ UNCHANGED dresp
       \/ /\ SaveMayFail
          /\ Finish(d, "persist_error")
          /\ UNCHANGED <<devnet, wrote>>
    /\ UNCHANGED <<vars, dreq, parent, netdev>>

(* NewSDConnection + DBusNetworkReload, as in ConfigureNetwork. *)
DevReload(d) ==
    /\ dpc[d] = "reload"
    /\ \/ /\ daemon' = Reloaded
          /\ Finish(d, "configured")
       \/ /\ ReloadMayFail
          /\ daemon' \in {daemon, Reloaded}
          /\ Finish(d, "notify_error")
    /\ UNCHANGED <<file, pc, req, local, resp, dreq, parent, netdev, devnet, wrote>>

DevStep(d) ==
    \/ BuildNetDevSection(d)
    \/ DevResolveParent(d)
    \/ DevCreateParent(d)
    \/ BuildKindSection(d)
    \/ SaveParent(d)
    \/ SaveNetDev(d)
    \/ CreateNetDevNetworkFile(d)
    \/ DevReload(d)

(* A configure request under serialized clients also waits for netdev    *)
(* requests on its link.                                                  *)
NetStart(r) ==
    /\ Start(r)
    /\ SerializedClients => DevInFlight(req'[r].link) = {}
    /\ UNCHANGED devvars

AllDone ==
    /\ \A r \in Reqs : pc[r] = "done"
    /\ \A d \in DevReqs : dpc[d] = "done"
    /\ UNCHANGED allvars

AllInit == Init /\ DevInit

AllNext ==
    \/ \E r \in Reqs : NetStart(r) \/ (Step(r) /\ UNCHANGED devvars)
    \/ \E d \in DevReqs : DevStart(d) \/ DevStep(d)
    \/ AllDone

AllSpec == AllInit /\ [][AllNext]_allvars
           /\ \A r \in Reqs : WF_allvars(Step(r) /\ UNCHANGED devvars)
           /\ \A d \in DevReqs : WF_allvars(DevStep(d))

-----------------------------------------------------------------------------
(* Properties *)

Lists(doc, n) == \E i \in 1..Len(doc.vlan) : doc.vlan[i] = n

(* Validation before persistence (spec 4.3, 8): every .netdev on disk     *)
(* that declares a VLAN carries an Id BuildKindSection accepted.          *)
ValidatedNetDevs ==
    \A n \in DevNames : netdev[n] # NoFile /\ netdev[n].kind = "vlan" => netdev[n].id = "ok"

(* Cross-document consistency (spec 4.3): a VLAN netdev on disk is listed *)
(* as VLAN=<name> by some link's .network file, so networkd attaches it.  *)
NetDevListedByParent ==
    \A n \in DevNames :
        netdev[n] # NoFile /\ netdev[n].kind = "vlan" =>
            \E l \in Links : file[l] # NoFile /\ Lists(file[l], n)

(* Fail-closed validation (spec 4.3, 7): a netdev request rejected as     *)
(* invalid has written no file.                                           *)
RejectedWritesNothing == \A d \in DevReqs : dresp[d] = "invalid" => ~wrote[d]

(* Order of the two-document write (spec 4.3): a VLAN= line on disk names *)
(* a .netdev that is already on disk.                                     *)
VLANRefsResolve ==
    \A l \in Links : file[l] # NoFile =>
        \A i \in 1..Len(file[l].vlan) : netdev[file[l].vlan[i]] # NoFile
=============================================================================
