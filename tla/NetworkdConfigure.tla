-------------------------- MODULE NetworkdConfigure --------------------------
(***************************************************************************)
(* POST /networkd/network/configure (plugins/network/networkd): every HTTP *)
(* request runs Network.ConfigureNetwork in its own goroutine.             *)
(*                                                                         *)
(*   LinkByName -> CreateOrParseNetworkFile -> [CreateNetworkFile] ->      *)
(*   configfile.Load + build*Section -> Meta.Save -> DBusNetworkReload     *)
(*                                                                         *)
(* Each arrow is a separate system call, and no lock is held across them, *)
(* so the steps of concurrent requests interleave.  systemd-networkd is   *)
(* the environment: it reports per-link state (ADMIN_STATE, NETWORK_FILE)  *)
(* and, on reload, re-reads every unit file and runs what it read.         *)
(***************************************************************************)
EXTENDS Naturals, UnitFile

CONSTANTS
    Links,              \* kernel interfaces; netlink.LinkByName finds each
    Reqs,               \* configure requests (one goroutine each)
    ReqChoices,         \* request bodies a client may send
    InitDocs,           \* unit files present and loaded by networkd at start
    NoFile, NoReq,
    SerializedClients,  \* TRUE: clients never send two requests for one link at once
    SaveMayFail,        \* WriteFullFile / Meta.Save may return an error
    ReloadMayFail       \* NewSDConnection / DBusNetworkReload may return an error

VARIABLES
    file,     \* file[l]: /etc/systemd/network/10-<l>.network, or NoFile
    daemon,   \* daemon[l]: networkd's /run/systemd/netif/links/<ifindex> and running config
    pc,       \* pc[r]: where request r's goroutine is
    req,      \* req[r]: the decoded Network body of request r
    local,    \* local[r]: the configfile.Meta request r loaded and is building
    resp      \* resp[r]: what the HTTP response says

vars == <<file, daemon, pc, req, local, resp>>

(* type Network with MatchSection, NetworkSection, DHCPv4Section,          *)
(* AddressSections, RouteSections: a link and one optional value per key. *)
Request == [link : Links, fields : [Keys -> Value]]

(* ADMIN_STATE present (setup), NETWORK_FILE present (netfile), and the   *)
(* configuration networkd last read from the unit file (applied).         *)
LinkState == [setup : BOOLEAN, netfile : BOOLEAN, applied : Doc \cup {NoFile}]

Busy == {"resolve", "create", "load", "save", "reload"}

ASSUME /\ ReqChoices \subseteq Request
       /\ InitDocs \subseteq Doc
       /\ {SerializedClients, SaveMayFail, ReloadMayFail} \subseteq BOOLEAN

TypeOK ==
    /\ file \in [Links -> Doc \cup {NoFile}]
    /\ daemon \in [Links -> LinkState]
    /\ pc \in [Reqs -> {"idle", "done"} \cup Busy]
    /\ req \in [Reqs -> Request \cup {NoReq}]
    /\ local \in [Reqs -> Doc \cup {NoFile}]
    /\ resp \in [Reqs -> {"none", "configured", "persist_error", "notify_error"}]

(* A link is untracked (no state file), tracked but unmanaged (no file   *)
(* matches it), or managed by its unit file, which networkd runs.         *)
InitLink ==
    {[file |-> NoFile, daemon |-> [setup |-> s, netfile |-> FALSE, applied |-> NoFile]] :
        s \in BOOLEAN}
    \cup {[file |-> d, daemon |-> [setup |-> TRUE, netfile |-> TRUE, applied |-> d]] :
        d \in InitDocs}

Init ==
    /\ \E s \in [Links -> InitLink] :
          /\ file = [l \in Links |-> s[l].file]
          /\ daemon = [l \in Links |-> s[l].daemon]
    /\ pc = [r \in Reqs |-> "idle"]
    /\ req = [r \in Reqs |-> NoReq]
    /\ local = [r \in Reqs |-> NoFile]
    /\ resp = [r \in Reqs |-> "none"]

InFlight(l) == {r \in Reqs : pc[r] \in Busy /\ req[r].link = l}

(* Fault variants of the definitions below, each a plausible slip in the *)
(* code it models; every property of a passing run is violated by one.    *)

(* The builders rewrite the [Network] section from the request alone.     *)
BuildSectionsDropUntouched(d, f) ==
    [d EXCEPT !.kv = [k \in {x \in Keys : f[x] # NoVal} |-> f[k]]]

(* An empty request field clears the key instead of leaving it.           *)
BuildSectionsClearEmpty(d, f) == [d EXCEPT !.kv = f]

(* build{Network,DHCPv4,Address,Route}Section: SetKeySectionString for    *)
(* every non-empty field; empty fields leave the key as it is.            *)
BuildSections(d, f) ==
    [d EXCEPT !.kv = [k \in Keys |-> IF f[k] = NoVal THEN d.kv[k] ELSE f[k]]]

(* Org.Freedesktop.Network1.Manager.Reload: networkd re-reads every unit  *)
(* file, matches every link it knows, and runs what it read.              *)
Reloaded == [l \in Links |-> [setup |-> TRUE, netfile |-> file[l] # NoFile,
                              applied |-> file[l]]]

-----------------------------------------------------------------------------
(* routerConfigureNetwork decodes the body; LinkByName finds the link.    *)
Start(r) ==
    /\ pc[r] = "idle"
    /\ \E q \in ReqChoices :
          /\ SerializedClients => InFlight(q.link) = {}
          /\ req' = [req EXCEPT ![r] = q]
    /\ pc' = [pc EXCEPT ![r] = "resolve"]
    /\ UNCHANGED <<file, daemon, local, resp>>

(* The lookup's error check inverted: the file is always recreated.      *)
CreateOrParseAlwaysCreate(r) ==
    /\ pc[r] = "resolve"
    /\ pc' = [pc EXCEPT ![r] = "create"]
    /\ UNCHANGED <<file, daemon, req, local, resp>>

(* CreateOrParseNetworkFile: ParseLinkSetupState, then ParseLinkNetworkFile; *)
(* if either key is missing the file is (re)created.                      *)
NeedsCreate(l) == ~daemon[l].setup \/ ~daemon[l].netfile

CreateOrParseNetworkFile(r) ==
    /\ pc[r] = "resolve"
    /\ pc' = [pc EXCEPT ![r] = IF NeedsCreate(req[r].link) THEN "create" ELSE "load"]
    /\ UNCHANGED <<file, daemon, req, local, resp>>

(* CreateNetworkFile: WriteFullFile("10-<link>.network", [Match] Name=),  *)
(* truncating whatever the file held.                                     *)
CreateNetworkFile(r) ==
    /\ pc[r] = "create"
    /\ \/ /\ file' = [file EXCEPT ![req[r].link] = MatchOnly]
          /\ pc' = [pc EXCEPT ![r] = "load"]
          /\ UNCHANGED resp
       \/ /\ SaveMayFail
          /\ pc' = [pc EXCEPT ![r] = "done"]
          /\ resp' = [resp EXCEPT ![r] = "persist_error"]
          /\ UNCHANGED file
    /\ UNCHANGED <<daemon, req, local>>

(* Fault variant: the Load error returns without writing a response. *)
LoadAndBuildNoAnswer(r) ==
    /\ pc[r] = "load"
    /\ \/ /\ local' = [local EXCEPT ![r] = BuildSections(file[req[r].link], req[r].fields)]
          /\ pc' = [pc EXCEPT ![r] = "save"]
       \/ /\ SaveMayFail
          /\ pc' = [pc EXCEPT ![r] = "done"]
          /\ UNCHANGED local
    /\ UNCHANGED <<file, daemon, req, resp>>

(* configfile.Load, then the four build*Section calls on the loaded Meta; *)
(* a Load error is returned to the client.                                *)
LoadAndBuild(r) ==
    /\ pc[r] = "load"
    /\ \/ /\ local' = [local EXCEPT ![r] = BuildSections(file[req[r].link], req[r].fields)]
          /\ pc' = [pc EXCEPT ![r] = "save"]
          /\ UNCHANGED resp
       \/ /\ SaveMayFail
          /\ pc' = [pc EXCEPT ![r] = "done"]
          /\ resp' = [resp EXCEPT ![r] = "persist_error"]
          /\ UNCHANGED local
    /\ UNCHANGED <<file, daemon, req>>

(* m.Save(): the whole document replaces the file (write-temp-then-rename). *)
Save(r) ==
    /\ pc[r] = "save"
    /\ \/ /\ file' = [file EXCEPT ![req[r].link] = local[r]]
          /\ pc' = [pc EXCEPT ![r] = "reload"]
          /\ UNCHANGED resp
       \/ /\ SaveMayFail
          /\ pc' = [pc EXCEPT ![r] = "done"]
          /\ resp' = [resp EXCEPT ![r] = "persist_error"]
          /\ UNCHANGED file
    /\ local' = [local EXCEPT ![r] = NoFile]
    /\ UNCHANGED <<daemon, req>>

(* The DBusNetworkReload call is missing: "configured" without a reload. *)
ReloadSkipped(r) ==
    /\ pc[r] = "reload"
    /\ resp' = [resp EXCEPT ![r] = "configured"]
    /\ pc' = [pc EXCEPT ![r] = "done"]
    /\ UNCHANGED <<file, daemon, req, local>>

(* NewSDConnection + DBusNetworkReload(ctx), then JSONResponse. The call  *)
(* can fail before networkd reloads, or after it did (ctx cancelled).     *)
Reload(r) ==
    /\ pc[r] = "reload"
    /\ \/ /\ daemon' = Reloaded
          /\ resp' = [resp EXCEPT ![r] = "configured"]
       \/ /\ ReloadMayFail
          /\ daemon' \in {daemon, Reloaded}
          /\ resp' = [resp EXCEPT ![r] = "notify_error"]
    /\ pc' = [pc EXCEPT ![r] = "done"]
    /\ UNCHANGED <<file, req, local>>

(* All requests answered: the server idles. *)
Terminated ==
    /\ \A r \in Reqs : pc[r] = "done"
    /\ UNCHANGED vars

Step(r) ==
    \/ CreateOrParseNetworkFile(r)
    \/ CreateNetworkFile(r)
    \/ LoadAndBuild(r)
    \/ Save(r)
    \/ Reload(r)

Next == (\E r \in Reqs : Start(r) \/ Step(r)) \/ Terminated

(* A started handler runs to completion: nothing cancels it (spec 5).     *)
Spec == Init /\ [][Next]_vars /\ \A r \in Reqs : WF_vars(Step(r))

-----------------------------------------------------------------------------
(* Properties *)

Persisted(r) == resp[r] \in {"configured", "notify_error"}

(* A request's update, once on disk, survives: when no configure of link  *)
(* l is in flight, every key a persisted request set still holds a value  *)
(* some persisted request set for it.  About the unlocked Load..Save of   *)
(* ConfigureNetwork and the truncating CreateNetworkFile (spec 5, 7, 8).  *)
PersistedUpdatesSurvive ==
    \A l \in Links : InFlight(l) = {} =>
        \A k \in Keys :
            LET writers == {r \in Reqs : Persisted(r) /\ req[r].link = l
                                         /\ req[r].fields[k] # NoVal}
            IN writers # {} =>
                 /\ file[l] # NoFile
                 /\ file[l].kv[k] \in {req[r].fields[k] : r \in writers}

(* networkd runs what is on disk: for a link it manages, the running      *)
(* configuration equals the unit file except while a configure of that    *)
(* link is between its Save and its DBusNetworkReload.                    *)
InSync ==
    \A l \in Links :
        (daemon[l].netfile /\ \A r \in InFlight(l) : pc[r] # "reload")
            => daemon[l].applied = file[l]

(* A "configured" response means networkd runs every field of the request. *)
ConfiguredIsApplied ==
    [][\A r \in Reqs :
          (resp'[r] = "configured" /\ resp[r] # "configured") =>
             \A k \in Keys : req[r].fields[k] # NoVal =>
                 /\ daemon'[req[r].link].applied # NoFile
                 /\ daemon'[req[r].link].applied.kv[k] = req[r].fields[k]]_vars

(* Every request a client sends is answered: whichever of the five steps *)
(* of ConfigureNetwork fails, the handler writes a JSON response and     *)
(* returns, and none of them waits on another request.                   *)
RequestsAnswered ==
    \A r \in Reqs : pc[r] # "idle" ~> resp[r] # "none"

(* Refinement: the goroutines implement the atomic unit store of spec 4/5. *)
UnitOf(l) == IF file[l] = NoFile THEN MatchOnly.kv ELSE file[l].kv

StatusOf(r) == CASE pc[r] = "idle"   -> "new"
                 [] pc[r] = "reload" -> "persisted"
                 [] pc[r] = "done"   -> "done"
                 [] OTHER            -> "accepted"

Abstract == INSTANCE UnitStore WITH
                unit <- [l \in Links |-> UnitOf(l)],
                body <- req,
                status <- [r \in Reqs |-> StatusOf(r)]

Refines == Abstract!ASpec
=============================================================================
