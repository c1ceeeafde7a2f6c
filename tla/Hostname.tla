------------------------------ MODULE Hostname ------------------------------
(***************************************************************************)
(* GET /hostname/describe: AcquireHostnameProperties (plugins/management/  *)
(* hostname/hostname.go).  The handler opens a bus connection, calls        *)
(* wg.Add(16) and starts one goroutine per hostnamed property; each calls   *)
(* GetHostName and, on success, stores the value in the handler's map      *)
(* hostNameProperties, then wg.Done() (deferred).  The handler wg.Wait()s   *)
(* and writes the map as the JSON response.                                *)
(*                                                                         *)
(* The map has no lock.  A Go map assignment is not atomic: mapassign sets  *)
(* a hashWriting flag, inserts, and clears it.  A second assignment that    *)
(* finds the flag set throws "concurrent map writes", which ends the whole  *)
(* server process; if the runtime misses the overlap (the flag is read      *)
(* without synchronisation), one of the two inserts can be lost.  Both are  *)
(* outcomes of the same data race, so the model chooses between them.      *)
(***************************************************************************)
EXTENDS Naturals, FiniteSets

CONSTANTS
    Props       \* the hostnamed properties, one goroutine each

VARIABLES
    hpc,        \* the handler: "connect", "spawn", "wait", "responded", "failed"
    gpc,        \* gpc[p]: goroutine p: "unborn", "call", "write", "assign", "done"
    writing,    \* goroutines inside mapassign on hostNameProperties
    racy,       \* goroutines whose mapassign overlapped another one
    hmap,       \* the keys present in hostNameProperties
    wg,         \* the sync.WaitGroup counter
    crashed,    \* the runtime threw "concurrent map writes"
    response,   \* the keys in the JSON response, once written
    spc,        \* a concurrent POST of SetHostname: "idle", "done", "failed"
    hver        \* hostnamed's hostname: 0 before that request sets it, 1 after

hvars == <<hpc, gpc, writing, racy, hmap, wg, crashed, response, spc, hver>>

(* wg.Add(16): one per goroutine started below it. *)
Spawned == Cardinality(Props)

HTypeOK ==
    /\ hpc \in {"connect", "spawn", "wait", "responded", "failed"}
    /\ gpc \in [Props -> {"unborn", "call", "write", "assign", "done"}]
    /\ writing \subseteq Props /\ racy \subseteq Props /\ hmap \subseteq Props
    /\ wg \in 0..Spawned
    /\ crashed \in BOOLEAN
    /\ response \subseteq Props
    /\ spc \in {"idle", "done", "failed"} /\ hver \in {0, 1}

HInit ==
    /\ hpc = "connect"
    /\ gpc = [p \in Props |-> "unborn"]
    /\ writing = {} /\ racy = {} /\ hmap = {}
    /\ wg = 0
    /\ crashed = FALSE
    /\ response = {}
    /\ spc = "idle" /\ hver = 0

(* Once the runtime throws, no goroutine of the process runs again. *)
Alive == ~crashed

(* NewSDConnection; its error is returned before any goroutine starts. *)
Connect ==
    /\ Alive /\ hpc = "connect"
    /\ hpc' \in {"spawn", "failed"}
    /\ UNCHANGED <<gpc, writing, racy, hmap, wg, crashed, response, spc, hver>>

(* Fault variant: the Add is one short of the goroutines started. *)
SpawnAddOneShort ==
    /\ Alive /\ hpc = "spawn"
    /\ wg' = Spawned - 1
    /\ gpc' = [p \in Props |-> "call"]
    /\ hpc' = "wait"
    /\ UNCHANGED <<writing, racy, hmap, crashed, response, spc, hver>>

(* wg.Add(16), then the sixteen `go func()` statements.  Starting them in  *)
(* one step loses no interleaving: a started goroutine changes nothing     *)
(* another could observe until it reaches the map.                         *)
Spawn ==
    /\ Alive /\ hpc = "spawn"
    /\ wg' = Spawned
    /\ gpc' = [p \in Props |-> "call"]
    /\ hpc' = "wait"
    /\ UNCHANGED <<writing, racy, hmap, crashed, response, spc, hver>>

(* Fault variant: wg.Done() only on the success path, not deferred. *)
GetHostNameNoDeferDone(p) ==
    /\ Alive /\ gpc[p] = "call"
    /\ \/ gpc' = [gpc EXCEPT ![p] = "write"]
       \/ gpc' = [gpc EXCEPT ![p] = "done"]
    /\ UNCHANGED <<hpc, writing, racy, hmap, wg, crashed, response, spc, hver>>

(* conn.GetHostName(p): on error the goroutine returns and its deferred  *)
(* wg.Done() runs.                                                        *)
GetHostName(p) ==
    /\ Alive /\ gpc[p] = "call"
    /\ \/ /\ gpc' = [gpc EXCEPT ![p] = "write"]
         
          /\ UNCHANGED wg
       \/ /\ gpc' = [gpc EXCEPT ![p] = "done"]
          /\ wg' = wg - 1
         
    /\ UNCHANGED <<hpc, writing, racy, hmap, crashed, response, spc, hver>>

(* hostNameProperties[p] = v, first half: mapassign checks and sets        *)
(* hashWriting.  With another assignment in progress the runtime throws,   *)
(* or misses it and both proceed as a race.                               *)
MapAssignBegin(p) ==
    /\ Alive /\ gpc[p] = "write"
    /\ \/ /\ writing = {}
          /\ writing' = {p}
          /\ UNCHANGED <<racy, crashed>>
       \/ /\ writing # {}
          /\ \/ /\ crashed' = TRUE
                /\ UNCHANGED <<writing, racy>>
             \/ /\ writing' = writing \cup {p}
                /\ racy' = racy \cup writing \cup {p}
                /\ UNCHANGED crashed
    /\ gpc' = [gpc EXCEPT ![p] = "assign"]
    /\ UNCHANGED <<hpc, hmap, wg, response, spc, hver>>

(* Second half: the insert lands (or, after an undetected overlap, may be  *)
(* lost), hashWriting is cleared, and the deferred wg.Done() runs.         *)
MapAssignEnd(p) ==
    /\ Alive /\ gpc[p] = "assign"
    /\ IF p \in racy THEN hmap' \in {hmap \cup {p}, hmap}
                     ELSE hmap' = hmap \cup {p}
    /\ writing' = writing \ {p}
    /\ gpc' = [gpc EXCEPT ![p] = "done"]
    /\ wg' = wg - 1
    /\ UNCHANGED <<hpc, racy, crashed, response, spc, hver>>

(* wg.Wait() returns when the counter is zero; the map is encoded. *)
WaitAndRespond ==
    /\ Alive /\ hpc = "wait" /\ wg = 0
    /\ response' = hmap
    /\ hpc' = "responded"
    /\ UNCHANGED <<gpc, writing, racy, hmap, wg, crashed, spc, hver>>

(* POST /hostname: Hostname.SetHostname, concurrent with the describe.    *)
(* NewSDConnection can fail, then conn.SetHostName(Method, Value) asks     *)
(* hostnamed to change the name, which it does or refuses.                *)
SetHostname ==
    /\ Alive /\ spc = "idle"
    /\ \/ spc' = "failed" /\ UNCHANGED hver
       \/ spc' = "done" /\ hver' = 1
    /\ UNCHANGED <<hpc, gpc, writing, racy, hmap, wg, crashed, response>>

(* The request is over (answered, failed, or the process is gone). *)
HDone ==
    /\ \/ crashed
       \/ hpc \in {"responded", "failed"} /\ \A p \in Props : gpc[p] \in {"unborn", "done"}
    /\ UNCHANGED hvars

Goroutine(p) == GetHostName(p) \/ MapAssignBegin(p) \/ MapAssignEnd(p)

Handler == Connect \/ Spawn \/ WaitAndRespond

HNext == Handler \/ (\E p \in Props : Goroutine(p)) \/ SetHostname \/ HDone

(* The Go scheduler runs every runnable goroutine eventually. *)
HSpec == HInit /\ [][HNext]_hvars /\ WF_hvars(Handler)
         /\ \A p \in Props : WF_hvars(Goroutine(p))

-----------------------------------------------------------------------------
(* Properties *)

(* wg.Wait() joins every goroutine: when the response is written, every    *)
(* goroutine has finished and the response is the map's final content     *)
(* (no insert lands after the JSON encoding).  About wg.Add(16) matching   *)
(* the goroutines and wg.Done() being deferred.                           *)
ResponseIsFinal ==
    hpc = "responded" => /\ \A p \in Props : gpc[p] = "done"
                         /\ response = hmap

(* The handler finishes: it answers, fails, or the process dies; it never  *)
(* blocks for ever in wg.Wait().                                          *)
HandlerTerminates == <>(crashed \/ hpc \in {"responded", "failed"})

(* The handler never takes the server down.  About the unsynchronised     *)
(* writes to hostNameProperties.                                          *)
ServerSurvives == ~crashed
=============================================================================
