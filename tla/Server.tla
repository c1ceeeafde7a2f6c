------------------------------- MODULE Server -------------------------------
(***************************************************************************)
(* The plugin handlers behind the two middlewares of pkg/server/auth.go.   *)
(* Every time a middleware calls next.ServeHTTP (a step of Auth that       *)
(* increments runs[r]), the handler request r is routed to runs in the     *)
(* same step: the sysnet handlers of plugins/proc/net.go or the tdnf       *)
(* command handler of plugins/tdnf.  The other middleware steps leave the  *)
(* handlers' state alone.                                                  *)
(***************************************************************************)
EXTENDS Auth, SysNet, Tdnf

ASSUME SysReqs \cup TdnfReqs = AllReqs /\ SysReqs \cap TdnfReqs = {}

vars == <<avars, svars, tvars>>

ServerInit == AuthInit /\ SysInit /\ TdnfInit

(* The handler the router picks for r. *)
Handle(r) ==
    IF r \in SysReqs THEN HandleSysNet(r) /\ UNCHANGED tvars
                     ELSE TdnfRoute(r) /\ UNCHANGED svars

(* next.ServeHTTP(w, r) with next the routed handler. *)
ServerStep(r) ==
    /\ AuthStep(r)
    /\ IF runs'[r] # runs[r] THEN Handle(r) ELSE UNCHANGED <<svars, tvars>>

ServerNext ==
    \/ (StoreLine \/ AuthDone) /\ UNCHANGED <<svars, tvars>>
    \/ \E r \in AllReqs : ServerStep(r)

ServerSpec == ServerInit /\ [][ServerNext]_vars
-----------------------------------------------------------------------------
(* Properties *)

(* A request without "." or ".." segments opens only the file the         *)
(* /proc/sys/net layout gives it: getPath's joins put the subtree, "conf", *)
(* the link and the property in that order, and nothing else.             *)
PlainRequestsTouchTheirFile ==
    \A a \in opened : Plain(sq[a.by]) => a.file = RefPath(sq[a.by])

(* Every file any request opens lies under /proc/sys/net.  About getPath  *)
(* joining the client's Property and Link without confining them.        *)
AccessConfined ==
    \A a \in opened : IsPrefix(SysNetPath, a.file)

=============================================================================
