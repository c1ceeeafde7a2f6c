-------------------------------- MODULE Auth --------------------------------
(***************************************************************************)
(* The token middleware of pkg/server/auth.go.  InitAuthMiddleware reads    *)
(* /etc/pm-web/pmweb-auth.conf once, one "<user> <token>" line at a time,   *)
(* into TokenDB.tokenUsers; AuthMiddleware then looks up each request's     *)
(* X-Session-Token header and either calls the wrapped handler or answers   *)
(* 403 Forbidden, and in both cases calls the wrapped handler once more.    *)
(* Requests on the unix socket go through UnixDomainPeerCredential instead, *)
(* which reads the peer's credentials and looks its uid up.                *)
(* The wrapped handler is abstracted to "runs once and writes a response"; *)
(* the first status written is the one the client sees.                    *)
(***************************************************************************)
EXTENDS Naturals, Sequences

CONSTANTS
    Users, Tokens,
    Confs,        \* possible contents of pmweb-auth.conf: sequences of <<user, token>>
    AuthReqs,     \* HTTP requests with an X-Session-Token
    PeerReqs,     \* HTTP requests on the unix socket
    NoUser

VARIABLES
    conf,     \* the lines read from pmweb-auth.conf
    next,     \* index of the next line InitAuthMiddleware stores
    db,       \* db[t]: tokenUsers[t], or NoUser
    apc,      \* apc[r]: "idle", "check", "tail", "done"
    token,    \* token[r]: the request's X-Session-Token
    runs,     \* runs[r]: how many times the wrapped handler ran for r
    status,   \* status[r]: the status the client sees, or "none"
    ppc       \* ppc[r]: a peer request: "idle", "done", "aborted"

avars == <<conf, next, db, apc, token, runs, status, ppc>>

AllReqs == AuthReqs \cup PeerReqs

MaxRuns == 2   \* next.ServeHTTP appears twice on every path

(* strings.Fields of a line of pmweb-auth.conf: blank, one word, or      *)
(* "<user> <token>".                                                      *)
Line == {<<>>} \cup {<<u>> : u \in Users} \cup (Users \X Tokens)

ASSUME Confs \subseteq Seq(Line) /\ NoUser \notin Users
       /\ AuthReqs \cap PeerReqs = {}

AuthTypeOK ==
    /\ next \in 1..(Len(conf) + 1)
    /\ db \in [Tokens -> Users \cup {NoUser}]
    /\ apc \in [AuthReqs -> {"idle", "check", "tail", "done"}]
    /\ token \in [AuthReqs -> Tokens]
    /\ runs \in [AllReqs -> 0..MaxRuns]
    /\ status \in [AllReqs -> {"none", "ok", "forbidden"}]
    /\ ppc \in [PeerReqs -> {"idle", "done", "aborted"}]

AuthInit ==
    /\ conf \in Confs
    /\ next = 1
    /\ db = [t \in Tokens |-> NoUser]
    /\ apc = [r \in AuthReqs |-> "idle"]
    /\ token \in [AuthReqs -> Tokens]
    /\ runs = [r \in AllReqs |-> 0]
    /\ status = [r \in AllReqs |-> "none"]
    /\ ppc = [r \in PeerReqs |-> "idle"]

Booted == next > Len(conf)

(* A line with fewer than two fields: authLine[1] is out of range, and   *)
(* the panic ends the process during start-up.                           *)
Panicked == ~Booted /\ Len(conf[next]) < 2

(* One iteration of InitAuthMiddleware's loop: strings.Fields(line), then *)
(* tokenUsers[authLine[1]] = authLine[0]; a later line wins.  On a short  *)
(* line the loop never gets past the index: the process has died.        *)
StoreLine ==
    /\ ~Booted /\ ~Panicked
    /\ db' = [db EXCEPT ![conf[next][2]] = conf[next][1]]
    /\ next' = next + 1
    /\ UNCHANGED <<conf, apc, token, runs, status, ppc>>

(* The wrapped handler runs and writes its answer; a status already sent *)
(* stays (net/http ignores a superfluous WriteHeader).                    *)
Serve(r) ==
    /\ runs' = [runs EXCEPT ![r] = @ + 1]
    /\ status' = [status EXCEPT ![r] = IF @ = "none" THEN "ok" ELSE @]

(* The server accepts requests once the middleware is built. *)
Accept(r) ==
    /\ Booted /\ apc[r] = "idle"
    /\ apc' = [apc EXCEPT ![r] = "check"]
    /\ UNCHANGED <<conf, next, db, token, runs, status, ppc>>

(* Fault variant: the lookup's result is negated. *)
AuthenticateInverted(r) ==
    /\ apc[r] = "check"
    /\ IF db[token[r]] = NoUser
          THEN Serve(r)
          ELSE /\ status' = [status EXCEPT ![r] = IF @ = "none" THEN "forbidden" ELSE @]
               /\ UNCHANGED runs
    /\ apc' = [apc EXCEPT ![r] = "tail"]
    /\ UNCHANGED <<conf, next, db, token, ppc>>

(* The if/else of AuthMiddleware: a known token is served, an unknown one *)
(* is answered http.Error(w, "Forbidden", 403).                           *)
Authenticate(r) ==
    /\ apc[r] = "check"
    /\ IF db[token[r]] # NoUser
          THEN Serve(r)
          ELSE /\ status' = [status EXCEPT ![r] = IF @ = "none" THEN "forbidden" ELSE @]
               /\ UNCHANGED runs
    /\ apc' = [apc EXCEPT ![r] = "tail"]
    /\ UNCHANGED <<conf, next, db, token, ppc>>

(* Fault variant: the request never leaves the middleware's tail. *)
ServeAgainNoAdvance(r) ==
    /\ apc[r] = "tail"
    /\ Serve(r)
    /\ UNCHANGED <<conf, next, db, token, apc, ppc>>

(* The unconditional next.ServeHTTP(w, r) after the if/else. *)
ServeAgain(r) ==
    /\ apc[r] = "tail"
    /\ Serve(r)
    /\ apc' = [apc EXCEPT ![r] = "done"]
    /\ UNCHANGED <<conf, next, db, token, ppc>>

(* UnixDomainPeerCredential and authenticateLocalUser.  The error of       *)
(* GetUserCredentialsByUid is dropped, and u.Username is read from a nil   *)
(* user when the uid has no entry: the panic ends the request, net/http    *)
(* recovers it and closes the connection unanswered.  Otherwise            *)
(* authenticateLocalUser returns nil and the else branch serves.           *)
UnixDomainPeerCredential(r) ==
    /\ Booted /\ ppc[r] = "idle"
    /\ \/ /\ ppc' = [ppc EXCEPT ![r] = "aborted"]
          /\ UNCHANGED <<runs, status>>
       \/ /\ Serve(r)
          /\ ppc' = [ppc EXCEPT ![r] = "done"]
    /\ UNCHANGED <<conf, next, db, apc, token>>

(* Nothing more happens: every request has been answered, or the server  *)
(* died reading its configuration.                                        *)
AuthDone ==
    /\ \/ /\ Booted
          /\ \A r \in AuthReqs : apc[r] = "done"
          /\ \A r \in PeerReqs : ppc[r] # "idle"
       \/ Panicked
    /\ UNCHANGED avars

(* The steps of request r through its middleware. *)
AuthStep(r) ==
    \/ r \in AuthReqs /\ (Accept(r) \/ Authenticate(r) \/ ServeAgain(r))
    \/ r \in PeerReqs /\ UnixDomainPeerCredential(r)

AuthNext ==
    \/ StoreLine
    \/ \E r \in AllReqs : AuthStep(r)
    \/ AuthDone

AuthSpec == AuthInit /\ [][AuthNext]_avars

-----------------------------------------------------------------------------
(* Properties *)

(* The user a token is bound to, per the configuration file: the last    *)
(* line naming the token.                                                 *)
ConfUser(t) ==
    LET ls == {i \in 1..Len(conf) : Len(conf[i]) >= 2 /\ conf[i][2] = t} IN
    IF ls = {} THEN NoUser
    ELSE conf[CHOOSE i \in ls : \A j \in ls : j <= i][1]

(* A client sees 403 Forbidden only when its token is bound to no user in *)
(* pmweb-auth.conf, and a client whose token is bound is never refused.   *)
(* About the tokenUsers lookup in AuthMiddleware and the map built by    *)
(* InitAuthMiddleware.                                                    *)
ForbiddenIffUnknown ==
    \A r \in AuthReqs : apc[r] = "done" =>
        (status[r] = "forbidden" <=> ConfUser(token[r]) = NoUser)

(* The protected handler runs exactly once for a request with a known     *)
(* token and never for one without (spec 1: requests are authenticated).  *)
HandlerRunsOnlyWhenAuthenticated ==
    \A r \in AuthReqs :
        runs[r] <= IF ConfUser(token[r]) # NoUser THEN 1 ELSE 0

=============================================================================
