------------------------------- MODULE SysNet -------------------------------
(***************************************************************************)
(* GET and SET of /proc/sys/net entries: SysNet.getPath, GetSysNet and     *)
(* SetSysNet of plugins/proc/net.go.  A request names a subtree (Path), an *)
(* optional Link and a Property; getPath joins them under /proc/sys/net     *)
(* with path.Join, GetSysNet reads the one-line file and SetSysNet writes   *)
(* the request's Value to it.                                              *)
(*                                                                         *)
(* A path is the sequence of its segments below "/"; a user string is the  *)
(* sequence of segments it splits into at "/" (the empty string is <<>>,   *)
(* and empty segments, which path.Clean drops, are left out).  The value    *)
(* read or written is not modelled: only which file a request opens.       *)
(***************************************************************************)
EXTENDS Sequences, SequencesExt

CONSTANTS
    SysReqs,      \* HTTP requests served by this handler
    SysChoices    \* possible decoded SysNet bodies

VARIABLES
    sq,           \* sq[r]: the decoded SysNet of request r
    opened        \* the set of [op, file, by] accesses made so far

svars == <<sq, opened>>

(* path.Clean on an absolute path: "." is dropped, ".." removes the last  *)
(* segment and stays at the root, any other segment is kept.             *)
RECURSIVE CleanFrom(_, _)
CleanFrom(acc, s) ==
    IF s = <<>> THEN acc
    ELSE LET h == Head(s)
             nxt == CASE h = "."  -> acc
                      [] h = ".." -> IF acc = <<>> THEN acc ELSE Front(acc)
                      [] OTHER    -> Append(acc, h)
         IN CleanFrom(nxt, Tail(s))

(* path.Join(a, b) = path.Clean(a + "/" + b) for an absolute a. *)
Join(a, b) == CleanFrom(<<>>, a \o b)

SysNetPath == <<"proc", "sys", "net">>

NotFound == <<"not found">>   \* errors.New("path not found")

(* Fault variant: the per-link subtree is joined without "conf". *)
GetPathNoConf(q) ==
    CASE q.path \in {"ipv4", "ipv6"} /\ q.link # <<>> ->
              Join(Join(Join(SysNetPath, <<q.path>>), q.link), q.property)
      [] q.path \in {"core", "ipv4", "ipv6"} ->
              Join(Join(SysNetPath, <<q.path>>), q.property)
      [] OTHER -> NotFound

(* getPath: the switch on r.Path.  Link is only used under ipv4 and ipv6. *)
GetPath(q) ==
    CASE q.path \in {"ipv4", "ipv6"} /\ q.link # <<>> ->
              Join(Join(Join(Join(SysNetPath, <<q.path>>), <<"conf">>), q.link), q.property)
      [] q.path \in {"core", "ipv4", "ipv6"} ->
              Join(Join(SysNetPath, <<q.path>>), q.property)
      [] OTHER -> NotFound

SysInit ==
    /\ sq \in [SysReqs -> SysChoices]
    /\ opened = {}

(* GetSysNet: getPath's error is returned before any file is read; then  *)
(* ReadOneLineFile(path) and the JSON answer.                             *)
GetSysNet(r) ==
    /\ opened' = IF GetPath(sq[r]) = NotFound THEN opened
                 ELSE opened \cup {[op |-> "get", file |-> GetPath(sq[r]), by |-> r]}
    /\ UNCHANGED sq

(* SetSysNet: getPath, then WriteOneLineFile(path, r.Value). *)
SetSysNet(r) ==
    /\ opened' = IF GetPath(sq[r]) = NotFound THEN opened
                 ELSE opened \cup {[op |-> "set", file |-> GetPath(sq[r]), by |-> r]}
    /\ UNCHANGED sq

(* The handler a request reaches: GET reads, anything else writes. *)
HandleSysNet(r) ==
    IF sq[r].op = "get" THEN GetSysNet(r) ELSE SetSysNet(r)

-----------------------------------------------------------------------------
(* Reference definitions *)

(* The file a request without "." or ".." segments names, written out    *)
(* from the layout of /proc/sys/net: net/<path>[/conf/<link>]/<property>. *)
RefPath(q) ==
    SysNetPath \o <<q.path>>
      \o (IF q.link = <<>> THEN <<>> ELSE <<"conf">> \o q.link)
      \o q.property

Plain(q) ==
    /\ q.path \in {"core", "ipv4", "ipv6"}
    /\ \A i \in 1..Len(q.link \o q.property) : (q.link \o q.property)[i] \notin {".", ".."}
    /\ q.path = "core" => q.link = <<>>
=============================================================================
