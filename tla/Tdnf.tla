-------------------------------- MODULE Tdnf --------------------------------
(***************************************************************************)
(* GET /tdnf/{command}: the query string becomes tdnf options              *)
(* (routerParseOptions in plugins/tdnf/tdnf_router.go), the options become *)
(* command-line flags (TdnfOptions in tdnf.go), and TdnfExec runs           *)
(*     tdnf <flags> -j <command> [<pkg>]                                   *)
(* through AcquireRepoList, AcquireClean, AcquireMakeCache, AcquireList or  *)
(* AcquireInfoList.  What is kept is the argv each request makes tdnf run. *)
(*                                                                         *)
(* Options is abstracted to the fields in OptionFields (Go field order,    *)
(* the lower-cased field name that routerParseOptions looks up, the tdnf   *)
(* struct tag, and the field's Go type).  validator.IsBool is not part of  *)
(* src/: the values it accepts are the constant BoolWords.                 *)
(***************************************************************************)
EXTENDS Sequences, SequencesExt

CONSTANTS
    TdnfReqs,       \* HTTP requests routed to the tdnf plugin
    TdnfChoices,    \* possible [cmd, pkg, query] of such a request
    OptionFields,   \* Seq of [name, key, flag, kind]: the fields of Options
    QueryKeys,      \* query keys a client may send
    BoolWords       \* the first values validator.IsBool accepts

VARIABLES
    tq,             \* tq[r]: the command, package and parsed query of request r
    execd           \* the set of [by, argv] tdnf invocations so far

tvars == <<tq, execd>>

(* r.Form: every query key maps to its values in order; <<>> if absent. *)
Query == [QueryKeys -> Seq(STRING)]

-----------------------------------------------------------------------------
(* routerParseOptionsInterface, for each field of Options:                 *)
(*   bool:     isTrue(key)    = key present and IsBool(values[0])          *)
(*   string:   getString(key) = values[0], or "" when absent               *)
(*   []string: every value of the key, in order                            *)
ParseField(f, q) ==
    LET vs == IF f.key \in DOMAIN q THEN q[f.key] ELSE <<>> IN
    CASE f.kind = "bool"   -> vs # <<>> /\ vs[1] \in BoolWords
      [] f.kind = "string" -> IF vs = <<>> THEN "" ELSE vs[1]
      [] f.kind = "list"   -> vs

(* routerParseOptions(r.Form): an Options value, by field name. *)
RouterParseOptions(q) ==
    [i \in 1..Len(OptionFields) |-> ParseField(OptionFields[i], q)]

(* The switch of TdnfOptions on the field's type: a true bool gives the  *)
(* tag, a non-empty string gives tag=value, a slice gives tag=s for each  *)
(* element.                                                               *)
FieldArgs(f, v) ==
    CASE f.kind = "bool"   -> IF v THEN <<f.flag>> ELSE <<>>
      [] f.kind = "string" -> IF v # "" THEN <<f.flag \o "=" \o v>> ELSE <<>>
      [] f.kind = "list"   -> [j \in 1..Len(v) |-> f.flag \o "=" \o v[j]]

(* TdnfOptions: the loop over the fields of Options, appending in order. *)
TdnfOptions(o) ==
    FlattenSeq([i \in 1..Len(OptionFields) |-> FieldArgs(OptionFields[i], o[i])])

(* TdnfExec: args = append([]string{"-j"}, args...), then the options in *)
(* front of them.                                                         *)
TdnfExec(o, args) == TdnfOptions(o) \o <<"-j">> \o args

(* The arguments each Acquire* function passes after the options; list   *)
(* and info add the package unless validator.IsEmpty(pkg).               *)
CmdArgs(c) ==
    CASE c.cmd = "clean"              -> <<"clean", "all">>
      [] c.cmd \in {"list", "info"}   -> IF c.pkg = "" THEN <<c.cmd>> ELSE <<c.cmd, c.pkg>>
      [] OTHER                        -> <<c.cmd>>

TdnfInit ==
    /\ tq \in [TdnfReqs -> TdnfChoices]
    /\ execd = {}

(* routeracquireCommand (GET /tdnf/{command}): ParseForm (an error is    *)
(* answered, and the handler goes on with the pairs that did parse),     *)
(* routerParseOptions, then the Acquire* call for the command, which runs *)
(* tdnf (for list, info and makecache inside a job started before the    *)
(* 202 answer).  list and info get the package "".  The answers and       *)
(* tdnf's output are not modelled.                                        *)
HandleTdnf(r) ==
    /\ execd' = execd \cup
         {[by |-> r, argv |-> TdnfExec(RouterParseOptions(tq[r].query),
                                       CmdArgs([tq[r] EXCEPT !.pkg = ""]))]}
    /\ UNCHANGED tq

(* routeracquireCommandPkgs (GET /tdnf/{command}/{pkgs}): the same form   *)
(* handling, then list or info with the {pkgs} path value as package.     *)
HandleTdnfPkgs(r) ==
    /\ tq[r].cmd \in {"list", "info"}
    /\ execd' = execd \cup
         {[by |-> r, argv |-> TdnfExec(RouterParseOptions(tq[r].query), CmdArgs(tq[r]))]}
    /\ UNCHANGED tq

(* RegisterRouterTdnf: a request with a {pkgs} segment takes the second  *)
(* route, one without it the first.                                       *)
TdnfRoute(r) ==
    IF tq[r].pkg = "" THEN HandleTdnf(r) ELSE HandleTdnfPkgs(r)

=============================================================================
