---------------------------- MODULE MCServer --------------------------------
EXTENDS Server

CONSTANTS u1, u2, t1, t2, t3

(* The files of MCAuth: well-formed ones, a trailing blank line, and a   *)
(* line with only a user.                                                *)
MCConfs == {<<>>, <<<<u1, t1>>>>, <<<<u1, t1>>, <<u2, t1>>>>, <<<<u1, t1>>, <<u2, t2>>>>,
            <<<<u1, t1>>, <<>>>>, <<<<u2>>, <<u1, t1>>>>}

(* Bodies: one per subtree with and without a link, an unknown Path, a   *)
(* "." segment, a ".." in the link that stays inside, a Link given for   *)
(* core (ignored), and a Property that climbs out of /proc/sys/net.      *)
MCSysChoices ==
    {[op |-> "get", path |-> "core", link |-> <<>>, property |-> <<"somaxconn">>],
     [op |-> "set", path |-> "ipv4", link |-> <<"eth0">>, property |-> <<"forwarding">>],
     [op |-> "set", path |-> "ipv6", link |-> <<>>, property |-> <<".", "forwarding">>],
     [op |-> "get", path |-> "bogus", link |-> <<>>, property |-> <<"somaxconn">>],
     [op |-> "set", path |-> "ipv6", link |-> <<"..">>, property |-> <<"forwarding">>],
     [op |-> "get", path |-> "core", link |-> <<"eth0">>, property |-> <<"somaxconn">>],
     [op |-> "set", path |-> "core", link |-> <<>>,
      property |-> <<"..", "..", "..", "..", "etc", "passwd">>]}
(* Four fields of tdnf.Options in Go field order, one per case of the     *)
(* switch in routerParseOptionsInterface (two bools).                     *)
MCOptionFields ==
    <<[name |-> "Best", key |-> "best", flag |-> "--best", kind |-> "bool"],
      [name |-> "Config", key |-> "config", flag |-> "--config", kind |-> "string"],
      [name |-> "DisableRepo", key |-> "disablerepo", flag |-> "--disablerepo", kind |-> "list"],
      [name |-> "NoGPGCheck", key |-> "nogpgcheck", flag |-> "--nogpgcheck", kind |-> "bool"]>>

(* A query: the values of each key; "Best" is a key in the wrong case,   *)
(* which the lower-cased lookup never reads.                             *)
Q(best, config, disablerepo, nogpgcheck, wrongcase) ==
    [best |-> best, config |-> config, disablerepo |-> disablerepo,
     nogpgcheck |-> nogpgcheck, Best |-> wrongcase]

(* Queries: none; every field set, two list values; a non-bool word,    *)
(* an empty first string and an empty list value, a bool given twice;    *)
(* only a wrong-case key.                                                 *)
MCQueries ==
    {Q(<<>>, <<>>, <<>>, <<>>, <<>>),
     Q(<<"true">>, <<"alt.conf">>, <<"updates", "extras">>, <<"1">>, <<>>),
     Q(<<"maybe">>, <<"", "alt.conf">>, <<"">>, <<"true", "0">>, <<>>),
     Q(<<>>, <<>>, <<>>, <<>>, <<"true">>)}

MCTdnfChoices ==
    {[cmd |-> c, pkg |-> "", query |-> q] :
        c \in {"repolist", "clean", "makecache", "list", "info"}, q \in MCQueries}
    \cup {[cmd |-> c, pkg |-> "tdnf", query |-> q] : c \in {"list", "info"}, q \in MCQueries}
=============================================================================
