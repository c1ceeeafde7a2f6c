------------------------------ MODULE UnitFile ------------------------------
(***************************************************************************)
(* The INI unit-file document of pkg/configfile (ConfigDocument in the     *)
(* spec), abstracted to what the networkd properties tell apart: the       *)
(* single-valued keys a configure request may set, and the repeated        *)
(* Network/VLAN= lines that NewKeyToSectionString appends.  The package is *)
(* not part of src/, so these operators are modelled from the spec (4.1).  *)
(***************************************************************************)
EXTENDS Sequences

CONSTANTS
    Keys,       \* (section, key) pairs a request may set, e.g. Network/DHCP
    Vals,       \* values a key may hold
    NoVal,      \* the empty string: "key absent" in a file, "leave as is" in a request
    DevNames    \* netdev names that may be listed as Network/VLAN= lines

ASSUME NoVal \notin Vals

Value == Vals \cup {NoVal}

\* A parsed unit file: one value per single-valued key, and the VLAN= lines
\* of the [Network] section in file order.
Doc == [kv : [Keys -> Value], vlan : Seq(DevNames)]

\* The document CreateNetworkFile writes: "[Match]" and "Name=<link>" only.
MatchOnly == [kv |-> [k \in Keys |-> NoVal], vlan |-> <<>>]

\* Meta.SetKeySectionString: replace the key's value in place, or append the
\* key to its section (appending the section if missing).  Either way the
\* key ends up with exactly this value and no other line changes.
SetKeySectionString(d, k, v) == [d EXCEPT !.kv[k] = v]

\* Meta.NewKeyToSectionString("Network", "VLAN", n): always append a line,
\* even when the same VLAN= line is already present.
NewKeyToSectionString(d, n) == [d EXCEPT !.vlan = Append(@, n)]
=============================================================================
