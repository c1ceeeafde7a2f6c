------------------------------ MODULE UnitStore ------------------------------
(***************************************************************************)
(* What POST /networkd/network/configure promises (spec 4.3, 5, 7): each   *)
(* request either fails without changing a unit, or merges its non-empty  *)
(* fields into the link's unit in one indivisible step and later responds. *)
(* Requests on one link are applied one after the other; nothing a        *)
(* request persisted is lost except by a later request that sets the same *)
(* key.                                                                    *)
(***************************************************************************)
CONSTANTS Links, Keys, Vals, NoVal, Reqs, NoReq

VARIABLES
    unit,     \* unit[l]: the settings of link l's unit
    body,     \* body[r]: the request r carries, once received
    status    \* status[r]: new, accepted, persisted or done

avars == <<unit, body, status>>

Value == Vals \cup {NoVal}
Settings == [Keys -> Value]
Body == [link : Links, fields : Settings]

\* Field policy of the spec: an empty field leaves the key as it is.
Merge(s, f) == [k \in Keys |-> IF f[k] = NoVal THEN s[k] ELSE f[k]]

AInit ==
    /\ unit \in [Links -> Settings]
    /\ body = [r \in Reqs |-> NoReq]
    /\ status = [r \in Reqs |-> "new"]

Receive(r) ==
    /\ status[r] = "new"
    /\ body' \in {[body EXCEPT ![r] = q] : q \in Body}
    /\ status' = [status EXCEPT ![r] = "accepted"]
    /\ UNCHANGED unit

\* The request's own fields, merged into its own link's unit.
Persist(r) ==
    /\ status[r] = "accepted"
    /\ unit' = [unit EXCEPT ![body[r].link] = Merge(@, body[r].fields)]
    /\ status' = [status EXCEPT ![r] = "persisted"]
    /\ UNCHANGED body

Abort(r) ==
    /\ status[r] = "accepted"
    /\ status' = [status EXCEPT ![r] = "done"]
    /\ UNCHANGED <<unit, body>>

Respond(r) ==
    /\ status[r] = "persisted"
    /\ status' = [status EXCEPT ![r] = "done"]
    /\ UNCHANGED <<unit, body>>

ANext == \E r \in Reqs : Receive(r) \/ Persist(r) \/ Abort(r) \/ Respond(r)

ASpec == AInit /\ [][ANext]_avars
=============================================================================
