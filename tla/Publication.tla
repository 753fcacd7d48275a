---------------------------- MODULE Publication ----------------------------
(***************************************************************************)
(* What publication promises a node that follows current.json.             *)
(*                                                                         *)
(* At every moment there is one complete set of configurations that the    *)
(* bucket serves, and the set it served before that.  A publication        *)
(* replaces the whole set in one step, for every host at once, and demotes *)
(* the set that was served; nothing else changes what is served.           *)
(***************************************************************************)
CONSTANTS Hosts, Contents, None

VARIABLES served,    \* what each host downloads through `current`
          fallback   \* what each host downloads through `previous`

vars == <<served, fallback>>

Nothing == [h \in Hosts |-> None]
Sets == [Hosts -> Contents \cup {None}] \ {Nothing}

Init == served = Nothing /\ fallback = Nothing

PublishSet(m) == served' = m /\ fallback' = served

Next == \E m \in Sets : PublishSet(m)

Spec == Init /\ [][Next]_vars
=============================================================================
