------------------------------ MODULE KeyValue ------------------------------
(***************************************************************************)
(* What a dictionary of iniparser promises (extern/ini/dictionary.h): a    *)
(* finite map from keys to values.  A value may be NULL, the key is there  *)
(* all the same.  Out of memory, setting a key fails and changes nothing;  *)
(* or it is done by half, and not reported: the key has no value, or a new *)
(* key is not there.  Whatever happened, later operations see that map.    *)
(***************************************************************************)
CONSTANTS
    Keys, Values, NULL,
    Failing     \* what memory may not suffice for: "grow", "key", "val"

VARIABLES
    map,    \* the map
    out     \* the last operation and its result

Contents == Values \cup {NULL}

Nothing == [op |-> "none", key |-> NULL, res |-> NULL]

NoEntries == [k \in {} |-> NULL]

Init == map = NoEntries /\ out = Nothing

SetTo(k, v) ==
    /\ map' = [x \in DOMAIN map \cup {k} |-> IF x = k THEN v ELSE map[x]]
    /\ out' = [op |-> "set", key |-> k, res |-> "ok"]

Set(k, v) ==
    \/ SetTo(k, v)
    \/ "val" \in Failing /\ SetTo(k, NULL)

\* The copy of a new key fails.
SetLost(k) ==
    /\ "key" \in Failing
    /\ k \notin DOMAIN map
    /\ out' = [op |-> "set", key |-> k, res |-> "ok"]
    /\ UNCHANGED map

\* The bound on the size may refuse a key, too.
SetRefused(k) ==
    /\ k \notin DOMAIN map
    /\ out' = [op |-> "set", key |-> k, res |-> "failed"]
    /\ UNCHANGED map

Unset(k) ==
    /\ map' = [x \in DOMAIN map \ {k} |-> map[x]]
    /\ out' = [op |-> "unset", key |-> k, res |-> "ok"]

Get(k) ==
    /\ out' = [op |-> "get", key |-> k,
               res |-> IF k \in DOMAIN map THEN map[k] ELSE "default"]
    /\ UNCHANGED map

\* The dictionary is deleted, and a new one made.
Renew == map' = NoEntries /\ out' = Nothing

Next ==
    \/ \E k \in Keys :
         \/ \E v \in Contents : Set(k, v)
         \/ SetLost(k) \/ SetRefused(k) \/ Unset(k) \/ Get(k)
    \/ Renew

Spec == Init /\ [][Next]_<<map, out>>
=============================================================================
