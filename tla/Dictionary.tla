----------------------------- MODULE Dictionary -----------------------------
(***************************************************************************)
(* The dictionary behind iniparser (extern/ini/dictionary.c): parallel     *)
(* arrays of keys, values and hashes with holes where keys were removed,   *)
(* searched from the front, filled from position n on, doubled when n says *)
(* they are full.  Growing may fail, and so may the copy of a key or of a  *)
(* value, which dictionary_set does not notice.                            *)
(*                                                                         *)
(* One thread uses a dictionary, so an operation is a step.  dictionary_   *)
(* hash is a function of the key alone: Hash, in which keys may collide.   *)
(***************************************************************************)
EXTENDS Integers, FiniteSets

CONSTANTS
    Keys, Values,
    NULL,       \* the C null pointer: no key, no value
    Hash,       \* Hash[k]: dictionary_hash(k)
    MinSize,    \* DICTMINSZ
    MaxSize,    \* bound: growing beyond it fails
    Failing     \* allocations that may fail: a subset of {"grow", "key", "val"}

ASSUME NullAssumption == NULL \notin Keys \cup Values
ASSUME HashAssumption == Hash \in [Keys -> Nat]
ASSUME SizeAssumption == MinSize \in Nat \ {0} /\ MaxSize \in Nat

VARIABLES
    size,   \* d->size
    n,      \* d->n
    key,    \* d->key
    val,    \* d->val
    hash,   \* d->hash
    out     \* history: the last operation and its result

vars == <<size, n, key, val, hash, out>>

Contents == Values \cup {NULL}
Slots    == 0 .. size - 1
Used     == {i \in Slots : key[i] # NULL}

Nothing == [op |-> "none", key |-> NULL, res |-> NULL]

\* dictionary_new(0): arrays of the least size, cleared by calloc.  It looks at
\* the result of none of the three (161-163); without one of them the first
\* operation would end the process.
Init ==
    /\ size = MinSize /\ n = 0
    /\ key = [i \in 0 .. MinSize - 1 |-> NULL]
    /\ val = [i \in 0 .. MinSize - 1 |-> NULL]
    /\ hash = [i \in 0 .. MinSize - 1 |-> 0]
    /\ out = Nothing

\* What xstrdup returns for s; what names the allocation.
Dup(s, what) == IF what \in Failing THEN {s, NULL} ELSE {s}

\* Mutant: the keys are not compared when the hashes agree.
FoundByHash(k) == {i \in Used : hash[i] = Hash[k]}

\* The positions at which a search for k stops.
Found(k) == {i \in Used : hash[i] = Hash[k] /\ key[i] = k}

First(S) == CHOOSE i \in S : \A j \in S : i <= j

-----------------------------------------------------------------------------
\* dictionary_set of a key that is there: the old value is freed, the new one
\* copied.  An empty dictionary is not searched.
Replace(k, v) ==
    /\ n > 0 /\ Found(k) # {}
    /\ \E copy \in Dup(v, "val") : val' = [val EXCEPT ![First(Found(k))] = copy]
    /\ out' = [op |-> "set", key |-> k, res |-> "ok"]
    /\ UNCHANGED <<size, n, key, hash>>

Absent(k) == n = 0 \/ Found(k) = {}

\* dictionary_grow fails: the dictionary is left as it was.
AddRefused(k) ==
    /\ Absent(k)
    /\ n = size
    /\ "grow" \in Failing \/ 2 * size > MaxSize
    /\ out' = [op |-> "set", key |-> k, res |-> "failed"]
    /\ UNCHANGED <<size, n, key, val, hash>>

\* The size after dictionary_grow, where it is called.
Room == IF n = size THEN 2 * size ELSE size

\* An array after dictionary_grow: the old positions copied, the new ones clear.
Grown(f, clear) == [i \in 0 .. Room - 1 |-> IF i \in Slots THEN f[i] ELSE clear]

Empty == {i \in 0 .. Room - 1 : Grown(key, NULL)[i] = NULL}

\* The first empty position from n on, going round at the end.
Slot ==
    LET after == {i \in Empty : i >= n}
    IN  First(IF after # {} THEN after ELSE Empty)

\* dictionary_set of a new key.  The loop that looks for an empty position has
\* no other exit: without one it never ends, which is InsertEnds.
Add(k, v) ==
    /\ Absent(k)
    /\ n = size => 2 * size <= MaxSize
    /\ Empty # {}
    /\ size' = Room
    /\ n' = n + 1
    /\ \E copy \in Dup(k, "key") : key' = [Grown(key, NULL) EXCEPT ![Slot] = copy]
    /\ \E copy \in Dup(v, "val") : val' = [Grown(val, NULL) EXCEPT ![Slot] = copy]
    /\ hash' = [Grown(hash, 0) EXCEPT ![Slot] = Hash[k]]
    /\ out' = [op |-> "set", key |-> k, res |-> "ok"]

\* Mutant: the count goes down even if there was nothing to remove.
UnsetCounts(k) ==
    /\ Found(k) = {} /\ n > 0
    /\ n' = n - 1
    /\ out' = [op |-> "unset", key |-> k, res |-> "ok"]
    /\ UNCHANGED <<size, key, val, hash>>

\* Mutant: and even if the dictionary was empty.
UnsetUnderflow(k) ==
    /\ Found(k) = {}
    /\ n' = n - 1
    /\ out' = [op |-> "unset", key |-> k, res |-> "ok"]
    /\ UNCHANGED <<size, key, val, hash>>

\* dictionary_unset of a key that is not there.
UnsetAbsent(k) ==
    /\ Found(k) = {}
    /\ out' = [op |-> "unset", key |-> k, res |-> "ok"]
    /\ UNCHANGED <<size, n, key, val, hash>>

Unset(k) ==
    /\ Found(k) # {}
    /\ key' = [key EXCEPT ![First(Found(k))] = NULL]
    /\ val' = [val EXCEPT ![First(Found(k))] = NULL]
    /\ hash' = [hash EXCEPT ![First(Found(k))] = 0]
    /\ n' = n - 1
    /\ out' = [op |-> "unset", key |-> k, res |-> "ok"]
    /\ UNCHANGED size

Get(k) ==
    /\ out' = [op |-> "get", key |-> k,
               res |-> IF Found(k) = {} THEN "default" ELSE val[First(Found(k))]]
    /\ UNCHANGED <<size, n, key, val, hash>>

\* dictionary_del, and dictionary_new for the next file.
Renew ==
    /\ size' = MinSize /\ n' = 0
    /\ key' = [i \in 0 .. MinSize - 1 |-> NULL]
    /\ val' = [i \in 0 .. MinSize - 1 |-> NULL]
    /\ hash' = [i \in 0 .. MinSize - 1 |-> 0]
    /\ out' = Nothing

dictionary_set(k) ==
    \/ \E v \in Contents : Replace(k, v) \/ Add(k, v)
    \/ AddRefused(k)

dictionary_unset(k) == Unset(k) \/ UnsetAbsent(k)

Next == (\E k \in Keys : dictionary_set(k) \/ dictionary_unset(k) \/ Get(k)) \/ Renew

Spec == Init /\ [][Next]_vars

-----------------------------------------------------------------------------
\* The types of all variables.
TypeOK ==
    /\ size \in Nat \ {0}
    /\ n \in Nat
    /\ key \in [Slots -> Keys \cup {NULL}]
    /\ val \in [Slots -> Contents]
    /\ hash \in [Slots -> Nat]

\* dictionary.c:289-291: the loop that looks for an empty position for a new
\* key ends, because there is one whenever n is less than the size; and n
\* never leaves the array.  It rests on n counting at least the keys stored,
\* after any history of removals and failed allocations.
InsertEnds == n <= size /\ (n < size => Used # Slots)

\* A key is stored once: what a search does not find is not there, so setting
\* does not add a second entry that would reappear after a removal.
KeysUnique ==
    \A i, j \in Used : key[i] = key[j] => i = j

\* The map the arrays stand for.
Entries == {key[i] : i \in Used}
Content == [k \in Entries |-> val[CHOOSE i \in Used : key[i] = k]]

Map == INSTANCE KeyValue WITH map <- Content

\* The arrays implement the map: every set, unset and get, across growth, holes
\* and hash collisions; a failed copy costs the key or the value it is of, and
\* what it leaves in the arrays never comes to light in a later operation.
MapSpec == Map!Spec

=============================================================================
