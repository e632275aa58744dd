-------------------------- MODULE DictionaryProofs --------------------------
(***************************************************************************)
(* Proofs about Dictionary for any keys, values, hash function and sizes,  *)
(* and whichever allocations may fail: the arrays keep their order, and    *)
(* they implement the map of KeyValue.                                     *)
(*                                                                         *)
(* Two facts make the invariants inductive.  The count n is at least the   *)
(* number of keys stored, not equal to it: a key whose copy failed is      *)
(* counted.  And the hash stored with a key is its hash, which is what     *)
(* makes a search, that compares hashes first, find every key stored.      *)
(***************************************************************************)
EXTENDS Dictionary, FiniteSetTheorems, WellFoundedInduction, TLAPS

Hashed == \A i \in Used : hash[i] = Hash[key[i]]

Counted == Cardinality(Used) <= n /\ n <= size

IInv == TypeOK /\ Hashed /\ KeysUnique /\ Counted

-----------------------------------------------------------------------------
LEMMA Least == \A S \in SUBSET Nat : S # {} => \E x \in S : \A y \in S : x <= y
<1> SUFFICES ASSUME NEW S \in SUBSET Nat, S # {}
             PROVE \E x \in S : \A y \in S : x <= y
  OBVIOUS
<1> DEFINE Less == OpToRel(<, Nat)
<1>1. IsWellFoundedOn(Less, Nat)
  BY NatLessThanWellFounded
<1>2. \A x, y \in Nat : y < x => <<y, x>> \in Less
  BY DEF OpToRel
<1> HIDE DEF Less
<1>3. PICK x \in S : \A y \in S : ~ (<<y, x>> \in Less)
  BY <1>1, WFMin
<1>4. \A y \in S : ~ (y < x)
  BY <1>2, <1>3
<1> QED
  BY <1>4

\* The first position of a set of positions is one of them.
LEMMA FirstIn == ASSUME NEW S \in SUBSET Nat, S # {} PROVE First(S) \in S
BY Least DEF First

\* Where keys are unique, a function from keys is read off the arrays.
LEMMA ReadOff ==
    ASSUME NEW U, NEW f, NEW g,
           \A i, j \in U : f[i] = f[j] => i = j
    PROVE  \A j \in U :
              [k \in {f[i] : i \in U} |-> g[CHOOSE i \in U : f[i] = k]][f[j]] = g[j]
<1> TAKE j \in U
<1>1. (CHOOSE i \in U : f[i] = f[j]) = j
  OBVIOUS
<1>2. f[j] \in {f[i] : i \in U}
  OBVIOUS
<1> QED
  BY <1>1, <1>2

\* A search finds exactly the keys stored.
LEMMA FoundIs ==
    ASSUME IInv, NEW k \in Keys
    PROVE  /\ Found(k) = {i \in Used : key[i] = k}
           /\ Found(k) \in SUBSET Nat
           /\ Found(k) # {} <=> k \in Entries
           /\ Found(k) # {} => /\ First(Found(k)) \in Used
                               /\ key[First(Found(k))] = k
<1>1. Found(k) = {i \in Used : key[i] = k}
  BY DEF IInv, Hashed, Found
<1>2. Found(k) \in SUBSET Nat
  BY <1>1 DEF Used, Slots, IInv, TypeOK
<1>3. Found(k) # {} <=> k \in Entries
  BY <1>1 DEF Entries
<1>4. Found(k) # {} => First(Found(k)) \in Found(k)
  BY <1>2, FirstIn
<1> QED
  BY <1>1, <1>2, <1>3, <1>4

LEMMA UsedFinite ==
    ASSUME IInv
    PROVE  /\ IsFiniteSet(Used) /\ Cardinality(Used) \in Nat
           /\ IsFiniteSet(Slots) /\ Cardinality(Slots) = size
           /\ n = 0 => Used = {}
<1>1. IsFiniteSet(Slots) /\ Cardinality(Slots) = size
  BY FS_Interval DEF IInv, TypeOK, Slots
<1>2. IsFiniteSet(Used)
  BY <1>1, FS_Subset DEF Used
<1>3. Cardinality(Used) \in Nat
  BY <1>2, FS_CardinalityType
<1>4. n = 0 => Cardinality(Used) = 0
  BY <1>3 DEF IInv, Counted
<1> QED
  BY <1>1, <1>2, <1>3, <1>4, FS_EmptySet

\* A key that dictionary_set takes to be absent is.
LEMMA AbsentIs == ASSUME IInv, NEW k \in Keys, Absent(k) PROVE k \notin Entries
<1>1. CASE n = 0
  BY <1>1, UsedFinite DEF Entries
<1>2. CASE Found(k) = {}
  BY <1>2, FoundIs
<1> QED
  BY <1>1, <1>2 DEF Absent

\* What adding a key leaves in the arrays.
LEMMA AddIs ==
    ASSUME IInv, NEW k \in Keys, NEW v \in Contents, Add(k, v)
    PROVE  /\ Room \in Nat \ {0} /\ size <= Room /\ n < Room
           /\ Slot \in 0 .. Room - 1 /\ Slot \notin Used
           /\ key' \in [0 .. Room - 1 -> Keys \cup {NULL}]
           /\ val' \in [0 .. Room - 1 -> Contents]
           /\ hash' \in [0 .. Room - 1 -> Nat]
           /\ Used' = IF key'[Slot] = NULL THEN Used ELSE Used \cup {Slot}
           /\ \A i \in Used : key'[i] = key[i] /\ val'[i] = val[i] /\ hash'[i] = hash[i]
           /\ key'[Slot] \in Dup(k, "key") /\ val'[Slot] \in Dup(v, "val")
           /\ hash'[Slot] = Hash[k]
<1>1. Room \in Nat \ {0} /\ size <= Room /\ n < Room
  BY DEF IInv, TypeOK, Counted, Room
<1>2. Slot \in Empty
  <2>1. Empty \in SUBSET Nat /\ {i \in Empty : i >= n} \in SUBSET Nat
    BY <1>1 DEF Empty
  <2> QED
    BY <2>1, FirstIn DEF Add, Slot
<1> HIDE DEF Slot
<1>3. Slots \subseteq 0 .. Room - 1
  BY <1>1 DEF Slots, IInv, TypeOK
<1>4. Slot \in 0 .. Room - 1 /\ Slot \notin Used
  BY <1>2 DEF Empty, Grown, Used
<1>5. NULL \notin Keys /\ k # NULL
  BY NullAssumption
<1>6. /\ Grown(key, NULL) \in [0 .. Room - 1 -> Keys \cup {NULL}]
      /\ Grown(val, NULL) \in [0 .. Room - 1 -> Contents]
      /\ Grown(hash, 0) \in [0 .. Room - 1 -> Nat]
  BY DEF Grown, IInv, TypeOK, Contents
<1>7. PICK ck \in Dup(k, "key") : key' = [Grown(key, NULL) EXCEPT ![Slot] = ck]
  BY DEF Add
<1>8. PICK cv \in Dup(v, "val") : val' = [Grown(val, NULL) EXCEPT ![Slot] = cv]
  BY DEF Add
<1>9. hash' = [Grown(hash, 0) EXCEPT ![Slot] = Hash[k]] /\ size' = Room
  BY DEF Add
<1>10. ck \in Keys \cup {NULL} /\ cv \in Contents /\ Hash[k] \in Nat
  BY HashAssumption DEF Dup, Contents
<1>11. /\ key' \in [0 .. Room - 1 -> Keys \cup {NULL}]
       /\ val' \in [0 .. Room - 1 -> Contents]
       /\ hash' \in [0 .. Room - 1 -> Nat]
  BY <1>6, <1>7, <1>8, <1>9, <1>10
<1>12. key'[Slot] = ck /\ val'[Slot] = cv /\ hash'[Slot] = Hash[k]
  BY <1>4, <1>6, <1>7, <1>8, <1>9
<1>13. \A i \in (0 .. Room - 1) \ {Slot} :
          /\ key'[i] = IF i \in Slots THEN key[i] ELSE NULL
          /\ val'[i] = IF i \in Slots THEN val[i] ELSE NULL
          /\ hash'[i] = IF i \in Slots THEN hash[i] ELSE 0
  BY <1>7, <1>8, <1>9 DEF Grown
<1>14. \A i \in Used : key'[i] = key[i] /\ val'[i] = val[i] /\ hash'[i] = hash[i]
  BY <1>3, <1>4, <1>13 DEF Used
<1>15. Used' = {i \in 0 .. Room - 1 : key'[i] # NULL}
  BY <1>9 DEF Used, Slots
<1>16. Used' = IF key'[Slot] = NULL THEN Used ELSE Used \cup {Slot}
  BY <1>3, <1>4, <1>13, <1>15 DEF Used
<1> QED
  BY <1>1, <1>4, <1>11, <1>12, <1>14, <1>16

-----------------------------------------------------------------------------
LEMMA InitIInv == Init => IInv
<1> SUFFICES ASSUME Init PROVE IInv
  OBVIOUS
<1>1. TypeOK
  BY SizeAssumption DEF Init, TypeOK, Slots, Contents
<1>2. Used = {}
  BY DEF Init, Used, Slots
<1>3. Counted
  BY <1>2, FS_EmptySet, SizeAssumption DEF Counted, Init
<1> QED
  BY <1>1, <1>2, <1>3 DEF IInv, Hashed, KeysUnique

LEMMA ReplaceStep ==
    ASSUME IInv, NEW k \in Keys, NEW v \in Contents, Replace(k, v)
    PROVE  IInv'
<1>1. PICK copy \in Dup(v, "val") : val' = [val EXCEPT ![First(Found(k))] = copy]
  BY DEF Replace
<1>2. copy \in Contents
  BY DEF Dup, Contents
<1>3. TypeOK'
  BY <1>1, <1>2 DEF Replace, IInv, TypeOK, Slots
<1>4. Used' = Used
  BY DEF Replace, Used, Slots
<1> QED
  BY <1>3, <1>4 DEF Replace, IInv, Hashed, KeysUnique, Counted

LEMMA AddStep ==
    ASSUME IInv, NEW k \in Keys, NEW v \in Contents, Add(k, v)
    PROVE  IInv'
<1> HIDE DEF Slot, Room
<1>1. size' = Room /\ n' = n + 1
  BY DEF Add
<1>2. TypeOK'
  BY <1>1, AddIs DEF TypeOK, Slots, IInv
<1>3. key'[Slot] # NULL => key'[Slot] = k
  BY AddIs DEF Dup
<1>4. Hashed'
  BY <1>3, AddIs DEF Hashed, IInv
<1>5. k \notin Entries
  BY AbsentIs DEF Add
<1>6. KeysUnique'
  BY <1>3, <1>5, AddIs DEF KeysUnique, IInv, Entries
<1>7. Cardinality(Used') <= n + 1
  <2>1. Cardinality(Used \cup {Slot}) = Cardinality(Used) + 1
    BY AddIs, UsedFinite, FS_AddElement
  <2>2. Used' = Used \/ Used' = Used \cup {Slot}
    BY AddIs
  <2>3. n \in Nat /\ Cardinality(Used) \in Nat /\ Cardinality(Used) <= n
    BY UsedFinite DEF IInv, Counted, TypeOK
  <2>4. Cardinality(Used') = Cardinality(Used) \/ Cardinality(Used') = Cardinality(Used) + 1
    BY <2>1, <2>2
  <2> QED
    BY <2>3, <2>4
<1>8. Counted'
  BY <1>1, <1>7, AddIs DEF Counted, IInv, TypeOK
<1> QED
  BY <1>2, <1>4, <1>6, <1>8 DEF IInv

LEMMA UnsetStep ==
    ASSUME IInv, NEW k \in Keys, Unset(k)
    PROVE  IInv' /\ Used' = Used \ {First(Found(k))}
<1> DEFINE f == First(Found(k))
<1>1. f \in Used /\ f \in Slots
  BY FoundIs DEF Unset, Used
<1> HIDE DEF f
<1>2. /\ key' = [key EXCEPT ![f] = NULL] /\ val' = [val EXCEPT ![f] = NULL]
      /\ hash' = [hash EXCEPT ![f] = 0] /\ n' = n - 1 /\ size' = size
  BY DEF Unset, f
<1>3. Used' = Used \ {f}
  BY <1>1, <1>2 DEF Used, Slots, IInv, TypeOK
<1>4. Cardinality(Used') = Cardinality(Used) - 1
  BY <1>1, <1>3, UsedFinite, FS_RemoveElement
<1>5. Cardinality(Used) >= 1
  BY <1>1, UsedFinite, FS_EmptySet
<1>6. TypeOK'
  <2>1. n - 1 \in Nat
    BY <1>5, UsedFinite DEF IInv, TypeOK, Counted
  <2> QED
    BY <1>2, <2>1 DEF TypeOK, IInv, Slots, Contents
<1>7. Counted'
  BY <1>2, <1>4, UsedFinite DEF IInv, Counted, TypeOK
<1>8. Hashed' /\ KeysUnique'
  BY <1>2, <1>3 DEF IInv, Hashed, KeysUnique, TypeOK, Used
<1> QED
  BY <1>3, <1>6, <1>7, <1>8 DEF IInv, f

LEMMA RenewStep == ASSUME Renew PROVE IInv' /\ Used' = {}
<1>1. Used' = {}
  BY DEF Renew, Used, Slots
<1>2. TypeOK'
  BY SizeAssumption DEF Renew, TypeOK, Slots, Contents
<1>3. Counted'
  BY <1>1, FS_EmptySet, SizeAssumption DEF Counted, Renew
<1> QED
  BY <1>1, <1>2, <1>3 DEF IInv, Hashed, KeysUnique

\* Steps that leave the arrays alone.
LEMMA IdleStep ==
    ASSUME IInv, UNCHANGED <<size, n, key, val, hash>>
    PROVE  IInv' /\ Content' = Content
<1>1. Used' = Used
  BY DEF Used, Slots
<1>2. IInv'
  BY <1>1 DEF IInv, TypeOK, Slots, Hashed, KeysUnique, Counted
<1>3. Content' = Content
  BY <1>1 DEF Content, Entries
<1> QED
  BY <1>2, <1>3

LEMMA NextIInv == IInv /\ [Next]_vars => IInv'
<1> SUFFICES ASSUME IInv, [Next]_vars PROVE IInv'
  OBVIOUS
<1>1. ASSUME NEW k \in Keys, NEW v \in Contents, Replace(k, v) PROVE IInv'
  BY <1>1, ReplaceStep
<1>2. ASSUME NEW k \in Keys, NEW v \in Contents, Add(k, v) PROVE IInv'
  BY <1>2, AddStep
<1>3. ASSUME NEW k \in Keys, AddRefused(k) \/ UnsetAbsent(k) \/ Get(k) PROVE IInv'
  BY <1>3, IdleStep DEF AddRefused, UnsetAbsent, Get
<1>4. ASSUME NEW k \in Keys, Unset(k) PROVE IInv'
  BY <1>4, UnsetStep
<1>5. CASE Renew
  BY <1>5, RenewStep
<1>6. CASE UNCHANGED vars
  BY <1>6, IdleStep DEF vars
<1> QED
  BY <1>1, <1>2, <1>3, <1>4, <1>5, <1>6 DEF Next, dictionary_set, dictionary_unset

THEOREM Invariance == Spec => []IInv
BY InitIInv, NextIInv, PTL DEF Spec

\* The variables of the dictionary keep their types: the count never goes below
\* zero, and positions outside the arrays are not written.
THEOREM TypeCorrect == Spec => []TypeOK
BY Invariance, PTL DEF IInv

\* dictionary.c:289-291: the search for an empty position ends.
THEOREM Inserts == Spec => []InsertEnds
<1>1. IInv => InsertEnds
  <2> SUFFICES ASSUME IInv PROVE InsertEnds
    OBVIOUS
  <2>1. n < size => Used # Slots
    BY UsedFinite DEF IInv, Counted, TypeOK
  <2> QED
    BY <2>1 DEF InsertEnds, IInv, Counted
<1> QED
  BY <1>1, Invariance, PTL

\* No key is stored twice.
THEOREM Unique == Spec => []KeysUnique
BY Invariance, PTL DEF IInv

-----------------------------------------------------------------------------
\* The value of a key of the map is the value stored with it.
Reads ==
    /\ DOMAIN Content = Entries
    /\ \A j \in Used : key[j] \in Entries /\ Content[key[j]] = val[j]

LEMMA ContentIs == IInv => Reads
<1> SUFFICES ASSUME IInv PROVE Reads
  OBVIOUS
<1>1. \A i, j \in Used : key[i] = key[j] => i = j
  BY DEF IInv, KeysUnique
<1>2. \A j \in Used : Content[key[j]] = val[j]
  BY <1>1, ReadOff DEF Content, Entries
<1> QED
  BY <1>2 DEF Content, Entries, Reads

LEMMA ContentIsNext == IInv' => Reads'
BY ContentIs, PTL

\* Setting a key in the arrays sets it in the map.
LEMMA SetsMap ==
    ASSUME IInv, IInv', NEW k \in Keys, NEW s \in Used', key'[s] = k,
           Used' = Used \cup {s},
           \A i \in Used : key'[i] = key[i],
           \A i \in Used \ {s} : val'[i] = val[i]
    PROVE  Content' = [x \in DOMAIN Content \cup {k} |->
                          IF x = k THEN val'[s] ELSE Content[x]]
<1>1. Entries' = Entries \cup {k}
  BY DEF Entries
<1>2. ASSUME NEW x \in Entries'
      PROVE  Content'[x] = IF x = k THEN val'[s] ELSE Content[x]
  <2>1. PICK j \in Used' : x = key'[j]
    BY DEF Entries
  <2>2. CASE j = s
    BY <2>1, <2>2, ContentIsNext DEF Reads
  <2>3. CASE j # s
    <3>1. j \in Used /\ x = key[j] /\ val'[j] = val[j]
      BY <2>1, <2>3
    <3>2. x # k
      BY <2>1, <2>3 DEF IInv, KeysUnique
    <3> QED
      BY <2>1, <3>1, <3>2, ContentIs, ContentIsNext DEF Reads
  <2> QED
    BY <2>2, <2>3
<1>3. DOMAIN Content = Entries /\ DOMAIN Content' = Entries'
  BY ContentIs, ContentIsNext DEF Reads
<1>4. Content' = [x \in Entries' |-> Content'[x]]
  BY <1>3 DEF Content
<1> QED
  BY <1>1, <1>2, <1>3, <1>4
LEMMA InitMap == Init => Map!Init
<1> SUFFICES ASSUME Init PROVE Map!Init
  OBVIOUS
<1>1. Used = {}
  BY DEF Init, Used, Slots
<1>2. Content = Map!NoEntries
  BY <1>1 DEF Content, Entries, Map!NoEntries
<1> QED
  BY <1>2 DEF Init, Map!Init, Nothing, Map!Nothing

LEMMA ReplaceMap ==
    ASSUME IInv, IInv', NEW k \in Keys, NEW v \in Contents, Replace(k, v)
    PROVE  Map!Set(k, v)
<1> DEFINE s == First(Found(k))
<1>1. s \in Used /\ key[s] = k
  BY FoundIs DEF Replace
<1>2. PICK copy \in Dup(v, "val") : val' = [val EXCEPT ![s] = copy]
  BY DEF Replace
<1> HIDE DEF s
<1>3. Used' = Used /\ key' = key
  BY DEF Replace, Used, Slots
<1>4. val'[s] = copy /\ \A i \in Used \ {s} : val'[i] = val[i]
  BY <1>1, <1>2 DEF Used, IInv, TypeOK
<1>5. Content' = [x \in DOMAIN Content \cup {k} |-> IF x = k THEN copy ELSE Content[x]]
  <2>1. Used' = Used \cup {s} /\ s \in Used' /\ key'[s] = k
    BY <1>1, <1>3
  <2>2. \A i \in Used : key'[i] = key[i]
    BY <1>3
  <2> QED
    BY <1>4, <2>1, <2>2, SetsMap
<1>6. out' = [op |-> "set", key |-> k, res |-> "ok"]
  BY DEF Replace
<1>7. copy = v \/ ("val" \in Failing /\ copy = NULL)
  BY <1>2 DEF Dup
<1> QED
  BY <1>5, <1>6, <1>7 DEF Map!Set, Map!SetTo

LEMMA AddMap ==
    ASSUME IInv, IInv', NEW k \in Keys, NEW v \in Contents, Add(k, v)
    PROVE  Map!Set(k, v) \/ Map!SetLost(k)
<1> HIDE DEF Slot, Room
<1>1. k \notin Entries
  BY AbsentIs DEF Add
<1>2. out' = [op |-> "set", key |-> k, res |-> "ok"]
  BY DEF Add
<1>3. CASE key'[Slot] = NULL
  <2>1. Used' = Used /\ \A i \in Used : key'[i] = key[i] /\ val'[i] = val[i]
    BY <1>3, AddIs
  <2>2. Entries' = Entries
    BY <2>1 DEF Entries
  <2>3. \A x \in Entries : Content'[x] = Content[x]
    BY <2>1, ContentIs, ContentIsNext DEF Entries, Reads
  <2>4. Content' = [x \in Entries |-> Content'[x]] /\ Content = [x \in Entries |-> Content[x]]
    BY <2>2 DEF Content
  <2>5. Content' = Content
    BY <2>3, <2>4
  <2>6. "key" \in Failing
    BY <1>3, AddIs, NullAssumption DEF Dup
  <2>7. DOMAIN Content = Entries
    BY DEF Content
  <2> QED
    BY <1>1, <1>2, <2>5, <2>6, <2>7 DEF Map!SetLost
<1>4. CASE key'[Slot] # NULL
  <2>1. key'[Slot] = k
    BY <1>4, AddIs DEF Dup
  <2>2. Used' = Used \cup {Slot} /\ Slot \in Used'
    BY <1>4, AddIs
  <2>3. \A i \in Used : key'[i] = key[i] /\ val'[i] = val[i]
    BY AddIs
  <2>4. Content' = [x \in DOMAIN Content \cup {k} |->
                      IF x = k THEN val'[Slot] ELSE Content[x]]
    BY <2>1, <2>2, <2>3, SetsMap
  <2>5. val'[Slot] = v \/ ("val" \in Failing /\ val'[Slot] = NULL)
    BY AddIs DEF Dup
  <2> QED
    BY <1>2, <2>4, <2>5 DEF Map!Set, Map!SetTo
<1> QED
  BY <1>3, <1>4

LEMMA AddRefusedMap ==
    ASSUME IInv, NEW k \in Keys, AddRefused(k)
    PROVE  Map!SetRefused(k)
<1>1. k \notin Entries
  BY AbsentIs DEF AddRefused
<1>2. Content' = Content
  BY IdleStep DEF AddRefused
<1>3. DOMAIN Content = Entries
  BY DEF Content
<1> QED
  BY <1>1, <1>2, <1>3 DEF AddRefused, Map!SetRefused

LEMMA UnsetMap ==
    ASSUME IInv, IInv', NEW k \in Keys, Unset(k)
    PROVE  Map!Unset(k)
<1> DEFINE s == First(Found(k))
<1>1. s \in Used /\ key[s] = k
  BY FoundIs DEF Unset
<1>2. Used' = Used \ {s}
  BY UnsetStep
<1> HIDE DEF s
<1>3. key' = [key EXCEPT ![s] = NULL] /\ val' = [val EXCEPT ![s] = NULL]
  BY DEF Unset, s
<1>4. \A i \in Used' : key'[i] = key[i] /\ val'[i] = val[i]
  BY <1>2, <1>3 DEF Used, IInv, TypeOK
<1>5. Entries' = Entries \ {k}
  <2>1. \A i \in Used : key[i] = k => i = s
    BY <1>1 DEF IInv, KeysUnique
  <2>2. Entries' = {key[i] : i \in Used \ {s}}
    BY <1>2, <1>4 DEF Entries
  <2> QED
    BY <1>1, <2>1, <2>2 DEF Entries
<1>6. \A x \in Entries' : Content'[x] = Content[x]
  BY <1>2, <1>4, ContentIs, ContentIsNext DEF Entries, Reads
<1>7. DOMAIN Content = Entries /\ Content' = [x \in Entries' |-> Content'[x]]
  BY DEF Content
<1>8. Content' = [x \in DOMAIN Content \ {k} |-> Content[x]]
  BY <1>5, <1>6, <1>7
<1> QED
  BY <1>8 DEF Unset, Map!Unset

LEMMA UnsetAbsentMap ==
    ASSUME IInv, NEW k \in Keys, UnsetAbsent(k)
    PROVE  Map!Unset(k)
<1>1. k \notin Entries
  BY FoundIs DEF UnsetAbsent
<1>2. Content' = Content
  BY IdleStep DEF UnsetAbsent
<1>3. DOMAIN Content = Entries /\ Content = [x \in Entries |-> Content[x]]
  BY DEF Content
<1>4. Content' = [x \in DOMAIN Content \ {k} |-> Content[x]]
  <2>1. Entries \ {k} = Entries
    BY <1>1
  <2> QED
    BY <1>2, <1>3, <2>1
<1> QED
  BY <1>4 DEF UnsetAbsent, Map!Unset

LEMMA GetMap ==
    ASSUME IInv, NEW k \in Keys, Get(k)
    PROVE  Map!Get(k)
<1>1. Content' = Content
  BY IdleStep DEF Get
<1>2. k \in DOMAIN Content <=> Found(k) # {}
  BY FoundIs, ContentIs DEF Reads
<1>3. Found(k) # {} => Content[k] = val[First(Found(k))]
  BY FoundIs, ContentIs DEF Reads
<1> QED
  BY <1>1, <1>2, <1>3 DEF Get, Map!Get

LEMMA RenewMap == ASSUME Renew PROVE Map!Renew
<1>1. Used' = {}
  BY RenewStep
<1>2. Content' = Map!NoEntries
  BY <1>1 DEF Content, Entries, Map!NoEntries
<1> QED
  BY <1>2 DEF Renew, Map!Renew, Nothing, Map!Nothing

LEMMA NextMap == IInv /\ IInv' /\ [Next]_vars => [Map!Next]_<<Content, out>>
<1> SUFFICES ASSUME IInv, IInv', [Next]_vars PROVE [Map!Next]_<<Content, out>>
  OBVIOUS
<1>1. ASSUME NEW k \in Keys, NEW v \in Contents, Replace(k, v) PROVE Map!Next
  BY <1>1, ReplaceMap DEF Map!Next, Contents, Map!Contents
<1>2. ASSUME NEW k \in Keys, NEW v \in Contents, Add(k, v) PROVE Map!Next
  BY <1>2, AddMap DEF Map!Next, Contents, Map!Contents
<1>3. ASSUME NEW k \in Keys, AddRefused(k) PROVE Map!Next
  BY <1>3, AddRefusedMap DEF Map!Next
<1>4. ASSUME NEW k \in Keys, Unset(k) \/ UnsetAbsent(k) PROVE Map!Next
  BY <1>4, UnsetMap, UnsetAbsentMap DEF Map!Next
<1>5. ASSUME NEW k \in Keys, Get(k) PROVE Map!Next
  BY <1>5, GetMap DEF Map!Next
<1>6. ASSUME Renew PROVE Map!Next
  BY <1>6, RenewMap DEF Map!Next
<1>7. CASE UNCHANGED vars
  <2>1. Content' = Content
    BY <1>7, IdleStep DEF vars
  <2> QED
    BY <1>7, <2>1 DEF vars
<1> QED
  BY <1>1, <1>2, <1>3, <1>4, <1>5, <1>6, <1>7
  DEF Next, dictionary_set, dictionary_unset

\* The arrays implement the map: whatever sequence of operations, growth,
\* removals and failed allocations, each operation is the one on the map.
THEOREM Implements == Spec => MapSpec
BY InitMap, NextMap, Invariance, PTL DEF Spec, MapSpec, Map!Spec
=============================================================================
