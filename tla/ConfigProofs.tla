---------------------------- MODULE ConfigProofs ----------------------------
(***************************************************************************)
(* Proofs about how the IoT agent gets its configuration: IniLoad, which   *)
(* reads the file, and KerosInit, which fills the agent's block from it.   *)
(*                                                                         *)
(* IniLoad is for any parts of a line, any buffer, any number of lines,    *)
(* and whatever memory may not suffice for.  The argument is in two        *)
(* halves.  What a file with one line more says is what the file says with *)
(* at most one entry set (WholeNext, SectionNext, MeantNext), which is     *)
(* about the definitions of what a file says alone.  And every action of   *)
(* iniparser_load keeps its buffer, its section and its dictionary at what *)
(* the lines read say (InStep).  Meant has no recursion, so the induction  *)
(* over the file is the one over the steps.                                *)
(*                                                                         *)
(* KerosInit is for any files, whatever is in them, and any number of      *)
(* calls of iot_init.  Progress is what keros_init has done by the time it *)
(* is at each of its places; Agent is what the agent's threads may rely on *)
(* for good.                                                               *)
(***************************************************************************)
EXTENDS IniLoad, KerosInit, FiniteSetTheorems, SequenceTheorems, TLAPS

-----------------------------------------------------------------------------
(* Sets of numbers. *)

LEMMA Least == \A S \in SUBSET Nat : S # {} => \E x \in S : \A y \in S : x <= y
<1> SUFFICES ASSUME NEW S \in SUBSET Nat, S # {}
             PROVE \E x \in S : \A y \in S : x <= y
  OBVIOUS
<1> DEFINE Less == OpToRel(<, Nat)
<1>1. IsWellFoundedOn(Less, Nat)
  BY NatLessThanWellFounded
<1>2. \A x, y \in Nat : y < x => <<y, x>> \in Less
  BY DEF OpToRel
<1> HIDE DEF Less
<1>3. PICK x \in S : \A y \in S : ~ (<<y, x>> \in Less)
  BY <1>1, WFMin
<1>4. \A y \in S : ~ (y < x)
  BY <1>2, <1>3
<1> QED
  BY <1>4

\* The greatest of a bounded set is the least of its bounds.
LEMMA MaxIn ==
    ASSUME NEW S \in SUBSET Nat, NEW n \in Nat, S # {}, \A s \in S : s <= n
    PROVE  Max(S) \in S /\ \A s \in S : s <= Max(S)
<1> DEFINE B == {b \in Nat : \A s \in S : s <= b}
<1>1. PICK m \in B : \A b \in B : m <= b
  <2>1. n \in B
    OBVIOUS
  <2> QED
    BY <2>1, Least
<1>2. m \in S
  <2> SUFFICES ASSUME m \notin S PROVE FALSE
    OBVIOUS
  <2>1. \A s \in S : s < m
    OBVIOUS
  <2>2. PICK s \in S : s < m
    BY <2>1
  <2>3. m - 1 \in Nat /\ \A x \in S : x <= m - 1
    BY <2>1, <2>2
  <2>4. m - 1 \in B
    BY <2>3
  <2> QED
    BY <1>1, <2>4
<1>3. \A s \in S : m >= s
  OBVIOUS
<1> QED
  BY <1>2, <1>3 DEF Max

LEMMA MaxIs ==
    ASSUME NEW S \in SUBSET Nat, NEW m \in S, \A s \in S : s <= m
    PROVE  Max(S) = m
<1>1. S # {} /\ m \in Nat
  OBVIOUS
<1>2. Max(S) \in S /\ \A s \in S : s <= Max(S)
  BY <1>1, MaxIn
<1>3. Max(S) <= m /\ m <= Max(S) /\ Max(S) \in Nat
  BY <1>2
<1> QED
  BY <1>1, <1>3

LEMMA MinIn ==
    ASSUME NEW S \in SUBSET Nat, S # {}
    PROVE  Min(S) \in S /\ \A s \in S : Min(S) <= s
BY Least DEF Min

LEMMA MinAdd ==
    ASSUME NEW S \in SUBSET Nat, NEW a \in Nat
    PROVE  Min(S \cup {a}) =
              IF S = {} THEN a ELSE IF Min(S) <= a THEN Min(S) ELSE a
<1>1. Min(S \cup {a}) \in S \cup {a} /\ \A s \in S \cup {a} : Min(S \cup {a}) <= s
  <2>1. S \cup {a} \in SUBSET Nat /\ S \cup {a} # {}
    OBVIOUS
  <2> QED
    BY <2>1, MinIn
<1>2. CASE S = {}
  BY <1>1, <1>2
<1>3. CASE S # {}
  <2>1. Min(S) \in S /\ \A s \in S : Min(S) <= s
    BY <1>3, MinIn
  <2>2. /\ Min(S \cup {a}) <= Min(S) /\ Min(S \cup {a}) <= a
        /\ Min(S \cup {a}) = a \/ Min(S) <= Min(S \cup {a})
        /\ Min(S) \in Nat /\ Min(S \cup {a}) \in Nat
    BY <1>1, <2>1
  <2>3. CASE Min(S) <= a
    <3>1. Min(S \cup {a}) = Min(S)
      BY <2>2, <2>3
    <3> QED
      BY <1>3, <2>3, <3>1
  <2>4. CASE ~ (Min(S) <= a)
    <3>1. Min(S \cup {a}) = a
      BY <2>2, <2>4
    <3> QED
      BY <1>3, <2>4, <3>1
  <2> QED
    BY <2>3, <2>4
<1> QED
  BY <1>2, <1>3

-----------------------------------------------------------------------------
(* The i-th of a finite set of positions. *)

UpTo(S, h) == {g \in S : g <= h}

LEMMA UpToFinite ==
    ASSUME NEW S, IsFiniteSet(S), NEW h
    PROVE  IsFiniteSet(UpTo(S, h)) /\ Cardinality(UpTo(S, h)) \in Nat
BY FS_Subset, FS_CardinalityType DEF UpTo

LEMMA UpToLess ==
    ASSUME NEW S \in SUBSET Nat, IsFiniteSet(S), NEW g \in S, NEW h \in S, g < h
    PROVE  Cardinality(UpTo(S, g)) < Cardinality(UpTo(S, h))
<1>1. /\ IsFiniteSet(UpTo(S, g)) /\ Cardinality(UpTo(S, g)) \in Nat
      /\ IsFiniteSet(UpTo(S, h)) /\ Cardinality(UpTo(S, h)) \in Nat
  BY UpToFinite
<1>2. h <= h /\ ~ (h <= g) /\ \A x \in S : x <= g => x <= h
  OBVIOUS
<1>3. UpTo(S, g) \subseteq UpTo(S, h) /\ h \in UpTo(S, h) /\ h \notin UpTo(S, g)
  BY <1>2 DEF UpTo
<1>4. /\ Cardinality(UpTo(S, g)) <= Cardinality(UpTo(S, h))
      /\ Cardinality(UpTo(S, g)) # Cardinality(UpTo(S, h))
  BY <1>1, <1>3, FS_Subset
<1> QED
  BY <1>1, <1>4

LEMMA NthIs ==
    ASSUME NEW S \in SUBSET Nat, IsFiniteSet(S), NEW h \in S
    PROVE  Nth(S, Cardinality(UpTo(S, h))) = h
<1> DEFINE i == Cardinality(UpTo(S, h))
<1>1. \A g \in S : Cardinality(UpTo(S, g)) = i => g = h
  <2> TAKE g \in S
  <2>1. g < h => Cardinality(UpTo(S, g)) < i
    BY UpToLess
  <2>2. h < g => i < Cardinality(UpTo(S, g))
    BY UpToLess
  <2>3. i \in Nat /\ Cardinality(UpTo(S, g)) \in Nat
    BY UpToFinite
  <2> QED
    BY <2>1, <2>2, <2>3
<1>2. Nth(S, i) = CHOOSE g \in S : Cardinality(UpTo(S, g)) = i
  BY DEF Nth, UpTo
<1> HIDE DEF i
<1> QED
  BY <1>1, <1>2 DEF i

LEMMA NthIn ==
    ASSUME NEW S \in SUBSET Nat, NEW n \in Nat, \A s \in S : s <= n,
           NEW i \in 1 .. Cardinality(S)
    PROVE  Nth(S, i) \in S /\ Cardinality(UpTo(S, Nth(S, i))) = i
<1> DEFINE Count(h) == Cardinality(UpTo(S, h))
           C == {c \in Nat : c >= i /\ \E h \in S : Count(h) = c}
<1>0. IsFiniteSet(S)
  BY FS_BoundedSetOfNaturals
<1>1. Cardinality(S) \in Nat /\ \A h : Count(h) \in Nat
  BY <1>0, UpToFinite, FS_CardinalityType
<1>2. C # {}
  <2>1. Max(S) \in S /\ \A s \in S : s <= Max(S)
    <3>1. S # {}
      BY <1>0, <1>1, FS_EmptySet
    <3> QED
      BY <3>1, MaxIn
  <2>2. UpTo(S, Max(S)) = S
    BY <2>1 DEF UpTo
  <2>3. 1 <= Cardinality(S) /\ Cardinality(S) >= i
    BY <1>1
  <2>4. Cardinality(S) \in C
    BY <1>1, <2>1, <2>2, <2>3
  <2> QED
    BY <2>4
<1>3. PICK c \in C : \A d \in C : c <= d
  BY <1>2, Least
<1>4. PICK h \in S : Count(h) = c
  OBVIOUS
<1>5. c = i
  <2> SUFFICES ASSUME c > i PROVE FALSE
    OBVIOUS
  <2> DEFINE T == UpTo(S, h) \ {h}
  <2>0. IsFiniteSet(UpTo(S, h)) /\ h \in UpTo(S, h)
    BY <1>0, UpToFinite DEF UpTo
  <2>1. IsFiniteSet(T) /\ Cardinality(T) = c - 1
    BY <1>4, <2>0, FS_RemoveElement
  <2>2. T # {}
    BY <2>1, FS_EmptySet
  <2>3. T \in SUBSET Nat /\ \A s \in T : s <= h
    BY DEF UpTo
  <2>4. Max(T) \in T /\ \A s \in T : s <= Max(T)
    BY <2>2, <2>3, MaxIn
  <2>5. \A s \in S : s <= Max(T) <=> s <= h /\ s # h
    <3>1. Max(T) \in S /\ Max(T) <= h /\ Max(T) # h
      <4>1. /\ Max(T) \in UpTo(S, h) /\ Max(T) # h
        BY <2>4
      <4> QED
        BY <4>1 DEF UpTo
    <3>2. \A s \in S : s <= h /\ s # h => s <= Max(T)
      BY <2>4 DEF UpTo
    <3>3. \A s \in S : s <= Max(T) => s <= h /\ s # h
      <4> TAKE s \in S
      <4>1. s \in Nat /\ h \in Nat /\ Max(T) \in Nat
        BY <3>1
      <4> HIDE DEF T
      <4> QED
        BY <3>1, <4>1
    <3> QED
      BY <3>2, <3>3
  <2>6. UpTo(S, Max(T)) = T /\ Max(T) \in S
    BY <2>4, <2>5 DEF UpTo
  <2>7. c - 1 \in C
    <3>1. c - 1 \in Nat /\ c - 1 >= i
      BY <1>1
    <3> QED
      BY <2>1, <2>6, <3>1
  <2> QED
    BY <1>3, <2>7
<1> QED
  BY <1>0, <1>4, <1>5, NthIs

LEMMA NthAdd ==
    ASSUME NEW S \in SUBSET Nat, NEW n \in Nat, \A s \in S : s < n
    PROVE  /\ Cardinality(S \cup {n}) = Cardinality(S) + 1
           /\ \A i \in 1 .. Cardinality(S) : Nth(S \cup {n}, i) = Nth(S, i)
           /\ Nth(S \cup {n}, Cardinality(S) + 1) = n
<1> DEFINE T == S \cup {n}
<1>0. IsFiniteSet(S) /\ n \notin S
  BY FS_BoundedSetOfNaturals
<1>1. T \in SUBSET Nat /\ IsFiniteSet(T)
  BY <1>0, FS_AddElement
<1>2. Cardinality(T) = Cardinality(S) + 1
  BY <1>0, FS_AddElement
<1>3. ASSUME NEW i \in 1 .. Cardinality(S) PROVE Nth(T, i) = Nth(S, i)
  <2>1. Nth(S, i) \in S /\ Cardinality(UpTo(S, Nth(S, i))) = i
    BY NthIn
  <2>2. UpTo(T, Nth(S, i)) = UpTo(S, Nth(S, i))
    <3>1. \A s \in S : ~ (n <= s)
      OBVIOUS
    <3> QED
      BY <2>1, <3>1 DEF UpTo
  <2>3. Nth(T, Cardinality(UpTo(T, Nth(S, i)))) = Nth(S, i)
    BY <1>1, <2>1, NthIs
  <2> QED
    BY <2>1, <2>2, <2>3
<1>4. Nth(T, Cardinality(S) + 1) = n
  <2>1. UpTo(T, n) = T
    <3>1. \A s \in T : s <= n
      OBVIOUS
    <3> QED
      BY <3>1 DEF UpTo
  <2>2. Nth(T, Cardinality(UpTo(T, n))) = n
    BY <1>1, NthIs
  <2> QED
    BY <1>2, <2>1, <2>2
<1> QED
  BY <1>2, <1>3, <1>4
-----------------------------------------------------------------------------
(* Of a file read so far, and of the file with one line more. *)

LEMMA BeginIn ==
    ASSUME NEW f \in Seq(Lines), NEW j \in 1 .. Len(f)
    PROVE  Begin(f, j) \in 1 .. j
<1> DEFINE S == {0} \cup {h \in Ends(f) : h < j}
<1>1. S \in SUBSET Nat /\ S # {}
  BY DEF Ends
<1>2. j - 1 \in Nat /\ \A s \in S : s <= j - 1
  BY DEF Ends
<1>3. Max(S) \in S
  BY <1>1, <1>2, MaxIn
<1>4. Max(S) \in Nat /\ Max(S) <= j - 1
  BY <1>1, <1>2, <1>3
<1> QED
  BY <1>4 DEF Begin

LEMMA HeldIn ==
    ASSUME NEW f \in Seq(Lines), NEW j \in 1 .. Len(f)
    PROVE  /\ Held(f, j) \in SUBSET Nat /\ Held(f, j) \subseteq 1 .. Len(f)
           /\ \A h \in Held(f, j) : h <= j
           /\ IsFiniteSet(Held(f, j)) /\ Cardinality(Held(f, j)) \in Nat
<1>1. /\ Held(f, j) \in SUBSET Nat /\ Held(f, j) \subseteq 1 .. Len(f)
      /\ \A h \in Held(f, j) : h <= j
  BY BeginIn DEF Held
<1>2. IsFiniteSet(Held(f, j))
  <2>1. j \in Nat
    OBVIOUS
  <2> QED
    BY <1>1, <2>1, FS_BoundedSetOfNaturals
<1> QED
  BY <1>1, <1>2, FS_CardinalityType

LEMMA HeldNth ==
    ASSUME NEW f \in Seq(Lines), NEW j \in 1 .. Len(f),
           NEW i \in 1 .. Cardinality(Held(f, j))
    PROVE  Nth(Held(f, j), i) \in Held(f, j) /\ Nth(Held(f, j), i) \in 1 .. Len(f)
<1>1. j \in Nat
  OBVIOUS
<1>2. /\ Held(f, j) \in SUBSET Nat /\ Held(f, j) \subseteq 1 .. Len(f)
      /\ \A h \in Held(f, j) : h <= j
  BY HeldIn
<1>3. Nth(Held(f, j), i) \in Held(f, j)
  BY <1>1, <1>2, NthIn
<1> QED
  BY <1>2, <1>3

LEMMA WholeType ==
    ASSUME NEW f \in Seq(Lines), NEW j \in 1 .. Len(f)
    PROVE  WholeLine(f, j) \in Seq(Parts) /\ Len(WholeLine(f, j)) = Cardinality(Held(f, j))
<1> DEFINE n == Cardinality(Held(f, j))
<1>1. n \in Nat
  BY HeldIn
<1>2. ASSUME NEW i \in 1 .. n PROVE f[Nth(Held(f, j), i)].part \in Parts
  <2>1. Nth(Held(f, j), i) \in 1 .. Len(f)
    BY HeldNth
  <2>2. f[Nth(Held(f, j), i)] \in Lines
    BY <2>1, ElementOfSeq
  <2> QED
    BY <2>2 DEF Lines
<1>3. WholeLine(f, j) \in [1 .. n -> Parts]
  BY <1>2 DEF WholeLine
<1> HIDE DEF n
<1> QED
  BY <1>1, <1>3, LenProperties, IsASeq DEF n

\* What was read does not change by what comes.
LEMMA SameBefore ==
    ASSUME NEW f \in Seq(Lines), NEW l \in Lines, NEW j \in 1 .. Len(f)
    PROVE  /\ Begin(Append(f, l), j) = Begin(f, j)
           /\ Held(Append(f, l), j) = Held(f, j)
           /\ WholeLine(Append(f, l), j) = WholeLine(f, j)
<1> DEFINE F == Append(f, l)
<1>1. /\ F \in Seq(Lines) /\ Len(F) = Len(f) + 1
      /\ \A i \in 1 .. Len(f) : F[i] = f[i]
  BY AppendProperties
<1>2. {h \in Ends(F) : h < j} = {h \in Ends(f) : h < j}
  BY <1>1 DEF Ends
<1> HIDE DEF F
<1>3. Begin(F, j) = Begin(f, j)
  BY <1>2 DEF Begin
<1>4. Begin(f, j) \in 1 .. j
  BY BeginIn
<1>5. Held(F, j) = Held(f, j)
  BY <1>1, <1>3, <1>4 DEF Held
<1>6. \A i \in 1 .. Cardinality(Held(f, j)) : Nth(Held(f, j), i) \in 1 .. Len(f)
  BY HeldNth
<1>7. WholeLine(F, j) = WholeLine(f, j)
  BY <1>1, <1>5, <1>6 DEF WholeLine
<1> QED
  BY <1>3, <1>5, <1>7 DEF F

LEMMA EndsAppend ==
    ASSUME NEW f \in Seq(Lines), NEW l \in Lines
    PROVE  Ends(Append(f, l)) = Ends(f) \cup (IF l.cont THEN {} ELSE {Len(f) + 1})
<1>1. /\ Len(Append(f, l)) = Len(f) + 1
      /\ \A i \in 1 .. Len(f) : Append(f, l)[i] = f[i]
      /\ Append(f, l)[Len(f) + 1] = l
  BY AppendProperties
<1>2. 1 .. Len(f) + 1 = 1 .. Len(f) \cup {Len(f) + 1}
  OBVIOUS
<1> QED
  BY <1>1, <1>2 DEF Ends

\* What the buffer holds when f has been read.
Buffered(f) == IF f # <<>> /\ f[Len(f)].cont THEN WholeLine(f, Len(f)) ELSE <<>>

\* The line that is being read begins where the last one ended.
LEMMA BeginNext ==
    ASSUME NEW f \in Seq(Lines), NEW l \in Lines
    PROVE  Begin(Append(f, l), Len(f) + 1) =
              IF f # <<>> /\ f[Len(f)].cont THEN Begin(f, Len(f)) ELSE Len(f) + 1
<1> DEFINE n == Len(f)
           S == {h \in Ends(Append(f, l)) : h < n + 1}
<1>0. n \in Nat /\ (f = <<>> <=> n = 0)
  OBVIOUS
<1>1. S = Ends(f)
  BY EndsAppend DEF Ends
<1>2. CASE f # <<>> /\ f[n].cont
  <2>1. Ends(f) = {h \in Ends(f) : h < n}
    <3>1. n \notin Ends(f)
      BY <1>2 DEF Ends
    <3> QED
      BY <3>1 DEF Ends
  <2> QED
    BY <1>1, <1>2, <2>1 DEF Begin
<1>3. CASE ~ (f # <<>> /\ f[n].cont)
  <2>1. n \in {0} \cup Ends(f)
    BY <1>0, <1>3 DEF Ends
  <2>2. {0} \cup Ends(f) \in SUBSET Nat /\ \A s \in {0} \cup Ends(f) : s <= n
    BY <1>0 DEF Ends
  <2>3. Max({0} \cup Ends(f)) = n
    BY <2>1, <2>2, MaxIs
  <2>4. Begin(Append(f, l), n + 1) = 1 + Max({0} \cup Ends(f))
    BY <1>1 DEF Begin
  <2> QED
    BY <1>3, <2>3, <2>4
<1> QED
  BY <1>2, <1>3

LEMMA HeldNext ==
    ASSUME NEW f \in Seq(Lines), NEW l \in Lines
    PROVE  Held(Append(f, l), Len(f) + 1) =
              (IF f # <<>> /\ f[Len(f)].cont THEN Held(f, Len(f)) ELSE {})
                \cup (IF l.part.is = "blank" THEN {} ELSE {Len(f) + 1})
<1> DEFINE n == Len(f)
           F == Append(f, l)
<1>1. /\ F \in Seq(Lines) /\ n \in Nat
      /\ \A i \in 1 .. n : F[i] = f[i]
      /\ F[n + 1] = l
  BY AppendProperties
<1>2. f # <<>> => n \in 1 .. n
  BY <1>1
<1>3. f # <<>> => Begin(f, n) \in 1 .. n
  BY <1>2, BeginIn
<1> HIDE DEF F
<1>4. CASE f # <<>> /\ f[n].cont
  <2>1. Begin(F, n + 1) = Begin(f, n)
    BY <1>4, BeginNext DEF F
  <2>2. Begin(f, n) .. n + 1 = (Begin(f, n) .. n) \cup {n + 1}
    BY <1>1, <1>3, <1>4
  <2>3. \A h \in Begin(f, n) .. n : F[h] = f[h]
    BY <1>1, <1>3, <1>4
  <2>4. Held(F, n + 1) = {h \in (Begin(f, n) .. n) \cup {n + 1} : F[h].part.is # "blank"}
    BY <2>1, <2>2 DEF Held
  <2>5. Held(F, n + 1) = Held(f, n) \cup (IF l.part.is = "blank" THEN {} ELSE {n + 1})
    BY <1>1, <2>3, <2>4 DEF Held
  <2> QED
    BY <1>4, <2>5 DEF F
<1>5. CASE ~ (f # <<>> /\ f[n].cont)
  <2>1. Begin(F, n + 1) = n + 1
    BY <1>5, BeginNext DEF F
  <2>2. n + 1 .. n + 1 = {n + 1}
    BY <1>1
  <2> QED
    BY <1>1, <1>5, <2>1, <2>2 DEF Held, F
<1> QED
  BY <1>4, <1>5

\* What is read of a line is what the buffer held, and its part behind it.
LEMMA WholeNext ==
    ASSUME NEW f \in Seq(Lines), NEW l \in Lines
    PROVE  WholeLine(Append(f, l), Len(f) + 1) =
              IF l.part.is = "blank" THEN Buffered(f) ELSE Append(Buffered(f), l.part)
<1> DEFINE n == Len(f)
           F == Append(f, l)
           S == IF f # <<>> /\ f[n].cont THEN Held(f, n) ELSE {}
           c == Cardinality(S)
           w == WholeLine(F, n + 1)
<1>1. /\ F \in Seq(Lines) /\ n \in Nat /\ Len(F) = n + 1
      /\ \A i \in 1 .. n : F[i] = f[i]
      /\ F[n + 1] = l
      /\ n + 1 \in 1 .. Len(F)
  BY AppendProperties
<1>2. f # <<>> => n \in 1 .. n
  BY <1>1
<1>3. S \in SUBSET Nat /\ S \subseteq 1 .. n /\ \A s \in S : s < n + 1
  <2>1. f # <<>> => Held(f, n) \in SUBSET Nat /\ Held(f, n) \subseteq 1 .. n
    BY <1>2, HeldIn
  <2>2. S \in SUBSET Nat /\ S \subseteq 1 .. n
    BY <2>1
  <2> HIDE DEF S
  <2> QED
    BY <1>1, <2>2
<1>4. c \in Nat /\ \A i \in 1 .. c : Nth(S, i) \in 1 .. n
  <2>1. CASE f # <<>> /\ f[n].cont
    <3>1. S = Held(f, n)
      BY <2>1
    <3> QED
      BY <1>2, <2>1, <3>1, HeldIn, HeldNth
  <2>2. CASE ~ (f # <<>> /\ f[n].cont)
    <3>1. S = {} /\ c = 0
      BY <2>2, FS_EmptySet
    <3> QED
      BY <3>1
  <2> QED
    BY <2>1, <2>2
<1>5. Buffered(f) \in Seq(Parts) /\ Buffered(f) = [i \in 1 .. c |-> f[Nth(S, i)].part]
  <2>1. CASE f # <<>> /\ f[n].cont
    BY <1>2, <2>1, WholeType DEF Buffered, WholeLine
  <2>2. CASE ~ (f # <<>> /\ f[n].cont)
    <3>1. c = 0 /\ Buffered(f) = <<>>
      BY <2>2, FS_EmptySet DEF Buffered
    <3>2. [i \in 1 .. 0 |-> f[Nth(S, i)].part] = <<>>
      OBVIOUS
    <3> QED
      BY <3>1, <3>2
  <2> QED
    BY <2>1, <2>2
<1>6. Held(F, n + 1) = S \cup (IF l.part.is = "blank" THEN {} ELSE {n + 1})
  BY HeldNext
<1> HIDE DEF S, F
<1>7. CASE l.part.is = "blank"
  <2>1. Held(F, n + 1) = S
    BY <1>6, <1>7
  <2>2. w = [i \in 1 .. c |-> F[Nth(S, i)].part]
    BY <2>1 DEF WholeLine
  <2>3. w = [i \in 1 .. c |-> f[Nth(S, i)].part]
    BY <1>1, <1>4, <2>2
  <2> QED
    BY <1>5, <1>7, <2>3 DEF F
<1>8. CASE l.part.is # "blank"
  <2> DEFINE T == S \cup {n + 1}
  <2>1. Held(F, n + 1) = T
    BY <1>6, <1>8
  <2>2. /\ Cardinality(T) = c + 1
        /\ \A i \in 1 .. c : Nth(T, i) = Nth(S, i)
        /\ Nth(T, c + 1) = n + 1
    <3>1. n + 1 \in Nat
      BY <1>1
    <3> QED
      BY <1>3, <3>1, NthAdd
  <2> HIDE DEF T
  <2>3. w = [i \in 1 .. c + 1 |-> F[Nth(T, i)].part]
    BY <2>1, <2>2 DEF WholeLine
  <2>4. w \in Seq(Parts) /\ Len(w) = c + 1
    BY <1>1, <2>1, <2>2, WholeType
  <2>5. \A i \in 1 .. c : w[i] = Buffered(f)[i]
    <3> TAKE i \in 1 .. c
    <3>1. i \in 1 .. c + 1 /\ Nth(S, i) \in 1 .. n
      BY <1>4
    <3>2. w[i] = F[Nth(S, i)].part
      BY <2>2, <2>3, <3>1
    <3> QED
      BY <1>1, <1>5, <3>1, <3>2
  <2>6. w[c + 1] = l.part
    <3>1. c + 1 \in 1 .. c + 1
      BY <1>4
    <3> QED
      BY <1>1, <2>2, <2>3, <3>1
  <2>7. l.part \in Parts /\ Len(Buffered(f)) = c
    BY <1>4, <1>5 DEF Lines
  <2>8. w = Append(Buffered(f), l.part)
    <3> DEFINE a == Append(Buffered(f), l.part)
    <3>1. /\ a \in Seq(Parts) /\ Len(a) = Len(Buffered(f)) + 1
          /\ \A i \in 1 .. Len(Buffered(f)) : a[i] = Buffered(f)[i]
          /\ a[Len(Buffered(f)) + 1] = l.part
      <4>1. Buffered(f) \in Seq(Parts)
        BY <1>5
      <4> QED
        BY <2>7, <4>1, AppendProperties
    <3>2. 1 .. c + 1 = 1 .. c \cup {c + 1}
      BY <1>4
    <3> HIDE DEF a, w
    <3>3. \A i \in 1 .. Len(a) : w[i] = a[i]
      BY <2>5, <2>6, <2>7, <3>1, <3>2
    <3>4. w = a
      BY <2>4, <2>7, <3>1, <3>3, SeqEqual
    <3> QED
      BY <3>4 DEF a
  <2> QED
    BY <1>8, <2>8 DEF F
<1> QED
  BY <1>7, <1>8

LEMMA LastNamedIn ==
    ASSUME NEW f, NEW j \in Nat, \A h \in Ends(f) : h \in Nat
    PROVE  /\ LastNamed(f, j) \in 0 .. j
           /\ Names(f, j) # {} => LastNamed(f, j) \in Names(f, j)
<1> DEFINE S == {0} \cup Names(f, j)
<1>1. S \in SUBSET Nat /\ S # {} /\ \A s \in S : s <= j
  BY DEF Names, Headers
<1>2. Max(S) \in S /\ \A s \in S : s <= Max(S)
  BY <1>1, MaxIn
<1>3. Names(f, j) # {} => Max(S) \in Names(f, j)
  <2> SUFFICES ASSUME Names(f, j) # {}, Max(S) = 0, 0 \notin Names(f, j) PROVE FALSE
    BY <1>2
  <2>1. PICK s \in Names(f, j) : TRUE
    OBVIOUS
  <2> QED
    BY <1>1, <1>2, <2>1
<1> QED
  BY <1>1, <1>2, <1>3 DEF LastNamed

\* The section a line is in does not change by what comes.
LEMMA SectionBefore ==
    ASSUME NEW f \in Seq(Lines), NEW l \in Lines, NEW j \in 0 .. Len(f)
    PROVE  /\ Headers(Append(f, l), j) = Headers(f, j)
           /\ SectionOf(Append(f, l), j) = SectionOf(f, j)
<1> DEFINE F == Append(f, l)
<1>1. \A h \in 1 .. Len(f) : WholeLine(F, h) = WholeLine(f, h)
  BY SameBefore
<1>2. \A h \in Nat : h <= j => (h \in Ends(F) <=> h \in Ends(f))
  BY EndsAppend
<1>3. Ends(f) \subseteq 1 .. Len(f) /\ \A h \in Ends(F) : h \in Nat
  BY EndsAppend DEF Ends
<1> HIDE DEF F
<1>4. Headers(F, j) = Headers(f, j) /\ Headers(f, j) \subseteq 1 .. Len(f)
  BY <1>1, <1>2, <1>3 DEF Headers
<1>5. Names(F, j) = Names(f, j) /\ Names(f, j) \subseteq 1 .. Len(f)
  BY <1>1, <1>4 DEF Names
<1>6. LastNamed(F, j) = LastNamed(f, j)
  BY <1>5 DEF LastNamed
<1>7. NameOf(F, j) = NameOf(f, j)
  <2>1. Names(f, j) # {} => LastNamed(f, j) \in 1 .. Len(f)
    BY <1>3, <1>5, LastNamedIn
  <2> QED
    BY <1>1, <1>5, <1>6, <2>1 DEF NameOf
<1>8. CutsOf(F, j) = CutsOf(f, j)
  BY <1>1, <1>4, <1>6 DEF CutsOf
<1> QED
  BY <1>4, <1>7, <1>8 DEF SectionOf, F

LEMMA HeadersNext ==
    ASSUME NEW f \in Seq(Lines), NEW l \in Lines
    PROVE  LET n == Len(f)
               F == Append(f, l)
               w == WholeLine(F, n + 1)
           IN  /\ Headers(F, n + 1) =
                    Headers(f, n) \cup (IF ~l.cont /\ IsHeader(w) THEN {n + 1} ELSE {})
               /\ Names(F, n + 1) =
                    Names(f, n) \cup (IF ~l.cont /\ IsHeader(w) /\ Head(w).is = "section"
                                      THEN {n + 1} ELSE {})
               /\ Headers(f, n) \subseteq 1 .. n
<1> DEFINE n == Len(f)
           F == Append(f, l)
           w == WholeLine(F, n + 1)
<1>1. n \in Nat
  OBVIOUS
<1>2. \A h \in 1 .. n : WholeLine(F, h) = WholeLine(f, h)
  BY SameBefore
<1>3. Ends(F) = Ends(f) \cup (IF l.cont THEN {} ELSE {n + 1})
  BY EndsAppend
<1>4. Ends(f) \subseteq 1 .. n
  BY DEF Ends
<1> HIDE DEF F
<1>5. /\ \A h \in Ends(f) : h <= n /\ h <= n + 1
      /\ n + 1 <= n + 1
  BY <1>1, <1>4
<1>6. Headers(F, n + 1) = Headers(f, n) \cup (IF ~l.cont /\ IsHeader(w) THEN {n + 1} ELSE {})
  BY <1>2, <1>3, <1>4, <1>5 DEF Headers
<1>7. Headers(f, n) \subseteq 1 .. n
  BY <1>4 DEF Headers
<1>8. Names(F, n + 1) =
        Names(f, n) \cup (IF ~l.cont /\ IsHeader(w) /\ Head(w).is = "section"
                          THEN {n + 1} ELSE {})
  BY <1>2, <1>6, <1>7 DEF Names
<1> QED
  BY <1>6, <1>7, <1>8 DEF F

\* Of a line that fits, as many parts are read as a name may be cut to.
LEMMA HeaderLen ==
    ASSUME NEW f \in Seq(Lines), NEW h \in Headers(f, Len(f)), ~Overlong(f)
    PROVE  /\ h \in 1 .. Len(f) /\ Len(WholeLine(f, h)) \in 1 .. Width
           /\ Head(WholeLine(f, h)) \in Parts
<1>1. h \in 1 .. Len(f) /\ IsHeader(WholeLine(f, h))
  BY DEF Headers, Ends
<1>2. WholeLine(f, h) \in Seq(Parts) /\ WholeLine(f, h) # <<>>
  BY <1>1, WholeType DEF IsHeader
<1>3. ~ (Len(WholeLine(f, h)) > Width)
  BY <1>1 DEF Overlong
<1>4. Len(WholeLine(f, h)) \in Nat /\ Len(WholeLine(f, h)) # 0
  BY <1>2
<1>5. Len(WholeLine(f, h)) \in 1 .. Width
  BY <1>3, <1>4, WidthAssumption
<1> QED
  BY <1>1, <1>2, <1>5, HeadTailProperties

LEMMA NameOfIn ==
    ASSUME NEW f \in Seq(Lines), ~Overlong(f)
    PROVE  NameOf(f, Len(f)) \in SectionNames
<1>1. CASE Names(f, Len(f)) = {}
  BY <1>1 DEF NameOf, SectionNames
<1>2. CASE Names(f, Len(f)) # {}
  <2> DEFINE h == LastNamed(f, Len(f))
  <2>1. h \in Names(f, Len(f))
    BY <1>2, LastNamedIn DEF Ends
  <2>2. Head(WholeLine(f, h)) \in Parts /\ Head(WholeLine(f, h)).is = "section"
    BY <2>1, HeaderLen DEF Names
  <2> QED
    BY <1>2, <2>2 DEF NameOf, SectionNames
<1> QED
  BY <1>1, <1>2

\* The section buffer is what the file says: a header with a name sets it, and
\* one without cuts what is there.
LEMMA SectionNext ==
    ASSUME NEW f \in Seq(Lines), NEW l \in Lines, ~Overlong(f), ~Overlong(Append(f, l))
    PROVE  LET n == Len(f)
               w == WholeLine(Append(f, l), n + 1)
           IN  SectionOf(Append(f, l), n + 1) =
                  IF ~l.cont /\ IsHeader(w) THEN Named(w, SectionOf(f, n))
                  ELSE SectionOf(f, n)
<1> DEFINE n == Len(f)
           F == Append(f, l)
           w == WholeLine(F, n + 1)
           isHeader == ~l.cont /\ IsHeader(w)
           isNamed  == isHeader /\ Head(w).is = "section"
<1>1. n \in Nat /\ F \in Seq(Lines) /\ Len(F) = n + 1
  BY AppendProperties
<1>2. /\ Headers(F, n + 1) = Headers(f, n) \cup (IF isHeader THEN {n + 1} ELSE {})
      /\ Names(F, n + 1) = Names(f, n) \cup (IF isNamed THEN {n + 1} ELSE {})
      /\ Headers(f, n) \subseteq 1 .. n
  BY HeadersNext
<1>3. \A h \in 1 .. n : WholeLine(F, h) = WholeLine(f, h)
  BY SameBefore
<1>4. /\ LastNamed(f, n) \in 0 .. n
      /\ Names(f, n) # {} => LastNamed(f, n) \in Names(f, n)
  BY <1>1, LastNamedIn DEF Ends
<1>5. Names(f, n) \subseteq 1 .. n
  BY <1>2 DEF Names
<1>6. isHeader => Len(w) \in 1 .. Width
  <2>1. isHeader => n + 1 \in Headers(F, n + 1)
    BY <1>2
  <2> QED
    BY <1>1, <2>1, HeaderLen
<1> HIDE DEF F, w
<1>7. ASSUME ~isNamed
      PROVE  /\ LastNamed(F, n + 1) = LastNamed(f, n)
             /\ NameOf(F, n + 1) = NameOf(f, n)
  <2>1. Names(F, n + 1) = Names(f, n)
    BY <1>2, <1>7
  <2>2. LastNamed(F, n + 1) = LastNamed(f, n)
    BY <2>1 DEF LastNamed
  <2> QED
    BY <1>3, <1>4, <1>5, <2>1, <2>2 DEF NameOf
<1>8. CASE ~isHeader
  <2>1. CutsOf(F, n + 1) = CutsOf(f, n)
    BY <1>2, <1>3, <1>7, <1>8 DEF CutsOf
  <2> QED
    BY <1>7, <1>8, <2>1 DEF SectionOf, F, w
<1>9. CASE isNamed
  <2>1. Names(F, n + 1) = Names(f, n) \cup {n + 1}
    BY <1>2, <1>9
  <2>2. LastNamed(F, n + 1) = n + 1
    <3> DEFINE S == {0} \cup Names(f, n) \cup {n + 1}
    <3>1. S \in SUBSET Nat /\ n + 1 \in S /\ \A s \in S : s <= n + 1
      BY <1>1, <1>5
    <3>2. Max(S) = n + 1
      BY <3>1, MaxIs
    <3>3. S = {0} \cup Names(F, n + 1)
      BY <2>1
    <3> HIDE DEF S
    <3> QED
      BY <3>2, <3>3 DEF LastNamed
  <2>3. NameOf(F, n + 1) = Head(w).name
    BY <2>1, <2>2 DEF NameOf, w
  <2>4. CutsOf(F, n + 1) = {}
    <3>1. \A g \in Headers(F, n + 1) : ~ (g > n + 1)
      BY <1>1, <1>2
    <3> QED
      BY <2>2, <3>1 DEF CutsOf
  <2> QED
    BY <1>9, <2>3, <2>4 DEF SectionOf, Named, F, w
<1>10. CASE isHeader /\ ~isNamed
  <2> DEFINE C == CutsOf(f, n)
  <2>1. CutsOf(F, n + 1) = C \cup {Len(w)}
    <3>1. Headers(F, n + 1) = Headers(f, n) \cup {n + 1} /\ n + 1 > LastNamed(f, n)
      BY <1>1, <1>2, <1>4, <1>10
    <3>2. {g \in Headers(F, n + 1) : g > LastNamed(f, n)} =
            {g \in Headers(f, n) : g > LastNamed(f, n)} \cup {n + 1}
      BY <3>1
    <3>3. \A g \in Headers(f, n) : WholeLine(F, g) = WholeLine(f, g)
      BY <1>2, <1>3
    <3> QED
      BY <1>7, <1>10, <3>2, <3>3 DEF CutsOf, w
  <2>2. C \subseteq 1 .. Width
    BY HeaderLen DEF CutsOf
  <2>3. NameOf(f, n) \in SectionNames
    BY NameOfIn
  <2>4. Min(C \cup {Len(w)}) = IF C = {} THEN Len(w)
                               ELSE IF Min(C) <= Len(w) THEN Min(C) ELSE Len(w)
    <3>1. C \in SUBSET Nat /\ Len(w) \in Nat
      BY <1>6, <1>10, <2>2
    <3> HIDE DEF C
    <3> QED
      BY <3>1, MinAdd
  <2>5. C # {} => Min(C) \in 1 .. Width
    <3>1. C \in SUBSET Nat
      BY <2>2
    <3> HIDE DEF C
    <3> QED
      BY <2>2, <3>1, MinIn
  <2>6. SectionOf(F, n + 1) = Cut(NameOf(f, n), Min(C \cup {Len(w)}))
    BY <1>7, <1>10, <2>1 DEF SectionOf
  <2>7. SectionOf(f, n) = IF C = {} THEN NameOf(f, n) ELSE Cut(NameOf(f, n), Min(C))
    BY DEF SectionOf
  <2>8. Named(w, SectionOf(f, n)) = Cut(SectionOf(f, n), Len(w))
    BY <1>10 DEF Named
  <2> HIDE DEF C
  <2>9. C # {} => Cut(Cut(NameOf(f, n), Min(C)), Len(w)) =
                    Cut(NameOf(f, n), IF Min(C) <= Len(w) THEN Min(C) ELSE Len(w))
    BY <1>6, <1>10, <2>3, <2>5, CutAssumption
  <2>10. SectionOf(F, n + 1) = Named(w, SectionOf(f, n))
    BY <2>4, <2>6, <2>7, <2>8, <2>9
  <2> QED
    BY <1>10, <2>10 DEF F, w
<1> QED
  BY <1>8, <1>9, <1>10

LEMMA EntryBefore ==
    ASSUME NEW f \in Seq(Lines), NEW l \in Lines, NEW j \in 1 .. Len(f)
    PROVE  /\ EntryOf(Append(f, l), j) = EntryOf(f, j)
           /\ ContentOf(Append(f, l), j) = ContentOf(f, j)
<1>1. /\ Headers(Append(f, l), j) = Headers(f, j)
      /\ SectionOf(Append(f, l), j) = SectionOf(f, j)
  BY SectionBefore
<1>2. WholeLine(Append(f, l), j) = WholeLine(f, j)
  BY SameBefore
<1> QED
  BY <1>1, <1>2 DEF EntryOf, ContentOf

LEMMA SetsNext ==
    ASSUME NEW f \in Seq(Lines), NEW l \in Lines
    PROVE  LET n == Len(f)
               w == WholeLine(Append(f, l), n + 1)
           IN  /\ Sets(Append(f, l)) =
                    Sets(f) \cup (IF ~l.cont /\ (IsHeader(w) \/ IsValue(w))
                                  THEN {n + 1} ELSE {})
               /\ Sets(f) \subseteq 1 .. n
<1>1. \A h \in 1 .. Len(f) : WholeLine(Append(f, l), h) = WholeLine(f, h)
  BY SameBefore
<1>2. Ends(Append(f, l)) = Ends(f) \cup (IF l.cont THEN {} ELSE {Len(f) + 1})
  BY EndsAppend
<1>3. Ends(f) \subseteq 1 .. Len(f)
  BY DEF Ends
<1> QED
  BY <1>1, <1>2, <1>3 DEF Sets

\* A line that sets nothing leaves what the file says, and one that sets an
\* entry counts more than those before.
LEMMA MeantSame ==
    ASSUME NEW f \in Seq(Lines), NEW l \in Lines, Sets(Append(f, l)) = Sets(f)
    PROVE  Meant(Append(f, l)) = Meant(f)
<1> DEFINE F == Append(f, l)
<1>1. \A j \in Sets(f) : EntryOf(F, j) = EntryOf(f, j) /\ ContentOf(F, j) = ContentOf(f, j)
  BY EntryBefore, SetsNext
<1> HIDE DEF F
<1>2. {EntryOf(F, j) : j \in Sets(F)} = {EntryOf(f, j) : j \in Sets(f)}
  BY <1>1 DEF F
<1>3. \A x : {j \in Sets(F) : EntryOf(F, j) = x} = {j \in Sets(f) : EntryOf(f, j) = x}
  BY <1>1 DEF F
<1>4. ASSUME NEW x \in {EntryOf(f, j) : j \in Sets(f)}
      PROVE  LET J == {j \in Sets(f) : EntryOf(f, j) = x}
             IN  ContentOf(F, Max(J)) = ContentOf(f, Max(J))
  <2> DEFINE J == {j \in Sets(f) : EntryOf(f, j) = x}
  <2>1. J \in SUBSET Nat /\ J # {} /\ Len(f) \in Nat /\ \A j \in J : j <= Len(f)
    BY <1>4, SetsNext
  <2>2. Max(J) \in J
    BY <2>1, MaxIn
  <2>3. Max(J) \in Sets(f)
    BY <2>2
  <2> QED
    BY <1>1, <2>3
<1> QED
  BY <1>2, <1>3, <1>4 DEF Meant, F

LEMMA MeantNext ==
    ASSUME NEW f \in Seq(Lines), NEW l \in Lines, Len(f) + 1 \in Sets(Append(f, l))
    PROVE  LET n == Len(f)
               k == EntryOf(Append(f, l), n + 1)
           IN  Meant(Append(f, l)) =
                  [x \in DOMAIN Meant(f) \cup {k} |->
                      IF x = k THEN ContentOf(Append(f, l), n + 1) ELSE Meant(f)[x]]
<1> DEFINE F == Append(f, l)
           n == Len(f)
           k == EntryOf(F, n + 1)
           Of(g, x) == {j \in Sets(g) : EntryOf(g, j) = x}
           D == {EntryOf(f, j) : j \in Sets(f)}
<1>1. n \in Nat
  OBVIOUS
<1>2. Sets(F) = Sets(f) \cup {n + 1} /\ Sets(f) \subseteq 1 .. n
  BY SetsNext
<1>3. \A j \in Sets(f) : EntryOf(F, j) = EntryOf(f, j) /\ ContentOf(F, j) = ContentOf(f, j)
  BY <1>2, EntryBefore
<1> HIDE DEF F
<1>4. {EntryOf(F, j) : j \in Sets(F)} = D \cup {k}
  BY <1>2, <1>3
<1>5. Max(Of(F, k)) = n + 1
  <2>1. Of(F, k) \in SUBSET Nat /\ n + 1 \in Of(F, k) /\ \A j \in Of(F, k) : j <= n + 1
    BY <1>1, <1>2
  <2> HIDE DEF Of
  <2> QED
    BY <2>1, MaxIs
<1>6. ASSUME NEW x \in D, x # k
      PROVE  Of(F, x) = Of(f, x) /\ ContentOf(F, Max(Of(f, x))) = ContentOf(f, Max(Of(f, x)))
  <2>1. Of(F, x) = Of(f, x)
    BY <1>2, <1>3, <1>6
  <2>2. Of(f, x) \in SUBSET Nat /\ Of(f, x) # {} /\ \A j \in Of(f, x) : j <= n
    BY <1>2, <1>6
  <2>3. Max(Of(f, x)) \in Of(f, x)
    BY <1>1, <2>2, MaxIn
  <2>4. Max(Of(f, x)) \in Sets(f)
    BY <2>3
  <2> QED
    BY <1>3, <2>1, <2>4
<1>7. Meant(F) = [x \in D \cup {k} |-> ContentOf(F, Max(Of(F, x)))]
  BY <1>4 DEF Meant
<1>8. Meant(f) = [x \in D |-> ContentOf(f, Max(Of(f, x)))]
  BY DEF Meant
<1> HIDE DEF D, Of, k
<1>9. DOMAIN Meant(f) = D
  BY <1>8
<1>10. Meant(F) = [x \in D \cup {k} |-> IF x = k THEN ContentOf(F, n + 1) ELSE Meant(f)[x]]
  BY <1>5, <1>6, <1>7, <1>8
<1> QED
  BY <1>9, <1>10 DEF F, k

-----------------------------------------------------------------------------
(* The inductive invariant. *)

\* While lines are read, the buffer, the section and the dictionary are what
\* the lines so far say.
InStep ==
    res \in {"start", "reading"} =>
        /\ line = Buffered(read)
        /\ ~lost => section = SectionOf(read, Len(read)) /\ map = Meant(read)

\* Errors are counted for wrong lines only, and none is missed with memory enough.
Counted ==
    res \in {"start", "reading", "full"} =>
        /\ errs <= Len(read)
        /\ errs > 0 => Wrong(read)
        /\ Wrong(read) /\ ~lost => errs > 0

\* An overlong line is the last one read.
Fitting == res # "null" => ~Overlong(read)

\* Nothing is read before the dictionary is made.
Unread == res = "start" => read = <<>>

\* The line that found no memory has set nothing.
Refused == res = "full" /\ ~lost => map = Meant(Front(read))

LoadInv ==
    /\ LoadTypeOK /\ Unread /\ InStep /\ Counted /\ Fitting /\ Refused
    /\ ErrorsRefuse /\ PrefixReturned /\ NothingLeft

LEMMA LoadInitInv == LoadInit => LoadInv
<1> SUFFICES ASSUME LoadInit PROVE LoadInv
  OBVIOUS
<1>1. Ends(<<>>) = {} /\ Sets(<<>>) = {}
  BY DEF Ends, Sets
<1>2. ~Wrong(<<>>) /\ ~Overlong(<<>>)
  BY <1>1 DEF Wrong, Overlong
<1>3. SectionOf(<<>>, 0) = NoSection
  <2>1. Headers(<<>>, 0) = {} /\ Names(<<>>, 0) = {}
    BY <1>1 DEF Headers, Names
  <2> QED
    BY <2>1 DEF SectionOf, CutsOf, NameOf
<1>4. Meant(<<>>) = Dict!NoEntries
  BY <1>1 DEF Meant, Dict!NoEntries
<1>5. LoadTypeOK
  <2>1. read \in Seq(Lines) /\ Len(read) = 0 /\ line \in Seq(Parts) /\ Len(line) = 0
    BY DEF LoadInit
  <2>2. 0 <= MaxLines /\ 0 <= Width /\ 0 \in 0 .. MaxLines
    BY LinesAssumption, WidthAssumption
  <2>3. lost \in BOOLEAN
    BY DEF LoadInit
  <2> QED
    BY <2>1, <2>2, <2>3 DEF LoadInit, LoadTypeOK
<1>6. InStep
  BY <1>3, <1>4 DEF InStep, LoadInit, Buffered, Dict!Init
<1>7. Counted /\ Fitting /\ Unread /\ Refused
  BY <1>2 DEF LoadInit, Counted, Fitting, Unread, Refused
<1>8. ErrorsRefuse /\ PrefixReturned /\ NothingLeft
  BY DEF LoadInit, ErrorsRefuse, PrefixReturned, NothingLeft
<1> QED
  BY <1>5, <1>6, <1>7, <1>8 DEF LoadInv

LEMMA FrontAppend ==
    ASSUME NEW f \in Seq(Lines), NEW l \in Lines
    PROVE  Front(Append(f, l)) = f
<1> DEFINE F == Append(f, l)
<1>1. /\ F \in Seq(Lines) /\ Len(F) = Len(f) + 1 /\ Len(f) \in Nat
      /\ \A i \in 1 .. Len(f) : F[i] = f[i]
  BY AppendProperties
<1> HIDE DEF F
<1>2. \A i \in 1 .. Len(f) : F[i] \in Lines
  BY <1>1, ElementOfSeq
<1>3. /\ SubSeq(F, 1, Len(f)) \in Seq(Lines)
      /\ Len(SubSeq(F, 1, Len(f))) = Len(f)
      /\ \A i \in 1 .. Len(f) : SubSeq(F, 1, Len(f))[i] = F[i]
  BY <1>1, <1>2, SubSeqProperties
<1>4. SubSeq(F, 1, Len(f)) = f
  BY <1>1, <1>3, SeqEqual
<1> QED
  BY <1>1, <1>4 DEF Front, F

\* What the file says with the line that fgets has just read.
LEMMA LineRead ==
    ASSUME LoadInv, NEW l \in Lines, fgets(l)
    PROVE  /\ read' \in Seq(Lines) /\ Len(read') = Len(read) + 1 /\ Len(read') <= MaxLines
           /\ Front(read') = read
           /\ WholeLine(read', Len(read) + 1) = Joined(l)
           /\ Joined(l) \in Seq(Parts)
           /\ Overlong(read') <=> ~Fits(l)
           /\ Wrong(read') <=> Wrong(read) \/ (~l.cont /\ IsError(Joined(l)))
           /\ Buffered(read') = IF l.cont THEN Joined(l) ELSE <<>>
<1> DEFINE n == Len(read)
<1>1. read \in Seq(Lines) /\ read' = Append(read, l) /\ n \in Nat /\ n < MaxLines
  BY DEF LoadInv, LoadTypeOK, fgets
<1>2. /\ read' \in Seq(Lines) /\ Len(read') = n + 1 /\ read' # <<>>
      /\ read'[n + 1] = l
  BY <1>1, AppendProperties
<1>3. WholeLine(read', n + 1) = Joined(l)
  BY <1>1, WholeNext DEF Joined, LoadInv, InStep, fgets
<1>4. \A j \in 1 .. n : WholeLine(read', j) = WholeLine(read, j)
  BY <1>1, SameBefore
<1>5. 1 .. n + 1 = 1 .. n \cup {n + 1}
  BY <1>1
<1>6. Joined(l) \in Seq(Parts)
  BY <1>2, <1>3, WholeType
<1>7. ~Overlong(read)
  BY DEF LoadInv, Fitting, fgets
<1>8. Overlong(read') <=> ~Fits(l)
  <2>1. Len(Joined(l)) \in Nat /\ Width \in Nat
    BY <1>6, WidthAssumption
  <2>2. Len(Joined(l)) > Width <=> ~ (Len(Joined(l)) <= Width)
    BY <2>1
  <2> QED
    BY <1>2, <1>3, <1>4, <1>5, <1>7, <2>2 DEF Overlong, Fits
<1>9. Wrong(read') <=> Wrong(read) \/ (~l.cont /\ IsError(Joined(l)))
  <2>1. Ends(read') = Ends(read) \cup (IF l.cont THEN {} ELSE {n + 1})
    BY <1>1, EndsAppend
  <2>2. Ends(read) \subseteq 1 .. n
    BY DEF Ends
  <2>3. \A j \in Ends(read) : WholeLine(read', j) = WholeLine(read, j)
    BY <1>4, <2>2
  <2>4. CASE l.cont
    <3>1. Ends(read') = Ends(read)
      BY <2>1, <2>4
    <3>2. Wrong(read') <=> Wrong(read)
      BY <2>3, <3>1, Zenon DEF Wrong
    <3> QED
      BY <2>4, <3>2
  <2>5. CASE ~l.cont
    <3>1. Ends(read') = Ends(read) \cup {n + 1}
      BY <2>1, <2>5
    <3>2. Wrong(read') <=> Wrong(read) \/ IsError(WholeLine(read', n + 1))
      BY <2>3, <3>1, Zenon DEF Wrong
    <3> QED
      BY <1>3, <2>5, <3>2
  <2> QED
    BY <2>4, <2>5
<1>10. Buffered(read') = IF l.cont THEN Joined(l) ELSE <<>>
  BY <1>2, <1>3 DEF Buffered
<1>11. Front(read') = read
  BY <1>1, FrontAppend
<1>12. Len(read') <= MaxLines
  BY <1>1, <1>2, LinesAssumption
<1> QED
  BY <1>2, <1>3, <1>6, <1>8, <1>9, <1>10, <1>11, <1>12

\* A line that is joined to the next, or sets nothing, changes nothing.
LEMMA NothingSet ==
    ASSUME LoadInv, NEW l \in Lines, fgets(l), Fits(l),
           l.cont \/ (~IsHeader(Joined(l)) /\ ~IsValue(Joined(l)))
    PROVE  /\ SectionOf(read', Len(read')) = SectionOf(read, Len(read))
           /\ Meant(read') = Meant(read)
<1>1. read \in Seq(Lines) /\ read' = Append(read, l) /\ ~Overlong(read)
  BY DEF LoadInv, LoadTypeOK, Fitting, fgets
<1>2. /\ Len(read') = Len(read) + 1
      /\ WholeLine(read', Len(read) + 1) = Joined(l)
      /\ ~Overlong(read')
  BY LineRead
<1>3. SectionOf(read', Len(read) + 1) = SectionOf(read, Len(read))
  BY <1>1, <1>2, SectionNext
<1>4. Sets(read') = Sets(read)
  BY <1>1, <1>2, SetsNext
<1> QED
  BY <1>1, <1>2, <1>3, <1>4, MeantSame

\* The map that the line fgets has completed makes of m: k is its entry.
Put(m, k, v) == [x \in DOMAIN m \cup {k} |-> IF x = k THEN v ELSE m[x]]

LEMMA EntrySet ==
    ASSUME LoadInv, NEW l \in Lines, fgets(l), Fits(l), ~l.cont
    PROVE  LET w == Joined(l)
               s == SectionOf(read, Len(read))
           IN  /\ IsHeader(w) =>
                    /\ SectionOf(read', Len(read')) = Named(w, s)
                    /\ Meant(read') = Put(Meant(read), <<Named(w, s)>>, NULL)
               /\ IsValue(w) =>
                    /\ SectionOf(read', Len(read')) = s
                    /\ Meant(read') = Put(Meant(read), <<s>> \o KeyOf(w), ValueOf(w))
<1> DEFINE w == Joined(l)
           n == Len(read)
           s == SectionOf(read, n)
           k == EntryOf(read', n + 1)
           v == ContentOf(read', n + 1)
<1>1. read \in Seq(Lines) /\ read' = Append(read, l) /\ ~Overlong(read)
  BY DEF LoadInv, LoadTypeOK, Fitting, fgets
<1>2. Len(read') = n + 1 /\ WholeLine(read', n + 1) = w /\ ~Overlong(read')
  BY LineRead
<1>3. SectionOf(read', n + 1) = IF IsHeader(w) THEN Named(w, s) ELSE s
  BY <1>1, <1>2, SectionNext
<1>4. n + 1 \in Headers(read', n + 1) <=> IsHeader(w)
  <2>1. /\ Headers(read', n + 1) = Headers(read, n) \cup (IF IsHeader(w) THEN {n + 1} ELSE {})
        /\ Headers(read, n) \subseteq 1 .. n
    BY <1>1, <1>2, HeadersNext
  <2>2. n + 1 \notin 1 .. n
    BY <1>1
  <2> QED
    BY <2>1, <2>2
<1>5. IsHeader(w) \/ IsValue(w) => Meant(read') = Put(Meant(read), k, v)
  <2> SUFFICES ASSUME IsHeader(w) \/ IsValue(w) PROVE Meant(read') = Put(Meant(read), k, v)
    OBVIOUS
  <2>1. n + 1 \in Sets(read')
    BY <1>1, <1>2, SetsNext
  <2> QED
    BY <1>1, <2>1, MeantNext DEF Put
<1>6. IsHeader(w) => k = <<Named(w, s)>> /\ v = NULL
  <2>1. \A x : <<x>> \o <<>> = <<x>>
    OBVIOUS
  <2> QED
    BY <1>3, <1>4, <2>1 DEF EntryOf, ContentOf
<1>7. IsValue(w) => ~IsHeader(w) /\ k = <<s>> \o KeyOf(w) /\ v = ValueOf(w)
  BY <1>2, <1>3, <1>4 DEF IsValue, EntryOf, ContentOf
<1> HIDE DEF w, k, v, s
<1>8. /\ IsHeader(w) =>
           /\ SectionOf(read', n + 1) = Named(w, s)
           /\ Meant(read') = Put(Meant(read), <<Named(w, s)>>, NULL)
      /\ IsValue(w) =>
           /\ SectionOf(read', n + 1) = s
           /\ Meant(read') = Put(Meant(read), <<s>> \o KeyOf(w), ValueOf(w))
  BY <1>3, <1>5, <1>6, <1>7
<1> QED
  BY <1>2, <1>8 DEF w, s

-----------------------------------------------------------------------------
(* The actions. *)

LEMMA ReadOnStep ==
    ASSUME LoadInv, NEW l \in Lines,
           Continue(l) \/ Ignore(l) \/ LineLost(l) \/ SyntaxError(l)
    PROVE  LoadInv'
<1>1. /\ fgets(l) /\ Fits(l) /\ res = "reading" /\ res' = res /\ handles' = handles
      /\ l.cont <=> Continue(l)
      /\ line' = IF l.cont THEN Joined(l) ELSE <<>>
  BY DEF Continue, Ignore, LineLost, SyntaxError, Whole, fgets
<1>2. /\ read' \in Seq(Lines) /\ Len(read') = Len(read) + 1 /\ Len(read') <= MaxLines
      /\ Joined(l) \in Seq(Parts)
      /\ ~Overlong(read')
      /\ Wrong(read') <=> Wrong(read) \/ (~l.cont /\ IsError(Joined(l)))
      /\ Buffered(read') = IF l.cont THEN Joined(l) ELSE <<>>
  BY <1>1, LineRead
<1>3. LineLost(l) => lost'
  BY DEF LineLost
<1>4. ~LineLost(l) => map' = map /\ section' = section /\ lost' = lost
  BY DEF Continue, Ignore, SyntaxError
<1>5. ~LineLost(l) => l.cont \/ (~IsHeader(Joined(l)) /\ ~IsValue(Joined(l)))
  BY <1>1 DEF Continue, Ignore, SyntaxError, IsValue, IsError, IsHeader, IsEmpty, IsComment,
     Bracket
<1>6. /\ SyntaxError(l) => errs' = errs + 1 /\ IsError(Joined(l)) /\ ~l.cont
      /\ ~SyntaxError(l) => errs' = errs
      /\ Ignore(l) => ~IsError(Joined(l))
  BY <1>1 DEF Continue, Ignore, LineLost, SyntaxError, Whole, IsError
<1>7. LoadTypeOK
  BY DEF LoadInv
<1>8. /\ errs \in Nat /\ Len(read) \in Nat /\ errs <= Len(read)
      /\ errs > 0 => Wrong(read)
      /\ Wrong(read) /\ ~lost => errs > 0
  BY <1>1, <1>7, LinesAssumption DEF LoadInv, LoadTypeOK, Counted
<1>9. Counted'
  <2>1. CASE SyntaxError(l)
    BY <1>2, <1>6, <1>8, <2>1 DEF Counted
  <2>2. CASE LineLost(l) /\ ~SyntaxError(l)
    BY <1>2, <1>3, <1>6, <1>8, <2>2 DEF Counted
  <2>3. CASE ~LineLost(l) /\ ~SyntaxError(l)
    <3>1. Wrong(read') <=> Wrong(read)
      BY <1>1, <1>2, <1>6, <2>3
    <3> QED
      BY <1>2, <1>4, <1>6, <1>8, <2>3, <3>1 DEF Counted
  <2> QED
    BY <2>1, <2>2, <2>3
<1>10. LoadTypeOK'
  <2>1. line' \in Seq(Parts) /\ Len(line') <= Width
    <3>1. Len(<<>>) <= Width
      BY WidthAssumption
    <3> QED
      BY <1>1, <1>2, <3>1 DEF Fits
  <2>2. errs' \in 0 .. MaxLines
    BY <1>1, <1>2, <1>6, <1>8, <1>9, LinesAssumption DEF Counted
  <2>3. lost' \in BOOLEAN
    BY <1>3, <1>4, <1>7 DEF LoadTypeOK, LineLost
  <2> QED
    BY <1>1, <1>2, <1>7, <2>1, <2>2, <2>3 DEF LoadTypeOK
<1>11. InStep'
  <2>1. ~lost' => /\ SectionOf(read', Len(read')) = SectionOf(read, Len(read))
                  /\ Meant(read') = Meant(read)
    BY <1>1, <1>3, <1>5, NothingSet
  <2>2. ~lost' => section = SectionOf(read, Len(read)) /\ map = Meant(read)
    BY <1>1, <1>3, <1>4 DEF LoadInv, InStep
  <2> QED
    BY <1>1, <1>2, <1>3, <1>4, <2>1, <2>2 DEF InStep
<1>12. Fitting' /\ Unread' /\ Refused' /\ ErrorsRefuse' /\ PrefixReturned' /\ NothingLeft'
  BY <1>1, <1>2 DEF Fitting, Unread, Refused, ErrorsRefuse, PrefixReturned, NothingLeft
<1> QED
  BY <1>9, <1>10, <1>11, <1>12 DEF LoadInv

LEMMA TooLongStep == ASSUME LoadInv, NEW l \in Lines, TooLong(l) PROVE LoadInv'
<1>1. fgets(l) /\ ~Fits(l) /\ res' = "null" /\ handles' = {}
  BY DEF TooLong, Leave
<1>2. read' \in Seq(Lines) /\ Len(read') <= MaxLines /\ Overlong(read')
  BY <1>1, LineRead
<1>3. LoadTypeOK'
  BY <1>1, <1>2 DEF LoadInv, LoadTypeOK, TooLong
<1> QED
  BY <1>1, <1>2, <1>3 DEF LoadInv, InStep, Counted, Fitting, Unread, Refused, ErrorsRefuse,
     PrefixReturned, NothingLeft

LEMMA OpenStep == ASSUME LoadInv, OpenFails \/ NewFails \/ Start PROVE LoadInv'
<1>1. /\ res = "start" /\ res' \in {"null", "reading"}
      /\ res' = "null" => handles' = {}
      /\ handles' \subseteq {"file", "dictionary"}
      /\ UNCHANGED <<read, line, section, errs, map, out, lost>>
  BY DEF OpenFails, NewFails, Start, Leave
<1>2. LoadTypeOK'
  BY <1>1 DEF LoadInv, LoadTypeOK
<1>3. read' = <<>> /\ InStep' /\ Counted' /\ Fitting'
  BY <1>1 DEF LoadInv, Unread, InStep, Counted, Fitting
<1> QED
  BY <1>1, <1>2, <1>3 DEF LoadInv, Unread, Refused, ErrorsRefuse, PrefixReturned, NothingLeft

LEMMA FinishStep == ASSUME LoadInv, Finish PROVE LoadInv'
<1>1. /\ res \in {"reading", "full"}
      /\ errs > 0 => res' = "null" /\ handles' = {}
      /\ ~ (errs > 0) => res' = "dict" /\ handles' = {"dictionary"}
      /\ UNCHANGED <<read, line, section, errs, map, out, lost>>
  BY DEF Finish, Leave
<1>2. LoadTypeOK'
  BY <1>1 DEF LoadInv, LoadTypeOK
<1>3. Fitting' /\ ErrorsRefuse'
  BY <1>1 DEF LoadInv, Counted, Fitting, ErrorsRefuse
<1>4. PrefixReturned'
  BY <1>1 DEF LoadInv, InStep, Refused, PrefixReturned
<1> QED
  BY <1>1, <1>2, <1>3, <1>4 DEF LoadInv, Unread, InStep, Counted, Refused, NothingLeft

\* A whole line that dictionary_set is called for, with entry k and content v:
\* what may become of the dictionary, and of the rest whatever becomes of it.
LEMMA SetStep ==
    ASSUME LoadInv, NEW l \in Lines, Whole(l), ~IsError(Joined(l)),
           NEW k, NEW v, SetEntry(k, v), UNCHANGED <<errs, handles>>,
           ~lost => section' = SectionOf(read', Len(read')),
           ~lost => Meant(read') = Put(Meant(read), k, v)
    PROVE  LoadInv'
<1>1. fgets(l) /\ Fits(l) /\ ~l.cont /\ line' = <<>> /\ res = "reading"
  BY DEF Whole, fgets
<1>2. /\ read' \in Seq(Lines) /\ Len(read') = Len(read) + 1 /\ Len(read') <= MaxLines
      /\ Front(read') = read
      /\ ~Overlong(read')
      /\ Wrong(read') <=> Wrong(read)
      /\ Buffered(read') = <<>>
  BY <1>1, LineRead
<1>3. \/ res' = "reading" /\ lost'
      \/ res' = "reading" /\ lost' = lost /\ map' = Put(map, k, v)
      \/ res' = "full" /\ lost' = lost /\ map' = map
  BY <1>1 DEF SetEntry, Dict!SetTo, Dict!SetLost, Dict!SetRefused, Put
<1>4. LoadTypeOK
  BY DEF LoadInv
<1>5. lost' \in BOOLEAN
  BY <1>4 DEF LoadTypeOK, SetEntry
<1>6. ~lost => map = Meant(read)
  BY <1>1 DEF LoadInv, InStep
<1>7. LoadTypeOK'
  <2>1. Len(<<>>) <= Width /\ <<>> \in Seq(Parts)
    BY WidthAssumption
  <2> QED
    BY <1>1, <1>2, <1>3, <1>4, <1>5, <2>1 DEF LoadTypeOK
<1>8. Counted'
  <2>1. /\ errs <= Len(read)
        /\ errs > 0 => Wrong(read)
        /\ Wrong(read) /\ ~lost => errs > 0
    BY <1>1 DEF LoadInv, Counted
  <2>2. ~lost' => ~lost
    BY <1>3, <1>4 DEF LoadTypeOK
  <2>3. errs' <= Len(read')
    BY <1>2, <1>4, <2>1, LinesAssumption DEF LoadTypeOK
  <2> QED
    BY <1>2, <2>1, <2>2, <2>3 DEF Counted
<1>9. InStep'
  BY <1>1, <1>2, <1>3, <1>6 DEF InStep
<1>10. Refused'
  BY <1>2, <1>3, <1>6 DEF Refused
<1>11. Fitting' /\ Unread' /\ ErrorsRefuse' /\ PrefixReturned' /\ NothingLeft'
  BY <1>2, <1>3 DEF Fitting, Unread, ErrorsRefuse, PrefixReturned, NothingLeft
<1> QED
  BY <1>7, <1>8, <1>9, <1>10, <1>11 DEF LoadInv

LEMMA SetSectionStep == ASSUME LoadInv, NEW l \in Lines, SetSection(l) PROVE LoadInv'
<1>1. /\ Whole(l) /\ fgets(l) /\ Fits(l) /\ ~l.cont /\ IsHeader(Joined(l))
      /\ section' = Named(Joined(l), section)
      /\ SetEntry(<<section'>>, NULL)
      /\ UNCHANGED <<errs, handles>>
  BY DEF SetSection, Whole
<1>2. ~IsError(Joined(l))
  BY <1>1 DEF IsError
<1>3. ~lost => section = SectionOf(read, Len(read))
  BY <1>1 DEF LoadInv, InStep, fgets
<1>4. ~lost => /\ section' = SectionOf(read', Len(read'))
               /\ Meant(read') = Put(Meant(read), <<section'>>, NULL)
  BY <1>1, <1>3, EntrySet
<1> QED
  BY <1>1, <1>2, <1>4, SetStep

LEMMA SetValueStep == ASSUME LoadInv, NEW l \in Lines, SetValue(l) PROVE LoadInv'
<1> DEFINE k == <<section>> \o KeyOf(Joined(l))
           v == ValueOf(Joined(l))
<1>1. /\ Whole(l) /\ fgets(l) /\ Fits(l) /\ ~l.cont /\ IsValue(Joined(l))
      /\ SetEntry(k, v)
      /\ section' = section
      /\ UNCHANGED <<errs, handles>>
  BY DEF SetValue, Whole
<1>2. ~IsError(Joined(l))
  BY <1>1 DEF IsError, IsValue
<1>3. ~lost => section = SectionOf(read, Len(read))
  BY <1>1 DEF LoadInv, InStep, fgets
<1>4. ~lost => /\ section' = SectionOf(read', Len(read'))
               /\ Meant(read') = Put(Meant(read), k, v)
  BY <1>1, <1>3, EntrySet
<1> HIDE DEF k, v
<1> QED
  BY <1>1, <1>2, <1>4, SetStep

-----------------------------------------------------------------------------
\* The inductive invariant of iniparser_load.
THEOREM LoadInvariance == LoadSpec => []LoadInv
<1>1. LoadInv /\ [LoadNext]_loadVars => LoadInv'
  <2> SUFFICES ASSUME LoadInv, [LoadNext]_loadVars PROVE LoadInv'
    OBVIOUS
  <2>1. CASE OpenFails \/ NewFails \/ Start
    BY <2>1, OpenStep
  <2>2. CASE \E l \in Lines : Read(l)
    <3>1. PICK l \in Lines : Read(l)
      BY <2>2
    <3> QED
      BY <3>1, TooLongStep, ReadOnStep, SetSectionStep, SetValueStep DEF Read
  <2>3. CASE Finish
    BY <2>3, FinishStep
  <2>4. CASE UNCHANGED loadVars
    BY <2>4 DEF loadVars, LoadInv, LoadTypeOK, Unread, InStep, Counted, Fitting, Refused,
       ErrorsRefuse, PrefixReturned, NothingLeft
  <2> QED
    BY <2>1, <2>2, <2>3, <2>4 DEF LoadNext
<1> QED
  BY <1>1, LoadInitInv, PTL DEF LoadSpec

\* Types for any file: the buffer line[] of iniparser.c:718 is never overrun.
THEOREM LoadTypeCorrect == LoadSpec => []LoadTypeOK
  BY LoadInvariance, PTL DEF LoadInv

\* The loop of iniparser.c:749-813 keeps the dictionary at what the lines read so
\* far say, however they are joined and whatever sections they are in.
THEOREM LoadIsMeant == LoadSpec => []LoadedIsMeant
<1>1. LoadInv => LoadedIsMeant
  BY DEF LoadInv, InStep, LoadedIsMeant
<1> QED
  BY <1>1, LoadInvariance, PTL

\* iniparser_load returns NULL for a file with a wrong or overlong line, and
\* for no other it has read a line of.
THEOREM LoadRefusesErrors == LoadSpec => []ErrorsRefuse
  BY LoadInvariance, PTL DEF LoadInv

\* When dictionary_set reports that memory ran out, iniparser.c:809-812, the
\* caller gets what the lines before said.
THEOREM LoadReturnsPrefix == LoadSpec => []PrefixReturned
  BY LoadInvariance, PTL DEF LoadInv

\* The file is closed and the dictionary given back or deleted on each return.
THEOREM LoadLeavesNothing == LoadSpec => []NothingLeft
  BY LoadInvariance, PTL DEF LoadInv

\* With memory enough, a dictionary that iniparser_load returns is exactly what
\* the file says, and the file has no wrong and no overlong line.
THEOREM LoadCorrect ==
    ASSUME Failing \cap {"line", "grow", "key", "val"} = {}
    PROVE  LoadSpec => [](res = "dict" =>
              map = Meant(read) /\ ~Wrong(read) /\ ~Overlong(read))
<1> DEFINE Complete == ~lost /\ res # "full" /\ (res = "dict" => map = Meant(read))
<1>1. LoadInit => Complete
  BY DEF LoadInit
<1>2. LoadInv /\ Complete /\ [LoadNext]_loadVars => Complete'
  <2> SUFFICES ASSUME LoadInv, Complete, [LoadNext]_loadVars PROVE Complete'
    OBVIOUS
  <2>1. CASE OpenFails \/ NewFails \/ Start
    BY <2>1 DEF OpenFails, NewFails, Start, Leave
  <2>2. CASE \E l \in Lines : Read(l)
    <3>1. PICK l \in Lines : Read(l)
      BY <2>2
    <3>2. ASSUME NEW k, NEW v, SetEntry(k, v), res = "reading" PROVE Complete'
      BY <3>2 DEF SetEntry, Dict!SetLost
    <3>3. CASE SetSection(l) \/ SetValue(l)
      BY <3>2, <3>3 DEF SetSection, SetValue, Whole, fgets
    <3>4. CASE TooLong(l) \/ Continue(l) \/ Ignore(l) \/ LineLost(l) \/ SyntaxError(l)
      BY <3>4 DEF TooLong, Continue, Ignore, LineLost, SyntaxError, Whole, fgets, Leave
    <3> QED
      BY <3>1, <3>3, <3>4 DEF Read
  <2>3. CASE Finish
    BY <2>3 DEF Finish, Leave, LoadInv, InStep
  <2>4. CASE UNCHANGED loadVars
    BY <2>4 DEF loadVars
  <2> QED
    BY <2>1, <2>2, <2>3, <2>4 DEF LoadNext
<1>3. LoadInv /\ Complete =>
        (res = "dict" => map = Meant(read) /\ ~Wrong(read) /\ ~Overlong(read))
  BY DEF LoadInv, ErrorsRefuse
<1> QED
  BY <1>1, <1>2, <1>3, LoadInvariance, PTL DEF LoadSpec

-----------------------------------------------------------------------------
(* keros_init and the agent. *)


Started == \E b \in Blocks : thread[b] # "none"

Progress ==
    /\ pc \in {"load", "register", "agent", "wifi"} => info \in Blocks
    /\ pc = "load" => file \in Files
    /\ pc \in {"register", "agent", "wifi"} => content[info] \in Files
    /\ pc \in {"agent", "wifi"} => registered
    /\ pc = "wifi" => Started
    /\ pc = "wifi" /\ ~ignored => content[info] = agentInfo

Agent ==
    /\ AgentConfigured
    /\ up => Started
    /\ g_net_status = 1 => Started

IInv == TypeOK /\ Progress /\ Agent /\ InfoIsAgents

-----------------------------------------------------------------------------
LEMMA InitIInv == Init => IInv
<1> SUFFICES ASSUME Init PROVE IInv
  OBVIOUS
<1>1. TypeOK
  <2>1. 0 \in 0 .. MaxInits
    BY InitsAssumption
  <2>2. registered \in BOOLEAN /\ up \in BOOLEAN /\ ignored \in BOOLEAN
    BY DEF Init
  <2>3. /\ content \in [Blocks -> Files \cup {NoFile}]
        /\ thread \in [Blocks -> {"none", "check", "wait", "ask", "run"}]
    BY DEF Init
  <2>4. g_net_status \in {0, 1}
    BY DEF Init
  <2> QED
    BY <2>1, <2>2, <2>3, <2>4 DEF Init, TypeOK
<1>2. Progress
  BY DEF Init, Progress
<1>3. Agent
  BY DEF Init, Agent, AgentConfigured
<1>4. InfoIsAgents
  BY DEF Init, InfoIsAgents
<1> QED
  BY <1>1, <1>2, <1>3, <1>4 DEF IInv

LEMMA TypeStep == ASSUME TypeOK, Progress, [Next]_vars PROVE TypeOK'
<1> USE InitsAssumption DEF TypeOK, Progress, Blocks, Returns, cliVars, agentVars, Goto
<1>1. ASSUME NEW f \in Files, iot_init_cli(f) PROVE TypeOK'
  BY <1>1 DEF iot_init_cli
<1>2. ASSUME NEW f \in Files, NoBlock(f) PROVE TypeOK'
  BY <1>2 DEF NoBlock
<1>3. CASE LoadFails
  BY <1>3 DEF LoadFails
<1>4. CASE LoadCutShort
  BY <1>4 DEF LoadCutShort
<1>5. CASE FillCrash
  BY <1>5 DEF FillCrash
<1>6. CASE Fill
  BY <1>6 DEF Fill
<1>7. CASE Register
  BY <1>7 DEF Register
<1>8. CASE AgentIgnores
  BY <1>8 DEF AgentIgnores
<1>9. CASE AgentRefuses
  BY <1>9 DEF AgentRefuses
<1>10. CASE AgentStarts
  BY <1>10 DEF AgentStarts
<1>11. CASE set_wifi_connect
  BY <1>11 DEF set_wifi_connect
<1>12. ASSUME NEW b \in Blocks, AgentStep(b) PROVE TypeOK'
  BY <1>12 DEF AgentStep, uni_wifi_connect_get, uni_wait_wifi_connect, Ask, Lose
<1>13. CASE UNCHANGED vars
  BY <1>13 DEF vars
<1> QED
  BY <1>1, <1>2, <1>3, <1>4, <1>5, <1>6, <1>7, <1>8, <1>9, <1>10, <1>11, <1>12,
     <1>13 DEF Next, keros_init

\* A thread that was started stays started.
LEMMA StartedStep == ASSUME TypeOK, [Next]_vars, Started PROVE Started'
<1> USE DEF TypeOK, Started, cliVars, agentVars, Goto
<1>1. CASE keros_init
  BY <1>1 DEF keros_init, LoadFails, LoadCutShort, FillCrash, Fill, Register, AgentIgnores,
     AgentRefuses, AgentStarts, set_wifi_connect
<1>2. ASSUME NEW f \in Files, iot_init_cli(f) \/ NoBlock(f) PROVE Started'
  BY <1>2 DEF iot_init_cli, NoBlock
<1>3. ASSUME NEW b \in Blocks, AgentStep(b) PROVE Started'
  BY <1>3 DEF AgentStep, uni_wifi_connect_get, uni_wait_wifi_connect, Ask, Lose
<1>4. CASE UNCHANGED vars
  BY <1>4 DEF vars
<1> QED
  BY <1>1, <1>2, <1>3, <1>4 DEF Next

LEMMA ProgressStep == ASSUME IInv, [Next]_vars PROVE Progress'
<1> USE InitsAssumption
    DEF IInv, TypeOK, Progress, Agent, Returns, cliVars, agentVars, Goto
<1>0. Started => Started'
  BY StartedStep
<1>1. ASSUME NEW f \in Files, iot_init_cli(f) PROVE Progress'
  BY <1>1 DEF iot_init_cli, Blocks
<1>2. ASSUME NEW f \in Files, NoBlock(f) PROVE Progress'
  BY <1>2 DEF NoBlock
<1>3. CASE LoadFails \/ LoadCutShort \/ FillCrash
  BY <1>3 DEF LoadFails, LoadCutShort, FillCrash
<1>4. CASE Fill
  BY <1>4 DEF Fill
<1>5. CASE Register
  BY <1>5 DEF Register
<1>6. CASE AgentIgnores
  BY <1>0, <1>6 DEF AgentIgnores
<1>7. CASE AgentRefuses
  BY <1>7 DEF AgentRefuses
<1>8. CASE AgentStarts
  <2>1. Started'
    BY <1>8 DEF AgentStarts, Started
  <2> QED
    BY <1>8, <2>1 DEF AgentStarts
<1>9. CASE set_wifi_connect
  BY <1>9 DEF set_wifi_connect
<1>10. ASSUME NEW b \in Blocks, AgentStep(b) PROVE Progress'
  BY <1>0, <1>10 DEF AgentStep, uni_wifi_connect_get, uni_wait_wifi_connect, Ask, Lose
<1>11. CASE UNCHANGED vars
  BY <1>0, <1>11 DEF vars
<1> QED
  BY <1>1, <1>2, <1>3, <1>4, <1>5, <1>6, <1>7, <1>8, <1>9, <1>10, <1>11
  DEF Next, keros_init

LEMMA AgentStepInv == ASSUME IInv, [Next]_vars PROVE Agent'
<1> USE FileAssumption
    DEF IInv, TypeOK, Progress, Agent, AgentConfigured, Returns, cliVars, agentVars, Goto
<1>0. Started => Started'
  BY StartedStep
<1>1. ASSUME NEW f \in Files, iot_init_cli(f) \/ NoBlock(f) PROVE Agent'
  BY <1>0, <1>1 DEF iot_init_cli, NoBlock
<1>2. CASE LoadFails \/ LoadCutShort \/ FillCrash \/ Fill \/ Register \/ AgentIgnores
  BY <1>0, <1>2 DEF LoadFails, LoadCutShort, FillCrash, Fill, Register, AgentIgnores
<1>3. CASE AgentRefuses
  BY <1>0, <1>3 DEF AgentRefuses
<1>4. CASE AgentStarts
  BY <1>0, <1>4 DEF AgentStarts
<1>5. CASE set_wifi_connect
  BY <1>0, <1>5 DEF set_wifi_connect
<1>6. ASSUME NEW b \in Blocks, AgentStep(b) PROVE Agent'
  <2>1. thread[b] # "none" /\ AgentConfigured'
    BY <1>6 DEF AgentStep, uni_wifi_connect_get, uni_wait_wifi_connect, Ask, Lose
  <2>2. Started'
    BY <1>0, <2>1 DEF Started
  <2> QED
    BY <2>1, <2>2
<1>7. CASE UNCHANGED vars
  BY <1>0, <1>7 DEF vars
<1> QED
  BY <1>1, <1>2, <1>3, <1>4, <1>5, <1>6, <1>7 DEF Next, keros_init

LEMMA InfoStep == ASSUME IInv, [Next]_vars PROVE InfoIsAgents'
<1> USE DEF IInv, TypeOK, Progress, InfoIsAgents, Returns, Blocks, cliVars, agentVars, Goto
<1>1. ASSUME NEW f \in Files, iot_init_cli(f) \/ NoBlock(f) PROVE InfoIsAgents'
  BY <1>1 DEF iot_init_cli, NoBlock
<1>2. CASE keros_init
  BY <1>2 DEF keros_init, LoadFails, LoadCutShort, FillCrash, Fill, Register, AgentIgnores,
     AgentRefuses, AgentStarts, set_wifi_connect
<1>3. ASSUME NEW b \in Blocks, AgentStep(b) PROVE InfoIsAgents'
  BY <1>3 DEF AgentStep, uni_wifi_connect_get, uni_wait_wifi_connect, Ask, Lose
<1>4. CASE UNCHANGED vars
  BY <1>4 DEF vars
<1> QED
  BY <1>1, <1>2, <1>3, <1>4 DEF Next

-----------------------------------------------------------------------------
\* The inductive invariant of keros_init and the agent's threads.
THEOREM InitInvariance == Spec => []IInv
<1>1. IInv /\ [Next]_vars => IInv'
  BY TypeStep, ProgressStep, AgentStepInv, InfoStep DEF IInv
<1> QED
  BY <1>1, InitIInv, PTL DEF Spec

\* The types of all variables.
THEOREM TypeCorrect == Spec => []TypeOK
  BY InitInvariance, PTL DEF IInv

\* The agent of keros_init.c:115 runs only with complete information and
\* after register_platform was called, whatever files were tried before and since.
THEOREM Configured == Spec => []AgentConfigured
  BY InitInvariance, PTL DEF IInv, Agent

\* The network flag is raised, keros_init.c:120, only when an agent was started.
THEOREM FlagAfterAgent == Spec => []NetAfterAgent
<1>1. IInv => NetAfterAgent
  BY DEF IInv, Agent, Started, NetAfterAgent
<1> QED
  BY <1>1, InitInvariance, PTL

\* After a call that returned 0, and was not ignored, uni_get_iot_info gives
\* the information the agent works with.
THEOREM InfoAgrees == Spec => []InfoIsAgents
  BY InitInvariance, PTL DEF IInv

-----------------------------------------------------------------------------
\* From the start of an agent's thread to the raising of the flag there is no
\* step but that one (keros_init.c:115-120).
Served == g_net_status = 0 /\ Started => pc = "wifi"

\* No call of iot_init that fails, and no step of a thread, comes between.
LEMMA ServedStep == ASSUME IInv, Served, [Next]_vars PROVE Served'
<1> SUFFICES ASSUME g_net_status' = 0, Started' PROVE pc' = "wifi"
  BY DEF Served
<1>1. CASE AgentStarts \/ AgentIgnores
  BY <1>1 DEF AgentStarts, AgentIgnores
<1>2. CASE ~(AgentStarts \/ AgentIgnores)
  <2>1. ~set_wifi_connect
    BY DEF set_wifi_connect
  <2>2. g_net_status = 0 /\ Started
    <3>1. CASE \E b \in Blocks : AgentStep(b)
      BY <3>1 DEF AgentStep, uni_wifi_connect_get, uni_wait_wifi_connect, Ask, Lose,
         Started
    <3>2. CASE ~\E b \in Blocks : AgentStep(b)
      BY <1>2, <2>1, <3>2 DEF Next, keros_init, iot_init_cli, NoBlock, LoadFails,
         LoadCutShort, FillCrash, Fill, Register, AgentRefuses, agentVars, vars, Started
    <3> QED
      BY <3>1, <3>2
  <2>3. pc = "wifi"
    BY <2>2 DEF Served
  <2> QED
    BY <1>2, <2>1, <2>3 DEF Next, keros_init, iot_init_cli, NoBlock, LoadFails,
       LoadCutShort, FillCrash, Fill, Register, AgentRefuses, vars, cliVars, AgentStep,
       uni_wifi_connect_get, uni_wait_wifi_connect, Ask, Lose
<1> QED
  BY <1>1, <1>2

\* A thread of the agent never polls the network flag with nobody to raise it:
\* while it waits and the flag is 0, keros_init is at the call that sets it,
\* whatever calls failed, were ignored or ended the process before.
THEOREM WaitIsServed ==
    Spec => [](\A b \in Blocks : thread[b] = "wait" =>
                 g_net_status = 1 \/ pc = "wifi")
<1>1. Init => Served
  BY DEF Init, Served, Started
<1>2. IInv /\ Served /\ [Next]_vars => Served'
  BY ServedStep
<1>3. IInv /\ Served =>
        \A b \in Blocks : thread[b] = "wait" => g_net_status = 1 \/ pc = "wifi"
  BY DEF IInv, TypeOK, Served, Started
<1> QED
  BY <1>1, <1>2, <1>3, InitInvariance, PTL DEF Spec
=============================================================================
