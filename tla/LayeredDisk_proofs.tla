-------------------------- MODULE LayeredDisk_proofs --------------------------
(***************************************************************************)
(* The resolution of a path through the layers, for any number of layers,  *)
(* any mounts, links and paths of any depth: the walk of the layers is a   *)
(* union mount, a reader and a writer get one answer, and a listing shows  *)
(* what a query finds.  The reference definitions are functions by         *)
(* recursion over the components of a path and over the links of a chain;  *)
(* each is shown to be a closed form, which satisfies its equation and is  *)
(* the only function which does.                                           *)
(***************************************************************************)
EXTENDS LayeredDisk, SequenceTheorems, WellFoundedInduction, TLAPS

Names == UNION {Range(p) : p \in Paths}

-----------------------------------------------------------------------------
(* Numbers.  Induction is the least element of a set of numbers.            *)

LEMMA Least == ASSUME NEW S, S \subseteq Nat, S # {} PROVE \E n \in S : \A m \in S : n <= m
<1>1. IsWellFoundedOn(OpToRel(<, Nat), Nat)
  BY NatLessThanWellFounded
<1>2. PICK n \in S : \A m \in S : <<m, n>> \notin OpToRel(<, Nat)
  BY <1>1, WFMin
<1>3. \A m \in S : ~(m < n) /\ m \in Nat /\ n \in Nat
  BY <1>2 DEF OpToRel
<1>4. QED
  BY <1>3

LEMMA ByNat ==
    ASSUME NEW S, S \subseteq Nat, 0 \in S, \A n \in Nat : n \in S => n + 1 \in S
    PROVE  \A n \in Nat : n \in S
<1>1. SUFFICES ASSUME Nat \ S # {} PROVE FALSE
  OBVIOUS
<1>2. PICK n \in Nat \ S : \A m \in Nat \ S : n <= m
  BY <1>1, Least
<1>3. n - 1 \in Nat /\ n - 1 \in S
  BY <1>2
<1>4. QED
  BY <1>3, <1>2

LEMMA FirstIs ==
    ASSUME NEW S, S \subseteq Nat, S # {}
    PROVE  First(S) \in S /\ \A m \in S : First(S) <= m
<1>1. PICK n \in S : \A m \in S : n <= m
  BY Least
<1>2. QED
  BY <1>1 DEF First, Min

LEMMA FirstIsOnly ==
    ASSUME NEW S, S \subseteq Nat, NEW n \in S, \A m \in S : n <= m
    PROVE  First(S) = n
<1>1. First(S) \in S /\ \A m \in S : First(S) <= m
  BY FirstIs
<1>2. First(S) <= n /\ n <= First(S) /\ n \in Nat /\ First(S) \in Nat
  BY <1>1
<1>3. QED
  BY <1>2

-----------------------------------------------------------------------------
(* Paths.                                                                   *)

LEMMA PathIs == ASSUME NEW p \in Paths PROVE p \in Seq(Names) /\ Len(p) \in Nat
<1>1. p \in Seq(Names)
  BY ResolveAssumption DEF Names
<1>2. QED
  BY <1>1

LEMMA PrefixIs ==
    ASSUME NEW p \in Paths, NEW k \in 0..Len(p)
    PROVE  Prefix(p, k) \in Seq(Names) /\ Len(Prefix(p, k)) = k /\ \A i \in 1..k : Prefix(p, k)[i] = p[i]
<1>1. p \in Seq(Names) /\ Len(p) \in Nat /\ k \in Nat /\ k <= Len(p)
  BY PathIs
<1>2. \A i \in 1..k : p[i] \in Names
  BY <1>1
<1>3. /\ SubSeq(p, 1, k) \in Seq(Names)
      /\ Len(SubSeq(p, 1, k)) = IF 1 <= k THEN k - 1 + 1 ELSE 0
      /\ \A i \in 1..(k - 1 + 1) : SubSeq(p, 1, k)[i] = p[1 + i - 1]
  BY <1>1, <1>2, SubSeqProperties
<1>4. k - 1 + 1 = k /\ (1 <= k \/ k = 0)
  BY <1>1
<1>5. \A i \in 1..k : 1 + i - 1 = i
  BY <1>1
<1>6. QED
  BY <1>1, <1>3, <1>4, <1>5 DEF Prefix

\* Two sequences of names are equal when they have the same names.
LEMMA SameNames ==
    ASSUME NEW s \in Seq(Names), NEW t \in Seq(Names), Len(s) = Len(t), \A i \in 1..Len(s) : s[i] = t[i]
    PROVE  s = t
  BY SeqEqual

LEMMA PrefixFull == ASSUME NEW p \in Paths PROVE Prefix(p, Len(p)) = p
<1>1. p \in Seq(Names) /\ Len(p) \in Nat /\ Len(p) \in 0..Len(p)
  BY PathIs
<1>2. Prefix(p, Len(p)) \in Seq(Names) /\ Len(Prefix(p, Len(p))) = Len(p)
      /\ \A i \in 1..Len(p) : Prefix(p, Len(p))[i] = p[i]
  BY <1>1, PrefixIs
<1>3. QED
  BY <1>1, <1>2, SameNames

LEMMA FrontOfPrefix ==
    ASSUME NEW p \in Paths, NEW k \in 1..Len(p)
    PROVE  Front(Prefix(p, k)) = Prefix(p, k - 1) /\ Prefix(p, k) # <<>>
<1> DEFINE q == Prefix(p, k)
<1>1. Len(p) \in Nat /\ k \in Nat /\ k \in 0..Len(p) /\ k - 1 \in 0..Len(p) /\ k - 1 \in Int /\ k # 0
  BY PathIs
<1>2. q \in Seq(Names) /\ Len(q) = k /\ \A i \in 1..k : q[i] = p[i]
  BY <1>1, PrefixIs
<1>3. \A i \in 1..(k - 1) : q[i] \in Names
  BY <1>1, <1>2
<1>4. /\ SubSeq(q, 1, k - 1) \in Seq(Names)
      /\ Len(SubSeq(q, 1, k - 1)) = IF 1 <= k - 1 THEN k - 1 - 1 + 1 ELSE 0
      /\ \A i \in 1..(k - 1 - 1 + 1) : SubSeq(q, 1, k - 1)[i] = q[1 + i - 1]
  BY <1>1, <1>3, SubSeqProperties
<1>5. k - 1 - 1 + 1 = k - 1 /\ (1 <= k - 1 \/ k - 1 = 0) /\ \A i \in 1..(k - 1) : 1 + i - 1 = i /\ i \in 1..k
  BY <1>1
<1>6. Front(q) \in Seq(Names) /\ Len(Front(q)) = k - 1 /\ \A i \in 1..(k - 1) : Front(q)[i] = p[i]
  BY <1>2, <1>4, <1>5 DEF Front
<1>7. /\ Prefix(p, k - 1) \in Seq(Names) /\ Len(Prefix(p, k - 1)) = k - 1
      /\ \A i \in 1..(k - 1) : Prefix(p, k - 1)[i] = p[i]
  BY <1>1, PrefixIs
<1>8. Front(q) = Prefix(p, k - 1)
  BY <1>6, <1>7, SameNames
<1>9. q # <<>>
  BY <1>1, <1>2
<1>10. QED
  BY <1>8, <1>9

LEMMA PrefixIn == ASSUME NEW p \in Paths, NEW k \in 0..Len(p) PROVE Prefix(p, k) \in Paths
<1> DEFINE S == {m \in Nat : m <= Len(p) => Prefix(p, Len(p) - m) \in Paths}
<1>1. Len(p) \in Nat /\ k \in Nat /\ k <= Len(p)
  BY PathIs
<1>2. 0 \in S
  BY <1>1, PrefixFull
<1>3. ASSUME NEW n \in Nat, n \in S PROVE n + 1 \in S
  <2>1. SUFFICES ASSUME n + 1 <= Len(p) PROVE Prefix(p, Len(p) - (n + 1)) \in Paths
    OBVIOUS
  <2>2. Len(p) - n \in 1..Len(p) /\ Len(p) - n - 1 = Len(p) - (n + 1) /\ n <= Len(p)
    BY <1>1, <2>1
  <2>3. Prefix(p, Len(p) - n) \in Paths
    BY <1>3, <2>2
  <2>4. Front(Prefix(p, Len(p) - n)) = Prefix(p, Len(p) - n - 1) /\ Prefix(p, Len(p) - n) # <<>>
    BY <2>2, FrontOfPrefix
  <2>5. QED
    BY <2>2, <2>3, <2>4, ResolveAssumption
<1>4. \A n \in Nat : n \in S
  <2> HIDE DEF S
  <2>1. S \subseteq Nat
    BY DEF S
  <2>2. QED
    BY <1>2, <1>3, <2>1, ByNat
<1>5. Len(p) - k \in Nat /\ Len(p) - k <= Len(p) /\ Len(p) - (Len(p) - k) = k
  BY <1>1
<1>6. QED
  BY <1>4, <1>5

LEMMA PrefixOfPrefix ==
    ASSUME NEW p \in Paths, NEW k \in 0..Len(p), NEW j \in 0..k
    PROVE  Prefix(Prefix(p, k), j) = Prefix(p, j)
<1>1. Len(p) \in Nat /\ k \in Nat /\ j \in Nat /\ j \in 0..Len(p) /\ \A i \in 1..j : i \in 1..k
  BY PathIs
<1>2. Prefix(p, k) \in Paths /\ Len(Prefix(p, k)) = k /\ \A i \in 1..k : Prefix(p, k)[i] = p[i]
  BY PrefixIn, PrefixIs
<1>3. Prefix(Prefix(p, k), j) \in Seq(Names) /\ Len(Prefix(Prefix(p, k), j)) = j
      /\ \A i \in 1..j : Prefix(Prefix(p, k), j)[i] = Prefix(p, k)[i]
  BY <1>2, PrefixIs
<1>4. Prefix(p, j) \in Seq(Names) /\ Len(Prefix(p, j)) = j /\ \A i \in 1..j : Prefix(p, j)[i] = p[i]
  BY <1>1, PrefixIs
<1>5. QED
  BY <1>1, <1>2, <1>3, <1>4, SameNames

LEMMA EmptyPath == <<>> \in Paths /\ Len(<<>>) = 0 /\ \A p \in Paths : Len(p) = 0 => p = <<>>
<1>1. <<>> \in Paths /\ Len(<<>>) = 0
  BY ResolveAssumption
<1>2. ASSUME NEW p \in Paths, Len(p) = 0 PROVE p = <<>>
  BY <1>2, PathIs
<1>3. QED
  BY <1>1, <1>2

\* A path which is not the root, and the folder it lies in.
LEMMA ChildIs ==
    ASSUME NEW q \in Paths, q # <<>>
    PROVE  /\ Len(q) \in Nat /\ Len(q) >= 1 /\ Len(Front(q)) = Len(q) - 1
           /\ Front(q) \in Paths /\ Front(q) = Prefix(q, Len(q) - 1)
           /\ \A k \in 0..(Len(q) - 1) : Prefix(Front(q), k) = Prefix(q, k)
<1>1. Len(q) \in Nat /\ Len(q) # 0
  BY PathIs, EmptyPath
<1>2. Len(q) \in 1..Len(q) /\ Len(q) - 1 \in 0..Len(q)
  BY <1>1
<1>3. Front(q) = Prefix(q, Len(q) - 1)
  BY <1>2, FrontOfPrefix, PrefixFull
<1>4. Front(q) \in Paths /\ Len(Front(q)) = Len(q) - 1
  BY <1>2, <1>3, PrefixIn, PrefixIs
<1>5. \A k \in 0..(Len(q) - 1) : Prefix(Front(q), k) = Prefix(q, k)
  BY <1>2, <1>3, PrefixOfPrefix
<1>6. QED
  BY <1>1, <1>3, <1>4, <1>5

LEMMA LayersAre == Lower \in Nat /\ Layers \subseteq Nat /\ Host \in Layers /\ \A i \in Layers : i <= Host
  BY ResolveAssumption DEF Layers, Upper, Host

LEMMA MountIs == ASSUME NEW i \in Layers PROVE MountOf(i) \in Paths /\ Len(MountOf(i)) \in Nat
<1>1. MountOf(i) \in Paths
  BY ResolveAssumption DEF MountOf
<1>2. QED
  BY <1>1, PathIs

LEMMA MapsIs ==
    ASSUME NEW i \in Layers, NEW p \in Paths
    PROVE  Maps(i, p) <=> Len(MountOf(i)) <= Len(p) /\ Prefix(p, Len(MountOf(i))) = MountOf(i)
<1>1. MountOf(i) \in Paths
  BY MountIs
<1>2. SubSeq(MountOf(i), 1, Len(MountOf(i))) = MountOf(i)
  BY <1>1, PrefixFull DEF Prefix
<1>3. QED
  BY <1>2 DEF Maps, IsPrefix, Prefix

\* Which layers map what lies above a path.
LEMMA MapsPrefix ==
    ASSUME NEW i \in Layers, NEW p \in Paths, NEW k \in 0..Len(p)
    PROVE  Maps(i, Prefix(p, k)) <=> Len(MountOf(i)) <= k /\ Prefix(p, Len(MountOf(i))) = MountOf(i)
<1>1. Prefix(p, k) \in Paths /\ Len(Prefix(p, k)) = k /\ Len(MountOf(i)) \in Nat /\ k \in Nat
  BY PrefixIn, PrefixIs, MountIs, PathIs
<1>2. Len(MountOf(i)) <= k => Prefix(Prefix(p, k), Len(MountOf(i))) = Prefix(p, Len(MountOf(i)))
  BY <1>1, PrefixOfPrefix
<1>3. QED
  BY <1>1, <1>2, MapsIs

-----------------------------------------------------------------------------
(* The stack of a path, without the way to it.                              *)

\* A marker of layer j at or above the component of length k, on the walk of j.
Ended(j, p, k) ==
    /\ Maps(j, Prefix(p, k))
    /\ \E l \in (Len(MountOf(j)) + 1)..k :
           /\ Reaches(disk, j, p, l)
           /\ Prefix(p, l) \in disk[j].whiteout \/ Prefix(p, l - 1) \in disk[j].opaque
OpenAt(p, k)   == {i \in Layers : \A j \in Layers : Ended(j, p, k) => i <= j}
TakingAt(p, k) == {i \in OpenAt(p, k) : Maps(i, Prefix(p, k)) /\ Reaches(disk, i, p, k + 1)}
DeepAt(p, k)   == [layers |-> TakingAt(p, k), open |-> OpenAt(p, k)]

LEMMA ReachesNext ==
    ASSUME NEW i \in Layers, NEW p \in Paths, NEW k \in 0..Len(p), Len(MountOf(i)) <= k
    PROVE  Reaches(disk, i, p, k + 1) <=>
               /\ Reaches(disk, i, p, k)
               /\ disk[i].node[Prefix(p, k)] # None /\ Prefix(p, k) \notin disk[i].whiteout
<1>1. Len(MountOf(i)) \in Nat /\ k \in Nat /\ k + 1 - 1 = k
  BY MountIs, PathIs
<1>2. NodeAt(disk, i, Prefix(p, k)) = disk[i].node[Prefix(p, k)]
  BY PrefixIn DEF NodeAt
<1>3. Len(MountOf(i))..k = (Len(MountOf(i))..(k - 1)) \cup {k}
  BY <1>1
<1>4. QED
  BY <1>1, <1>2, <1>3 DEF Reaches

LEMMA EndedNext ==
    ASSUME NEW j \in Layers, NEW p \in Paths, NEW k \in 1..Len(p)
    PROVE  Ended(j, p, k) <=>
               \/ Ended(j, p, k - 1)
               \/ /\ Maps(j, Prefix(p, k - 1)) /\ Reaches(disk, j, p, k)
                  /\ Prefix(p, k) \in disk[j].whiteout \/ Prefix(p, k - 1) \in disk[j].opaque
<1> DEFINE m == Len(MountOf(j))
           hides(l) == Reaches(disk, j, p, l)
                       /\ (Prefix(p, l) \in disk[j].whiteout \/ Prefix(p, l - 1) \in disk[j].opaque)
<1>1. m \in Nat /\ k \in Nat /\ k \in 0..Len(p) /\ k - 1 \in 0..Len(p)
  BY MountIs, PathIs
<1>2. Maps(j, Prefix(p, k)) <=> m <= k /\ Prefix(p, m) = MountOf(j)
  BY <1>1, MapsPrefix
<1>3. Maps(j, Prefix(p, k - 1)) <=> m <= k - 1 /\ Prefix(p, m) = MountOf(j)
  BY <1>1, MapsPrefix
<1>4. Ended(j, p, k) <=> Maps(j, Prefix(p, k)) /\ \E l \in (m + 1)..k : hides(l)
  BY DEF Ended
<1>5. Ended(j, p, k - 1) <=> Maps(j, Prefix(p, k - 1)) /\ \E l \in (m + 1)..(k - 1) : hides(l)
  BY DEF Ended
<1>6. hides(k) <=> Reaches(disk, j, p, k)
                   /\ (Prefix(p, k) \in disk[j].whiteout \/ Prefix(p, k - 1) \in disk[j].opaque)
  OBVIOUS
<1> HIDE DEF m, hides
<1>7. m + 1 <= k => (m + 1)..k = ((m + 1)..(k - 1)) \cup {k}
  BY <1>1
<1>8. CASE m + 1 <= k
  <2>1. m <= k /\ m <= k - 1
    BY <1>1, <1>8
  <2>2. (\E l \in (m + 1)..k : hides(l)) <=> (\E l \in (m + 1)..(k - 1) : hides(l)) \/ hides(k)
    BY <1>7, <1>8
  <2>3. QED
    BY <2>1, <2>2, <1>2, <1>3, <1>4, <1>5, <1>6
<1>9. CASE ~(m + 1 <= k)
  <2>1. ~(m <= k - 1) /\ (m + 1)..k = {} /\ (m + 1)..(k - 1) = {}
    BY <1>1, <1>9
  <2>2. QED
    BY <2>1, <1>2, <1>3, <1>4, <1>5
<1>10. QED
  BY <1>8, <1>9

LEMMA NoneEndedAtRoot == ASSUME NEW j \in Layers, NEW p \in Paths PROVE ~Ended(j, p, 0)
<1>1. Len(MountOf(j)) \in Nat
  BY MountIs
<1>2. (Len(MountOf(j)) + 1)..0 = {}
  BY <1>1
<1>3. QED
  BY <1>2 DEF Ended

LEMMA FolderAtRoot == ASSUME NEW p \in Paths PROVE Folder(p, 0, Drive) = DeepAt(p, 0)
<1> DEFINE q == Prefix(p, 0)
           takes == {i \in Layers : MountOf(i) = q /\ disk[i].node[q] # None /\ q \notin disk[i].whiteout}
<1>1. Len(p) \in Nat /\ 0 \in 0..Len(p)
  BY PathIs
<1>2. q \in Paths /\ q = <<>>
  BY <1>1, PrefixIn, PrefixIs, EmptyPath
<1>3. OpenAt(p, 0) = Layers
  BY NoneEndedAtRoot DEF OpenAt
<1>4. Folder(p, 0, Drive) = [open |-> Layers, layers |-> takes]
  BY DEF Folder, Drive
<1>5. ASSUME NEW i \in Layers
      PROVE  Maps(i, q) /\ Reaches(disk, i, p, 1) <=> i \in takes
  <2>1. Maps(i, q) <=> Len(MountOf(i)) <= 0 /\ Prefix(p, Len(MountOf(i))) = MountOf(i)
    BY <1>1, MapsPrefix
  <2>2. MountOf(i) \in Paths /\ Len(MountOf(i)) \in Nat
    BY MountIs
  <2>3. Maps(i, q) <=> MountOf(i) = q
    BY <2>1, <2>2, <1>2, EmptyPath
  <2>4. ASSUME Maps(i, q)
        PROVE  Reaches(disk, i, p, 1) <=> disk[i].node[q] # None /\ q \notin disk[i].whiteout
    <3>1. Len(MountOf(i)) = 0
      BY <2>4, <2>3, <1>2, EmptyPath
    <3>2. Reaches(disk, i, p, 0)
      BY <3>1 DEF Reaches
    <3>3. Reaches(disk, i, p, 0 + 1) <=>
              /\ Reaches(disk, i, p, 0)
              /\ disk[i].node[Prefix(p, 0)] # None /\ Prefix(p, 0) \notin disk[i].whiteout
      BY <1>1, <3>1, ReachesNext
    <3>4. QED
      BY <3>2, <3>3
  <2>5. QED
    BY <2>3, <2>4
<1>6. TakingAt(p, 0) = takes
  BY <1>3, <1>5 DEF TakingAt
<1>7. QED
  BY <1>3, <1>4, <1>6 DEF DeepAt

LEMMA OpenBelow ==
    ASSUME NEW p \in Paths, NEW k \in 1..Len(p)
    PROVE  LET ended == {j \in TakingAt(p, k - 1) :
                            Prefix(p, k - 1) \in disk[j].opaque \/ Prefix(p, k) \in disk[j].whiteout}
           IN  {i \in OpenAt(p, k - 1) : \A j \in ended : i <= j} = OpenAt(p, k)
<1> DEFINE hides(j) == /\ Maps(j, Prefix(p, k - 1)) /\ Reaches(disk, j, p, k)
                       /\ Prefix(p, k) \in disk[j].whiteout \/ Prefix(p, k - 1) \in disk[j].opaque
           ended == {j \in TakingAt(p, k - 1) :
                        Prefix(p, k - 1) \in disk[j].opaque \/ Prefix(p, k) \in disk[j].whiteout}
<1>1. k - 1 + 1 = k /\ Layers \subseteq Nat
  BY LayersAre
<1>2. \A j \in Layers : Ended(j, p, k) <=> Ended(j, p, k - 1) \/ hides(j)
  BY EndedNext
<1>3. ended = {j \in OpenAt(p, k - 1) : hides(j)}
  BY <1>1 DEF TakingAt
<1>4. ASSUME NEW i \in OpenAt(p, k - 1), \A j \in ended : i <= j PROVE i \in OpenAt(p, k)
  <2>1. i \in Layers /\ \A j \in Layers : Ended(j, p, k - 1) => i <= j
    BY <1>4 DEF OpenAt
  <2>2. ASSUME NEW j \in Layers, hides(j), j \notin OpenAt(p, k - 1) PROVE i <= j
    <3>1. PICK l \in Layers : Ended(l, p, k - 1) /\ ~(j <= l)
      BY <2>2 DEF OpenAt
    <3>2. i <= l
      BY <3>1, <2>1
    <3>3. QED
      BY <3>1, <3>2, <2>1, <1>1
  <2>3. ASSUME NEW j \in Layers, hides(j), j \in OpenAt(p, k - 1) PROVE i <= j
    BY <2>3, <1>3, <1>4
  <2>4. \A j \in Layers : Ended(j, p, k) => i <= j
    BY <2>1, <2>2, <2>3, <1>2
  <2>5. QED
    BY <2>1, <2>4 DEF OpenAt
<1>5. ASSUME NEW i \in OpenAt(p, k) PROVE i \in OpenAt(p, k - 1) /\ \A j \in ended : i <= j
  <2>1. i \in Layers /\ \A j \in Layers : Ended(j, p, k) => i <= j
    BY <1>5 DEF OpenAt
  <2>2. i \in OpenAt(p, k - 1)
    BY <2>1, <1>2 DEF OpenAt
  <2>3. \A j \in ended : j \in Layers /\ hides(j)
    BY <1>3 DEF OpenAt
  <2>4. QED
    BY <2>1, <2>2, <2>3, <1>2
<1> HIDE DEF ended
<1>6. {i \in OpenAt(p, k - 1) : \A j \in ended : i <= j} = OpenAt(p, k)
  BY <1>4, <1>5
<1>7. QED
  BY <1>6 DEF ended

LEMMA FolderBelow ==
    ASSUME NEW p \in Paths, NEW k \in 1..Len(p)
    PROVE  Folder(p, k, DeepAt(p, k - 1)) = DeepAt(p, k)
<1> DEFINE q == Prefix(p, k)
           ended == {j \in TakingAt(p, k - 1) : Prefix(p, k - 1) \in disk[j].opaque \/ q \in disk[j].whiteout}
           open == {i \in OpenAt(p, k - 1) : \A j \in ended : i <= j}
           takes == {i \in open : /\ i \in TakingAt(p, k - 1) \/ MountOf(i) = q
                                  /\ disk[i].node[q] # None /\ q \notin disk[i].whiteout}
<1>1. k \in 0..Len(p) /\ k - 1 \in 0..Len(p) /\ k \in Nat /\ k - 1 + 1 = k
  BY PathIs
<1>2. Folder(p, k, DeepAt(p, k - 1)) = [open |-> open, layers |-> takes]
  BY DEF Folder, DeepAt
<1>3. open = OpenAt(p, k)
  BY OpenBelow
<1> HIDE DEF open
<1>4. OpenAt(p, k) \subseteq OpenAt(p, k - 1)
  BY <1>3 DEF open
<1>5. ASSUME NEW i \in OpenAt(p, k)
      PROVE  Maps(i, q) /\ Reaches(disk, i, p, k + 1) <=>
                 /\ i \in TakingAt(p, k - 1) \/ MountOf(i) = q
                 /\ disk[i].node[q] # None /\ q \notin disk[i].whiteout
  <2> DEFINE m == Len(MountOf(i))
  <2>1. i \in Layers /\ m \in Nat
    BY MountIs DEF OpenAt
  <2>2. Maps(i, q) <=> m <= k /\ Prefix(p, m) = MountOf(i)
    BY <1>1, <2>1, MapsPrefix
  <2>3. Maps(i, Prefix(p, k - 1)) <=> m <= k - 1 /\ Prefix(p, m) = MountOf(i)
    BY <1>1, <2>1, MapsPrefix
  <2>4. i \in TakingAt(p, k - 1) <=> Maps(i, Prefix(p, k - 1)) /\ Reaches(disk, i, p, k)
    BY <1>1, <1>4 DEF TakingAt
  <2>5. m <= k => (Reaches(disk, i, p, k + 1) <=>
                      /\ Reaches(disk, i, p, k)
                      /\ disk[i].node[q] # None /\ q \notin disk[i].whiteout)
    BY <1>1, <2>1, ReachesNext
  <2>6. m = k => Reaches(disk, i, p, k)
    BY <1>1 DEF Reaches
  <2>7. MountOf(i) = q => m = k /\ Prefix(p, m) = MountOf(i)
    BY <1>1, PrefixIs
  <2>8. m = k /\ Prefix(p, m) = MountOf(i) => MountOf(i) = q
    OBVIOUS
  <2>9. m <= k => m <= k - 1 \/ m = k
    BY <2>1, <1>1
  <2>10. m <= k - 1 => m <= k
    BY <2>1, <1>1
  <2>11. m = k => m <= k
    BY <1>1
  <2> HIDE DEF m, q
  <2>12. QED
    BY <2>2, <2>3, <2>4, <2>5, <2>6, <2>7, <2>8, <2>9, <2>10, <2>11
<1>6. takes = TakingAt(p, k)
  BY <1>3, <1>5 DEF TakingAt
<1>7. QED
  BY <1>2, <1>3, <1>6 DEF DeepAt

\* The folders of a path one after the other come to the closed form, which satisfies
\* their equation and is the only one which does.
LEMMA StackIs == ASSUME NEW p \in Paths PROVE Stack(p) = TakingAt(p, Len(p))
<1> DEFINE at[k \in 0..Len(p)] == Folder(p, k, IF k = 0 THEN Drive ELSE at[k - 1])
           deep == [k \in 0..Len(p) |-> DeepAt(p, k)]
           S == {n \in Nat : n <= Len(p) => at[n] = DeepAt(p, n)}
<1>1. Len(p) \in Nat
  BY PathIs
<1>2. \A k \in 0..Len(p) : k = 0 \/ (k \in 1..Len(p) /\ k - 1 \in 0..Len(p))
  BY <1>1
<1>3. \A k \in 0..Len(p) : DeepAt(p, k) = Folder(p, k, IF k = 0 THEN Drive ELSE DeepAt(p, k - 1))
  BY <1>2, FolderAtRoot, FolderBelow
<1>4. \A k \in 0..Len(p) : k # 0 => deep[k - 1] = DeepAt(p, k - 1)
  BY <1>2
<1>5. deep = [k \in 0..Len(p) |-> Folder(p, k, IF k = 0 THEN Drive ELSE deep[k - 1])]
  BY <1>3, <1>4
<1>6. \E f : f = [k \in 0..Len(p) |-> Folder(p, k, IF k = 0 THEN Drive ELSE f[k - 1])]
  <2> HIDE DEF deep
  <2>1. QED
    BY <1>5
<1>7. at = [k \in 0..Len(p) |-> Folder(p, k, IF k = 0 THEN Drive ELSE at[k - 1])]
  BY <1>6 DEF at
<1> HIDE DEF at
<1>8. 0 \in S
  BY <1>1, <1>7, FolderAtRoot
<1>9. ASSUME NEW n \in Nat, n \in S PROVE n + 1 \in S
  <2>1. SUFFICES ASSUME n + 1 <= Len(p) PROVE at[n + 1] = DeepAt(p, n + 1)
    OBVIOUS
  <2>2. n + 1 \in 1..Len(p) /\ n + 1 \in 0..Len(p) /\ n + 1 # 0 /\ n + 1 - 1 = n /\ n <= Len(p)
    BY <1>1, <2>1
  <2>3. at[n] = DeepAt(p, n)
    BY <1>9, <2>2
  <2>4. at[n + 1] = Folder(p, n + 1, at[n])
    BY <1>7, <2>2
  <2>5. Folder(p, n + 1, DeepAt(p, n)) = DeepAt(p, n + 1)
    BY <2>2, FolderBelow
  <2>6. QED
    BY <2>3, <2>4, <2>5
<1>10. \A n \in Nat : n \in S
  <2> HIDE DEF S
  <2>1. S \subseteq Nat
    BY DEF S
  <2>2. QED
    BY <1>8, <1>9, <2>1, ByNat
<1>11. at[Len(p)] = DeepAt(p, Len(p))
  BY <1>1, <1>10
<1>12. Stack(p) = at[Len(p)].layers
  BY DEF Stack, at
<1>13. QED
  BY <1>11, <1>12 DEF DeepAt

-----------------------------------------------------------------------------
(* What the walk of one layer finds is what its stack says.                 *)

MountsUnmarked == \A i \in Layers : MountOf(i) \notin disk[i].whiteout

LEMMA MapsWhole ==
    ASSUME NEW i \in Layers, NEW p \in Paths, Maps(i, p)
    PROVE  /\ Len(MountOf(i)) \in Nat /\ Len(p) \in Nat /\ Len(MountOf(i)) <= Len(p)
           /\ Prefix(p, Len(MountOf(i))) = MountOf(i) /\ Prefix(p, Len(p)) = p
           /\ Maps(i, Prefix(p, Len(p)))
  BY MapsIs, MountIs, PathIs, PrefixFull

LEMMA MarkedIs ==
    ASSUME NEW j \in Layers, NEW p \in Paths, Maps(j, p), MountsUnmarked
    PROVE  Marked(disk, j, p) <=> Ended(j, p, Len(p))
<1> DEFINE m == Len(MountOf(j))
<1>1. m \in Nat /\ Len(p) \in Nat /\ m <= Len(p) /\ Prefix(p, m) = MountOf(j) /\ Maps(j, Prefix(p, Len(p)))
  BY MapsWhole
<1>2. Prefix(p, m) \notin disk[j].whiteout
  BY <1>1 DEF MountsUnmarked
<1>3. WhiteoutFound(disk, j, p) <=>
          \E l \in (m + 1)..Len(p) : Reaches(disk, j, p, l) /\ Prefix(p, l) \in disk[j].whiteout
  <2>1. m..Len(p) = {m} \cup ((m + 1)..Len(p))
    BY <1>1
  <2>2. QED
    BY <1>2, <2>1 DEF WhiteoutFound, Walk
<1>4. OpaqueFound(disk, j, p) <=>
          \E l \in (m + 1)..Len(p) : Reaches(disk, j, p, l) /\ Prefix(p, l - 1) \in disk[j].opaque
  <2>1. ASSUME NEW k \in m..Len(p), k < Len(p)
        PROVE  k + 1 \in (m + 1)..Len(p) /\ k + 1 - 1 = k
    BY <1>1, <2>1
  <2>2. ASSUME NEW l \in (m + 1)..Len(p)
        PROVE  l - 1 \in m..Len(p) /\ l - 1 < Len(p) /\ l - 1 + 1 = l
    BY <1>1
  <2>3. ASSUME OpaqueFound(disk, j, p)
        PROVE  \E l \in (m + 1)..Len(p) : Reaches(disk, j, p, l) /\ Prefix(p, l - 1) \in disk[j].opaque
    <3>1. PICK k \in m..Len(p) : k < Len(p) /\ Reaches(disk, j, p, k + 1) /\ Prefix(p, k) \in disk[j].opaque
      BY <2>3 DEF OpaqueFound, Walk
    <3>2. k + 1 \in (m + 1)..Len(p) /\ k + 1 - 1 = k
      BY <3>1, <2>1
    <3>3. QED
      BY <3>1, <3>2
  <2>4. ASSUME NEW l \in (m + 1)..Len(p), Reaches(disk, j, p, l), Prefix(p, l - 1) \in disk[j].opaque
        PROVE  OpaqueFound(disk, j, p)
    BY <2>2, <2>4 DEF OpaqueFound, Walk
  <2>5. QED
    BY <2>3, <2>4
<1>5. Ended(j, p, Len(p)) <=>
          \E l \in (m + 1)..Len(p) :
              /\ Reaches(disk, j, p, l)
              /\ Prefix(p, l) \in disk[j].whiteout \/ Prefix(p, l - 1) \in disk[j].opaque
  BY <1>1 DEF Ended
<1> HIDE DEF m
<1>6. QED
  BY <1>3, <1>4, <1>5 DEF Marked

LEMMA HitIs ==
    ASSUME NEW i \in Layers, NEW p \in Paths, Maps(i, p)
    PROVE  HitIn(disk, i, p) <=> Reaches(disk, i, p, Len(p) + 1)
<1>1. Len(MountOf(i)) <= Len(p) /\ Len(p) \in 0..Len(p) /\ Prefix(p, Len(p)) = p
  BY MapsWhole
<1>2. Reaches(disk, i, p, Len(p) + 1) <=>
          /\ Reaches(disk, i, p, Len(p)) /\ disk[i].node[Prefix(p, Len(p))] # None
          /\ Prefix(p, Len(p)) \notin disk[i].whiteout
  BY <1>1, ReachesNext
<1>3. NodeAt(disk, i, p) = disk[i].node[p]
  BY DEF NodeAt
<1>4. QED
  BY <1>1, <1>2, <1>3 DEF HitIn

\* The layers a search finds an entry in, before the table masks some of them.
RawHits(p, stopFirst) == {i \in Searched(disk, p, stopFirst) : HitIn(disk, i, p)}

LEMMA RawHitsAreStack ==
    ASSUME NEW p \in Paths, MountsUnmarked
    PROVE  RawHits(p, FALSE) = Stack(p)
<1>1. Stack(p) = TakingAt(p, Len(p))
  BY StackIs
<1>2. Len(p) \in Nat /\ Prefix(p, Len(p)) = p
  BY PathIs, PrefixFull
<1>3. \A i, j \in Layers : (j < i <=> ~(i <= j))
  BY LayersAre
<1>4. ASSUME NEW j \in Layers
      PROVE  Ended(j, p, Len(p)) <=> Maps(j, p) /\ Marked(disk, j, p)
  <2>1. Ended(j, p, Len(p)) => Maps(j, p)
    BY <1>2 DEF Ended
  <2>2. QED
    BY <2>1, MarkedIs
<1>5. ASSUME NEW i \in Layers
      PROVE  i \in RawHits(p, FALSE) <=> i \in TakingAt(p, Len(p))
  <2>1. i \in RawHits(p, FALSE) <=>
            /\ Maps(i, p) /\ HitIn(disk, i, p)
            /\ \A j \in Layers : j < i /\ Maps(j, p) => ~Marked(disk, j, p)
    BY DEF RawHits, Searched
  <2>2. i \in TakingAt(p, Len(p)) <=>
            /\ Maps(i, p) /\ Reaches(disk, i, p, Len(p) + 1)
            /\ \A j \in Layers : Ended(j, p, Len(p)) => i <= j
    BY <1>2 DEF TakingAt, OpenAt
  <2>3. Maps(i, p) => (HitIn(disk, i, p) <=> Reaches(disk, i, p, Len(p) + 1))
    BY HitIs
  <2>4. (\A j \in Layers : j < i /\ Maps(j, p) => ~Marked(disk, j, p))
        <=> (\A j \in Layers : Ended(j, p, Len(p)) => i <= j)
    BY <1>3, <1>4
  <2>5. QED
    BY <2>1, <2>2, <2>3, <2>4
<1>6. RawHits(p, FALSE) \subseteq Layers /\ TakingAt(p, Len(p)) \subseteq Layers
  BY DEF RawHits, Searched, TakingAt, OpenAt
<1>7. QED
  BY <1>1, <1>5, <1>6

\* The hits of a writer are the stack, the masked layers apart.
LEMMA WalkOfState == ASSUME MountsUnmarked PROVE WalkIsUnion
<1>1. SUFFICES ASSUME NEW p \in Paths
               PROVE  ResolvePlain(disk, iso, p, FALSE).hits = {i \in Stack(p) : ~Masked(Lookup(iso, p), i)}
  BY DEF WalkIsUnion
<1>2. ResolvePlain(disk, iso, p, FALSE).hits = HitsShown(disk, p, Lookup(iso, p), Searched(disk, p, FALSE))
  BY DEF ResolvePlain, ResolutionOf, Resolution
<1>3. HitsShown(disk, p, Lookup(iso, p), Searched(disk, p, FALSE))
          = {i \in RawHits(p, FALSE) : ~Masked(Lookup(iso, p), i)}
  BY DEF HitsShown, RawHits
<1>4. QED
  BY <1>2, <1>3, RawHitsAreStack

-----------------------------------------------------------------------------
(* The disks which are built.                                               *)

\* A layer holds its mount, which no marker hides, and nothing outside; what it holds
\* lies in a folder of the layer.
Rooted ==
    \A i \in Layers :
        /\ disk[i].node[MountOf(i)] = Dir
        /\ MountOf(i) \notin disk[i].whiteout
        /\ \A p \in Paths : p # MountOf(i) /\ disk[i].node[p] # None =>
               p # <<>> /\ IsPrefix(MountOf(i), p) /\ disk[i].node[Front(p)] = Dir
DiskInv == disk \in Disks /\ Rooted

LEMMA NoneIsNoDir == None # Dir /\ None \in Nodes /\ Dir \in Nodes
  BY DEF None, Dir, Nodes

\* The bare layers.
LEMMA DiskInit == Init => DiskInv
<1>1. SUFFICES ASSUME Init PROVE DiskInv
  OBVIOUS
<1>2. ASSUME NEW i \in Layers
      PROVE  /\ BareLayer(i) \in Layer /\ BareLayer(i).whiteout = {}
             /\ \A p \in Paths : BareLayer(i).node[p] = IF p = MountOf(i) THEN Dir ELSE None
  BY NoneIsNoDir DEF BareLayer, Layer
<1>3. disk = [i \in Layers |-> BareLayer(i)]
  BY <1>1 DEF Init
<1>4. disk \in Disks
  BY <1>2, <1>3 DEF Disks
<1>5. ASSUME NEW i \in Layers
      PROVE  /\ disk[i].node[MountOf(i)] = Dir /\ MountOf(i) \notin disk[i].whiteout
             /\ \A p \in Paths : p # MountOf(i) => disk[i].node[p] = None
  BY <1>2, <1>3, MountIs
<1>6. Rooted
  BY <1>5 DEF Rooted
<1>7. QED
  BY <1>4, <1>6 DEF DiskInv

\* A step which puts an object into a layer where there was none.
LEMMA PutNodeKeeps ==
    ASSUME DiskInv, NEW i \in Layers, NEW p \in Paths, PutNode(i, p)
    PROVE  DiskInv'
<1>1. PICK n \in Nodes \ {None} : disk' = [disk EXCEPT ![i].node[p] = n]
  BY DEF PutNode
<1>2. p # <<>> /\ MountOf(i) # p /\ IsPrefix(MountOf(i), p) /\ disk[i].node[Front(p)] = Dir /\ disk[i].node[p] = None
  BY DEF PutNode, Room
<1>3. disk \in [Layers -> Layer] /\ \A j \in Layers : disk[j] \in Layer
  BY DEF DiskInv, Disks
<1>4. /\ disk' \in [Layers -> Layer]
      /\ disk'[i].whiteout = disk[i].whiteout
      /\ disk'[i].node = [disk[i].node EXCEPT ![p] = n]
      /\ \A j \in Layers : j # i => disk'[j] = disk[j]
  BY <1>1, <1>3 DEF Layer
<1>5. \A q \in Paths : disk'[i].node[q] = IF q = p THEN n ELSE disk[i].node[q]
  BY <1>3, <1>4 DEF Layer
<1>6. ASSUME NEW j \in Layers
      PROVE  /\ disk'[j].node[MountOf(j)] = Dir /\ MountOf(j) \notin disk'[j].whiteout
             /\ \A q \in Paths : q # MountOf(j) /\ disk'[j].node[q] # None =>
                    q # <<>> /\ IsPrefix(MountOf(j), q) /\ disk'[j].node[Front(q)] = Dir
  <2>1. /\ disk[j].node[MountOf(j)] = Dir /\ MountOf(j) \notin disk[j].whiteout
        /\ \A q \in Paths : q # MountOf(j) /\ disk[j].node[q] # None =>
               q # <<>> /\ IsPrefix(MountOf(j), q) /\ disk[j].node[Front(q)] = Dir
    BY DEF DiskInv, Rooted
  <2>2. CASE j # i
    BY <1>4, <2>1, <2>2
  <2>3. CASE j = i
    <3>1. MountOf(i) \in Paths /\ disk'[i].node[MountOf(i)] = Dir
      BY <1>2, <1>5, <2>1, <2>3, MountIs
    <3>2. MountOf(i) \notin disk'[i].whiteout
      BY <1>4, <2>1, <2>3
    <3>3. ASSUME NEW q \in Paths, q # <<>>, disk[i].node[Front(q)] = Dir
          PROVE  disk'[i].node[Front(q)] = Dir
      BY <3>3, <1>2, <1>5, NoneIsNoDir, ChildIs
    <3>4. ASSUME NEW q \in Paths, q # MountOf(i), disk'[i].node[q] # None
          PROVE  q # <<>> /\ IsPrefix(MountOf(i), q) /\ disk'[i].node[Front(q)] = Dir
      BY <3>3, <3>4, <1>2, <1>5, <2>1, <2>3
    <3>5. QED
      BY <3>1, <3>2, <3>4, <2>3
  <2>4. QED
    BY <2>2, <2>3
<1>7. QED
  BY <1>4, <1>6 DEF DiskInv, Disks, Rooted

\* A marker changes no object, and none is put at the mount.
LEMMA PutMarkerKeeps ==
    ASSUME DiskInv, NEW i \in Layers, NEW p \in Paths, PutWhiteout(i, p) \/ PutOpaque(i, p)
    PROVE  DiskInv'
<1>1. disk \in [Layers -> Layer] /\ \A j \in Layers : disk[j] \in Layer
  BY DEF DiskInv, Disks
<1>2. /\ disk' \in [Layers -> Layer]
      /\ \A j \in Layers : disk'[j].node = disk[j].node
      /\ \A j \in Layers : MountOf(j) \in disk'[j].whiteout => MountOf(j) \in disk[j].whiteout
  <2>1. CASE PutWhiteout(i, p)
    <3>1. disk' = [disk EXCEPT ![i].whiteout = @ \cup {p}] /\ MountOf(i) # p
      BY <2>1 DEF PutWhiteout, Room
    <3>2. /\ disk' \in [Layers -> Layer]
          /\ disk'[i].whiteout = disk[i].whiteout \cup {p} /\ disk'[i].node = disk[i].node
          /\ \A j \in Layers : j # i => disk'[j] = disk[j]
      BY <1>1, <3>1 DEF Layer
    <3>3. QED
      BY <3>1, <3>2
  <2>2. CASE PutOpaque(i, p)
    <3>1. disk' = [disk EXCEPT ![i].opaque = @ \cup {p}]
      BY <2>2 DEF PutOpaque
    <3>2. /\ disk' \in [Layers -> Layer]
          /\ disk'[i].whiteout = disk[i].whiteout /\ disk'[i].node = disk[i].node
          /\ \A j \in Layers : j # i => disk'[j] = disk[j]
      BY <1>1, <3>1 DEF Layer
    <3>3. QED
      BY <3>2
  <2>3. QED
    BY <2>1, <2>2
<1>3. Rooted'
  BY <1>2 DEF DiskInv, Rooted
<1>4. QED
  BY <1>2, <1>3 DEF DiskInv, Disks

LEMMA DiskNext == DiskInv /\ [Next]_vars => DiskInv'
<1>1. SUFFICES ASSUME DiskInv, [Next]_vars PROVE DiskInv'
  OBVIOUS
<1>2. CASE \E i \in Layers, p \in Paths : PutNode(i, p)
  BY <1>1, <1>2, PutNodeKeeps
<1>3. CASE \E i \in Layers, p \in Paths : PutWhiteout(i, p) \/ PutOpaque(i, p)
  BY <1>1, <1>3, PutMarkerKeeps
<1>4. ASSUME UNCHANGED disk PROVE DiskInv'
  BY <1>1, <1>4 DEF DiskInv, Rooted
<1>5. CASE \E p \in Paths : List(p)
  BY <1>4, <1>5 DEF List
<1>6. CASE UNCHANGED vars
  BY <1>4, <1>6 DEF vars
<1>7. QED
  BY <1>1, <1>2, <1>3, <1>5, <1>6 DEF Next

\* On every disk which is built a layer holds its mount, which no marker hides, and
\* whatever else it holds lies in a folder of the layer.
THEOREM DisksAreRooted == Spec => []DiskInv
  BY DiskInit, DiskNext, PTL DEF Spec

\* ResolveSearchInMultipleLayer(): the layers it finds a path in, those the table masks
\* apart, are the stack of folders of a union mount, at any depth.
THEOREM WalkIsAUnion == Spec => []WalkIsUnion
<1>1. DiskInv => WalkIsUnion
  BY WalkOfState DEF DiskInv, Rooted, MountsUnmarked
<1>2. QED
  BY <1>1, DisksAreRooted, PTL

-----------------------------------------------------------------------------
(* A reader and a writer of one path, without links.                        *)

LEMMA SearchedIn ==
    ASSUME NEW p \in Paths, NEW stop \in BOOLEAN
    PROVE  Searched(disk, p, stop) \subseteq Layers /\ RawHits(p, stop) \subseteq Searched(disk, p, stop)
           /\ RawHits(p, stop) \subseteq Nat
<1>1. Searched(disk, p, stop) \subseteq Layers /\ RawHits(p, stop) \subseteq Searched(disk, p, stop)
  BY DEF Searched, RawHits
<1>2. QED
  BY <1>1, LayersAre

\* A reader asks the layers of a writer down to the first hit.
LEMMA ReaderSearches ==
    ASSUME NEW p \in Paths, NEW i \in Layers
    PROVE  i \in Searched(disk, p, TRUE) <=>
               i \in Searched(disk, p, FALSE) /\ \A j \in RawHits(p, FALSE) : ~(j < i)
<1>1. i \in Searched(disk, p, FALSE) <=>
          Maps(i, p) /\ \A j \in Layers : j < i /\ Maps(j, p) => ~Marked(disk, j, p)
  BY DEF Searched
<1>2. i \in Searched(disk, p, TRUE) <=>
          /\ Maps(i, p)
          /\ \A j \in Layers : j < i /\ Maps(j, p) => ~Marked(disk, j, p) /\ ~HitIn(disk, j, p)
  BY DEF Searched
<1>3. ASSUME i \in Searched(disk, p, FALSE), NEW j \in Layers, j < i, Maps(j, p), HitIn(disk, j, p)
      PROVE  j \in RawHits(p, FALSE)
  <2>1. \A l \in Layers : l < j => l < i
    BY <1>3, LayersAre
  <2>2. j \in Searched(disk, p, FALSE)
    BY <1>1, <1>3, <2>1 DEF Searched
  <2>3. QED
    BY <1>3, <2>2 DEF RawHits
<1>4. \A j \in RawHits(p, FALSE) : j \in Layers /\ Maps(j, p) /\ HitIn(disk, j, p)
  BY DEF RawHits, Searched
<1>5. QED
  BY <1>1, <1>2, <1>3, <1>4

LEMMA ReaderHits ==
    ASSUME NEW p \in Paths
    PROVE  /\ RawHits(p, FALSE) = {} => /\ Searched(disk, p, TRUE) = Searched(disk, p, FALSE)
                                        /\ RawHits(p, TRUE) = {}
           /\ RawHits(p, FALSE) # {} => RawHits(p, TRUE) = {First(RawHits(p, FALSE))}
           /\ Searched(disk, p, TRUE) \subseteq Searched(disk, p, FALSE)
<1>1. Searched(disk, p, TRUE) \subseteq Layers /\ Searched(disk, p, FALSE) \subseteq Layers
      /\ RawHits(p, FALSE) \subseteq Nat /\ RawHits(p, FALSE) \subseteq Layers
  BY SearchedIn
<1>2. \A i \in Layers : i \in RawHits(p, TRUE) <=>
                            i \in RawHits(p, FALSE) /\ \A j \in RawHits(p, FALSE) : ~(j < i)
  BY ReaderSearches DEF RawHits
<1>3. RawHits(p, TRUE) \subseteq Layers
  BY SearchedIn
<1>4. RawHits(p, FALSE) = {} => /\ Searched(disk, p, TRUE) = Searched(disk, p, FALSE)
                               /\ RawHits(p, TRUE) = {}
  BY <1>1, <1>2, <1>3, ReaderSearches
<1>5. ASSUME RawHits(p, FALSE) # {} PROVE RawHits(p, TRUE) = {First(RawHits(p, FALSE))}
  <2> DEFINE h == First(RawHits(p, FALSE))
  <2>1. h \in RawHits(p, FALSE) /\ \A j \in RawHits(p, FALSE) : h <= j
    BY <1>1, <1>5, FirstIs
  <2> HIDE DEF h
  <2>2. ASSUME NEW j \in RawHits(p, FALSE) PROVE ~(j < h) /\ (~(h < j) => j = h)
    <3>1. j \in Nat /\ h \in Nat /\ h <= j
      BY <1>1, <2>1
    <3>2. QED
      BY <3>1
  <2>3. h \in RawHits(p, TRUE)
    BY <1>1, <1>2, <2>1, <2>2
  <2>4. \A i \in RawHits(p, TRUE) : i = h
    BY <1>2, <1>3, <2>1, <2>2
  <2>5. RawHits(p, TRUE) = {h}
    BY <2>3, <2>4
  <2>6. QED
    BY <2>5 DEF h
<1>6. QED
  BY <1>1, <1>4, <1>5, ReaderSearches

\* What the table masks in a layer it masks in every layer below.
LEMMA MaskedBelow ==
    ASSUME NEW e, NEW i \in Layers, NEW j \in Layers, i <= j, Masked(e, i)
    PROVE  Masked(e, j)
<1>1. i \in Nat /\ j \in Nat /\ i <= Host /\ j <= Host /\ Host \in Nat
  BY LayersAre
<1>2. i # 0 /\ (HidesLower(e) \/ (HidesHost(e) /\ i = Host))
  BY DEF Masked, Upper
<1>3. j # 0 /\ (i = Host => j = Host)
  BY <1>1, <1>2
<1>4. QED
  BY <1>2, <1>3 DEF Masked, Upper

LEMMA PlainIs ==
    ASSUME NEW p \in Paths, NEW stop \in BOOLEAN
    PROVE  LET r == ResolvePlain(disk, iso, p, stop)
               s == Searched(disk, p, stop)
               e == Lookup(iso, p)
           IN  /\ r.path = p /\ r.resolved = TRUE
               /\ r.hits = {i \in RawHits(p, stop) : ~Masked(e, i)}
               /\ r.kind = IF r.hits = {} THEN "none" ELSE NodeAt(disk, First(r.hits), p).kind
               /\ r.status = "Exists" <=> r.hits # {}
               /\ r.masked = (HidesHost(e) \/ HidesLower(e))
               /\ r.link = \E i \in s : LinkOnWay(disk, i, p)
               /\ r.parent = \E i \in s : ParentIn(disk, i, p)
<1>1. ResolvePlain(disk, iso, p, stop) =
          Resolution(disk, p, Lookup(iso, p), Searched(disk, p, stop),
                     HitsShown(disk, p, Lookup(iso, p), Searched(disk, p, stop)))
  BY DEF ResolvePlain, ResolutionOf
<1>2. HitsShown(disk, p, Lookup(iso, p), Searched(disk, p, stop))
          = {i \in RawHits(p, stop) : ~Masked(Lookup(iso, p), i)}
  BY DEF HitsShown, RawHits
<1>3. QED
  BY <1>1, <1>2 DEF Resolution

\* Without hits the status is told by the layers which were asked.
LEMMA StatusIs ==
    ASSUME NEW p \in Paths, Searched(disk, p, TRUE) = Searched(disk, p, FALSE),
           ResolvePlain(disk, iso, p, TRUE).hits = {}, ResolvePlain(disk, iso, p, FALSE).hits = {}
    PROVE  ResolvePlain(disk, iso, p, TRUE).status = ResolvePlain(disk, iso, p, FALSE).status
  BY DEF ResolvePlain, ResolutionOf, Resolution

LEMMA PlainAgree ==
    ASSUME NEW p \in Paths
    PROVE  LET r == ResolvePlain(disk, iso, p, TRUE)
               w == ResolvePlain(disk, iso, p, FALSE)
           IN  /\ r.status = w.status \/ (r.masked /\ ~(r.status = "Exists" \/ w.status = "Exists"))
               /\ r.path = w.path /\ r.kind = w.kind
               /\ r.hits # {} => First(r.hits) = First(w.hits)
               /\ r.hits = {} <=> w.hits = {}
               /\ r.link => w.link
<1> DEFINE r == ResolvePlain(disk, iso, p, TRUE)
           w == ResolvePlain(disk, iso, p, FALSE)
           e == Lookup(iso, p)
           raw == RawHits(p, FALSE)
           h == First(raw)
<1>1. /\ r.path = p /\ r.hits = {i \in RawHits(p, TRUE) : ~Masked(e, i)}
      /\ r.kind = IF r.hits = {} THEN "none" ELSE NodeAt(disk, First(r.hits), p).kind
      /\ r.status = "Exists" <=> r.hits # {}
      /\ r.masked = (HidesHost(e) \/ HidesLower(e))
      /\ r.link = \E i \in Searched(disk, p, TRUE) : LinkOnWay(disk, i, p)
  BY PlainIs
<1>2. /\ w.path = p /\ w.hits = {i \in raw : ~Masked(e, i)}
      /\ w.kind = IF w.hits = {} THEN "none" ELSE NodeAt(disk, First(w.hits), p).kind
      /\ w.status = "Exists" <=> w.hits # {}
      /\ w.link = \E i \in Searched(disk, p, FALSE) : LinkOnWay(disk, i, p)
  BY PlainIs
<1>3. r.link => w.link
  BY <1>1, <1>2, ReaderHits
<1>4. raw \subseteq Layers /\ raw \subseteq Nat
  BY SearchedIn
<1>5. CASE raw = {}
  <2>1. Searched(disk, p, TRUE) = Searched(disk, p, FALSE) /\ RawHits(p, TRUE) = {}
    BY <1>5, ReaderHits
  <2>2. r.hits = {} /\ w.hits = {}
    BY <1>1, <1>2, <1>5, <2>1
  <2>3. r.status = w.status
    BY <2>1, <2>2, StatusIs
  <2> HIDE DEF r, w
  <2>4. QED
    BY <1>1, <1>2, <1>3, <2>2, <2>3 DEF r, w
<1>6. CASE raw # {}
  <2>1. RawHits(p, TRUE) = {h} /\ h \in raw /\ h \in Layers /\ \A i \in raw : h <= i
    BY <1>4, <1>6, ReaderHits, FirstIs
  <2> HIDE DEF r, w, h, raw
  <2>2. CASE Masked(e, h)
    <3>1. \A i \in raw : Masked(e, i)
      BY <1>4, <2>1, <2>2, MaskedBelow
    <3>2. r.hits = {} /\ w.hits = {}
      BY <1>1, <1>2, <2>1, <2>2, <3>1
    <3>3. r.masked
      BY <1>1, <2>2 DEF Masked
    <3>4. QED
      BY <1>1, <1>2, <1>3, <3>2, <3>3 DEF r, w
  <2>3. CASE ~Masked(e, h)
    <3>1. r.hits = {h}
      BY <1>1, <2>1, <2>3
    <3>2. h \in w.hits /\ w.hits \subseteq Nat /\ \A i \in w.hits : h <= i
      BY <1>2, <1>4, <2>1, <2>3
    <3>3. First(w.hits) = h
      BY <3>2, FirstIsOnly
    <3>4. First(r.hits) = h
      <4>1. r.hits \subseteq Nat /\ h \in r.hits /\ h \in Nat /\ \A i \in r.hits : h <= i
        BY <1>4, <2>1, <3>1
      <4>2. QED
        BY <4>1, FirstIsOnly
    <3>5. r.hits # {} /\ w.hits # {}
      BY <3>1, <3>2
    <3>6. r.kind = w.kind /\ r.status = w.status
      BY <1>1, <1>2, <3>3, <3>4, <3>5
    <3>7. QED
      BY <1>1, <1>2, <1>3, <3>3, <3>4, <3>5, <3>6 DEF r, w
  <2>4. QED
    BY <2>2, <2>3
<1>7. QED
  BY <1>5, <1>6

-----------------------------------------------------------------------------
(* Links.                                                                   *)

\* A path which is its own expansion is the end of the chain: the chain which stays at
\* it satisfies the equation, and is the only one which does.
LEMMA ExpandStays ==
    ASSUME NEW p \in Paths, NEW followFinal \in BOOLEAN,
           ExpandFirst(disk, iso, p, followFinal) = Fine(p)
    PROVE  Expand(disk, iso, p, followFinal) = Fine(p)
<1> DEFINE last == MaxReparseDepth + 1
           chain[n \in 0..last] == IF n = 0 THEN Fine(p) ELSE Onward(disk, iso, chain[n - 1], followFinal)
           stays == [n \in 0..last |-> Fine(p)]
           S == {n \in Nat : n <= last => chain[n] = Fine(p)}
<1>1. MaxReparseDepth \in Nat /\ last \in Nat
  BY ResolveAssumption
<1>2. \A n \in 0..last : n = 0 \/ n - 1 \in 0..last
  BY <1>1
<1>3. Onward(disk, iso, Fine(p), followFinal) = Fine(p)
  BY DEF Onward, Fine
<1>4. stays = [n \in 0..last |-> IF n = 0 THEN Fine(p) ELSE Onward(disk, iso, stays[n - 1], followFinal)]
  <2>1. \A n \in 0..last : n # 0 => stays[n - 1] = Fine(p)
    BY <1>2
  <2>2. \A n \in 0..last : Fine(p) = IF n = 0 THEN Fine(p) ELSE Onward(disk, iso, stays[n - 1], followFinal)
    BY <1>3, <2>1
  <2>3. QED
    BY <2>2
<1>5. \E f : f = [n \in 0..last |-> IF n = 0 THEN Fine(p) ELSE Onward(disk, iso, f[n - 1], followFinal)]
  <2> HIDE DEF stays
  <2>1. QED
    BY <1>4
<1>6. chain = [n \in 0..last |-> IF n = 0 THEN Fine(p) ELSE Onward(disk, iso, chain[n - 1], followFinal)]
  BY <1>5 DEF chain
<1> HIDE DEF chain
<1>7. 0 \in S
  BY <1>1, <1>6
<1>8. ASSUME NEW n \in Nat, n \in S PROVE n + 1 \in S
  <2>1. SUFFICES ASSUME n + 1 <= last PROVE chain[n + 1] = Fine(p)
    OBVIOUS
  <2>2. n + 1 \in 0..last /\ n + 1 # 0 /\ n + 1 - 1 = n /\ n <= last
    BY <1>1, <2>1
  <2>3. chain[n] = Fine(p)
    BY <1>8, <2>2
  <2>4. chain[n + 1] = Onward(disk, iso, chain[n], followFinal)
    BY <1>6, <2>2
  <2>5. QED
    BY <1>3, <2>3, <2>4
<1>9. \A n \in Nat : n \in S
  <2> HIDE DEF S
  <2>1. S \subseteq Nat
    BY DEF S
  <2>2. QED
    BY <1>7, <1>8, <2>1, ByNat
<1>10. chain[MaxReparseDepth] = Fine(p) /\ chain[MaxReparseDepth + 1] = Fine(p)
  BY <1>1, <1>9
<1>11. Expand(disk, iso, p, followFinal) = Settled(chain[MaxReparseDepth], chain[MaxReparseDepth + 1])
  BY DEF Expand, chain
<1>12. QED
  BY <1>10, <1>11 DEF Settled

\* The probe of a component which is a link found the link in a layer.
LEMMA ProbeIsLink ==
    ASSUME NEW p \in Paths, ResolvePlain(disk, iso, p, TRUE).kind = "link"
    PROVE  \E g \in Searched(disk, p, TRUE) : HitIn(disk, g, p) /\ NodeAt(disk, g, p).kind = "link"
<1> DEFINE r == ResolvePlain(disk, iso, p, TRUE)
<1>1. /\ r.hits = {i \in RawHits(p, TRUE) : ~Masked(Lookup(iso, p), i)}
      /\ r.kind = IF r.hits = {} THEN "none" ELSE NodeAt(disk, First(r.hits), p).kind
  BY PlainIs
<1>2. r.hits # {} /\ NodeAt(disk, First(r.hits), p).kind = "link"
  BY <1>1
<1>3. r.hits \subseteq Nat /\ r.hits \subseteq RawHits(p, TRUE)
  BY <1>1, SearchedIn
<1>4. First(r.hits) \in r.hits
  BY <1>2, <1>3, FirstIs
<1>5. QED
  BY <1>2, <1>3, <1>4 DEF RawHits

\* A path none of whose components is a link in any layer is its own expansion.
LEMMA NoLinksStay ==
    ASSUME NEW p \in Paths, NEW followFinal \in BOOLEAN,
           \A k \in 1..Len(p) : k < Len(p) \/ followFinal =>
               ResolvePlain(disk, iso, Prefix(p, k), TRUE).kind # "link"
    PROVE  Expand(disk, iso, p, followFinal) = Fine(p)
<1> DEFINE probes == [k \in 1..Len(p) |-> ResolvePlain(disk, iso, Prefix(p, k), TRUE)]
<1>1. LinksAlong(p, followFinal, probes) = {}
  BY DEF LinksAlong
<1>2. ExpandFirst(disk, iso, p, followFinal) = ExpandProbed(disk, p, followFinal, probes)
  BY DEF ExpandFirst
<1>3. ExpandProbed(disk, p, followFinal, probes) = Fine(p)
  BY <1>1 DEF ExpandProbed, ExpandAt
<1>4. QED
  BY <1>2, <1>3, ExpandStays

\* The folders above what a layer holds are folders of the layer, down from its mount.
LEMMA FoldersAbove ==
    ASSUME DiskInv, NEW h \in Layers, NEW p \in Paths, Maps(h, p), HitIn(disk, h, p),
           NEW k \in Nat, Len(MountOf(h)) <= k, k < Len(p)
    PROVE  NodeAt(disk, h, Prefix(p, k)) = Dir
<1>1. Len(p) \in Nat /\ Len(MountOf(h)) \in Nat /\ k + 1 \in 1..Len(p) /\ k + 1 \in 0..Len(p) /\ k \in 0..Len(p)
      /\ k + 1 - 1 = k /\ Len(MountOf(h)) # k + 1
  BY MountIs, PathIs
<1>2. Reaches(disk, h, p, Len(p) + 1)
  BY HitIs
<1>3. k + 1 \in Len(MountOf(h))..Len(p)
  BY <1>1
<1>4. NodeAt(disk, h, Prefix(p, k + 1)) # None
  BY <1>1, <1>2, <1>3 DEF Reaches
<1>5. Prefix(p, k + 1) \in Paths /\ Prefix(p, k) \in Paths /\ Len(Prefix(p, k + 1)) = k + 1
  BY <1>1, PrefixIn, PrefixIs
<1>6. disk[h].node[Prefix(p, k + 1)] # None /\ Prefix(p, k + 1) # MountOf(h)
  BY <1>1, <1>4, <1>5 DEF NodeAt
<1>7. disk[h].node[Front(Prefix(p, k + 1))] = Dir
  BY <1>5, <1>6 DEF DiskInv, Rooted
<1>8. Front(Prefix(p, k + 1)) = Prefix(p, k)
  BY <1>1, FrontOfPrefix
<1>9. QED
  BY <1>5, <1>7, <1>8 DEF NodeAt

\* Above a name which a layer holds no other layer holds a link, unless folders and
\* links mix or the layer is mounted below the link.
LEMMA NoLinkAbove ==
    ASSUME DiskInv, NEW h \in Layers, NEW p \in Paths, Maps(h, p), HitIn(disk, h, p),
           ~Mixed(p), ~Bypassed(p), NEW k \in 1..Len(p), k < Len(p), NEW g \in Layers
    PROVE  NodeAt(disk, g, Prefix(p, k)).kind # "link"
<1>1. SUFFICES ASSUME NodeAt(disk, g, Prefix(p, k)).kind = "link" PROVE FALSE
  OBVIOUS
<1>2. k \in Nat /\ k \in 0..Len(p) /\ Len(MountOf(h)) \in Nat /\ Len(p) \in Nat
  BY PathIs, MountIs
<1>3. NodeAt(disk, g, Prefix(p, k)) \notin {None, Dir}
  BY <1>1 DEF None, Dir
<1>4. CASE Len(MountOf(h)) <= k
  <2>1. NodeAt(disk, h, Prefix(p, k)) = Dir
    BY <1>2, <1>4, FoldersAbove
  <2>2. QED
    BY <1>2, <1>3, <2>1 DEF Mixed
<1>5. CASE ~(Len(MountOf(h)) <= k)
  <2>1. Prefix(p, Len(MountOf(h))) = MountOf(h) /\ Len(MountOf(h)) <= Len(p)
    BY MapsWhole
  <2>2. k \in 0..Len(MountOf(h)) /\ Len(MountOf(h)) \in 0..Len(p)
    BY <1>2, <1>5, <2>1
  <2>3. Prefix(MountOf(h), k) = Prefix(p, k) /\ Prefix(p, k) \in Paths /\ Len(Prefix(p, k)) = k
    BY <1>2, <2>1, <2>2, PrefixOfPrefix, PrefixIn, PrefixIs
  <2>4. SubSeq(Prefix(p, k), 1, k) = Prefix(p, k)
    BY <2>3, PrefixFull DEF Prefix
  <2>5. IsPrefix(Prefix(p, k), MountOf(h)) /\ Prefix(p, k) # MountOf(h)
    BY <1>2, <1>5, <2>3, <2>4 DEF IsPrefix, Prefix
  <2>6. QED
    BY <1>1, <1>2, <2>5 DEF Bypassed, IsStrictPrefix
<1>6. QED
  BY <1>4, <1>5

-----------------------------------------------------------------------------
(* A reader and a writer of one path.                                       *)

\* What a resolution answers, by what its path is expanded to.
ResolvesTo(p, stop, follow) ==
    LET plain == ResolvePlain(disk, iso, p, stop)
        there == Expand(disk, iso, p, follow = "All")
        r     == Resolve(disk, iso, p, stop, follow)
    IN  /\ ~plain.link \/ there = Fine(p) => r = plain
        /\ plain.link /\ ~(there.ok /\ there.path \in Paths) =>
               /\ ~r.resolved
               /\ r.status = plain.status /\ r.path = plain.path /\ r.kind = plain.kind
               /\ r.hits = plain.hits /\ r.masked = plain.masked
        /\ plain.link /\ there.ok /\ there.path \in Paths =>
               r = ResolvePlain(disk, iso, there.path, stop)

LEMMA ResolveIs == ASSUME NEW p \in Paths, NEW stop, NEW follow PROVE ResolvesTo(p, stop, follow)
<1> DEFINE plain == ResolvePlain(disk, iso, p, stop)
           there == Expand(disk, iso, p, follow = "All")
           r == Resolve(disk, iso, p, stop, follow)
<1>1. r = IF plain.link THEN ResolveThrough(disk, iso, p, stop, plain, there) ELSE plain
  BY DEF Resolve, ResolveFrom
<1>2. Fine(p).ok /\ Fine(p).path = p
  BY DEF Fine
<1>3. /\ [plain EXCEPT !.resolved = FALSE].resolved = FALSE
      /\ [plain EXCEPT !.resolved = FALSE].status = plain.status
      /\ [plain EXCEPT !.resolved = FALSE].path = plain.path
      /\ [plain EXCEPT !.resolved = FALSE].kind = plain.kind
      /\ [plain EXCEPT !.resolved = FALSE].hits = plain.hits
      /\ [plain EXCEPT !.resolved = FALSE].masked = plain.masked
  BY DEF ResolvePlain, ResolutionOf, Resolution
<1>4. ResolveThrough(disk, iso, p, stop, plain, there) =
          IF ~there.ok \/ there.path \notin Paths THEN [plain EXCEPT !.resolved = FALSE]
          ELSE IF there.path = p THEN plain
          ELSE ResolvePlain(disk, iso, there.path, stop)
  BY DEF ResolveThrough
<1> HIDE DEF plain, there, r
<1>5. there.path = p => plain = ResolvePlain(disk, iso, there.path, stop)
  BY DEF plain
<1>6. /\ ~plain.link \/ there = Fine(p) => r = plain
      /\ plain.link /\ ~(there.ok /\ there.path \in Paths) =>
             /\ ~r.resolved
             /\ r.status = plain.status /\ r.path = plain.path /\ r.kind = plain.kind
             /\ r.hits = plain.hits /\ r.masked = plain.masked
      /\ plain.link /\ there.ok /\ there.path \in Paths =>
             r = ResolvePlain(disk, iso, there.path, stop)
  BY <1>1, <1>2, <1>3, <1>4, <1>5
<1>7. QED
  BY <1>6 DEF plain, there, r, ResolvesTo

\* The reader stopped in a layer before the links the writer met: no probe meets one.
LEMMA PastLinksNone ==
    ASSUME DiskInv, NEW p \in Paths, NEW followFinal \in BOOLEAN, ~Mixed(p), ~Bypassed(p),
           ~ResolvePlain(disk, iso, p, TRUE).link, ResolvePlain(disk, iso, p, FALSE).link
    PROVE  Expand(disk, iso, p, followFinal) = Fine(p)
<1>1. PICK h \in Layers : Maps(h, p) /\ HitIn(disk, h, p)
  <2>1. Searched(disk, p, TRUE) # Searched(disk, p, FALSE)
    BY PlainIs
  <2>2. RawHits(p, FALSE) # {}
    BY <2>1, ReaderHits
  <2>3. \A h \in RawHits(p, FALSE) : h \in Layers /\ Maps(h, p) /\ HitIn(disk, h, p)
    BY DEF RawHits, Searched
  <2>4. QED
    BY <2>2, <2>3
<1>2. ASSUME NEW k \in 1..Len(p), ResolvePlain(disk, iso, Prefix(p, k), TRUE).kind = "link" PROVE FALSE
  <2>1. Len(p) \in Nat /\ k \in 0..Len(p) /\ Prefix(p, k) \in Paths /\ (k < Len(p) \/ k = Len(p))
    BY PathIs, PrefixIn
  <2>2. PICK g \in Searched(disk, Prefix(p, k), TRUE) :
             HitIn(disk, g, Prefix(p, k)) /\ NodeAt(disk, g, Prefix(p, k)).kind = "link"
    BY <1>2, <2>1, ProbeIsLink
  <2>3. g \in Layers
    BY <2>1, SearchedIn
  <2>4. CASE k < Len(p)
    BY <1>1, <2>2, <2>3, <2>4, NoLinkAbove
  <2>5. CASE k = Len(p)
    <3>1. Prefix(p, k) = p
      BY <2>5, PrefixFull
    <3>2. g \in Searched(disk, p, TRUE) /\ HitIn(disk, g, p) /\ NodeAt(disk, g, p).kind = "link"
      BY <2>2, <3>1
    <3>3. Maps(g, p)
      BY <3>2 DEF Searched
    <3>4. Len(p) \in Walk(g, p) /\ Prefix(p, Len(p)) = p
      BY <2>3, <3>3, MapsWhole DEF Walk
    <3>5. LinkOnWay(disk, g, p)
      BY <3>2, <3>4 DEF LinkOnWay, HitIn
    <3>6. QED
      BY <3>2, <3>5, PlainIs
  <2>6. QED
    BY <2>1, <2>4, <2>5
<1>3. QED
  BY <1>2, NoLinksStay

\* Either both answer without an expansion, or both follow the one which is fixed by
\* the path alone.
LEMMA AgreeOfState == ASSUME DiskInv PROVE ReadersAndWritersAgree
<1>1. SUFFICES ASSUME NEW p \in Paths, NEW follow \in {"All", "Parent"}, ~Mixed(p), ~Bypassed(p)
               PROVE  SameAnswer(p, follow)
  BY DEF ReadersAndWritersAgree
<1> DEFINE r == Resolve(disk, iso, p, TRUE, follow)
           w == Resolve(disk, iso, p, FALSE, follow)
           reader == ResolvePlain(disk, iso, p, TRUE)
           writer == ResolvePlain(disk, iso, p, FALSE)
           there == Expand(disk, iso, p, follow = "All")
           same(x, y) == /\ x.status = y.status \/ (x.masked /\ ~(x.status = "Exists" \/ y.status = "Exists"))
                         /\ x.path = y.path /\ x.kind = y.kind
                         /\ x.hits # {} => First(x.hits) = First(y.hits)
<1>2. SameAnswer(p, follow) <=> same(r, w)
  BY DEF SameAnswer
<1>3. same(reader, writer) /\ (reader.link => writer.link)
  BY PlainAgree
<1>4. there.ok /\ there.path \in Paths =>
          same(ResolvePlain(disk, iso, there.path, TRUE), ResolvePlain(disk, iso, there.path, FALSE))
  BY PlainAgree
<1>5. /\ ~reader.link \/ there = Fine(p) => r = reader
      /\ reader.link /\ ~(there.ok /\ there.path \in Paths) =>
             /\ r.status = reader.status /\ r.path = reader.path /\ r.kind = reader.kind
             /\ r.hits = reader.hits /\ r.masked = reader.masked
      /\ reader.link /\ there.ok /\ there.path \in Paths => r = ResolvePlain(disk, iso, there.path, TRUE)
  <2>1. ResolvesTo(p, TRUE, follow)
    BY ResolveIs
  <2>2. QED
    BY <2>1 DEF ResolvesTo
<1>6. /\ ~writer.link \/ there = Fine(p) => w = writer
      /\ writer.link /\ ~(there.ok /\ there.path \in Paths) =>
             /\ w.status = writer.status /\ w.path = writer.path /\ w.kind = writer.kind
             /\ w.hits = writer.hits /\ w.masked = writer.masked
      /\ writer.link /\ there.ok /\ there.path \in Paths => w = ResolvePlain(disk, iso, there.path, FALSE)
  <2>1. ResolvesTo(p, FALSE, follow)
    BY ResolveIs
  <2>2. QED
    BY <2>1 DEF ResolvesTo
<1>7. ~reader.link /\ writer.link => there = Fine(p)
  BY <1>1, PastLinksNone
<1> HIDE DEF r, w, reader, writer, there
<1>8. CASE ~reader.link
  BY <1>2, <1>3, <1>5, <1>6, <1>7, <1>8
<1>9. CASE reader.link /\ ~(there.ok /\ there.path \in Paths)
  BY <1>2, <1>3, <1>5, <1>6, <1>9
<1>10. CASE reader.link /\ there.ok /\ there.path \in Paths
  BY <1>2, <1>3, <1>4, <1>5, <1>6, <1>10
<1>11. QED
  BY <1>8, <1>9, <1>10

\* bStopOnFirstFound: a caller which stops at the first hit and one which asks every
\* layer get one answer, through any chain of links.
THEOREM ReadersAgreeWithWriters == Spec => []ReadersAndWritersAgree
  BY AgreeOfState, DisksAreRooted, PTL

-----------------------------------------------------------------------------
(* A listing and a query.                                                   *)

LEMMA GreatestIs ==
    ASSUME NEW n \in Nat, NEW S, S \subseteq 0..n, S # {}
    PROVE  Max(S) \in S
<1> DEFINE T == {n - k : k \in S}
<1>1. T \subseteq Nat /\ T # {}
  <2>1. ASSUME NEW k \in S PROVE n - k \in Nat
    <3>1. k \in 0..n
      OBVIOUS
    <3>2. QED
      BY <3>1
  <2>2. T \subseteq Nat
    BY <2>1
  <2>3. T # {}
    OBVIOUS
  <2>4. QED
    BY <2>2, <2>3
<1>2. PICK m \in T : \A l \in T : m <= l
  BY <1>1, Least
<1>3. PICK k \in S : m = n - k
  BY <1>2
<1>4. ASSUME NEW l \in S PROVE k >= l
  <2>1. n - k <= n - l
    BY <1>2, <1>3
  <2>2. k \in Int /\ l \in Int
    OBVIOUS
  <2>3. QED
    BY <2>1, <2>2
<1>5. QED
  BY <1>3, <1>4 DEF Max

LEMMA AppendLast == ASSUME NEW q \in Paths, q # <<>> PROVE Append(Front(q), Last(q)) = q
<1>1. q \in Seq(Names) /\ Len(q) \in Nat /\ Len(q) >= 1 /\ Front(q) \in Paths /\ Len(Front(q)) = Len(q) - 1
      /\ Front(q) = Prefix(q, Len(q) - 1)
  BY PathIs, ChildIs
<1>2. Front(q) \in Seq(Names) /\ Last(q) = q[Len(q)] /\ q[Len(q)] \in Names
  BY <1>1, PathIs DEF Last
<1>3. \A i \in 1..(Len(q) - 1) : Front(q)[i] = q[i]
  <2>1. Len(q) - 1 \in 0..Len(q)
    BY <1>1
  <2>2. QED
    BY <1>1, <2>1, PrefixIs
<1>4. /\ Append(Front(q), Last(q)) \in Seq(Names)
      /\ Len(Append(Front(q), Last(q))) = Len(Front(q)) + 1
      /\ \A i \in 1..Len(Front(q)) : Append(Front(q), Last(q))[i] = Front(q)[i]
      /\ Append(Front(q), Last(q))[Len(Front(q)) + 1] = Last(q)
  BY <1>2, AppendProperties
<1>5. Len(Append(Front(q), Last(q))) = Len(q)
  BY <1>1, <1>4
<1>6. ASSUME NEW i \in 1..Len(q) PROVE Append(Front(q), Last(q))[i] = q[i]
  <2>1. i \in 1..(Len(q) - 1) \/ i = Len(Front(q)) + 1
    BY <1>1
  <2>2. Len(Front(q)) + 1 = Len(q)
    BY <1>1
  <2>3. QED
    BY <1>1, <1>2, <1>3, <1>4, <2>1, <2>2
<1>7. QED
  BY <1>1, <1>4, <1>5, <1>6, SameNames

\* The walk comes to the folder of a path as it comes to the folder itself.
LEMMA ReachesFront ==
    ASSUME NEW i \in Layers, NEW q \in Paths, q # <<>>, NEW k \in Nat, k <= Len(q)
    PROVE  Reaches(disk, i, Front(q), k) <=> Reaches(disk, i, q, k)
<1>1. Len(q) \in Nat /\ Len(MountOf(i)) \in Nat /\ \A l \in 0..(Len(q) - 1) : Prefix(Front(q), l) = Prefix(q, l)
  BY ChildIs, MountIs
<1>2. \A l \in Len(MountOf(i))..(k - 1) : l \in 0..(Len(q) - 1)
  BY <1>1
<1>3. QED
  BY <1>1, <1>2 DEF Reaches

LEMMA MapsFront ==
    ASSUME NEW i \in Layers, NEW q \in Paths, q # <<>>
    PROVE  /\ Maps(i, Front(q)) => Maps(i, q)
           /\ Maps(i, q) /\ MountOf(i) # q => Maps(i, Front(q))
<1> DEFINE m == Len(MountOf(i))
<1>1. /\ Len(q) \in Nat /\ Len(q) >= 1 /\ Len(Front(q)) = Len(q) - 1 /\ Front(q) \in Paths /\ m \in Nat
      /\ \A k \in 0..(Len(q) - 1) : Prefix(Front(q), k) = Prefix(q, k)
  BY ChildIs, MountIs
<1>2. Maps(i, q) <=> m <= Len(q) /\ Prefix(q, m) = MountOf(i)
  BY MapsIs
<1>3. Maps(i, Front(q)) <=> m <= Len(q) - 1 /\ Prefix(Front(q), m) = MountOf(i)
  BY <1>1, MapsIs
<1>4. m = Len(q) => Prefix(q, m) = q
  BY PrefixFull
<1>5. m <= Len(q) - 1 => m <= Len(q) /\ m \in 0..(Len(q) - 1)
  BY <1>1
<1>6. m <= Len(q) => m <= Len(q) - 1 \/ m = Len(q)
  BY <1>1
<1>7. m <= Len(q) - 1 => Prefix(Front(q), m) = Prefix(q, m)
  BY <1>1, <1>5
<1> HIDE DEF m
<1>8. QED
  BY <1>2, <1>3, <1>4, <1>5, <1>6, <1>7

LEMMA MarkedFront ==
    ASSUME NEW j \in Layers, NEW q \in Paths, q # <<>>, Marked(disk, j, Front(q))
    PROVE  Marked(disk, j, q)
<1> DEFINE f == Front(q)
           m == Len(MountOf(j))
<1>1. /\ Len(q) \in Nat /\ Len(q) >= 1 /\ Len(f) = Len(q) - 1 /\ f \in Paths /\ m \in Nat
      /\ \A k \in 0..(Len(q) - 1) : Prefix(f, k) = Prefix(q, k)
  BY ChildIs, MountIs
<1>2. ASSUME NEW k \in m..Len(f)
      PROVE  /\ k \in m..Len(q) /\ k \in 0..(Len(q) - 1) /\ k \in Nat /\ k <= Len(q)
             /\ k + 1 \in Nat /\ k + 1 <= Len(q) /\ k < Len(q)
  BY <1>1
<1>3. ASSUME NEW k \in m..Len(f), Reaches(disk, j, f, k), Prefix(f, k) \in disk[j].whiteout
      PROVE  WhiteoutFound(disk, j, q)
  <2>1. Reaches(disk, j, q, k) /\ Prefix(q, k) \in disk[j].whiteout
    BY <1>1, <1>2, <1>3, ReachesFront
  <2>2. QED
    BY <1>2, <2>1 DEF WhiteoutFound, Walk
<1>4. ASSUME NEW k \in m..Len(f), Reaches(disk, j, f, k + 1), Prefix(f, k) \in disk[j].opaque
      PROVE  OpaqueFound(disk, j, q)
  <2>1. Reaches(disk, j, q, k + 1) /\ Prefix(q, k) \in disk[j].opaque
    BY <1>1, <1>2, <1>4, ReachesFront
  <2>2. QED
    BY <1>2, <2>1 DEF OpaqueFound, Walk
<1>5. QED
  BY <1>3, <1>4 DEF Marked, WhiteoutFound, OpaqueFound, Walk

\* A layer which serves a name served the folder, when the folder was asked for as a
\* writer asks.
LEMMA HitFront ==
    ASSUME NEW q \in Paths, q # <<>>, NEW i \in RawHits(q, TRUE), MountOf(i) # q
    PROVE  i \in RawHits(Front(q), FALSE)
<1> DEFINE f == Front(q)
<1>1. /\ i \in Layers /\ Maps(i, q) /\ HitIn(disk, i, q)
      /\ \A j \in Layers : j < i /\ Maps(j, q) => ~Marked(disk, j, q)
  BY DEF RawHits, Searched
<1>2. f \in Paths /\ Len(q) \in Nat /\ Len(f) = Len(q) - 1 /\ Len(q) >= 1
  BY ChildIs
<1>3. Maps(i, f)
  BY <1>1, MapsFront
<1>4. i \in Searched(disk, f, FALSE)
  BY <1>1, <1>3, MapsFront, MarkedFront DEF Searched
<1>5. Reaches(disk, i, q, Len(q))
  BY <1>1 DEF HitIn
<1>6. Reaches(disk, i, f, Len(f) + 1)
  <2>1. Len(f) + 1 = Len(q) /\ Len(q) <= Len(q)
    BY <1>2
  <2>2. QED
    BY <1>1, <1>2, <1>5, <2>1, ReachesFront
<1>7. HitIn(disk, i, f)
  BY <1>1, <1>2, <1>3, <1>6, HitIs
<1>8. QED
  BY <1>4, <1>7 DEF RawHits

\* A name without an entry of its own has the entry of its folder.
LEMMA LookupFront ==
    ASSUME NEW q \in Paths, q # <<>>, q \notin DOMAIN iso
    PROVE  Lookup(iso, q) = Lookup(iso, Front(q))
<1> DEFINE f == Front(q)
           listed == {k \in 0..Len(q) : Prefix(q, k) \in DOMAIN iso}
           above == {k \in 0..Len(f) : Prefix(f, k) \in DOMAIN iso}
<1>1. /\ Len(q) \in Nat /\ Len(q) >= 1 /\ Len(f) = Len(q) - 1 /\ Prefix(q, Len(q)) = q
      /\ \A k \in 0..(Len(q) - 1) : Prefix(f, k) = Prefix(q, k)
  BY ChildIs, PrefixFull
<1>2. Len(q) \notin listed
  BY <1>1
<1>3. 0..Len(q) = (0..Len(f)) \cup {Len(q)}
  BY <1>1
<1>4. \A k \in 0..Len(f) : Prefix(f, k) = Prefix(q, k)
  BY <1>1
<1>5. listed = above
  BY <1>2, <1>3, <1>4
<1>6. above # {} => Max(above) \in above
  BY <1>1, GreatestIs
<1>7. above # {} => Prefix(q, Max(above)) = Prefix(f, Max(above))
  BY <1>4, <1>6
<1>8. Lookup(iso, q) = IF listed = {} THEN Unlisted ELSE iso[Prefix(q, Max(listed))]
  BY DEF Lookup
<1>9. Lookup(iso, f) = IF above = {} THEN Unlisted ELSE iso[Prefix(f, Max(above))]
  BY DEF Lookup
<1> HIDE DEF listed, above
<1>10. QED
  BY <1>5, <1>7, <1>8, <1>9

LEMMA DirIs == ASSUME NEW n \in Nodes, n.kind = "dir" PROVE n = Dir
  BY DEF Nodes, None, Dir, File, Link

\* The record of a folder is the plain resolution of the path it names.
LEMMA RecordIs ==
    ASSUME NEW p \in Paths, Resolve(disk, iso, p, FALSE, "All").resolved
    PROVE  LET r == Resolve(disk, iso, p, FALSE, "All")
           IN  r.path \in Paths /\ r = ResolvePlain(disk, iso, r.path, FALSE)
<1> DEFINE r == Resolve(disk, iso, p, FALSE, "All")
           plain == ResolvePlain(disk, iso, p, FALSE)
           there == Expand(disk, iso, p, "All" = "All")
<1>1. /\ ~plain.link \/ there = Fine(p) => r = plain
      /\ plain.link /\ ~(there.ok /\ there.path \in Paths) => ~r.resolved
      /\ plain.link /\ there.ok /\ there.path \in Paths => r = ResolvePlain(disk, iso, there.path, FALSE)
  <2>1. ResolvesTo(p, FALSE, "All")
    BY ResolveIs
  <2>2. QED
    BY <2>1 DEF ResolvesTo
<1>2. \A x \in Paths : ResolvePlain(disk, iso, x, FALSE).path = x
  BY PlainIs
<1> HIDE DEF r, plain, there
<1>3. r = plain \/ (there.path \in Paths /\ r = ResolvePlain(disk, iso, there.path, FALSE))
  BY <1>1 DEF r
<1>4. r.path \in Paths /\ r = ResolvePlain(disk, iso, r.path, FALSE)
  BY <1>2, <1>3 DEF plain
<1>5. QED
  BY <1>4 DEF r

\* A folder of the view: every layer which serves it holds a folder.
LEMMA FolderHits ==
    ASSUME DiskInv, NEW f \in Paths, ResolvePlain(disk, iso, f, FALSE).kind = "dir", ~Mixed(f)
    PROVE  LET r == ResolvePlain(disk, iso, f, FALSE)
           IN  /\ r.hits # {} /\ PendingDir(disk, r) = r.hits
               /\ r.hits = {i \in RawHits(f, FALSE) : ~Masked(Lookup(iso, f), i)}
               /\ \A i \in r.hits : i \in Layers /\ Maps(i, f) /\ HitIn(disk, i, f) /\ NodeAt(disk, i, f) = Dir
<1> DEFINE r == ResolvePlain(disk, iso, f, FALSE)
<1>1. /\ r.path = f /\ r.hits = {i \in RawHits(f, FALSE) : ~Masked(Lookup(iso, f), i)}
      /\ r.kind = IF r.hits = {} THEN "none" ELSE NodeAt(disk, First(r.hits), f).kind
  BY PlainIs
<1>2. r.hits # {} /\ NodeAt(disk, First(r.hits), f).kind = "dir"
  BY <1>1
<1>3. r.hits \subseteq RawHits(f, FALSE) /\ r.hits \subseteq Nat
  BY <1>1, SearchedIn
<1>4. \A i \in r.hits : i \in Layers /\ Maps(i, f) /\ HitIn(disk, i, f)
  BY <1>3 DEF RawHits, Searched
<1> HIDE DEF r
<1>5. First(r.hits) \in r.hits
  BY <1>2, <1>3, FirstIs
<1>6. NodeAt(disk, First(r.hits), f) = Dir
  <2>1. disk[First(r.hits)].node[f] \in Nodes
    BY <1>4, <1>5 DEF DiskInv, Disks, Layer
  <2>2. QED
    BY <1>2, <2>1, DirIs DEF NodeAt
<1>7. Len(f) \in 0..Len(f) /\ Prefix(f, Len(f)) = f
  BY PathIs, PrefixFull
<1>8. ASSUME NEW i \in r.hits PROVE NodeAt(disk, i, f) = Dir
  <2>1. NodeAt(disk, i, f) # None
    BY <1>4 DEF HitIn
  <2>2. QED
    BY <1>4, <1>5, <1>6, <1>7, <2>1 DEF Mixed
<1>9. PendingDir(disk, r) = r.hits
  <2>1. Dir.kind = "dir" /\ r.path = f
    BY <1>1 DEF Dir
  <2>2. ASSUME NEW i \in r.hits PROVE NodeAt(disk, i, r.path).kind = "dir"
    <3>1. NodeAt(disk, i, r.path) = Dir
      BY <1>8, <2>1
    <3>2. QED
      BY <2>1, <3>1
  <2>3. QED
    BY <2>2 DEF PendingDir
<1>10. QED
  BY <1>1, <1>2, <1>4, <1>8, <1>9 DEF r

\* No layer holds a link at or above a folder of the view.
LEMMA NoLinkToFolder ==
    ASSUME DiskInv, NEW f \in Paths, ResolvePlain(disk, iso, f, FALSE).kind = "dir", ~Mixed(f), ~Bypassed(f),
           NEW k \in 1..Len(f), NEW g \in Layers
    PROVE  NodeAt(disk, g, Prefix(f, k)).kind # "link"
<1>1. PICK h \in Layers : Maps(h, f) /\ HitIn(disk, h, f) /\ NodeAt(disk, h, f) = Dir
  BY FolderHits
<1>2. Len(f) \in Nat /\ (k < Len(f) \/ k = Len(f))
  BY PathIs
<1>3. CASE k < Len(f)
  BY <1>1, <1>3, NoLinkAbove
<1>4. CASE k = Len(f)
  <2>1. Prefix(f, k) = f /\ k \in 0..Len(f)
    BY <1>2, <1>4, PrefixFull
  <2>2. SUFFICES ASSUME NodeAt(disk, g, f).kind = "link" PROVE FALSE
    BY <2>1
  <2>3. NodeAt(disk, g, f) \notin {None, Dir}
    BY <2>2 DEF None, Dir
  <2>4. QED
    BY <1>1, <2>1, <2>3 DEF Mixed
<1>5. QED
  BY <1>2, <1>3, <1>4

LEMMA ProbeOfFolder ==
    ASSUME DiskInv, NEW f \in Paths, ResolvePlain(disk, iso, f, FALSE).kind = "dir", ~Mixed(f), ~Bypassed(f),
           NEW k \in 1..Len(f)
    PROVE  ResolvePlain(disk, iso, Prefix(f, k), TRUE).kind # "link"
<1>1. Prefix(f, k) \in Paths
  BY PathIs, PrefixIn
<1>2. SUFFICES ASSUME ResolvePlain(disk, iso, Prefix(f, k), TRUE).kind = "link" PROVE FALSE
  OBVIOUS
<1>3. PICK g \in Searched(disk, Prefix(f, k), TRUE) : NodeAt(disk, g, Prefix(f, k)).kind = "link"
  BY <1>1, <1>2, ProbeIsLink
<1>4. g \in Layers
  BY <1>1, SearchedIn
<1>5. QED
  BY <1>3, <1>4, NoLinkToFolder

\* What a query of a name in a folder of the view finds: the plain resolution of the
\* name decides, and a name which is there through its link is there itself.
LEMMA QueryIs ==
    ASSUME DiskInv, NEW q \in Paths, q # <<>>,
           ResolvePlain(disk, iso, Front(q), FALSE).kind = "dir", ~Mixed(Front(q)), ~Bypassed(Front(q))
    PROVE  /\ Found(q) <=> ResolvePlain(disk, iso, q, TRUE).hits # {}
           /\ Resolve(disk, iso, q, TRUE, "All").status = "Exists" => ResolvePlain(disk, iso, q, TRUE).hits # {}
<1> DEFINE f == Front(q)
           plain == ResolvePlain(disk, iso, q, TRUE)
           seen == Resolve(disk, iso, q, TRUE, "Parent")
           all == Resolve(disk, iso, q, TRUE, "All")
<1>1. /\ Len(q) \in Nat /\ Len(q) >= 1 /\ Len(f) = Len(q) - 1 /\ f \in Paths
      /\ \A k \in 0..(Len(q) - 1) : Prefix(f, k) = Prefix(q, k)
  BY ChildIs
<1>2. /\ plain.path = q /\ plain.resolved = TRUE /\ plain.hits \subseteq RawHits(q, TRUE)
      /\ plain.kind = IF plain.hits = {} THEN "none" ELSE NodeAt(disk, First(plain.hits), q).kind
      /\ plain.status = "Exists" <=> plain.hits # {}
  BY PlainIs
<1>3. ASSUME NEW k \in 1..Len(q), k < Len(q) PROVE ResolvePlain(disk, iso, Prefix(q, k), TRUE).kind # "link"
  <2>1. k \in 1..Len(f) /\ k \in 0..(Len(q) - 1)
    BY <1>1, <1>3
  <2>2. Prefix(f, k) = Prefix(q, k)
    BY <1>1, <2>1
  <2>3. ResolvePlain(disk, iso, Prefix(f, k), TRUE).kind # "link"
    BY <1>1, <2>1, ProbeOfFolder
  <2>4. QED
    BY <2>2, <2>3
<1>4. Expand(disk, iso, q, "Parent" = "All") = Fine(q)
  <2>1. ("Parent" = "All") = FALSE
    OBVIOUS
  <2>2. Expand(disk, iso, q, FALSE) = Fine(q)
    BY <1>3, NoLinksStay
  <2>3. QED
    BY <2>1, <2>2
<1>5. seen = plain
  <2>1. ResolvesTo(q, TRUE, "Parent")
    BY ResolveIs
  <2>2. QED
    BY <1>4, <2>1 DEF ResolvesTo
<1>6. FolderThere(disk, iso, q)
  <2>1. Expand(disk, iso, f, TRUE) = Fine(f)
    BY <1>1, ProbeOfFolder, NoLinksStay
  <2>2. ("All" = "All") = TRUE
    OBVIOUS
  <2>3. Resolve(disk, iso, f, TRUE, "All") = ResolvePlain(disk, iso, f, TRUE)
    <3>1. ResolvesTo(f, TRUE, "All")
      BY <1>1, ResolveIs
    <3>2. QED
      BY <2>1, <2>2, <3>1 DEF ResolvesTo
  <2>4. ResolvePlain(disk, iso, f, FALSE).hits # {}
    BY <1>1, FolderHits
  <2>5. ResolvePlain(disk, iso, f, TRUE).hits # {}
    BY <1>1, <2>4, PlainAgree
  <2>6. ResolvePlain(disk, iso, f, TRUE).status = "Exists"
    BY <1>1, <2>5, PlainIs
  <2>7. QED
    BY <2>3, <2>6 DEF FolderThere
<1> HIDE DEF plain, seen, all
<1>7. Found(q) <=> plain.hits # {}
  <2>1. QueryPath(disk, iso, q) = IF plain.hits # {} THEN NodeAt(disk, First(plain.hits), q) ELSE None
    <3>1. QueryPath(disk, iso, q) = QueryPathFromResolve(disk, iso, seen)
      BY DEF QueryPath, seen
    <3>2. QED
      BY <1>2, <1>5, <1>6, <3>1 DEF QueryPathFromResolve
  <2>2. ASSUME plain.hits # {} PROVE NodeAt(disk, First(plain.hits), q) # None
    <3>1. plain.hits \subseteq Nat
      BY <1>2, SearchedIn
    <3>2. First(plain.hits) \in RawHits(q, TRUE)
      BY <1>2, <2>2, <3>1, FirstIs
    <3>3. QED
      BY <3>2 DEF RawHits, HitIn
  <2>3. QED
    BY <2>1, <2>2 DEF Found
<1>8. ASSUME plain.hits = {} PROVE all.status # "Exists"
  <2>1. plain.kind # "link"
    BY <1>2, <1>8
  <2>2. Prefix(q, Len(q)) = q
    BY PrefixFull
  <2>3. ASSUME NEW k \in 1..Len(q) PROVE ResolvePlain(disk, iso, Prefix(q, k), TRUE).kind # "link"
    <3>1. k < Len(q) \/ k = Len(q)
      BY <1>1
    <3>2. QED
      BY <1>3, <2>1, <2>2, <3>1 DEF plain
  <2>4. Expand(disk, iso, q, TRUE) = Fine(q)
    BY <2>3, NoLinksStay
  <2>5. ("All" = "All") = TRUE
    OBVIOUS
  <2>6. all = plain
    <3>1. ResolvesTo(q, TRUE, "All")
      BY ResolveIs
    <3>2. QED
      BY <2>4, <2>5, <3>1 DEF ResolvesTo, all, plain
  <2>7. QED
    BY <1>2, <1>8, <2>6
<1>9. QED
  BY <1>7, <1>8 DEF plain, all

\* A layer which serves a name serves its folder, so the folder's record has it.
LEMMA ListingOfState == ASSUME DiskInv PROVE ListingIsView
<1>1. SUFFICES ASSUME NEW p \in Paths, Resolve(disk, iso, p, FALSE, "All").resolved,
                      Resolve(disk, iso, p, FALSE, "All").kind = "dir",
                      ~Mixed(Resolve(disk, iso, p, FALSE, "All").path),
                      ~Bypassed(Resolve(disk, iso, p, FALSE, "All").path),
                      NEW q \in Paths, q # <<>>, Front(q) = Resolve(disk, iso, p, FALSE, "All").path,
                      ~ByNameOnly(q)
               PROVE  Last(q) \in Listing(disk, iso, Resolve(disk, iso, p, FALSE, "All")) <=> FoundAll(q)
  BY DEF ListingIsView
<1> DEFINE r == Resolve(disk, iso, p, FALSE, "All")
           f == Front(q)
           all == Resolve(disk, iso, q, TRUE, "All")
           plain == ResolvePlain(disk, iso, q, TRUE)
<1>2. f \in Paths /\ r.path = f /\ r = ResolvePlain(disk, iso, f, FALSE)
  BY <1>1, RecordIs
<1>3. r.kind = "dir" /\ ~Mixed(f) /\ ~Bypassed(f)
  BY <1>1, <1>2
<1> HIDE DEF r
<1>4. /\ PendingDir(disk, r) = r.hits
      /\ r.hits = {i \in RawHits(f, FALSE) : ~Masked(Lookup(iso, f), i)}
  BY <1>2, <1>3, FolderHits
<1>5. /\ Found(q) <=> plain.hits # {}
      /\ all.status = "Exists" => plain.hits # {}
  BY <1>1, <1>2, <1>3, QueryIs
<1>6. FoundAll(q) <=> all.status = "Exists"
  BY <1>5 DEF FoundAll
<1>7. Append(r.path, Last(q)) = q
  BY <1>1, <1>2, AppendLast
<1>8. Last(q) \in {x[Len(x)] : x \in Paths \ {<<>>}}
  BY <1>1 DEF Last
<1>9. Last(q) \in Listing(disk, iso, r) <=>
          /\ \E i \in PendingDir(disk, r) : NodeAt(disk, i, q) # None
          /\ all.status = "Exists"
  BY <1>7, <1>8 DEF Listing
<1>10. ASSUME plain.hits # {} PROVE \E i \in PendingDir(disk, r) : NodeAt(disk, i, q) # None
  <2>1. plain.hits = {i \in RawHits(q, TRUE) : ~Masked(Lookup(iso, q), i)}
    BY PlainIs
  <2>2. PICK i \in RawHits(q, TRUE) : ~Masked(Lookup(iso, q), i)
    BY <1>10, <2>1
  <2>3. q \notin DOMAIN iso /\ MountOf(i) # q
    <3>1. i \in Layers
      BY <2>2 DEF RawHits, Searched
    <3>2. QED
      BY <1>1, <3>1 DEF ByNameOnly
  <2>4. i \in RawHits(f, FALSE) /\ ~Masked(Lookup(iso, f), i)
    BY <1>1, <2>2, <2>3, HitFront, LookupFront
  <2>5. NodeAt(disk, i, q) # None
    BY <2>2 DEF RawHits, HitIn
  <2>6. QED
    BY <1>4, <2>4, <2>5
<1> HIDE DEF all, plain, f
<1>11. Last(q) \in Listing(disk, iso, r) <=> FoundAll(q)
  BY <1>5, <1>6, <1>9, <1>10
<1>12. QED
  BY <1>11 DEF r

\* DirectoryMerge: the names of a listing are the names a query finds in the folder.
THEOREM ListingsShowTheView == Spec => []ListingIsView
  BY ListingOfState, DisksAreRooted, PTL

=============================================================================
