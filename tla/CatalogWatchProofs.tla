------------------------ MODULE CatalogWatchProofs -------------------------
(***************************************************************************)
(* What a scan and a watcher promise, proved for every list of roots, every*)
(* set of files and every number of changes.  A scan reads the roots by    *)
(* position: the operators of Catalog are first shown to give what the     *)
(* positions up to one of them hold, whatever order the files of a         *)
(* directory are read in; the invariant of a scan under way rests on that. *)
(***************************************************************************)
EXTENDS CatalogWatch, FiniteSetTheorems, FunctionTheorems, WellFoundedInduction, TLAPS

-----------------------------------------------------------------------------
(* Counting up                                                             *)

\* What holds at zero, and at each next number if at the last one, holds up to n.
LEMMA UpTo ==
    ASSUME NEW n \in Nat, NEW S, 0 \in S, \A k \in 0..n : k \in S /\ k < n => k + 1 \in S
    PROVE  0..n \subseteq S
<1> DEFINE R == OpToRel(<, Nat)
           T == {k \in 0..n : k \notin S}
<1>1. IsWellFoundedOn(R, Nat)
  BY NatLessThanWellFounded
<1>2. SUFFICES ASSUME T # {} PROVE FALSE
  OBVIOUS
<1>3. PICK k \in T : \A j \in T : ~(<<j, k>> \in R)
  <2>1. T \subseteq Nat
    OBVIOUS
  <2> HIDE DEF R, T
  <2> QED
    BY <1>1, <1>2, <2>1, WFMin
<1>4. k \in Nat /\ k - 1 \in 0..n /\ k - 1 \in Nat /\ k - 1 < k /\ k - 1 < n /\ k - 1 + 1 = k
  <2> HIDE DEF R
  <2> QED
    BY <1>3
<1>5. <<k - 1, k>> \in R
  BY <1>4 DEF OpToRel
<1>6. k - 1 \in S
  BY <1>3, <1>4, <1>5
<1> QED
  BY <1>3, <1>4, <1>6

-----------------------------------------------------------------------------
(* The order of the roots                                                  *)

\* The list of roots and the ranks of its tiers.
LEMMA RootsTyped ==
    /\ Len(Roots) \in Nat /\ DOMAIN Roots = 1..Len(Roots) /\ IsFiniteSet(DOMAIN Roots)
    /\ Cardinality(DOMAIN Roots) = Len(Roots)
    /\ \A i \in DOMAIN Roots : Roots[i].tier \in Tiers /\ Rank[Roots[i].tier] \in Nat
<1>1. Len(Roots) \in Nat /\ DOMAIN Roots = 1..Len(Roots)
  BY RootsAssumption
<1>2. IsFiniteSet(1..Len(Roots)) /\ Cardinality(1..Len(Roots)) = Len(Roots)
  <2>1. 1 \in Int /\ Len(Roots) \in Int
    BY <1>1
  <2>2. /\ IsFiniteSet(1..Len(Roots))
        /\ Cardinality(1..Len(Roots)) = IF 1 > Len(Roots) THEN 0 ELSE Len(Roots) - 1 + 1
    BY <2>1, FS_Interval
  <2> QED
    BY <1>1, <2>2
<1>3. \A i \in DOMAIN Roots : Roots[i].tier \in Tiers
  <2> DEFINE T == [dir : STRING, tier : Tiers]
  <2>1. Roots \in Seq(T)
    BY RootsAssumption
  <2>2. \A root \in T : root.tier \in Tiers
    OBVIOUS
  <2> HIDE DEF T
  <2>3. \A i \in DOMAIN Roots : Roots[i] \in T
    BY ONLY <2>1
  <2> QED
    BY <2>2, <2>3
<1>4. \A tier \in Tiers : Rank[tier] \in Nat
  BY DEF Rank, Tiers
<1> QED
  BY <1>1, <1>2, <1>3, <1>4

Preceding(i) == {j \in DOMAIN Roots : Precedes(Roots, j, i)}
At(i) == Place(Roots, i)

\* One of two roots precedes the other, and a place is a number of the list.
LEMMA PrecedesOrders ==
    ASSUME NEW i \in DOMAIN Roots, NEW j \in DOMAIN Roots
    PROVE  /\ ~Precedes(Roots, i, i)
           /\ i # j => (Precedes(Roots, i, j) <=> ~Precedes(Roots, j, i))
           /\ \A k \in DOMAIN Roots :
                Precedes(Roots, i, j) /\ Precedes(Roots, j, k) => Precedes(Roots, i, k)
           /\ Precedes(Roots, i, j) => Rank[Roots[i].tier] >= Rank[Roots[j].tier]
  BY RootsTyped DEF Precedes

\* A place is one more than the roots before it, and one of the list.
LEMMA PlaceTyped ==
    ASSUME NEW i \in DOMAIN Roots
    PROVE  /\ IsFiniteSet(Preceding(i)) /\ Cardinality(Preceding(i)) \in Nat
           /\ At(i) = 1 + Cardinality(Preceding(i))
           /\ At(i) \in 1..Len(Roots)
<1>1. Preceding(i) \in SUBSET DOMAIN Roots /\ Preceding(i) # DOMAIN Roots
  BY PrecedesOrders DEF Preceding
<1>2. /\ IsFiniteSet(Preceding(i)) /\ Cardinality(Preceding(i)) <= Len(Roots)
      /\ Cardinality(Preceding(i)) # Len(Roots)
  BY <1>1, RootsTyped, FS_Subset
<1>3. Cardinality(Preceding(i)) \in Nat
  BY <1>2, FS_CardinalityType
<1>4. At(i) = 1 + Cardinality(Preceding(i))
  BY DEF At, Place, Preceding
<1> QED
  BY <1>2, <1>3, <1>4, RootsTyped

\* The places order the roots as they precede one another.
LEMMA PlaceIncreases ==
    ASSUME NEW i \in DOMAIN Roots, NEW j \in DOMAIN Roots
    PROVE  /\ Precedes(Roots, i, j) <=> At(i) < At(j)
           /\ At(i) = At(j) => i = j
<1>1. ASSUME NEW k \in DOMAIN Roots, NEW l \in DOMAIN Roots, Precedes(Roots, k, l)
      PROVE  At(k) < At(l)
  <2>1. Preceding(k) \cup {k} \in SUBSET Preceding(l) /\ k \notin Preceding(k)
    BY <1>1, PrecedesOrders DEF Preceding
  <2>2. /\ IsFiniteSet(Preceding(k)) /\ Cardinality(Preceding(k)) \in Nat
        /\ IsFiniteSet(Preceding(l)) /\ Cardinality(Preceding(l)) \in Nat
    BY PlaceTyped
  <2>3. Cardinality(Preceding(k) \cup {k}) = Cardinality(Preceding(k)) + 1
    BY <2>1, <2>2, FS_AddElement
  <2>4. Cardinality(Preceding(k) \cup {k}) <= Cardinality(Preceding(l))
    BY <2>1, <2>2, FS_Subset
  <2> QED
    BY <2>2, <2>3, <2>4, PlaceTyped
<1>2. At(i) \in Nat /\ At(j) \in Nat
  BY PlaceTyped
<1>3. CASE i = j
  BY <1>2, <1>3, PrecedesOrders
<1>4. CASE i # j
  BY <1>1, <1>2, <1>4, PrecedesOrders
<1> QED
  BY <1>3, <1>4

\* Each position is the place of one root.
LEMMA PlacesFilled ==
    \A k \in DOMAIN Roots : \E i \in DOMAIN Roots : At(i) = k
<1> DEFINE D == DOMAIN Roots
           f == [i \in D |-> At(i)]
<1>1. f \in [D -> D]
  BY PlaceTyped, RootsTyped
<1>2. \A i, j \in D : f[i] = f[j] => i = j
  BY PlaceIncreases
<1> HIDE DEF f
<1>3. f \in Injection(D, D)
  BY <1>1, <1>2, Fun_IsInj
<1>4. f \in Surjection(D, D)
  BY <1>3, RootsTyped, FS_Injection
<1>5. \A k \in D : \E i \in D : f[i] = k
  BY <1>4, Fun_SurjectionProperties
<1> QED
  BY <1>5 DEF f

\* The list as a scan reads it: each root at its place.
LEMMA OrderIs ==
    /\ DOMAIN Order = DOMAIN Roots
    /\ \A k \in DOMAIN Order : \E i \in DOMAIN Roots : At(i) = k
    /\ \A i \in DOMAIN Roots : At(i) \in DOMAIN Order /\ Order[At(i)] = Roots[i]
<1>1. DOMAIN Order = DOMAIN Roots
  BY DEF Order, Ordered
<1>2. ASSUME NEW i \in DOMAIN Roots PROVE At(i) \in DOMAIN Order /\ Order[At(i)] = Roots[i]
  <2>1. At(i) \in DOMAIN Roots
    BY PlaceTyped, RootsTyped
  <2>2. (CHOOSE j \in DOMAIN Roots : At(j) = At(i)) = i
    BY PlaceIncreases
  <2>3. Order[At(i)] = Roots[CHOOSE j \in DOMAIN Roots : At(j) = At(i)]
    BY <2>1 DEF Order, Ordered, At
  <2> QED
    BY <1>1, <2>1, <2>2, <2>3
<1> QED
  BY <1>1, <1>2, PlacesFilled

\* The ranks of the list go down.
LEMMA OrderDescends ==
    /\ \A k \in DOMAIN Order : /\ Order[k].tier \in Tiers /\ Order[k].dir \in Dirs
                               /\ Rank[Order[k].tier] \in Nat
    /\ \A k, l \in DOMAIN Order :
         k <= l => Rank[Order[k].tier] >= Rank[Order[l].tier]
<1>1. ASSUME NEW k \in DOMAIN Order
      PROVE  /\ Order[k].tier \in Tiers /\ Order[k].dir \in Dirs
             /\ Rank[Order[k].tier] \in Nat
  <2>1. PICK i \in DOMAIN Roots : At(i) = k /\ Order[k] = Roots[i]
    BY OrderIs
  <2> QED
    BY <2>1, RootsTyped DEF Dirs
<1>2. ASSUME NEW k \in DOMAIN Order, NEW l \in DOMAIN Order, k <= l
      PROVE  Rank[Order[k].tier] >= Rank[Order[l].tier]
  <2>1. PICK i \in DOMAIN Roots : At(i) = k /\ Order[k] = Roots[i]
    BY OrderIs
  <2>2. PICK j \in DOMAIN Roots : At(j) = l /\ Order[l] = Roots[j]
    BY OrderIs
  <2>3. CASE i = j
    BY <1>1, <2>1, <2>2, <2>3
  <2>4. CASE i # j
    <3>1. At(i) \in Nat /\ At(j) \in Nat
      BY PlaceTyped
    <3>2. Precedes(Roots, i, j)
      BY <1>2, <2>1, <2>2, <2>4, <3>1, PlaceIncreases
    <3> QED
      BY <2>1, <2>2, <3>2, PrecedesOrders
  <2> QED
    BY <2>3, <2>4
<1> QED
  BY <1>1, <1>2

\* Every directory has a position.
LEMMA Positioned ==
    ASSUME NEW d \in Dirs
    PROVE  PositionsOf(d) # {}
<1>1. PICK i \in DOMAIN Roots : d = Roots[i].dir
  BY DEF Dirs
<1>2. At(i) \in DOMAIN Order /\ Order[At(i)] = Roots[i]
  BY OrderIs
<1> QED
  BY <1>1, <1>2 DEF PositionsOf

-----------------------------------------------------------------------------
(* A directory at once                                                     *)

Good(files, f) == Diagnosis(f, files[f]) = "none"

\* What the files of T add to a catalog, in whatever order they are read.
AddFiles(c, root, files, T) ==
    [entries |->
        {IF e.name \in T /\ Good(files, e.name) THEN Shadowing(e, root) ELSE e : e \in c.entries}
        \cup {EntryOf(root, f, files[f]) : f \in {g \in T : Good(files, g) /\ Named(c, g) = {}}},
     diagnostics |->
        c.diagnostics
        \cup {Note(Diagnosis(f, files[f]), root, f) : f \in {g \in T : ~Good(files, g)}}
        \cup {Note("shadowed", root, f) : f \in {g \in T : Good(files, g) /\ Named(c, g) # {}}}]

\* A catalog as the scan makes them.
IsEntry(e) == {"name", "tier", "dir", "shadowed"} \subseteq DOMAIN e
IsCatalog(c) ==
    /\ c = [entries |-> c.entries, diagnostics |-> c.diagnostics]
    /\ \A e \in c.entries : IsEntry(e)

\* A new entry shadows nothing.
LEMMA EntryKinds ==
    ASSUME NEW root, NEW file, NEW content
    PROVE  LET e == EntryOf(root, file, content) IN
           /\ IsEntry(e) /\ e.name = file /\ e.tier = root.tier /\ e.dir = root.dir
           /\ e.shadowed = <<>>
  BY DEF EntryOf, IsEntry

\* A shadowed card changes an entry in nothing but the list of them.
LEMMA ShadowingKinds ==
    ASSUME NEW e, IsEntry(e), NEW root
    PROVE  LET s == Shadowing(e, root) IN
           /\ IsEntry(s) /\ s.name = e.name /\ s.tier = e.tier /\ s.dir = e.dir
           /\ s.shadowed = Append(e.shadowed, root.dir)
  BY DEF Shadowing, IsEntry

\* What files add, entry by entry: the entries there were stay, shadowing perhaps
\* one more, and a name without one gets one.
LEMMA AddFilesEntries ==
    ASSUME NEW c, IsCatalog(c), NEW root, NEW files, NEW T
    PROVE  LET new == AddFiles(c, root, files, T) IN
           /\ IsCatalog(new)
           /\ \A e \in c.entries : \E o \in new.entries : o.name = e.name /\ o.tier = e.tier
           /\ \A o \in new.entries :
                \/ \E e \in c.entries : o.name = e.name /\ o.tier = e.tier
                \/ o.name \in T /\ o.tier = root.tier
           /\ \A f \in T : Good(files, f) => \E o \in new.entries : o.name = f
<1> DEFINE new == AddFiles(c, root, files, T)
           Kept(e) == IF e.name \in T /\ Good(files, e.name) THEN Shadowing(e, root) ELSE e
           Fresh == {g \in T : Good(files, g) /\ Named(c, g) = {}}
<1>1. /\ new.entries = {Kept(e) : e \in c.entries} \cup {EntryOf(root, f, files[f]) : f \in Fresh}
      /\ new = [entries |-> new.entries, diagnostics |-> new.diagnostics]
  BY DEF AddFiles
<1>2. \A e \in c.entries : IsEntry(Kept(e)) /\ Kept(e).name = e.name /\ Kept(e).tier = e.tier
  BY ShadowingKinds DEF IsCatalog
<1>3. \A f : LET e == EntryOf(root, f, files[f]) IN
             IsEntry(e) /\ e.name = f /\ e.tier = root.tier
  BY EntryKinds
<1>4. \A f \in T : Good(files, f) => f \in Fresh \/ \E e \in c.entries : e.name = f
  BY DEF Named
<1>5. Fresh \subseteq T
  OBVIOUS
<1> HIDE DEF new, Kept, Fresh
<1>6. IsCatalog(new)
  BY ONLY <1>1, <1>2, <1>3 DEF IsCatalog
<1>7. \A e \in c.entries : \E o \in new.entries : o.name = e.name /\ o.tier = e.tier
  BY ONLY <1>1, <1>2
<1>8. \A o \in new.entries : \/ \E e \in c.entries : o.name = e.name /\ o.tier = e.tier
                             \/ o.name \in T /\ o.tier = root.tier
  BY ONLY <1>1, <1>2, <1>3, <1>5
<1>9. \A f \in T : Good(files, f) => \E o \in new.entries : o.name = f
  <2> SUFFICES ASSUME NEW f \in T, Good(files, f) PROVE \E o \in new.entries : o.name = f
    OBVIOUS
  <2>1. CASE f \in Fresh
    BY ONLY <1>1, <1>3, <2>1
  <2>2. CASE \E e \in c.entries : e.name = f
    BY ONLY <1>7, <2>2
  <2> QED
    BY <1>4, <2>1, <2>2
<1> QED
  BY <1>6, <1>7, <1>8, <1>9 DEF new

\* No files, no change.
LEMMA AddFilesNone ==
    ASSUME NEW c, IsCatalog(c), NEW root, NEW files
    PROVE  AddFiles(c, root, files, {}) = c
<1>1. AddFiles(c, root, files, {}) = [entries |-> c.entries, diagnostics |-> c.diagnostics]
  BY DEF AddFiles
<1> QED
  BY <1>1 DEF IsCatalog

\* One file more is what AddFile makes of it.
LEMMA AddFilesStep ==
    ASSUME NEW c, IsCatalog(c), NEW root, NEW files, NEW T, NEW f, f \notin T
    PROVE  AddFiles(c, root, files, T \cup {f})
             = AddFile(AddFiles(c, root, files, T), root, f, files[f])
<1> DEFINE old == AddFiles(c, root, files, T)
           new == AddFiles(c, root, files, T \cup {f})
           U == T \cup {f}
           Kept(e) == IF e.name \in T /\ Good(files, e.name) THEN Shadowing(e, root) ELSE e
           KeptNow(e) == IF e.name \in U /\ Good(files, e.name) THEN Shadowing(e, root) ELSE e
           Fresh(V) == {g \in V : Good(files, g) /\ Named(c, g) = {}}
           Again(V) == {g \in V : Good(files, g) /\ Named(c, g) # {}}
           Bad(V) == {g \in V : ~Good(files, g)}
           Made(g) == EntryOf(root, g, files[g])
<1>1. /\ old = [entries |-> {Kept(e) : e \in c.entries} \cup {Made(g) : g \in Fresh(T)},
                diagnostics |-> c.diagnostics
                   \cup {Note(Diagnosis(g, files[g]), root, g) : g \in Bad(T)}
                   \cup {Note("shadowed", root, g) : g \in Again(T)}]
      /\ new = [entries |-> {KeptNow(e) : e \in c.entries} \cup {Made(g) : g \in Fresh(U)},
                diagnostics |-> c.diagnostics
                   \cup {Note(Diagnosis(g, files[g]), root, g) : g \in Bad(U)}
                   \cup {Note("shadowed", root, g) : g \in Again(U)}]
  BY DEF AddFiles
<1>2. \A e \in c.entries : Kept(e).name = e.name
  BY ShadowingKinds DEF IsCatalog
<1>3. \A g : Made(g).name = g
  BY EntryKinds
<1>4. Named(old, f) # {} <=> Named(c, f) # {}
  <2>1. old.entries = {Kept(e) : e \in c.entries} \cup {Made(g) : g \in Fresh(T)}
    BY <1>1
  <2>2. Fresh(T) \subseteq T
    OBVIOUS
  <2> HIDE DEF old, Kept, Made, Fresh
  <2> QED
    BY ONLY <1>2, <1>3, <2>1, <2>2, f \notin T DEF Named
<1> SUFFICES new = AddFile(old, root, f, files[f])
  OBVIOUS
<1>0. f \in U
  OBVIOUS
<1>5. CASE ~Good(files, f)
  <2>1. Fresh(U) = Fresh(T) /\ Again(U) = Again(T) /\ Bad(U) = Bad(T) \cup {f}
    BY <1>5
  <2>2. \A e : KeptNow(e) = Kept(e)
    BY <1>5
  <2>3. AddFile(old, root, f, files[f]) =
          [entries |-> old.entries,
           diagnostics |-> old.diagnostics \cup {Note(Diagnosis(f, files[f]), root, f)}]
    BY <1>5 DEF AddFile, Good
  <2> HIDE DEF old, new, U, Kept, KeptNow, Made, Fresh, Again, Bad
  <2>7. c.diagnostics \cup {Note(Diagnosis(g, files[g]), root, g) : g \in Bad(U)}
                      \cup {Note("shadowed", root, g) : g \in Again(U)}
          = old.diagnostics \cup {Note(Diagnosis(f, files[f]), root, f)}
    BY ONLY <1>1, <2>1
  <2>8. {KeptNow(e) : e \in c.entries} \cup {Made(g) : g \in Fresh(U)} = old.entries
    BY ONLY <1>1, <2>1, <2>2
  <2> QED
    BY ONLY <1>1, <2>3, <2>7, <2>8
<1>6. CASE Good(files, f) /\ Named(c, f) = {}
  <2>1. Fresh(U) = Fresh(T) \cup {f} /\ Again(U) = Again(T) /\ Bad(U) = Bad(T)
    BY <1>6
  <2>2. \A e \in c.entries : KeptNow(e) = Kept(e)
    BY <1>6 DEF Named
  <2>3. AddFile(old, root, f, files[f]) =
          [entries |-> old.entries \cup {Made(f)}, diagnostics |-> old.diagnostics]
    BY <1>4, <1>6 DEF AddFile, Good
  <2> HIDE DEF old, new, U, Kept, KeptNow, Made, Fresh, Again, Bad
  <2>7. c.diagnostics \cup {Note(Diagnosis(g, files[g]), root, g) : g \in Bad(U)}
                      \cup {Note("shadowed", root, g) : g \in Again(U)}
          = old.diagnostics
    BY ONLY <1>1, <2>1
  <2>8. {KeptNow(e) : e \in c.entries} \cup {Made(g) : g \in Fresh(U)} = old.entries \cup {Made(f)}
    BY ONLY <1>1, <2>1, <2>2
  <2> QED
    BY ONLY <1>1, <2>3, <2>7, <2>8
<1>7. CASE Good(files, f) /\ Named(c, f) # {}
  <2>1. Fresh(U) = Fresh(T) /\ Again(U) = Again(T) \cup {f} /\ Bad(U) = Bad(T)
    BY <1>7
  <2>2. \A e \in c.entries : KeptNow(e) = IF Kept(e).name = f THEN Shadowing(Kept(e), root)
                                         ELSE Kept(e)
    <3> SUFFICES ASSUME NEW e \in c.entries
                 PROVE  KeptNow(e) = IF Kept(e).name = f THEN Shadowing(Kept(e), root)
                                     ELSE Kept(e)
      OBVIOUS
    <3>1. Kept(e).name = e.name
      BY <1>2
    <3> QED
      BY <1>7, <3>1
  <2>3. \A g \in Fresh(T) : Made(g).name # f
    BY <1>3
  <2>4. AddFile(old, root, f, files[f]) =
          [entries |-> {IF e.name = f THEN Shadowing(e, root) ELSE e : e \in old.entries},
           diagnostics |-> old.diagnostics \cup {Note("shadowed", root, f)}]
    BY <1>4, <1>7 DEF AddFile, Good
  <2> HIDE DEF old, new, U, Kept, KeptNow, Made, Fresh, Again, Bad
  <2>5. old.entries = {Kept(e) : e \in c.entries} \cup {Made(g) : g \in Fresh(T)}
    BY ONLY <1>1
  <2>6. {IF e.name = f THEN Shadowing(e, root) ELSE e : e \in old.entries}
          = {KeptNow(e) : e \in c.entries} \cup {Made(g) : g \in Fresh(T)}
    BY ONLY <2>2, <2>3, <2>5
  <2>7. c.diagnostics \cup {Note(Diagnosis(g, files[g]), root, g) : g \in Bad(U)}
                      \cup {Note("shadowed", root, g) : g \in Again(U)}
          = old.diagnostics \cup {Note("shadowed", root, f)}
    BY ONLY <1>1, <2>1
  <2> QED
    BY ONLY <1>1, <2>1, <2>4, <2>6, <2>7
<1> QED
  BY <1>5, <1>6, <1>7

\* A finite set as a sequence of its elements, each once.
LEMMA SetAsSequence ==
    ASSUME NEW D, IsFiniteSet(D)
    PROVE  LET n == Cardinality(D)  order == SetToSeq(D) IN
           /\ n \in Nat /\ order \in [1..n -> D] /\ Len(order) = n
           /\ \A i, j \in 1..n : order[i] = order[j] => i = j
           /\ \A f \in D : \E i \in 1..n : order[i] = f
<1> DEFINE n == Cardinality(D)
           order == SetToSeq(D)
<1>1. n \in Nat /\ ExistsBijection(1..n, D)
  BY FS_CardinalityType
<1>2. \E f \in [1..n -> D] : IsInjective(f)
  BY <1>1 DEF ExistsBijection, Bijection, Injection
<1>3. order \in [1..n -> D] /\ IsInjective(order)
  <2> HIDE DEF n
  <2>1. order = CHOOSE f \in [1..n -> D] : IsInjective(f)
    BY DEF SetToSeq, n
  <2> HIDE DEF order
  <2> QED
    BY ONLY <1>2, <2>1
<1> HIDE DEF n, order
<1>4. Len(order) = n
  <2>1. order \in Seq(D)
    BY ONLY <1>1, <1>3
  <2> QED
    BY ONLY <1>1, <1>3, <2>1
<1>5. \A i, j \in 1..n : order[i] = order[j] => i = j
  BY <1>3 DEF IsInjective
<1>6. order \in Injection(1..n, D)
  BY <1>3 DEF Injection
<1>7. IsFiniteSet(1..n) /\ Cardinality(1..n) = n
  <2>1. /\ IsFiniteSet(1..n)
        /\ Cardinality(1..n) = IF 1 > n THEN 0 ELSE n - 1 + 1
    BY <1>1, FS_Interval
  <2> QED
    BY <1>1, <2>1
<1>8. order \in Surjection(1..n, D)
  BY <1>6, <1>7, FS_Injection DEF n
<1>9. \A f \in D : \E i \in 1..n : order[i] = f
  BY <1>8 DEF Surjection
<1> QED
  BY <1>1, <1>3, <1>4, <1>5, <1>9 DEF n, order

\* The files of a directory one after the other, and all of them at once.
LEMMA AddDirectoryIs ==
    ASSUME NEW c, IsCatalog(c), NEW root, NEW files, IsFiniteSet(DOMAIN files)
    PROVE  AddDirectory(c, root, files) = AddFiles(c, root, files, DOMAIN files)
<1> DEFINE D == DOMAIN files
           n == Cardinality(D)
           order == SetToSeq(D)
           Done(k) == {order[i] : i \in 1..k}
           h == [k \in 0..n |-> AddFiles(c, root, files, Done(k))]
           step(g) == [k \in 0..n |->
                         IF k = 0 THEN c ELSE AddFile(g[k - 1], root, order[k], files[order[k]])]
           g == CHOOSE g : g = step(g)
<1>1. /\ n \in Nat /\ order \in [1..n -> D] /\ Len(order) = n
      /\ \A i, j \in 1..n : order[i] = order[j] => i = j
      /\ \A f \in D : \E i \in 1..n : order[i] = f
  BY SetAsSequence
<1>2. AddDirectory(c, root, files) = g[n]
  <2>1. AddDirectory(c, root, files) =
          (CHOOSE u : u = [k \in 0..Len(order) |->
              IF k = 0 THEN c
              ELSE AddFile(u[k - 1], root, order[k], files[order[k]])])[Len(order)]
    BY Zenon DEF AddDirectory
  <2>2. Len(order) = n
    BY <1>1
  <2> HIDE DEF n, order
  <2> QED
    BY ONLY <2>1, <2>2
<1> HIDE DEF n, order
<1>3. h[0] = c
  <2>1. Done(0) = {} /\ 0 \in 0..n
    BY <1>1
  <2> HIDE DEF Done
  <2> QED
    BY <2>1, AddFilesNone
<1>4. ASSUME NEW k \in 1..n
      PROVE  h[k] = AddFile(h[k - 1], root, order[k], files[order[k]])
  <2>1. /\ k \in 0..n /\ k - 1 \in 0..n
        /\ Done(k) = Done(k - 1) \cup {order[k]} /\ order[k] \notin Done(k - 1)
    BY <1>1
  <2> HIDE DEF Done
  <2>2. AddFiles(c, root, files, Done(k - 1) \cup {order[k]})
          = AddFile(AddFiles(c, root, files, Done(k - 1)), root, order[k], files[order[k]])
    BY <2>1, AddFilesStep
  <2> QED
    BY <2>1, <2>2
<1>5. h = step(h)
  <2>2. h = [k \in 0..n |-> h[k]]
    BY DEF h
  <2> HIDE DEF h
  <2>1. \A k \in 0..n : h[k] = IF k = 0 THEN c
                               ELSE AddFile(h[k - 1], root, order[k], files[order[k]])
    BY ONLY <1>1, <1>3, <1>4
  <2> QED
    BY <2>1, <2>2
<1> HIDE DEF h
<1>6. g = step(g)
  <2> HIDE DEF step
  <2>1. \E u : u = step(u)
    BY <1>5
  <2> QED
    BY <2>1, Zenon
<1> HIDE DEF g
<1>7. \A k \in 0..n : g[k] = IF k = 0 THEN c
                             ELSE AddFile(g[k - 1], root, order[k], files[order[k]])
  BY <1>6
<1>8. \A k \in 0..n : h[k] = IF k = 0 THEN c
                             ELSE AddFile(h[k - 1], root, order[k], files[order[k]])
  BY <1>5
<1> HIDE DEF step
<1>9. 0..n \subseteq {k \in 0..n : g[k] = h[k]}
  <2> DEFINE S == {k \in 0..n : g[k] = h[k]}
  <2>1. 0 \in S
    BY <1>1, <1>7, <1>8
  <2>2. \A k \in 0..n : k \in S /\ k < n => k + 1 \in S
    <3> SUFFICES ASSUME NEW k \in 0..n, k \in S, k < n PROVE k + 1 \in S
      OBVIOUS
    <3>1. k + 1 \in 0..n /\ k + 1 # 0 /\ k + 1 - 1 = k
      BY <1>1
    <3> QED
      BY <1>7, <1>8, <3>1
  <2> HIDE DEF S
  <2>3. 0..n \subseteq S
    BY ONLY <1>1, <2>1, <2>2, UpTo
  <2> QED
    BY <2>3 DEF S
<1>10. g[n] = h[n]
  BY <1>1, <1>9
<1>11. Done(n) = D
  <2> HIDE DEF D
  <2>1. Done(n) \subseteq D
    BY ONLY <1>1
  <2>2. D \subseteq Done(n)
    BY ONLY <1>1
  <2> QED
    BY ONLY <2>1, <2>2
<1>12. h[n] = AddFiles(c, root, files, Done(n))
  <2> HIDE DEF Done
  <2> QED
    BY <1>1 DEF h
<1> QED
  BY <1>2, <1>10, <1>11, <1>12

\* A directory holds finitely many files.
LEMMA DirectoryKinds ==
    ASSUME NEW files \in Directory
    PROVE  DOMAIN files \subseteq Files /\ IsFiniteSet(DOMAIN files)
<1>1. DOMAIN files \in SUBSET Files
  BY DEF Directory
<1> QED
  BY <1>1, FilesAssumption, FS_Subset

\* The directories one after the other.
LEMMA ScanOfUnfolds ==
    ASSUME NEW on
    PROVE  LET from == ScanOf(on, Roots) IN
           /\ from[0] = EmptyCatalog
           /\ \A k \in 1..Len(Roots) :
                from[k] = AddDirectory(from[k - 1], Order[k], on[Order[k].dir])
<1> DEFINE n == Len(Roots)
           upTo(m, g) == [k \in 0..m |->
                            IF k = 0 THEN EmptyCatalog
                            ELSE AddDirectory(g[k - 1], Order[k], on[Order[k].dir])]
           S == {m \in 0..n : \E g : g = upTo(m, g)}
           from == CHOOSE g : g = upTo(n, g)
<1>1. n \in Nat
  BY RootsTyped
<1> HIDE DEF n
<1>2. 0 \in S
  <2> DEFINE g == [k \in 0..0 |-> EmptyCatalog]
  <2>1. g = upTo(0, g)
    OBVIOUS
  <2> HIDE DEF g, upTo
  <2> QED
    BY <1>1, <2>1
<1>3. ASSUME NEW m \in 0..n, m \in S, m < n PROVE m + 1 \in S
  <2>1. PICK g : g = upTo(m, g)
    BY <1>3
  <2> DEFINE h == [k \in 0..(m + 1) |->
                     IF k <= m THEN g[k]
                     ELSE AddDirectory(g[m], Order[m + 1], on[Order[m + 1].dir])]
  <2>2. \A k \in 0..m : g[k] = IF k = 0 THEN EmptyCatalog
                               ELSE AddDirectory(g[k - 1], Order[k], on[Order[k].dir])
    BY <2>1
  <2>3. \A k \in 0..m : h[k] = g[k]
    OBVIOUS
  <2>4. h[m + 1] = AddDirectory(g[m], Order[m + 1], on[Order[m + 1].dir])
    OBVIOUS
  <2>5. h = [k \in 0..(m + 1) |-> h[k]]
    OBVIOUS
  <2> HIDE DEF h
  <2>6. ASSUME NEW k \in 0..(m + 1)
        PROVE  h[k] = IF k = 0 THEN EmptyCatalog
                      ELSE AddDirectory(h[k - 1], Order[k], on[Order[k].dir])
    <3>1. CASE k = m + 1
      <4>1. k # 0 /\ k - 1 = m /\ m \in 0..m
        BY <3>1
      <4> QED
        BY ONLY <2>3, <2>4, <3>1, <4>1
    <3>2. CASE k # m + 1
      <4>1. k \in 0..m /\ (k # 0 => k - 1 \in 0..m)
        BY <3>2
      <4> QED
        BY ONLY <2>2, <2>3, <4>1
    <3> QED
      BY <3>1, <3>2
  <2>7. h = upTo(m + 1, h)
    BY ONLY <2>5, <2>6
  <2>8. m + 1 \in 0..n
    BY <1>1, <1>3
  <2> HIDE DEF upTo
  <2> QED
    BY <2>7, <2>8
<1>4. \E g : g = upTo(n, g)
  <2> HIDE DEF S
  <2>1. 0..n \subseteq S
    BY ONLY <1>1, <1>2, <1>3, UpTo
  <2>2. n \in S
    BY <1>1, <2>1
  <2> QED
    BY <2>2 DEF S
<1>5. from = upTo(n, from)
  <2> HIDE DEF upTo
  <2> QED
    BY <1>4, Zenon
<1>6. ScanOf(on, Roots) = from
  BY DEF ScanOf, Order, n
<1> HIDE DEF from
<1> QED
  BY <1>1, <1>5, <1>6 DEF n

\* The directories, each at once.
LEMMA ScanOfIs ==
    ASSUME NEW on \in [Dirs -> Directory]
    PROVE  LET from == ScanOf(on, Roots) IN
           /\ from[0] = EmptyCatalog
           /\ \A k \in 0..Len(Roots) : IsCatalog(from[k])
           /\ \A k \in 1..Len(Roots) :
                from[k] = AddFiles(from[k - 1], Order[k], on[Order[k].dir],
                                   DOMAIN on[Order[k].dir])
<1> DEFINE from == ScanOf(on, Roots)
           n == Len(Roots)
           S == {k \in 0..n : IsCatalog(from[k])}
<1>1. /\ n \in Nat /\ from[0] = EmptyCatalog
      /\ \A k \in 1..n : from[k] = AddDirectory(from[k - 1], Order[k], on[Order[k].dir])
  BY RootsTyped, ScanOfUnfolds
<1> HIDE DEF from, n
<1>2. \A k \in 1..n : IsFiniteSet(DOMAIN on[Order[k].dir])
  <2> SUFFICES ASSUME NEW k \in 1..n PROVE IsFiniteSet(DOMAIN on[Order[k].dir])
    OBVIOUS
  <2>1. k \in DOMAIN Order
    BY RootsTyped, OrderIs DEF n
  <2>2. on[Order[k].dir] \in Directory
    BY <2>1, OrderDescends
  <2> QED
    BY <2>2, DirectoryKinds
<1>3. 0 \in S
  BY <1>1 DEF EmptyCatalog, IsCatalog
<1>4. ASSUME NEW k \in 1..n, IsCatalog(from[k - 1])
      PROVE  /\ from[k] = AddFiles(from[k - 1], Order[k], on[Order[k].dir],
                                   DOMAIN on[Order[k].dir])
             /\ IsCatalog(from[k])
  <2>1. from[k] = AddFiles(from[k - 1], Order[k], on[Order[k].dir], DOMAIN on[Order[k].dir])
    BY ONLY <1>1, <1>2, <1>4, AddDirectoryIs
  <2> QED
    BY ONLY <1>4, <2>1, AddFilesEntries
<1>5. 0..n \subseteq S
  <2>1. \A k \in 0..n : k \in S /\ k < n => k + 1 \in S
    <3> SUFFICES ASSUME NEW k \in 0..n, k \in S, k < n PROVE k + 1 \in S
      OBVIOUS
    <3>1. k + 1 \in 1..n /\ k + 1 \in 0..n /\ k + 1 - 1 = k
      BY <1>1
    <3>2. IsCatalog(from[k + 1])
      BY <1>4, <3>1
    <3> QED
      BY <3>1, <3>2
  <2> HIDE DEF S
  <2> QED
    BY ONLY <1>1, <1>3, <2>1, UpTo
<1>6. \A k \in 1..n : k - 1 \in 0..n
  BY <1>1
<1> QED
  BY <1>1, <1>4, <1>5, <1>6 DEF from, n

\* What the first directories give does not depend on the others.
LEMMA ScanOfLocal ==
    ASSUME NEW on \in [Dirs -> Directory], NEW to \in [Dirs -> Directory],
           NEW k \in 0..Len(Roots),
           \A l \in 1..k : on[Order[l].dir] = to[Order[l].dir]
    PROVE  ScanOf(on, Roots)[k] = ScanOf(to, Roots)[k]
<1> DEFINE f == ScanOf(on, Roots)
           g == ScanOf(to, Roots)
           S == {l \in 0..k : f[l] = g[l]}
<1>1. /\ k \in Nat /\ f[0] = g[0]
      /\ \A l \in 1..k : /\ f[l] = AddDirectory(f[l - 1], Order[l], on[Order[l].dir])
                         /\ g[l] = AddDirectory(g[l - 1], Order[l], to[Order[l].dir])
  <2>1. /\ f[0] = EmptyCatalog
        /\ \A l \in 1..Len(Roots) : f[l] = AddDirectory(f[l - 1], Order[l], on[Order[l].dir])
    BY ScanOfUnfolds
  <2>2. /\ g[0] = EmptyCatalog
        /\ \A l \in 1..Len(Roots) : g[l] = AddDirectory(g[l - 1], Order[l], to[Order[l].dir])
    BY ScanOfUnfolds
  <2> HIDE DEF f, g
  <2>3. k \in Nat /\ 1..k \subseteq 1..Len(Roots)
    BY RootsTyped
  <2> QED
    BY ONLY <2>1, <2>2, <2>3
<1> HIDE DEF f, g
<1>2. 0 \in S
  BY <1>1
<1>3. \A l \in 0..k : l \in S /\ l < k => l + 1 \in S
  <2> SUFFICES ASSUME NEW l \in 0..k, l \in S, l < k PROVE l + 1 \in S
    OBVIOUS
  <2>1. l + 1 \in 1..k /\ l + 1 \in 0..k /\ l + 1 - 1 = l
    BY <1>1
  <2> QED
    BY <1>1, <2>1
<1>4. 0..k \subseteq S
  <2> HIDE DEF S
  <2> QED
    BY ONLY <1>1, <1>2, <1>3, UpTo
<1> QED
  BY <1>1, <1>4 DEF f, g

\* One file: no entry is lost, and a valid card has one.
LEMMA AddFileEntries ==
    ASSUME NEW c, IsCatalog(c), NEW root, NEW f, NEW content
    PROVE  LET new == AddFile(c, root, f, content) IN
           /\ IsCatalog(new)
           /\ \A e \in c.entries : \E o \in new.entries : o.name = e.name /\ o.tier = e.tier
           /\ \A o \in new.entries :
                \/ \E e \in c.entries : o.name = e.name /\ o.tier = e.tier
                \/ o.tier = root.tier
           /\ Diagnosis(f, content) = "none" => \E o \in new.entries : o.name = f
<1> DEFINE files == [x \in {f} |-> content]
           new == AddFile(c, root, f, content)
<1>1. files[f] = content
  OBVIOUS
<1>2. Good(files, f) <=> Diagnosis(f, content) = "none"
  BY <1>1 DEF Good
<1> HIDE DEF files
<1>3. AddFiles(c, root, files, {}) = c
  BY AddFilesNone
<1>4. AddFiles(c, root, files, {} \cup {f})
        = AddFile(AddFiles(c, root, files, {}), root, f, files[f])
  BY ONLY IsCatalog(c), AddFilesStep
<1>5. AddFiles(c, root, files, {f}) = new
  <2>1. {} \cup {f} = {f}
    OBVIOUS
  <2> QED
    BY <1>1, <1>3, <1>4, <2>1
<1> HIDE DEF new
<1>6. /\ IsCatalog(new)
      /\ \A e \in c.entries : \E o \in new.entries : o.name = e.name /\ o.tier = e.tier
      /\ \A o \in new.entries :
           \/ \E e \in c.entries : o.name = e.name /\ o.tier = e.tier
           \/ o.name \in {f} /\ o.tier = root.tier
      /\ \A g \in {f} : Good(files, g) => \E o \in new.entries : o.name = g
  BY ONLY IsCatalog(c), <1>5, AddFilesEntries
<1> QED
  BY ONLY <1>2, <1>6 DEF new

-----------------------------------------------------------------------------
(* Types                                                                   *)

\* A change on disk is that of one directory, and takes a watcher away at most.
LEMMA DiskChanges ==
    ASSUME TypeOK, DiskChange
    PROVE  \E d \in Dirs, files \in Directory :
             /\ Changed(d, files)
             /\ watched' \subseteq watched /\ watched' \subseteq existing'
             /\ existing' \subseteq Dirs
<1>0. NoFiles \in Directory
  <2>1. NoFiles \in [{} -> Contents] /\ {} \in SUBSET Files
    BY DEF NoFiles
  <2> QED
    BY <2>1 DEF Directory
<1>1. ASSUME NEW d \in Dirs, NEW f \in Files, NEW content \in Written, WriteFile(d, f, content)
      PROVE  \E files \in Directory :
               /\ Changed(d, files)
               /\ watched' \subseteq watched /\ watched' \subseteq existing'
               /\ existing' \subseteq Dirs
  <2> DEFINE files == [g \in DOMAIN disk[d] \cup {f} |-> IF g = f THEN content ELSE disk[d][g]]
  <2>1. disk[d] \in Directory /\ content \in Contents
    BY InstalledAssumption DEF TypeOK
  <2>2. PICK S \in SUBSET Files : disk[d] \in [S -> Contents]
    BY <2>1 DEF Directory
  <2>3. files \in [S \cup {f} -> Contents] /\ S \cup {f} \in SUBSET Files
    BY <2>1, <2>2
  <2>4. files \in Directory
    BY <2>3 DEF Directory
  <2>5. Changed(d, files) /\ UNCHANGED <<existing, watched>>
    BY <1>1 DEF WriteFile
  <2> HIDE DEF files
  <2> QED
    BY <2>4, <2>5 DEF TypeOK
<1>2. ASSUME NEW d \in Dirs, NEW f \in Files, RemoveFile(d, f)
      PROVE  \E files \in Directory :
               /\ Changed(d, files)
               /\ watched' \subseteq watched /\ watched' \subseteq existing'
               /\ existing' \subseteq Dirs
  <2> DEFINE files == [g \in DOMAIN disk[d] \ {f} |-> disk[d][g]]
  <2>1. disk[d] \in Directory
    BY DEF TypeOK
  <2>2. PICK S \in SUBSET Files : disk[d] \in [S -> Contents]
    BY <2>1 DEF Directory
  <2>3. files \in [S \ {f} -> Contents] /\ S \ {f} \in SUBSET Files
    BY <2>2
  <2>4. files \in Directory
    BY <2>3 DEF Directory
  <2>5. Changed(d, files) /\ UNCHANGED <<existing, watched>>
    BY <1>2 DEF RemoveFile
  <2> HIDE DEF files
  <2> QED
    BY <2>4, <2>5 DEF TypeOK
<1>3. ASSUME NEW d \in Dirs, CreateDirectory(d) \/ RemoveDirectory(d)
      PROVE  /\ Changed(d, NoFiles)
             /\ watched' \subseteq watched /\ watched' \subseteq existing'
             /\ existing' \subseteq Dirs
  BY <1>3 DEF CreateDirectory, RemoveDirectory, TypeOK
<1> QED
  BY <1>0, <1>1, <1>2, <1>3 DEF DiskChange

\* What changes with a directory.
LEMMA ChangedKinds ==
    ASSUME TypeOK, NEW d \in Dirs, NEW files \in Directory, Changed(d, files)
    PROVE  /\ disk' \in [Dirs -> Directory]
           /\ \A e \in Dirs : disk'[e] = IF e = d THEN files ELSE disk[e]
           /\ unread' = IF d \in watched THEN unread \cup PositionsOf(d) ELSE unread
           /\ UNCHANGED <<timer, closed, report>>
           /\ changes' \in 0..MaxChanges
           /\ events' \in BOOLEAN /\ (closed => events' = events)
  BY FilesAssumption DEF Changed, TypeOK

\* The types, action by action.
LEMMA TypeStep ==
    ASSUME TypeOK, [Next]_vars
    PROVE  TypeOK'
<1>1. CASE DiskChange
  <2>1. PICK d \in Dirs, files \in Directory :
          /\ Changed(d, files)
          /\ watched' \subseteq watched /\ watched' \subseteq existing'
          /\ existing' \subseteq Dirs
    BY <1>1, DiskChanges
  <2>2. PositionsOf(d) \subseteq DOMAIN Order
    BY DEF PositionsOf
  <2> QED
    BY <2>1, <2>2, ChangedKinds DEF TypeOK
<1>2. ASSUME UNCHANGED disks, UNCHANGED <<events, timer, closed>> PROVE TypeOK'
  BY <1>2 DEF disks, TypeOK, Dirs, Directory
<1>3. CASE EventDelivered
  <2>1. UNCHANGED disks /\ events' = FALSE /\ timer' = TRUE /\ closed' = closed /\ ~closed
    BY <1>3 DEF EventDelivered
  <2> QED
    BY <2>1 DEF disks, TypeOK
<1>4. CASE TimerElapses
  <2>1. UNCHANGED disks /\ timer' = FALSE /\ events' = events /\ closed' = closed
    BY <1>4 DEF TimerElapses
  <2> QED
    BY <2>1 DEF disks, TypeOK
<1>5. CASE Close
  <2>1. UNCHANGED disks /\ timer' = FALSE /\ events' = FALSE /\ closed' = TRUE
    BY <1>5 DEF Close
  <2> QED
    BY <2>1 DEF disks, TypeOK
<1>6. CASE ListDirectory
  <2>1. /\ UNCHANGED <<disk, existing, watched, changes, events, timer, closed>>
        /\ unread' \subseteq unread
    BY <1>6 DEF ListDirectory
  <2> QED
    BY <2>1 DEF TypeOK
<1>7. CASE NextDirectory \/ Report \/ \E f \in Files : ReadFile(f)
  <2>1. UNCHANGED disks /\ UNCHANGED <<events, timer, closed>>
    BY <1>7 DEF NextDirectory, Report, ReadFile
  <2> QED
    BY <1>2, <2>1
<1>8. CASE UNCHANGED vars
  <2>1. UNCHANGED disks /\ UNCHANGED <<events, timer, closed>>
    BY <1>8 DEF vars, disks
  <2> QED
    BY <1>2, <2>1
<1> QED
  BY <1>1, <1>3, <1>4, <1>5, <1>6, <1>7, <1>8 DEF Next, ScanStep

\* The types at the start.
LEMMA InitTyped == Init => TypeOK
<1> SUFFICES ASSUME Init PROVE TypeOK
  OBVIOUS
<1>1. NoFiles \in Directory
  <2>1. NoFiles \in [{} -> Contents] /\ {} \in SUBSET Files
    BY DEF NoFiles
  <2> QED
    BY <2>1 DEF Directory
<1>2. disk \in [Dirs -> Directory]
  BY <1>1, InstalledAssumption DEF Init
<1>3. /\ watched \subseteq existing /\ existing \subseteq Dirs
      /\ unread = {} /\ changes = 0 /\ 0 \in 0..MaxChanges
      /\ events = FALSE /\ timer = FALSE /\ closed = FALSE
  BY FilesAssumption DEF Init
<1> QED
  BY ONLY <1>2, <1>3 DEF TypeOK

\* Types, and that a watcher which was closed is left with neither events nor a
\* timer (watch.ts:28-30, 49-55).
THEOREM TypeCorrect == Spec => []TypeOK
  BY InitTyped, TypeStep, PTL DEF Spec

-----------------------------------------------------------------------------
(* A scan under way                                                        *)

\* Types that TypeOK leaves out.
ScanTyped ==
    scan.running =>
        /\ scan = Scanning(scan.next, scan.listed, scan.files, scan.catalog, scan.steady)
        /\ scan.next \in 1..(Len(Roots) + 1) /\ scan.listed \in BOOLEAN
        /\ scan.listed => scan.next <= Len(Roots)
        /\ ~scan.listed => scan.files = {}
        /\ scan.files \subseteq Files /\ IsCatalog(scan.catalog)
        /\ scan.steady \subseteq {s \in Dirs \X Files : s[2] \in DOMAIN disk[s[1]]}

\* An entry comes from a root that has been reached, so no root to come ranks higher.
Descending ==
    scan.running =>
        \A e \in scan.catalog.entries : \E k \in DOMAIN Order :
            k <= scan.next /\ e.tier = Order[k].tier

\* The steady cards of the roots that were read are listed, and those of the root
\* that is being read are listed or still to read.
ReadAt(k, f) == k < scan.next \/ (k = scan.next /\ scan.listed /\ f \notin scan.files)
Listing ==
    scan.running =>
        \A k \in DOMAIN Order, f \in Files :
            LET d == Order[k].dir IN
            (<<d, f>> \in scan.steady /\ Good(disk[d], f) /\ ReadAt(k, f)) =>
                \E e \in scan.catalog.entries :
                    e.name = f /\ Rank[e.tier] >= Rank[Order[k].tier]

\* As long as no root read so far has changed since, the catalog is what a scan of
\* the disk at rest has reached by then.
Reached == ScanOf(disk, Roots)[scan.next - 1]
HalfRead ==
    LET files == disk[Root.dir] IN
    /\ scan.files \subseteq DOMAIN files
    /\ scan.catalog = AddFiles(Reached, Root, files, DOMAIN files \ scan.files)
Progress ==
    (scan.running /\ watched = Dirs /\ unread \cap 1..(scan.next - 1) = {}) =>
        /\ ~scan.listed => scan.catalog = Reached
        /\ (scan.listed /\ scan.next \notin unread) => HalfRead

Scanned == ScanTyped /\ Descending /\ Listing /\ Progress

\* Without a scan nothing is said of one.
LEMMA NoScanScanned ==
    ASSUME ~scan'.running
    PROVE  Scanned'
  BY DEF Scanned, ScanTyped, Descending, Listing, Progress

\* A step that leaves the disk, the watchers and the scan alone.
LEMMA SameScanned ==
    ASSUME Scanned, UNCHANGED <<disk, watched, unread, scan>>
    PROVE  Scanned'
<1>1. ScanTyped'
  BY DEF Scanned, ScanTyped
<1>2. Descending'
  BY DEF Scanned, Descending
<1>3. Listing'
  BY DEF Scanned, Listing, ReadAt
<1>4. Progress'
  BY DEF Scanned, Progress, HalfRead, Reached, Root
<1> QED
  BY <1>1, <1>2, <1>3, <1>4 DEF Scanned

\* The catalog a scan begins with.
LEMMA EmptyIsCatalog == IsCatalog(EmptyCatalog) /\ EmptyCatalog.entries = {}
  BY DEF IsCatalog, EmptyCatalog

\* A scan begins: nothing is read.
LEMMA BegunScanned ==
    ASSUME TypeOK, scan' = Begun, UNCHANGED disks
    PROVE  Scanned'
<1> DEFINE steady == {s \in Dirs \X Files : s[2] \in DOMAIN disk[s[1]]}
<1>1. scan' = Scanning(1, FALSE, {}, EmptyCatalog, steady)
  BY DEF Begun
<1>2. /\ scan'.next = 1 /\ scan'.listed = FALSE /\ scan'.files = {}
      /\ scan'.catalog = EmptyCatalog /\ scan'.steady = steady
      /\ scan' = Scanning(scan'.next, scan'.listed, scan'.files, scan'.catalog, scan'.steady)
  BY ONLY <1>1 DEF Scanning
<1>3. disk' = disk /\ disk \in [Dirs -> Directory]
  BY DEF disks, TypeOK
<1>4. Len(Roots) \in Nat
  BY RootsTyped
<1>5. 1 \in 1..(Len(Roots) + 1)
  BY <1>4
<1>6. ScanTyped'
  <2>1. scan'.steady \subseteq {s \in Dirs \X Files : s[2] \in DOMAIN disk'[s[1]]}
    BY <1>2, <1>3
  <2> HIDE DEF steady
  <2> QED
    BY <1>2, <1>5, <2>1, EmptyIsCatalog DEF ScanTyped
<1>7. Descending'
  BY <1>2, EmptyIsCatalog DEF Descending
<1>8. Listing'
  <2> SUFFICES ASSUME NEW k \in (DOMAIN Order)', NEW f \in Files PROVE ~ReadAt(k, f)'
    BY DEF Listing
  <2>1. k \in 1..Len(Roots)
    BY OrderIs, RootsTyped
  <2> QED
    BY <1>2, <1>4, <2>1 DEF ReadAt
<1>9. Progress'
  <2>1. Reached' = ScanOf(disk', Roots)[0]
    BY <1>2 DEF Reached
  <2>2. Reached' = EmptyCatalog
    BY <2>1, ScanOfUnfolds
  <2> QED
    BY <1>2, <2>2 DEF Progress
<1> QED
  BY <1>6, <1>7, <1>8, <1>9 DEF Scanned

\* What is known of a scan under way.
LEMMA Known ==
    ASSUME TypeOK, Scanned, scan.running
    PROVE  /\ scan.next \in Nat \ {0} /\ Len(Roots) \in Nat /\ DOMAIN Order = 1..Len(Roots)
           /\ (~ScanDone) => (scan.next \in DOMAIN Order /\ Root.dir \in Dirs
                              /\ disk[Root.dir] \in Directory)
           /\ scan.listed => ~ScanDone
           /\ IsCatalog(scan.catalog)
<1>1. scan.next \in 1..(Len(Roots) + 1) /\ (scan.listed => scan.next <= Len(Roots))
      /\ IsCatalog(scan.catalog)
  BY DEF Scanned, ScanTyped
<1>2. Len(Roots) \in Nat /\ DOMAIN Order = 1..Len(Roots)
  BY RootsTyped, OrderIs
<1>3. scan.next \in Nat \ {0} /\ (scan.listed => ~ScanDone)
  BY <1>1, <1>2 DEF ScanDone
<1>4. ASSUME ~ScanDone
      PROVE scan.next \in DOMAIN Order /\ Root.dir \in Dirs /\ disk[Root.dir] \in Directory
  <2>1. scan.next \in DOMAIN Order
    BY <1>1, <1>2, <1>4 DEF ScanDone
  <2>2. Root.dir \in Dirs
    BY <2>1, OrderDescends DEF Root
  <2> QED
    BY <2>1, <2>2 DEF TypeOK
<1> QED
  BY <1>1, <1>2, <1>3, <1>4

\* A directory is listed: it is no longer unread, and all its files are still to read.
LEMMA ListDirectoryScanned ==
    ASSUME TypeOK, Scanned, ListDirectory
    PROVE  Scanned'
<1> DEFINE files == disk[Root.dir]
<1>1. /\ scan.running /\ ~ScanDone /\ ~scan.listed
      /\ scan' = Scanning(scan.next, TRUE, DOMAIN files, scan.catalog, scan.steady)
      /\ unread' = unread \ {scan.next}
      /\ disk' = disk /\ watched' = watched
  BY DEF ListDirectory
<1>2. /\ scan'.next = scan.next /\ scan'.listed = TRUE /\ scan'.files = DOMAIN files
      /\ scan'.catalog = scan.catalog /\ scan'.steady = scan.steady
      /\ scan' = Scanning(scan'.next, scan'.listed, scan'.files, scan'.catalog, scan'.steady)
  BY ONLY <1>1 DEF Scanning
<1>3. /\ scan.next \in 1..Len(Roots) /\ scan.next \in 1..(Len(Roots) + 1)
      /\ scan.next <= Len(Roots)
      /\ Len(Roots) \in Nat /\ DOMAIN Order = 1..Len(Roots)
      /\ IsCatalog(scan.catalog) /\ files \in Directory
  BY <1>1, Known
<1>4. DOMAIN files \subseteq Files
  BY <1>3, DirectoryKinds
<1>5. Root' = Root
  BY <1>2 DEF Root
<1> HIDE DEF files
<1>6. ScanTyped'
  <2>1. scan'.steady \subseteq {s \in Dirs \X Files : s[2] \in DOMAIN disk'[s[1]]}
    BY <1>1, <1>2 DEF Scanned, ScanTyped
  <2> QED
    BY <1>2, <1>3, <1>4, <2>1 DEF ScanTyped
<1>7. Descending'
  BY <1>1, <1>2 DEF Scanned, Descending
<1>8. Listing'
  <2>1. \A k \in DOMAIN Order, f \in Files : ReadAt(k, f)' => ReadAt(k, f) \/ (k = scan.next /\ f \notin DOMAIN files)
    BY <1>2 DEF ReadAt
  <2> SUFFICES ASSUME NEW k \in DOMAIN Order, NEW f \in Files,
                      <<Order[k].dir, f>> \in scan.steady, Good(disk[Order[k].dir], f), ReadAt(k, f)'
               PROVE  \E e \in scan.catalog.entries :
                        e.name = f /\ Rank[e.tier] >= Rank[Order[k].tier]
    BY <1>1, <1>2 DEF Listing
  <2>2. CASE ReadAt(k, f)
    BY <1>1, <2>2 DEF Scanned, Listing
  <2>3. CASE k = scan.next /\ f \notin DOMAIN files
    <3>1. f \in DOMAIN disk[Order[k].dir]
      BY <1>1 DEF Scanned, ScanTyped
    <3> QED
      BY <2>3, <3>1 DEF files, Root
  <2> QED
    BY <2>1, <2>2, <2>3
<1>9. Progress'
  <2> SUFFICES ASSUME watched = Dirs, unread' \cap 1..(scan.next - 1) = {}
               PROVE  /\ DOMAIN files \subseteq DOMAIN files
                      /\ scan.catalog = AddFiles(Reached, Root, files, DOMAIN files \ DOMAIN files)
    BY <1>1, <1>2, <1>5 DEF Progress, HalfRead, Reached, files
  <2>1. unread \cap 1..(scan.next - 1) = {}
    BY <1>1, <1>3
  <2>2. scan.catalog = Reached
    BY <1>1, <2>1 DEF Scanned, Progress
  <2>3. DOMAIN files \ DOMAIN files = {}
    OBVIOUS
  <2> QED
    BY <1>3, <2>2, <2>3, AddFilesNone
<1> QED
  BY <1>6, <1>7, <1>8, <1>9 DEF Scanned

\* A directory is finished: the catalog is what one more of them gives.
LEMMA NextDirectoryScanned ==
    ASSUME TypeOK, Scanned, NextDirectory
    PROVE  Scanned'
<1>1. /\ scan.running /\ scan.listed /\ scan.files = {}
      /\ scan' = Scanning(scan.next + 1, FALSE, {}, scan.catalog, scan.steady)
      /\ unread' = unread /\ disk' = disk /\ watched' = watched
  BY DEF NextDirectory, disks
<1>2. /\ scan'.next = scan.next + 1 /\ scan'.listed = FALSE /\ scan'.files = {}
      /\ scan'.catalog = scan.catalog /\ scan'.steady = scan.steady
      /\ scan' = Scanning(scan'.next, scan'.listed, scan'.files, scan'.catalog, scan'.steady)
  BY ONLY <1>1 DEF Scanning
<1>3. /\ scan.next \in 1..Len(Roots) /\ scan.next + 1 \in 1..(Len(Roots) + 1)
      /\ Len(Roots) \in Nat /\ DOMAIN Order = 1..Len(Roots)
      /\ IsCatalog(scan.catalog)
  <2>1. /\ scan.next \in 1..Len(Roots) /\ Len(Roots) \in Nat /\ DOMAIN Order = 1..Len(Roots)
        /\ IsCatalog(scan.catalog)
    BY <1>1, Known
  <2> QED
    BY <2>1
<1>6. ScanTyped'
  <2>1. scan'.steady \subseteq {s \in Dirs \X Files : s[2] \in DOMAIN disk'[s[1]]}
    BY <1>1, <1>2 DEF Scanned, ScanTyped
  <2> QED
    BY <1>2, <1>3, <2>1 DEF ScanTyped
<1>7. Descending'
  <2>1. scan.next \in Nat /\ DOMAIN Order \subseteq Nat
    BY <1>3
  <2>2. \A k \in DOMAIN Order : k <= scan.next => k <= scan.next + 1
    BY ONLY <2>1
  <2>3. Descending
    BY DEF Scanned
  <2> QED
    BY ONLY <1>1, <1>2, <2>2, <2>3 DEF Descending
<1>8. Listing'
  <2> SUFFICES ASSUME NEW k \in DOMAIN Order, NEW f \in Files,
                      <<Order[k].dir, f>> \in scan.steady, Good(disk[Order[k].dir], f), ReadAt(k, f)'
               PROVE  \E e \in scan.catalog.entries :
                        e.name = f /\ Rank[e.tier] >= Rank[Order[k].tier]
    BY <1>1, <1>2 DEF Listing
  <2>1. k < scan.next \/ k = scan.next
    BY <1>2, <1>3 DEF ReadAt
  <2>2. ReadAt(k, f)
    BY <1>1, <2>1 DEF ReadAt
  <2> QED
    BY <1>1, <2>2 DEF Scanned, Listing
<1>9. Progress'
  <2>1. scan'.next - 1 = scan.next
    BY <1>2, <1>3
  <2>2. Reached' = ScanOf(disk, Roots)[scan.next]
    <3>1. Reached' = ScanOf(disk', Roots)[scan'.next - 1]
      BY DEF Reached
    <3> QED
      BY <1>1, <2>1, <3>1
  <2>3. SUFFICES ASSUME watched = Dirs, unread \cap 1..scan.next = {}
                 PROVE  scan.catalog = Reached'
    <3>2. UNCHANGED <<watched, unread>> /\ Dirs' = Dirs /\ ~scan'.listed /\ scan'.catalog = scan.catalog
      BY <1>1, <1>2 DEF Dirs
    <3>3. 1..(scan'.next - 1) = 1..scan.next
      BY <2>1
    <3> QED
      BY <2>3, <3>2, <3>3 DEF Progress
  <2>4. unread \cap 1..(scan.next - 1) = {} /\ scan.next \notin unread
    BY <1>3, <2>3
  <2>5. HalfRead
    BY <1>1, <2>3, <2>4 DEF Scanned, Progress
  <2>6. ScanOf(disk, Roots)[scan.next]
          = AddFiles(Reached, Root, disk[Root.dir], DOMAIN disk[Root.dir])
    BY <1>3, ScanOfIs DEF Reached, Root, TypeOK
  <2>7. DOMAIN disk[Root.dir] \ {} = DOMAIN disk[Root.dir]
    OBVIOUS
  <2> QED
    BY <1>1, <2>2, <2>5, <2>6, <2>7 DEF HalfRead
<1> QED
  BY <1>6, <1>7, <1>8, <1>9 DEF Scanned

\* A file is read, though it may have changed or gone since it was listed.
LEMMA ReadFileScanned ==
    ASSUME TypeOK, Scanned, NEW f \in Files, ReadFile(f)
    PROVE  Scanned'
<1> DEFINE new == AddFile(scan.catalog, Root, f, ContentNow(f))
           files == disk[Root.dir]
<1>1. /\ scan.running /\ f \in scan.files
      /\ scan' = Scanning(scan.next, TRUE, scan.files \ {f}, new, scan.steady)
      /\ unread' = unread /\ disk' = disk /\ watched' = watched
  BY DEF ReadFile, disks
<1> HIDE DEF new
<1>2. /\ scan'.next = scan.next /\ scan'.listed = TRUE /\ scan'.files = scan.files \ {f}
      /\ scan'.catalog = new /\ scan'.steady = scan.steady
      /\ scan' = Scanning(scan'.next, scan'.listed, scan'.files, scan'.catalog, scan'.steady)
  BY ONLY <1>1 DEF Scanning
<1>3. scan.listed
  BY <1>1 DEF Scanned, ScanTyped
<1>4. /\ scan.next \in 1..Len(Roots) /\ scan.next \in 1..(Len(Roots) + 1)
      /\ scan.next <= Len(Roots)
      /\ Len(Roots) \in Nat /\ DOMAIN Order = 1..Len(Roots)
      /\ IsCatalog(scan.catalog) /\ files \in Directory
  BY <1>1, <1>3, Known
<1>5. Root' = Root /\ Dirs' = Dirs
  BY <1>2 DEF Root, Dirs
<1>6. /\ IsCatalog(new)
      /\ \A e \in scan.catalog.entries : \E o \in new.entries : o.name = e.name /\ o.tier = e.tier
      /\ \A o \in new.entries :
           \/ \E e \in scan.catalog.entries : o.name = e.name /\ o.tier = e.tier
           \/ o.tier = Root.tier
      /\ Diagnosis(f, ContentNow(f)) = "none" => \E o \in new.entries : o.name = f
  BY ONLY <1>4, AddFileEntries DEF new
<1>7. f \in DOMAIN files => ContentNow(f) = files[f]
  BY DEF ContentNow
<1> HIDE DEF files
<1>8. ScanTyped'
  <2>1. scan'.steady \subseteq {s \in Dirs \X Files : s[2] \in DOMAIN disk'[s[1]]}
    BY <1>1, <1>2 DEF Scanned, ScanTyped
  <2>2. scan'.files \subseteq Files
    BY <1>1, <1>2 DEF Scanned, ScanTyped
  <2> QED
    BY <1>2, <1>4, <1>6, <2>1, <2>2 DEF ScanTyped
<1>9. \A o \in new.entries : \E k \in DOMAIN Order : k <= scan.next /\ o.tier = Order[k].tier
  <2>1. scan.next \in DOMAIN Order /\ scan.next <= scan.next /\ Root.tier = Order[scan.next].tier
    BY <1>4 DEF Root
  <2>2. \A e \in scan.catalog.entries : \E k \in DOMAIN Order :
            k <= scan.next /\ e.tier = Order[k].tier
    BY <1>1 DEF Scanned, Descending
  <2> QED
    BY ONLY <1>6, <2>1, <2>2
<1>10. Descending'
  BY <1>2, <1>9 DEF Descending
<1>11. Listing'
  <2> SUFFICES ASSUME NEW k \in DOMAIN Order, NEW g \in Files,
                      <<Order[k].dir, g>> \in scan.steady, Good(disk[Order[k].dir], g), ReadAt(k, g)'
               PROVE  \E e \in new.entries :
                        e.name = g /\ Rank[e.tier] >= Rank[Order[k].tier]
    BY <1>1, <1>2 DEF Listing
  <2>1. ReadAt(k, g) \/ (k = scan.next /\ g = f)
    BY <1>2, <1>3 DEF ReadAt
  <2>2. CASE ReadAt(k, g)
    <3>1. \E e \in scan.catalog.entries :
            e.name = g /\ Rank[e.tier] >= Rank[Order[k].tier]
      BY <1>1, <2>2 DEF Scanned, Listing
    <3> QED
      BY <1>6, <3>1
  <2>3. CASE k = scan.next /\ g = f
    <3>1. Order[k] = Root
      BY <2>3 DEF Root
    <3>2. f \in DOMAIN files
      BY <1>1, <2>3, <3>1 DEF Scanned, ScanTyped, files
    <3>3. Diagnosis(f, ContentNow(f)) = "none"
      BY <1>7, <2>3, <3>1, <3>2 DEF Good, files
    <3>4. PICK o \in new.entries : o.name = f
      BY <1>6, <3>3
    <3>5. PICK l \in DOMAIN Order : l <= scan.next /\ o.tier = Order[l].tier
      BY <1>9
    <3>6. Rank[Order[l].tier] >= Rank[Order[k].tier]
      BY <2>3, <3>5, OrderDescends
    <3> QED
      BY <2>3, <3>4, <3>5, <3>6
  <2> QED
    BY <2>1, <2>2, <2>3
<1>12. Progress'
  <2>1. SUFFICES ASSUME watched = Dirs, unread \cap 1..(scan.next - 1) = {}, scan.next \notin unread
                 PROVE  HalfRead'
    BY <1>1, <1>2, <1>5 DEF Progress
  <2>2. scan.files \subseteq DOMAIN files
        /\ scan.catalog = AddFiles(Reached, Root, files, DOMAIN files \ scan.files)
    BY <1>1, <1>3, <2>1 DEF Scanned, Progress, HalfRead, files
  <2>3. IsCatalog(Reached)
    <3>1. scan.next - 1 \in 0..Len(Roots)
      BY <1>4
    <3> QED
      BY <3>1, ScanOfIs DEF Reached, TypeOK
  <2> DEFINE T == DOMAIN files \ scan.files
  <2>4. f \notin T /\ T \cup {f} = DOMAIN files \ (scan.files \ {f})
        /\ scan.files \ {f} \subseteq DOMAIN files /\ f \in DOMAIN files
    BY <1>1, <2>2
  <2> HIDE DEF T
  <2>5. AddFiles(Reached, Root, files, T \cup {f})
          = AddFile(AddFiles(Reached, Root, files, T), Root, f, files[f])
    BY ONLY <2>3, <2>4, AddFilesStep
  <2>6. scan.catalog = AddFiles(Reached, Root, files, T)
    BY <2>2 DEF T
  <2>7. new = AddFiles(Reached, Root, files, DOMAIN files \ (scan.files \ {f}))
    BY ONLY <1>7, <2>4, <2>5, <2>6 DEF new
  <2>8. Reached' = Reached
    BY <1>1, <1>2 DEF Reached
  <2> QED
    BY <1>1, <1>2, <1>5, <2>4, <2>7, <2>8 DEF HalfRead, files
<1> QED
  BY <1>8, <1>10, <1>11, <1>12 DEF Scanned

\* The disk changes under a scan: what was read of a watched directory counts no more.
LEMMA ChangedScanned ==
    ASSUME TypeOK, Scanned, NEW d \in Dirs, NEW files \in Directory, Changed(d, files),
           watched' \subseteq watched
    PROVE  Scanned'
<1>1. CASE Free
  <2>1. ~scan'.running
    BY <1>1 DEF Changed, Free
  <2> QED
    BY <2>1, NoScanScanned
<1>2. CASE ~Free
  <2> DEFINE steady == {s \in scan.steady : s[1] # d \/
                            (s[2] \in DOMAIN files /\ files[s[2]] = disk[d][s[2]])}
  <2>0. scan.running
    BY <1>2 DEF Free
  <2>1. scan = Scanning(scan.next, scan.listed, scan.files, scan.catalog, scan.steady)
    BY <2>0 DEF Scanned, ScanTyped
  <2>2. scan' = [scan EXCEPT !.steady = steady]
    BY <1>2 DEF Changed
  <2> HIDE DEF steady
  <2>3. /\ scan'.running /\ scan'.next = scan.next /\ scan'.listed = scan.listed
        /\ scan'.files = scan.files /\ scan'.catalog = scan.catalog /\ scan'.steady = steady
        /\ scan' = Scanning(scan'.next, scan'.listed, scan'.files, scan'.catalog, scan'.steady)
    <3>1. scan' = [Scanning(scan.next, scan.listed, scan.files, scan.catalog, scan.steady)
                     EXCEPT !.steady = steady]
      BY ONLY <2>1, <2>2
    <3>2. scan' = Scanning(scan.next, scan.listed, scan.files, scan.catalog, steady)
      BY ONLY <3>1 DEF Scanning
    <3> QED
      BY ONLY <3>2 DEF Scanning
  <2>4. /\ disk' \in [Dirs -> Directory] /\ disk \in [Dirs -> Directory]
        /\ \A e \in Dirs : disk'[e] = IF e = d THEN files ELSE disk[e]
        /\ unread' = IF d \in watched THEN unread \cup PositionsOf(d) ELSE unread
    BY ChangedKinds DEF TypeOK
  <2>5. /\ scan.next \in Nat \ {0} /\ Len(Roots) \in Nat /\ DOMAIN Order = 1..Len(Roots)
        /\ scan.listed => scan.next \in DOMAIN Order
        /\ scan.next \in 1..(Len(Roots) + 1)
    BY <2>0, Known DEF Scanned, ScanTyped
  <2>6. \A e \in Dirs, f \in Files : <<e, f>> \in steady =>
            <<e, f>> \in scan.steady /\ f \in DOMAIN disk'[e] /\ disk'[e][f] = disk[e][f]
    <3> SUFFICES ASSUME NEW e \in Dirs, NEW f \in Files, <<e, f>> \in steady
                 PROVE  <<e, f>> \in scan.steady /\ f \in DOMAIN disk'[e]
                        /\ disk'[e][f] = disk[e][f]
      OBVIOUS
    <3>1. /\ <<e, f>> \in scan.steady
          /\ e # d \/ (f \in DOMAIN files /\ files[f] = disk[d][f])
      BY DEF steady
    <3>2. f \in DOMAIN disk[e]
      BY <2>0, <3>1 DEF Scanned, ScanTyped
    <3> QED
      BY <2>4, <3>1, <3>2
  <2>7. ScanTyped'
    <3>1. steady \subseteq scan.steady /\ scan.steady \subseteq Dirs \X Files
      BY <2>0 DEF Scanned, ScanTyped, steady
    <3>2. steady \subseteq {s \in Dirs \X Files : s[2] \in DOMAIN disk'[s[1]]}
      BY <2>6, <3>1
    <3> QED
      BY <2>0, <2>3, <3>2 DEF Scanned, ScanTyped
  <2>8. Descending'
    BY <2>0, <2>3 DEF Scanned, Descending
  <2>9. Listing'
    <3> SUFFICES ASSUME NEW k \in DOMAIN Order, NEW f \in Files,
                        <<Order[k].dir, f>> \in steady, Good(disk'[Order[k].dir], f), ReadAt(k, f)'
                 PROVE  \E e \in scan.catalog.entries :
                          e.name = f /\ Rank[e.tier] >= Rank[Order[k].tier]
      BY <2>3 DEF Listing
    <3>1. Order[k].dir \in Dirs
      BY OrderDescends
    <3>2. <<Order[k].dir, f>> \in scan.steady /\ Good(disk[Order[k].dir], f)
      BY <2>6, <3>1 DEF Good
    <3>3. ReadAt(k, f)
      BY <2>3 DEF ReadAt
    <3> QED
      BY <2>0, <3>2, <3>3 DEF Scanned, Listing
  <2>10. Progress'
    <3>1. SUFFICES ASSUME watched' = Dirs, unread' \cap 1..(scan.next - 1) = {}
                   PROVE  /\ ~scan.listed => scan.catalog = Reached'
                          /\ (scan.listed /\ scan.next \notin unread') => HalfRead'
      BY <2>3 DEF Progress, Dirs
    <3>2. watched = Dirs /\ unread' = unread \cup PositionsOf(d)
      BY <2>4, <3>1 DEF TypeOK
    <3>3. unread \cap 1..(scan.next - 1) = {}
      BY <3>1, <3>2
    <3>4. \A k \in DOMAIN Order : k \notin unread' =>
            Order[k].dir \in Dirs /\ disk'[Order[k].dir] = disk[Order[k].dir]
      BY <2>4, <3>2, OrderDescends DEF PositionsOf
    <3>5. \A k \in 1..(scan.next - 1) : disk[Order[k].dir] = disk'[Order[k].dir]
      BY <2>5, <3>1, <3>4
    <3>6. Reached' = Reached
      <4>1. scan.next - 1 \in 0..Len(Roots)
        BY <2>5
      <4>2. ScanOf(disk, Roots)[scan.next - 1] = ScanOf(disk', Roots)[scan.next - 1]
        BY <2>4, <3>5, <4>1, ScanOfLocal
      <4>3. Reached' = ScanOf(disk', Roots)[scan.next - 1]
        BY <2>3 DEF Reached
      <4> QED
        BY <4>2, <4>3 DEF Reached
    <3>7. ASSUME scan.listed, scan.next \notin unread'
          PROVE  HalfRead'
      <4>1. Root' = Root /\ disk'[Root.dir] = disk[Root.dir]
        BY <2>3, <2>5, <3>4, <3>7 DEF Root
      <4>2. HalfRead
        BY <2>0, <3>2, <3>3, <3>7 DEF Scanned, Progress
      <4> QED
        BY <2>3, <3>6, <4>1, <4>2 DEF HalfRead
    <3> QED
      BY <2>0, <3>2, <3>3, <3>6, <3>7 DEF Scanned, Progress
  <2> QED
    BY <2>7, <2>8, <2>9, <2>10 DEF Scanned
<1> QED
  BY <1>1, <1>2

\* The invariant of a scan, action by action.
LEMMA ScannedStep ==
    ASSUME TypeOK, Scanned, [Next]_vars
    PROVE  Scanned'
<1>1. CASE DiskChange
  BY <1>1, DiskChanges, ChangedScanned
<1>2. CASE EventDelivered \/ Close \/ UNCHANGED vars
  <2>1. UNCHANGED <<disk, watched, unread, scan>>
    BY <1>2 DEF EventDelivered, Close, disks, vars
  <2> QED
    BY <2>1, SameScanned
<1>3. CASE TimerElapses
  <2>1. UNCHANGED disks /\ (scan' = NoScan \/ scan' = Begun)
    BY <1>3 DEF TimerElapses
  <2>2. scan' = NoScan => ~scan'.running
    BY DEF NoScan
  <2> QED
    BY <2>1, <2>2, NoScanScanned, BegunScanned
<1>4. CASE Report
  <2>1. ~scan'.running
    BY <1>4 DEF Report, NoScan
  <2> QED
    BY <2>1, NoScanScanned
<1>5. CASE ListDirectory
  BY <1>5, ListDirectoryScanned
<1>6. CASE NextDirectory
  BY <1>6, NextDirectoryScanned
<1>7. CASE \E f \in Files : ReadFile(f)
  BY <1>7, ReadFileScanned
<1> QED
  BY <1>1, <1>2, <1>3, <1>4, <1>5, <1>6, <1>7 DEF Next, ScanStep

\* No scan runs at the start.
LEMMA InitScanned == Init => Scanned
<1> SUFFICES ASSUME Init PROVE Scanned
  OBVIOUS
<1>1. ~scan.running
  BY DEF Init, NoScan
<1> QED
  BY <1>1 DEF Scanned, ScanTyped, Descending, Listing, Progress

\* The inductive invariant of a watcher and its scan.
LEMMA ScannedCorrect == Spec => [](TypeOK /\ Scanned)
<1>1. Init => TypeOK /\ Scanned
  BY InitTyped, InitScanned
<1>2. TypeOK /\ Scanned /\ [Next]_vars => (TypeOK /\ Scanned)'
  BY TypeStep, ScannedStep
<1> QED
  BY <1>1, <1>2, PTL DEF Spec

\* A root that a scan ended past was read whole; the entry of its steady card came
\* with it, or earlier from a root that does not rank lower.
LEMMA SteadyFollows ==
    ASSUME TypeOK, Scanned
    PROVE  SteadyCardsListed
<1> SUFFICES ASSUME ScanDone, NEW i \in DOMAIN Roots, NEW f \in Files,
                    <<Roots[i].dir, f>> \in scan.steady, ValidAt(i, f)
             PROVE  \E e \in scan.catalog.entries :
                      e.name = f /\ Rank[e.tier] >= Rank[Roots[i].tier]
  BY DEF SteadyCardsListed
<1>1. At(i) \in DOMAIN Order /\ Order[At(i)] = Roots[i]
  BY OrderIs
<1>2. Good(disk[Order[At(i)].dir], f)
  BY <1>1 DEF ValidAt, Good
<1>3. scan.running
  BY DEF ScanDone
<1>4. ReadAt(At(i), f)
  BY <1>1, <1>3, Known DEF ReadAt, ScanDone
<1>5. \A k \in DOMAIN Order, g \in Files :
        (<<Order[k].dir, g>> \in scan.steady /\ Good(disk[Order[k].dir], g) /\ ReadAt(k, g)) =>
            \E e \in scan.catalog.entries :
                e.name = g /\ Rank[e.tier] >= Rank[Order[k].tier]
  BY <1>3 DEF Scanned, Listing
<1> QED
  BY <1>1, <1>2, <1>4, <1>5

\* A valid card nobody touches during a scan is in what the scan ends with, under an
\* entry of its tier or a higher one, whatever else is written between the calls
\* that read the disk (catalog.rs:73-108, 124-125; catalog.ts and parse.ts alike).
THEOREM SteadyCorrect == Spec => []SteadyCardsListed
  BY ScannedCorrect, SteadyFollows, PTL

\* A report is current when it is made, and a change that outdates it is unread.
LEMMA ReportStep ==
    ASSUME TypeOK, Scanned, ReportIsCurrent, [Next]_vars
    PROVE  ReportIsCurrent'
<1>1. CASE DiskChange
  <2>1. PICK d \in Dirs, files \in Directory :
          /\ Changed(d, files)
          /\ watched' \subseteq watched /\ watched' \subseteq existing'
          /\ existing' \subseteq Dirs
    BY <1>1, DiskChanges
  <2>2. unread' = IF d \in watched THEN unread \cup PositionsOf(d) ELSE unread
    BY <2>1, ChangedKinds
  <2>3. watched' = Dirs => unread' # {}
    BY <2>1, <2>2, Positioned
  <2>4. Dirs' = Dirs
    BY DEF Dirs
  <2> QED
    BY <2>3, <2>4 DEF ReportIsCurrent
<1>2. CASE EventDelivered \/ UNCHANGED vars
  <2>1. UNCHANGED <<disk, watched, unread, changes, closed, scan, report>>
    BY <1>2 DEF EventDelivered, disks, vars
  <2> QED
    BY <2>1 DEF ReportIsCurrent, Free
<1>3. CASE TimerElapses
  <2>1. closed' \/ scan'.running
    BY <1>3 DEF TimerElapses, Begun, Scanning
  <2> QED
    BY <2>1 DEF ReportIsCurrent, Free
<1>4. CASE Close
  BY <1>4 DEF Close, ReportIsCurrent
<1>5. CASE ListDirectory \/ NextDirectory \/ \E f \in Files : ReadFile(f)
  <2>1. scan'.running
    BY <1>5 DEF ListDirectory, NextDirectory, ReadFile, Scanning
  <2> QED
    BY <2>1 DEF ReportIsCurrent, Free
<1>6. CASE Report
  <2>1. /\ ScanDone /\ report' = Listed(scan.catalog, FALSE)
        /\ disk' = disk /\ watched' = watched /\ unread' = unread
    BY <1>6 DEF Report, disks
  <2>2. SUFFICES ASSUME unread = {}, watched = Dirs
                 PROVE  scan.catalog = Enumerate(disk, Roots, TRUE)
    BY <2>1 DEF ReportIsCurrent, Dirs
  <2>3. scan.running /\ ~scan.listed
    BY <2>1, Known DEF ScanDone
  <2>4. scan.next - 1 = Len(Roots)
    BY <2>1, <2>3, RootsTyped DEF ScanDone, Scanned, ScanTyped
  <2>5. scan.catalog = Reached
    BY <2>2, <2>3 DEF Scanned, Progress
  <2> QED
    BY <2>4, <2>5 DEF Reached, Enumerate, Listed
<1> QED
  BY <1>1, <1>2, <1>3, <1>4, <1>5, <1>6 DEF Next, ScanStep

\* A watcher that has read every change has handed out the catalog of the disk as
\* it is, though each scan saw every directory and file at a moment of its own
\* (watch.ts:32-43).
THEOREM ReportCorrect == Spec => []ReportIsCurrent
<1>1. Init => TypeOK /\ Scanned
  BY InitTyped, InitScanned
<1>2. Init => ReportIsCurrent
  BY DEF Init, ReportIsCurrent
<1>3. TypeOK /\ Scanned /\ ReportIsCurrent /\ [Next]_vars => ReportIsCurrent'
  BY ReportStep
<1>4. TypeOK /\ Scanned /\ [Next]_vars => (TypeOK /\ Scanned)'
  BY TypeStep, ScannedStep
<1> QED
  BY <1>1, <1>2, <1>3, <1>4, PTL DEF Spec

-----------------------------------------------------------------------------
(* A disk at rest                                                          *)

\* The valid cards of a name by their positions, and the diagnostics by theirs.
FilesAt(m) == disk[Order[m].dir]
HoldsAt(m, f) == f \in DOMAIN FilesAt(m) /\ Good(FilesAt(m), f)
Holding(k, f) == {m \in 1..k : HoldsAt(m, f)}
NotesAt(m, f) ==
    IF f \in DOMAIN FilesAt(m) /\ ~HoldsAt(m, f)
    THEN {Note(Diagnosis(f, FilesAt(m)[f]), Order[m], f)}
    ELSE IF HoldsAt(m, f) /\ Holding(m - 1, f) # {} THEN {Note("shadowed", Order[m], f)}
    ELSE {}

\* An entry after k directories: the first position that holds its name, and all
\* the others shadowed.
Merged(k, e) ==
    /\ e.name \in Files
    /\ \E m \in Holding(k, e.name) :
         LET others == Holding(k, e.name) \ {m} IN
         /\ \A l \in others : m < l
         /\ e.dir = Order[m].dir /\ e.tier = Order[m].tier
         /\ e.shadowed \in Seq(Dirs)
         /\ ToSet(e.shadowed) = {Order[l].dir : l \in others}
         /\ Len(e.shadowed) = Cardinality(others)
After(k, c) ==
    /\ \A e \in c.entries : Merged(k, e)
    /\ \A f \in Files : Holding(k, f) # {} => \E e \in c.entries : e.name = f
    /\ c.diagnostics = UNION {NotesAt(m, f) : m \in 1..k, f \in Files}

\* One position more.
LEMMA HoldingGrows ==
    ASSUME NEW k \in Nat, NEW f
    PROVE  /\ IsFiniteSet(Holding(k, f)) /\ Holding(k, f) \subseteq 1..k
           /\ Holding(k + 1, f) = IF HoldsAt(k + 1, f) THEN Holding(k, f) \cup {k + 1}
                                                       ELSE Holding(k, f)
           /\ k + 1 \notin Holding(k, f)
<1>1. IsFiniteSet(1..k) /\ Holding(k, f) \subseteq 1..k
  BY FS_Interval DEF Holding
<1>2. IsFiniteSet(Holding(k, f))
  BY <1>1, FS_Subset
<1>3. \A m : m \in 1..(k + 1) <=> (m \in 1..k \/ m = k + 1)
  OBVIOUS
<1>4. k + 1 \notin 1..k
  OBVIOUS
<1> HIDE DEF HoldsAt
<1> QED
  BY ONLY <1>1, <1>2, <1>3, <1>4 DEF Holding

\* One more card of a name that has an entry already.
LEMMA MergedShadowing ==
    ASSUME NEW k \in Nat, NEW e, IsEntry(e), Merged(k, e), HoldsAt(k + 1, e.name),
           Order[k + 1].dir \in Dirs
    PROVE  Merged(k + 1, Shadowing(e, Order[k + 1]))
<1> DEFINE root == Order[k + 1]
           s == Shadowing(e, root)
<1>1. /\ s.name = e.name /\ s.tier = e.tier /\ s.dir = e.dir
      /\ s.shadowed = Append(e.shadowed, root.dir)
  BY ShadowingKinds
<1>2. PICK m \in Holding(k, e.name) :
         LET others == Holding(k, e.name) \ {m} IN
         /\ \A l \in others : m < l
         /\ e.dir = Order[m].dir /\ e.tier = Order[m].tier
         /\ e.shadowed \in Seq(Dirs)
         /\ ToSet(e.shadowed) = {Order[l].dir : l \in others}
         /\ Len(e.shadowed) = Cardinality(others)
  BY DEF Merged
<1> DEFINE others == Holding(k, e.name) \ {m}
           new == Holding(k + 1, e.name) \ {m}
<1>3. /\ IsFiniteSet(others) /\ new = others \cup {k + 1} /\ k + 1 \notin others
      /\ m \in Holding(k + 1, e.name) /\ m \in 1..k
  <2>1. /\ IsFiniteSet(Holding(k, e.name)) /\ Holding(k, e.name) \subseteq 1..k
        /\ Holding(k + 1, e.name) = Holding(k, e.name) \cup {k + 1}
        /\ k + 1 \notin Holding(k, e.name)
    BY HoldingGrows
  <2>2. IsFiniteSet(others)
    BY <2>1, FS_RemoveElement
  <2> QED
    BY <2>1, <2>2
<1>4. Cardinality(new) = Cardinality(others) + 1
  <2> HIDE DEF others, new
  <2> QED
    BY <1>3, FS_AddElement
<1>5. \A l \in new : m < l
  BY <1>2, <1>3
<1>6. /\ e.shadowed \in Seq(Dirs) /\ root.dir \in Dirs
      /\ ToSet(e.shadowed) = {Order[l].dir : l \in others}
      /\ Len(e.shadowed) = Cardinality(others)
  BY <1>2
<1> HIDE DEF new, others, root, s
<1>7. s.shadowed \in Seq(Dirs) /\ Len(s.shadowed) = Cardinality(new)
  <2>1. \A q \in Seq(Dirs), x \in Dirs :
          Append(q, x) \in Seq(Dirs) /\ Len(Append(q, x)) = Len(q) + 1
    OBVIOUS
  <2> QED
    BY ONLY <1>1, <1>4, <1>6, <2>1
<1>8. ToSet(s.shadowed) = ToSet(e.shadowed) \cup {root.dir}
  <2> DEFINE old == e.shadowed
  <2>0. old \in Seq(Dirs) /\ s.shadowed = Append(old, root.dir) /\ root.dir \in Dirs
    BY <1>1, <1>6
  <2> HIDE DEF old
  <2>1. /\ Len(old) \in Nat
        /\ DOMAIN old = 1..Len(old) /\ DOMAIN s.shadowed = 1..(Len(old) + 1)
        /\ \A i \in 1..Len(old) : s.shadowed[i] = old[i]
        /\ s.shadowed[Len(old) + 1] = root.dir
    BY <2>0
  <2>2. ToSet(s.shadowed) = ToSet(old) \cup {root.dir}
    BY ONLY <2>1 DEF ToSet
  <2> QED
    BY <2>2 DEF old
<1>9. {Order[l].dir : l \in new} = {Order[l].dir : l \in others} \cup {root.dir}
  BY ONLY <1>3 DEF root
<1>10. s.dir = Order[m].dir /\ s.tier = Order[m].tier /\ s.name \in Files
  BY <1>1, <1>2 DEF Merged
<1>11. ToSet(s.shadowed) = {Order[l].dir : l \in new}
  BY <1>6, <1>8, <1>9
<1>12. m \in Holding(k + 1, s.name) /\ new = Holding(k + 1, s.name) \ {m}
  BY <1>1, <1>3 DEF new
<1>13. Merged(k + 1, s)
  BY ONLY <1>5, <1>7, <1>10, <1>11, <1>12 DEF Merged
<1> QED
  BY <1>13 DEF s, root

\* The first card of a name.
LEMMA MergedFirst ==
    ASSUME NEW k \in Nat, NEW f \in Files, Holding(k, f) = {}, HoldsAt(k + 1, f), NEW content
    PROVE  Merged(k + 1, EntryOf(Order[k + 1], f, content))
<1> DEFINE e == EntryOf(Order[k + 1], f, content)
<1>1. /\ e.name = f /\ e.tier = Order[k + 1].tier /\ e.dir = Order[k + 1].dir
      /\ e.shadowed = <<>>
  BY EntryKinds
<1> HIDE DEF e
<1>2. Holding(k + 1, f) = {k + 1}
  BY HoldingGrows
<1>3. Holding(k + 1, e.name) \ {k + 1} = {} /\ k + 1 \in Holding(k + 1, e.name)
  BY <1>1, <1>2
<1>4. /\ e.shadowed \in Seq(Dirs) /\ ToSet(e.shadowed) = {} /\ Len(e.shadowed) = 0
  BY <1>1 DEF ToSet
<1>5. Cardinality({}) = 0
  BY FS_EmptySet
<1>6. Merged(k + 1, e)
  BY ONLY <1>1, <1>3, <1>4, <1>5 DEF Merged
<1> QED
  BY <1>6 DEF e

\* A directory that has no card of the name.
LEMMA MergedStays ==
    ASSUME NEW k \in Nat, NEW e, Merged(k, e), ~HoldsAt(k + 1, e.name)
    PROVE  Merged(k + 1, e)
<1>1. Holding(k + 1, e.name) = Holding(k, e.name)
  BY HoldingGrows
<1> QED
  BY <1>1 DEF Merged

\* One directory more, with all its cards and diagnostics.
LEMMA AfterStep ==
    ASSUME NEW k \in Nat, NEW c, IsCatalog(c), After(k, c),
           Order[k + 1].dir \in Dirs, FilesAt(k + 1) \in Directory
    PROVE  After(k + 1, AddFiles(c, Order[k + 1], FilesAt(k + 1), DOMAIN FilesAt(k + 1)))
<1> DEFINE root == Order[k + 1]
           files == FilesAt(k + 1)
           new == AddFiles(c, root, files, DOMAIN files)
<1>1. DOMAIN files \subseteq Files
  BY DirectoryKinds
<1>2. \A f : HoldsAt(k + 1, f) <=> (f \in DOMAIN files /\ Good(files, f))
  BY DEF HoldsAt
<1>3. \A f \in Files : Named(c, f) = {} <=> Holding(k, f) = {}
  <2> SUFFICES ASSUME NEW f \in Files PROVE Named(c, f) = {} <=> Holding(k, f) = {}
    OBVIOUS
  <2>1. ASSUME NEW e \in c.entries, e.name = f PROVE Holding(k, f) # {}
    BY <2>1 DEF After, Merged
  <2>2. Holding(k, f) # {} => \E e \in c.entries : e.name = f
    BY DEF After
  <2> QED
    BY <2>1, <2>2 DEF Named
<1>4. new.entries =
        {IF e.name \in DOMAIN files /\ Good(files, e.name) THEN Shadowing(e, root) ELSE e : e \in c.entries}
        \cup {EntryOf(root, f, files[f]) : f \in {g \in DOMAIN files : Good(files, g) /\ Named(c, g) = {}}}
  BY DEF AddFiles
<1>5. new.diagnostics =
        c.diagnostics
        \cup {Note(Diagnosis(f, files[f]), root, f) : f \in {g \in DOMAIN files : ~Good(files, g)}}
        \cup {Note("shadowed", root, f) : f \in {g \in DOMAIN files : Good(files, g) /\ Named(c, g) # {}}}
  BY DEF AddFiles
<1> HIDE DEF files, new
<1>6. ASSUME NEW o \in new.entries
      PROVE  Merged(k + 1, o)
  <2>1. CASE \E e \in c.entries :
               o = IF e.name \in DOMAIN files /\ Good(files, e.name) THEN Shadowing(e, root) ELSE e
    <3>1. PICK e \in c.entries :
               o = IF e.name \in DOMAIN files /\ Good(files, e.name) THEN Shadowing(e, root) ELSE e
      BY <2>1
    <3>2. Merged(k, e) /\ IsEntry(e)
      BY DEF After, IsCatalog
    <3>3. CASE HoldsAt(k + 1, e.name)
      <4>1. o = Shadowing(e, root)
        BY <1>2, <3>1, <3>3
      <4> QED
        BY <3>2, <3>3, <4>1, MergedShadowing
    <3>4. CASE ~HoldsAt(k + 1, e.name)
      <4>1. o = e
        BY <1>2, <3>1, <3>4
      <4> QED
        BY <3>2, <3>4, <4>1, MergedStays
    <3> QED
      BY <3>3, <3>4
  <2>2. CASE \E f \in DOMAIN files : Good(files, f) /\ Named(c, f) = {} /\ o = EntryOf(root, f, files[f])
    <3>1. PICK f \in DOMAIN files : Good(files, f) /\ Named(c, f) = {} /\ o = EntryOf(root, f, files[f])
      BY <2>2
    <3>2. f \in Files /\ Holding(k, f) = {} /\ HoldsAt(k + 1, f)
      BY <1>1, <1>2, <1>3, <3>1
    <3> QED
      BY <3>1, <3>2, MergedFirst
  <2> QED
    BY ONLY <1>4, <2>1, <2>2
<1>7. ASSUME NEW f \in Files, Holding(k + 1, f) # {}
      PROVE  \E o \in new.entries : o.name = f
  <2>1. Holding(k, f) # {} \/ (f \in DOMAIN files /\ Good(files, f))
    BY <1>2, <1>7, HoldingGrows
  <2>2. /\ \A e \in c.entries : \E o \in new.entries : o.name = e.name /\ o.tier = e.tier
        /\ \A g \in DOMAIN files : Good(files, g) => \E o \in new.entries : o.name = g
    BY ONLY IsCatalog(c), AddFilesEntries DEF new
  <2>3. Holding(k, f) # {} => \E e \in c.entries : e.name = f
    BY DEF After
  <2> QED
    BY ONLY <2>1, <2>2, <2>3
<1>8. new.diagnostics = UNION {NotesAt(m, f) : m \in 1..(k + 1), f \in Files}
  <2>1. UNION {NotesAt(m, f) : m \in 1..(k + 1), f \in Files}
          = (UNION {NotesAt(m, f) : m \in 1..k, f \in Files})
            \cup (UNION {NotesAt(k + 1, f) : f \in Files})
    <3>1. \A m : m \in 1..(k + 1) <=> (m \in 1..k \/ m = k + 1)
      OBVIOUS
    <3> HIDE DEF NotesAt
    <3> QED
      BY ONLY <3>1
  <2>2. \A f \in Files : NotesAt(k + 1, f) =
          IF f \in DOMAIN files /\ ~Good(files, f) THEN {Note(Diagnosis(f, files[f]), root, f)}
          ELSE IF f \in DOMAIN files /\ Good(files, f) /\ Named(c, f) # {} THEN {Note("shadowed", root, f)}
          ELSE {}
    <3>1. k + 1 - 1 = k
      OBVIOUS
    <3> QED
      BY <1>2, <1>3, <3>1 DEF NotesAt, files
  <2>3. UNION {NotesAt(k + 1, f) : f \in Files}
          = {Note(Diagnosis(f, files[f]), root, f) : f \in {g \in DOMAIN files : ~Good(files, g)}}
            \cup {Note("shadowed", root, f) : f \in {g \in DOMAIN files : Good(files, g) /\ Named(c, g) # {}}}
    BY ONLY <1>1, <2>2
  <2>4. c.diagnostics = UNION {NotesAt(m, f) : m \in 1..k, f \in Files}
    BY DEF After
  <2> QED
    BY ONLY <1>5, <2>1, <2>3, <2>4
<1>9. After(k + 1, new)
  BY ONLY <1>6, <1>7, <1>8 DEF After
<1> QED
  BY <1>9 DEF new, files, root

\* What all directories give.
LEMMA AllAfter ==
    ASSUME disk \in [Dirs -> Directory]
    PROVE  After(Len(Roots), ScanOf(disk, Roots)[Len(Roots)])
<1> DEFINE n == Len(Roots)
           from == ScanOf(disk, Roots)
           S == {k \in 0..n : After(k, from[k])}
<1>1. /\ n \in Nat /\ from[0] = EmptyCatalog /\ \A k \in 0..n : IsCatalog(from[k])
      /\ \A k \in 1..n : from[k] = AddFiles(from[k - 1], Order[k], FilesAt(k), DOMAIN FilesAt(k))
  BY RootsTyped, ScanOfIs DEF FilesAt
<1>2. \A k \in 1..n : Order[k].dir \in Dirs /\ FilesAt(k) \in Directory
  <2>1. DOMAIN Order = 1..n
    BY RootsTyped, OrderIs
  <2> QED
    BY <2>1, OrderDescends DEF FilesAt
<1> HIDE DEF n, from
<1>3. 0 \in S
  <2>1. 1..0 = {} /\ 0 \in 0..n
    BY <1>1
  <2>2. \A f : Holding(0, f) = {}
    BY <2>1 DEF Holding
  <2>3. After(0, EmptyCatalog)
    BY <2>1, <2>2 DEF After, EmptyCatalog
  <2> QED
    BY <1>1, <2>1, <2>3
<1>4. \A k \in 0..n : k \in S /\ k < n => k + 1 \in S
  <2> SUFFICES ASSUME NEW k \in 0..n, k \in S, k < n PROVE k + 1 \in S
    OBVIOUS
  <2>1. k \in Nat /\ k + 1 \in 1..n /\ k + 1 \in 0..n /\ (k + 1) - 1 = k
    BY <1>1
  <2>2. After(k + 1, AddFiles(from[k], Order[k + 1], FilesAt(k + 1), DOMAIN FilesAt(k + 1)))
    BY <1>1, <1>2, <2>1, AfterStep
  <2>3. from[k + 1] = AddFiles(from[k], Order[k + 1], FilesAt(k + 1), DOMAIN FilesAt(k + 1))
    BY <1>1, <2>1
  <2> QED
    BY <2>1, <2>2, <2>3
<1>5. 0..n \subseteq S
  <2> HIDE DEF S
  <2> QED
    BY ONLY <1>1, <1>3, <1>4, UpTo
<1> QED
  BY <1>1, <1>5 DEF n, from

-----------------------------------------------------------------------------
(* The same by roots                                                       *)

\* The valid cards of a name by their roots.
LEMMA ValidIs ==
    ASSUME NEW f
    PROVE  /\ \A i \in DOMAIN Roots : i \in Valid(f) <=> At(i) \in Holding(Len(Roots), f)
           /\ Valid(f) \subseteq DOMAIN Roots /\ Holding(Len(Roots), f) \subseteq DOMAIN Roots
           /\ \A m \in Holding(Len(Roots), f) : \E i \in Valid(f) : At(i) = m
           /\ IsFiniteSet(Valid(f))
<1>1. \A i \in DOMAIN Roots : ValidAt(i, f) <=> HoldsAt(At(i), f)
  BY OrderIs DEF ValidAt, HoldsAt, FilesAt, Good
<1>2. DOMAIN Roots = 1..Len(Roots) /\ DOMAIN Order = DOMAIN Roots /\ IsFiniteSet(DOMAIN Roots)
  BY RootsTyped, OrderIs
<1>3. \A i \in DOMAIN Roots : i \in Valid(f) <=> At(i) \in Holding(Len(Roots), f)
  BY <1>1, <1>2, OrderIs DEF Valid, Holding
<1>4. Valid(f) \subseteq DOMAIN Roots /\ Holding(Len(Roots), f) \subseteq DOMAIN Roots
  BY <1>2 DEF Valid, Holding
<1>5. IsFiniteSet(Valid(f))
  BY <1>2, <1>4, FS_Subset
<1> QED
  BY <1>3, <1>4, <1>5, PlacesFilled

\* The winner stands first, and the others follow it.
LEMMA WinnerIs ==
    ASSUME NEW f, NEW m \in Holding(Len(Roots), f),
           \A l \in Holding(Len(Roots), f) \ {m} : m < l
    PROVE  /\ Winner(f) \in Valid(f) /\ At(Winner(f)) = m
           /\ \A i \in DOMAIN Roots :
                i \in Losers(f) <=> At(i) \in Holding(Len(Roots), f) \ {m}
<1> DEFINE H == Holding(Len(Roots), f)
<1>1. PICK i \in Valid(f) : At(i) = m
  BY ValidIs
<1>2. \A j \in DOMAIN Roots, l \in DOMAIN Roots : Before(j, l) <=> At(j) < At(l)
  BY PlaceIncreases DEF Before, Precedes
<1>3. \A j \in DOMAIN Roots : At(j) \in Nat
  BY PlaceTyped
<1>4. \A j \in Valid(f) \ {i} : Before(i, j)
  <2> SUFFICES ASSUME NEW j \in Valid(f), j # i PROVE Before(i, j)
    OBVIOUS
  <2>1. i \in DOMAIN Roots /\ j \in DOMAIN Roots /\ At(j) \in Holding(Len(Roots), f)
    BY ValidIs
  <2>2. At(j) # m
    BY <1>1, <2>1, PlaceIncreases
  <2> QED
    BY <1>1, <1>2, <2>1, <2>2
<1>5. ASSUME NEW j \in Valid(f), \A l \in Valid(f) \ {j} : Before(j, l)
      PROVE  j = i
  <2>1. SUFFICES ASSUME j # i PROVE FALSE
    OBVIOUS
  <2>2. Before(i, j) /\ Before(j, i)
    BY <1>4, <1>5, <2>1
  <2>3. i \in DOMAIN Roots /\ j \in DOMAIN Roots
    BY ValidIs
  <2> QED
    BY <1>2, <1>3, <2>2, <2>3
<1> HIDE DEF H
<1>6. Winner(f) = i
  <2> DEFINE P(j) == \A l \in Valid(f) \ {j} : Before(j, l)
  <2>1. Winner(f) = CHOOSE j \in Valid(f) : P(j)
    BY DEF Winner
  <2>2. P(i) /\ \A j \in Valid(f) : P(j) => j = i
    BY <1>4, <1>5
  <2> HIDE DEF P
  <2> QED
    BY ONLY <1>1, <2>1, <2>2
<1>7. ASSUME NEW j \in DOMAIN Roots
      PROVE  j \in Losers(f) <=> At(j) \in Holding(Len(Roots), f) \ {m}
  <2>1. j \in Losers(f) <=> j \in Valid(f) /\ j # i
    BY <1>6 DEF Losers
  <2>2. j \in Valid(f) <=> At(j) \in Holding(Len(Roots), f)
    BY ValidIs
  <2>3. i \in DOMAIN Roots
    BY ValidIs
  <2>4. j # i <=> At(j) # m
    BY <1>1, <2>3, PlaceIncreases
  <2> QED
    BY <2>1, <2>2, <2>4
<1> QED
  BY <1>1, <1>6, <1>7

\* The cards that are shadowed, by their roots and by their positions.
LEMMA LosersCounted ==
    ASSUME NEW f, NEW m \in Holding(Len(Roots), f),
           \A l \in Holding(Len(Roots), f) \ {m} : m < l
    PROVE  /\ {Roots[i].dir : i \in Losers(f)}
                = {Order[l].dir : l \in Holding(Len(Roots), f) \ {m}}
           /\ Cardinality(Losers(f)) = Cardinality(Holding(Len(Roots), f) \ {m})
<1> DEFINE L == Losers(f)
           others == Holding(Len(Roots), f) \ {m}
           at == [i \in L |-> At(i)]
<1>1. \A i \in DOMAIN Roots : i \in L <=> At(i) \in others
  BY WinnerIs
<1>2. L \subseteq Valid(f) /\ L \subseteq DOMAIN Roots /\ IsFiniteSet(L)
  <2>1. L \subseteq Valid(f)
    BY DEF Losers
  <2>2. L \subseteq DOMAIN Roots
    BY <2>1, ValidIs
  <2> QED
    BY <2>1, <2>2, ValidIs, FS_Subset
<1>3. others \subseteq DOMAIN Roots
  BY ValidIs
<1> HIDE DEF L, others
<1>4. \A l \in others : \E i \in L : At(i) = l
  BY <1>1, <1>3, PlacesFilled
<1>5. {Roots[i].dir : i \in L} = {Order[l].dir : l \in others}
  <2>1. \A i \in L : Order[At(i)] = Roots[i] /\ At(i) \in others
    BY <1>1, <1>2, OrderIs
  <2> QED
    BY ONLY <1>4, <2>1
<1>6. at \in Bijection(L, others)
  <2>1. \A i \in L : At(i) \in others
    BY <1>1, <1>2
  <2>2. \A i, j \in L : At(i) = At(j) => i = j
    BY <1>2, PlaceIncreases
  <2> QED
    BY <1>4, <2>1, <2>2 DEF Bijection, Injection, IsInjective, Surjection
<1>7. Cardinality(others) = Cardinality(L)
  <2>1. ExistsBijection(L, others)
    BY <1>6 DEF ExistsBijection
  <2> QED
    BY <1>2, <2>1, FS_Bijection
<1> QED
  BY <1>5, <1>7 DEF L, others

\* A card is shadowed where one of its name stands at an earlier position.
LEMMA NotesAre ==
    ASSUME NEW f, NEW i \in DOMAIN Roots
    PROVE  NotesOn(i, f) = NotesAt(At(i), f)
<1> DEFINE H == Holding(Len(Roots), f)
           k == At(i)
<1>1. k \in 1..Len(Roots) /\ Order[k] = Roots[i] /\ Len(Roots) \in Nat
  BY OrderIs, PlaceTyped, RootsTyped
<1>2. ValidAt(i, f) <=> HoldsAt(k, f)
  BY <1>1 DEF ValidAt, HoldsAt, FilesAt, Good
<1>3. i \in Losers(f) <=> HoldsAt(k, f) /\ Holding(k - 1, f) # {}
  <2>1. CASE H = {}
    <3>1. i \notin Valid(f) /\ i \notin Losers(f)
      BY <2>1, ValidIs DEF Losers
    <3>2. ~HoldsAt(k, f)
      BY <1>1, <2>1 DEF Holding
    <3> QED
      BY <3>1, <3>2
  <2>2. CASE H # {}
    <3>1. PICK m \in H : \A l \in H \ {m} : m < l
      <4>1. H \subseteq Nat
        BY <1>1 DEF Holding
      <4> HIDE DEF H
      <4>2. PICK m \in H : \A l \in H : ~(<<l, m>> \in OpToRel(<, Nat))
        BY <2>2, <4>1, NatLessThanWellFounded, WFMin
      <4>3. \A l \in H : ~(l < m)
        BY <4>1, <4>2 DEF OpToRel
      <4> QED
        BY <4>1, <4>3
    <3>2. i \in Losers(f) <=> k \in H \ {m}
      BY <3>1, WinnerIs
    <3>3. k \in H <=> HoldsAt(k, f)
      BY <1>1 DEF Holding
    <3>4. ASSUME k \in H
          PROVE  k # m <=> Holding(k - 1, f) # {}
      <4>1. m \in 1..Len(Roots) /\ HoldsAt(m, f)
        BY DEF Holding
      <4>2. k # m => m \in Holding(k - 1, f)
        <5>1. k # m => m < k
          BY <3>1, <3>4
        <5> HIDE DEF k
        <5> QED
          BY <1>1, <4>1, <5>1 DEF Holding
      <4>3. \A l \in Holding(k - 1, f) : l \in H /\ l < k
        <5> HIDE DEF k
        <5> QED
          BY <1>1 DEF Holding
      <4>4. k = m => Holding(k - 1, f) = {}
        <5>1. ASSUME k = m, NEW l \in Holding(k - 1, f) PROVE FALSE
          <6>1. l \in H /\ l < m
            BY <4>3, <5>1
          <6>2. l \in Nat /\ m \in Nat
            BY <4>1, <6>1, <1>1 DEF Holding
          <6> HIDE DEF H, k
          <6> QED
            BY <3>1, <6>1, <6>2
        <5> QED
          BY <5>1
      <4> QED
        BY <4>2, <4>4
    <3> HIDE DEF H, k
    <3> QED
      BY <3>2, <3>3, <3>4
  <2> QED
    BY <2>1, <2>2
<1>4. FilesAt(k) = disk[Roots[i].dir]
  BY <1>1 DEF FilesAt
<1> HIDE DEF k
<1>5. NotesOn(i, f) = NotesAt(k, f)
  BY <1>1, <1>2, <1>3, <1>4 DEF NotesOn, NotesAt
<1> QED
  BY <1>5 DEF k

\* From positions to roots.
LEMMA RestFollows ==
    ASSUME TypeOK
    PROVE  CatalogAtRest
<1> DEFINE n == Len(Roots)
           c == Enumerate(disk, Roots, TRUE)
<1>1. After(n, c)
  <2>1. c = ScanOf(disk, Roots)[n]
    BY DEF Enumerate, Listed
  <2> QED
    BY <2>1, AllAfter DEF TypeOK
<1> HIDE DEF c
<1>2. ASSUME NEW e \in c.entries
      PROVE  /\ e.name \in Files /\ Valid(e.name) # {}
             /\ e.dir = Roots[Winner(e.name)].dir /\ e.tier = Roots[Winner(e.name)].tier
             /\ ToSet(e.shadowed) = {Roots[i].dir : i \in Losers(e.name)}
             /\ Len(e.shadowed) = Cardinality(Losers(e.name))
  <2>1. PICK m \in Holding(n, e.name) :
         LET others == Holding(n, e.name) \ {m} IN
         /\ \A l \in others : m < l
         /\ e.dir = Order[m].dir /\ e.tier = Order[m].tier
         /\ e.shadowed \in Seq(Dirs)
         /\ ToSet(e.shadowed) = {Order[l].dir : l \in others}
         /\ Len(e.shadowed) = Cardinality(others)
    BY <1>1 DEF After, Merged
  <2>2. /\ Winner(e.name) \in Valid(e.name) /\ At(Winner(e.name)) = m
    BY <2>1, WinnerIs
  <2>3. Order[m] = Roots[Winner(e.name)]
    BY <2>2, ValidIs, OrderIs
  <2>4. /\ {Roots[i].dir : i \in Losers(e.name)} = {Order[l].dir : l \in Holding(n, e.name) \ {m}}
        /\ Cardinality(Losers(e.name)) = Cardinality(Holding(n, e.name) \ {m})
    BY <2>1, LosersCounted
  <2>5. e.name \in Files
    BY <1>1 DEF After, Merged
  <2> QED
    BY <2>1, <2>2, <2>3, <2>4, <2>5
<1>3. ASSUME NEW f \in Files, Valid(f) # {}
      PROVE  \E e \in c.entries : e.name = f
  <2>1. Holding(n, f) # {}
    BY <1>3, ValidIs
  <2> QED
    BY <1>1, <2>1 DEF After
<1>4. WinnersListed(c)
  <2>1. ASSUME NEW e \in c.entries
        PROVE  \E f \in {g \in Files : Valid(g) # {}} :
                 <<e.name, e.dir, e.tier>> = <<f, Roots[Winner(f)].dir, Roots[Winner(f)].tier>>
    BY <1>2
  <2>2. ASSUME NEW f \in {g \in Files : Valid(g) # {}}
        PROVE  \E e \in c.entries :
                 <<e.name, e.dir, e.tier>> = <<f, Roots[Winner(f)].dir, Roots[Winner(f)].tier>>
    <3>1. PICK e \in c.entries : e.name = f
      BY <1>3
    <3> QED
      BY <1>2, <3>1
  <2> QED
    BY ONLY <2>1, <2>2 DEF WinnersListed
<1>5. NotesListed(c)
  <2>1. c.diagnostics = UNION {NotesAt(m, f) : m \in 1..n, f \in Files}
    BY <1>1 DEF After
  <2>2. \A m \in 1..n : \E i \in DOMAIN Roots : At(i) = m
    BY PlacesFilled, RootsTyped
  <2>3. \A i \in DOMAIN Roots : At(i) \in 1..n
    BY PlaceTyped
  <2>4. \A i \in DOMAIN Roots, f \in Files : NotesOn(i, f) = NotesAt(At(i), f)
    BY NotesAre
  <2> QED
    BY ONLY <2>1, <2>2, <2>3, <2>4 DEF NotesListed
<1>6. LosersShadowed(c)
  BY <1>2 DEF LosersShadowed
<1> QED
  BY <1>4, <1>5, <1>6 DEF CatalogAtRest, c

\* What a scan of a disk at rest gives, by the roots alone: the highest tier wins, the
\* earlier root within it, every other valid card is shadowed, and every card that
\* gives no entry has its one diagnostic (catalog.rs:63-122).
THEOREM AtRestCorrect == Spec => []CatalogAtRest
  BY TypeCorrect, RestFollows, PTL

-----------------------------------------------------------------------------
(* No lost wake-up                                                         *)

\* A change is announced by an event, an event by the timer, the timer by a scan that
\* starts at the first root, and the scan passes no root without listing it.
LEMMA ForgottenStep ==
    ASSUME TypeOK, Scanned, NoChangeForgotten, [Next]_vars
    PROVE  NoChangeForgotten'
<1>0. Len(Roots) \in Nat /\ DOMAIN Order = 1..Len(Roots) /\ unread \subseteq 1..Len(Roots)
  BY RootsTyped, OrderIs DEF TypeOK
<1>1. CASE DiskChange
  <2>1. PICK d \in Dirs, files \in Directory : Changed(d, files)
    BY <1>1, DiskChanges
  <2>2. /\ closed' = closed /\ timer' = timer
        /\ events' = (events \/ (d \in watched /\ ~closed))
        /\ unread' = IF d \in watched THEN unread \cup PositionsOf(d) ELSE unread
        /\ scan' = scan \/ (scan'.running = scan.running /\ scan'.next = scan.next
                            /\ scan'.listed = scan.listed)
    <3>1. CASE Free
      BY <2>1, <3>1 DEF Changed
    <3>2. CASE ~Free
      <4>1. scan = Scanning(scan.next, scan.listed, scan.files, scan.catalog, scan.steady)
        BY <3>2 DEF Scanned, ScanTyped, Free
      <4>2. PICK steady : scan' = [scan EXCEPT !.steady = steady]
        BY <2>1, <3>2 DEF Changed
      <4>3. scan'.running = scan.running /\ scan'.next = scan.next /\ scan'.listed = scan.listed
        BY ONLY <4>1, <4>2 DEF Scanning
      <4> QED
        BY <2>1, <4>3 DEF Changed
    <3> QED
      BY <3>1, <3>2
  <2>3. \A k : StillToList(k)' <=> StillToList(k)
    BY <2>2 DEF StillToList
  <2> QED
    BY <2>2, <2>3 DEF NoChangeForgotten
<1>2. CASE EventDelivered
  BY <1>2 DEF EventDelivered, NoChangeForgotten
<1>3. CASE TimerElapses
  <2>1. unread' = unread /\ closed' = closed /\ events' = events
    BY <1>3 DEF TimerElapses, disks
  <2>2. CASE closed
    BY <2>1, <2>2 DEF NoChangeForgotten
  <2>3. CASE ~closed
    <3>1. scan'.running /\ scan'.next = 1 /\ ~scan'.listed
      BY <1>3, <2>3 DEF TimerElapses, Begun, Scanning
    <3>2. \A k \in unread : 1 < k \/ 1 = k
      BY <1>0
    <3> QED
      BY <2>1, <3>1, <3>2 DEF NoChangeForgotten, StillToList
  <2> QED
    BY <2>2, <2>3
<1>4. CASE Close
  BY <1>4 DEF Close, NoChangeForgotten
<1>5. CASE ListDirectory
  <2>1. /\ unread' = unread \ {scan.next}
        /\ scan.running /\ ~scan.listed
        /\ scan' = Scanning(scan.next, TRUE, DOMAIN disk[Root.dir], scan.catalog, scan.steady)
        /\ events' = events /\ timer' = timer /\ closed' = closed
    BY <1>5 DEF ListDirectory
  <2>2. scan'.running /\ scan'.next = scan.next
    BY ONLY <2>1 DEF Scanning
  <2>3. \A k \in unread' : StillToList(k) => StillToList(k)'
    BY <2>1, <2>2 DEF StillToList
  <2> QED
    BY <2>1, <2>3 DEF NoChangeForgotten
<1>6. CASE NextDirectory
  <2>1. /\ unread' = unread
        /\ scan.running /\ scan.listed
        /\ scan' = Scanning(scan.next + 1, FALSE, {}, scan.catalog, scan.steady)
        /\ events' = events /\ timer' = timer /\ closed' = closed
    BY <1>6 DEF NextDirectory, disks
  <2>2. scan'.running /\ scan'.next = scan.next + 1 /\ ~scan'.listed
    BY ONLY <2>1 DEF Scanning
  <2>3. scan.next \in Nat
    BY <1>0, <2>1 DEF Scanned, ScanTyped
  <2>4. \A k \in Nat : scan.next < k => scan.next + 1 < k \/ scan.next + 1 = k
    BY ONLY <2>3
  <2>5. \A k \in unread : StillToList(k) => scan.next < k
    BY <2>1 DEF StillToList
  <2>6. \A k \in unread : k \in Nat
    BY <1>0
  <2>7. \A k \in unread : StillToList(k) => StillToList(k)'
    BY ONLY <2>2, <2>4, <2>5, <2>6 DEF StillToList
  <2> QED
    BY <2>1, <2>7 DEF NoChangeForgotten
<1>7. CASE \E f \in Files : ReadFile(f)
  <2>1. PICK f \in Files : ReadFile(f)
    BY <1>7
  <2>2. /\ unread' = unread /\ events' = events /\ timer' = timer /\ closed' = closed
        /\ scan.running /\ scan.files # {}
        /\ \E files, catalog : scan' = Scanning(scan.next, TRUE, files, catalog, scan.steady)
    BY <2>1 DEF ReadFile, disks
  <2>3. scan.listed
    BY <2>2 DEF Scanned, ScanTyped
  <2>4. scan'.running /\ scan'.next = scan.next
    BY ONLY <2>2 DEF Scanning
  <2>5. \A k \in unread : StillToList(k) => StillToList(k)'
    BY <2>2, <2>3, <2>4 DEF StillToList
  <2> QED
    BY <2>2, <2>5 DEF NoChangeForgotten
<1>8. CASE Report
  <2>1. /\ unread' = unread /\ events' = events /\ timer' = timer /\ closed' = closed
        /\ scan.running /\ scan.next > Len(Roots)
    BY <1>8 DEF Report, ScanDone, disks
  <2>2. scan.next \in 1..(Len(Roots) + 1)
    BY <2>1 DEF Scanned, ScanTyped
  <2>3. \A k \in unread : ~StillToList(k)
    BY <1>0, <2>1, <2>2 DEF StillToList
  <2> QED
    BY <2>1, <2>3 DEF NoChangeForgotten
<1>9. CASE UNCHANGED vars
  BY <1>9 DEF vars, NoChangeForgotten, StillToList
<1> QED
  BY <1>1, <1>2, <1>3, <1>4, <1>5, <1>6, <1>7, <1>8, <1>9 DEF Next, ScanStep

\* However changes fall between events, timer and scan, none is forgotten: one that is
\* unread is announced, or the scan under way comes to it (watch.ts:32-43).
THEOREM NoneForgotten == Spec => []NoChangeForgotten
<1>1. Init => TypeOK /\ Scanned
  BY InitTyped, InitScanned
<1>2. Init => NoChangeForgotten
  BY DEF Init, NoChangeForgotten
<1>3. TypeOK /\ Scanned /\ NoChangeForgotten /\ [Next]_vars => NoChangeForgotten'
  BY ForgottenStep
<1>4. TypeOK /\ Scanned /\ [Next]_vars => (TypeOK /\ Scanned)'
  BY TypeStep, ScannedStep
<1> QED
  BY <1>1, <1>2, <1>3, <1>4, PTL DEF Spec
=============================================================================
