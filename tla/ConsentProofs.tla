--------------------------- MODULE ConsentProofs ---------------------------
(***************************************************************************)
(* What the consent store keeps, for any number of processes, servers and  *)
(* operations: in any world nothing is read as a decision that nobody      *)
(* took, and where writers take turns, time stamps differ and calls        *)
(* succeed, the file holds every decision and a look-up reads a fresh one. *)
(***************************************************************************)
EXTENDS ConsentStore, FiniteSetTheorems, TLAPS

-----------------------------------------------------------------------------
(* Types                                                                   *)

Maps == [Names -> Records]
FilesUntil(t) == {Absent, Torn} \cup {Whole(map, u) : map \in Maps, u \in 0..t}
IdentitiesUntil(t) == {Identity(f) : f \in FilesUntil(t)}
Labels == {"idle", "stat", "read", "refreshed", "write", "rename", "restat"}
Holding == {"write", "rename", "restat"}
Places == {"none", "temp", "json", "gone"}

Disk == /\ now \in Nat
        /\ json \in FilesUntil(now)
        /\ temp \in FilesUntil(now)
Caches == /\ records \in [Procs -> Maps]
          /\ seen \in [Procs -> IdentitiesUntil(now)]
Control ==
    /\ pc \in [Procs -> Labels]
    /\ op \in [Procs -> Operations]
    /\ fd \in [Procs -> Places]
    /\ \A p \in Procs : fd[p] # "none" <=> pc[p] \in Holding
    /\ \A p \in Procs : pc[p] \in Holding => op[p].kind = "put"
Ghosts ==
    /\ decided \in Maps
    /\ window \in [Procs -> SUBSET Records]
    /\ asked \in [Names -> SUBSET Records]
Typed == world \in Worlds /\ Disk /\ Caches /\ Control /\ Ghosts

LEMMA RecordKinds ==
    /\ NotAsked \in Records /\ Denied \in Records
    /\ NothingDecided \in Maps
  BY DEF Records, NothingDecided, Maps

LEMMA OperationKinds ==
    /\ \A o \in Operations :
         /\ o.name \in Names
         /\ o.kind \in {"look-up", "put"}
         /\ o.kind = "put" => o.record \in Records
    /\ \A n \in Names : LookUp(n) \in Operations
  BY DEF Operations, LookUp, Put

LEMMA FileKinds ==
    ASSUME NEW t \in Nat
    PROVE  /\ Absent \in FilesUntil(t) /\ Torn \in FilesUntil(t)
           /\ \A map \in Maps, u \in 0..t : Whole(map, u) \in FilesUntil(t)
           /\ \A f \in FilesUntil(t) :
                /\ f \in FilesUntil(t + 1)
                /\ Parsed(f) \in Maps
                /\ f.kind \in {"absent", "torn", "whole"}
                /\ f.kind = "absent" <=> f = Absent
                /\ f.kind = "torn" <=> f = Torn
                /\ f.kind = "whole" =>
                     f.map \in Maps /\ f.mtime \in 0..t /\ f = Whole(f.map, f.mtime)
<1>1. \A map \in Maps, u \in 0..t : Whole(map, u) \in FilesUntil(t)
  BY DEF FilesUntil
<1>2. \A map, u : /\ Whole(map, u).kind = "whole"
                  /\ Whole(map, u).map = map
                  /\ Whole(map, u).mtime = u
  BY DEF Whole
<1>3. Absent.kind = "absent" /\ Torn.kind = "torn"
  BY DEF Absent, Torn
<1>4. ASSUME NEW f \in FilesUntil(t)
      PROVE  /\ f \in FilesUntil(t + 1)
             /\ Parsed(f) \in Maps
             /\ f.kind \in {"absent", "torn", "whole"}
             /\ f.kind = "absent" <=> f = Absent
             /\ f.kind = "torn" <=> f = Torn
             /\ f.kind = "whole" =>
                  f.map \in Maps /\ f.mtime \in 0..t /\ f = Whole(f.map, f.mtime)
  <2>1. CASE f \in {Absent, Torn}
    BY <2>1, <1>3, RecordKinds DEF FilesUntil, Parsed
  <2>2. CASE \E map \in Maps, u \in 0..t : f = Whole(map, u)
    <3>1. PICK map \in Maps, u \in 0..t : f = Whole(map, u)
      BY <2>2
    <3>2. f.kind = "whole" /\ f.map = map /\ f.mtime = u
      BY <3>1, <1>2
    <3>3. u \in 0..(t + 1)
      OBVIOUS
    <3> QED
      BY <3>1, <3>2, <3>3, <1>3 DEF FilesUntil, Parsed
  <2> QED
    BY <2>1, <2>2 DEF FilesUntil
<1> QED
  BY <1>1, <1>4 DEF FilesUntil

LEMMA OverwrittenKinds ==
    ASSUME NEW t \in Nat, NEW u \in 0..t, NEW f, NEW map \in Maps
    PROVE  Overwritten(f, map, u) \in FilesUntil(t)
  BY FileKinds DEF Overwritten

LEMMA IdentityKinds ==
    ASSUME NEW t \in Nat
    PROVE  /\ \A f \in FilesUntil(t) : Identity(f) \in IdentitiesUntil(t)
           /\ \A i \in IdentitiesUntil(t) :
                /\ i \in IdentitiesUntil(t + 1)
                /\ i.kind \in {"absent", "torn", "whole"}
                /\ i.kind = "whole" => i.mtime \in 0..t
           /\ Absent \in IdentitiesUntil(t)
<1>1. ASSUME NEW f \in FilesUntil(t)
      PROVE  /\ Identity(f) \in IdentitiesUntil(t + 1)
             /\ Identity(f).kind \in {"absent", "torn", "whole"}
             /\ Identity(f).kind = "whole" => Identity(f).mtime \in 0..t
  BY FileKinds DEF Identity, IdentitiesUntil
<1>2. Identity(Absent) = Absent
  BY DEF Identity, Absent
<1> QED
  BY <1>1, <1>2, FileKinds DEF IdentitiesUntil

LEMMA InitTyped == ASSUME Init PROVE Typed
<1> USE DEF Init
<1>1. world \in Worlds
  OBVIOUS
<1>2. Disk
  BY FileKinds DEF Disk
<1>3. Caches
  BY RecordKinds, IdentityKinds DEF Caches
<1>4. Control
  BY OperationKinds DEF Control, Labels, Places, Holding
<1>5. Ghosts
  BY RecordKinds DEF Ghosts
<1> QED
  BY <1>1, <1>2, <1>3, <1>4, <1>5 DEF Typed

\* What a put leaves in the cache.
LEMMA InsertedKinds ==
    ASSUME Typed, NEW p \in Procs, op[p].kind = "put"
    PROVE  /\ Inserted(p) \in [Procs -> Maps]
           /\ \A q \in Procs : q # p => Inserted(p)[q] = records[q]
           /\ \A n \in Names :
                Inserted(p)[p][n] = IF n = op[p].name THEN op[p].record ELSE records[p][n]
<1>1. op[p].name \in Names /\ op[p].record \in Records
  BY OperationKinds DEF Typed, Control
<1>2. records \in [Procs -> [Names -> Records]]
  BY DEF Typed, Caches, Maps
<1> QED
  BY <1>1, <1>2 DEF Inserted, Maps

LEMMA ForgottenKinds ==
    ASSUME Typed, NEW p \in Procs, Forgotten(p), now' = now
    PROVE  Caches'
  BY RecordKinds, IdentityKinds DEF Typed, Disk, Caches, Forgotten

LEMMA StatedKinds ==
    ASSUME now \in Nat, json \in FilesUntil(now)
    PROVE  Stated \subseteq IdentitiesUntil(now)
  BY IdentityKinds DEF Stated

LEMMA StepTyped ==
    ASSUME Typed, NEW p \in Procs, Step(p), world' = world
    PROVE  Typed'
<1> USE DEF Typed, Goto, files, caches, ghosts
<1>0. now \in Nat /\ world' \in Worlds
  BY DEF Disk
<1>1. ASSUME NEW o \in Operations, Begin(p, o) PROVE Typed'
  <2>1. Disk' /\ Caches'
    BY <1>1 DEF Begin, Disk, Caches
  <2>2. Control'
    BY <1>1 DEF Begin, Control, Labels, Holding
  <2>3. Ghosts'
    BY <1>1, OperationKinds DEF Begin, Ghosts, Maps
  <2> QED
    BY <1>0, <2>1, <2>2, <2>3
<1>2. CASE Stat(p)
  <2>1. Disk' /\ Ghosts'
    BY <1>2 DEF Stat, Disk, Ghosts
  <2>2. Stated \subseteq IdentitiesUntil(now)
    BY StatedKinds DEF Disk
  <2>3. Caches'
    BY <1>2, <2>2 DEF Stat, Caches
  <2>4. Control'
    BY <1>2 DEF Stat, Control, Labels, Holding
  <2> QED
    BY <1>0, <2>1, <2>3, <2>4
<1>3. CASE Read(p)
  <2>1. Disk' /\ Ghosts'
    BY <1>3 DEF Read, Disk, Ghosts
  <2>2. Parsed(json) \in Maps
    BY FileKinds DEF Disk
  <2>3. Caches'
    BY <1>3, <2>2, RecordKinds DEF Read, Caches
  <2>4. Control'
    BY <1>3 DEF Read, Control, Labels, Holding
  <2> QED
    BY <1>0, <2>1, <2>3, <2>4
<1>4. CASE Answer(p)
  <2>1. Disk' /\ Ghosts' /\ Caches'
    BY <1>4 DEF Answer, Disk, Ghosts, Caches
  <2>2. Control'
    BY <1>4 DEF Answer, Control, Labels, Holding
  <2> QED
    BY <1>0, <2>1, <2>2
<1>5. CASE Create(p)
  <2>1. Disk' /\ Ghosts'
    BY <1>5, FileKinds DEF Create, Disk, Ghosts
  <2>2. Caches'
    BY <1>5, InsertedKinds DEF Create, Caches
  <2>3. Control'
    BY <1>5 DEF Create, Control, Labels, Holding, Places
  <2> QED
    BY <1>0, <2>1, <2>2, <2>3
<1>6. CASE Write(p)
  <2>1. now' \in Nat /\ (now' = now \/ now' = now + 1)
    BY <1>0, <1>6 DEF Write
  <2>2. json' \in FilesUntil(now') /\ temp' \in FilesUntil(now')
    <3>1. records[p] \in Maps /\ now' \in 0..now'
      BY <2>1 DEF Caches
    <3>2. json \in FilesUntil(now') /\ temp \in FilesUntil(now')
      BY <1>0, <2>1, FileKinds DEF Disk
    <3>3. \A f : Overwritten(f, records[p], now') \in FilesUntil(now')
      BY <2>1, <3>1, OverwrittenKinds
    <3> QED
      BY <1>6, <3>2, <3>3 DEF Write
  <2>3. Caches'
    <3>1. \A i \in IdentitiesUntil(now) : i \in IdentitiesUntil(now')
      BY <1>0, <2>1, IdentityKinds
    <3> QED
      BY <1>6, <3>1 DEF Write, Caches
  <2>4. Control' /\ Ghosts'
    BY <1>6 DEF Write, Control, Ghosts, Labels, Holding
  <2> QED
    BY <1>0, <2>1, <2>2, <2>3, <2>4 DEF Disk
<1>7. CASE Rename(p)
  <2>1. op[p].kind = "put"
    BY <1>7 DEF Rename, Control, Holding
  <2>2. op[p].name \in Names /\ op[p].record \in Records
    BY <2>1, OperationKinds DEF Control
  <2>3. Disk' /\ Caches'
    BY <1>7, FileKinds DEF Rename, Disk, Caches
  <2>4. Control'
    <3>1. \A place \in Places : /\ Moved(place) \in Places
                                /\ Moved(place) = "none" <=> place = "none"
      BY DEF Moved, Places
    <3>2. /\ fd' \in [Procs -> Places]
          /\ \A q \in Procs : fd'[q] = "none" <=> fd[q] = "none"
      BY <1>7, <3>1 DEF Rename, Control
    <3>3. /\ pc' \in [Procs -> Labels]
          /\ \A q \in Procs : pc'[q] \in Holding <=> pc[q] \in Holding
      BY <1>7 DEF Rename, Control, Labels, Holding
    <3> QED
      BY <1>7, <3>2, <3>3 DEF Rename, Control
  <2>5. Ghosts'
    <3>1. decided' \in Maps
      BY <1>7, <2>2 DEF Rename, Ghosts, Maps
    <3>2. window' \in [Procs -> SUBSET Records]
      BY <1>7, <2>2 DEF Rename, Ghosts
    <3> QED
      BY <1>7, <3>1, <3>2 DEF Rename, Ghosts
  <2> QED
    BY <1>0, <2>3, <2>4, <2>5
<1>8. CASE Restat(p)
  <2>1. Disk' /\ Ghosts'
    BY <1>8 DEF Restat, Disk, Ghosts
  <2>2. Caches'
    <3>1. CASE p = Broker
      <4>1. Stated \subseteq IdentitiesUntil(now)
        BY StatedKinds DEF Disk
      <4> QED
        BY <1>8, <3>1, <4>1 DEF Restat, Caches
    <3>2. CASE p # Broker
      BY <1>8, <3>2, ForgottenKinds DEF Restat
    <3> QED
      BY <3>1, <3>2
  <2>3. Control'
    BY <1>8 DEF Restat, EndsPut, Control, Labels, Holding, Places
  <2> QED
    BY <1>0, <2>1, <2>2, <2>3
<1>9. CASE PutFails(p)
  <2>1. Disk' /\ Ghosts'
    BY <1>9 DEF PutFails, Disk, Ghosts
  <2>2. Caches'
    <3>1. CASE p = Broker
      <4>1. op[p].kind = "put"
        BY <1>9 DEF PutFails, Control, Holding
      <4>2. Inserted(p) \in [Procs -> Maps]
        BY <4>1, InsertedKinds
      <4> QED
        BY <1>9, <3>1, <4>2 DEF PutFails, Caches
    <3>2. CASE p # Broker
      BY <1>9, <3>2, ForgottenKinds DEF PutFails
    <3> QED
      BY <3>1, <3>2
  <2>3. Control'
    BY <1>9 DEF PutFails, EndsPut, Control, Labels, Holding, Places
  <2> QED
    BY <1>0, <2>1, <2>2, <2>3
<1>10. CASE Exits(p)
  <2>1. Disk' /\ Ghosts'
    BY <1>10 DEF Exits, Disk, Ghosts
  <2>2. Caches'
    BY <1>10, ForgottenKinds DEF Exits
  <2>3. Control'
    BY <1>10 DEF Exits, Control, Labels, Holding, Places
  <2> QED
    BY <1>0, <2>1, <2>2, <2>3
<1> QED
  BY <1>1, <1>2, <1>3, <1>4, <1>5, <1>6, <1>7, <1>8, <1>9, <1>10 DEF Step

LEMMA TypedStep == ASSUME Typed, [Next]_vars PROVE Typed'
<1>1. CASE Next
  BY <1>1, StepTyped DEF Next
<1>2. CASE UNCHANGED vars
  BY <1>2 DEF vars, Typed, Disk, Caches, Control, Ghosts
<1> QED
  BY <1>1, <1>2

LEMMA TypedHolds == Spec => []Typed
  BY InitTyped, TypedStep, PTL DEF Spec

\* No more writes than operations: a write uses up the operation it belongs to.
Unwritten == {p \in Procs : pc[p] \in {"stat", "read", "refreshed", "write"}}
Counted == /\ ops \in Nat /\ ops <= MaxOps
           /\ now + Cardinality(Unwritten) <= ops

LEMMA UnwrittenFinite ==
    /\ IsFiniteSet(Unwritten) /\ Cardinality(Unwritten) \in Nat
    /\ \A S \in SUBSET Unwritten : Cardinality(S) \in Nat /\ Cardinality(S) <= Cardinality(Unwritten)
<1>1. IsFiniteSet(Unwritten)
  BY StoreAssumption, FS_Subset DEF Unwritten
<1> QED
  BY <1>1, FS_Subset, FS_CardinalityType

LEMMA InitCounted == ASSUME Init PROVE Counted
<1>1. Unwritten = {}
  BY DEF Init, Unwritten
<1>2. MaxOps \in Nat
  BY StoreAssumption DEF Init, MaxOps
<1> QED
  BY <1>1, <1>2, FS_EmptySet DEF Init, Counted

LEMMA CountedStep == ASSUME Typed, Counted, [Next]_vars PROVE Counted'
<1>0. /\ now \in Nat /\ ops \in Nat /\ MaxOps \in Nat /\ MaxOps' = MaxOps
      /\ pc \in [Procs -> Labels] /\ Cardinality(Unwritten) \in Nat
  BY StoreAssumption, UnwrittenFinite DEF Typed, Disk, Control, Counted, Next, vars, MaxOps
<1>1. ASSUME NEW p \in Procs, NEW o \in Operations, Begin(p, o) PROVE Counted'
  <2>1. Unwritten' = Unwritten \cup {p} /\ p \notin Unwritten
    BY <1>0, <1>1 DEF Begin, Goto, Unwritten
  <2>2. Cardinality(Unwritten') = Cardinality(Unwritten) + 1
    BY <2>1, UnwrittenFinite, FS_AddElement
  <2> QED
    BY <1>0, <1>1, <2>2 DEF Begin, Counted, files
<1>2. ASSUME NEW p \in Procs, Write(p) PROVE Counted'
  <2>1. Unwritten' = Unwritten \ {p} /\ p \in Unwritten
    BY <1>0, <1>2 DEF Write, Goto, Unwritten
  <2>2. Cardinality(Unwritten') = Cardinality(Unwritten) - 1
    BY <2>1, UnwrittenFinite, FS_RemoveElement
  <2>3. now' = now \/ now' = now + 1
    BY <1>0, <1>2 DEF Write
  <2> QED
    BY <1>0, <1>2, <2>2, <2>3 DEF Write, Counted
<1>3. ASSUME UNCHANGED <<now, ops>>, Unwritten' \subseteq Unwritten PROVE Counted'
  <2>1. Cardinality(Unwritten') \in Nat /\ Cardinality(Unwritten') <= Cardinality(Unwritten)
    BY <1>3, UnwrittenFinite
  <2> QED
    BY <1>0, <1>3, <2>1 DEF Counted
<1>4. ASSUME NEW p \in Procs,
             Stat(p) \/ Read(p) \/ Answer(p) \/ Create(p) \/ Rename(p)
               \/ Restat(p) \/ PutFails(p) \/ Exits(p)
      PROVE  Counted'
  <2>1. UNCHANGED <<now, ops>>
    BY <1>4 DEF Stat, Read, Answer, Create, Rename, Restat, PutFails, Exits, files
  <2>2. /\ \A q \in Procs \ {p} : pc'[q] = pc[q]
        /\ pc[p] \in {"stat", "read", "refreshed", "write"}
             \/ pc'[p] \notin {"stat", "read", "refreshed", "write"}
    BY <1>0, <1>4 DEF Stat, Read, Answer, Create, Rename, Restat, PutFails, Exits,
                      EndsPut, Goto
  <2>3. Unwritten' \subseteq Unwritten
    BY <2>2 DEF Unwritten
  <2> QED
    BY <1>3, <2>1, <2>3
<1>5. CASE UNCHANGED vars
  BY <1>3, <1>5 DEF vars, Unwritten
<1> QED
  BY <1>1, <1>2, <1>4, <1>5 DEF Next, Step

\* Types, that a process has a file open exactly while it writes one, and that
\* files are stamped with times that have been (consent.rs:59-65, 177-190).
THEOREM TypeCorrect == Spec => []TypeOK
<1>1. ASSUME Typed, Counted PROVE TypeOK
  <2>1. now \in 0..MaxOps /\ MaxOps \in Nat
    BY <1>1, UnwrittenFinite, StoreAssumption DEF Typed, Disk, Counted, MaxOps
  <2>2. {json, temp} \subseteq Files
    BY <1>1, <2>1 DEF Typed, Disk, FilesUntil, Files, Maps
  <2>3. \A p \in Procs : seen[p].kind \in {"absent", "torn", "whole"}
    BY <1>1, IdentityKinds DEF Typed, Disk, Caches
  <2> QED
    BY <1>1, <2>1, <2>2, <2>3 DEF TypeOK, Typed, Caches, Control, Ghosts, Maps,
                                  Labels, Places, Holding
<1> QED
  BY <1>1, InitTyped, TypedStep, InitCounted, CountedStep, PTL DEF Spec

-----------------------------------------------------------------------------
(* Nothing is read as a decision that nobody took                          *)

\* A map of decisions somebody set out to record.
Taken(map) == \A n \in Names : map[n] \in {NotAsked} \cup asked[n]
Attested ==
    /\ Taken(Parsed(json)) /\ Taken(Parsed(temp))
    /\ \A p \in Procs : Taken(records[p])
    /\ \A p \in Procs : Writing(p) => op[p].record \in asked[op[p].name]

LEMMA NothingTaken == Taken(NothingDecided)
  BY DEF Taken, NothingDecided

LEMMA ParsedKinds ==
    /\ Parsed(Absent) = NothingDecided /\ Parsed(Torn) = NothingDecided
    /\ \A map, t : Parsed(Whole(map, t)) = map
    /\ \A f, map, t : Parsed(Overwritten(f, map, t)) \in {NothingDecided, map}
  BY DEF Parsed, Overwritten, Absent, Torn, Whole

\* Whatever a step does to the cache, it holds decisions taken.
LEMMA InsertedTaken ==
    ASSUME Typed, Attested, NEW p \in Procs, Writing(p)
    PROVE  \A q \in Procs : Taken(Inserted(p)[q])
<1>1. op[p].kind = "put"
  BY DEF Writing
<1>2. ASSUME NEW q \in Procs PROVE Taken(Inserted(p)[q])
  <2>1. CASE q # p
    BY <1>1, <2>1, InsertedKinds DEF Attested
  <2>2. CASE q = p
    BY <1>1, <2>2, InsertedKinds DEF Attested, Taken
  <2> QED
    BY <2>1, <2>2
<1> QED
  BY <1>2

LEMMA ForgottenTaken ==
    ASSUME Typed, Attested, NEW p \in Procs, Forgotten(p), UNCHANGED asked
    PROVE  \A q \in Procs : Taken(records[q])'
<1>1. \A q \in Procs : records'[q] = IF q = p THEN NothingDecided ELSE records[q]
  BY DEF Forgotten, Typed, Caches
<1> QED
  BY <1>1, NothingTaken DEF Attested, Taken

LEMMA StepAttested ==
    ASSUME Typed, Attested, NEW p \in Procs, Step(p)
    PROVE  Attested'
<1> USE DEF Goto, files, caches, ghosts
<1>1. ASSUME NEW o \in Operations, Begin(p, o) PROVE Attested'
  <2>1. \A n \in Names : asked[n] \subseteq asked'[n]
    BY <1>1 DEF Begin, Typed, Ghosts
  <2>2. \A map : Taken(map) => Taken(map)'
    BY <2>1 DEF Taken
  <2>3. o.kind = "put" => o.record \in asked'[o.name]
    BY <1>1, OperationKinds DEF Begin, Typed, Ghosts
  <2>4. \A q \in Procs : q # p => (Writing(q)' <=> Writing(q)) /\ op'[q] = op[q]
    BY <1>1 DEF Begin, Writing, Typed, Control
  <2>5. op'[p] = o
    BY <1>1 DEF Begin, Typed, Control
  <2>6. \A q \in Procs : Writing(q)' => op'[q].record \in asked'[op'[q].name]
    <3> SUFFICES ASSUME NEW q \in Procs, Writing(q)' PROVE op'[q].record \in asked'[op'[q].name]
      OBVIOUS
    <3>1. CASE q = p
      BY <2>3, <2>5, <3>1 DEF Writing
    <3>2. CASE q # p
      <4>1. op[q].record \in asked[op[q].name] /\ op[q].name \in Names
        BY <2>4, <3>2, OperationKinds DEF Attested, Typed, Control
      <4> QED
        BY <2>1, <2>4, <3>2, <4>1
    <3> QED
      BY <3>1, <3>2
  <2>7. UNCHANGED <<json, temp, records>>
    BY <1>1 DEF Begin
  <2>8. Taken(Parsed(json))' /\ Taken(Parsed(temp))' /\ \A q \in Procs : Taken(records[q])'
    BY <2>2, <2>7 DEF Attested, Taken, Parsed
  <2> QED
    BY <2>6, <2>8 DEF Attested
<1>2. ASSUME UNCHANGED asked
      PROVE  \A map : Taken(map)' <=> Taken(map)
  BY <1>2 DEF Taken
<1>3. CASE Stat(p)
  BY <1>3 DEF Stat, Attested, Taken, Parsed, Writing, Typed, Control, Labels
<1>4. CASE Read(p)
  <2>1. \A q \in Procs : Taken(records[q])'
    BY <1>4, NothingTaken DEF Read, Attested, Taken, Typed, Caches
  <2> QED
    BY <1>4, <2>1 DEF Read, Attested, Taken, Parsed, Writing, Typed, Control, Labels
<1>5. CASE Answer(p)
  BY <1>5 DEF Answer, Attested, Taken, Parsed, Writing, Typed, Control, Labels
<1>6. CASE Create(p)
  <2>1. Writing(p)
    BY <1>6 DEF Create, Writing
  <2>2. \A q \in Procs : Taken(records[q])'
    BY <1>6, <2>1, InsertedTaken DEF Create, Taken
  <2>3. Taken(Parsed(temp))'
    BY <1>6, ParsedKinds, NothingTaken DEF Create, Taken
  <2>4. \A q \in Procs : Writing(q)' => Writing(q)
    BY <1>6, <2>1 DEF Create, Writing, Typed, Control, Labels
  <2> QED
    BY <1>6, <2>2, <2>3, <2>4 DEF Create, Attested, Taken, Parsed
<1>7. CASE Write(p)
  <2>1. \A f : Taken(Parsed(Overwritten(f, records[p], now')))
    <3>1. \A f : Parsed(Overwritten(f, records[p], now')) \in {NothingDecided, records[p]}
      BY ParsedKinds
    <3> QED
      BY <3>1, NothingTaken DEF Attested
  <2>2. Taken(Parsed(json')) /\ Taken(Parsed(temp'))
    BY <1>7, <2>1 DEF Write, Attested
  <2>3. Taken(Parsed(json))' /\ Taken(Parsed(temp))'
    BY <1>7, <2>2 DEF Write, Taken, Parsed
  <2>4. \A q \in Procs : Writing(q)' => Writing(q)
    BY <1>7 DEF Write, Writing, Typed, Control, Labels
  <2>5. UNCHANGED <<records, op, asked>>
    BY <1>7 DEF Write
  <2> QED
    BY <2>3, <2>4, <2>5 DEF Attested, Taken
<1>8. CASE Rename(p)
  <2>1. Taken(Parsed(json))' /\ Taken(Parsed(temp))'
    <3>1. Taken(Parsed(temp)) /\ Taken(Parsed(Absent))
      BY ParsedKinds, NothingTaken DEF Attested
    <3> QED
      BY <1>8, <3>1 DEF Rename, Taken, Parsed
  <2>2. \A q \in Procs : Writing(q)' => Writing(q)
    BY <1>8 DEF Rename, Writing, Typed, Control, Labels
  <2>3. UNCHANGED <<records, op, asked>>
    BY <1>8 DEF Rename
  <2> QED
    BY <2>1, <2>2, <2>3 DEF Attested, Taken
<1>9. CASE Restat(p)
  <2>1. \A q \in Procs : Taken(records[q])'
    BY <1>9, ForgottenTaken DEF Restat, Attested, Taken
  <2>2. \A q \in Procs : Writing(q)' => Writing(q)
    BY <1>9 DEF Restat, EndsPut, Writing, Typed, Control, Labels
  <2>3. UNCHANGED <<json, temp, op, asked>>
    BY <1>9 DEF Restat
  <2> QED
    BY <2>1, <2>2, <2>3 DEF Attested, Taken, Parsed
<1>10. CASE PutFails(p)
  <2>1. Writing(p)
    BY <1>10 DEF PutFails, Writing, Typed, Control, Holding
  <2>2. \A q \in Procs : Taken(records[q])'
    <3>1. \A q \in Procs : Taken(Inserted(p)[q])
      BY <2>1, InsertedTaken
    <3> QED
      BY <1>10, <3>1, ForgottenTaken DEF PutFails, Taken
  <2>3. \A q \in Procs : Writing(q)' => Writing(q)
    BY <1>10 DEF PutFails, EndsPut, Writing, Typed, Control, Labels
  <2>4. UNCHANGED <<json, temp, op, asked>>
    BY <1>10 DEF PutFails
  <2> QED
    BY <2>2, <2>3, <2>4 DEF Attested, Taken, Parsed
<1>11. CASE Exits(p)
  <2>1. \A q \in Procs : Taken(records[q])'
    BY <1>11, ForgottenTaken DEF Exits
  <2>2. \A q \in Procs : Writing(q)' => Writing(q)
    BY <1>11 DEF Exits, Writing, Typed, Control, Labels
  <2>3. UNCHANGED <<json, temp, op, asked>>
    BY <1>11 DEF Exits
  <2> QED
    BY <2>1, <2>2, <2>3 DEF Attested, Taken, Parsed
<1> QED
  BY <1>1, <1>3, <1>4, <1>5, <1>6, <1>7, <1>8, <1>9, <1>10, <1>11 DEF Step

LEMMA AttestedStep == ASSUME Typed, Attested, [Next]_vars PROVE Attested'
<1>1. CASE Next
  BY <1>1, StepAttested DEF Next
<1>2. CASE UNCHANGED vars
  BY <1>2 DEF vars, Attested, Taken, Parsed, Writing
<1> QED
  BY <1>1, <1>2

LEMMA InitAttested == ASSUME Init PROVE Attested
  BY ParsedKinds, NothingTaken DEF Init, Attested, Writing

\* In any world, what is read as a decision is one that somebody set out to
\* record (consent.rs:68-69, 98-101).
THEOREM DecisionsCorrect == Spec => []OnlyDecisions
<1>1. Typed /\ Attested => OnlyDecisions
  BY DEF Attested, Taken, OnlyDecisions
<1> QED
  BY <1>1, InitTyped, TypedStep, InitAttested, AttestedStep, PTL DEF Spec

-----------------------------------------------------------------------------
(* Where writers take turns, time stamps differ and calls succeed          *)

Alone == \A p, q \in Procs : Writing(p) /\ Writing(q) => p = q

\* The one process that writes: a look at the file that is still true, then a
\* temporary file that nobody else touches and that is younger than the file.
Amended(p) == [decided EXCEPT ![op[p].name] = op[p].record]
Younger == json.kind = "whole" => json.mtime < now
Writes(p) ==
    /\ pc[p] = "refreshed" /\ op[p].kind = "put" => records[p] = decided
    /\ pc[p] \in {"write", "rename"} => fd[p] = "temp" /\ records[p] = Amended(p)
    /\ pc[p] = "write" => temp = Torn
    /\ pc[p] = "rename" => temp = Whole(records[p], now) /\ Younger
    /\ pc[p] = "restat" => records[p] = decided

\* An identity that is still that of the file vouches for the cache.
Knows(p) ==
    /\ seen[p].kind = "whole" => json.kind = "whole" /\ seen[p].mtime <= json.mtime
    /\ (pc[p] \notin {"read", "write", "rename"} /\ seen[p] = Identity(json) /\ seen[p] # Absent)
         => records[p] = decided
    /\ pc[p] # "idle" => decided[op[p].name] \in window[p]
    /\ pc[p] = "refreshed" => records[p][op[p].name] \in window[p]

Orderly == /\ Alone
           /\ FileIsCurrent
           /\ \A p \in Procs : Writes(p)
           /\ \A p \in Procs : Knows(p)
Promised == Reliable => Orderly

LEMMA IdentityTells ==
    ASSUME Typed, json.kind # "torn"
    PROVE  /\ json.kind = "absent" => Identity(json) = Absent
           /\ json.kind = "whole" => /\ Identity(json).kind = "whole"
                                    /\ Identity(json).mtime = json.mtime
                                    /\ json.mtime \in 0..now
                                    /\ Parsed(json) = json.map
           /\ json.kind \in {"absent", "whole"}
           /\ Absent.kind = "absent"
  BY FileKinds DEF Typed, Disk, Identity, Parsed, Absent

\* Who does not write has no part in the temporary file.
LEMMA OnlookerWrites ==
    ASSUME Control, NEW q \in Procs, ~Writing(q)
    PROVE  Writes(q)
  BY DEF Control, Writing, Writes, Holding

LEMMA OnlookerWritesNext ==
    ASSUME Control', NEW q \in Procs, ~Writing(q)'
    PROVE  Writes(q)'
  BY DEF Control, Writing, Writes, Holding

LEMMA OnlookerKnows ==
    ASSUME NEW q \in Procs, Knows(q), UNCHANGED <<json, decided>>,
           pc'[q] = pc[q], op'[q] = op[q], records'[q] = records[q],
           seen'[q] = seen[q], window'[q] = window[q]
    PROVE  Knows(q)'
  BY DEF Knows, Identity

\* The frame of a step by p: nobody else moves.
Still(p) ==
    \A q \in Procs \ {p} :
        /\ pc'[q] = pc[q] /\ op'[q] = op[q] /\ fd'[q] = fd[q]
        /\ records'[q] = records[q] /\ seen'[q] = seen[q] /\ window'[q] = window[q]

LEMMA AloneStill ==
    ASSUME Alone, NEW p \in Procs, Still(p), Writing(p)' => Writing(p)
    PROVE  Alone'
<1>1. \A q \in Procs : Writing(q)' => Writing(q)
  BY DEF Still, Writing
<1> QED
  BY <1>1 DEF Alone

\* A step of p that leaves the file alone, and the temporary file unless p writes.
LEMMA QuietStep ==
    ASSUME Typed, Typed', Orderly, NEW p \in Procs, Still(p),
           UNCHANGED <<json, decided>>,
           UNCHANGED <<temp, now>> \/ Writing(p),
           Alone', Writes(p)', Knows(p)'
    PROVE  Orderly'
<1>1. FileIsCurrent'
  BY DEF Orderly, FileIsCurrent, Parsed
<1>2. ASSUME NEW q \in Procs, q # p PROVE Writes(q)' /\ Knows(q)'
  <2>1. Knows(q)'
    BY <1>2, OnlookerKnows DEF Still, Orderly
  <2>2. CASE Writing(p)
    <3>1. ~Writing(q)'
      BY <1>2, <2>2 DEF Orderly, Alone, Still, Writing
    <3> QED
      BY <2>1, <3>1, OnlookerWritesNext DEF Typed
  <2>3. CASE UNCHANGED <<temp, now>>
    <3>1. Writes(q)
      BY DEF Orderly
    <3> QED
      BY <1>2, <2>1, <2>3, <3>1 DEF Still, Writes, Amended, Younger
  <2> QED
    BY <2>2, <2>3
<1> QED
  BY <1>1, <1>2 DEF Orderly

LEMMA BeginOrderly ==
    ASSUME Typed, Typed', Reliable, Orderly, NEW p \in Procs,
           NEW o \in Operations, Begin(p, o)
    PROVE  Orderly'
<1> USE DEF Begin, Goto, files, caches
<1>1. Still(p)
  BY DEF Still, Typed, Control, Ghosts
<1>2. /\ pc'[p] = "stat" /\ op'[p] = o /\ window'[p] = {decided[o.name]}
      /\ pc[p] = "idle"
  BY DEF Typed, Control, Ghosts
<1>3. Alone'
  <2>1. CASE o.kind = "put"
    <3>1. \A q \in Procs : ~Writing(q)
      BY <2>1 DEF Reliable
    <3>2. \A q \in Procs : Writing(q)' => q = p
      BY <1>1, <3>1 DEF Still, Writing
    <3> QED
      BY <3>2 DEF Alone
  <2>2. CASE o.kind # "put"
    BY <1>1, <1>2, <2>2, AloneStill DEF Orderly, Writing
  <2> QED
    BY <2>1, <2>2
<1>4. Writes(p)'
  BY <1>2 DEF Writes
<1>5. Knows(p)'
  <2>1. Knows(p)
    BY DEF Orderly
  <2> QED
    BY <1>2, <2>1 DEF Knows, Identity
<1> QED
  BY <1>1, <1>3, <1>4, <1>5, QuietStep

LEMMA StatOrderly ==
    ASSUME Typed, Typed', Reliable, Orderly, NEW p \in Procs, Stat(p)
    PROVE  Orderly'
<1> USE DEF Stat, Goto, files, ghosts
<1>0. Stated = {Identity(json)}
  BY DEF Stated, Reliable
<1>1. Still(p)
  BY DEF Still, Typed, Control, Caches
<1>2. Alone'
  BY <1>1, AloneStill DEF Orderly, Writing
<1>3. Knows(p) /\ FileIsCurrent
  BY DEF Orderly
<1>4. CASE pc' = [pc EXCEPT ![p] = "refreshed"] /\ seen' = seen /\ Identity(json) = seen[p] /\ seen[p] # Absent
  <2>1. records[p] = decided /\ pc'[p] = "refreshed"
    BY <1>3, <1>4 DEF Knows, Typed, Control
  <2>2. Writes(p)'
    BY <2>1 DEF Writes
  <2>3. Knows(p)'
    BY <1>3, <2>1, <1>4 DEF Knows, Identity
  <2> QED
    BY <1>1, <1>2, <2>2, <2>3, QuietStep
<1>5. CASE pc' = [pc EXCEPT ![p] = "read"] /\ seen' = [seen EXCEPT ![p] = Identity(json)]
  <2>1. pc'[p] = "read" /\ seen'[p] = Identity(json)
    BY <1>5 DEF Typed, Control, Caches
  <2>2. Writes(p)'
    BY <2>1 DEF Writes
  <2>3. Identity(json).kind = "whole" => json.kind = "whole" /\ Identity(json).mtime <= json.mtime
    BY <1>3, IdentityTells DEF FileIsCurrent, Typed, Disk
  <2>4. Knows(p)'
    BY <1>3, <2>1, <2>3 DEF Knows
  <2> QED
    BY <1>1, <1>2, <2>2, <2>4, QuietStep
<1> QED
  BY <1>0, <1>4, <1>5

LEMMA ReadOrderly ==
    ASSUME Typed, Typed', Reliable, Orderly, NEW p \in Procs, Read(p)
    PROVE  Orderly'
<1> USE DEF Read, Goto, files, ghosts
<1>1. Still(p)
  BY DEF Still, Typed, Control, Caches
<1>2. Alone'
  BY <1>1, AloneStill DEF Orderly, Writing
<1>3. Knows(p) /\ FileIsCurrent
  BY DEF Orderly
<1>4. records'[p] = decided /\ pc'[p] = "refreshed"
  BY <1>3 DEF Reliable, FileIsCurrent, Typed, Control, Caches
<1>5. Writes(p)'
  BY <1>4 DEF Writes
<1>6. Knows(p)'
  BY <1>3, <1>4 DEF Knows, Identity
<1> QED
  BY <1>1, <1>2, <1>5, <1>6, QuietStep

LEMMA AnswerOrderly ==
    ASSUME Typed, Typed', Orderly, NEW p \in Procs, Answer(p)
    PROVE  Orderly'
<1> USE DEF Answer, Goto, files, caches, ghosts
<1>1. Still(p) /\ pc'[p] = "idle"
  BY DEF Still, Typed, Control
<1>2. Alone'
  BY <1>1, AloneStill DEF Orderly, Writing
<1>3. Writes(p)'
  BY <1>1 DEF Writes
<1>4. Knows(p)'
  <2>1. Knows(p)
    BY DEF Orderly
  <2> QED
    BY <1>1, <2>1 DEF Knows, Identity
<1> QED
  BY <1>1, <1>2, <1>3, <1>4, QuietStep

LEMMA CreateOrderly ==
    ASSUME Typed, Typed', Orderly, NEW p \in Procs, Create(p)
    PROVE  Orderly'
<1> USE DEF Create, Goto, ghosts
<1>1. Writing(p) /\ op[p].kind = "put"
  BY DEF Writing
<1>2. Still(p)
  BY <1>1, InsertedKinds DEF Still, Typed, Control, Caches
<1>3. Alone'
  BY <1>1, <1>2, AloneStill DEF Orderly
<1>4. /\ pc'[p] = "write" /\ fd'[p] = "temp" /\ temp' = Torn
      /\ UNCHANGED <<json, decided, op, seen, window>>
  BY DEF Typed, Control
<1>5. records'[p] = Amended(p)
  <2>1. records[p] = decided /\ decided \in Maps
    BY <1>1 DEF Orderly, Writes, Typed, Ghosts
  <2>2. Inserted(p)[p] \in Maps
    BY <1>1, InsertedKinds
  <2>3. \A n \in Names : Inserted(p)[p][n] = Amended(p)[n]
    BY <1>1, <2>1, InsertedKinds DEF Amended, Maps
  <2> QED
    BY <2>1, <2>2, <2>3 DEF Amended, Maps
<1>6. Writes(p)'
  BY <1>4, <1>5 DEF Writes, Amended
<1>7. Knows(p)'
  <2>1. Knows(p)
    BY DEF Orderly
  <2> QED
    BY <1>4, <2>1 DEF Knows
<1> QED
  BY <1>1, <1>2, <1>3, <1>4, <1>6, <1>7, QuietStep

LEMMA WriteOrderly ==
    ASSUME Typed, Typed', Reliable, Orderly, NEW p \in Procs, Write(p)
    PROVE  Orderly'
<1> USE DEF Write, Goto, caches, ghosts
<1>1. Writing(p)
  BY DEF Writing, Typed, Control, Holding
<1>2. Still(p) /\ pc'[p] = "rename"
  BY DEF Still, Typed, Control
<1>3. Alone'
  BY <1>1, <1>2, AloneStill DEF Orderly
<1>4. /\ fd[p] = "temp" /\ records[p] = Amended(p) /\ temp = Torn
      /\ Knows(p) /\ FileIsCurrent
  BY DEF Orderly, Writes
<1>5. now' = now + 1 /\ json' = json /\ temp' = Whole(records[p], now')
  BY <1>4 DEF Reliable, Overwritten, Torn
<1>6. Younger'
  <2>1. json.kind = "whole" => json.mtime \in 0..now
    BY <1>4, IdentityTells DEF FileIsCurrent
  <2> QED
    BY <1>5, <2>1 DEF Younger, Typed, Disk
<1>7. Writes(p)'
  BY <1>2, <1>4, <1>5, <1>6 DEF Writes, Amended
<1>8. Knows(p)'
  BY <1>2, <1>4, <1>5 DEF Knows
<1> QED
  BY <1>1, <1>2, <1>3, <1>5, <1>7, <1>8, QuietStep

LEMMA RestatOrderly ==
    ASSUME Typed, Typed', Reliable, Orderly, NEW p \in Procs, Restat(p)
    PROVE  Orderly'
<1> USE DEF Restat, EndsPut, Goto, files, ghosts
<1>1. Still(p) /\ pc'[p] = "idle"
  BY DEF Still, Forgotten, Typed, Control, Caches
<1>2. Alone'
  BY <1>1, AloneStill DEF Orderly, Writing
<1>3. Writes(p)'
  BY <1>1 DEF Writes
<1>4. Knows(p)'
  <2>1. FileIsCurrent /\ records[p] = decided
    BY DEF Orderly, Writes
  <2>2. CASE p = Broker
    <3>1. seen'[p] = Identity(json) /\ records' = records
      BY <2>2 DEF Typed, Caches, Stated, Reliable
    <3> QED
      BY <1>1, <2>1, <3>1, IdentityTells DEF Knows, FileIsCurrent, Typed, Disk
  <2>3. CASE p # Broker
    <3>1. seen'[p] = Absent
      BY <2>3 DEF Forgotten, Typed, Caches
    <3> QED
      BY <1>1, <3>1 DEF Knows, Absent
  <2> QED
    BY <2>2, <2>3
<1> QED
  BY <1>1, <1>2, <1>3, <1>4, QuietStep

LEMMA ExitsOrderly ==
    ASSUME Typed, Typed', Orderly, NEW p \in Procs, Exits(p)
    PROVE  Orderly'
<1> USE DEF Exits, Forgotten, Goto, files, ghosts
<1>1. Still(p) /\ pc'[p] = "idle" /\ seen'[p] = Absent
  BY DEF Still, Typed, Control, Caches
<1>2. Alone'
  BY <1>1, AloneStill DEF Orderly, Writing
<1>3. Writes(p)' /\ Knows(p)'
  BY <1>1 DEF Writes, Knows, Absent
<1> QED
  BY <1>1, <1>2, <1>3, QuietStep

\* The rename: what was decided and what the file holds change together, and
\* no identity seen before is that of the new file.
LEMMA RenameOrderly ==
    ASSUME Typed, Typed', Orderly, NEW p \in Procs, Rename(p)
    PROVE  Orderly'
<1> USE DEF Rename, Goto, caches
<1>1. Writing(p) /\ op[p].name \in Names
  BY OperationKinds DEF Writing, Typed, Control, Holding
<1>2. /\ fd[p] = "temp" /\ records[p] = Amended(p)
      /\ temp = Whole(records[p], now) /\ Younger
  BY DEF Orderly, Writes
<1>3. decided' = records[p]
  BY <1>2 DEF Amended
<1>4. /\ json'.kind = "whole" /\ json'.mtime = now /\ json'.map = records[p]
      /\ Identity(json').kind = "whole" /\ Identity(json').mtime = now
  BY <1>2 DEF Whole, Identity
<1>5. FileIsCurrent'
  BY <1>3, <1>4 DEF FileIsCurrent, Parsed
<1>6. \A q \in Procs \ {p} : pc'[q] = pc[q]
  BY DEF Typed, Control
<1>7. pc'[p] = "restat"
  BY DEF Typed, Control
<1>8. \A q \in Procs : Writing(q)' => Writing(q)
  BY <1>1, <1>6 DEF Writing
<1>9. Alone'
  BY <1>8 DEF Orderly, Alone
<1>10. \A q \in Procs : Writes(q)'
  <2>1. ASSUME NEW q \in Procs, q # p PROVE Writes(q)'
    <3>1. ~Writing(q)'
      BY <1>1, <1>8, <2>1 DEF Orderly, Alone
    <3> QED
      BY <3>1, OnlookerWritesNext DEF Typed
  <2>2. Writes(p)'
    BY <1>3, <1>7 DEF Writes
  <2> QED
    BY <2>1, <2>2
<1>11. ASSUME NEW q \in Procs PROVE Knows(q)'
  <2>1. Knows(q)
    BY DEF Orderly
  <2>2. seen[q].kind = "whole" => seen[q].mtime \in 0..now /\ seen[q].mtime < now
    <3>1. now \in Nat /\ json \in FilesUntil(now) /\ seen[q] \in IdentitiesUntil(now)
      BY DEF Typed, Disk, Caches
    <3>2. seen[q].kind = "whole" => seen[q].mtime \in 0..now
      BY ONLY <3>1, IdentityKinds
    <3>3. json.kind = "whole" => json.mtime \in 0..now
      BY ONLY <3>1, FileKinds
    <3> QED
      BY ONLY <2>1, <1>2, <3>1, <3>2, <3>3 DEF Knows, Younger
  <2>3. seen'[q] # Identity(json')
    <3>1. now \in Nat /\ seen' = seen
      BY DEF Typed, Disk
    <3> QED
      BY ONLY <1>4, <2>2, <3>1
  <2>10. window'[q] = IF pc[q] # "idle" /\ op[q].name = op[p].name
                     THEN window[q] \cup {op[p].record} ELSE window[q]
    <3>1. window' = [r \in Procs |-> IF pc[r] # "idle" /\ op[r].name = op[p].name
                                     THEN window[r] \cup {op[p].record} ELSE window[r]]
      BY DEF Rename
    <3> QED
      BY ONLY <3>1, q \in Procs
  <2>4. pc[q] # "idle" /\ op[q].name = op[p].name => window'[q] = window[q] \cup {op[p].record}
    BY ONLY <2>10
  <2>5. ~(pc[q] # "idle" /\ op[q].name = op[p].name) => window'[q] = window[q]
    BY ONLY <2>10
  <2>6. /\ pc'[q] # "idle" => pc[q] # "idle"
        /\ pc'[q] = "refreshed" => pc[q] = "refreshed"
    BY <1>6, <1>7
  <2>7. pc'[q] # "idle" => decided'[op'[q].name] \in window'[q]
    <3>1. CASE op[q].name = op[p].name
      <4>1. decided'[op[p].name] = op[p].record
        BY <1>1 DEF Typed, Ghosts, Maps
      <4> QED
        BY <2>4, <2>6, <3>1, <4>1
    <3>2. CASE op[q].name # op[p].name
      <4>1. op[q].name \in Names
        BY OperationKinds DEF Typed, Control
      <4>2. decided'[op[q].name] = decided[op[q].name]
        BY <3>2, <4>1 DEF Typed, Ghosts, Maps
      <4> QED
        BY <2>1, <2>5, <2>6, <3>2, <4>2 DEF Knows
    <3> QED
      BY <3>1, <3>2
  <2>8. pc'[q] = "refreshed" => records'[q][op'[q].name] \in window'[q]
    BY <2>1, <2>4, <2>5, <2>6 DEF Knows
  <2>9. seen'[q].kind = "whole" => json'.kind = "whole" /\ seen'[q].mtime <= json'.mtime
    <3>1. now \in Nat /\ seen' = seen
      BY DEF Typed, Disk
    <3> QED
      BY ONLY <1>4, <2>2, <3>1
  <2> QED
    BY <2>3, <2>7, <2>8, <2>9 DEF Knows
<1> QED
  BY <1>5, <1>9, <1>10, <1>11 DEF Orderly

LEMMA StepOrderly ==
    ASSUME Typed, Typed', Reliable, Orderly, NEW p \in Procs, Step(p)
    PROVE  Orderly'
<1>1. CASE \E o \in Operations : Begin(p, o)
  BY <1>1, BeginOrderly
<1>2. CASE Stat(p) \/ Answer(p) \/ Exits(p)
  BY <1>2, StatOrderly, AnswerOrderly, ExitsOrderly
<1>3. CASE Read(p) \/ Write(p)
  BY <1>3, ReadOrderly, WriteOrderly
<1>4. CASE Create(p) \/ Rename(p) \/ Restat(p)
  BY <1>4, CreateOrderly, RenameOrderly, RestatOrderly
<1>5. CASE PutFails(p)
  <2>1. pc[p] = "rename" /\ temp = Absent
    BY <1>5 DEF PutFails, Reliable
  <2>2. temp = Whole(records[p], now)
    BY <2>1 DEF Orderly, Writes
  <2> QED
    BY <2>1, <2>2 DEF Whole, Absent
<1> QED
  BY <1>1, <1>2, <1>3, <1>4, <1>5 DEF Step

LEMMA PromisedStep == ASSUME Typed, Promised, [Next]_vars PROVE Promised'
<1>1. SUFFICES ASSUME Reliable' PROVE Orderly'
  BY DEF Promised
<1>2. world' = world
  BY DEF Next, vars
<1>3. Reliable
  BY <1>1, <1>2 DEF Reliable, SerialWriters, ClockTicks, CallsFail
<1>4. Orderly
  BY <1>3 DEF Promised
<1>5. Typed'
  BY TypedStep
<1>6. CASE Next
  BY <1>3, <1>4, <1>5, <1>6, StepOrderly DEF Next
<1>7. CASE UNCHANGED vars
  BY <1>4, <1>7 DEF vars, Orderly, Alone, Writing, FileIsCurrent, Parsed,
                    Writes, Knows, Amended, Younger, Identity
<1> QED
  BY <1>6, <1>7

LEMMA InitPromised == ASSUME Init PROVE Promised
<1>1. Alone /\ FileIsCurrent /\ \A p \in Procs : Writes(p) /\ Knows(p)
  BY DEF Init, Alone, Writing, FileIsCurrent, Parsed, Writes, Knows, Absent
<1> QED
  BY <1>1 DEF Promised, Orderly

LEMMA PromisedHolds == Spec => []Promised
  BY InitTyped, TypedStep, InitPromised, PromisedStep, PTL DEF Spec

\* Where writers take turns, time stamps differ and calls succeed, the file
\* holds the last decision on every server, whatever process was killed where
\* (consent.rs:167-182).
THEOREM StoreCorrect == Spec => []FileHoldsDecisions
<1>1. Promised => FileHoldsDecisions
  BY DEF Promised, Orderly, FileHoldsDecisions
<1> QED
  BY <1>1, PromisedHolds, PTL

\* There, a look-up answers with a decision that stood on disk while it ran: the
\* modification time and the length are enough to tell one file from the next
\* (consent.rs:80-107).
THEOREM ReadsCorrect == Spec => []FreshRead
<1>1. Promised => FreshRead
  BY DEF Promised, Orderly, Knows, FreshRead
<1> QED
  BY <1>1, PromisedHolds, PTL

-----------------------------------------------------------------------------
(* One store                                                               *)

\* Only a rename changes what was decided, and it takes one decision.
LEMMA DecidedStep ==
    ASSUME Typed, [Next]_vars
    PROVE  \/ decided' = decided
           \/ \E n \in Names, r \in Records : decided' = [decided EXCEPT ![n] = r]
<1>1. CASE \E p \in Procs : Rename(p)
  <2>1. PICK p \in Procs : Rename(p)
    BY <1>1
  <2>2. op[p].name \in Names /\ op[p].record \in Records
    <3>1. pc[p] = "rename" /\ op[p] \in Operations
      BY <2>1 DEF Rename, Typed, Control
    <3>2. op[p].kind = "put"
      BY <3>1 DEF Typed, Control, Holding
    <3> QED
      BY <3>1, <3>2, OperationKinds
  <2>3. decided' = [decided EXCEPT ![op[p].name] = op[p].record]
    BY <2>1 DEF Rename
  <2> QED
    BY <2>2, <2>3
<1>2. CASE UNCHANGED vars
  BY <1>2 DEF vars, ghosts
<1>3. ASSUME NEW p \in Procs, Step(p), ~Rename(p)
      PROVE  decided' = decided
  BY <1>3 DEF Step, Begin, Stat, Read, Answer, Create, Write, Restat, PutFails, Exits, ghosts
<1> QED
  BY <1>1, <1>2, <1>3 DEF Next

\* The file is what was decided, before the step and after it.
LEMMA KeptStep ==
    ASSUME Typed, Promised, Reliable, [Next]_vars
    PROVE  Reliable' /\ [Kept!QuestionNext]_Kept!questionVars
<1>1. Reliable'
  BY DEF Next, vars, Reliable, SerialWriters, ClockTicks, CallsFail
<1>2. Parsed(json) = decided /\ Parsed(json)' = decided'
  <2>1. Promised'
    BY PromisedStep
  <2> QED
    BY <1>1, <2>1 DEF Promised, Orderly, FileIsCurrent
<1>3. ASSUME NEW n \in Names, NEW r \in Records, decided' = [decided EXCEPT ![n] = r]
      PROVE  Kept!QuestionNext
  <2>1. r \in Kept!Answers
    BY DEF Records, NotAsked, Denied, GrantedFor, Kept!Answers, Kept!NotAsked, Kept!Denied, Kept!Granted
  <2>2. Kept!Decide(n, r)
    BY <1>2, <1>3 DEF Kept!Decide
  <2> QED
    BY <2>1, <2>2 DEF Kept!QuestionNext
<1> QED
  BY <1>1, <1>2, <1>3, DecidedStep DEF Kept!questionVars

\* Where calls are reliable the store is one map that takes one decision at a time,
\* though a put is six file system calls of a process that may be killed between any
\* two of them: no update is lost and nothing half-written is read
\* (consent.rs:167-191).
THEOREM AnswersKept == Spec /\ Reliable => KeepsAnswers
<1>1. Init => Kept!QuestionInit
  BY DEF Init, Parsed, Absent, NothingDecided, NotAsked, Kept!QuestionInit, Kept!Answers, Kept!NotAsked
<1>2. Typed /\ Promised /\ Reliable /\ [Next]_vars
        => Reliable' /\ [Kept!QuestionNext]_Kept!questionVars
  BY KeptStep
<1> QED
  BY <1>1, <1>2, TypedHolds, PromisedHolds, PTL DEF Spec, KeepsAnswers, Kept!QuestionSpec
=============================================================================
