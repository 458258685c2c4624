---------------------------- MODULE ConsentStore ----------------------------
(***************************************************************************)
(* The consent store: broker/crates/broker/src/consent.rs, 59-191.         *)
(*                                                                         *)
(* One file, consent.json, is shared by the running broker, which keeps a  *)
(* cache of it for as long as it lives, and by the consent commands of the *)
(* command line (main.rs), each a process that loads the store and does    *)
(* one operation.  Nothing locks the file: a process sees what others did  *)
(* only through the file's identity, its modification time and length.     *)
(*                                                                         *)
(* A step here is one file system call, and a process may be killed        *)
(* between any two of them.                                                *)
(***************************************************************************)
EXTENDS Naturals, FiniteSets

CONSTANTS
    Procs,          \* processes that use the store
    Broker,         \* the one that keeps its cache between operations
    Names,          \* server names
    Hashes,         \* launch hashes
    Worlds          \* what may be relied on, one of them for a whole behaviour:
                    \*   serial: no two writing operations overlap
                    \*   ticks: no two writes fall into one tick of the clock
                    \*   fail: a read or a write can fail (full disk, sharing, permissions)
                    \*   ops: bound, operations begun by all processes together

ASSUME StoreAssumption ==
    /\ Broker \in Procs /\ IsFiniteSet(Procs)
    /\ IsFiniteSet(Names)
    /\ Worlds \subseteq [serial : BOOLEAN, ticks : BOOLEAN, fail : BOOLEAN, ops : Nat]

VARIABLES
    world,      \* the one this is
    json,       \* consent.json
    temp,       \* consent.json.tmp, one name for every writer
    now,        \* the clock the file system stamps files with
    records,    \* records[p]: the cached map
    seen,       \* seen[p]: the identity of the file the cache was read from
    pc,         \* pc[p]: the next call of the operation p is in
    op,         \* op[p]: that operation
    fd,         \* fd[p]: what the file p has open is called now
    ops,        \* operations begun so far
    decided,    \* the last decision on each server that was renamed in place
    window,     \* window[p]: what decided held for p's server during its operation
    asked       \* asked[n]: the records anybody set out to put for server n

files == <<json, temp, now>>
caches == <<records, seen>>
ghosts == <<decided, window, asked>>
vars == <<world, json, temp, now, records, seen, pc, op, fd, ops, decided, window, asked>>

SerialWriters == world.serial
ClockTicks == world.ticks
CallsFail == world.fail
MaxOps == world.ops
Reliable == SerialWriters /\ ClockTicks /\ ~CallsFail

-----------------------------------------------------------------------------
(* State                                                                   *)

\* An absent record and a "not asked" one are the same to evaluate.
NotAsked == [state |-> "not-asked"]
Denied == [state |-> "denied"]
GrantedFor(h) == [state |-> "granted", hash |-> h]
Records == {NotAsked, Denied} \cup {GrantedFor(h) : h \in Hashes}
NothingDecided == [n \in Names |-> NotAsked]

\* A file is absent, holds a whole map, or holds something that does not parse.
Absent == [kind |-> "absent"]
Torn == [kind |-> "torn"]
Whole(map, time) == [kind |-> "whole", map |-> map, mtime |-> time]

\* An unreadable store means that nothing has been decided.
ParsedAsDenial(file) ==
    CASE file.kind = "whole" -> file.map
      [] file.kind = "torn" -> [n \in Names |-> Denied]
      [] file.kind = "absent" -> NothingDecided
Parsed(file) == IF file.kind = "whole" THEN file.map ELSE NothingDecided

\* A denial is shorter than a grant; any two grants are taken to be of one length.
Count(map, state) == Cardinality({n \in Names : map[n].state = state})
Length(map) == 2 * Count(map, "granted") + Count(map, "denied")

\* A torn file is taken to have a length no whole one has.
IdentityByLength(file) ==
    IF file.kind = "whole" THEN [kind |-> "whole", len |-> Length(file.map)] ELSE file
Identity(file) ==
    IF file.kind = "whole"
    THEN [kind |-> "whole", mtime |-> file.mtime, len |-> Length(file.map)]
    ELSE file

\* What a call for the identity returns: one that fails tells no more than that of a
\* file that is absent.
Stated == {Identity(json)} \cup IF CallsFail THEN {Absent} ELSE {}

LookUp(n) == [kind |-> "look-up", name |-> n]
Put(n, r) == [kind |-> "put", name |-> n, record |-> r]
Operations == {LookUp(n) : n \in Names} \cup {Put(n, r) : n \in Names, r \in Records}

Writing(p) == pc[p] # "idle" /\ op[p].kind = "put"

-----------------------------------------------------------------------------
(* One operation, call by call                                             *)

Goto(p, label) == pc' = [pc EXCEPT ![p] = label]

Forgotten(p) ==
    /\ records' = [records EXCEPT ![p] = NothingDecided]
    /\ seen' = [seen EXCEPT ![p] = Absent]

\* A command ends with its write; the broker lives on with its cache.
EndsPut(p) ==
    /\ Goto(p, "idle")
    /\ fd' = [fd EXCEPT ![p] = "none"]

\* A look-up (load, records, evaluate), a decision (grant, deny) or a
\* withdrawal (forget, which leaves "not asked") starts.
Begin(p, o) ==
    /\ pc[p] = "idle"
    /\ ops < MaxOps
    /\ (SerialWriters /\ o.kind = "put") => \A q \in Procs : ~Writing(q)
    /\ ops' = ops + 1
    /\ op' = [op EXCEPT ![p] = o]
    /\ window' = [window EXCEPT ![p] = {decided[o.name]}]
    /\ asked' = IF o.kind = "put" THEN [asked EXCEPT ![o.name] = @ \cup {o.record}] ELSE asked
    /\ Goto(p, "stat")
    /\ UNCHANGED <<files, caches, fd, decided>>

\* refresh: the file is read unless its identity is the one last seen; an
\* absent file is always read again.
StatOnlyAtStartup(p) ==
    /\ pc[p] = "stat"
    /\ IF seen[p] # Absent
       THEN Goto(p, "refreshed") /\ UNCHANGED seen
       ELSE Goto(p, "read") /\ seen' = [seen EXCEPT ![p] = Identity(json)]
    /\ UNCHANGED <<files, records, op, fd, ops, ghosts>>
Stat(p) ==
    /\ pc[p] = "stat"
    /\ \E id \in Stated :
         IF id = seen[p] /\ seen[p] # Absent
         THEN Goto(p, "refreshed") /\ UNCHANGED seen
         ELSE Goto(p, "read") /\ seen' = [seen EXCEPT ![p] = id]
    /\ UNCHANGED <<files, records, op, fd, ops, ghosts>>

\* A read that fails counts as nothing decided, like a file that does not parse,
\* and is cached under the file's identity all the same.
Read(p) ==
    /\ pc[p] = "read"
    /\ \E map \in {Parsed(json)} \cup IF CallsFail THEN {NothingDecided} ELSE {} :
         records' = [records EXCEPT ![p] = map]
    /\ Goto(p, "refreshed")
    /\ UNCHANGED <<files, seen, op, fd, ops, ghosts>>

Answer(p) ==
    /\ pc[p] = "refreshed"
    /\ op[p].kind = "look-up"
    /\ Goto(p, "idle")
    /\ UNCHANGED <<files, caches, op, fd, ops, ghosts>>

Inserted(p) == [records EXCEPT ![p][op[p].name] = op[p].record]

\* put: the record goes into the map, then the temporary file is created, or
\* truncated if another writer has created it.
CreateInPlace(p) ==
    /\ pc[p] = "refreshed"
    /\ op[p].kind = "put"
    /\ records' = Inserted(p)
    /\ json' = Torn
    /\ fd' = [fd EXCEPT ![p] = "json"]
    /\ Goto(p, "write")
    /\ UNCHANGED <<temp, now, seen, op, ops, ghosts>>
Create(p) ==
    /\ pc[p] = "refreshed"
    /\ op[p].kind = "put"
    /\ records' = Inserted(p)
    /\ temp' = Torn
    /\ fd' = [fd EXCEPT ![p] = "temp"]
    /\ Goto(p, "write")
    /\ UNCHANGED <<json, now, seen, op, ops, ghosts>>

\* What a file holds once map is written over it from its start.
Overwritten(file, map, time) ==
    IF file.kind = "whole" /\ Length(file.map) > Length(map) THEN Torn ELSE Whole(map, time)

Write(p) ==
    /\ pc[p] = "write"
    /\ now' \in IF ClockTicks THEN {now + 1} ELSE {now, now + 1}
    /\ temp' = IF fd[p] = "temp" THEN Overwritten(temp, records[p], now') ELSE temp
    /\ json' = IF fd[p] = "json" THEN Overwritten(json, records[p], now') ELSE json
    /\ Goto(p, "rename")
    /\ UNCHANGED <<caches, op, fd, ops, ghosts>>

\* Files that other writers have open move along with the rename.
Moved(place) == CASE place = "temp" -> "json" [] place = "json" -> "gone" [] OTHER -> place

\* The rename fails if another writer has renamed the temporary file already.
Rename(p) ==
    /\ pc[p] = "rename"
    /\ temp # Absent
    /\ json' = temp
    /\ temp' = Absent
    /\ fd' = [q \in Procs |-> Moved(fd[q])]
    /\ decided' = [decided EXCEPT ![op[p].name] = op[p].record]
    /\ window' = [q \in Procs |->
                    IF pc[q] # "idle" /\ op[q].name = op[p].name
                    THEN window[q] \cup {op[p].record} ELSE window[q]]
    /\ Goto(p, "restat")
    /\ UNCHANGED <<now, caches, op, ops, asked>>

\* The identity of the file just written; for a command it is the last step.
RestatKeepingFile(p) ==
    /\ pc[p] = "restat"
    /\ Goto(p, "idle")
    /\ IF p = Broker
       THEN /\ \E id \in Stated : seen' = [seen EXCEPT ![p] = id]
            /\ UNCHANGED records
       ELSE Forgotten(p)
    /\ UNCHANGED <<files, op, fd, ops, ghosts>>
Restat(p) ==
    /\ pc[p] = "restat"
    /\ EndsPut(p)
    /\ IF p = Broker
       THEN /\ \E id \in Stated : seen' = [seen EXCEPT ![p] = id]
            /\ UNCHANGED records
       ELSE Forgotten(p)
    /\ UNCHANGED <<files, op, ops, ghosts>>

\* A create, write or rename returns an error: the operation ends there.  The
\* record stays in the map, and the identity last seen stays what it was.
PutFails(p) ==
    /\ \/ pc[p] = "refreshed" /\ op[p].kind = "put" /\ CallsFail
       \/ pc[p] \in {"write", "rename"} /\ CallsFail
       \/ pc[p] = "rename" /\ temp = Absent
    /\ EndsPut(p)
    /\ IF p = Broker THEN UNCHANGED seen /\ records' = Inserted(p) ELSE Forgotten(p)
    /\ UNCHANGED <<files, op, ops, ghosts>>

\* A process is killed, or a command exits; another one starts with a new store.
Exits(p) ==
    /\ Goto(p, "idle")
    /\ fd' = [fd EXCEPT ![p] = "none"]
    /\ Forgotten(p)
    /\ UNCHANGED <<files, op, ops, ghosts>>

-----------------------------------------------------------------------------
(* Specification                                                           *)

Init ==
    /\ world \in Worlds
    /\ json = Absent
    /\ temp = Absent
    /\ now = 0
    /\ records = [p \in Procs |-> NothingDecided]
    /\ seen = [p \in Procs |-> Absent]
    /\ pc = [p \in Procs |-> "idle"]
    /\ op \in [Procs -> {LookUp(n) : n \in Names}]
    /\ fd = [p \in Procs |-> "none"]
    /\ ops = 0
    /\ decided = NothingDecided
    /\ window = [p \in Procs |-> {}]
    /\ asked = [n \in Names |-> {}]

Step(p) ==
    \/ \E o \in Operations : Begin(p, o)
    \/ Stat(p) \/ Read(p) \/ Answer(p)
    \/ Create(p) \/ Write(p) \/ Rename(p) \/ Restat(p) \/ PutFails(p)
    \/ Exits(p)

Next == world' = world /\ \E p \in Procs : Step(p)

Spec == Init /\ [][Next]_vars

-----------------------------------------------------------------------------
(* Properties                                                              *)

Files == {Absent, Torn} \cup {Whole(map, t) : map \in [Names -> Records], t \in 0..MaxOps}

\* Every variable stays within its type, and a process has a file open exactly
\* while it writes one (consent.rs:59-65, 177-190).
TypeOK ==
    /\ {json, temp} \subseteq Files
    /\ now \in 0..MaxOps
    /\ records \in [Procs -> [Names -> Records]]
    /\ \A p \in Procs : seen[p].kind \in {"absent", "torn", "whole"}
    /\ pc \in [Procs -> {"idle", "stat", "read", "refreshed", "write", "rename", "restat"}]
    /\ op \in [Procs -> Operations]
    /\ fd \in [Procs -> {"none", "temp", "json", "gone"}]
    /\ \A p \in Procs : fd[p] # "none" <=> pc[p] \in {"write", "rename", "restat"}
    /\ decided \in [Names -> Records]

\* "A write must merge with what is on disk, not replace it": the file holds
\* the last decision on every server, whoever wrote it and whatever process was
\* killed where, and is never cut short (consent.rs:167-182, test at 295).
FileIsCurrent == json.kind # "torn" /\ Parsed(json) = decided

\* It does where writers take turns, time stamps differ and calls succeed.
FileHoldsDecisions == Reliable => FileIsCurrent

\* "The long-lived store must see a decision made by another process", and no
\* other: there, a look-up answers with a decision that stood on disk at some
\* moment of the look-up (consent.rs:80-107, server.rs:85-86).
FreshRead ==
    Reliable => \A p \in Procs :
        pc[p] = "refreshed" => records[p][op[p].name] \in window[p]

\* "A grant that could not be written must not be honoured in memory only"
\* (server.rs:85-86): a grant a look-up answers with stood on disk meanwhile.
NoGrantInMemoryOnly ==
    \A p \in Procs :
        LET found == records[p][op[p].name] IN
        (pc[p] = "refreshed" /\ op[p].kind = "look-up" /\ found.state = "granted")
            => found \in window[p]

\* In any world nothing is ever read as a decision that nobody took: not with writers that
\* overlap, writes that fail, files cut short or a clock that stands still
\* ("never treat it as denial", consent.rs:68-69, 98-101).
OnlyDecisions ==
    \A n \in Names :
        /\ Parsed(json)[n] \in {NotAsked} \cup asked[n]
        /\ \A p \in Procs : records[p][n] \in {NotAsked} \cup asked[n]

\* Where calls are reliable, several processes that write call by call and may be
\* killed anywhere are one store that takes one decision at a time, loses none and
\* changes by nothing else (consent.rs:167-191): the answers of Question.
Kept == INSTANCE Question WITH Askers <- Procs, open <- {}, answers <- Parsed(json)
KeepsAnswers == Kept!QuestionSpec
=============================================================================
