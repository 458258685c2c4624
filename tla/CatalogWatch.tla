---------------------------- MODULE CatalogWatch ----------------------------
(***************************************************************************)
(* A client that watches the registry: packages/locator-ts/src/watch.ts    *)
(* with the scan of catalog.ts and parse.ts, which is the scan of Catalog. *)
(*                                                                         *)
(* A scan runs to its end on the client's only thread, but it reads the    *)
(* disk call by call, and installers write it meanwhile.  Events wait in   *)
(* the system until the thread is free; each of them restarts a timer, and *)
(* a scan starts when the timer elapses.                                   *)
(***************************************************************************)
EXTENDS Catalog

CONSTANTS
    Files,      \* names a card file may be called by
    Contents,   \* what may be in one
    Written,    \* what installers write while the watcher is there
    Installed,  \* what directories hold when the watcher is set up
    MaxChanges  \* bound: changes on disk, so that the disk comes to rest

ASSUME FilesAssumption == IsFiniteSet(Files) /\ MaxChanges \in Nat

VARIABLES
    disk,       \* directory -> file -> content; a missing directory is empty
    existing,   \* the directories there are
    watched,    \* the directories with a watcher
    events,     \* change events wait to be delivered
    timer,      \* the debounce timer is running
    closed,     \* close() has been called
    scan,       \* the scan that is running
    report,     \* the last catalog handed to onChange
    unread,     \* positions of watched directories that changed since they were last read
    changes     \* changes made so far

vars == <<disk, existing, watched, events, timer, closed, scan, report, unread, changes>>
disks == <<disk, existing, watched, unread, changes>>

-----------------------------------------------------------------------------
(* State                                                                   *)

Dirs == {Roots[i].dir : i \in DOMAIN Roots}
NoFiles == [f \in {} |-> Malformed]
Directory == UNION {[S -> Contents] : S \in SUBSET Files}
ASSUME InstalledAssumption == Installed \subseteq Directory /\ Written \subseteq Contents

\* The roots as a scan reads them, and the positions of a directory among them: it may
\* be listed twice.
Order == Ordered(Roots)
PositionsOf(d) == {k \in DOMAIN Order : Order[k].dir = d}

NoScan == [running |-> FALSE]
NoReport == EmptyCatalog

\* next: the position of the root it reads; listed: that has been listed, and files
\* is what is left of it; steady: the files that have not changed since the scan
\* began.
Scanning(next, listed, files, catalog, steady) ==
    [running |-> TRUE, next |-> next, listed |-> listed, files |-> files,
     catalog |-> catalog, steady |-> steady]
Begun == Scanning(1, FALSE, {}, EmptyCatalog,
                  {s \in Dirs \X Files : s[2] \in DOMAIN disk[s[1]]})
Free == ~scan.running

-----------------------------------------------------------------------------
(* The disk                                                                *)

Changed(d, files) ==
    /\ changes < MaxChanges
    /\ changes' = changes + 1
    /\ disk' = [disk EXCEPT ![d] = files]
    /\ events' = (events \/ (d \in watched /\ ~closed))
    /\ unread' = IF d \in watched THEN unread \cup PositionsOf(d) ELSE unread
    /\ scan' = IF Free THEN scan
               ELSE [scan EXCEPT !.steady =
                        {s \in @ : s[1] # d \/
                            (s[2] \in DOMAIN files /\ files[s[2]] = disk[d][s[2]])}]
    /\ UNCHANGED <<timer, closed, report>>

WriteFile(d, f, content) ==
    /\ d \in existing
    /\ f \in DOMAIN disk[d] => disk[d][f] # content
    /\ Changed(d, [g \in DOMAIN disk[d] \cup {f} |-> IF g = f THEN content ELSE disk[d][g]])
    /\ UNCHANGED <<existing, watched>>

RemoveFile(d, f) ==
    /\ f \in DOMAIN disk[d]
    /\ Changed(d, [g \in DOMAIN disk[d] \ {f} |-> disk[d][g]])
    /\ UNCHANGED <<existing, watched>>

\* Nobody watches a directory that comes into being later.
CreateDirectory(d) ==
    /\ d \notin existing
    /\ existing' = existing \cup {d}
    /\ Changed(d, NoFiles)
    /\ UNCHANGED watched

\* Its watcher reports the end of the directory and no more.
RemoveDirectory(d) ==
    /\ d \in existing
    /\ existing' = existing \ {d}
    /\ watched' = watched \ {d}
    /\ Changed(d, NoFiles)

-----------------------------------------------------------------------------
(* The watcher                                                             *)

\* fire: whatever timer there is starts anew.
EventDelivered ==
    /\ Free /\ events /\ ~closed
    /\ events' = FALSE
    /\ timer' = TRUE
    /\ UNCHANGED <<disks, closed, scan, report>>

TimerElapses ==
    /\ Free /\ timer
    /\ timer' = FALSE
    /\ scan' = IF closed THEN NoScan ELSE Begun
    /\ UNCHANGED <<disks, events, closed, report>>

CloseKeepingTimer ==
    /\ Free /\ ~closed
    /\ closed' = TRUE
    /\ events' = FALSE
    /\ UNCHANGED <<disks, timer, scan, report>>
Close ==
    /\ Free /\ ~closed
    /\ closed' = TRUE
    /\ events' = FALSE
    /\ timer' = FALSE
    /\ UNCHANGED <<disks, scan, report>>

-----------------------------------------------------------------------------
(* A scan                                                                  *)

ScanDone == scan.running /\ scan.next > Len(Roots)
Root == Order[scan.next]

\* readdir of the next directory.
ListDirectory ==
    /\ scan.running /\ ~ScanDone /\ ~scan.listed
    /\ scan' = Scanning(scan.next, TRUE, DOMAIN disk[Root.dir], scan.catalog, scan.steady)
    /\ unread' = unread \ {scan.next}
    /\ UNCHANGED <<disk, existing, watched, changes, events, timer, closed, report>>

\* One file: what is in it now, which need not be what was there when it was
\* listed; a file that has gone cannot be read.
ContentNow(f) == IF f \in DOMAIN disk[Root.dir] THEN disk[Root.dir][f] ELSE Unreadable
ReadFile(f) ==
    /\ scan.running /\ f \in scan.files
    /\ scan' = Scanning(scan.next, TRUE, scan.files \ {f},
                        AddFile(scan.catalog, Root, f, ContentNow(f)), scan.steady)
    /\ UNCHANGED <<disks, events, timer, closed, report>>

NextDirectory ==
    /\ scan.running /\ scan.listed /\ scan.files = {}
    /\ scan' = Scanning(scan.next + 1, FALSE, {}, scan.catalog, scan.steady)
    /\ UNCHANGED <<disks, events, timer, closed, report>>

ReportDroppingEvents ==
    /\ ScanDone
    /\ report' = Listed(scan.catalog, FALSE)
    /\ scan' = NoScan
    /\ events' = FALSE
    /\ UNCHANGED <<disks, timer, closed>>
ReportWithOrphans ==
    /\ ScanDone
    /\ report' = scan.catalog
    /\ scan' = NoScan
    /\ UNCHANGED <<disks, events, timer, closed>>
Report ==
    /\ ScanDone
    /\ report' = Listed(scan.catalog, FALSE)
    /\ scan' = NoScan
    /\ UNCHANGED <<disks, events, timer, closed>>

-----------------------------------------------------------------------------
(* Specification                                                           *)

\* Watchers are set up where there is a directory; nothing has been reported.
Init ==
    /\ existing \in SUBSET Dirs
    /\ disk \in [Dirs -> {NoFiles} \cup Installed]
    /\ \A d \in Dirs \ existing : disk[d] = NoFiles
    /\ watched = existing
    /\ events = FALSE /\ timer = FALSE /\ closed = FALSE
    /\ scan = NoScan
    /\ report = NoReport
    /\ unread = {}
    /\ changes = 0

ScanStep ==
    \/ ListDirectory \/ NextDirectory \/ Report
    \/ \E f \in Files : ReadFile(f)

DiskChange ==
    \E d \in Dirs :
        \/ \E f \in Files, content \in Written : WriteFile(d, f, content)
        \/ \E f \in Files : RemoveFile(d, f)
        \/ CreateDirectory(d) \/ RemoveDirectory(d)

Next == EventDelivered \/ TimerElapses \/ Close \/ ScanStep \/ DiskChange

Spec == Init /\ [][Next]_vars
FairSpec ==
    Spec /\ WF_vars(EventDelivered) /\ WF_vars(TimerElapses) /\ WF_vars(ScanStep)

-----------------------------------------------------------------------------
(* Properties                                                              *)

\* Every variable stays within its type; a watcher that was closed has neither
\* events nor a timer (watch.ts:28-30, 49-55).
TypeOK ==
    /\ disk \in [Dirs -> Directory]
    /\ watched \subseteq existing /\ existing \subseteq Dirs
    /\ unread \subseteq DOMAIN Order
    /\ events \in BOOLEAN /\ timer \in BOOLEAN /\ closed \in BOOLEAN
    /\ closed => ~events /\ ~timer
    /\ changes \in 0..MaxChanges

\* The valid cards of a name, the one that wins and those it shadows.
ValidAt(i, f) ==
    LET files == disk[Roots[i].dir] IN
    f \in DOMAIN files /\ Diagnosis(f, files[f]) = "none"
Before(i, j) ==
    LET ri == Rank[Roots[i].tier]  rj == Rank[Roots[j].tier] IN
    ri > rj \/ (ri = rj /\ i < j)
Valid(f) == {i \in DOMAIN Roots : ValidAt(i, f)}
Winner(f) ==
    LET valid == Valid(f) IN CHOOSE i \in valid : \A j \in valid \ {i} : Before(i, j)
Losers(f) == LET winner == Winner(f) IN {i \in Valid(f) : i # winner}
NotesOn(i, f) ==
    LET files == disk[Roots[i].dir] IN
    IF f \in DOMAIN files /\ ~ValidAt(i, f) THEN {Note(Diagnosis(f, files[f]), Roots[i], f)}
    ELSE IF i \in Losers(f) THEN {Note("shadowed", Roots[i], f)}
    ELSE {}
WinnersListed(catalog) ==
    {<<e.name, e.dir, e.tier>> : e \in catalog.entries}
      = {<<f, Roots[Winner(f)].dir, Roots[Winner(f)].tier>> :
           f \in {g \in Files : Valid(g) # {}}}
LosersShadowed(catalog) ==
    \A e \in catalog.entries :
      /\ ToSet(e.shadowed) = {Roots[i].dir : i \in Losers(e.name)}
      /\ Len(e.shadowed) = Cardinality(Losers(e.name))
NotesListed(catalog) ==
    catalog.diagnostics = UNION {NotesOn(i, f) : i \in DOMAIN Roots, f \in Files}
\* What a scan of a disk at rest gives: an entry for every name with a valid
\* card, from its highest tier and there from the earliest root; every other
\* valid card of the name is listed as shadowed; every card that gives no entry
\* has its diagnostic, and nothing else has (catalog.rs:63-122, spec/001 section 2).
CatalogAtRest ==
    LET catalog == Enumerate(disk, Roots, TRUE) IN
    WinnersListed(catalog) /\ LosersShadowed(catalog) /\ NotesListed(catalog)

\* A valid card nobody touches during a scan is never lost from it: its name has
\* an entry, of its tier or a higher one, whatever else is written meanwhile
\* (catalog.rs:73-108, 124-125).
SteadyCardsListed ==
    ScanDone =>
        \A i \in DOMAIN Roots, f \in Files :
            (<<Roots[i].dir, f>> \in scan.steady /\ ValidAt(i, f)) =>
                \E e \in scan.catalog.entries :
                    e.name = f /\ Rank[e.tier] >= Rank[Roots[i].tier]

\* When the client is at rest and has read every change, the last report is the
\* catalog of the disk, though no scan saw the disk at one moment (watch.ts:32-37).
ReportIsCurrent ==
    (Free /\ ~closed /\ unread = {} /\ changes > 0 /\ watched = Dirs)
        => report = Listed(Enumerate(disk, Roots, TRUE), FALSE)

\* No wake-up is lost: as long as a change is unread, the watcher is closed, or an
\* event or the timer is on its way, or the scan under way has yet to list the
\* directory (watch.ts:32-43).
StillToList(k) == scan.running /\ (scan.next < k \/ (scan.next = k /\ ~scan.listed))
NoChangeForgotten == \A k \in unread : closed \/ events \/ timer \/ StillToList(k)

\* All changes in watched directories are read by later scans, however they fall
\* between events, timer and a scan under way, if changes pause (watch.ts:32-43).
ChangesRead == unread # {} ~> (unread = {} \/ closed)
=============================================================================
