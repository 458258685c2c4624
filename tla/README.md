# A formal model of mcp-locator

TLA+ models of mcp-locator, checked with TLC on small instances and proved about with TLAPS.
Paths are relative to `src/`; `broker/` stands for `broker/crates/broker/src/`, `locator-ts/` for
`packages/locator-ts/src/`. `PROJECT.json` lists the components, the runs, the mutants that show
each property can fail, the lines each definition models, the hazards and the theorems.

    tlc -config engine.cfg MCEngine.tla      # a run: the cfg and the module it belongs to
    tlapm EngineProofs.tla                   # a proof module

## 1. The system

mcp-locator lets programs on one machine register MCP servers as *cards*, and AI clients find,
approve and start them. A broker process per user starts the servers; clients speak JSON-RPC to it.

| Component | State | Operations | Hard behaviour | Modules |
|---|---|---|---|---|
| **Activation engine** `broker/activation.rs` | grants; one shared entry per server name (child, refcount, idle timer); a child and a relay task per stdio grant | activate, release, release_connection, deactivate, reap_idle | counts and timers under any order of calls; servers that exit by themselves; death of the broker | Engine, Lifetime |
| **Dispatch and connections** `broker/server.rs` | a task per connection; `prompt_lock`; the engine behind a mutex | activate in several turns, release, deactivate, end of connection, reaper tick | interleaving at every await; a client that leaves while a dialog is open | Broker, Question, Grants |
| **Consent store** `broker/consent.rs`, consent commands of `main.rs` | `consent.json`, its temporary file; a cache per process keyed by (mtime, length) | evaluate, grant, deny, forget, refresh, persist | several processes, no lock, kills, failing writes, coarse clocks | ConsentStore, Question |
| **Prompt** `broker/prompt.rs`, `consent-ui` | a dialog process, 180 s limit, the question as arguments | ask → Allow / Deny / Unanswered | a dialog and a broker that die independently, late answers, texts that look like flags | Dialog, Question |
| **Start-up** `server.rs` (listen), `main.rs` (serve), `install.rs` (user), `locator-ts/broker.ts` | socket or pipe; labelled directories | connect, start, retry, set up, listen | clients that start a broker each; processes that set up at once | Bootstrap |
| **Catalog** `catalog.rs`, `proto/src/card.rs`; `locator-ts/` catalog, parse, expand, watch | card directories; events; a debounce timer | enumerate, watch | tiers that shadow each other; a disk that changes under a scan; bursts of events | Catalog, CatalogWatch |
| **Gateway** `packages/gateway/src` | active servers, broker connection | activate, deactivate, list, shutdown | two calls interleaved at their awaits; a lost broker | Gateway, Grants |
| Hashing, JSON-RPC types, signatures, security, audit, probes | none that is shared | pure, or calls of the operating system | – | – |

How they interact: a gateway or client calls the broker over a socket; each connection's task calls
the engine under one mutex held for a whole engine operation, but *released between* the steps of
an activation (look-up, dialog, launch). The engine holds the consent store. Consent commands are
separate processes that write the same file, and the dialog is a separate process that answers by
its exit code. The reaper is a task of the broker. Nothing the engine knows survives the broker:
there is no state file in the code.

What makes each correct:

- engine: the refcount is the number of grants; a claimed server is never stopped, an unclaimed one
  always is; no process starts without approval of exactly what it launches; nothing leaks;
- dispatch: one question at a time and each once; a client that is gone holds nothing; every
  request is answered;
- consent store: no decision is lost, none is invented, none is read stale;
- prompt: what is shown is what is asked; what is stored was approved; no dialog outlives its request;
- start-up: one broker; no directory left without its label by a race; every connect ends;
- catalog and watcher: the higher tier wins, no untouched card is lost, every change is reported;
- gateway: no grant without an owner; aliases are unique; every call is answered.

## 2. What is modelled

Modules compose by EXTENDS where components share state (Broker over Engine, CatalogWatch over
Catalog) and by an abstract promise where they meet only through a contract:

| Contract | Between | Shown |
|---|---|---|
| Engine | the engine and the broker's connections | `EngineKept` of Broker |
| Lifetime | the engine and whoever claims a server | `KeepsLifetime` of Engine, and so of Broker |
| Question | requests, dialogs and the store of answers | `KeepsQuestion` of Broker, where a dialog is one step, and of Dialog, where it is a process; `KeepsAnswers` of ConsentStore, where a put is half a dozen file system calls |
| Grants | the broker and its clients | `KeepsGrants` of Broker; `KeepsGrants` of Gateway: what Gateway takes the broker to do is what the contract allows |

### Engine — `broker/activation.rs`

State: `grants`, `shared` (an absent entry and `Stopped` are the same to the code), `relay`,
`nextGrant` as in the code. `procs` is the set of processes the operating system runs or has not
reaped, each named by the grant id whose activation spawned it. `consent` is the decision the next
`evaluate` will see. The engine runs every operation under one lock held across its awaits, so each
is one action: `StartStdio`, `AttachShared` and `ActivationFails` are the outcomes of `activate`
past its refusals, `Release`, `ReleaseConnection`, `Deactivate` and `ReapIdle` the others. The
loops of `release_connection` and `deactivate` retire a set of grants; `Dropped(S)` is their
effect on the shared entries. Beside the lock: timers elapse, relays open and end, servers exit,
consent changes, the broker dies, also in the window between a spawn and the job object.

Abstracted: a launch hash determines what is launched (`LaunchOf`); the grace period of
`shutdown`; the bytes of the relay; integrity levels.

### Lifetime — what the engine promises

Three variables: who claims a server, whether it is up, which ids are used up. Claims come one at
a time under fresh ids and bring the server up; a server goes down only with its last claim.
`Engine` implements it (`KeepsLifetime`): `up` is "has a shared child or a stdio grant".

### Broker — `broker/server.rs`

Extends Engine with one task per connection and the queue of the prompt lock. An activation goes
through the phases `check`, `queued`, `asking`, `activate`; between any two of them every other
step may come. The card is any entry, since the code scans the card files afresh for each request,
and the task keeps the entry it read. The end of the stream is seen only between two requests.
The steps of Engine that no connection can tell apart (relays, exits, death inside a spawn) are
left to the runs of Engine.

### Question — what asking a person promises

Two variables: the question whose answer is waited for, and what is recorded about each server. One
question is open at a time, none is opened that has its answer, and it ends with an answer for the
hash that was asked about or without one; consent commands decide at any time. `Broker` and `Dialog`
implement it (`KeepsQuestion`) for the requests in phase `asking`. In Dialog a window that a dead
broker left behind is no question any more, since nobody reads its answer; the text of the launch
that Dialog's store keeps with a grant is left out (`WithoutText`).

### Grants — what clients may expect of the broker

Three variables: the grants that stand, with the connection each belongs to; the connections whose
end the broker has seen; the ids used up. A grant is new and belongs to the connection that asked;
it goes when *somebody* gives its id back (the broker does not ask who holds it, server.rs:275-285),
when its server is deactivated by force, when its connection is over, or when the broker dies.
Broker implements it: a connection counts as over once its end has been handled, so an activation
that was under way when the client left may still be granted, and its grant goes with the rest.
Gateway sees the same broker from outside: its connections are `over` when they are lost.

### ConsentStore — `broker/consent.rs`

Every file system call is a step: stat, read, create, write, rename, stat again. Processes are the
broker, which keeps its cache, and commands, whose store is new each time; each may be killed
anywhere. Where calls fail, a `metadata` that fails reads like a file that is not there (`Stated`),
and a read that fails like an empty one. A rename moves the file that other writers still have open, and a short write over a
longer file leaves a torn one. What may be relied on is a variable that never changes, `world`:
whether writers take turns (`serial`), time stamps differ (`ticks`), calls can fail (`fail`). One
run so covers the world in which the code keeps its promises and the one in which nothing is
granted. Where `world` is reliable the store implements Question with no question open
(`KeepsAnswers`): what a reader of the file finds changes by one decision at a time, at the rename,
and by nothing else. `decided` (the last decision renamed into place), `window` and `asked` are history
variables; no action reads them.

### Dialog — `broker/prompt.rs`, `consent-ui/src/main.rs`

Broker's one step `Answer` taken apart: the question becomes an argument list (`Arguments`), a
process of its own parses it (`Parse`) and opens a window (`Content`, `Expanded`), and answers by
an exit code; the broker waits at most 180 seconds, kills the dialog, or dies and leaves it. Texts
are strings and may be spelled like flags. `approved` is a history variable: what persons approved,
as it was shown to them.

### Bootstrap — `locator-ts/broker.ts`, `broker/server.rs`, `main.rs`, `install.rs`

Clients attempt to connect, start a broker, and retry `MaxAttempts` times; a broker process looks
for, creates and labels each directory in turn, then takes the address. On Windows the first
instance of the pipe is exclusive and the next one is made when a client has taken the last; on
unix the socket file is unlinked and bound anew, two steps. Processes die at any point and any set-up
step may fail, which `flawed` records.

### Catalog and CatalogWatch — `broker/catalog.rs`, `proto/src/card.rs`, `locator-ts/`

`Catalog` has operators only: order of the tiers, expansion of variables, validation, resolution of
commands, the folding of one file after another into entries, shadowed copies and diagnostics.
`CatalogWatch` runs that fold one file system call at a time over a disk that installers change
meanwhile, driven by events, a debounce timer and the client's one thread. A scan goes by *position*
in the sorted list of roots (`Order`), since a directory may be listed twice, as `XDG_DATA_DIRS` may
do it: it is then read twice, and its cards shadow themselves. `unread` holds the positions that
changed since they were last listed, `steady` the files nobody touched since the scan began; no
guard depends on either. What installers write (`Written`) and what directories hold at first
(`Installed`) may be less than the contents there are, which only keeps the instance small. Texts
are sequences of single characters and words, so that the references in them can be parsed.
Abstracted: the length limit of a name (card.rs:157), and what makes a file of a text on Windows
(`PATHEXT` and the other separator, catalog.rs:196-216).

### Gateway — `packages/gateway/src/gateway.ts`, `locator-ts/broker.ts`

Each tool call is a small machine cut at its awaits (`connect`, `asked`, `handshake`, `notice`,
`closing`, `release`). The AI client may leave at any time (`attached`), which the gateway takes no
notice of until it has something to tell: an activation that has made its entry then fails at the
notice (gateway.ts:188) and goes through the catch meant for a failed handshake, which gives the grant
back and leaves the entry (`NoticeFails`). The notice of a deactivation comes last and undoes nothing.
When the gateway ends, an activation the broker has in hand or in its buffers is `left`: it may
still be granted, to nobody (`GrantedLate`), and the broker reads the end of the connection behind it.
That other clients use up grant ids meanwhile is left out: only that ids are new matters here. The broker is the set of grants it holds per connection. A connection that was lost is
kept for ever, as in the code (gateway.ts:114): every later call is answered with an error.
Other clients may deactivate a server by force or give back a grant that is not theirs
(`ForcedElsewhere`, `ReturnedElsewhere`). `polite`, fixed for a behaviour, says whether the AI client has two calls about one server under way.
`AliasFor` is `aliasFor`: ever more labels of the name, then the last label with a number. There is
one number more than there are names, so a free one always exists, which `AliasesCorrect` proves.

## 3. The runs

States are distinct states; every run ends within about two minutes.

| Run | Instance | Shows |
|---|---|---|
| `engine` | 2 servers, 2 clients, 3 hashes (stdio, executable, executable without endpoint), 3 grants | counts, timers and processes are straight, servers stop only unclaimed, launches are approved, Lifetime is implemented |
| `broker` | 3 connections, 1 server whose card is any of stdio, executable, none; 3 grants | `OneDialog`, `EngineKept`, `KeepsQuestion` |
| `broker_live` | 2 connections, 2 hashes, 3 grants, no symmetry | `KeepsGrants`, `EveryRequestAnswered`, `NothingLeftRunning`, `IdleEventuallyStops` |
| `consent` | broker and one command, 2 servers, 2 hashes; all reliable with 4 operations, and nothing reliable with 3; 3.4 M states | `FileHoldsDecisions`, `FreshRead`, `OnlyDecisions`, wherever a process is killed |
| `dialog` | 2 requests about 2 cards of one server, texts like flags, 2 dialogs, both platforms; 57 276 states | `ShownIsAsked`, `SwapShown`, `GrantsAreApproved`, `NoDialogLingers`, `QuestionEnds` |
| `bootstrap` | 2 clients, 2 processes, 2 attempts, both platforms; 236 512 states | `OneBrokerOnPipe`, `LabelPending`, `EveryConnectEnds` |
| `watch` | 4 roots out of tier order, one directory listed twice, 2 files, 2 contents, 2 changes; 108 807 states | `CatalogAtRest`, `SteadyCardsListed`, `ReportIsCurrent`, `ChangesRead` |
| `gateway` | 2 calls, 2 servers with clashing aliases, 3 grants, 2 connections; 555 544 states | `AliasesUnique`, `ReleasesOnlyForgotten`, `NothingDanglesIfPolite`, `EveryCallAnswered`, `NothingHeldAfterExit` |

Each also checks its module's type invariant, `broker_live` excepted, which has the state of `broker`.

Why the bounds are enough:

- three grants let a server be shared, released once and claimed again while its timer runs, or be
  held by two clients of different kinds; two servers tell an effect on one from an effect on both;
- with three connections there is a holder of the prompt lock, one that waits and one that arrives;
- two writers, two servers and three operations are one more than the shortest lost update needs;
- two dialogs let one outlive its broker while the next is asked; two cards of one server let a
  grant go stale and be asked about again;
- two clients that each start a process are the race of start-up; two attempts tell the first from
  the last; more only repeats the retry;
- two changes let one fall before and one after the read of a directory in one scan, or between
  the two reads of the directory that is listed twice; four roots give a tier with three of them,
  so that equal tiers are ordered by the list;
- of the two servers of the gateway one has the last labels of the other as its name; a third, and
  so an alias that comes down to a number, is met in an assumption of MCGateway (`AliasesOfThree`)
  that TLC evaluates, and in `AliasesCorrect`; two connections let one be replaced while a call
  still waits on the other, and three grants let a server be activated again while its old grant is
  given back.

`MaxGrants`, `MaxOps`, `MaxConnections`, `MaxDialogs`, `MaxChanges`, `MaxAttempts` and the sets of
processes are the only bounds; every other variable is finite.

Fairness, and what in the code gives it: the sleep of an idle timer ends and the reaper ticks every
five seconds (`IdleTimer`, `ReaperTick`); a task of a connection that can go on is scheduled by
tokio, and tokio's mutex is first come, first served; a dialog ends after 180 seconds at the
latest (prompt.rs:20, 109-121), which is why `Answer` and `RequestStep` are fair though no user
answers. In the gateway a suspended handler goes on (`Resumes`): connecting is a counted
number of attempts, the handshake has a time limit, and `EveryRequestAnswered` of Broker is the assumption about the reply; the broker
reads the end of a connection (`BrokerReclaims`). In start-up each process and each client that can
go on does (`ClientStep`, `ProcessStep`); the retries are counted. In the watcher events are
delivered, the timer fires and the synchronous scan runs on (`EventDelivered`, `TimerElapses`,
`ScanStep`). Clients, users, installers, servers and deaths are never assumed to happen.

### Disagreements between the code and what is said of it

With a run in which TLC finds the property violated:

1. `consent_race`: two overlapping writers lose a decision or rename a truncated file into place,
   against "a write must merge with what is on disk" (consent.rs:295). Both writers use one
   temporary name.
2. `consent_memory_only`: a grant whose write failed stays in the cache and the activation it was
   asked for goes through, against "must not be honoured in memory only" (server.rs:85).
3. `gateway_overlap`: two overlapping activations of one server leave a grant that no entry refers
   to. The comment at gateway.ts:196, "never leave a grant dangling because the MCP handshake
   failed", speaks of another way to leave one; this is the way it has no catch for. The broker
   reclaims the grant only when the gateway ends.
4. `bootstrap_unix`: two brokers that start at once both serve; the "singleton mutex"
   (server.rs:438, spec/002-broker.md:34) is not in the code.

Seen while modelling, without a run of their own:

5. A shared server that has exited is handed out as running (activation.rs:261), against
   spec/002-broker.md:84.
6. The broker does not reconcile after a restart (activation.rs:113), against
   spec/002-broker.md:122; without a job object a second process of a shared server is started.
7. The refresh before a write does *not* close the race of two writes within one tick and of one
   length (consent.rs:88-95): it compares the same identity.
8. Running `secure-dirs` again does not repair a directory that exists without its label
   (install.rs:135), against install.rs:5. `LabelPending` excepts those directories (`flawed`).
9. `expandEnv` of expand.ts replaces in two passes, `expand_env` of card.rs in one, against "must
   match" (catalog.rs:3); the model follows the Rust code.
10. A dialog outlives a broker that dies (prompt.rs:112), against prompt.rs:117. `NoDialogLingers`
    excepts those dialogs (`orphan`).
11. A notice that fails because the AI client has gone runs the catch of the handshake
    (gateway.ts:188, 195-199): the grant of an entry that stays in `#active` is released.
    `ReleasesOnlyForgotten` excepts exactly that: an activation, and no client left.
12. A read of the store that fails for a moment is cached as an empty store under the identity of a
    file that is whole (consent.rs:98-102), and the next put writes it over all decisions, against
    consent.rs:86.

Hazards without a property have their reason in `PROJECT.json`: the code does not meet them and a
finding says so (5, 6, 12), no document says what should happen, or a whole operation is one action
here. Of two hazards the limits should be known. `GrantsAreApproved` rests on `approved`, which only
grows: it tells an answer recorded for another launch, and not one recorded twice for the same. Of
overlapping writers, the reliable world of `consent` has none; what they do is in `consent_race`,
also where the second writer begins only while the first takes its last look at the file
(consent.rs:186).

## 4. The proofs

For any sets of servers, clients, processes, hashes and cards, and any bounds:

| Theorem | Says |
|---|---|
| `EngineProofs!TypeCorrect`, `RefcountCorrect`, `TimerCorrect`, `ProcsCorrect` | `Spec => []TypeOK`, `[]RefcountExact`, `[]ClaimedOrTimed`, `[]ProcsAccounted` |
| `EngineProofs!StopsCorrect`, `LaunchCorrect` | `Spec => StopsOnlyUnclaimed`, `LaunchApproved` |
| `EngineProofs!LifetimeKept`, `LifetimeProofs!ClaimedStaysUp` | `Spec => KeepsLifetime`; `LifetimeSpec => []ClaimedIsUp` |
| `BrokerProofs!BrokerKeepsEngine`, `HoldersAreLive` | `BrokerSpec => EngineKept`, `[]OnlyLiveConnectionsHold` |
| `BrokerProofs!BrokerTypeCorrect`, `DialogsCorrect`, `QuestionsCorrect` | `BrokerSpec => []BrokerTypeOK`, `[]OneDialog`, `NoRepeatedQuestion` |
| `BrokerProofs!QuestionKept`, `DialogProofs!QuestionKept` | `BrokerSpec => KeepsQuestion`; `Spec => KeepsQuestion` |
| `BrokerProofs!GrantsKept`, `GatewayProofs!GrantsKept` | `BrokerSpec => KeepsGrants`; `Spec => KeepsGrants` |
| `BrokerProofs!LeftoversCorrect`, `GatewayProofs!ReclaimCorrect` | `BrokerSpec => []LeftoversTimed`; `Spec => []ReclaimPending` |
| `BrokerProofs!BrokerKeepsPromise` | `BrokerSpec` implies what is proved of Engine: `KeepsLifetime`, `StopsOnlyUnclaimed`, `LaunchApproved`, the counts, timers and processes |
| `ConsentProofs!TypeCorrect`, `DecisionsCorrect`, `StoreCorrect`, `ReadsCorrect` | `Spec => []TypeOK`, `[]OnlyDecisions`, `[]FileHoldsDecisions`, `[]FreshRead` |
| `ConsentProofs!AnswersKept` | `Spec /\ Reliable => KeepsAnswers` |
| `DialogProofs!TypeCorrect`, `LingeringCorrect`, `ApprovalsCorrect` | `Spec => []TypeOK`, `[]NoDialogLingers`, `[]GrantsAreApproved` |
| `DialogProofs!ShownCorrect`, `SwapCorrect` | `Spec => []ShownIsAsked`, `[]SwapShown` |
| `CatalogWatchProofs!TypeCorrect`, `AtRestCorrect` | `Spec => []TypeOK`, `[]CatalogAtRest` |
| `CatalogWatchProofs!SteadyCorrect`, `ReportCorrect` | `Spec => []SteadyCardsListed`, `[]ReportIsCurrent` |
| `CatalogWatchProofs!NoneForgotten` | `Spec => []NoChangeForgotten` |
| `GatewayProofs!TypeCorrect`, `AliasesCorrect`, `DanglingCorrect`, `ReleasesCorrect` | `Spec => []TypeOK`, `[]AliasesUnique`, `[]NothingDanglesIfPolite`, `[]ReleasesOnlyForgotten` |
| `BootstrapProofs!TypeCorrect`, `OneBrokerCorrect`, `LabelCorrect` | `Spec => []TypeOK`, `[]OneBrokerOnPipe`, `[]LabelPending` |

Assumed: the ASSUMEs of the modules, which type the constants and keep `None`, `Nobody` and the
like apart from the values they are not; TLC evaluates them on every run.

The inductive invariants, and why each part is needed:

- **Engine**: `IndInv == TypeOK /\ Accounting`: the refcount of a shared entry is the number of
  endpoint grants on it, a claimed entry has a child, and a timer runs exactly when there is a
  child and no claim. The timer part alone is not inductive, as a release decides by the count
  whether to start one. Ids below `nextGrant` make the grants finite and the count well-defined
  (`ClaimsFinite`, `DropCount`). The action properties and the refinement use the same invariant:
  at a step that takes a shared child away the count is zero, hence no grant is left.
  `ProcsAccounted` is inductive relative to `TypeOK`: that ids are new gives a child one owner at
  most (`OwnedOnce`), and then whatever stops a process must retire exactly its owner
  (`StoppedWithOwners`, the one lemma behind release, disconnection, deactivation and the reaper).
- **Broker**: its steps are engine steps or leave the engine alone, so the theorems of Engine hold
  for interleaved connections. `QueueOK` says that the queue of the prompt lock lists exactly those
  who wait or ask, each once, the one who asks first. Hence at most one asks, and while somebody is
  about to, nobody does: that is what `QuestionKept` needs besides the types. A step of Question is
  then a look under the lock, an answer, a kill (the question ends without one) or a command.
  `GrantsKept` needs, besides the types, that only live connections hold (`OnlyLiveConnectionsHold`):
  Grants lets nothing be issued to a connection that is over. `LeftoversCorrect` needs no induction
  of its own: with the connections go the grants, so every process is a shared entry's
  (`ProcsAccounted`), its count is zero (`RefcountExact`) and its timer runs (`ClaimedOrTimed`).
- **ConsentStore**: `Typed`; `Attested` (every map on disk or in a cache, and every record being
  written, is one somebody set out to put) for `OnlyDecisions`; `Counted` (writes done and writes
  begun are no more than operations) for the bound of the clock in `TypeOK`. For the two promises
  of a reliable world, `Orderly`: one writer; the temporary file belongs to it and is younger than
  the file (`Younger`); what it writes is what was decided, amended by its own record (`Writes`);
  and a cache whose identity is still that of the file holds what was decided (`Knows`). The rename
  is the one step that disturbs all of it: as the new file is younger than the file ever was, no
  identity seen before can be that of the new one. `AnswersKept` follows from the same
  invariant: between two renames nothing that counts as an answer moves, and a rename amends it by
  the one record (`Writes`).
- **Dialog**: `Orderly` has the types, the lock held by whoever asks (`Locked`), and each asking
  request paired with a dialog about its own card (`Paired`); `Pressed` says that an exit code that
  allows stands for a press of that button on a window about that card. `QuestionKept` follows from
  `Orderly`: the lock makes the question the only one, and its card is kept with the task. `ShownIsAsked` rests on
  what `Parse` does to `Arguments`: flags and texts alternate but for `--stale`, so the flags are
  found at the positions where they were put (`FlagPositionsAre`, by induction on the position),
  and a text spelled like a flag is never at one. A window then shows each field of the card it is
  about. `SwapShown` holds for a launch whose old form had any text: a card with an endpoint alone
  and an empty address leaves out the line "Was" (main.rs:94), which then says nothing anyway.
- **Gateway**: `AliasesCorrect` needs that a free number exists: there are more numbers than names
  and each active server takes one alias at most (pigeonhole). `DanglingCorrect` needs `Apart` (a
  polite client has one call about a server), `Absent` (before its entry is made, an
  activation finds none of its server), `Entered` (while the AI client is told, the entry is there with
  the grant of the call), and
  `Later` with `Reaches` (connections are lost oldest first, and a grant is given back over no
  older connection than it came by), so that a release that is rejected concerns a grant that has
  gone. `ReleasesCorrect` needs `OneOwner`: a grant belongs to one active server at most, and to the
  call that got it until the entry is made; from then on the call shares it with the entry only
  while the AI client is told, or, with the client gone, on its way to give it back (`Shares`). This
  holds for impolite clients too, since an entry that is overwritten loses its grant to nobody.
  `GrantsKept` needs `HoldersThere`: connections are counted, and one that was lost holds nothing.
  `ReclaimCorrect` adds `Quiet`: after its end the gateway makes no call and has no connection open,
  though the broker may have a request of its left.
- **Bootstrap**: `OnPipe` (whoever serves on Windows has the address) and `Met` (whom a client was
  given serves or has served); `LabelPending` is inductive with the types.

- **CatalogWatch**: first the operators. Each root has a place, the places are the positions of the
  list, and the ranks go down along them (`OrderIs`, `OrderDescends`); one directory gives
  `AddFiles` of all its files, a definition without an order, whatever order they are read in
  (`AddDirectoryIs`); and what the first k directories give does not depend on the others
  (`ScanOfLocal`). `CatalogAtRest` is `After(n, ...)`, which says of the first k positions what the
  property says of all: the entry of a name is that of the first position with a valid card, the
  others are shadowed, each diagnostic comes from one position. It is then carried from positions to
  roots by the bijection `At`. The invariant of a scan under way is `Scanned`: its types, which
  depend on whether the directory was listed; `Descending` (each entry comes from a root already
  reached, so none to come ranks higher), without which a new card could find its name held by a
  lower tier; `Listing` (the steady cards of the positions read are listed), which gives
  `SteadyCardsListed` when the scan ends; and `Progress` (as long as no position read so far is
  unread again, the catalog is `ScanOf` of the disk *as it is now*, up to that position, and within
  a directory `AddFiles` of the files read). `ReportIsCurrent` is inductive with it: a change makes
  a position unread, and a report with none unread is the scan of the disk as it is.
  `NoChangeForgotten` needs no more than `Scanned`: a position that a scan passes is read, and a
  change that comes after it has passed leaves an event, which a report does not clear.

Induction on numbers is done in first-order form: the least number that is not in a set, which
`WFMin` gives (`UpTo` in CatalogWatchProofs). No theorem of the library that takes an operator
is used.

Only model-checked: the eight liveness properties, as the prover has neither fairness nor
`ENABLED`. Of some the safety half is proved, that whatever has to happen still has somebody to do
it, and fairness adds that they do: an unread change has an event, a timer or a scan under way that
can reach it (`NoChangeForgotten`, for `ChangesRead`); what still runs once every connection is over
is a shared child with a timer (`LeftoversTimed`, for `NothingLeftRunning`); what is held after the
gateway's end is held by a connection whose end is yet to be read (`ReclaimPending`, for
`NothingHeldAfterExit`); an idle child has a timer (`ClaimedOrTimed`, for `IdleEventuallyStops`);
whoever waits for the prompt lock is in its queue (`OneDialog`, for `EveryRequestAnswered`). Every invariant and action property of the passing runs is proved.

Proved and in no run: `Broker!OnlyLiveConnectionsHold`, which is part of `KeepsGrants`;
`Broker!NoRepeatedQuestion`, the part of `KeepsQuestion` that the comment at server.rs:38-42 states;
`KeepsQuestion` of Dialog, most of which the invariants of the run `dialog` cover from the inside;
`NoChangeForgotten`, `LeftoversTimed`, `KeepsAnswers` of ConsentStore, and `ReclaimPending` and
`KeepsGrants` of Gateway, which TLC finds to hold under `watch.cfg`, `broker_live.cfg`, `consent.cfg`
(with `world` reliable) and `gateway.cfg` when they are added there.

## 5. Not modelled

- `proto/src/hash.rs`, `canonical.rs`: a hash of a serialisation, character by character; in every
  module a launch hash is a value that stands for launch and endpoint.
- `proto/src/rpc.rs`: data types. `signature.rs`, `security.rs`: calls into the operating system
  that keep no state; their outcomes are choices in Dialog and Bootstrap.
- `audit.rs`: appends lines nobody reads back; that its first write creates the state directory is
  in Bootstrap. `install::machine`: run once by the installer, with no second actor.
- `locator-ts/` liveness, consent, signature, command and cli, and `list`, `status`, `dirs`,
  `verify` of the broker: read-only, one call and one answer. `consent/query` changes nothing but
  the consent cache, which ConsentStore covers.
- The wording and layout of the dialog, log lines and printing; forwarded tool calls and the notice
  that ends a deactivation, which change no state of the gateway.
- A failed write of a grant in Dialog: it is ConsentStore's.

What a continuation would take up: the inside of an engine operation that waits for a server to
stop while the lock is held (activation.rs:470), which is one action here.
