------------------------------- MODULE Broker -------------------------------
(***************************************************************************)
(* The broker's connections: broker/crates/broker/src/server.rs.           *)
(*                                                                         *)
(* Each connection is served by a task of its own, one request at a time.  *)
(* A request for activation takes several turns: it reads the card, looks  *)
(* consent up, may wait for the prompt lock and for a person's answer, and *)
(* activates; the engine lock is released in between, so the requests of   *)
(* other connections, consent commands and the reaper come in between.     *)
(*                                                                         *)
(* The engine is the one of Engine, with its variables.  Steps of Engine   *)
(* that no connection can tell (a relay opens or ends, a server exits, the *)
(* broker dies inside a spawn) are left out here.                          *)
(***************************************************************************)
EXTENDS Engine, Sequences, SequencesExt

CONSTANT PromptAvailable    \* the consent helper is installed next to the broker

ASSUME PromptAssumption == PromptAvailable \in BOOLEAN

VARIABLES
    conn,   \* conn[c]: the task that serves connection c
    peer,   \* peer[c]: the client is there; FALSE once its stream is at the end
    queue   \* prompt_lock: its holder first, then who waits, in arrival order

engineVars == <<grants, shared, procs, relay, nextGrant, consent>>
brokerVars == <<grants, shared, procs, relay, nextGrant, consent, conn, peer, queue>>

-----------------------------------------------------------------------------
(* State                                                                   *)

\* A catalog entry as find_entry reads it from the card files: any one, since
\* cards come, change and go at any time.
Entries == [name : Names, hash : Hashes, orphaned : BOOLEAN]

\* The task holds the entry from its look-up until the request is answered.
Serving(phase, e) == [phase |-> phase, entry |-> e]
Resting(phase) == [phase |-> phase]
InRequest == {"check", "queued", "asking", "activate"}
Tasks == {Resting(phase) : phase \in {"new", "idle", "closed"}}
         \cup {Serving(phase, e) : phase \in InRequest, e \in Entries}

Busy(c) == conn[c].phase \in InRequest
ShouldAsk(e) == Evaluate(e.name, e.hash) \in {"not-asked", "stale"}

Becomes(c, task) == conn' = [conn EXCEPT ![c] = task]
Unlocked == queue' = Tail(queue)

-----------------------------------------------------------------------------
(* Connections                                                             *)

Accept(c) ==
    /\ conn[c].phase = "new"
    /\ Becomes(c, Resting("idle"))
    /\ UNCHANGED <<engineVars, peer, queue>>

\* The client exits, crashes or closes its end.
HangUp(c) ==
    /\ peer[c] /\ conn[c].phase \notin {"new", "closed"}
    /\ peer' = [peer EXCEPT ![c] = FALSE]
    /\ UNCHANGED <<engineVars, conn, queue>>

\* The task sees the end of the stream only between two requests.  Then it gives
\* back whatever the connection holds.
EndConnectionWithoutRelease(c) ==
    /\ ~peer[c] /\ conn[c].phase = "idle"
    /\ Becomes(c, Resting("closed"))
    /\ UNCHANGED <<engineVars, peer, queue>>
EndConnectionForgettingChild(c) ==
    /\ ~peer[c] /\ conn[c].phase = "idle"
    /\ Retired(HeldBy(c))
    /\ shared' = Dropped(HeldBy(c))
    /\ UNCHANGED procs
    /\ Becomes(c, Resting("closed"))
    /\ UNCHANGED <<peer, queue>>
EndConnection(c) ==
    /\ ~peer[c] /\ conn[c].phase = "idle"
    /\ ReleaseConnection(c)
    /\ Becomes(c, Resting("closed"))
    /\ UNCHANGED <<peer, queue>>

-----------------------------------------------------------------------------
(* A request for activation                                                *)

\* Bound: every request in progress may still use up a grant id.
Budget == nextGrant + Cardinality({c \in Conns : Busy(c)}) <= MaxGrants

AskActivate(c, e) ==
    /\ peer[c] /\ conn[c].phase = "idle"
    /\ Budget
    /\ Becomes(c, Serving("check", e))
    /\ UNCHANGED <<engineVars, peer, queue>>

\* First look at consent: to ask, or to go on with the answer there is.
CheckConsent(c) ==
    /\ conn[c].phase = "check"
    /\ IF ShouldAsk(conn[c].entry) /\ PromptAvailable
       THEN /\ Becomes(c, Serving("queued", conn[c].entry))
            /\ queue' = Append(queue, c)
       ELSE /\ Becomes(c, Serving("activate", conn[c].entry))
            /\ UNCHANGED queue
    /\ UNCHANGED <<engineVars, peer>>

\* seek_consent with the prompt lock: consent is read again before a dialog
\* opens, since whoever held the lock may have had the answer.
ReadAgainNever(c) ==
    /\ conn[c].phase = "queued" /\ Head(queue) = c
    /\ Becomes(c, Serving("asking", conn[c].entry))
    /\ UNCHANGED queue
    /\ UNCHANGED <<engineVars, peer>>
ReadAgainKeepingLock(c) ==
    /\ conn[c].phase = "queued" /\ Head(queue) = c
    /\ Becomes(c, Serving(IF ShouldAsk(conn[c].entry) THEN "asking" ELSE "activate",
                          conn[c].entry))
    /\ UNCHANGED queue
    /\ UNCHANGED <<engineVars, peer>>
ReadAgain(c) ==
    /\ conn[c].phase = "queued" /\ Head(queue) = c
    /\ IF ShouldAsk(conn[c].entry)
       THEN Becomes(c, Serving("asking", conn[c].entry)) /\ UNCHANGED queue
       ELSE Becomes(c, Serving("activate", conn[c].entry)) /\ Unlocked
    /\ UNCHANGED <<engineVars, peer>>

\* The dialog ends: Allow, Deny, or no answer (closed, timed out, helper not
\* started, low-integrity client).  An answer that cannot be written is none;
\* ConsentStore has what becomes of it in memory.
AnswerUnlocking(c) ==
    /\ conn[c].phase = "asking"
    /\ LET e == conn[c].entry IN
       /\ \E r \in {GrantedFor(e.hash), Denied, consent[e.name]} :
            consent' = [consent EXCEPT ![e.name] = r]
       /\ Becomes(c, Serving("activate", e))
    /\ queue' = IF Len(queue) > 1 THEN Tail(queue) ELSE queue
    /\ UNCHANGED <<grants, shared, procs, relay, nextGrant, peer>>
AnswerForCurrentCard(c) ==
    /\ conn[c].phase = "asking"
    /\ LET e == conn[c].entry IN
       /\ \E r \in {GrantedFor(h) : h \in Hashes} \cup {Denied, consent[e.name]} :
            consent' = [consent EXCEPT ![e.name] = r]
       /\ Becomes(c, Serving("activate", e))
    /\ Unlocked
    /\ UNCHANGED <<grants, shared, procs, relay, nextGrant, peer>>
Answer(c) ==
    /\ conn[c].phase = "asking"
    /\ LET e == conn[c].entry IN
       /\ \E r \in {GrantedFor(e.hash), Denied, consent[e.name]} :
            consent' = [consent EXCEPT ![e.name] = r]
       /\ Becomes(c, Serving("activate", e))
    /\ Unlocked
    /\ UNCHANGED <<grants, shared, procs, relay, nextGrant, peer>>

\* The engine evaluates consent once more and activates or refuses.
Refused(e) ==
    \/ e.orphaned
    \/ ~Approved(e.name, e.hash)
    \/ LaunchOf[e.hash] = "none"

Perform(c) ==
    /\ conn[c].phase = "activate"
    /\ LET e == conn[c].entry IN
       \/ Refused(e) /\ UNCHANGED engineVars
       \/ ~e.orphaned /\ Activate(e.name, e.hash, c)
    /\ Becomes(c, Resting("idle"))
    /\ UNCHANGED <<peer, queue>>

-----------------------------------------------------------------------------
(* The other requests and the world around                                 *)

\* Any connection may name any grant, or any server, its own or not.
RequestRelease(c, i) ==
    /\ peer[c] /\ conn[c].phase = "idle"
    /\ Release(i)
    /\ UNCHANGED <<conn, peer, queue>>

RequestDeactivate(c, n, force) ==
    /\ peer[c] /\ conn[c].phase = "idle"
    /\ Deactivate(n, force)
    /\ UNCHANGED <<conn, peer, queue>>

IdleTimer(n) == TimerElapses(n) /\ UNCHANGED <<conn, peer, queue>>
ReaperTick == ReapIdle /\ UNCHANGED <<conn, peer, queue>>
ConsentCommand(n, r) == ConsentChanges(n, r) /\ UNCHANGED <<conn, peer, queue>>

\* Every stream breaks when the broker process is killed, and the requests in
\* progress and the prompt lock are gone with it.
BrokerKilled ==
    /\ BrokerDies
    /\ conn' = [c \in Conns |->
                    IF conn[c].phase = "new" THEN conn[c] ELSE Resting("closed")]
    /\ queue' = <<>>
    /\ UNCHANGED peer

-----------------------------------------------------------------------------
(* Specification                                                           *)

BrokerInit ==
    /\ Init
    /\ conn = [c \in Conns |-> Resting("new")]
    /\ peer = [c \in Conns |-> TRUE]
    /\ queue = <<>>

BrokerNext ==
    \/ \E c \in Conns :
         \/ Accept(c) \/ HangUp(c) \/ EndConnection(c)
         \/ \E e \in Entries : AskActivate(c, e)
         \/ CheckConsent(c) \/ ReadAgain(c) \/ Answer(c) \/ Perform(c)
         \/ \E i \in GrantIds : RequestRelease(c, i)
         \/ \E n \in Names, force \in BOOLEAN : RequestDeactivate(c, n, force)
    \/ \E n \in Names : IdleTimer(n)
    \/ ReaperTick
    \/ \E n \in Names, r \in ConsentRecords : ConsentCommand(n, r)
    \/ BrokerKilled

BrokerSpec == BrokerInit /\ [][BrokerNext]_brokerVars

\* A task that can go on does; a dialog ends after its 180 seconds at the latest;
\* sleeps run out and the reaper ticks.
FairBrokerSpec ==
    /\ BrokerSpec
    /\ \A c \in Conns :
         /\ WF_brokerVars(CheckConsent(c))
         /\ WF_brokerVars(ReadAgain(c))
         /\ WF_brokerVars(Answer(c))
         /\ WF_brokerVars(Perform(c))
         /\ WF_brokerVars(EndConnection(c))
    /\ \A n \in Names : WF_brokerVars(IdleTimer(n))
    /\ WF_brokerVars(ReaperTick)

-----------------------------------------------------------------------------
(* Properties                                                              *)

\* The tasks and the prompt lock stay within their types (server.rs:35-43, 321-367).
BrokerTypeOK ==
    /\ TypeOK
    /\ conn \in [Conns -> Tasks]
    /\ peer \in [Conns -> BOOLEAN]
    /\ queue \in Seq(Conns)

\* "One prompt at a time": whoever waits for the lock or shows a dialog is in
\* the queue exactly once, nobody else is, and a dialog belongs to the holder
\* (server.rs:38-42, 57-70).
OneDialog ==
    /\ IsInjective(queue)
    /\ ToSet(queue) = {c \in Conns : conn[c].phase \in {"queued", "asking"}}
    /\ \A c \in Conns : conn[c].phase = "asking" => Head(queue) = c

\* "Two clients activating the same server produce one question": no dialog
\* opens for a card whose question has its answer by then (server.rs:60-68).
NoRepeatedQuestion ==
    [][\A c \in Conns :
         (conn[c].phase # "asking" /\ conn'[c].phase = "asking")
            => Evaluate(conn'[c].entry.name, conn'[c].entry.hash) \notin {"granted", "denied"}
      ]_brokerVars

\* A connection that is over holds no grant, though its client may have left
\* while the activation was waiting for a dialog (server.rs:358-365).
OnlyLiveConnectionsHold ==
    \A c \in Conns : conn[c].phase \in {"new", "closed"} => HeldBy(c) = {}

\* Whatever the connections do is something Engine does (server.rs:129-309), so
\* all that holds of the engine holds of the broker.
EngineKept == Spec

\* Connections that come and go, queue and are cut off ask one question at a time,
\* and the answer is recorded for the launch that was asked about, though the card
\* may have changed by then (server.rs:38-42, 57-109): Question is implemented.
QuestionOf(c) == [by |-> c, name |-> conn[c].entry.name, hash |-> conn[c].entry.hash]
Asked == INSTANCE Question WITH
    Askers <- Conns,
    open <- {QuestionOf(c) : c \in {d \in Conns : conn[d].phase = "asking"}},
    answers <- consent
KeepsQuestion == Asked!QuestionSpec

\* Whatever requests, disconnections and deaths interleave, a grant is new, goes to a
\* connection that is there, and goes away for one of the reasons Grants has
\* (server.rs:129-309, 358-365).
Standing == {[id |-> i, name |-> grants[i].name, conn |-> grants[i].conn] : i \in DOMAIN grants}
Ended == {c \in Conns : conn[c].phase = "closed"}
Contract == INSTANCE Grants WITH
    Holders <- Conns,
    Ids <- GrantIds,
    claims <- Standing,
    over <- Ended,
    issued <- 1..(nextGrant - 1)
KeepsGrants == Contract!GrantsSpec

\* Every request is answered, unless the broker dies: nobody waits for the
\* prompt lock forever (server.rs:57-109, 259-263; prompt.rs:109-121).
EveryRequestAnswered == \A c \in Conns : Busy(c) ~> ~Busy(c)

\* Once every connection is over, whatever still runs of the broker's own has a timer
\* that will stop it: nothing is left that only a client could stop (server.rs:358-379).
Deserted == \A c \in Conns : conn[c].phase = "closed"
LeftoversTimed ==
    Deserted => \A i \in DOMAIN procs :
        procs[i].orphan \/ \E n \in Names : shared[n].child = i /\ shared[n].timer # "none"

\* "A crashed client must not leave its servers running": once all clients are
\* gone, every process the broker started is stopped (server.rs:358-379).
AllGone == \A c \in Conns : conn[c].phase # "new" /\ ~peer[c]
NothingLeftRunning == AllGone ~> \A i \in DOMAIN procs : procs[i].orphan
=============================================================================
