---------------------------- MODULE BrokerProofs ----------------------------
(***************************************************************************)
(* The broker is a client of the engine and nothing else: every step of    *)
(* Broker is a step of Engine or leaves the engine alone, so the theorems  *)
(* of EngineProofs hold for the broker as a whole.                         *)
(***************************************************************************)
EXTENDS Broker, EngineProofs

\* The part of the type invariant that the argument needs.
TasksOK == conn \in [Conns -> Tasks]

LEMMA BusyEntry ==
    ASSUME TasksOK, NEW c \in Conns, Busy(c)
    PROVE  conn[c].entry \in Entries
  BY DEF TasksOK, Tasks, Busy, Resting, Serving, InRequest

\* A task takes up an entry with its request and holds on to it.
LEMMA TasksStep == TasksOK /\ [BrokerNext]_brokerVars => TasksOK'
<1> SUFFICES ASSUME TasksOK, [BrokerNext]_brokerVars
             PROVE  TasksOK'
  OBVIOUS
<1>1. ASSUME NEW c \in Conns, NEW task \in Tasks, Becomes(c, task)
      PROVE  TasksOK'
  BY <1>1 DEF TasksOK, Becomes
<1>2. Resting("idle") \in Tasks /\ Resting("closed") \in Tasks
  BY DEF Tasks
<1>3. \A phase \in InRequest, e \in Entries : Serving(phase, e) \in Tasks
  BY DEF Tasks
<1>4. \A c \in Conns : conn[c].phase \in InRequest => conn[c].entry \in Entries
  BY BusyEntry DEF Busy
<1>5. ASSUME NEW c \in Conns, Accept(c) \/ EndConnection(c) \/ Perform(c)
      PROVE  TasksOK'
  BY <1>1, <1>2, <1>5 DEF Accept, EndConnection, Perform
<1>6. ASSUME NEW c \in Conns, NEW e \in Entries, AskActivate(c, e)
      PROVE  TasksOK'
  BY <1>1, <1>3, <1>6 DEF AskActivate, InRequest
<1>7. ASSUME NEW c \in Conns, CheckConsent(c)
      PROVE  TasksOK'
  BY <1>1, <1>3, <1>4, <1>7 DEF CheckConsent, InRequest
<1>8. ASSUME NEW c \in Conns, ReadAgain(c)
      PROVE  TasksOK'
  BY <1>1, <1>3, <1>4, <1>8 DEF ReadAgain, InRequest
<1>9. ASSUME NEW c \in Conns, Answer(c)
      PROVE  TasksOK'
  BY <1>1, <1>3, <1>4, <1>9 DEF Answer, InRequest
<1>10. CASE BrokerKilled
  BY <1>2, <1>10 DEF BrokerKilled, TasksOK
<1>11. CASE UNCHANGED conn
  BY <1>11 DEF TasksOK
<1> QED
  BY <1>5, <1>6, <1>7, <1>8, <1>9, <1>10, <1>11
     DEF BrokerNext, brokerVars, HangUp, RequestRelease, RequestDeactivate,
         IdleTimer, ReaperTick, ConsentCommand

\* An answer changes one record of the consent store or none.
LEMMA AnswerIsEngineStep ==
    ASSUME TypeOK, TasksOK, NEW c \in Conns, Answer(c)
    PROVE  [Next]_vars
<1> DEFINE e == conn[c].entry
<1>1. e \in Entries
  BY BusyEntry DEF Answer, Busy, InRequest
<1>2. PICK r \in {GrantedFor(e.hash), Denied, consent[e.name]} :
        consent' = [consent EXCEPT ![e.name] = r]
  BY DEF Answer
<1>3. e.name \in Names /\ e.hash \in Hashes
  BY <1>1 DEF Entries
<1>4. CASE r = consent[e.name]
  <2>1. consent' = consent
    BY <1>2, <1>4 DEF TypeOK
  <2> QED
    BY <2>1 DEF Answer, vars
<1>5. CASE r # consent[e.name]
  <2>1. r \in ConsentRecords
    BY <1>2, <1>3, <1>5 DEF ConsentRecords
  <2>2. ConsentChanges(e.name, r)
    BY <1>2, <1>5 DEF Answer, ConsentChanges
  <2> QED
    BY <1>3, <2>1, <2>2 DEF Next, Environment
<1> QED
  BY <1>4, <1>5

LEMMA PerformIsEngineStep ==
    ASSUME TasksOK, NEW c \in Conns, Perform(c)
    PROVE  [Next]_vars
<1>1. conn[c].entry \in Entries
  BY BusyEntry DEF Perform, Busy, InRequest
<1> QED
  BY <1>1 DEF Perform, Entries, Next, Requests, vars, engineVars

LEMMA BrokerStep == TypeOK /\ TasksOK /\ [BrokerNext]_brokerVars => [Next]_vars
<1> SUFFICES ASSUME TypeOK, TasksOK, [BrokerNext]_brokerVars
             PROVE  [Next]_vars
  OBVIOUS
<1>1. ASSUME NEW c \in Conns,
             \/ Accept(c) \/ HangUp(c) \/ CheckConsent(c) \/ ReadAgain(c)
             \/ \E e \in Entries : AskActivate(c, e)
      PROVE  UNCHANGED vars
  BY <1>1 DEF Accept, HangUp, CheckConsent, ReadAgain, AskActivate, vars, engineVars
<1>2. ASSUME NEW c \in Conns, EndConnection(c)
      PROVE  Next
  BY <1>2 DEF EndConnection, Next, Requests
<1>3. ASSUME NEW c \in Conns, NEW i \in GrantIds, RequestRelease(c, i)
      PROVE  Next
  BY <1>3 DEF RequestRelease, Next, Requests
<1>4. ASSUME NEW c \in Conns, NEW n \in Names, NEW force \in BOOLEAN,
             RequestDeactivate(c, n, force)
      PROVE  Next
  BY <1>4 DEF RequestDeactivate, Next, Requests
<1>5. ASSUME NEW n \in Names, IdleTimer(n)
      PROVE  Next
  BY <1>5 DEF IdleTimer, Next, Environment
<1>6. CASE ReaperTick
  BY <1>6 DEF ReaperTick, Next
<1>7. ASSUME NEW n \in Names, NEW r \in ConsentRecords, ConsentCommand(n, r)
      PROVE  Next
  BY <1>7 DEF ConsentCommand, Next, Environment
<1>8. CASE BrokerKilled
  BY <1>8 DEF BrokerKilled, Next, Environment
<1>9. CASE UNCHANGED brokerVars
  BY <1>9 DEF brokerVars, vars
<1> QED
  BY <1>1, <1>2, <1>3, <1>4, <1>5, <1>6, <1>7, <1>8, <1>9,
     AnswerIsEngineStep, PerformIsEngineStep DEF BrokerNext

LEMMA TypesAlwaysOK == BrokerSpec => [](TypeOK /\ TasksOK)
<1>1. BrokerInit => TypeOK /\ TasksOK
  BY InitType DEF BrokerInit, TasksOK, Tasks
<1>2. TypeOK /\ TasksOK /\ [BrokerNext]_brokerVars => (TypeOK /\ TasksOK)'
  BY TasksStep, BrokerStep, NextType
<1> QED
  BY <1>1, <1>2, PTL DEF BrokerSpec

\* Interleaved requests, dialogs and hang-ups do to the engine nothing that
\* Engine does not allow (server.rs:129-309).
THEOREM BrokerKeepsEngine == BrokerSpec => EngineKept
<1>1. BrokerInit => Init
  BY DEF BrokerInit
<1> QED
  BY <1>1, TypesAlwaysOK, BrokerStep, PTL DEF BrokerSpec, EngineKept, Spec

-----------------------------------------------------------------------------
(* A connection that is over holds nothing                                 *)

\* Steps other than an activation only take grants away.
LEMMA HeldShrinks ==
    ASSUME NEW S, grants' = Without(grants, S), NEW c \in Conns
    PROVE  HeldBy(c)' \subseteq HeldBy(c) \ S
  BY DEF HeldBy, Without

\* An activation adds a grant of the connection it is for.
LEMMA HeldAfterPerform ==
    ASSUME NEW c \in Conns, Perform(c), NEW d \in Conns \ {c}
    PROVE  HeldBy(d)' \subseteq HeldBy(d)
<1>1. \/ UNCHANGED grants
      \/ \E n, kind : grants' = Granted(n, c, kind)
  BY DEF Perform, engineVars, Activate, StartStdio, AttachShared, ActivationFails
<1>2. ASSUME NEW n, NEW kind, grants' = Granted(n, c, kind)
      PROVE  HeldBy(d)' \subseteq HeldBy(d)
  BY <1>2 DEF Granted, With, HeldBy
<1> QED
  BY <1>1, <1>2 DEF HeldBy

LEMMA HoldersStep ==
    TasksOK /\ OnlyLiveConnectionsHold /\ [BrokerNext]_brokerVars
        => OnlyLiveConnectionsHold'
<1> SUFFICES ASSUME TasksOK, OnlyLiveConnectionsHold, [BrokerNext]_brokerVars,
                    NEW d \in Conns, conn'[d].phase \in {"new", "closed"}
             PROVE  HeldBy(d)' = {}
  BY DEF OnlyLiveConnectionsHold
<1> DEFINE Over(c) == conn[c].phase \in {"new", "closed"}
<1>1. Over(d) => HeldBy(d) = {}
  BY DEF OnlyLiveConnectionsHold
<1>2. ASSUME NEW c \in Conns, NEW phase, NEW e,
             Becomes(c, Resting("idle")) \/ (phase \in InRequest /\ Becomes(c, Serving(phase, e)))
      PROVE  d # c /\ Over(d)
  BY <1>2 DEF TasksOK, Becomes, Resting, Serving, InRequest
<1>3. ASSUME UNCHANGED grants, Over(d)
      PROVE  HeldBy(d)' = {}
  BY <1>1, <1>3 DEF HeldBy
<1>4. ASSUME NEW S, grants' = Without(grants, S), Over(d) \/ HeldBy(d) \subseteq S
      PROVE  HeldBy(d)' = {}
  BY <1>1, <1>4, HeldShrinks
<1>5. ASSUME NEW c \in Conns, EndConnection(c)
      PROVE  HeldBy(d)' = {}
  <2>1. grants' = Without(grants, HeldBy(c))
    BY <1>5 DEF EndConnection, ReleaseConnection, Retired
  <2>2. d = c \/ Over(d)
    BY <1>5 DEF EndConnection, Becomes, TasksOK
  <2> QED
    BY <1>4, <2>1, <2>2
<1>6. ASSUME NEW c \in Conns, Perform(c)
      PROVE  HeldBy(d)' = {}
  BY <1>1, <1>2, <1>6, HeldAfterPerform DEF Perform
<1>7. ASSUME NEW c \in Conns,
             \/ Accept(c) \/ HangUp(c) \/ CheckConsent(c) \/ ReadAgain(c) \/ Answer(c)
             \/ \E e \in Entries : AskActivate(c, e)
      PROVE  HeldBy(d)' = {}
  <2>1. UNCHANGED grants
    BY <1>7 DEF Accept, HangUp, CheckConsent, ReadAgain, Answer, AskActivate, engineVars
  <2>2. Over(d)
    BY <1>2, <1>7 DEF Accept, HangUp, CheckConsent, ReadAgain, Answer, AskActivate, InRequest
  <2> QED
    BY <1>3, <2>1, <2>2
<1>8. ASSUME NEW c \in Conns,
             \/ \E i \in GrantIds : RequestRelease(c, i)
             \/ \E n \in Names, force \in BOOLEAN : RequestDeactivate(c, n, force)
      PROVE  HeldBy(d)' = {}
  BY <1>4, <1>8 DEF RequestRelease, Release, RequestDeactivate, Deactivate, Retired
<1>9. CASE UNCHANGED <<grants, conn>>
  BY <1>3, <1>9
<1>10. CASE BrokerKilled
  BY <1>10 DEF BrokerKilled, BrokerDies, BrokerRestarts, EmptyMap, HeldBy
<1> QED
  BY <1>5, <1>6, <1>7, <1>8, <1>9, <1>10
     DEF BrokerNext, brokerVars, IdleTimer, TimerElapses, ReaperTick, ReapIdle,
         ConsentCommand, ConsentChanges

\* A client that leaves in the middle of its own activation leaves no grant
\* behind: the release at the end of its connection runs after the activation
\* has come to its end (server.rs:333-365).
THEOREM HoldersAreLive == BrokerSpec => []OnlyLiveConnectionsHold
<1>1. BrokerInit => OnlyLiveConnectionsHold
  BY DEF BrokerInit, Init, EmptyMap, OnlyLiveConnectionsHold, HeldBy
<1> QED
  BY <1>1, TypesAlwaysOK, HoldersStep, PTL DEF BrokerSpec

-----------------------------------------------------------------------------
(* One dialog at a time                                                    *)

LEMMA TailOf ==
    ASSUME NEW q \in Seq(Conns), q # <<>>, IsInjective(q)
    PROVE  /\ Tail(q) \in Seq(Conns) /\ IsInjective(Tail(q))
           /\ ToSet(Tail(q)) = ToSet(q) \ {Head(q)}
<1>1. /\ Len(q) \in Nat /\ Len(q) >= 1 /\ DOMAIN q = 1..Len(q) /\ Head(q) = q[1]
      /\ Tail(q) \in Seq(Conns) /\ Len(Tail(q)) = Len(q) - 1
      /\ DOMAIN Tail(q) = 1..(Len(q) - 1)
  OBVIOUS
<1>2. \A i \in 1..(Len(q) - 1) : Tail(q)[i] = q[i + 1]
  BY <1>1
<1>3. IsInjective(Tail(q))
  BY <1>1, <1>2 DEF IsInjective
<1>4. ASSUME NEW x \in ToSet(Tail(q))
      PROVE  x \in ToSet(q) \ {Head(q)}
  BY <1>1, <1>2, <1>4 DEF ToSet, IsInjective
<1>5. ASSUME NEW x \in ToSet(q), x # Head(q)
      PROVE  x \in ToSet(Tail(q))
  <2>1. PICK i \in 1..Len(q) : q[i] = x
    BY <1>1, <1>5 DEF ToSet
  <2>2. i - 1 \in 1..(Len(q) - 1) /\ (i - 1) + 1 = i
    BY <1>1, <1>5, <2>1
  <2>3. Tail(q)[i - 1] = x
    BY <1>2, <2>1, <2>2
  <2> QED
    BY <1>1, <2>2, <2>3 DEF ToSet
<1> QED
  BY <1>1, <1>3, <1>4, <1>5

LEMMA AppendTo ==
    ASSUME NEW q \in Seq(Conns), IsInjective(q), NEW c \in Conns, c \notin ToSet(q)
    PROVE  /\ Append(q, c) \in Seq(Conns) /\ IsInjective(Append(q, c))
           /\ ToSet(Append(q, c)) = ToSet(q) \cup {c}
           /\ q # <<>> => Head(Append(q, c)) = Head(q)
<1>1. /\ Len(q) \in Nat /\ DOMAIN q = 1..Len(q)
      /\ Append(q, c) \in Seq(Conns) /\ DOMAIN Append(q, c) = 1..(Len(q) + 1)
      /\ Append(q, c)[Len(q) + 1] = c
      /\ \A i \in 1..Len(q) : Append(q, c)[i] = q[i]
  OBVIOUS
<1>2. IsInjective(Append(q, c))
  BY <1>1 DEF IsInjective, ToSet
<1>3. ToSet(Append(q, c)) = ToSet(q) \cup {c}
  BY <1>1 DEF ToSet
<1>4. q # <<>> => Head(Append(q, c)) = Head(q)
  OBVIOUS
<1> QED
  BY <1>1, <1>2, <1>3, <1>4

Waiters == {c \in Conns : conn[c].phase \in {"queued", "asking"}}
QueueOK == queue \in Seq(Conns) /\ OneDialog

\* A task that neither waits for the lock nor comes to do so leaves the queue.
LEMMA QueueStays ==
    ASSUME TasksOK, QueueOK, NEW c \in Conns, NEW task, Becomes(c, task), UNCHANGED queue,
           conn[c].phase \notin {"queued", "asking"}, task.phase \notin {"queued", "asking"}
    PROVE  QueueOK'
  BY DEF QueueOK, OneDialog, TasksOK, Becomes

\* The holder of the lock passes it on.
LEMMA QueueMoves ==
    ASSUME TasksOK, QueueOK, NEW c \in Conns, NEW task, Becomes(c, task), Unlocked,
           conn[c].phase \in {"queued", "asking"}, Head(queue) = c,
           task.phase \notin {"queued", "asking"}
    PROVE  QueueOK'
<1>1. queue \in Seq(Conns) /\ IsInjective(queue) /\ ToSet(queue) = Waiters
  BY DEF QueueOK, OneDialog, Waiters
<1>2. c \in Waiters
  BY DEF Waiters
<1>3. queue # <<>>
  BY <1>1, <1>2 DEF ToSet
<1>4. /\ queue' \in Seq(Conns) /\ IsInjective(queue')
      /\ ToSet(queue') = Waiters \ {c}
  BY <1>1, <1>3, TailOf DEF Unlocked
<1>5. conn' = [conn EXCEPT ![c] = task] /\ DOMAIN conn = Conns
  BY DEF Becomes, TasksOK
<1>6. \A d \in Conns : conn'[d].phase \in {"queued", "asking"}
                        <=> (d # c /\ conn[d].phase \in {"queued", "asking"})
  BY <1>5
<1>7. \A d \in Conns : conn'[d].phase # "asking"
  BY <1>5 DEF QueueOK, OneDialog
<1> QED
  BY <1>4, <1>6, <1>7 DEF QueueOK, OneDialog, Waiters

LEMMA QueueStep ==
    ASSUME TasksOK, QueueOK, [BrokerNext]_brokerVars
    PROVE  QueueOK'
<1>1. ASSUME NEW c \in Conns, NEW e,
             Accept(c) \/ EndConnection(c) \/ AskActivate(c, e) \/ Perform(c)
      PROVE  QueueOK'
  <2>1. PICK task : Becomes(c, task) /\ task.phase \in {"idle", "closed", "check"}
    BY <1>1 DEF Accept, EndConnection, AskActivate, Perform, Resting, Serving
  <2>2. conn[c].phase \in {"new", "idle", "activate"} /\ UNCHANGED queue
    BY <1>1 DEF Accept, EndConnection, AskActivate, Perform
  <2> QED
    BY <2>1, <2>2, QueueStays
<1>2. ASSUME NEW c \in Conns, CheckConsent(c)
      PROVE  QueueOK'
  <2>1. CASE ShouldAsk(conn[c].entry) /\ PromptAvailable
    <3>1. /\ conn' = [conn EXCEPT ![c] = Serving("queued", conn[c].entry)]
          /\ queue' = Append(queue, c) /\ conn[c].phase = "check"
      BY <1>2, <2>1 DEF CheckConsent, Becomes
    <3>2. \A d \in Conns : conn'[d] = IF d = c THEN Serving("queued", conn[c].entry) ELSE conn[d]
      BY <3>1 DEF TasksOK
    <3>3. /\ queue \in Seq(Conns) /\ IsInjective(queue) /\ ToSet(queue) = Waiters
          /\ \A d \in Conns : conn[d].phase = "asking" => d \in Waiters /\ Head(queue) = d
      BY DEF QueueOK, OneDialog, Waiters
    <3>4. c \notin Waiters
      BY <3>1 DEF Waiters
    <3>5. /\ queue' \in Seq(Conns) /\ IsInjective(queue')
          /\ ToSet(queue') = Waiters \cup {c}
          /\ queue # <<>> => Head(queue') = Head(queue)
      BY <3>1, <3>3, <3>4, AppendTo
    <3>6. Waiters # {} => queue # <<>>
      BY <3>3 DEF ToSet
    <3>7. \A d \in Conns : conn'[d].phase = "asking" => Head(queue') = d
      BY <3>2, <3>3, <3>5, <3>6 DEF Serving
    <3>8. {d \in Conns : conn'[d].phase \in {"queued", "asking"}} = Waiters \cup {c}
      BY <3>2 DEF Waiters, Serving
    <3> QED
      BY <3>5, <3>7, <3>8 DEF QueueOK, OneDialog
  <2>2. CASE ~(ShouldAsk(conn[c].entry) /\ PromptAvailable)
    BY <1>2, <2>2, QueueStays DEF CheckConsent, Serving
  <2> QED
    BY <2>1, <2>2
<1>3. ASSUME NEW c \in Conns, ReadAgain(c)
      PROVE  QueueOK'
  <2>1. CASE ShouldAsk(conn[c].entry)
    <3>1. /\ conn' = [conn EXCEPT ![c] = Serving("asking", conn[c].entry)]
          /\ UNCHANGED queue /\ conn[c].phase = "queued" /\ Head(queue) = c
      BY <1>3, <2>1 DEF ReadAgain, Becomes
    <3>2. \A d \in Conns : conn'[d] = IF d = c THEN Serving("asking", conn[c].entry) ELSE conn[d]
      BY <3>1 DEF TasksOK
    <3> QED
      BY <3>1, <3>2 DEF QueueOK, OneDialog, Serving
  <2>2. CASE ~ShouldAsk(conn[c].entry)
    BY <1>3, <2>2, QueueMoves DEF ReadAgain, Serving
  <2> QED
    BY <2>1, <2>2
<1>4. ASSUME NEW c \in Conns, Answer(c)
      PROVE  QueueOK'
  <2>1. conn[c].phase = "asking" /\ Head(queue) = c
    BY <1>4 DEF Answer, QueueOK, OneDialog
  <2> QED
    BY <1>4, <2>1, QueueMoves DEF Answer, Serving
<1>5. CASE UNCHANGED <<conn, queue>>
  BY <1>5 DEF QueueOK, OneDialog
<1>6. CASE BrokerKilled
  <2>1. \A c \in Conns : conn'[c].phase \notin {"queued", "asking"}
    BY <1>6 DEF BrokerKilled, Resting
  <2>2. queue' = <<>>
    BY <1>6 DEF BrokerKilled
  <2>3. <<>> \in Seq(Conns) /\ IsInjective(<<>>) /\ ToSet(<<>>) = {}
    BY DEF IsInjective, ToSet
  <2> QED
    BY <2>1, <2>2, <2>3 DEF QueueOK, OneDialog
<1> QED
  BY <1>1, <1>2, <1>3, <1>4, <1>5, <1>6
     DEF BrokerNext, brokerVars, HangUp, RequestRelease, RequestDeactivate, IdleTimer,
         ReaperTick, ConsentCommand

LEMMA QueueAlwaysOK == BrokerSpec => []QueueOK
<1>1. BrokerInit => QueueOK
  <2>1. <<>> \in Seq(Conns) /\ IsInjective(<<>>) /\ ToSet(<<>>) = {}
    BY DEF IsInjective, ToSet
  <2> QED
    BY <2>1 DEF BrokerInit, QueueOK, OneDialog, Resting
<1> QED
  BY <1>1, TypesAlwaysOK, QueueStep, PTL DEF BrokerSpec

\* Whoever waits for the prompt lock or shows a dialog is in its queue exactly
\* once, and a dialog belongs to the holder (server.rs:57-70).
THEOREM DialogsCorrect == BrokerSpec => []OneDialog
<1>1. QueueOK => OneDialog
  BY DEF QueueOK
<1> QED
  BY <1>1, QueueAlwaysOK, PTL

\* The tasks and the prompt lock stay within their types (server.rs:35-43, 321-367).
THEOREM BrokerTypeCorrect == BrokerSpec => []BrokerTypeOK
<1> DEFINE Peers == peer \in [Conns -> BOOLEAN]
<1>1. BrokerInit => Peers
  BY DEF BrokerInit
<1>2. Peers /\ [BrokerNext]_brokerVars => Peers'
  BY DEF BrokerNext, brokerVars, Accept, HangUp, EndConnection, AskActivate, CheckConsent,
         ReadAgain, Answer, Perform, RequestRelease, RequestDeactivate, IdleTimer,
         ReaperTick, ConsentCommand, BrokerKilled
<1>3. TypeOK /\ TasksOK /\ QueueOK /\ Peers => BrokerTypeOK
  BY DEF TasksOK, QueueOK, BrokerTypeOK
<1> QED
  BY <1>1, <1>2, <1>3, TypesAlwaysOK, QueueAlwaysOK, PTL DEF BrokerSpec

\* No dialog opens for a card whose question has its answer by then
\* (server.rs:60-68).
THEOREM QuestionsCorrect == BrokerSpec => NoRepeatedQuestion
<1> DEFINE Repeats == \E c \in Conns :
                        /\ conn[c].phase # "asking" /\ conn'[c].phase = "asking"
                        /\ Evaluate(conn'[c].entry.name, conn'[c].entry.hash)
                              \in {"granted", "denied"}
<1>1. TasksOK /\ [BrokerNext]_brokerVars => ~Repeats
  <2> SUFFICES ASSUME TasksOK, [BrokerNext]_brokerVars, NEW d \in Conns,
                      conn[d].phase # "asking", conn'[d].phase = "asking"
               PROVE  Evaluate(conn'[d].entry.name, conn'[d].entry.hash) \in {"not-asked", "stale"}
    OBVIOUS
  <2>1. ASSUME NEW c \in Conns, NEW task, Becomes(c, task), task.phase # "asking"
        PROVE  FALSE
    BY <2>1 DEF Becomes, TasksOK
  <2>2. ASSUME NEW c \in Conns, NEW e,
               \/ Accept(c) \/ EndConnection(c) \/ AskActivate(c, e) \/ CheckConsent(c)
               \/ Answer(c) \/ Perform(c)
        PROVE  FALSE
    <3>1. PICK task : Becomes(c, task) /\ task.phase # "asking"
      BY <2>2 DEF Accept, EndConnection, AskActivate, CheckConsent, Answer, Perform,
                  Resting, Serving
    <3> QED
      BY <2>1, <3>1
  <2>3. ASSUME NEW c \in Conns, ReadAgain(c)
        PROVE  Evaluate(conn'[d].entry.name, conn'[d].entry.hash) \in {"not-asked", "stale"}
    <3>1. CASE ShouldAsk(conn[c].entry)
      <4>1. Becomes(c, Serving("asking", conn[c].entry))
        BY <2>3, <3>1 DEF ReadAgain
      <4>2. d = c /\ conn'[d].entry = conn[c].entry
        BY <4>1 DEF Becomes, TasksOK, Serving
      <4> QED
        BY <3>1, <4>2 DEF ShouldAsk
    <3>2. CASE ~ShouldAsk(conn[c].entry)
      <4>1. Becomes(c, Serving("activate", conn[c].entry))
        BY <2>3, <3>2 DEF ReadAgain
      <4>2. Serving("activate", conn[c].entry).phase # "asking"
        BY DEF Serving
      <4> QED
        BY <2>1, <4>1, <4>2
    <3> QED
      BY <3>1, <3>2
  <2>4. ~UNCHANGED conn
    OBVIOUS
  <2>5. ~BrokerKilled
    BY DEF BrokerKilled, Resting
  <2> QED
    BY <2>2, <2>3, <2>4, <2>5
       DEF BrokerNext, brokerVars, HangUp, RequestRelease, RequestDeactivate, IdleTimer,
           ReaperTick, ConsentCommand
<1>2. TasksOK /\ [BrokerNext]_brokerVars =>
        [\A c \in Conns :
           (conn[c].phase # "asking" /\ conn'[c].phase = "asking")
              => Evaluate(conn'[c].entry.name, conn'[c].entry.hash) \notin {"granted", "denied"}
        ]_brokerVars
  BY <1>1
<1> QED
  BY <1>2, TypesAlwaysOK, PTL DEF BrokerSpec, NoRepeatedQuestion

-----------------------------------------------------------------------------
(* The abstract question                                                   *)

AskingNow == {c \in Conns : conn[c].phase = "asking"}
Opened == {QuestionOf(c) : c \in AskingNow}

\* A task comes or goes without a dialog.
LEMMA OpenedStays ==
    ASSUME TasksOK, NEW c \in Conns, NEW task, Becomes(c, task),
           conn[c].phase # "asking", task.phase # "asking"
    PROVE  Opened' = Opened
<1>1. \A d \in Conns : conn'[d] = IF d = c THEN task ELSE conn[d]
  BY DEF TasksOK, Becomes
<1>2. AskingNow' = AskingNow
  BY <1>1 DEF AskingNow
<1>3. \A d \in AskingNow : conn'[d] = conn[d]
  BY <1>1 DEF AskingNow
<1> QED
  BY <1>2, <1>3 DEF Opened, QuestionOf

\* There is one question at a time.
LEMMA OneOpened ==
    ASSUME QueueOK, NEW c \in AskingNow
    PROVE  Opened = {QuestionOf(c)}
<1>1. AskingNow = {c}
  BY DEF QueueOK, OneDialog, AskingNow
<1> QED
  BY <1>1 DEF Opened

LEMMA AskedOf ==
    ASSUME TasksOK, NEW c \in Conns, Busy(c)
    PROVE  /\ QuestionOf(c) \in Asked!Questions
           /\ QuestionOf(c).name = conn[c].entry.name
           /\ QuestionOf(c).hash = conn[c].entry.hash
           /\ conn[c].entry.name \in Names /\ conn[c].entry.hash \in Hashes
  BY BusyEntry DEF QuestionOf, Asked!Questions, Entries

\* Consent is read again under the lock, and only then a dialog opens.
LEMMA ReadAgainAsks ==
    ASSUME TypeOK, TasksOK, QueueOK, NEW c \in Conns, ReadAgain(c),
           ShouldAsk(conn[c].entry)
    PROVE  \E q \in Asked!Questions : Asked!Ask(q)
<1>0. PICK q : q = QuestionOf(c)
  OBVIOUS
<1>1. /\ conn[c].phase = "queued" /\ Head(queue) = c /\ UNCHANGED consent
      /\ Becomes(c, Serving("asking", conn[c].entry))
  BY DEF ReadAgain, engineVars
<1>2. \A d \in Conns : conn'[d] = IF d = c THEN Serving("asking", conn[c].entry) ELSE conn[d]
  BY <1>1 DEF TasksOK, Becomes
<1>3. AskingNow = {}
  BY <1>1 DEF QueueOK, OneDialog, AskingNow
<1>4. AskingNow' = {c} /\ conn'[c].entry = conn[c].entry
  BY <1>2, <1>3 DEF AskingNow, Serving
<1>5. Opened = {} /\ Opened' = {q}
  BY <1>0, <1>3, <1>4 DEF Opened, QuestionOf
<1>6. /\ q.name = conn[c].entry.name /\ q.hash = conn[c].entry.hash
      /\ q \in Asked!Questions
  BY <1>0, <1>1, AskedOf DEF Busy, InRequest
<1>7. consent[q.name] \notin {Asked!Denied, Asked!Granted(q.hash)}
  <2>1. Evaluate(q.name, q.hash) \in {"not-asked", "stale"}
    BY <1>6 DEF ShouldAsk
  <2> QED
    BY <2>1 DEF Evaluate, Denied, GrantedFor, Asked!Denied, Asked!Granted
<1>8. Asked!Ask(q)
  BY ONLY <1>1, <1>5, <1>7 DEF Asked!Ask, Opened, AskingNow
<1> QED
  BY <1>6, <1>8

\* The answer is recorded for the entry that the task still holds.
LEMMA AnswerEnds ==
    ASSUME TypeOK, TasksOK, QueueOK, NEW c \in Conns, Answer(c)
    PROVE  \E q \in Asked!Questions : Asked!End(q)
<1> DEFINE e == conn[c].entry
<1>0. PICK q : q = QuestionOf(c)
  OBVIOUS
<1>1. conn[c].phase = "asking" /\ Becomes(c, Serving("activate", e))
  BY DEF Answer
<1>2. \A d \in Conns : conn'[d] = IF d = c THEN Serving("activate", e) ELSE conn[d]
  BY <1>1 DEF TasksOK, Becomes
<1>3. c \in AskingNow /\ AskingNow = {c}
  BY <1>1 DEF QueueOK, OneDialog, AskingNow
<1>4. AskingNow' = {}
  BY <1>2, <1>3 DEF AskingNow, Serving
<1>5. Opened = {q} /\ Opened' = {}
  BY <1>0, <1>3, <1>4 DEF Opened
<1>6. q.name = e.name /\ q.hash = e.hash /\ q \in Asked!Questions
  BY <1>0, <1>1, AskedOf DEF Busy, InRequest
<1>7. \E a \in {consent[q.name], Asked!Denied, Asked!Granted(q.hash)} :
        consent' = [consent EXCEPT ![q.name] = a]
  BY <1>6 DEF Answer, Denied, GrantedFor, Asked!Denied, Asked!Granted
<1>8. Asked!End(q)
  BY ONLY <1>5, <1>7 DEF Asked!End, Opened, AskingNow
<1> QED
  BY <1>6, <1>8

\* The question is gone with the broker, and nothing is recorded.
LEMMA KillEnds ==
    ASSUME TypeOK, TasksOK, QueueOK, BrokerKilled
    PROVE  \/ UNCHANGED <<Opened, consent>>
           \/ \E q \in Asked!Questions : Asked!End(q)
<1>1. UNCHANGED consent /\ AskingNow' = {}
  BY DEF BrokerKilled, BrokerDies, BrokerRestarts, AskingNow, Resting
<1>2. Opened' = {}
  BY <1>1 DEF Opened
<1>3. CASE AskingNow = {}
  BY <1>1, <1>2, <1>3 DEF Opened
<1>4. ASSUME NEW c \in AskingNow PROVE \E q \in Asked!Questions : Asked!End(q)
  <2>0. PICK q : q = QuestionOf(c)
    OBVIOUS
  <2>1. Opened = {q} /\ q \in Asked!Questions
    BY <1>4, <2>0, OneOpened, AskedOf DEF AskingNow, Busy, InRequest
  <2>2. consent' = [consent EXCEPT ![q.name] = consent[q.name]]
    BY <1>1 DEF TypeOK
  <2>3. Asked!End(q)
    BY ONLY <1>2, <2>1, <2>2 DEF Asked!End, Opened, AskingNow
  <2> QED
    BY <2>1, <2>3
<1> QED
  BY <1>3, <1>4

LEMMA QuestionStep ==
    ASSUME TypeOK, TasksOK, QueueOK, [BrokerNext]_brokerVars
    PROVE  \/ UNCHANGED <<Opened, consent>>
           \/ Asked!QuestionNext
<1>1. ASSUME NEW c \in Conns, NEW e,
             \/ Accept(c) \/ EndConnection(c) \/ AskActivate(c, e) \/ CheckConsent(c)
             \/ Perform(c)
      PROVE  UNCHANGED <<Opened, consent>>
  <2>1. PICK task : Becomes(c, task) /\ task.phase # "asking"
    BY <1>1 DEF Accept, EndConnection, AskActivate, CheckConsent, Perform, Resting, Serving
  <2>2. conn[c].phase # "asking"
    BY <1>1 DEF Accept, EndConnection, AskActivate, CheckConsent, Perform
  <2>3. UNCHANGED consent
    BY <1>1 DEF Accept, EndConnection, AskActivate, CheckConsent, Perform, engineVars,
                ReleaseConnection, Activate, StartStdio, AttachShared, ActivationFails, Retired
  <2> QED
    BY <2>1, <2>2, <2>3, OpenedStays
<1>2. ASSUME NEW c \in Conns, ReadAgain(c)
      PROVE  \/ UNCHANGED <<Opened, consent>>
             \/ Asked!QuestionNext
  <2>1. CASE ShouldAsk(conn[c].entry)
    BY <1>2, <2>1, ReadAgainAsks DEF Asked!QuestionNext
  <2>2. CASE ~ShouldAsk(conn[c].entry)
    BY <1>2, <2>2, OpenedStays DEF ReadAgain, engineVars, Serving
  <2> QED
    BY <2>1, <2>2
<1>3. ASSUME NEW c \in Conns, Answer(c)
      PROVE  Asked!QuestionNext
  BY <1>3, AnswerEnds DEF Asked!QuestionNext
<1>4. ASSUME NEW n \in Names, NEW r \in ConsentRecords, ConsentCommand(n, r)
      PROVE  Asked!QuestionNext
  <2>1. r \in Asked!Answers
    BY DEF ConsentRecords, NotAsked, Denied, GrantedFor, Asked!Answers, Asked!NotAsked,
           Asked!Denied, Asked!Granted
  <2>2. Opened' = Opened
    BY <1>4 DEF ConsentCommand, Opened, AskingNow, QuestionOf
  <2>3. consent' = [consent EXCEPT ![n] = r]
    BY <1>4 DEF ConsentCommand, ConsentChanges
  <2>4. Asked!Decide(n, r)
    BY ONLY <2>2, <2>3 DEF Asked!Decide, Opened, AskingNow
  <2> QED
    BY <2>1, <2>4 DEF Asked!QuestionNext
<1>5. CASE BrokerKilled
  BY <1>5, KillEnds DEF Asked!QuestionNext
<1>6. ASSUME UNCHANGED <<conn, consent>>
      PROVE  UNCHANGED <<Opened, consent>>
  BY <1>6 DEF Opened, AskingNow, QuestionOf
<1>7. ASSUME NEW c \in Conns, HangUp(c) \/ \E i \in GrantIds : RequestRelease(c, i)
      PROVE  UNCHANGED <<conn, consent>>
  BY <1>7 DEF HangUp, RequestRelease, engineVars, Release, Retired
<1>8. ASSUME NEW c \in Conns, \E n \in Names, force \in BOOLEAN : RequestDeactivate(c, n, force)
      PROVE  UNCHANGED <<conn, consent>>
  BY <1>8 DEF RequestDeactivate, engineVars, Deactivate, Retired
<1>9. ASSUME ReaperTick \/ (\E n \in Names : IdleTimer(n)) \/ UNCHANGED brokerVars
      PROVE  UNCHANGED <<conn, consent>>
  BY <1>9 DEF ReaperTick, IdleTimer, TimerElapses, ReapIdle, brokerVars
<1> QED
  BY <1>1, <1>2, <1>3, <1>4, <1>5, <1>6, <1>7, <1>8, <1>9 DEF BrokerNext

\* Connections that queue, come, go and are cut off ask one question at a time, and
\* what is recorded is about the launch that was asked about, whatever the card has
\* become meanwhile (server.rs:38-42, 57-109).
THEOREM QuestionKept == BrokerSpec => KeepsQuestion
<1>1. BrokerInit => Asked!QuestionInit
  <2>1. BrokerInit => AskingNow = {}
    BY DEF BrokerInit, AskingNow, Resting
  <2>2. BrokerInit => Opened = {}
    BY <2>1 DEF Opened
  <2>3. BrokerInit => consent \in [Names -> Asked!Answers]
    BY DEF BrokerInit, Init, ConsentRecords, NotAsked, Denied, GrantedFor, Asked!Answers,
           Asked!NotAsked, Asked!Denied, Asked!Granted
  <2> QED
    BY <2>2, <2>3 DEF Asked!QuestionInit, Opened, AskingNow
<1>2. TypeOK /\ TasksOK /\ QueueOK /\ [BrokerNext]_brokerVars
        => [Asked!QuestionNext]_Asked!questionVars
  BY QuestionStep DEF Asked!questionVars, Opened, AskingNow
<1> QED
  BY <1>1, <1>2, TypesAlwaysOK, QueueAlwaysOK, PTL DEF BrokerSpec, KeepsQuestion, Asked!QuestionSpec

\* What the engine promises of servers, counts and launches, it promises to clients
\* whose requests interleave: with any number of connections the broker implements
\* Lifetime, stops no claimed server, starts nothing unapproved and leaks nothing
\* (server.rs:129-309, activation.rs:3-12).
THEOREM BrokerKeepsPromise ==
    BrokerSpec => /\ KeepsLifetime /\ StopsOnlyUnclaimed /\ LaunchApproved
                  /\ [](RefcountExact /\ ClaimedOrTimed /\ ProcsAccounted)
  BY BrokerKeepsEngine, LifetimeKept, StopsCorrect, LaunchCorrect, RefcountCorrect,
     TimerCorrect, ProcsCorrect, PTL DEF EngineKept

\* No child is left to run without anybody to stop it: once no connection holds
\* anything, every process is that of a shared entry, with no claim and so with a timer.
THEOREM LeftoversCorrect == BrokerSpec => []LeftoversTimed
<1>1. BrokerTypeOK /\ OnlyLiveConnectionsHold /\ ProcsAccounted /\ ClaimedOrTimed /\ RefcountExact
        => LeftoversTimed
  <2> SUFFICES ASSUME BrokerTypeOK, OnlyLiveConnectionsHold, ProcsAccounted, ClaimedOrTimed,
                      RefcountExact, Deserted, NEW i \in DOMAIN procs, ~procs[i].orphan
               PROVE  \E n \in Names : shared[n].child = i /\ shared[n].timer # "none"
    BY DEF LeftoversTimed
  <2>1. \A j \in DOMAIN grants : grants[j].conn \in Conns
    BY DEF BrokerTypeOK, TypeOK, Grant
  <2>2. DOMAIN grants = {}
    BY <2>1 DEF Deserted, OnlyLiveConnectionsHold, HeldBy
  <2>3. PICK n \in Names : shared[n].child = i /\ shared[n].child # NoChild
    BY <2>2 DEF ProcsAccounted, HeldChildren, StdioGrants
  <2>4. EndpointClaims(n) = {}
    BY <2>2 DEF EndpointClaims, Holding
  <2>5. shared[n].refcount = 0
    BY <2>4, FS_EmptySet DEF RefcountExact
  <2> QED
    BY <2>3, <2>5 DEF ClaimedOrTimed
<1> QED
  BY <1>1, BrokerTypeCorrect, HoldersAreLive, BrokerKeepsPromise, PTL

-----------------------------------------------------------------------------
(* What clients may expect of their grants                                 *)

ContractHere == TypeOK /\ TasksOK /\ OnlyLiveConnectionsHold

\* Grants that are retired stand no more, and the others stay as they were.
LEMMA StandingShrinks ==
    ASSUME NEW S, grants' = Without(grants, S)
    PROVE  Standing' = {g \in Standing : g.id \notin S}
<1>1. DOMAIN grants' = DOMAIN grants \ S /\ \A i \in DOMAIN grants' : grants'[i] = grants[i]
  BY DEF Without
<1>2. ASSUME NEW g
      PROVE  g \in Standing' <=> g \in Standing /\ g.id \notin S
  <2>1. ASSUME g \in Standing' PROVE g \in Standing /\ g.id \notin S
    BY <1>1, <2>1 DEF Standing
  <2>2. ASSUME g \in Standing, g.id \notin S PROVE g \in Standing'
    BY <1>1, <2>2 DEF Standing
  <2> QED
    BY <2>1, <2>2
<1> QED
  BY <1>2

\* One more stands: new, of the connection that asked.
LEMMA IssueStep ==
    ASSUME ContractHere, NEW n \in Names, NEW kind \in {"stdio", "endpoint"}, NEW c \in Conns,
           TakeGrantId, grants' = Granted(n, c, kind), Ended' = Ended, c \notin Ended
    PROVE  Contract!GrantsNext
<1>1. /\ nextGrant \in GrantIds /\ nextGrant \notin DOMAIN grants
      /\ 1..(nextGrant' - 1) = 1..(nextGrant - 1) \cup {nextGrant}
      /\ nextGrant \notin 1..(nextGrant - 1)
  BY FreshId DEF ContractHere, TypeOK, TakeGrantId, GrantIds
<1>2. PICK g : g = [id |-> nextGrant, name |-> n, conn |-> c]
  OBVIOUS
<1>3. g \in Contract!Claim /\ g.id = nextGrant /\ g.conn = c
  BY <1>1, <1>2 DEF Contract!Claim
<1>4. Standing' = Standing \cup {g}
  <2>1. /\ DOMAIN grants' = DOMAIN grants \cup {nextGrant}
        /\ grants'[nextGrant].name = n /\ grants'[nextGrant].conn = c
        /\ \A i \in DOMAIN grants : grants'[i] = grants[i]
    BY <1>1 DEF Granted, With
  <2> QED
    BY <1>2, <2>1 DEF Standing
<1>5. /\ g.id \notin 1..(nextGrant - 1) /\ g.conn \notin Ended
      /\ 1..(nextGrant' - 1) = 1..(nextGrant - 1) \cup {g.id}
  BY <1>1, <1>3
<1>6. Contract!Issue(g)
  BY ONLY <1>4, <1>5, Ended' = Ended DEF Contract!Issue, Standing, Ended
<1> QED
  BY <1>3, <1>6 DEF Contract!GrantsNext

\* A task that is in a request goes on to its next phase or to rest.
LEMMA EndedStays ==
    ASSUME TasksOK, NEW c \in Conns, NEW task, Becomes(c, task),
           conn[c].phase # "closed", task.phase # "closed"
    PROVE  Ended' = Ended /\ c \notin Ended
BY DEF TasksOK, Becomes, Ended

LEMMA PerformStep ==
    ASSUME ContractHere, NEW c \in Conns, Perform(c)
    PROVE  [Contract!GrantsNext]_Contract!grantsVars
<1> DEFINE e == conn[c].entry
<1>1. Ended' = Ended /\ c \notin Ended
  BY EndedStays DEF Perform, ContractHere, Resting
<1>2. e \in Entries /\ e.name \in Names /\ e.hash \in Hashes
  BY BusyEntry DEF ContractHere, Perform, Busy, InRequest, Entries
<1> HIDE DEF e
<1>3. UNCHANGED engineVars \/ Activate(e.name, e.hash, c)
  BY DEF Perform, e
<1>4. CASE UNCHANGED engineVars
  <2>1. Standing' = Standing /\ nextGrant' = nextGrant
    BY <1>4 DEF engineVars, Standing
  <2> QED
    BY <1>1, <2>1 DEF Contract!grantsVars, Standing, Ended
<1>5. CASE StartStdio(e.name, e.hash, c)
  BY <1>1, <1>2, <1>5, IssueStep DEF StartStdio
<1>6. CASE AttachShared(e.name, e.hash, c)
  BY <1>1, <1>2, <1>6, IssueStep DEF AttachShared
<1>7. CASE ActivationFails(e.name, e.hash)
  <2>1. TakeGrantId /\ grants' = grants
    BY <1>7 DEF ActivationFails
  <2>2. /\ nextGrant \in GrantIds /\ nextGrant \notin 1..(nextGrant - 1)
        /\ 1..(nextGrant' - 1) = 1..(nextGrant - 1) \cup {nextGrant}
    BY <2>1, FreshId DEF ContractHere, TypeOK, TakeGrantId, GrantIds
  <2>3. Standing' = Standing
    BY <2>1 DEF Standing
  <2>4. PICK i : i = nextGrant
    OBVIOUS
  <2>5. Contract!Waste(i)
    BY ONLY <1>1, <2>2, <2>3, <2>4 DEF Contract!Waste, Standing, Ended
  <2> QED
    BY <2>2, <2>4, <2>5 DEF Contract!GrantsNext
<1> QED
  BY <1>3, <1>4, <1>5, <1>6, <1>7 DEF Activate

\* What takes grants away: by id, by server, by connection, or all of them.
LEMMA ReturnStep ==
    ASSUME NEW c \in Conns, NEW i \in GrantIds, RequestRelease(c, i)
    PROVE  Contract!GrantsNext
<1>1. grants' = Without(grants, {i}) /\ nextGrant' = nextGrant /\ conn' = conn
  BY DEF RequestRelease, Release, Retired
<1>2. Standing' = {g \in Standing : g.id # i}
  BY <1>1, StandingShrinks
<1>3. Ended' = Ended
  BY <1>1 DEF Ended
<1>4. Contract!Return(i)
  BY ONLY <1>1, <1>2, <1>3 DEF Contract!Return, Standing, Ended
<1> QED
  BY <1>4 DEF Contract!GrantsNext

LEMMA ClearStep ==
    ASSUME NEW c \in Conns, NEW n \in Names, NEW force \in BOOLEAN, RequestDeactivate(c, n, force)
    PROVE  Contract!GrantsNext
<1>1. grants' = Without(grants, Holding(n)) /\ nextGrant' = nextGrant /\ conn' = conn
  BY DEF RequestDeactivate, Deactivate, Retired
<1>2. \A g \in Standing : g.id \in Holding(n) <=> g.name = n
  BY DEF Standing, Holding
<1>3. Standing' = {g \in Standing : g.name # n}
  BY <1>1, <1>2, StandingShrinks
<1>4. Ended' = Ended
  BY <1>1 DEF Ended
<1>5. Contract!Clear(n)
  BY ONLY <1>1, <1>3, <1>4 DEF Contract!Clear, Standing, Ended
<1> QED
  BY <1>5 DEF Contract!GrantsNext

LEMMA FinishStep ==
    ASSUME ContractHere, NEW c \in Conns, EndConnection(c)
    PROVE  Contract!GrantsNext
<1>1. /\ grants' = Without(grants, HeldBy(c)) /\ nextGrant' = nextGrant
      /\ conn[c].phase = "idle" /\ Becomes(c, Resting("closed"))
  BY DEF EndConnection, ReleaseConnection, Retired
<1>2. \A g \in Standing : g.id \in HeldBy(c) <=> g.conn = c
  BY DEF Standing, HeldBy
<1>3. Standing' = {g \in Standing : g.conn # c}
  BY <1>1, <1>2, StandingShrinks
<1>4. Ended' = Ended \cup {c} /\ c \notin Ended
  BY <1>1 DEF ContractHere, TasksOK, Becomes, Ended, Resting
<1>5. Contract!Finish(c)
  BY ONLY <1>1, <1>3, <1>4 DEF Contract!Finish, Standing, Ended
<1> QED
  BY <1>5 DEF Contract!GrantsNext

LEMMA DieStep ==
    ASSUME ContractHere, BrokerKilled
    PROVE  Contract!GrantsNext
<1>1. Standing' = {} /\ nextGrant' = nextGrant
  BY DEF BrokerKilled, BrokerDies, BrokerRestarts, EmptyMap, Standing
<1>2. \A c \in Conns : conn'[c] = IF conn[c].phase = "new" THEN conn[c] ELSE Resting("closed")
  BY DEF BrokerKilled
<1>3. Ended \subseteq Ended' /\ Ended' \subseteq Conns
  BY <1>2 DEF Ended, Resting
<1>4. \A g \in Standing : g.conn \in Ended'
  <2> SUFFICES ASSUME NEW g \in Standing PROVE g.conn \in Ended'
    OBVIOUS
  <2>1. PICK i \in DOMAIN grants : g.conn = grants[i].conn
    BY DEF Standing
  <2>2. grants[i].conn \in Conns /\ i \in HeldBy(grants[i].conn)
    BY DEF ContractHere, TypeOK, Grant, HeldBy
  <2>3. conn[g.conn].phase # "new" /\ g.conn \in Conns
    BY <2>1, <2>2 DEF ContractHere, OnlyLiveConnectionsHold
  <2> QED
    BY <1>2, <2>3 DEF Ended, Resting
<1>5. Contract!Die
  BY ONLY <1>1, <1>3, <1>4 DEF Contract!Die, Standing, Ended
<1> QED
  BY <1>5 DEF Contract!GrantsNext

LEMMA GrantsStep ==
    ASSUME ContractHere, [BrokerNext]_brokerVars
    PROVE  [Contract!GrantsNext]_Contract!grantsVars
<1>1. ASSUME UNCHANGED <<grants, nextGrant>>, Ended' = Ended
      PROVE  UNCHANGED Contract!grantsVars
  <2>1. Standing' = Standing
    BY <1>1 DEF Standing
  <2> QED
    BY <1>1, <2>1 DEF Contract!grantsVars, Standing, Ended
<1>2. ASSUME NEW c \in Conns,
             \/ Accept(c) \/ CheckConsent(c) \/ ReadAgain(c) \/ Answer(c)
             \/ \E e \in Entries : AskActivate(c, e)
      PROVE  UNCHANGED <<grants, nextGrant>> /\ Ended' = Ended
  <2>1. PICK task : Becomes(c, task) /\ task.phase # "closed" /\ conn[c].phase # "closed"
    BY <1>2 DEF Accept, CheckConsent, ReadAgain, Answer, AskActivate, Resting, Serving
  <2>2. UNCHANGED <<grants, nextGrant>>
    BY <1>2 DEF Accept, CheckConsent, ReadAgain, Answer, AskActivate, engineVars
  <2> QED
    BY <2>1, <2>2, EndedStays DEF ContractHere
<1>3. ASSUME \/ \E c \in Conns : HangUp(c)
             \/ ReaperTick \/ (\E n \in Names : IdleTimer(n))
             \/ (\E n \in Names, r \in ConsentRecords : ConsentCommand(n, r))
             \/ UNCHANGED brokerVars
      PROVE  UNCHANGED <<grants, nextGrant>> /\ Ended' = Ended
  BY <1>3 DEF HangUp, engineVars, ReaperTick, ReapIdle, IdleTimer, TimerElapses,
              ConsentCommand, ConsentChanges, brokerVars, Ended
<1> QED
  BY <1>1, <1>2, <1>3, PerformStep, ReturnStep, ClearStep, FinishStep, DieStep DEF BrokerNext

\* The broker keeps what clients may expect of their grants, however requests,
\* disconnections and deaths interleave: ids are new, a grant goes to a connection
\* that is there, and none goes away but for a reason of Grants
\* (server.rs:129-309, 358-365).
THEOREM GrantsKept == BrokerSpec => KeepsGrants
<1>1. BrokerInit => Contract!GrantsInit
  <2>1. BrokerInit => Standing = {} /\ Ended = {}
    BY DEF BrokerInit, Init, EmptyMap, Standing, Ended, Resting
  <2>2. BrokerInit => 1..(nextGrant - 1) = {}
    BY DEF BrokerInit, Init
  <2> QED
    BY <2>1, <2>2 DEF Contract!GrantsInit, Standing, Ended
<1>2. ContractHere /\ [BrokerNext]_brokerVars => [Contract!GrantsNext]_Contract!grantsVars
  BY GrantsStep
<1>3. BrokerSpec => []ContractHere
  BY TypesAlwaysOK, HoldersAreLive, PTL DEF ContractHere
<1> QED
  BY <1>1, <1>2, <1>3, PTL DEF BrokerSpec, KeepsGrants, Contract!GrantsSpec
=============================================================================
