-------------------------- MODULE BootstrapProofs --------------------------
(***************************************************************************)
(* One broker on a pipe, and labels that are set or about to be, for any   *)
(* number of clients and of broker processes.                              *)
(***************************************************************************)
EXTENDS Bootstrap, FiniteSetTheorems, TLAPS

USE NobodyAssumption, PlatformsAssumption, AttemptsAssumption

-----------------------------------------------------------------------------
(* Types                                                                   *)

\* A client has an attempt left while it tries, and a broker once it has one.
ClientStates == [at : Calls, attempts : 0..MaxAttempts, to : Processes \cup {Nobody}]
Sane(s) ==
    /\ s \in ClientStates
    /\ s.at \in {"opening", "retrying"} => s.attempts \in 1..MaxAttempts
    /\ s.at \in {"greeting", "connected"} => s.to \in Processes
ClientsOK ==
    /\ client \in [Clients -> ClientStates]
    /\ \A c \in Clients : Sane(client[c])
AddressOK ==
    /\ address \in Processes \cup {Nobody}
    /\ instance \in [Processes -> BOOLEAN]
ProcessesOK == process \in [Processes -> Phases]
DirsOK ==
    /\ dirs \in [Directories -> [there : BOOLEAN, labelled : BOOLEAN]]
    /\ flawed \subseteq Labelled
Typed ==
    /\ platform \in Platforms
    /\ ClientsOK /\ ProcessesOK /\ AddressOK /\ DirsOK

LEMMA TypedIsTypeOK == Typed => TypeOK
  BY DEF Typed, ClientsOK, ProcessesOK, AddressOK, DirsOK, TypeOK, Sane, ClientStates

LEMMA ClientKinds ==
    /\ \A k \in 1..MaxAttempts, at \in {"opening", "retrying"} : Sane(Client(at, k, Nobody))
    /\ \A at \in {"starting", "failed"} : Sane(Client(at, 0, Nobody))
    /\ \A at \in {"greeting", "connected"}, b \in Processes : Sane(Client(at, 0, b))
  BY DEF Sane, Client, ClientStates, Calls

LEMMA ClientsStep ==
    ASSUME ClientsOK, NEW c \in Clients, NEW s, Sane(s), client' = [client EXCEPT ![c] = s]
    PROVE  ClientsOK'
  BY DEF ClientsOK, Sane

LEMMA PhaseKinds ==
    /\ Unborn \in Phases /\ Load \in Phases /\ Unlinked \in Phases
    /\ Served \in Phases /\ Exited \in Phases
    /\ \A d \in Directories : /\ <<"look", d>> \in Phases
                              /\ <<"create", d>> \in Phases
    /\ \A d \in Labelled : <<"label", d>> \in Phases
    /\ "user" \in Directories
  BY DEF Phases, Directories

LEMMA AfterKinds ==
    ASSUME platform \in Platforms, NEW d \in Directories
    PROVE  After(d) \in {Load, <<"look", "low">>, <<"look", "state">>}
  BY DEF After, Directories

LEMMA Goes_OK ==
    ASSUME ProcessesOK, NEW b \in Processes, NEW phase \in Phases, Goes(b, phase)
    PROVE  ProcessesOK'
  BY DEF ProcessesOK, Goes

LEMMA InitTyped == Init => Typed
  BY PhaseKinds DEF Init, Typed, ClientsOK, ProcessesOK, AddressOK, DirsOK, Sane, Out, Client,
     ClientStates, Calls, Directories, Labelled

LEMMA ClientStepTyped ==
    ASSUME Typed, NEW c \in Clients, BeginConnect(c) \/ ClientStep(c)
    PROVE  Typed'
<1> USE DEF Typed
<1>1. ClientsOK'
  <2> 1 \in 1..MaxAttempts /\ MaxAttempts \in 1..MaxAttempts
    OBVIOUS
  <2>1. CASE BeginConnect(c)
    BY <2>1, ClientKinds, ClientsStep DEF BeginConnect, Connect
  <2>2. CASE Opens(c)
    BY <2>2, ClientKinds, ClientsStep DEF Opens, Answers, Listens, AddressOK, Connect
  <2>3. CASE OpenFails(c)
    <3>1. client[c].attempts \in 1..MaxAttempts
      BY <2>3 DEF OpenFails, ClientsOK, Sane
    <3>2. client[c].attempts > 1 => client[c].attempts - 1 \in 1..MaxAttempts
      BY <3>1
    <3> QED
      BY <2>3, <3>2, ClientKinds, ClientsStep DEF OpenFails, Connect
  <2>4. CASE StartsBroker(c)
    BY <2>4, ClientKinds, ClientsStep DEF StartsBroker, Connect
  <2>5. CASE MayNotStart(c)
    BY <2>5, ClientKinds, ClientsStep DEF MayNotStart, Connect
  <2>6. CASE Greeted(c)
    BY <2>6, ClientKinds, ClientsStep DEF Greeted, Connect, ClientsOK, Sane
  <2>7. CASE LosesBroker(c)
    BY <2>7, ClientKinds, ClientsStep DEF LosesBroker, Connect
  <2> QED
    BY <2>1, <2>2, <2>3, <2>4, <2>5, <2>6, <2>7 DEF ClientStep
<1>2. ProcessesOK'
  BY PhaseKinds, Goes_OK
     DEF ClientStep, BeginConnect, Opens, OpenFails, StartsBroker, Begins, MayNotStart,
         Greeted, LosesBroker, ProcessesOK
<1>3. AddressOK'
  BY DEF ClientStep, BeginConnect, Opens, OpenFails, StartsBroker, MayNotStart, Greeted,
         LosesBroker, AddressOK
<1>4. DirsOK' /\ platform' = platform
  BY DEF ClientStep, BeginConnect, Opens, OpenFails, StartsBroker, MayNotStart, Greeted,
         LosesBroker, DirsOK
<1> QED
  BY <1>1, <1>2, <1>3, <1>4

LEMMA SetUpStepTyped ==
    ASSUME Typed, NEW b \in Processes, NEW d \in Directories,
           Look(b, d) \/ Create(b, d) \/ Label(b, d)
    PROVE  Typed'
<1> USE DEF Typed
<1>1. After(d) \in Phases
  BY PhaseKinds, AfterKinds DEF Directories
<1>2. ProcessesOK'
  BY <1>1, PhaseKinds, Goes_OK DEF Look, Create, Label
<1>3. DirsOK'
  <2>1. CASE Label(b, d)
    <3>1. d \in Labelled
      BY <2>1 DEF Label, ProcessesOK, Phases, Unborn, Load, Unlinked, Served, Exited
    <3> QED
      BY <2>1, <3>1 DEF Label, DirsOK
  <2>2. CASE Look(b, d) \/ Create(b, d)
    BY <2>2 DEF Look, Create, DirsOK
  <2> QED
    BY <2>1, <2>2
<1>4. ClientsOK' /\ AddressOK' /\ platform' = platform
  BY DEF Look, Create, Label, ClientsOK, AddressOK
<1> QED
  BY <1>2, <1>3, <1>4

LEMMA ListenStepTyped ==
    ASSUME Typed, NEW b \in Processes,
           \/ EndsAfterSetUp(b) \/ TakesPipe(b) \/ NextInstance(b) \/ Unlinks(b) \/ Binds(b)
           \/ StartsByHand(b) \/ Dies(b)
    PROVE  Typed'
<1> USE DEF Typed
<1>1. ProcessesOK'
  BY PhaseKinds, Goes_OK
     DEF EndsAfterSetUp, TakesPipe, NextInstance, Unlinks, Binds, StartsByHand, Begins, Dies,
         ProcessesOK
<1>2. AddressOK'
  BY DEF EndsAfterSetUp, TakesPipe, NextInstance, Unlinks, Binds, StartsByHand, Dies, AddressOK
<1>3. ClientsOK' /\ DirsOK' /\ platform' = platform
  BY DEF EndsAfterSetUp, TakesPipe, NextInstance, Unlinks, Binds, StartsByHand, Dies,
         ClientsOK, DirsOK
<1> QED
  BY <1>1, <1>2, <1>3

LEMMA CommandTyped == ASSUME Typed, CommandCreatesState PROVE Typed'
  BY DEF CommandCreatesState, Typed, ClientsOK, ProcessesOK, AddressOK, DirsOK, Labelled

LEMMA StepTyped == Typed /\ [Next]_vars => Typed'
<1> SUFFICES ASSUME Typed, [Next]_vars
             PROVE  Typed'
  OBVIOUS
<1>1. CASE UNCHANGED vars
  BY <1>1 DEF vars, Typed, ClientsOK, ProcessesOK, AddressOK, DirsOK
<1> QED
  BY <1>1, ClientStepTyped, SetUpStepTyped, ListenStepTyped, CommandTyped DEF Next, ProcessStep

\* Every variable stays within its type; a client has an attempt left while it
\* tries, and a broker process while it has one (broker.ts:91-134).
THEOREM TypeCorrect == Spec => []TypeOK
<1>1. Spec => []Typed
  BY InitTyped, StepTyped, PTL DEF Spec
<1> QED
  BY <1>1, TypedIsTypeOK, PTL

-----------------------------------------------------------------------------
(* One broker                                                              *)

\* On Windows nobody unlinks, and a process serves under the address or not at
\* all; and whoever was given to a client serves, or has served.
OnPipe ==
    platform = "windows" =>
        \A b \in Processes : process[b] # Unlinked /\ (Serving(b) => address = b)
Met ==
    \A c \in Clients :
        client[c].at \in {"greeting", "connected"} => process[client[c].to] \in {Served, Exited}

LEMMA PhasesDiffer ==
    /\ Unborn \notin {Load, Unlinked, Served, Exited}
    /\ Load \notin {Unlinked, Served, Exited}
    /\ Unlinked # Served /\ Unlinked # Exited /\ Served # Exited
    /\ \A p, q : /\ <<p, q>> \notin {Unborn, Load, Unlinked, Served, Exited}
  BY DEF Unborn, Load, Unlinked, Served, Exited

\* What a step does to the processes: nothing, or one of them moves on.
LEMMA NoProcessMoves ==
    ASSUME OnPipe, Met, UNCHANGED <<platform, process, address>>,
           \A c \in Clients : client'[c].at \in {"greeting", "connected"}
               => \/ client[c].at \in {"greeting", "connected"} /\ client'[c].to = client[c].to
                  \/ client'[c].to = address /\ Listens(address)
    PROVE  OnPipe' /\ Met'
  BY DEF OnPipe, Met, Serving, Listens

\* A process that does not come to serve and has not served leaves both alone.
LEMMA ProcessMoves ==
    ASSUME Typed, OnPipe, Met, NEW b \in Processes, NEW phase, Goes(b, phase),
           phase # Served, phase # Unlinked \/ platform # "windows",
           process[b] \in {Served, Exited} => phase = Exited,
           platform' = platform, platform = "windows" => address' = address \/ address = b,
           \A c \in Clients : client'[c].at \in {"greeting", "connected"}
               => client[c].at \in {"greeting", "connected"} /\ client'[c].to = client[c].to
    PROVE  OnPipe' /\ Met'
<1>1. process' = [process EXCEPT ![b] = phase] /\ process \in [Processes -> Phases]
  BY DEF Goes, Typed, ProcessesOK
<1>2. OnPipe'
  BY <1>1 DEF OnPipe, Serving
<1>3. \A c \in Clients : client[c].at \in {"greeting", "connected"} => client[c].to \in Processes
  BY DEF Typed, ClientsOK, Sane
<1>4. Met'
  BY <1>1, <1>3 DEF Met
<1> QED
  BY <1>2, <1>4

\* Who connects is given the process that serves at the address.
LEMMA ClientStepOnPipe ==
    ASSUME Typed, OnPipe, Met, NEW c \in Clients, BeginConnect(c) \/ ClientStep(c)
    PROVE  OnPipe' /\ Met'
<1>1. client \in [Clients -> ClientStates]
  BY DEF Typed, ClientsOK
<1>2. CASE StartsBroker(c)
  <2>1. \A d \in Clients : client'[d].at \in {"greeting", "connected"}
               => client[d].at \in {"greeting", "connected"} /\ client'[d].to = client[d].to
    BY <1>1, <1>2 DEF StartsBroker, Connect, Client
  <2>2. CASE UNCHANGED process
    BY <1>2, <2>1, <2>2, NoProcessMoves DEF StartsBroker
  <2>3. ASSUME NEW b \in Processes, Begins(b)
        PROVE  OnPipe' /\ Met'
    BY <1>2, <2>1, <2>3, ProcessMoves, PhasesDiffer DEF StartsBroker, Begins
  <2> QED
    BY <1>2, <2>2, <2>3 DEF StartsBroker
<1>3. CASE BeginConnect(c) \/ Opens(c) \/ OpenFails(c) \/ MayNotStart(c) \/ Greeted(c) \/ LosesBroker(c)
  <2>1. \A d \in Clients : client'[d].at \in {"greeting", "connected"}
               => \/ client[d].at \in {"greeting", "connected"} /\ client'[d].to = client[d].to
                  \/ client'[d].to = address /\ Listens(address)
    BY <1>1, <1>3 DEF BeginConnect, Opens, OpenFails, MayNotStart, Greeted, LosesBroker,
       Connect, Client, Answers
  <2>2. UNCHANGED <<platform, process, address>>
    BY <1>3 DEF BeginConnect, Opens, OpenFails, MayNotStart, Greeted, LosesBroker
  <2> QED
    BY <2>1, <2>2, NoProcessMoves
<1> QED
  BY <1>2, <1>3 DEF ClientStep

LEMMA SetUpStepOnPipe ==
    ASSUME Typed, OnPipe, Met, NEW b \in Processes, NEW d \in Directories,
           Look(b, d) \/ Create(b, d) \/ Label(b, d)
    PROVE  OnPipe' /\ Met'
<1>1. platform \in Platforms
  BY DEF Typed
<1>2. After(d) \in {Load, <<"look", "low">>, <<"look", "state">>}
  BY <1>1, AfterKinds
<1>3. PICK phase \in {After(d), <<"create", d>>, <<"label", d>>} : Goes(b, phase)
  BY DEF Look, Create, Label
<1>4. phase \notin {Served, Unlinked} /\ process[b] \notin {Served, Exited}
  BY <1>2, <1>3, PhasesDiffer DEF Look, Create, Label
<1>5. UNCHANGED <<platform, client, address>>
  BY DEF Look, Create, Label
<1> QED
  BY <1>3, <1>4, <1>5, ProcessMoves

\* The first instance of a pipe: a process comes to serve when none does.
LEMMA TakesPipeOnPipe ==
    ASSUME Typed, OnPipe, Met, NEW b \in Processes, TakesPipe(b)
    PROVE  OnPipe' /\ Met'
<1>1. CASE address = Nobody
  <2>1. process' = [process EXCEPT ![b] = Served] /\ address' = b
    BY <1>1 DEF TakesPipe, Goes
  <2>2. OnPipe'
    BY <1>1, <2>1, PhasesDiffer DEF TakesPipe, OnPipe, Serving, Typed, ProcessesOK
  <2>3. Met'
    BY <2>1, PhasesDiffer DEF TakesPipe, Met, Typed, ProcessesOK, ClientsOK, Sane
  <2> QED
    BY <2>2, <2>3
<1>2. CASE address # Nobody
  <2>1. Goes(b, Exited) /\ UNCHANGED <<platform, client, address>> /\ process[b] = Load
    BY <1>2 DEF TakesPipe
  <2> QED
    BY <2>1, ProcessMoves, PhasesDiffer
<1> QED
  BY <1>1, <1>2

\* On a socket file a process may come to serve at any time.
LEMMA BindsOnPipe ==
    ASSUME Typed, OnPipe, Met, NEW b \in Processes, Unlinks(b) \/ Binds(b)
    PROVE  OnPipe' /\ Met'
<1>1. platform # "windows" /\ platform' = platform
  BY DEF Unlinks, Binds, OnPipe
<1>2. PICK phase \in {Unlinked, Served, Exited} : Goes(b, phase)
  BY DEF Unlinks, Binds
<1>3. process[b] \notin {Served, Exited} /\ client' = client
  BY PhasesDiffer DEF Unlinks, Binds
<1>4. process' = [process EXCEPT ![b] = phase] /\ process \in [Processes -> Phases]
  BY <1>2 DEF Goes, Typed, ProcessesOK
<1>5. Met'
  BY <1>3, <1>4 DEF Met
<1> QED
  BY <1>1, <1>5 DEF OnPipe

LEMMA OtherStepsOnPipe ==
    ASSUME Typed, OnPipe, Met, NEW b \in Processes,
           EndsAfterSetUp(b) \/ NextInstance(b) \/ StartsByHand(b) \/ Dies(b)
    PROVE  OnPipe' /\ Met'
<1>1. CASE EndsAfterSetUp(b)
  BY <1>1, ProcessMoves, PhasesDiffer DEF EndsAfterSetUp
<1>2. CASE NextInstance(b)
  BY <1>2, NoProcessMoves DEF NextInstance
<1>3. CASE StartsByHand(b)
  BY <1>3, ProcessMoves, PhasesDiffer DEF StartsByHand, Begins
<1>4. CASE Dies(b)
  BY <1>4, ProcessMoves, PhasesDiffer DEF Dies
<1> QED
  BY <1>1, <1>2, <1>3, <1>4

LEMMA StepOnPipe == Typed /\ OnPipe /\ Met /\ [Next]_vars => OnPipe' /\ Met'
<1> SUFFICES ASSUME Typed, OnPipe, Met, [Next]_vars
             PROVE  OnPipe' /\ Met'
  OBVIOUS
<1>1. CASE UNCHANGED vars \/ CommandCreatesState
  BY <1>1, NoProcessMoves DEF vars, CommandCreatesState
<1> QED
  BY <1>1, ClientStepOnPipe, SetUpStepOnPipe, TakesPipeOnPipe, BindsOnPipe, OtherStepsOnPipe
     DEF Next, ProcessStep

LEMMA OnPipeIsOneBroker == Typed /\ OnPipe /\ Met => OneBrokerOnPipe
<1> SUFFICES ASSUME Typed, OnPipe, Met, platform = "windows"
             PROVE  /\ OneBroker
                    /\ \A b \in Processes : Serving(b) => address = b
                    /\ \A c \in Clients :
                         (client[c].at = "connected" /\ Alive(client[c].to)) => client[c].to = address
  BY DEF OneBrokerOnPipe
<1> DEFINE S == {b \in Processes : Serving(b)}
<1>1. \A b \in Processes : Serving(b) => address = b
  BY DEF OnPipe
<1>2. S \subseteq {address}
  BY <1>1
<1>3. IsFiniteSet({address}) /\ Cardinality({address}) = 1
  BY FS_Singleton
<1>4. Cardinality(S) <= 1
  BY <1>2, <1>3, FS_Subset
<1>5. ASSUME NEW c \in Clients, client[c].at = "connected", Alive(client[c].to)
      PROVE  client[c].to = address
  BY <1>1, <1>5 DEF Typed, ClientsOK, Sane, Met, Alive, Serving
<1> QED
  BY <1>1, <1>4, <1>5 DEF OneBroker

\* On Windows at most one broker serves, however many are started at once, and
\* it is the one clients reach (server.rs:401-412).
THEOREM OneBrokerCorrect == Spec => []OneBrokerOnPipe
<1>1. Init => Typed /\ OnPipe /\ Met
  BY InitTyped, PhasesDiffer DEF Init, OnPipe, Met, Out, Client, Serving
<1>2. Typed /\ OnPipe /\ Met /\ [Next]_vars => (Typed /\ OnPipe /\ Met)'
  BY StepTyped, StepOnPipe
<1> QED
  BY <1>1, <1>2, OnPipeIsOneBroker, PTL DEF Spec

-----------------------------------------------------------------------------
(* Labels                                                                  *)

\* While a process that is not about to label moves, what is pending stays so.
LEMMA PendingStays ==
    ASSUME Typed, LabelPending, NEW b, NEW phase,
           UNCHANGED process \/ (b \in Processes /\ Goes(b, phase)),
           UNCHANGED process \/ \A d \in Labelled : process[b] # <<"label", d>>,
           UNCHANGED <<platform, dirs>>, flawed \subseteq flawed'
    PROVE  LabelPending'
<1>1. process \in [Processes -> Phases]
  BY DEF Typed, ProcessesOK
<1>2. ASSUME NEW d \in Labelled, NEW a \in Processes, process[a] = <<"label", d>>
      PROVE  process'[a] = <<"label", d>>
  BY <1>1, <1>2 DEF Goes
<1> QED
  BY <1>2 DEF LabelPending

LEMMA LabelsDiffer ==
    ASSUME NEW d
    PROVE  /\ <<"label", d>> \notin {Unborn, Load, Unlinked, Served, Exited}
           /\ \A e : <<"label", d>> # <<"look", e>> /\ <<"label", d>> # <<"create", e>>
           /\ \A e : <<"label", d>> = <<"label", e>> => d = e
  BY PhasesDiffer

\* The process that creates a directory is the one about to label it.
LEMMA CreatePending ==
    ASSUME Typed, LabelPending, NEW b \in Processes, NEW d \in Directories, Create(b, d)
    PROVE  LabelPending'
<1>1. process \in [Processes -> Phases]
      /\ dirs \in [Directories -> [there : BOOLEAN, labelled : BOOLEAN]]
  BY DEF Typed, ProcessesOK, DirsOK
<1>2. process[b] = <<"create", d>> /\ platform' = platform /\ flawed' = flawed
  BY DEF Create
<1>3. CASE UNCHANGED dirs
  <2>1. PICK phase : Goes(b, phase)
    BY DEF Create
  <2> QED
    BY <1>2, <1>3, <2>1, PendingStays, LabelsDiffer
<1>4. CASE dirs' = [dirs EXCEPT ![d].there = TRUE]
           /\ Goes(b, IF platform = "windows" /\ d \in Labelled THEN <<"label", d>> ELSE After(d))
  <2> SUFFICES ASSUME platform = "windows", NEW e \in Labelled,
                      dirs'[e].there, ~dirs'[e].labelled, e \notin flawed
               PROVE  \E a \in Processes : process'[a] = <<"label", e>>
    BY <1>2 DEF LabelPending
  <2>1. CASE e = d
    BY <1>1, <1>4, <2>1 DEF Goes
  <2>2. CASE e # d
    <3>1. e \in Directories
      BY DEF Labelled, Directories
    <3>2. dirs'[e] = dirs[e]
      BY <1>1, <1>4, <2>2, <3>1
    <3>3. PICK a \in Processes : process[a] = <<"label", e>>
      BY <3>2 DEF LabelPending
    <3>4. a # b
      BY <1>2, <3>3, LabelsDiffer
    <3> QED
      BY <1>1, <1>4, <3>3, <3>4 DEF Goes
  <2> QED
    BY <2>1, <2>2
<1> QED
  BY <1>3, <1>4 DEF Create

LEMMA LabelStepPending ==
    ASSUME Typed, LabelPending, NEW b \in Processes, NEW d \in Directories, Label(b, d)
    PROVE  LabelPending'
<1>1. process \in [Processes -> Phases]
      /\ dirs \in [Directories -> [there : BOOLEAN, labelled : BOOLEAN]]
  BY DEF Typed, ProcessesOK, DirsOK
<1>2. process' = [process EXCEPT ![b] = After(d)] /\ process[b] = <<"label", d>>
      /\ platform' = platform /\ flawed \subseteq flawed'
  BY DEF Label, Goes
<1> SUFFICES ASSUME platform = "windows", NEW e \in Labelled,
                    dirs'[e].there, ~dirs'[e].labelled, e \notin flawed'
             PROVE  \E a \in Processes : process'[a] = <<"label", e>>
  BY <1>2 DEF LabelPending
<1>3. e \in Directories
  BY DEF Labelled, Directories
<1>4. e # d
  BY <1>1, <1>3 DEF Label
<1>5. dirs'[e] = dirs[e]
  BY <1>1, <1>3, <1>4 DEF Label
<1>6. PICK a \in Processes : process[a] = <<"label", e>>
  BY <1>2, <1>5 DEF LabelPending
<1>7. a # b
  BY <1>2, <1>4, <1>6, LabelsDiffer
<1> QED
  BY <1>1, <1>2, <1>6, <1>7

\* A process that is cut short leaves its directory among the flawed ones.
LEMMA DiesPending ==
    ASSUME Typed, LabelPending, NEW b \in Processes, Dies(b)
    PROVE  LabelPending'
<1>1. process \in [Processes -> Phases]
  BY DEF Typed, ProcessesOK
<1>2. process' = [process EXCEPT ![b] = Exited] /\ UNCHANGED <<platform, dirs>>
      /\ flawed' = flawed \cup {d \in Labelled : process[b] = <<"label", d>>}
  BY DEF Dies, Goes
<1> SUFFICES ASSUME platform = "windows", NEW e \in Labelled,
                    dirs[e].there, ~dirs[e].labelled, e \notin flawed'
             PROVE  \E a \in Processes : process'[a] = <<"label", e>>
  BY <1>2 DEF LabelPending
<1>3. PICK a \in Processes : process[a] = <<"label", e>>
  BY <1>2 DEF LabelPending
<1> QED
  BY <1>1, <1>2, <1>3

LEMMA OtherStepsPending ==
    ASSUME Typed, LabelPending, NEW b \in Processes,
           \/ \E d \in Directories : Look(b, d)
           \/ EndsAfterSetUp(b) \/ TakesPipe(b) \/ NextInstance(b) \/ Unlinks(b) \/ Binds(b)
           \/ StartsByHand(b)
    PROVE  LabelPending'
<1>1. UNCHANGED <<platform, dirs, flawed>>
  BY DEF Look, EndsAfterSetUp, TakesPipe, NextInstance, Unlinks, Binds, StartsByHand
<1>2. CASE NextInstance(b)
  BY <1>1, <1>2, PendingStays DEF NextInstance
<1>3. CASE ~NextInstance(b)
  <2>1. PICK phase : Goes(b, phase)
    BY <1>3 DEF Look, EndsAfterSetUp, TakesPipe, Unlinks, Binds, StartsByHand, Begins
  <2>2. \A d \in Labelled : process[b] # <<"label", d>>
    BY <1>3, LabelsDiffer
       DEF Look, EndsAfterSetUp, TakesPipe, Unlinks, Binds, StartsByHand, Begins
  <2> QED
    BY <1>1, <2>1, <2>2, PendingStays
<1> QED
  BY <1>2, <1>3

LEMMA ClientStepPending ==
    ASSUME Typed, LabelPending, NEW c \in Clients, BeginConnect(c) \/ ClientStep(c)
    PROVE  LabelPending'
<1>1. UNCHANGED <<platform, dirs, flawed>>
  BY DEF BeginConnect, ClientStep, Opens, OpenFails, StartsBroker, MayNotStart, Greeted, LosesBroker
<1>2. CASE UNCHANGED process
  BY <1>1, <1>2, PendingStays
<1>3. CASE \E b \in Processes : Begins(b)
  <2>1. PICK b \in Processes : Begins(b)
    BY <1>3
  <2> QED
    BY <1>1, <2>1, PendingStays, LabelsDiffer DEF Begins
<1> QED
  BY <1>2, <1>3
     DEF BeginConnect, ClientStep, Opens, OpenFails, StartsBroker, MayNotStart, Greeted, LosesBroker

LEMMA CommandPending ==
    ASSUME Typed, LabelPending, CommandCreatesState
    PROVE  LabelPending'
<1>1. dirs \in [Directories -> [there : BOOLEAN, labelled : BOOLEAN]]
  BY DEF Typed, DirsOK
<1>2. \A e \in Directories : e # "state" => dirs'[e] = dirs[e]
  BY <1>1 DEF CommandCreatesState
<1> QED
  BY <1>2 DEF CommandCreatesState, LabelPending, Labelled, Directories

\* A directory without its label is one whose creator is about to set it, unless
\* that step failed or was cut short (install.rs:109-147).
THEOREM LabelCorrect == Spec => []LabelPending
<1>1. Init => Typed /\ LabelPending
  BY InitTyped DEF Init, LabelPending, Labelled, Directories
<1>2. ASSUME Typed, LabelPending, [Next]_vars
      PROVE  LabelPending'
  <2>1. CASE UNCHANGED vars
    BY <1>2, <2>1 DEF vars, LabelPending
  <2> QED
    BY <1>2, <2>1, CreatePending, LabelStepPending, DiesPending, OtherStepsPending,
       ClientStepPending, CommandPending
       DEF Next, ProcessStep
<1>3. Typed /\ LabelPending /\ [Next]_vars => (Typed /\ LabelPending)'
  BY <1>2, StepTyped
<1> QED
  BY <1>1, <1>3, PTL DEF Spec
=============================================================================
