----------------------------- MODULE Bootstrap -----------------------------
(***************************************************************************)
(* How a broker comes to run and clients find it: BrokerClient.connect and *)
(* startBroker in packages/locator-ts/src/broker.ts, `serve` in            *)
(* broker/crates/broker/src/main.rs, install.rs, and listen in server.rs.  *)
(*                                                                         *)
(* Clients connect, start a broker if they cannot, and retry; each broker  *)
(* process sets the directories up and tries to take the address.  On      *)
(* Windows the address is a pipe whose first instance one process may      *)
(* create; on unix it is a socket file that any process may remove.        *)
(***************************************************************************)
EXTENDS Naturals, FiniteSets

CONSTANTS
    Clients,
    Processes,   \* bound: broker processes that are ever started
    Platforms,   \* subset of {"windows", "unix"}
    MaxAttempts, \* of a client after it started a broker; 20 in the code
    Nobody

ASSUME NobodyAssumption == Nobody \notin Processes
ASSUME PlatformsAssumption == Platforms \subseteq {"windows", "unix"}
ASSUME AttemptsAssumption == MaxAttempts \in Nat \ {0}

VARIABLES
    platform,
    client,     \* what each client's connect() is doing
    process,    \* what each broker process is doing
    address,    \* whose pipe or socket file stands at the address, or Nobody
    instance,   \* broker -> an instance of its pipe waits for a client
    dirs,       \* labelled directories: there or not, labelled or not
    flawed      \* directories whose set-up was cut short or failed

vars == <<platform, client, process, address, instance, dirs, flawed>>

-----------------------------------------------------------------------------
(* State                                                                   *)

\* The registry directories of the user, of which "low" is only there on Windows,
\* and the broker's own.  Two carry a label on Windows.
Directories == {"user", "low", "state"}
Labelled == {"low", "state"}

Calls == {"out", "opening", "starting", "retrying", "greeting", "connected", "failed"}
Client(at, attempts, to) == [at |-> at, attempts |-> attempts, to |-> to]
Out == Client("out", 0, Nobody)
Connect(c, at, attempts, to) == client' = [client EXCEPT ![c] = Client(at, attempts, to)]

\* Set-up steps of a process: look, then create, then label, one directory after
\* the other; then load the store, take the address, serve.
Unborn == <<"unborn">>
Load == <<"load">>
Unlinked == <<"unlinked">>
Served == <<"serving">>
Exited == <<"exited">>
Phases == {Unborn, Load, Unlinked, Served, Exited}
          \cup ({"look", "create"} \X Directories) \cup ({"label"} \X Labelled)
Goes(b, phase) == process' = [process EXCEPT ![b] = phase]
Alive(b) == process[b] \notin {Unborn, Exited}
Serving(b) == process[b] = Served

-----------------------------------------------------------------------------
(* A client                                                                *)

\* A process listens at the address, and on Windows an instance of its pipe waits;
\* while all instances are in use the attempt waits for one.
Listens(b) == b # Nobody /\ Serving(b)
Answers(b) == Listens(b) /\ (platform = "windows" => instance[b])

\* #open: one attempt at first, MaxAttempts after a broker was started.
BeginConnect(c) ==
    /\ client[c].at = "out"
    /\ Connect(c, "opening", 1, Nobody)
    /\ UNCHANGED <<platform, process, address, instance, dirs, flawed>>

\* Whoever connects to a pipe takes the instance that waits.
Opens(c) ==
    /\ client[c].at \in {"opening", "retrying"}
    /\ Answers(address)
    /\ Connect(c, "greeting", 0, address)
    /\ instance' = [instance EXCEPT ![address] = FALSE]
    /\ UNCHANGED <<platform, process, address, dirs, flawed>>

OpenFailsOneLate(c) ==
    /\ client[c].at \in {"opening", "retrying"}
    /\ ~Listens(address)
    /\ CASE client[c].attempts > 0 -> Connect(c, "retrying", client[c].attempts - 1, Nobody)
         [] client[c].attempts = 0 /\ client[c].at = "opening" -> Connect(c, "starting", 0, Nobody)
         [] OTHER -> Connect(c, "failed", 0, Nobody)
    /\ UNCHANGED <<platform, process, address, instance, dirs, flawed>>
OpenFails(c) ==
    /\ client[c].at \in {"opening", "retrying"}
    /\ ~Listens(address)
    /\ CASE client[c].attempts > 1 -> Connect(c, "retrying", client[c].attempts - 1, Nobody)
         [] client[c].attempts = 1 /\ client[c].at = "opening" -> Connect(c, "starting", 0, Nobody)
         [] OTHER -> Connect(c, "failed", 0, Nobody)
    /\ UNCHANGED <<platform, process, address, instance, dirs, flawed>>

Begins(b) == process[b] = Unborn /\ Goes(b, <<"look", "user">>)

\* startBroker: a process starts, or one that ends before it does anything; the
\* client does not wait for it and learns nothing of its end ...
StartsBroker(c) ==
    /\ client[c].at = "starting"
    /\ (\E b \in Processes : Begins(b)) \/ UNCHANGED process
    /\ Connect(c, "retrying", MaxAttempts, Nobody)
    /\ UNCHANGED <<platform, address, instance, dirs, flawed>>

\* ... or it throws: autostart is off, there is no broker card in the system
\* tier, or its command is missing, out of place or not signed.  A spawn that
\* fails ends the client's process, as nobody listens for its error.
MayNotStart(c) ==
    /\ client[c].at = "starting"
    /\ Connect(c, "failed", 0, Nobody)
    /\ UNCHANGED <<platform, process, address, instance, dirs, flawed>>

\* A person runs `serve` or `secure-dirs`.
StartsByHand(b) ==
    /\ Begins(b)
    /\ UNCHANGED <<platform, client, address, instance, dirs, flawed>>

\* The handshake: the broker answers, or its death fails the call.
Greeted(c) ==
    /\ client[c].at = "greeting" /\ Serving(client[c].to)
    /\ \/ Connect(c, "connected", 0, client[c].to)
       \/ Connect(c, "failed", 0, Nobody)    \* another protocol version
    /\ UNCHANGED <<platform, process, address, instance, dirs, flawed>>
LosesBrokerOnceGreeted(c) ==
    /\ client[c].at = "connected" /\ ~Alive(client[c].to)
    /\ Connect(c, "failed", 0, Nobody)
    /\ UNCHANGED <<platform, process, address, instance, dirs, flawed>>
LosesBroker(c) ==
    /\ client[c].at \in {"greeting", "connected"} /\ ~Alive(client[c].to)
    /\ Connect(c, "failed", 0, Nobody)
    /\ UNCHANGED <<platform, process, address, instance, dirs, flawed>>

-----------------------------------------------------------------------------
(* Setting up: install::user, on every serve                               *)

After(d) ==
    CASE d = "user" /\ platform = "windows" -> <<"look", "low">>
      [] d = "user" /\ platform = "unix" -> <<"look", "state">>
      [] d = "low" -> <<"look", "state">>
      [] d = "state" -> Load

\* Only a process that found a directory missing goes on to create and label it.
Look(b, d) ==
    /\ process[b] = <<"look", d>>
    /\ Goes(b, IF dirs[d].there THEN After(d) ELSE <<"create", d>>)
    /\ UNCHANGED <<platform, client, address, instance, dirs, flawed>>

CreateLookingAfter(b, d) ==
    /\ process[b] = <<"create", d>>
    /\ dirs' = [dirs EXCEPT ![d].there = TRUE]
    /\ Goes(b, After(d))
    /\ UNCHANGED <<platform, client, address, instance, flawed>>

\* The failure of create_dir_all is reported and the next directory follows.
Create(b, d) ==
    /\ process[b] = <<"create", d>>
    /\ \/ /\ dirs' = [dirs EXCEPT ![d].there = TRUE]
          /\ Goes(b, IF platform = "windows" /\ d \in Labelled THEN <<"label", d>> ELSE After(d))
       \/ ~dirs[d].there /\ Goes(b, After(d)) /\ UNCHANGED dirs
    /\ UNCHANGED <<platform, client, address, instance, flawed>>

Label(b, d) ==
    /\ process[b] = <<"label", d>>
    /\ \/ dirs' = [dirs EXCEPT ![d].labelled = TRUE] /\ UNCHANGED flawed
       \/ flawed' = flawed \cup {d} /\ UNCHANGED dirs
    /\ Goes(b, After(d))
    /\ UNCHANGED <<platform, client, address, instance>>

\* A consent command run before any broker creates the state directory as its
\* store's parent, and so does the audit log; neither labels it.
CommandCreatesState ==
    /\ ~dirs["state"].there
    /\ dirs' = [dirs EXCEPT !["state"].there = TRUE]
    /\ flawed' = flawed \cup {"state"}
    /\ UNCHANGED <<platform, client, process, address, instance>>

-----------------------------------------------------------------------------
(* Taking the address: listen                                              *)

\* secure-dirs ends here, and so does a broker that cannot make its engine.
EndsAfterSetUp(b) ==
    /\ process[b] = Load
    /\ Goes(b, Exited)
    /\ UNCHANGED <<platform, client, address, instance, dirs, flawed>>

\* Windows: the first instance of the pipe, or none.
TakesPipeAnyInstance(b) ==
    /\ platform = "windows" /\ process[b] = Load
    /\ address' = b
    /\ Goes(b, Served)
    /\ instance' = [instance EXCEPT ![b] = TRUE]
    /\ UNCHANGED <<platform, client, dirs, flawed>>
TakesPipe(b) ==
    /\ platform = "windows" /\ process[b] = Load
    /\ IF address = Nobody
       THEN /\ address' = b
            /\ Goes(b, Served)
            /\ instance' = [instance EXCEPT ![b] = TRUE]
       ELSE Goes(b, Exited) /\ UNCHANGED <<address, instance>>
    /\ UNCHANGED <<platform, client, dirs, flawed>>

\* The next instance, as soon as a client has taken the one before.
NextInstance(b) ==
    /\ platform = "windows" /\ Serving(b) /\ ~instance[b]
    /\ instance' = [instance EXCEPT ![b] = TRUE]
    /\ UNCHANGED <<platform, client, process, address, dirs, flawed>>

\* Unix: the socket file is removed, whoever's it is, and bound anew.
Unlinks(b) ==
    /\ platform = "unix" /\ process[b] = Load
    /\ address' = Nobody
    /\ Goes(b, Unlinked)
    /\ UNCHANGED <<platform, client, instance, dirs, flawed>>
Binds(b) ==
    /\ process[b] = Unlinked
    /\ IF address = Nobody
       THEN /\ address' = b
            /\ Goes(b, Served)
            /\ instance' = [instance EXCEPT ![b] = TRUE]
       ELSE Goes(b, Exited) /\ UNCHANGED <<address, instance>>
    /\ UNCHANGED <<platform, client, dirs, flawed>>

\* A process is killed, or ends with an error of accept.  A pipe goes with its
\* process, a socket file stays.
Dies(b) ==
    /\ Alive(b)
    /\ Goes(b, Exited)
    /\ address' = IF platform = "windows" /\ address = b THEN Nobody ELSE address
    /\ flawed' = flawed \cup {d \in Labelled : process[b] = <<"label", d>>}
    /\ UNCHANGED <<platform, client, instance, dirs>>

-----------------------------------------------------------------------------
(* Specification                                                           *)

Init ==
    /\ platform \in Platforms
    /\ client = [c \in Clients |-> Out]
    /\ process = [b \in Processes |-> Unborn]
    /\ address = Nobody
    /\ instance = [b \in Processes |-> FALSE]
    /\ dirs = [d \in Directories |-> [there |-> FALSE, labelled |-> FALSE]]
    /\ flawed = {}

ClientStep(c) ==
    Opens(c) \/ OpenFails(c) \/ StartsBroker(c) \/ MayNotStart(c) \/ Greeted(c) \/ LosesBroker(c)
ProcessStep(b) ==
    \/ \E d \in Directories : Look(b, d) \/ Create(b, d) \/ Label(b, d)
    \/ EndsAfterSetUp(b) \/ TakesPipe(b) \/ NextInstance(b) \/ Unlinks(b) \/ Binds(b)

Next ==
    \/ \E c \in Clients : BeginConnect(c) \/ ClientStep(c)
    \/ \E b \in Processes : StartsByHand(b) \/ ProcessStep(b) \/ Dies(b)
    \/ CommandCreatesState

Spec == Init /\ [][Next]_vars

\* Every process that can go on does; nobody need ever die.
FairSpec ==
    /\ Spec
    /\ \A c \in Clients : WF_vars(ClientStep(c))
    /\ \A b \in Processes : WF_vars(ProcessStep(b))

-----------------------------------------------------------------------------
(* Properties                                                              *)

\* Every variable stays within its type; a client has an attempt left while it
\* tries, and a broker process while it has one (broker.ts:91-134).
TypeOK ==
    /\ platform \in Platforms
    /\ \A c \in Clients :
         /\ client[c].at \in Calls
         /\ client[c].at \in {"opening", "retrying"} => client[c].attempts \in 1..MaxAttempts
         /\ client[c].at \in {"greeting", "connected"} => client[c].to \in Processes
    /\ process \in [Processes -> Phases]
    /\ address \in Processes \cup {Nobody}
    /\ instance \in [Processes -> BOOLEAN]
    /\ flawed \subseteq Labelled

\* At most one live broker, however many processes are started at once
\* (server.rs:438-439, spec/002 section 2).
OneBroker == Cardinality({b \in Processes : Serving(b)}) <= 1

\* On Windows the pipe sees to that, and the broker that serves is the one new
\* clients reach: nobody is connected to another live one (server.rs:401-412).
OneBrokerOnPipe ==
    platform = "windows" =>
        /\ OneBroker
        /\ \A b \in Processes : Serving(b) => address = b
        /\ \A c \in Clients :
             (client[c].at = "connected" /\ Alive(client[c].to)) => client[c].to = address

\* A directory without its label is one whose creator is about to set it, unless
\* that step failed or was cut short: processes that set up at once never each
\* leave it to the other (install.rs:109-147).
LabelPending ==
    platform = "windows" =>
        \A d \in Labelled :
            (dirs[d].there /\ ~dirs[d].labelled)
                => d \in flawed \/ \E b \in Processes : process[b] = <<"label", d>>

\* Every connect() ends, with a connection or with an error, whichever broker
\* dies or never comes up (broker.ts:91-134, 148-150).
Ended == {"connected", "failed"}
EveryConnectEnds ==
    \A c \in Clients : client[c].at = "opening" ~> client[c].at \in Ended
=============================================================================
