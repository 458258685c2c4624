------------------------------- MODULE Dialog -------------------------------
(***************************************************************************)
(* Asking a person: Broker::seek_consent in broker/crates/broker/src/      *)
(* server.rs, the prompter in prompt.rs and the program it runs,           *)
(* broker/crates/consent-ui/src/main.rs.                                   *)
(*                                                                         *)
(* Broker has the question as one step with three outcomes.  Here it is    *)
(* what it consists of: a process of its own that is given the question as *)
(* arguments, shows what it makes of them, and answers by its exit code;   *)
(* the time limit of the broker; and a broker that dies while the process  *)
(* lives on.  A text is a string, which may well look like a flag.         *)
(***************************************************************************)
EXTENDS Naturals, FiniteSets, Sequences, SequencesExt

CONSTANTS
    Requests,   \* activations that may need a person's consent
    Cards,      \* catalog entries
    Callers,    \* what the system tells of a client: a text, LowCaller or None
    Platforms,  \* "windows" has a native dialog, "unix" has none
    MaxDialogs, \* bound: dialogs that are ever started
    None,       \* an optional text that is not there
    LowCaller   \* a client below medium integrity

ASSUME DialogAssumption ==
    MaxDialogs \in Nat /\ None \notin Requests /\ None \notin Nat

VARIABLES
    platform,   \* where all this runs
    up,         \* the broker runs
    helper,     \* it found the helper beside it when it started, and may prompt
    task,       \* the task of each request
    lock,       \* who holds prompt_lock, or None
    dialogs,    \* every dialog process ever started
    store,      \* consent by name
    approved    \* what a person has approved: name, hash and launch text

vars == <<platform, up, helper, task, lock, dialogs, store, approved>>
world == <<platform, up, helper>>

-----------------------------------------------------------------------------
(* State                                                                   *)

Names == {card.name : card \in Cards}

NotAsked == [state |-> "not-asked", hash |-> None, command |-> None]
Denied == [state |-> "denied", hash |-> None, command |-> None]
GrantedFor(hash, command) == [state |-> "granted", hash |-> hash, command |-> command]

\* evaluate: a grant for another hash than that of the card is stale.
Evaluate(card) ==
    LET record == store[card.name] IN
    IF record.state = "granted" /\ record.hash # card.hash
    THEN [record EXCEPT !.state = "stale"] ELSE record
ShouldAsk(record) == record.state \in {"not-asked", "stale"}

Away == [phase |-> "away"]
Done == [phase |-> "done"]
Waiting(card, caller) == [phase |-> "waiting", card |-> card, caller |-> caller]
Asking(card, caller, dialog) ==
    [phase |-> "asking", card |-> card, caller |-> caller, dialog |-> dialog]

\* A dialog process: about is what the broker meant to ask, shown what the
\* process shows, code how it ended; orphan once its broker is gone.
Started(about, args) ==
    [phase |-> "started", about |-> about, args |-> args, orphan |-> FALSE]
Open(d, shown) ==
    [phase |-> "open", about |-> d.about, shown |-> shown, orphan |-> d.orphan]
Exited(d, code) ==
    [phase |-> "exited", about |-> d.about, code |-> code, orphan |-> d.orphan]
Running(i) == dialogs[i].phase # "exited"

-----------------------------------------------------------------------------
(* The question as arguments                                               *)

\* launch_summary
LaunchSummary(card) ==
    CASE card.launch # None -> card.launch
      [] card.launch = None /\ card.address # None -> card.address
      [] OTHER -> "(no launch stanza)"

\* A name has labels (card.rs:157-163), a hash is never empty (hash.rs), and there is
\* always some text for what is launched.
ASSUME CardsAssumption ==
    \A card \in Cards : card.name # "" /\ card.hash # "" /\ LaunchSummary(card) # None

\* publisher_of: what verifying the program gives, nothing without a program.
PublisherOf(card) == IF card.launch = None THEN "" ELSE card.signer

Given(flag, text) == IF text = None THEN <<>> ELSE <<flag, text>>

Arguments(card, caller, record) ==
    <<"--name", card.name,
      "--title", IF card.title = None THEN card.name ELSE card.title,
      "--tier", card.tier, "--card", card.path, "--hash", card.hash>>
    \o Given("--summary", card.summary)
    \o <<"--command", LaunchSummary(card), "--publisher", PublisherOf(card)>>
    \o Given("--client", caller)
    \o (IF record.state = "stale"
        THEN <<"--stale">> \o Given("--previous", record.command) ELSE <<>>)

-----------------------------------------------------------------------------
(* The dialog program                                                      *)

ValueFlags == {"--name", "--title", "--summary", "--command", "--tier", "--publisher",
               "--client", "--card", "--hash", "--previous"}
UsageError == [usage |-> TRUE]

\* Request::parse: every argument is a flag or the value of the flag before it;
\* of a flag given twice the last one counts.
ParseAnywhere(args) ==
    LET field(flag) == IF Contains(args, flag)
                       THEN args[1 + CHOOSE i \in DOMAIN args : args[i] = flag] ELSE ""
    IN [usage |-> FALSE, stale |-> Contains(args, "--stale"),
        name |-> field("--name"),
        title |-> IF field("--title") = "" THEN field("--name") ELSE field("--title"),
        summary |-> field("--summary"), command |-> field("--command"),
        tier |-> field("--tier"), publisher |-> field("--publisher"),
        client |-> field("--client"), card |-> field("--card"),
        hash |-> field("--hash"), previous |-> field("--previous")]
FlagPositions(args) ==
    LET isFlag[i \in DOMAIN args] == i = 1 \/ (isFlag[i - 1] => args[i - 1] = "--stale")
    IN {i \in DOMAIN args : isFlag[i]}
At(args, flag) == {i \in FlagPositions(args) : args[i] = flag}
Field(args, flag) ==
    IF At(args, flag) = {} THEN ""
    ELSE args[1 + CHOOSE i \in At(args, flag) : \A j \in At(args, flag) : j <= i]
IsMalformed(args) ==
    \E i \in FlagPositions(args) :
        args[i] # "--stale" /\ (i = Len(args) \/ args[i] \notin ValueFlags)
Parse(args) ==
    IF IsMalformed(args) \/ Field(args, "--name") = "" THEN UsageError
    ELSE [usage |-> FALSE, stale |-> At(args, "--stale") # {},
          name |-> Field(args, "--name"),
          title |-> IF Field(args, "--title") = "" THEN Field(args, "--name")
                                                   ELSE Field(args, "--title"),
          summary |-> Field(args, "--summary"), command |-> Field(args, "--command"),
          tier |-> Field(args, "--tier"), publisher |-> Field(args, "--publisher"),
          client |-> Field(args, "--client"), card |-> Field(args, "--card"),
          hash |-> Field(args, "--hash"), previous |-> Field(args, "--previous")]

\* What the window says, as labels and texts: content() above, expanded() under
\* "Details".
Line(label, text) == IF text = "" THEN {} ELSE {<<label, text>>}
ContentWithoutOld(shown) ==
    (IF shown.stale THEN {<<"Now", shown.command>>} ELSE {})
    \cup Line("Summary", shown.summary) \cup Line("Requested by", shown.client)
Content(shown) ==
    (IF shown.stale THEN Line("Was", shown.previous) \cup {<<"Now", shown.command>>} ELSE {})
    \cup Line("Summary", shown.summary) \cup Line("Requested by", shown.client)
Expanded(shown) ==
    (IF shown.stale THEN {} ELSE Line("Starts", shown.command))
    \cup Line("Registered by", shown.card) \cup Line("Trust tier", shown.tier)
    \cup Line("Publisher", shown.publisher) \cup Line("Bound to", shown.hash)
    \cup {<<"Identifier", shown.name>>}
Warns(shown) == shown.tier \notin {"system", "package"}
Window(shown) == Content(shown) \cup Expanded(shown)

\* Exit codes
ALLOW == 10
DENY == 20
DISMISSED == 30
USAGE == 2
UNSUPPORTED == 3
Codes == {ALLOW, DENY, DISMISSED, USAGE, UNSUPPORTED, None}

Becomes(i, d) == dialogs' = [dialogs EXCEPT ![i] = d]

\* main: the window opens, or the process ends without a question: no sense in
\* its arguments, no window on this platform, or TaskDialogIndirect fails.
Opens(i) ==
    /\ dialogs[i].phase = "started"
    /\ LET request == Parse(dialogs[i].args) IN
       \/ request.usage /\ Becomes(i, Exited(dialogs[i], USAGE))
       \/ ~request.usage /\ platform = "unix" /\ Becomes(i, Exited(dialogs[i], UNSUPPORTED))
       \/ ~request.usage /\ platform = "windows" /\ Becomes(i, Open(dialogs[i], request))
       \/ ~request.usage /\ platform = "windows" /\ Becomes(i, Exited(dialogs[i], DISMISSED))
    /\ UNCHANGED <<world, task, lock, store, approved>>

Press(i, code) ==
    /\ dialogs[i].phase = "open"
    /\ Becomes(i, Exited(dialogs[i], code))
    /\ LET shown == dialogs[i].shown IN
       approved' = IF code = ALLOW
                   THEN approved \cup {<<shown.name, shown.hash, shown.command>>} ELSE approved
    /\ UNCHANGED <<world, task, lock, store>>

\* The process is ended from outside, with no code of its own.
IsEnded(i) ==
    /\ Running(i)
    /\ Becomes(i, Exited(dialogs[i], None))
    /\ UNCHANGED <<world, task, lock, store, approved>>

-----------------------------------------------------------------------------
(* The request                                                             *)

Arrives(r, card, caller) ==
    /\ up /\ task[r] = Away
    /\ helper /\ ShouldAsk(Evaluate(card))
    /\ task' = [task EXCEPT ![r] = Waiting(card, caller)]
    /\ UNCHANGED <<world, lock, dialogs, store, approved>>

HasTurn(r) == task[r].phase = "waiting" /\ lock = None
Ends(r) == task' = [task EXCEPT ![r] = Done]

\* No dialog: the answer is there by now, the client is a sandbox, or the helper
\* does not start, as it may not at any time.
NoDialog(r) ==
    /\ HasTurn(r)
    /\ Ends(r)
    /\ UNCHANGED <<world, lock, dialogs, store, approved>>

Raises(r) ==
    /\ HasTurn(r)
    /\ LET card == task[r].card  caller == task[r].caller  record == Evaluate(card)
           about == [card |-> card, caller |-> caller, record |-> record]
       IN /\ ShouldAsk(record)
          /\ caller # LowCaller
          /\ Len(dialogs) < MaxDialogs
          /\ dialogs' = Append(dialogs, Started(about, Arguments(card, caller, record)))
          /\ task' = [task EXCEPT ![r] = Asking(card, caller, Len(dialogs) + 1)]
    /\ lock' = r
    /\ UNCHANGED <<world, store, approved>>

DecisionUnlessDenied(code) == IF code = DENY THEN "deny" ELSE "allow"
Decision(code) ==
    CASE code = ALLOW -> "allow"
      [] code = DENY -> "deny"
      [] OTHER -> "unanswered"

AnswerComesKeepingLock(r) ==
    /\ task[r].phase = "asking" /\ ~Running(task[r].dialog)
    /\ Ends(r)
    /\ UNCHANGED <<world, lock, dialogs, store, approved>>

\* The exit code is read, and the answer recorded for the card of the request.
AnswerComes(r) ==
    /\ task[r].phase = "asking" /\ ~Running(task[r].dialog)
    /\ LET card == task[r].card
           decision == Decision(dialogs[task[r].dialog].code)
       IN store' = CASE decision = "allow" ->
                          [store EXCEPT ![card.name] = GrantedFor(card.hash, LaunchSummary(card))]
                     [] decision = "deny" -> [store EXCEPT ![card.name] = Denied]
                     [] decision = "unanswered" -> store
    /\ Ends(r)
    /\ lock' = None
    /\ UNCHANGED <<world, dialogs, approved>>

\* 180 seconds are over: the dialog is killed.  It may have ended since it was
\* last looked at; then its answer is lost.
TimesOutLeavingDialog(r) ==
    /\ task[r].phase = "asking"
    /\ Ends(r)
    /\ lock' = None
    /\ UNCHANGED <<world, dialogs, store, approved>>
TimesOutOnceOpen(r) ==
    /\ task[r].phase = "asking"
    /\ LET i == task[r].dialog IN
       /\ dialogs[i].phase = "open"
       /\ Becomes(i, Exited(dialogs[i], None))
    /\ Ends(r)
    /\ lock' = None
    /\ UNCHANGED <<world, store, approved>>
TimesOut(r) ==
    /\ task[r].phase = "asking"
    /\ LET i == task[r].dialog IN
       IF Running(i) THEN Becomes(i, Exited(dialogs[i], None)) ELSE UNCHANGED dialogs
    /\ Ends(r)
    /\ lock' = None
    /\ UNCHANGED <<world, store, approved>>

-----------------------------------------------------------------------------
(* Around it                                                               *)

\* Nothing ends the dialog of a broker that dies, and nobody reads its code.
BrokerDies ==
    /\ up
    /\ up' = FALSE
    /\ task' = [r \in Requests |-> IF task[r] = Away THEN Away ELSE Done]
    /\ lock' = None
    /\ dialogs' = [i \in DOMAIN dialogs |-> [dialogs[i] EXCEPT !.orphan = TRUE]]
    /\ UNCHANGED <<platform, helper, store, approved>>

\* Prompter::discover: the helper is looked for once.
BrokerStarts ==
    /\ ~up
    /\ up' = TRUE
    /\ helper' \in BOOLEAN
    /\ UNCHANGED <<platform, task, lock, dialogs, store, approved>>

\* mcp-locator-broker consent grant, deny and forget.
ConsentCommand(card) ==
    /\ \/ /\ store' = [store EXCEPT ![card.name] = GrantedFor(card.hash, LaunchSummary(card))]
          /\ approved' = approved \cup {<<card.name, card.hash, LaunchSummary(card)>>}
       \/ /\ \E record \in {Denied, NotAsked} : store' = [store EXCEPT ![card.name] = record]
          /\ UNCHANGED approved
    /\ UNCHANGED <<world, task, lock, dialogs>>

-----------------------------------------------------------------------------
(* Specification                                                           *)

Init ==
    /\ platform \in Platforms
    /\ up = TRUE /\ helper \in BOOLEAN
    /\ task = [r \in Requests |-> Away]
    /\ lock = None
    /\ dialogs = <<>>
    /\ store = [n \in Names |-> NotAsked]
    /\ approved = {}

RequestStep(r) ==
    NoDialog(r) \/ Raises(r) \/ AnswerComes(r) \/ TimesOut(r)

Next ==
    \/ \E r \in Requests, card \in Cards, caller \in Callers : Arrives(r, card, caller)
    \/ \E r \in Requests : RequestStep(r)
    \/ \E i \in DOMAIN dialogs :
         \/ Opens(i) \/ IsEnded(i)
         \/ \E code \in {ALLOW, DENY, DISMISSED} : Press(i, code)
    \/ BrokerDies \/ BrokerStarts
    \/ \E card \in Cards : ConsentCommand(card)

Spec == Init /\ [][Next]_vars

\* A task that can go on does, and sleeps run out.  Nobody need ever answer, and
\* no dialog need ever open or end by itself.
FairSpec ==
    Spec /\ \A r \in Requests : WF_vars(RequestStep(r))

-----------------------------------------------------------------------------
(* Properties                                                              *)

Holder == {r \in Requests : task[r].phase = "asking"}

\* Types, and the lock is held by whoever asks and by nobody else (server.rs:58).
TypeOK ==
    /\ platform \in Platforms /\ up \in BOOLEAN /\ helper \in BOOLEAN
    /\ Len(dialogs) <= MaxDialogs
    /\ \A i \in DOMAIN dialogs : dialogs[i].phase = "exited" => dialogs[i].code \in Codes
    /\ \A n \in Names : store[n].state \in {"not-asked", "granted", "denied"}
    /\ Holder = IF lock = None THEN {} ELSE {lock}

\* A window says what the broker meant to ask: no text of a card, whatever it
\* looks like, is taken for a flag or for another field (prompt.rs:87-107,
\* consent-ui main.rs:38-74).
Text(option) == IF option = None THEN "" ELSE option
ShownIsAsked ==
    \A i \in DOMAIN dialogs :
        LET about == dialogs[i].about  shown == dialogs[i].shown IN
        dialogs[i].phase = "open" =>
            /\ shown.name = about.card.name /\ shown.hash = about.card.hash
            /\ shown.command = LaunchSummary(about.card)
            /\ shown.card = about.card.path /\ shown.tier = about.card.tier
            /\ shown.title \in {about.card.title, about.card.name}
            /\ shown.summary = Text(about.card.summary)
            /\ shown.publisher = PublisherOf(about.card)
            /\ shown.client = Text(about.caller)
            /\ shown.stale = (about.record.state = "stale")

\* "Both sides must appear": whoever is asked about a server approved before for
\* another launch sees the launch text approved then, if it had any text, and the
\* one of now, and is warned of a card that any program could have written
\* (main.rs:90-147).
SwapShown ==
    \A i \in DOMAIN dialogs :
        dialogs[i].phase = "open" =>
            LET shown == dialogs[i].shown  card == dialogs[i].about.card IN
            /\ shown.stale =>
                 \E old \in approved :
                    /\ old[1] = card.name /\ old[2] # card.hash
                    /\ Line("Was", old[3]) \subseteq Content(shown)
                    /\ <<"Now", LaunchSummary(card)>> \in Content(shown)
            /\ {<<"Bound to", card.hash>>, <<"Identifier", card.name>>} \subseteq Window(shown)
            /\ card.tier \in {"user", "low"} => Warns(shown)

\* A grant in the store is what a person approved, having been shown that very
\* name, hash and launch text: no crash, time limit, failure or other exit code
\* of the dialog reads as approval (prompt.rs:109-128, main.rs:160-168).
GrantsAreApproved ==
    \A n \in Names :
        store[n].state = "granted" => <<n, store[n].hash, store[n].command>> \in approved

\* "An ignored prompt cannot linger": a dialog runs only while the request that
\* raised it waits for it, as long as its broker lives (prompt.rs:111-120).
NoDialogLingers ==
    \A i \in DOMAIN dialogs :
        (Running(i) /\ ~dialogs[i].orphan)
            => \E r \in Requests : task[r].phase = "asking" /\ task[r].dialog = i

\* Processes, time limits and deaths leave of a question what Question says: the
\* one of whoever asks is the only one whose answer counts, and what is recorded in
\* the end is about the launch in question (server.rs:57-109, prompt.rs:65-128).
\* A window that a dead broker left behind asks nothing any more.
QuestionOf(r) == [by |-> r, name |-> task[r].card.name, hash |-> task[r].card.hash]
WithoutText(record) ==
    IF record.state = "granted" THEN [state |-> "granted", hash |-> record.hash]
                                ELSE [state |-> record.state]
Asked == INSTANCE Question WITH
    Askers <- Requests,
    Hashes <- {card.hash : card \in Cards},
    open <- {QuestionOf(r) : r \in Holder},
    answers <- [n \in Names |-> WithoutText(store[n])]
KeepsQuestion == Asked!QuestionSpec

\* "An abandoned dialog must not wedge it forever": every request ends though
\* nobody answers and no dialog moves, and passes the lock on (prompt.rs:20-22).
QuestionEnds ==
    \A r \in Requests : task[r].phase \in {"waiting", "asking"} ~> task[r].phase = "done"
=============================================================================
