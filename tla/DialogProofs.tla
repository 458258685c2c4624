---------------------------- MODULE DialogProofs ----------------------------
(***************************************************************************)
(* The question put to a person, for any requests, cards and dialogs: who  *)
(* holds the lock, no dialog that outlives its request, what a window      *)
(* shows of the question whatever its texts look like, no grant but one    *)
(* that was approved, and a changed launch beside the old one.             *)
(***************************************************************************)
EXTENDS Dialog, WellFoundedInduction, TLAPS

-----------------------------------------------------------------------------
(* Types                                                                   *)

Hashes == {None} \cup {card.hash : card \in Cards}
Commands == {None} \cup {LaunchSummary(card) : card \in Cards}
Records == [state : {"not-asked", "granted", "denied"}, hash : Hashes, command : Commands]
Findings == [state : {"not-asked", "granted", "denied", "stale"},
             hash : Hashes, command : Commands]

Abouts == [card : Cards, caller : Callers, record : Findings]
ArgumentLists == {Arguments(a.card, a.caller, a.record) : a \in Abouts}
Shows == {Parse(args) : args \in ArgumentLists}
Dialogs ==
    [phase : {"started"}, about : Abouts, args : ArgumentLists, orphan : BOOLEAN]
    \cup [phase : {"open"}, about : Abouts, shown : Shows, orphan : BOOLEAN]
    \cup [phase : {"exited"}, about : Abouts, code : Codes, orphan : BOOLEAN]

Tasks ==
    {Away, Done}
    \cup [phase : {"waiting"}, card : Cards, caller : Callers]
    \cup [phase : {"asking"}, card : Cards, caller : Callers, dialog : Nat]

Typed ==
    /\ platform \in Platforms /\ up \in BOOLEAN /\ helper \in BOOLEAN
    /\ task \in [Requests -> Tasks]
    /\ lock \in Requests \cup {None}
    /\ dialogs \in Seq(Dialogs) /\ Len(dialogs) <= MaxDialogs
    /\ store \in [Names -> Records]

\* The lock is held by whoever asks, and a request asks about its own card.
Locked == Holder = IF lock = None THEN {} ELSE {lock}
Paired ==
    \A r \in Requests : task[r].phase = "asking" =>
        /\ task[r].dialog \in DOMAIN dialogs
        /\ dialogs[task[r].dialog].about.card = task[r].card

Orderly == Typed /\ Locked /\ Paired /\ NoDialogLingers

LEMMA TaskKinds ==
    /\ \A t \in Tasks :
         /\ t.phase \in {"away", "done", "waiting", "asking"}
         /\ t.phase = "away" <=> t = Away
         /\ t.phase \in {"waiting", "asking"} => t.card \in Cards /\ t.caller \in Callers
         /\ t.phase = "asking" => t.dialog \in Nat
    /\ Away \in Tasks /\ Done \in Tasks /\ Done.phase = "done" /\ Away.phase = "away"
    /\ \A card \in Cards, caller \in Callers :
         /\ Waiting(card, caller) \in Tasks /\ Waiting(card, caller).phase = "waiting"
         /\ \A i \in Nat :
              /\ Asking(card, caller, i) \in Tasks
              /\ Asking(card, caller, i).phase = "asking"
              /\ Asking(card, caller, i).dialog = i
              /\ Asking(card, caller, i).card = card
  BY DEF Tasks, Away, Done, Waiting, Asking

LEMMA DialogKinds ==
    \A d \in Dialogs :
        /\ d.phase \in {"started", "open", "exited"}
        /\ d.about \in Abouts /\ d.orphan \in BOOLEAN
        /\ d.phase = "started" => d.args \in ArgumentLists
        /\ d.phase = "open" => d.shown \in Shows
        /\ d.phase = "exited" => d.code \in Codes
  BY DEF Dialogs

LEMMA RecordKinds ==
    /\ NotAsked \in Records /\ Denied \in Records
    /\ \A card \in Cards : GrantedFor(card.hash, LaunchSummary(card)) \in Records
    /\ \A record \in Records : record \in Findings
  BY DEF NotAsked, Denied, GrantedFor, Records, Findings, Hashes, Commands

LEMMA EvaluateKinds ==
    ASSUME Typed, NEW card \in Cards
    PROVE  Evaluate(card) \in Findings
<1>1. store[card.name] \in Records
  BY DEF Typed, Names
<1> QED
  BY <1>1 DEF Evaluate, Records, Findings

\* What becomes of a dialog.
LEMMA SuccessorKinds ==
    ASSUME NEW d \in Dialogs
    PROVE  /\ \A shown \in Shows :
                /\ Open(d, shown) \in Dialogs
                /\ Open(d, shown).phase = "open"
                /\ Open(d, shown).orphan = d.orphan
                /\ Open(d, shown).about = d.about
           /\ \A code \in Codes :
                /\ Exited(d, code) \in Dialogs
                /\ Exited(d, code).phase = "exited"
                /\ Exited(d, code).code = code
                /\ Exited(d, code).about = d.about
           /\ [d EXCEPT !.orphan = TRUE] \in Dialogs
           /\ [d EXCEPT !.orphan = TRUE].orphan
           /\ [d EXCEPT !.orphan = TRUE].phase = d.phase
           /\ [d EXCEPT !.orphan = TRUE].about = d.about
           /\ d.phase = "exited" => [d EXCEPT !.orphan = TRUE].code = d.code
  BY DialogKinds DEF Dialogs, Open, Exited

LEMMA ExitedKinds ==
    ASSUME Typed, NEW i \in DOMAIN dialogs, NEW code \in Codes
    PROVE  /\ Exited(dialogs[i], code) \in Dialogs
           /\ Exited(dialogs[i], code).phase = "exited"
           /\ Exited(dialogs[i], code).code = code
           /\ Exited(dialogs[i], code).about = dialogs[i].about
<1>1. dialogs[i] \in Dialogs
  BY DEF Typed
<1> QED
  BY ONLY <1>1, code \in Codes, SuccessorKinds

-----------------------------------------------------------------------------
(* One step                                                                *)

LEMMA InitOrderly == ASSUME Init PROVE Orderly
<1> USE DEF Init
<1>1. Typed
  <2>1. task \in [Requests -> Tasks] /\ store \in [Names -> Records]
    BY TaskKinds, RecordKinds
  <2>2. dialogs \in Seq(Dialogs) /\ Len(dialogs) <= MaxDialogs
    BY DialogAssumption
  <2> QED
    BY <2>1, <2>2 DEF Typed
<1>2. \A r \in Requests : task[r].phase = "away"
  BY TaskKinds
<1>3. Locked /\ Paired
  BY <1>2 DEF Locked, Holder, Paired
<1>4. NoDialogLingers
  BY DEF NoDialogLingers
<1> QED
  BY <1>1, <1>3, <1>4 DEF Orderly

\* A request comes to its end, or starts to wait, without a dialog.
LEMMA TaskMoves ==
    ASSUME Orderly, UNCHANGED <<platform, dialogs, lock>>,
           up' \in BOOLEAN, helper' \in BOOLEAN, store' \in [Names -> Records],
           NEW r \in Requests, NEW t \in Tasks,
           task' = [task EXCEPT ![r] = t],
           task[r].phase # "asking", t.phase # "asking"
    PROVE  Orderly'
<1>1. \A q \in Requests : task'[q] = IF q = r THEN t ELSE task[q]
  BY DEF Orderly, Typed
<1>2. Typed'
  BY DEF Orderly, Typed
<1>3. Holder' = Holder
  BY <1>1 DEF Holder
<1>4. Locked' /\ Paired'
  BY <1>1, <1>3 DEF Orderly, Locked, Paired
<1>5. NoDialogLingers'
  BY <1>1 DEF Orderly, NoDialogLingers, Running
<1> QED
  BY <1>2, <1>4, <1>5 DEF Orderly

\* A dialog opens or ends while every request stays as it is.
LEMMA DialogMoves ==
    ASSUME Orderly, UNCHANGED <<world, task, lock, store>>,
           NEW i \in DOMAIN dialogs, Running(i), NEW d \in Dialogs, Becomes(i, d),
           d.about = dialogs[i].about, d.phase = "exited" \/ d.orphan = dialogs[i].orphan
    PROVE  Orderly'
<1> USE DEF world
<1>1. /\ dialogs' \in Seq(Dialogs) /\ Len(dialogs') = Len(dialogs)
      /\ DOMAIN dialogs' = DOMAIN dialogs
      /\ \A j \in DOMAIN dialogs : dialogs'[j] = IF j = i THEN d ELSE dialogs[j]
  BY DEF Becomes, Orderly, Typed
<1>2. Typed'
  BY <1>1 DEF Orderly, Typed
<1>3. Locked'
  BY DEF Orderly, Locked, Holder
<1>4. Paired'
  BY <1>1 DEF Orderly, Paired
<1>5. NoDialogLingers'
  BY <1>1 DEF Orderly, NoDialogLingers, Running
<1> QED
  BY <1>2, <1>3, <1>4, <1>5 DEF Orderly

\* Whoever asks comes to an end: its dialog runs no more.
LEMMA AskerEnds ==
    ASSUME Orderly, UNCHANGED world, store' \in [Names -> Records],
           NEW r \in Requests, task[r].phase = "asking", Ends(r), lock' = None,
           dialogs' \in Seq(Dialogs), Len(dialogs') = Len(dialogs),
           dialogs'[task[r].dialog].phase = "exited",
           \A j \in DOMAIN dialogs : j # task[r].dialog => dialogs'[j] = dialogs[j]
    PROVE  Orderly'
<1> USE DEF world
<1>1. \A q \in Requests : task'[q] = IF q = r THEN Done ELSE task[q]
  BY DEF Ends, Orderly, Typed
<1>2. Holder = {r}
  BY DEF Orderly, Locked, Holder
<1>3. \A q \in Requests : task'[q].phase # "asking"
  BY <1>1, <1>2, TaskKinds DEF Holder
<1>4. Typed'
  <2>1. task' \in [Requests -> Tasks]
    BY TaskKinds DEF Ends, Orderly, Typed
  <2> QED
    BY <2>1 DEF Orderly, Typed
<1>5. Locked' /\ Paired'
  BY <1>3 DEF Locked, Holder, Paired
<1>6. NoDialogLingers'
  <2>1. DOMAIN dialogs' = DOMAIN dialogs
    BY DEF Orderly, Typed
  <2>2. ASSUME NEW j \in DOMAIN dialogs, Running(j)' PROVE dialogs'[j].orphan
    <3>1. j # task[r].dialog /\ dialogs'[j] = dialogs[j]
      BY <2>2 DEF Running
    <3>2. \A q \in Requests : task[q].phase = "asking" => q = r
      BY <1>2 DEF Holder
    <3> QED
      BY <2>2, <3>1, <3>2 DEF Orderly, NoDialogLingers, Running
  <2> QED
    BY <2>1, <2>2 DEF NoDialogLingers
<1> QED
  BY <1>4, <1>5, <1>6 DEF Orderly

LEMMA RaisedKinds ==
    ASSUME Orderly, NEW r \in Requests, Raises(r)
    PROVE  \E new \in Dialogs :
             /\ new.phase = "started" /\ new.about.card = task[r].card
             /\ dialogs' = Append(dialogs, new)
<1> DEFINE card == task[r].card
           caller == task[r].caller
           about == [card |-> card, caller |-> caller, record |-> Evaluate(card)]
           new == Started(about, Arguments(card, caller, Evaluate(card)))
<1>1. task[r].phase = "waiting" /\ dialogs' = Append(dialogs, new)
  BY DEF Raises, HasTurn
<1>2. card \in Cards /\ caller \in Callers
  BY <1>1, TaskKinds DEF Orderly, Typed
<1>3. about \in Abouts
  BY <1>2, EvaluateKinds DEF Abouts, Orderly
<1>4. new \in Dialogs /\ new.phase = "started" /\ new.about.card = card
  <2>1. Arguments(card, caller, Evaluate(card)) \in ArgumentLists
    BY <1>3 DEF ArgumentLists
  <2> QED
    BY <1>3, <2>1 DEF Started, Dialogs
<1> QED
  BY <1>1, <1>4

LEMMA RaisesOrderly ==
    ASSUME Orderly, NEW r \in Requests, Raises(r)
    PROVE  Orderly'
<1> DEFINE card == task[r].card
           caller == task[r].caller
           n == Len(dialogs) + 1
<1>1. /\ task[r].phase = "waiting" /\ lock = None /\ lock' = r
      /\ Len(dialogs) < MaxDialogs
      /\ task' = [task EXCEPT ![r] = Asking(card, caller, n)]
      /\ UNCHANGED <<platform, up, helper, store, approved>>
  BY DEF Raises, HasTurn, world
<1>2. card \in Cards /\ caller \in Callers
  BY <1>1, TaskKinds DEF Orderly, Typed
<1>3. PICK new \in Dialogs : new.about.card = card /\ dialogs' = Append(dialogs, new)
  BY RaisedKinds
<1>4. /\ dialogs' \in Seq(Dialogs) /\ Len(dialogs') = n
      /\ DOMAIN dialogs' = DOMAIN dialogs \cup {n}
      /\ \A i \in DOMAIN dialogs : dialogs'[i] = dialogs[i]
      /\ dialogs'[n] = new /\ n \in Nat
  BY <1>3 DEF Orderly, Typed
<1> DEFINE asking == Asking(card, caller, n)
<1>5. /\ asking \in Tasks /\ asking.phase = "asking"
      /\ asking.dialog = n /\ asking.card = card
  BY <1>2, <1>4, TaskKinds
<1> HIDE DEF asking
<1>6. \A q \in Requests : task'[q] = IF q = r THEN asking ELSE task[q]
  BY <1>1 DEF Orderly, Typed, asking
<1>7. Typed'
  <2>1. task' \in [Requests -> Tasks]
    BY <1>1, <1>5 DEF Orderly, Typed, asking
  <2>2. Len(dialogs') <= MaxDialogs
    BY <1>1, <1>4, DialogAssumption DEF Orderly, Typed
  <2> QED
    BY <1>1, <1>4, <2>1, <2>2 DEF Orderly, Typed
<1>8. Locked'
  <2>1. Holder = {}
    BY <1>1 DEF Orderly, Locked
  <2>2. Holder' = {r}
    BY <1>5, <1>6, <2>1 DEF Holder
  <2> QED
    BY <1>1, <2>2, DialogAssumption DEF Locked
<1>9. Paired'
  BY <1>3, <1>4, <1>5, <1>6 DEF Orderly, Paired
<1>10. NoDialogLingers'
  <2>1. ASSUME NEW i \in DOMAIN dialogs', Running(i)', ~dialogs'[i].orphan
        PROVE  \E q \in Requests : task'[q].phase = "asking" /\ task'[q].dialog = i
    <3>1. CASE i = n
      BY <1>5, <1>6, <3>1
    <3>2. CASE i \in DOMAIN dialogs
      <4>1. PICK q \in Requests : task[q].phase = "asking" /\ task[q].dialog = i
        BY <1>4, <2>1, <3>2 DEF Orderly, NoDialogLingers, Running
      <4>2. task'[q] = task[q]
        BY <1>1, <1>6, <4>1
      <4> QED
        BY <4>1, <4>2
    <3> QED
      BY <1>4, <3>1, <3>2
  <2> QED
    BY <2>1 DEF NoDialogLingers
<1> QED
  BY <1>7, <1>8, <1>9, <1>10 DEF Orderly

LEMMA BrokerDiesOrderly ==
    ASSUME Orderly, BrokerDies
    PROVE  Orderly'
<1> USE DEF BrokerDies
<1>1. \A r \in Requests : task'[r] \in {Away, Done}
  OBVIOUS
<1>2. \A r \in Requests : task'[r].phase # "asking"
  BY <1>1, TaskKinds
<1>3. /\ dialogs' \in Seq(Dialogs) /\ Len(dialogs') = Len(dialogs)
      /\ \A i \in DOMAIN dialogs' : dialogs'[i].orphan
  <2>1. dialogs \in Seq(Dialogs)
    BY DEF Orderly, Typed
  <2> DEFINE left(i) == [dialogs[i] EXCEPT !.orphan = TRUE]
  <2>2. \A i \in DOMAIN dialogs : left(i) \in Dialogs /\ left(i).orphan
    BY <2>1, SuccessorKinds
  <2>3. dialogs' = [i \in 1..Len(dialogs) |-> left(i)]
    BY <2>1
  <2>4. Len(dialogs) \in Nat /\ DOMAIN dialogs = 1..Len(dialogs)
    BY <2>1
  <2> HIDE DEF left
  <2>5. dialogs' \in [1..Len(dialogs) -> Dialogs]
    BY ONLY <2>2, <2>3, <2>4
  <2>6. dialogs' \in Seq(Dialogs) /\ Len(dialogs') = Len(dialogs)
    BY ONLY <2>4, <2>5
  <2> QED
    BY ONLY <2>2, <2>3, <2>4, <2>6
<1>4. Typed'
  <2>1. task' \in [Requests -> Tasks]
    BY TaskKinds
  <2> QED
    BY <1>3, <2>1 DEF Orderly, Typed
<1>5. Locked' /\ Paired' /\ NoDialogLingers'
  BY <1>2, <1>3 DEF Locked, Holder, Paired, NoDialogLingers
<1> QED
  BY <1>4, <1>5 DEF Orderly

LEMMA OpensOrderly ==
    ASSUME Orderly, NEW i \in DOMAIN dialogs, Opens(i)
    PROVE  Orderly'
<1>1. dialogs[i] \in Dialogs /\ dialogs[i].phase = "started" /\ Running(i)
  BY DEF Opens, Orderly, Typed, Running
<1>2. Parse(dialogs[i].args) \in Shows
  BY <1>1, DialogKinds DEF Shows
<1>3. UNCHANGED <<world, task, lock, store>>
  BY DEF Opens
<1>4. PICK d : /\ Becomes(i, d)
               /\ \/ d = Open(dialogs[i], Parse(dialogs[i].args))
                  \/ \E code \in {USAGE, UNSUPPORTED, DISMISSED} : d = Exited(dialogs[i], code)
  BY DEF Opens
<1>5. /\ d \in Dialogs /\ d.about = dialogs[i].about
      /\ d.phase = "exited" \/ d.orphan = dialogs[i].orphan
  <2>1. CASE d = Open(dialogs[i], Parse(dialogs[i].args))
    BY ONLY <1>1, <1>2, <2>1, SuccessorKinds
  <2>2. CASE \E code \in {USAGE, UNSUPPORTED, DISMISSED} : d = Exited(dialogs[i], code)
    BY <2>2, ExitedKinds DEF Orderly, Codes
  <2> QED
    BY <1>4, <2>1, <2>2
<1> QED
  BY <1>1, <1>3, <1>4, <1>5, DialogMoves

LEMMA OrderlyStep == ASSUME Orderly, [Next]_vars PROVE Orderly'
<1> USE DEF world
<1>0. /\ up \in BOOLEAN /\ helper \in BOOLEAN
      /\ store \in [Names -> Records] /\ dialogs \in Seq(Dialogs)
      /\ task \in [Requests -> Tasks]
  BY DEF Orderly, Typed
<1>1. ASSUME NEW r \in Requests, NEW card \in Cards, NEW caller \in Callers,
             Arrives(r, card, caller)
      PROVE  Orderly'
  <2>1. Waiting(card, caller) \in Tasks /\ Waiting(card, caller).phase = "waiting"
    BY TaskKinds
  <2>2. task[r].phase # "asking"
    BY <1>1, TaskKinds DEF Arrives
  <2> QED
    BY <1>0, <1>1, <2>1, <2>2, TaskMoves DEF Arrives
<1>2. ASSUME NEW r \in Requests, NoDialog(r) PROVE Orderly'
  BY <1>0, <1>2, TaskKinds, TaskMoves DEF NoDialog, HasTurn, Ends
<1>3. ASSUME NEW r \in Requests, Raises(r) PROVE Orderly'
  BY <1>3, RaisesOrderly
<1>4. ASSUME NEW r \in Requests, AnswerComes(r) PROVE Orderly'
  <2>1. task[r] \in Tasks /\ task[r].phase = "asking"
    BY <1>0, <1>4 DEF AnswerComes
  <2>2. task[r].card \in Cards /\ task[r].card.name \in Names
    BY <2>1, TaskKinds DEF Names
  <2>3. store' \in [Names -> Records]
    BY <1>0, <1>4, <2>2, RecordKinds DEF AnswerComes, Decision
  <2>4. dialogs[task[r].dialog].phase = "exited"
    BY <1>4 DEF AnswerComes, Running
  <2> QED
    BY <1>0, <1>4, <2>1, <2>3, <2>4, AskerEnds DEF AnswerComes
<1>5. ASSUME NEW r \in Requests, TimesOut(r) PROVE Orderly'
  <2> DEFINE i == task[r].dialog
  <2>1. task[r].phase = "asking" /\ i \in DOMAIN dialogs
    BY <1>5 DEF TimesOut, Orderly, Paired
  <2>2. /\ dialogs' \in Seq(Dialogs) /\ Len(dialogs') = Len(dialogs)
        /\ dialogs'[i].phase = "exited"
        /\ \A j \in DOMAIN dialogs : j # i => dialogs'[j] = dialogs[j]
    <3>1. CASE Running(i)
      <4> DEFINE d == Exited(dialogs[i], None)
      <4>1. d \in Dialogs /\ d.phase = "exited"
        BY <2>1, ExitedKinds DEF Orderly, Codes
      <4>2. dialogs' = [dialogs EXCEPT ![i] = d]
        BY <1>5, <3>1 DEF TimesOut, Becomes
      <4> HIDE DEF d, i
      <4> QED
        BY ONLY <1>0, <2>1, <4>1, <4>2
    <3>2. CASE ~Running(i)
      BY <1>0, <1>5, <3>2 DEF TimesOut, Running
    <3> QED
      BY <3>1, <3>2
  <2> QED
    BY <1>0, <1>5, <2>1, <2>2, AskerEnds DEF TimesOut
<1>6. ASSUME NEW i \in DOMAIN dialogs, Opens(i) PROVE Orderly'
  BY <1>6, OpensOrderly
<1>7. ASSUME NEW i \in DOMAIN dialogs,
             IsEnded(i) \/ \E code \in {ALLOW, DENY, DISMISSED} : Press(i, code)
      PROVE  Orderly'
  <2>1. PICK code \in Codes : Becomes(i, Exited(dialogs[i], code))
    BY <1>7 DEF IsEnded, Press, Codes
  <2>2. Running(i) /\ UNCHANGED <<world, task, lock, store>>
    BY <1>7 DEF IsEnded, Press, Running
  <2>3. /\ Exited(dialogs[i], code) \in Dialogs
        /\ Exited(dialogs[i], code).phase = "exited"
        /\ Exited(dialogs[i], code).about = dialogs[i].about
    BY <2>1, ExitedKinds DEF Orderly
  <2> QED
    BY <2>1, <2>2, <2>3, DialogMoves
<1>8. CASE BrokerDies
  BY <1>8, BrokerDiesOrderly
<1>9. CASE BrokerStarts \/ UNCHANGED vars
  BY <1>9 DEF BrokerStarts, vars, Orderly, Typed, Locked, Holder, Paired,
              NoDialogLingers, Running
<1>10. ASSUME NEW card \in Cards, ConsentCommand(card) PROVE Orderly'
  <2>1. card.name \in Names
    BY DEF Names
  <2>2. store' \in [Names -> Records]
    BY <1>0, <1>10, <2>1, RecordKinds DEF ConsentCommand
  <2> QED
    BY <1>10, <2>2 DEF ConsentCommand, Orderly, Typed, Locked, Holder, Paired,
                       NoDialogLingers, Running
<1> QED
  BY <1>1, <1>2, <1>3, <1>4, <1>5, <1>6, <1>7, <1>8, <1>9, <1>10 DEF Next, RequestStep

LEMMA OrderlyHolds == Spec => []Orderly
  BY InitOrderly, OrderlyStep, PTL DEF Spec

\* Types, and that the prompt lock is held by whoever asks and nobody else
\* (server.rs:58).
THEOREM TypeCorrect == Spec => []TypeOK
<1>1. ASSUME Orderly PROVE TypeOK
  <2>1. \A i \in DOMAIN dialogs : dialogs[i].phase = "exited" => dialogs[i].code \in Codes
    BY <1>1, DialogKinds DEF Orderly, Typed
  <2>2. \A n \in Names : store[n].state \in {"not-asked", "granted", "denied"}
    BY <1>1 DEF Orderly, Typed, Records
  <2> QED
    BY <1>1, <2>1, <2>2 DEF Orderly, Typed, Locked, TypeOK
<1> QED
  BY <1>1, OrderlyHolds, PTL

\* However a request ends, by an answer, its time limit or an error, no dialog
\* of a broker that lives runs on without it (prompt.rs:111-120).
THEOREM LingeringCorrect == Spec => []NoDialogLingers
<1>1. Orderly => NoDialogLingers
  BY DEF Orderly
<1> QED
  BY <1>1, OrderlyHolds, PTL

-----------------------------------------------------------------------------
(* The question as arguments, and as what they are read as                 *)

\* A set of positions that holds what the loop of Request::parse holds of the flags
\* is the set of the flags.
LEMMA FlagPositionsAre ==
    ASSUME NEW args, NEW n \in Nat, DOMAIN args = 1..n, NEW P \in SUBSET (1..n),
           \A i \in 1..n : i \in P <=> (i = 1 \/ (i - 1 \in P => args[i - 1] = "--stale"))
    PROVE  FlagPositions(args) = P
<1> DEFINE f == [i \in 1..n |-> i \in P]
           step(g) == [i \in 1..n |-> i = 1 \/ (g[i - 1] => args[i - 1] = "--stale")]
           g == CHOOSE g : g = step(g)
<1>1. f = step(f)
  <2>1. ASSUME NEW i \in 1..n
        PROVE  f[i] = (i = 1 \/ (f[i - 1] => args[i - 1] = "--stale"))
    <3>1. CASE i = 1
      BY <3>1
    <3>2. CASE i # 1
      <4>1. i - 1 \in 1..n
        BY <3>2
      <4>2. f[i - 1] = (i - 1 \in P) /\ f[i] = (i \in P)
        BY <4>1
      <4>3. (i \in P) = (i - 1 \in P => args[i - 1] = "--stale")
        BY <3>2
      <4> QED
        BY ONLY <3>2, <4>2, <4>3, Zenon
    <3> QED
      BY <3>1, <3>2
  <2> HIDE DEF f
  <2>2. f = [i \in 1..n |-> f[i]]
    BY DEF f
  <2> QED
    BY <2>1, <2>2
<1>2. g = step(g)
  <2> HIDE DEF f, step
  <2>1. \E h : h = step(h)
    BY <1>1
  <2> QED
    BY <2>1, Zenon
<1>3. FlagPositions(args) = {i \in 1..n : g[i]}
  BY Zenon DEF FlagPositions
<1>4. \A i \in 1..n : g[i] <=> (i = 1 \/ (g[i - 1] => args[i - 1] = "--stale"))
  <2> HIDE DEF g
  <2> QED
    BY <1>2
<1> HIDE DEF g, f, step
<1> DEFINE R == OpToRel(<, Nat)
           T == {i \in 1..n : ~(g[i] <=> i \in P)}
<1>5. IsWellFoundedOn(R, Nat)
  BY NatLessThanWellFounded
<1>6. T = {}
  <2> SUFFICES ASSUME T # {} PROVE FALSE
    OBVIOUS
  <2>1. T \subseteq Nat
    OBVIOUS
  <2>2. PICK i \in T : \A j \in T : ~(<<j, i>> \in R)
    <3> HIDE DEF R, T
    <3> QED
      BY <1>5, <2>1, WFMin
  <2>3. i # 1
    BY <1>4
  <2>4. i - 1 \in 1..n /\ i - 1 \in Nat /\ i \in Nat /\ i - 1 < i
    BY <2>3
  <2>5. <<i - 1, i>> \in R
    BY <2>4 DEF OpToRel
  <2>6. g[i - 1] <=> i - 1 \in P
    BY <2>2, <2>4, <2>5
  <2> QED
    BY <1>4, <2>3, <2>4, <2>6
<1> QED
  BY <1>3, <1>6

\* The flags of a question, where s, c and t are the lengths of the parts that may
\* be missing: the summary, the client, and what is said of a stale record.
Placed(args, s, c, t) ==
    /\ s \in {0, 2} /\ c \in {0, 2} /\ t \in {0, 1, 3}
    /\ DOMAIN args = 1..(14 + s + c + t)
    /\ args[1] = "--name" /\ args[3] = "--title" /\ args[5] = "--tier"
    /\ args[7] = "--card" /\ args[9] = "--hash"
    /\ s = 2 => args[11] = "--summary"
    /\ args[11 + s] = "--command" /\ args[13 + s] = "--publisher"
    /\ c = 2 => args[15 + s] = "--client"
    /\ t # 0 => args[15 + s + c] = "--stale"
    /\ t = 3 => args[16 + s + c] = "--previous"

\* The flags among the arguments, and no value among them.
LEMMA FlagsPlaced ==
    ASSUME NEW args, NEW s, NEW c, NEW t, Placed(args, s, c, t)
    PROVE  FlagPositions(args) =
             {1, 3, 5, 7, 9, 11 + s, 13 + s}
               \cup (IF s = 2 THEN {11} ELSE {}) \cup (IF c = 2 THEN {15 + s} ELSE {})
               \cup (IF t # 0 THEN {15 + s + c} ELSE {}) \cup (IF t = 3 THEN {16 + s + c} ELSE {})
<1> DEFINE P == {1, 3, 5, 7, 9, 11 + s, 13 + s}
               \cup (IF s = 2 THEN {11} ELSE {}) \cup (IF c = 2 THEN {15 + s} ELSE {})
               \cup (IF t # 0 THEN {15 + s + c} ELSE {}) \cup (IF t = 3 THEN {16 + s + c} ELSE {})
           n == 14 + s + c + t
<1>1. n \in Nat /\ P \in SUBSET (1..n)
  BY DEF Placed
<1>2. \A i \in 1..n : i \in P <=> (i = 1 \/ (i - 1 \in P => args[i - 1] = "--stale"))
  <2>1. \A i \in 1..n : i \in P <=>
             \/ i \in {1, 3, 5, 7, 9, 11, 13, 15, 17, 19} /\ i <= 15 + s + c
             \/ i = 16 + s + c
    BY DEF Placed
  <2>2. SUFFICES ASSUME NEW i \in 1..n, i # 1
               PROVE  i \in P <=> (i - 1 \in P => args[i - 1] = "--stale")
    BY <2>1
  <2>3. i - 1 \in 1..n
    BY <1>1, <2>2
  <2>4. \A j \in P : args[j] = "--stale" <=> j = 15 + s + c
    BY DEF Placed
  <2> HIDE DEF P
  <2> QED
    BY <2>1, <2>2, <2>3, <2>4 DEF Placed
<1>3. DOMAIN args = 1..n
  BY DEF Placed
<1> HIDE DEF P, n
<1>4. FlagPositions(args) = P
  BY <1>1, <1>2, <1>3, FlagPositionsAre
<1> QED
  BY <1>4 DEF P

LEMMA AtPlaced ==
    ASSUME NEW args, NEW s, NEW c, NEW t, Placed(args, s, c, t)
    PROVE  /\ At(args, "--name") = {1} /\ At(args, "--title") = {3}
           /\ At(args, "--tier") = {5} /\ At(args, "--card") = {7}
           /\ At(args, "--hash") = {9} /\ At(args, "--command") = {11 + s}
           /\ At(args, "--publisher") = {13 + s}
           /\ At(args, "--summary") = IF s = 2 THEN {11} ELSE {}
           /\ At(args, "--client") = IF c = 2 THEN {15 + s} ELSE {}
           /\ At(args, "--stale") = IF t # 0 THEN {15 + s + c} ELSE {}
           /\ At(args, "--previous") = IF t = 3 THEN {16 + s + c} ELSE {}
<1> DEFINE P == FlagPositions(args)
<1>1. P = {1, 3, 5, 7, 9, 11 + s, 13 + s}
               \cup (IF s = 2 THEN {11} ELSE {}) \cup (IF c = 2 THEN {15 + s} ELSE {})
               \cup (IF t # 0 THEN {15 + s + c} ELSE {}) \cup (IF t = 3 THEN {16 + s + c} ELSE {})
  BY FlagsPlaced
<1> HIDE DEF P
<1> USE DEF Placed
<1>2. {i \in P : args[i] = "--name"} = {1}
  BY <1>1
<1>3. {i \in P : args[i] = "--title"} = {3}
  BY <1>1
<1>4. {i \in P : args[i] = "--tier"} = {5}
  BY <1>1
<1>5. {i \in P : args[i] = "--card"} = {7}
  BY <1>1
<1>6. {i \in P : args[i] = "--hash"} = {9}
  BY <1>1
<1>7. {i \in P : args[i] = "--command"} = {11 + s}
  BY <1>1
<1>8. {i \in P : args[i] = "--publisher"} = {13 + s}
  BY <1>1
<1>9. {i \in P : args[i] = "--summary"} = IF s = 2 THEN {11} ELSE {}
  BY <1>1
<1>10. {i \in P : args[i] = "--client"} = IF c = 2 THEN {15 + s} ELSE {}
  BY <1>1
<1>11. {i \in P : args[i] = "--stale"} = IF t # 0 THEN {15 + s + c} ELSE {}
  BY <1>1
<1>12. {i \in P : args[i] = "--previous"} = IF t = 3 THEN {16 + s + c} ELSE {}
  BY <1>1
<1> QED
  BY ONLY <1>2, <1>3, <1>4, <1>5, <1>6, <1>7, <1>8, <1>9, <1>10, <1>11, <1>12 DEF At, P

LEMMA WellFormedPlaced ==
    ASSUME NEW args, NEW s, NEW c, NEW t, Placed(args, s, c, t), Len(args) = 14 + s + c + t
    PROVE  ~IsMalformed(args)
<1> DEFINE P == FlagPositions(args)
<1>1. P = {1, 3, 5, 7, 9, 11 + s, 13 + s}
               \cup (IF s = 2 THEN {11} ELSE {}) \cup (IF c = 2 THEN {15 + s} ELSE {})
               \cup (IF t # 0 THEN {15 + s + c} ELSE {}) \cup (IF t = 3 THEN {16 + s + c} ELSE {})
  BY FlagsPlaced
<1> HIDE DEF P
<1>2. \A i \in P : i # Len(args) \/ args[i] = "--stale"
  BY <1>1 DEF Placed
<1>3. \A i \in P : args[i] \in ValueFlags \cup {"--stale"}
  BY <1>1 DEF Placed, ValueFlags
<1> QED
  BY ONLY <1>2, <1>3 DEF IsMalformed, P

\* The lengths of the parts of a question that may be missing, and what is said where.
SummaryLength(card) == IF card.summary = None THEN 0 ELSE 2
ClientLength(caller) == IF caller = None THEN 0 ELSE 2
StaleLength(record) ==
    IF record.state # "stale" THEN 0 ELSE IF record.command = None THEN 1 ELSE 3

Laid(args, card, caller, record) ==
    LET s == SummaryLength(card)
        c == ClientLength(caller)
        n == 14 + s + c + StaleLength(record)
    IN /\ DOMAIN args = 1..n /\ Len(args) = n
       /\ args[1] = "--name" /\ args[2] = card.name
       /\ args[3] = "--title"
       /\ args[4] = IF card.title = None THEN card.name ELSE card.title
       /\ args[5] = "--tier" /\ args[6] = card.tier
       /\ args[7] = "--card" /\ args[8] = card.path
       /\ args[9] = "--hash" /\ args[10] = card.hash
       /\ card.summary # None => args[11] = "--summary" /\ args[12] = card.summary
       /\ args[11 + s] = "--command" /\ args[12 + s] = LaunchSummary(card)
       /\ args[13 + s] = "--publisher" /\ args[14 + s] = PublisherOf(card)
       /\ caller # None => args[15 + s] = "--client" /\ args[16 + s] = caller
       /\ record.state = "stale" =>
            /\ args[15 + s + c] = "--stale"
            /\ record.command # None =>
                        args[16 + s + c] = "--previous" /\ args[17 + s + c] = record.command

LEMMA ArgumentsLaid ==
    ASSUME NEW card, NEW caller, NEW record
    PROVE  Laid(Arguments(card, caller, record), card, caller, record)
  BY DEF Laid, Arguments, Given, SummaryLength, ClientLength, StaleLength

LEMMA FieldAt ==
    ASSUME NEW args, NEW flag, NEW i \in Nat, NEW j, j = i + 1, At(args, flag) = {i}
    PROVE  Field(args, flag) = args[j]
<1>1. (CHOOSE k \in {i} : \A l \in {i} : l <= k) = i
  OBVIOUS
<1>2. Field(args, flag) = args[1 + i]
  BY ONLY <1>1, At(args, flag) = {i} DEF Field
<1>3. 1 + i = j
  BY ONLY i \in Nat, j = i + 1
<1> QED
  BY ONLY <1>2, <1>3

LEMMA FieldAbsent ==
    ASSUME NEW args, NEW flag, At(args, flag) = {}
    PROVE  Field(args, flag) = ""
  BY DEF Field


\* The fields of a question, each as it was given.
AsGiven(card, caller, record) ==
    [usage |-> FALSE, stale |-> record.state = "stale",
     name |-> card.name,
     title |-> IF card.title \in {None, ""} THEN card.name ELSE card.title,
     summary |-> Text(card.summary), command |-> LaunchSummary(card),
     tier |-> card.tier, publisher |-> PublisherOf(card),
     client |-> Text(caller), card |-> card.path, hash |-> card.hash,
     previous |-> IF record.state = "stale" THEN Text(record.command) ELSE ""]

\* What the dialog program reads is what the broker was given.
LEMMA ParsedLaid ==
    ASSUME NEW args, NEW card, NEW caller, NEW record, Laid(args, card, caller, record),
           card.name # ""
    PROVE  Parse(args) = AsGiven(card, caller, record)
<1> DEFINE s == SummaryLength(card)
           c == ClientLength(caller)
           t == StaleLength(record)
<1>0. s \in {0, 2} /\ c \in {0, 2} /\ t \in {0, 1, 3}
  BY DEF SummaryLength, ClientLength, StaleLength
<1>1. /\ card.summary # None <=> s = 2
      /\ caller # None <=> c = 2
      /\ record.state = "stale" <=> t # 0
      /\ (record.state = "stale" /\ record.command # None) <=> t = 3
  <2>1. card.summary # None <=> s = 2
    BY ONLY DEF SummaryLength
  <2>2. caller # None <=> c = 2
    BY ONLY DEF ClientLength
  <2>3. /\ record.state = "stale" <=> t # 0
        /\ (record.state = "stale" /\ record.command # None) <=> t = 3
    BY ONLY DEF StaleLength
  <2> QED
    BY ONLY <2>1, <2>2, <2>3
<1>2. /\ Len(args) = 14 + s + c + t
      /\ args[2] = card.name
      /\ args[4] = IF card.title = None THEN card.name ELSE card.title
      /\ args[6] = card.tier /\ args[8] = card.path /\ args[10] = card.hash
      /\ s = 2 => args[12] = card.summary
      /\ args[12 + s] = LaunchSummary(card) /\ args[14 + s] = PublisherOf(card)
      /\ c = 2 => args[16 + s] = caller
      /\ t = 3 => args[17 + s + c] = record.command
  BY <1>1 DEF Laid
<1>3. Placed(args, s, c, t)
  BY <1>0, <1>1 DEF Laid, Placed
<1> HIDE DEF s, c, t
<1>7. /\ At(args, "--name") = {1} /\ At(args, "--title") = {3}
      /\ At(args, "--tier") = {5} /\ At(args, "--card") = {7}
      /\ At(args, "--hash") = {9} /\ At(args, "--command") = {11 + s}
      /\ At(args, "--publisher") = {13 + s}
      /\ At(args, "--summary") = IF s = 2 THEN {11} ELSE {}
      /\ At(args, "--client") = IF c = 2 THEN {15 + s} ELSE {}
      /\ At(args, "--stale") = IF t # 0 THEN {15 + s + c} ELSE {}
      /\ At(args, "--previous") = IF t = 3 THEN {16 + s + c} ELSE {}
  BY ONLY <1>3, AtPlaced
<1>10. ~IsMalformed(args)
  BY <1>2, <1>3, WellFormedPlaced
<1>11. /\ Field(args, "--name") = card.name
       /\ Field(args, "--title") = IF card.title = None THEN card.name ELSE card.title
       /\ Field(args, "--tier") = card.tier /\ Field(args, "--card") = card.path
       /\ Field(args, "--hash") = card.hash
  <2>1. /\ Field(args, "--name") = args[2] /\ Field(args, "--title") = args[4]
        /\ Field(args, "--tier") = args[6] /\ Field(args, "--card") = args[8]
        /\ Field(args, "--hash") = args[10]
    BY ONLY <1>7, FieldAt
  <2> QED
    BY <1>2, <2>1
<1>12. /\ Field(args, "--command") = LaunchSummary(card)
       /\ Field(args, "--publisher") = PublisherOf(card)
  <2>1. /\ 11 + s \in Nat /\ 12 + s = 11 + s + 1
        /\ 13 + s \in Nat /\ 14 + s = 13 + s + 1
    BY ONLY <1>0
  <2>2. /\ Field(args, "--command") = args[12 + s]
        /\ Field(args, "--publisher") = args[14 + s]
    BY ONLY <1>7, <2>1, FieldAt
  <2> QED
    BY <1>2, <2>2
<1>13. Field(args, "--summary") = Text(card.summary)
  <2>1. CASE s = 2
    <3>1. Field(args, "--summary") = args[12]
      BY ONLY <1>7, <2>1, FieldAt
    <3>2. args[12] = card.summary /\ card.summary # None
      BY ONLY <1>1, <1>2, <2>1
    <3> QED
      BY ONLY <3>1, <3>2 DEF Text
  <2>2. CASE s # 2
    <3>1. Field(args, "--summary") = ""
      BY ONLY <1>7, <2>2, FieldAbsent
    <3> QED
      BY ONLY <1>1, <2>2, <3>1 DEF Text
  <2> QED
    BY <2>1, <2>2
<1>14. Field(args, "--client") = Text(caller)
  <2>1. CASE c = 2
    <3>1. 15 + s \in Nat /\ 16 + s = 15 + s + 1
      BY ONLY <1>0
    <3>2. Field(args, "--client") = args[16 + s]
      BY ONLY <1>7, <2>1, <3>1, FieldAt
    <3>3. args[16 + s] = caller /\ caller # None
      BY ONLY <1>1, <1>2, <2>1
    <3> QED
      BY ONLY <3>2, <3>3 DEF Text
  <2>2. CASE c # 2
    <3>1. Field(args, "--client") = ""
      BY ONLY <1>7, <2>2, FieldAbsent
    <3> QED
      BY ONLY <1>1, <2>2, <3>1 DEF Text
  <2> QED
    BY <2>1, <2>2
<1>15. Field(args, "--previous") = IF record.state = "stale" THEN Text(record.command) ELSE ""
  <2>1. CASE t = 3
    <3>1. 16 + s + c \in Nat /\ 17 + s + c = 16 + s + c + 1
      BY ONLY <1>0
    <3>2. Field(args, "--previous") = args[17 + s + c]
      BY ONLY <1>7, <2>1, <3>1, FieldAt
    <3>3. /\ args[17 + s + c] = record.command
          /\ record.command # None /\ record.state = "stale"
      BY ONLY <1>1, <1>2, <2>1
    <3> QED
      BY ONLY <3>2, <3>3 DEF Text
  <2>2. CASE t # 3
    <3>1. Field(args, "--previous") = ""
      BY ONLY <1>7, <2>2, FieldAbsent
    <3> QED
      BY ONLY <1>1, <2>2, <3>1 DEF Text
  <2> QED
    BY <2>1, <2>2
<1>16. (At(args, "--stale") # {}) = (record.state = "stale")
  BY ONLY <1>1, <1>7
<1>17. (IF Field(args, "--title") = "" THEN Field(args, "--name") ELSE Field(args, "--title"))
          = IF card.title \in {None, ""} THEN card.name ELSE card.title
  BY ONLY <1>11
<1> QED
  BY ONLY <1>10, <1>11, <1>12, <1>13, <1>14, <1>15, <1>16, <1>17, card.name # ""
     DEF Parse, AsGiven

\* The arguments of a question, whatever its texts look like, are read as exactly
\* those texts: no text is taken for a flag or for another field.
LEMMA ParsedArguments ==
    ASSUME NEW card, NEW caller, NEW record, card.name # ""
    PROVE  Parse(Arguments(card, caller, record)) = AsGiven(card, caller, record)
<1> DEFINE args == Arguments(card, caller, record)
<1>1. Laid(args, card, caller, record)
  BY ONLY ArgumentsLaid
<1> HIDE DEF args
<1>2. Parse(args) = AsGiven(card, caller, record)
  BY ONLY <1>1, card.name # "", ParsedLaid
<1> QED
  BY ONLY <1>2 DEF args

-----------------------------------------------------------------------------
(* What is shown is what was asked                                         *)

\* What a step makes of the dialogs: one more is raised, or each keeps what it is
\* about, and stays as it is, ends, or opens with what it reads in its arguments.
Becoming(i) ==
    /\ dialogs'[i].about = dialogs[i].about
    /\ \/ dialogs'[i].phase = "exited"
       \/ /\ dialogs[i].phase = "started" /\ dialogs'[i].phase = "open"
          /\ dialogs'[i].shown = Parse(dialogs[i].args)
       \/ /\ dialogs'[i].phase = dialogs[i].phase
          /\ dialogs[i].phase = "started" => dialogs'[i].args = dialogs[i].args
          /\ dialogs[i].phase = "open" => dialogs'[i].shown = dialogs[i].shown
DialogsGoOn == DOMAIN dialogs' = DOMAIN dialogs /\ \A i \in DOMAIN dialogs : Becoming(i)

LEMMA OneGoesOn ==
    ASSUME Orderly, NEW i \in DOMAIN dialogs, NEW d, Becomes(i, d),
           d.about = dialogs[i].about,
           \/ d.phase = "exited"
           \/ /\ dialogs[i].phase = "started" /\ d.phase = "open"
              /\ d.shown = Parse(dialogs[i].args)
    PROVE  DialogsGoOn
<1>1. /\ DOMAIN dialogs' = DOMAIN dialogs
      /\ \A j \in DOMAIN dialogs : dialogs'[j] = IF j = i THEN d ELSE dialogs[j]
  BY DEF Becomes, Orderly, Typed
<1>2. ASSUME NEW j \in DOMAIN dialogs PROVE Becoming(j)
  BY <1>1 DEF Becoming
<1> QED
  BY <1>1, <1>2 DEF DialogsGoOn

LEMMA DialogStep ==
    ASSUME Orderly, [Next]_vars
    PROVE  (\E r \in Requests : Raises(r)) \/ DialogsGoOn
<1>0. dialogs \in Seq(Dialogs) /\ None \in Codes
  BY DEF Orderly, Typed, Codes
<1>1. ASSUME UNCHANGED dialogs PROVE DialogsGoOn
  BY <1>1 DEF DialogsGoOn, Becoming
<1>2. ASSUME NEW i \in DOMAIN dialogs, NEW code \in Codes, Becomes(i, Exited(dialogs[i], code))
      PROVE  DialogsGoOn
  <2> DEFINE d == Exited(dialogs[i], code)
  <2>1. d.about = dialogs[i].about /\ d.phase = "exited"
    BY ONLY Orderly, code \in Codes, i \in DOMAIN dialogs, ExitedKinds DEF Orderly
  <2>2. Becomes(i, d)
    BY <1>2
  <2> HIDE DEF d
  <2> QED
    BY ONLY Orderly, i \in DOMAIN dialogs, <2>1, <2>2, OneGoesOn
<1>3. ASSUME NEW i \in DOMAIN dialogs, Opens(i) PROVE DialogsGoOn
  <2>1. CASE \E code \in {USAGE, UNSUPPORTED, DISMISSED} : Becomes(i, Exited(dialogs[i], code))
    BY <1>2, <2>1 DEF Codes
  <2>2. CASE Becomes(i, Open(dialogs[i], Parse(dialogs[i].args)))
    <3> DEFINE d == Open(dialogs[i], Parse(dialogs[i].args))
    <3>1. d.about = dialogs[i].about /\ d.phase = "open" /\ d.shown = Parse(dialogs[i].args)
      BY DEF Open
    <3>2. dialogs[i].phase = "started" /\ Becomes(i, d)
      BY <1>3, <2>2 DEF Opens
    <3> HIDE DEF d
    <3> QED
      BY ONLY Orderly, i \in DOMAIN dialogs, <3>1, <3>2, OneGoesOn
  <2> QED
    BY <1>3, <2>1, <2>2 DEF Opens
<1>4. ASSUME NEW i \in DOMAIN dialogs,
             IsEnded(i) \/ \E code \in {ALLOW, DENY, DISMISSED} : Press(i, code)
      PROVE  DialogsGoOn
  BY <1>2, <1>4 DEF IsEnded, Press, Codes
<1>5. ASSUME NEW r \in Requests, TimesOut(r) PROVE DialogsGoOn
  <2>1. task[r].dialog \in DOMAIN dialogs
    BY <1>5 DEF TimesOut, Orderly, Paired
  <2>2. UNCHANGED dialogs \/ Becomes(task[r].dialog, Exited(dialogs[task[r].dialog], None))
    BY <1>5 DEF TimesOut
  <2> QED
    BY ONLY <1>0, <1>1, <1>2, <2>1, <2>2
<1>6. CASE BrokerDies
  <2>1. /\ DOMAIN dialogs' = DOMAIN dialogs
        /\ \A i \in DOMAIN dialogs : dialogs'[i] = [dialogs[i] EXCEPT !.orphan = TRUE]
    BY <1>6 DEF BrokerDies
  <2>2. ASSUME NEW i \in DOMAIN dialogs PROVE Becoming(i)
    <3>1. dialogs[i] \in Dialogs /\ dialogs'[i] = [dialogs[i] EXCEPT !.orphan = TRUE]
      BY <1>0, <2>1
    <3>2. /\ dialogs'[i].about = dialogs[i].about /\ dialogs'[i].phase = dialogs[i].phase
          /\ dialogs[i].phase = "started" => dialogs'[i].args = dialogs[i].args
          /\ dialogs[i].phase = "open" => dialogs'[i].shown = dialogs[i].shown
      BY ONLY <3>1 DEF Dialogs
    <3> QED
      BY <3>2 DEF Becoming
  <2> QED
    BY <2>1, <2>2 DEF DialogsGoOn
<1>7. ASSUME NEW r \in Requests, RequestStep(r) PROVE Raises(r) \/ DialogsGoOn
  <2>1. NoDialog(r) \/ AnswerComes(r) => UNCHANGED dialogs
    BY DEF NoDialog, AnswerComes
  <2>2. NoDialog(r) \/ Raises(r) \/ AnswerComes(r) \/ TimesOut(r)
    BY <1>7 DEF RequestStep
  <2> QED
    BY ONLY <1>1, <1>5, <2>1, <2>2, r \in Requests
<1> QED
  BY <1>1, <1>3, <1>4, <1>6, <1>7
     DEF Next, Arrives, BrokerStarts, ConsentCommand, vars

\* A process was given the question it is about, and a window shows what it read.
Question(about) == Arguments(about.card, about.caller, about.record)
Faithful ==
    \A i \in DOMAIN dialogs :
        /\ dialogs[i].phase = "started" => dialogs[i].args = Question(dialogs[i].about)
        /\ dialogs[i].phase = "open" => dialogs[i].shown = Parse(Question(dialogs[i].about))

\* The dialog a request raises.
LEMMA Raised ==
    ASSUME Orderly, NEW r \in Requests, Raises(r)
    PROVE  LET about == [card |-> task[r].card, caller |-> task[r].caller,
                         record |-> Evaluate(task[r].card)]
               n == Len(dialogs) + 1
           IN /\ about \in Abouts
              /\ DOMAIN dialogs' = DOMAIN dialogs \cup {n}
              /\ \A i \in DOMAIN dialogs : dialogs'[i] = dialogs[i]
              /\ dialogs'[n] = Started(about, Question(about))
<1> DEFINE card == task[r].card
           caller == task[r].caller
           about == [card |-> card, caller |-> caller, record |-> Evaluate(card)]
           new == Started(about, Question(about))
<1>1. task[r].phase = "waiting" /\ dialogs' = Append(dialogs, new)
  BY DEF Raises, HasTurn, Question
<1>2. card \in Cards /\ caller \in Callers
  BY <1>1, TaskKinds DEF Orderly, Typed
<1>3. about \in Abouts
  BY <1>2, EvaluateKinds DEF Abouts, Orderly
<1>4. dialogs \in Seq(Dialogs)
  BY DEF Orderly, Typed
<1> HIDE DEF new
<1>5. /\ DOMAIN dialogs' = DOMAIN dialogs \cup {Len(dialogs) + 1}
      /\ \A i \in DOMAIN dialogs : dialogs'[i] = dialogs[i]
      /\ dialogs'[Len(dialogs) + 1] = new
  BY ONLY <1>1, <1>4
<1> QED
  BY <1>3, <1>5 DEF new

LEMMA FaithfulStep ==
    ASSUME Orderly, Faithful, [Next]_vars
    PROVE  Faithful'
<1>1. ASSUME NEW r \in Requests, Raises(r) PROVE Faithful'
  <2> DEFINE about == [card |-> task[r].card, caller |-> task[r].caller,
                       record |-> Evaluate(task[r].card)]
             n == Len(dialogs) + 1
  <2>1. /\ DOMAIN dialogs' = DOMAIN dialogs \cup {n}
        /\ \A i \in DOMAIN dialogs : dialogs'[i] = dialogs[i]
        /\ dialogs'[n] = Started(about, Question(about))
    BY <1>1, Raised
  <2> HIDE DEF about
  <2>2. /\ dialogs'[n].phase = "started" /\ dialogs'[n].about = about
        /\ dialogs'[n].args = Question(about)
    BY <2>1 DEF Started
  <2> QED
    BY <2>1, <2>2 DEF Faithful
<1>2. CASE DialogsGoOn
  <2>1. ASSUME NEW i \in DOMAIN dialogs
        PROVE  /\ dialogs'[i].phase = "started" => dialogs'[i].args = Question(dialogs'[i].about)
               /\ dialogs'[i].phase = "open"
                    => dialogs'[i].shown = Parse(Question(dialogs'[i].about))
    BY <1>2 DEF DialogsGoOn, Becoming, Faithful
  <2> QED
    BY <1>2, <2>1 DEF DialogsGoOn, Faithful
<1> QED
  BY <1>1, <1>2, DialogStep

\* What a faithful window shows.
LEMMA WindowShows ==
    ASSUME Orderly, Faithful, NEW i \in DOMAIN dialogs, dialogs[i].phase = "open"
    PROVE  LET about == dialogs[i].about  card == about.card  shown == dialogs[i].shown IN
           /\ card \in Cards
           /\ shown.stale = (about.record.state = "stale")
           /\ shown.name = card.name /\ shown.hash = card.hash
           /\ shown.command = LaunchSummary(card)
           /\ shown.card = card.path /\ shown.tier = card.tier
           /\ shown.title = IF card.title \in {None, ""} THEN card.name ELSE card.title
           /\ shown.summary = Text(card.summary) /\ shown.publisher = PublisherOf(card)
           /\ shown.client = Text(about.caller)
           /\ shown.previous = IF about.record.state = "stale" THEN Text(about.record.command)
                               ELSE ""
<1> DEFINE about == dialogs[i].about
           card == about.card
           shown == dialogs[i].shown
<1>1. about \in Abouts
  BY DialogKinds DEF Orderly, Typed
<1>2. card \in Cards
  BY ONLY <1>1 DEF Abouts
<1>3. card.name # ""
  BY ONLY <1>2, CardsAssumption
<1>4. shown = Parse(Arguments(card, about.caller, about.record))
  BY DEF Faithful, Question
<1> HIDE DEF about, card, shown
<1>5. shown = AsGiven(card, about.caller, about.record)
  BY ONLY <1>3, <1>4, ParsedArguments
<1>6. /\ shown.stale = (about.record.state = "stale")
      /\ shown.name = card.name /\ shown.hash = card.hash
      /\ shown.command = LaunchSummary(card)
      /\ shown.card = card.path /\ shown.tier = card.tier
      /\ shown.title = IF card.title \in {None, ""} THEN card.name ELSE card.title
      /\ shown.summary = Text(card.summary) /\ shown.publisher = PublisherOf(card)
      /\ shown.client = Text(about.caller)
      /\ shown.previous = IF about.record.state = "stale" THEN Text(about.record.command)
                          ELSE ""
  BY ONLY <1>5 DEF AsGiven
<1> QED
  BY ONLY <1>2, <1>6 DEF about, card, shown

LEMMA ShownStep == ASSUME Orderly, Faithful PROVE ShownIsAsked
<1> SUFFICES ASSUME NEW i \in DOMAIN dialogs, dialogs[i].phase = "open"
             PROVE  LET about == dialogs[i].about  shown == dialogs[i].shown IN
                    /\ shown.name = about.card.name /\ shown.hash = about.card.hash
                    /\ shown.command = LaunchSummary(about.card)
                    /\ shown.card = about.card.path /\ shown.tier = about.card.tier
                    /\ shown.title \in {about.card.title, about.card.name}
                    /\ shown.summary = Text(about.card.summary)
                    /\ shown.publisher = PublisherOf(about.card)
                    /\ shown.client = Text(about.caller)
                    /\ shown.stale = (about.record.state = "stale")
  BY DEF ShownIsAsked
<1> QED
  BY ONLY Orderly, Faithful, i \in DOMAIN dialogs, dialogs[i].phase = "open", WindowShows

LEMMA FaithfulHolds == Spec => []Faithful
<1>1. Init => Faithful
  BY DEF Init, Faithful
<1> QED
  BY <1>1, OrderlyHolds, FaithfulStep, PTL DEF Spec

\* A window says what the broker meant to ask, for any texts of the cards and of the
\* callers: none that looks like a flag moves another out of its field
\* (prompt.rs:87-107, consent-ui main.rs:38-74).
THEOREM ShownCorrect == Spec => []ShownIsAsked
  BY OrderlyHolds, FaithfulHolds, ShownStep, PTL

-----------------------------------------------------------------------------
(* What is stored was approved                                             *)

\* An exit code that allows stands for a press of the button that allows.
Pressed ==
    \A i \in DOMAIN dialogs :
        LET card == dialogs[i].about.card IN
        (dialogs[i].phase = "exited" /\ dialogs[i].code = ALLOW)
            => <<card.name, card.hash, LaunchSummary(card)>> \in approved
Approvals == Pressed /\ GrantsAreApproved

LEMMA StoreKeeps ==
    ASSUME GrantsAreApproved, approved \subseteq approved', UNCHANGED store
    PROVE  GrantsAreApproved'
  BY DEF GrantsAreApproved

LEMMA StoreGrants ==
    ASSUME Orderly, GrantsAreApproved, approved \subseteq approved', NEW card \in Cards,
           <<card.name, card.hash, LaunchSummary(card)>> \in approved',
           store' = [store EXCEPT ![card.name] = GrantedFor(card.hash, LaunchSummary(card))]
    PROVE  GrantsAreApproved'
<1> DEFINE new == GrantedFor(card.hash, LaunchSummary(card))
<1>1. new.hash = card.hash /\ new.command = LaunchSummary(card)
  BY DEF GrantedFor
<1> HIDE DEF new
<1>2. \A n \in Names : store'[n] = IF n = card.name THEN new ELSE store[n]
  BY DEF Orderly, Typed, new
<1> QED
  BY <1>1, <1>2 DEF GrantsAreApproved

LEMMA StoreWithdraws ==
    ASSUME Orderly, GrantsAreApproved, approved \subseteq approved', NEW card \in Cards,
           NEW record \in {Denied, NotAsked},
           store' = [store EXCEPT ![card.name] = record]
    PROVE  GrantsAreApproved'
<1>1. record.state # "granted"
  BY DEF Denied, NotAsked
<1>2. \A n \in Names : store'[n] = IF n = card.name THEN record ELSE store[n]
  BY DEF Orderly, Typed
<1> QED
  BY <1>1, <1>2 DEF GrantsAreApproved

\* One dialog becomes d; if d ended by allowing, that was approved.
LEMMA PressedKept ==
    ASSUME Orderly, Pressed, approved \subseteq approved',
           NEW i \in DOMAIN dialogs, NEW d, Becomes(i, d),
           (d.phase = "exited" /\ d.code = ALLOW) =>
               <<d.about.card.name, d.about.card.hash, LaunchSummary(d.about.card)>> \in approved'
    PROVE  Pressed'
<1>1. /\ DOMAIN dialogs' = DOMAIN dialogs
      /\ \A j \in DOMAIN dialogs : dialogs'[j] = IF j = i THEN d ELSE dialogs[j]
  BY DEF Becomes, Orderly, Typed
<1>2. ASSUME NEW j \in DOMAIN dialogs, dialogs'[j].phase = "exited", dialogs'[j].code = ALLOW
      PROVE  LET card == dialogs'[j].about.card
             IN  <<card.name, card.hash, LaunchSummary(card)>> \in approved'
  BY <1>1, <1>2 DEF Pressed
<1> QED
  BY <1>1, <1>2 DEF Pressed

LEMMA PressedSame ==
    ASSUME Pressed, approved \subseteq approved', UNCHANGED dialogs
    PROVE  Pressed'
  BY DEF Pressed

LEMMA ApprovalStep ==
    ASSUME Orderly, ShownIsAsked, Approvals, [Next]_vars
    PROVE  Approvals'
<1> USE DEF Approvals, world
<1>0. dialogs \in Seq(Dialogs) /\ task \in [Requests -> Tasks]
  BY DEF Orderly, Typed
<1>1. CASE UNCHANGED <<dialogs, store, approved>>
  BY <1>1, StoreKeeps, PressedSame
<1>2. ASSUME NEW r \in Requests, Raises(r) PROVE Approvals'
  <2>1. PICK d \in Dialogs : d.phase = "started" /\ dialogs' = Append(dialogs, d)
    BY <1>2, RaisedKinds
  <2>2. UNCHANGED <<store, approved>>
    BY <1>2 DEF Raises
  <2> QED
    BY <1>0, <2>1, <2>2, StoreKeeps DEF Pressed
<1>3. ASSUME NEW r \in Requests, AnswerComes(r) PROVE Approvals'
  <2> DEFINE card == task[r].card
             i == task[r].dialog
             decision == Decision(dialogs[i].code)
  <2>1. /\ task[r].phase = "asking" /\ dialogs[i].phase = "exited"
        /\ UNCHANGED <<dialogs, approved>>
    BY <1>3 DEF AnswerComes, Running
  <2>2. card \in Cards /\ i \in DOMAIN dialogs /\ dialogs[i].about.card = card
    BY <1>0, <2>1, TaskKinds DEF Orderly, Paired
  <2>3. Pressed'
    BY <2>1, PressedSame
  <2>4. GrantsAreApproved'
    <3>1. CASE decision = "allow"
      <4>1. dialogs[i].code = ALLOW
        BY <3>1 DEF Decision
      <4>2. <<card.name, card.hash, LaunchSummary(card)>> \in approved'
        BY <2>1, <2>2, <4>1 DEF Pressed
      <4>3. store' = [store EXCEPT ![card.name] = GrantedFor(card.hash, LaunchSummary(card))]
        BY <1>3, <3>1 DEF AnswerComes
      <4> QED
        BY <2>1, <2>2, <4>2, <4>3, StoreGrants
    <3>2. CASE decision = "deny"
      <4>1. store' = [store EXCEPT ![card.name] = Denied]
        BY <1>3, <3>2 DEF AnswerComes
      <4> QED
        BY <2>1, <2>2, <4>1, StoreWithdraws
    <3>3. CASE decision = "unanswered"
      BY <1>3, <2>1, <3>3, StoreKeeps DEF AnswerComes
    <3> QED
      BY <3>1, <3>2, <3>3 DEF Decision
  <2> QED
    BY <2>3, <2>4
<1>4. ASSUME NEW i \in DOMAIN dialogs, NEW code \in {ALLOW, DENY, DISMISSED}, Press(i, code)
      PROVE  Approvals'
  <2> DEFINE card == dialogs[i].about.card
             shown == dialogs[i].shown
             d == Exited(dialogs[i], code)
  <2>1. /\ dialogs[i].phase = "open" /\ Becomes(i, d) /\ UNCHANGED store
        /\ approved' = IF code = ALLOW
                       THEN approved \cup {<<shown.name, shown.hash, shown.command>>} ELSE approved
    BY <1>4 DEF Press
  <2>2. /\ shown.name = card.name /\ shown.hash = card.hash
        /\ shown.command = LaunchSummary(card)
    BY <2>1 DEF ShownIsAsked
  <2>3. d.about = dialogs[i].about /\ d.code = code
    <3>1. code \in Codes
      BY DEF Codes
    <3> QED
      BY ONLY Orderly, <3>1, i \in DOMAIN dialogs, ExitedKinds DEF Orderly
  <2>4. approved \subseteq approved'
    BY <2>1
  <2>5. d.code = ALLOW => <<card.name, card.hash, LaunchSummary(card)>> \in approved'
    BY <2>1, <2>2, <2>3
  <2>6. Pressed'
    BY <2>1, <2>3, <2>4, <2>5, PressedKept
  <2> QED
    BY <2>1, <2>4, <2>6, StoreKeeps
<1>5. ASSUME NEW i \in DOMAIN dialogs, NEW d, Becomes(i, d), UNCHANGED <<store, approved>>,
             d.phase = "exited" => d.code # ALLOW
      PROVE  Approvals'
  BY <1>5, PressedKept, StoreKeeps
<1>6. /\ None # ALLOW /\ USAGE # ALLOW /\ UNSUPPORTED # ALLOW /\ DISMISSED # ALLOW
      /\ {None, USAGE, UNSUPPORTED, DISMISSED} \subseteq Codes
  BY DialogAssumption DEF ALLOW, USAGE, UNSUPPORTED, DISMISSED, Codes
<1>7. ASSUME NEW i \in DOMAIN dialogs, Opens(i) \/ IsEnded(i) PROVE Approvals'
  <2>1. PICK d : /\ Becomes(i, d)
                 /\ \/ d = Open(dialogs[i], Parse(dialogs[i].args))
                    \/ \E code \in {None, USAGE, UNSUPPORTED, DISMISSED} :
                         d = Exited(dialogs[i], code)
    BY <1>7 DEF Opens, IsEnded
  <2>2. d.phase = "exited" => d.code # ALLOW
    <3>1. Open(dialogs[i], Parse(dialogs[i].args)).phase = "open"
      BY DEF Open
    <3>2. \A code \in Codes : Exited(dialogs[i], code).code = code
      BY ExitedKinds DEF Orderly
    <3> QED
      BY ONLY <1>6, <2>1, <3>1, <3>2
  <2> QED
    BY <1>5, <1>7, <2>1, <2>2 DEF Opens, IsEnded
<1>8. ASSUME NEW r \in Requests, TimesOut(r) PROVE Approvals'
  <2> DEFINE i == task[r].dialog
  <2>1. i \in DOMAIN dialogs /\ UNCHANGED <<store, approved>>
    BY <1>8 DEF TimesOut, Orderly, Paired
  <2>2. CASE UNCHANGED dialogs
    BY <1>1, <2>1, <2>2
  <2>3. CASE Becomes(i, Exited(dialogs[i], None))
    <3>1. Exited(dialogs[i], None).code = None
      BY <1>6, <2>1, ExitedKinds DEF Orderly
    <3> QED
      BY <1>5, <1>6, <2>1, <2>3, <3>1
  <2> QED
    BY <1>8, <2>2, <2>3 DEF TimesOut
<1>9. CASE BrokerDies
  <2>1. /\ UNCHANGED <<store, approved>> /\ DOMAIN dialogs' = DOMAIN dialogs
        /\ \A i \in DOMAIN dialogs : dialogs'[i] = [dialogs[i] EXCEPT !.orphan = TRUE]
    BY <1>9 DEF BrokerDies
  <2>2. ASSUME NEW i \in DOMAIN dialogs
        PROVE  /\ dialogs'[i].phase = dialogs[i].phase
               /\ dialogs'[i].about = dialogs[i].about
               /\ dialogs[i].phase = "exited" => dialogs'[i].code = dialogs[i].code
    <3>1. dialogs[i] \in Dialogs
      BY <1>0
    <3> QED
      BY ONLY <2>1, <3>1, i \in DOMAIN dialogs, SuccessorKinds
  <2> QED
    BY <2>1, <2>2, StoreKeeps DEF Pressed
<1>10. ASSUME NEW card \in Cards, ConsentCommand(card) PROVE Approvals'
  <2>1. approved \subseteq approved' /\ UNCHANGED dialogs
    BY <1>10 DEF ConsentCommand
  <2> QED
    BY <1>10, <2>1, PressedSame, StoreGrants, StoreWithdraws DEF ConsentCommand
<1> QED
  BY <1>1, <1>2, <1>3, <1>4, <1>7, <1>8, <1>9, <1>10
     DEF Next, RequestStep, Arrives, NoDialog, BrokerStarts, vars

\* What is stored as granted is what a person approved, shown that very name, hash
\* and launch text: neither a time limit nor a crash, an error or another exit code
\* ever reads as approval (prompt.rs:109-128, main.rs:160-168).
THEOREM ApprovalsCorrect == Spec => []GrantsAreApproved
<1>1. ASSUME Init PROVE Approvals
  BY <1>1 DEF Init, Approvals, Pressed, GrantsAreApproved, NotAsked
<1>2. Approvals => GrantsAreApproved
  BY DEF Approvals
<1> QED
  BY <1>1, <1>2, OrderlyHolds, ShownCorrect, ApprovalStep, PTL DEF Spec

-----------------------------------------------------------------------------
(* A changed launch is shown beside the one that was approved              *)

\* What is approved has a launch text, and a question about a changed launch is
\* about one that was approved with another hash.
Swapped ==
    /\ \A old \in approved : old[3] # None
    /\ \A i \in DOMAIN dialogs :
         LET card == dialogs[i].about.card  record == dialogs[i].about.record IN
         record.state = "stale" =>
             /\ record.hash # card.hash
             /\ <<card.name, record.hash, record.command>> \in approved

LEMMA StaleWasGranted ==
    ASSUME Orderly, GrantsAreApproved, NEW card \in Cards, Evaluate(card).state = "stale"
    PROVE  /\ Evaluate(card).hash # card.hash
           /\ <<card.name, Evaluate(card).hash, Evaluate(card).command>> \in approved
<1> DEFINE record == store[card.name]
<1>1. card.name \in Names /\ record \in Records
  BY DEF Names, Orderly, Typed
<1>2. /\ record.state = "granted" /\ record.hash # card.hash
      /\ Evaluate(card) = [record EXCEPT !.state = "stale"]
  BY <1>1 DEF Evaluate, Records
<1>3. Evaluate(card).hash = record.hash /\ Evaluate(card).command = record.command
  BY ONLY <1>1, <1>2 DEF Records
<1> QED
  BY ONLY <1>1, <1>2, <1>3, GrantsAreApproved DEF GrantsAreApproved

\* What a step adds to what is approved.
LEMMA ApprovedGrows ==
    ASSUME Orderly, Faithful, [Next]_vars
    PROVE  /\ approved \subseteq approved'
           /\ \A old \in approved' \ approved : old[3] # None
<1>1. ASSUME NEW i \in DOMAIN dialogs, NEW code \in {ALLOW, DENY, DISMISSED}, Press(i, code)
      PROVE  approved \subseteq approved' /\ \A old \in approved' \ approved : old[3] # None
  <2> DEFINE shown == dialogs[i].shown
  <2>1. dialogs[i].phase = "open"
    BY <1>1 DEF Press
  <2>2. dialogs[i].about.card \in Cards /\ shown.command = LaunchSummary(dialogs[i].about.card)
    BY ONLY Orderly, Faithful, i \in DOMAIN dialogs, <2>1, WindowShows
  <2>3. shown.command # None
    BY <2>2, CardsAssumption
  <2>4. approved' \in {approved, approved \cup {<<shown.name, shown.hash, shown.command>>}}
    BY <1>1 DEF Press
  <2> HIDE DEF shown
  <2> QED
    BY ONLY <2>3, <2>4
<1>2. ASSUME NEW card \in Cards, ConsentCommand(card)
      PROVE  approved \subseteq approved' /\ \A old \in approved' \ approved : old[3] # None
  <2>1. LaunchSummary(card) # None
    BY CardsAssumption
  <2>2. approved' \in {approved, approved \cup {<<card.name, card.hash, LaunchSummary(card)>>}}
    BY <1>2 DEF ConsentCommand
  <2> QED
    BY ONLY <2>1, <2>2
<1> QED
  BY <1>1, <1>2
     DEF Next, RequestStep, Arrives, NoDialog, Raises, AnswerComes, TimesOut, Opens, IsEnded,
         BrokerDies, BrokerStarts, vars

LEMMA SwappedStep ==
    ASSUME Orderly, Faithful, GrantsAreApproved, Swapped, [Next]_vars
    PROVE  Swapped'
<1>1. approved \subseteq approved' /\ \A old \in approved' : old[3] # None
  BY ApprovedGrows DEF Swapped
<1>2. ASSUME NEW r \in Requests, Raises(r) PROVE Swapped'
  <2> DEFINE card == task[r].card
             about == [card |-> card, caller |-> task[r].caller, record |-> Evaluate(card)]
             n == Len(dialogs) + 1
  <2>0. /\ about \in Abouts /\ DOMAIN dialogs' = DOMAIN dialogs \cup {n}
        /\ \A i \in DOMAIN dialogs : dialogs'[i] = dialogs[i]
        /\ dialogs'[n] = Started(about, Question(about))
    BY ONLY Orderly, <1>2, r \in Requests, Raised
  <2>1. /\ about \in Abouts /\ DOMAIN dialogs' = DOMAIN dialogs \cup {n}
        /\ \A i \in DOMAIN dialogs : dialogs'[i] = dialogs[i]
        /\ dialogs'[n].about = about
    BY ONLY <2>0 DEF Started
  <2>2. card \in Cards
    BY <2>1 DEF Abouts
  <2>3. Evaluate(card).state = "stale" =>
            /\ Evaluate(card).hash # card.hash
            /\ <<card.name, Evaluate(card).hash, Evaluate(card).command>> \in approved
    BY <2>2, StaleWasGranted
  <2>4. about.card = card /\ about.record = Evaluate(card)
    OBVIOUS
  <2> HIDE DEF about, card
  <2> QED
    BY <1>1, <2>1, <2>3, <2>4 DEF Swapped
<1>3. CASE DialogsGoOn
  BY <1>1, <1>3 DEF DialogsGoOn, Becoming, Swapped
<1> QED
  BY <1>2, <1>3, DialogStep

LEMMA SwapStep == ASSUME Orderly, Faithful, Swapped PROVE SwapShown
<1> SUFFICES ASSUME NEW i \in DOMAIN dialogs, dialogs[i].phase = "open"
             PROVE  LET shown == dialogs[i].shown  card == dialogs[i].about.card IN
                    /\ shown.stale =>
                         \E old \in approved :
                            /\ old[1] = card.name /\ old[2] # card.hash
                            /\ Line("Was", old[3]) \subseteq Content(shown)
                            /\ <<"Now", LaunchSummary(card)>> \in Content(shown)
                    /\ {<<"Bound to", card.hash>>, <<"Identifier", card.name>>}
                         \subseteq Window(shown)
                    /\ card.tier \in {"user", "low"} => Warns(shown)
  BY DEF SwapShown
<1> DEFINE shown == dialogs[i].shown
           card == dialogs[i].about.card
           record == dialogs[i].about.record
           old == <<card.name, record.hash, record.command>>
<1>1. /\ card \in Cards /\ shown.stale = (record.state = "stale")
      /\ shown.name = card.name /\ shown.hash = card.hash /\ shown.tier = card.tier
      /\ shown.command = LaunchSummary(card)
      /\ shown.previous = IF record.state = "stale" THEN Text(record.command) ELSE ""
  BY ONLY Orderly, Faithful, i \in DOMAIN dialogs, dialogs[i].phase = "open", WindowShows
<1>2. record.state = "stale" => /\ record.hash # card.hash /\ record.command # None
                                /\ old \in approved
  BY DEF Swapped
<1>3. old[1] = card.name /\ old[2] = record.hash /\ old[3] = record.command
  OBVIOUS
<1>4. card.hash # ""
  BY <1>1, CardsAssumption
<1> HIDE DEF shown, card, record, old
<1>5. ASSUME shown.stale
      PROVE  /\ Line("Was", record.command) \subseteq Content(shown)
             /\ <<"Now", LaunchSummary(card)>> \in Content(shown)
  BY ONLY <1>1, <1>2, <1>5 DEF Content, Text
<1>6. {<<"Bound to", card.hash>>, <<"Identifier", card.name>>} \subseteq Window(shown)
  BY ONLY <1>1, <1>4 DEF Window, Expanded, Line
<1>7. card.tier \in {"user", "low"} => Warns(shown)
  BY ONLY <1>1 DEF Warns
<1>8. shown.stale => \E o \in approved :
                        /\ o[1] = card.name /\ o[2] # card.hash
                        /\ Line("Was", o[3]) \subseteq Content(shown)
                        /\ <<"Now", LaunchSummary(card)>> \in Content(shown)
  BY ONLY <1>1, <1>2, <1>3, <1>5
<1> QED
  BY <1>6, <1>7, <1>8 DEF shown, card

\* Whoever is asked about a server approved before for another launch is shown the
\* launch text approved then and the one of now, and every question shows the hash
\* it binds and warns of a card any program could have written (main.rs:90-147).
THEOREM SwapCorrect == Spec => []SwapShown
<1>1. Init => Swapped
  BY DEF Init, Swapped
<1> QED
  BY <1>1, OrderlyHolds, FaithfulHolds, ApprovalsCorrect, SwappedStep, SwapStep, PTL DEF Spec

-----------------------------------------------------------------------------
(* The abstract question                                                   *)

Opened == {QuestionOf(r) : r \in Holder}
Answered == [n \in Names |-> WithoutText(store[n])]

\* A request that asks has a question of its own, and no other request has one.
LEMMA HolderAsks ==
    ASSUME Orderly, NEW r \in Requests, task[r].phase = "asking"
    PROVE  /\ Opened = {QuestionOf(r)}
           /\ QuestionOf(r) \in Asked!Questions
           /\ QuestionOf(r).name = task[r].card.name
           /\ QuestionOf(r).hash = task[r].card.hash
           /\ task[r].card \in Cards
<1>1. task[r].card \in Cards
  BY TaskKinds DEF Orderly, Typed
<1>2. Holder = {r}
  BY DEF Orderly, Locked, Holder
<1> QED
  BY <1>1, <1>2 DEF Opened, QuestionOf, Asked!Questions, Names

\* The store changes for one server, or not at all.
LEMMA AnsweredBecomes ==
    ASSUME Orderly, NEW n \in Names, NEW record,
           store' = [store EXCEPT ![n] = record]
    PROVE  Answered' = [Answered EXCEPT ![n] = WithoutText(record)]
<1>1. \A m \in Names : store'[m] = IF m = n THEN record ELSE store[m]
  BY DEF Orderly, Typed
<1>2. \A m \in Names : WithoutText(store'[m])
                         = IF m = n THEN WithoutText(record) ELSE WithoutText(store[m])
  BY <1>1
<1> QED
  BY <1>2 DEF Answered

LEMMA AnsweredSame ==
    ASSUME NEW n \in Names
    PROVE  Answered = [Answered EXCEPT ![n] = Answered[n]]
  BY DEF Answered

LEMMA TextsAside ==
    /\ WithoutText(Denied) = Asked!Denied
    /\ WithoutText(NotAsked) = Asked!NotAsked
    /\ \A hash, command : WithoutText(GrantedFor(hash, command)) = Asked!Granted(hash)
  BY DEF WithoutText, Denied, NotAsked, GrantedFor, Asked!Denied, Asked!NotAsked, Asked!Granted

\* No request asks before or after.
LEMMA OpenedStays ==
    ASSUME Orderly, NEW r \in Requests, NEW t \in Tasks, task' = [task EXCEPT ![r] = t],
           task[r].phase # "asking", t.phase # "asking"
    PROVE  Opened' = Opened
<1>1. \A q \in Requests : task'[q] = IF q = r THEN t ELSE task[q]
  BY DEF Orderly, Typed
<1>2. Holder' = Holder
  BY <1>1 DEF Holder
<1>3. \A q \in Holder : task'[q] = task[q]
  BY <1>1 DEF Holder
<1> QED
  BY <1>2, <1>3 DEF Opened, QuestionOf

\* A dialog is raised under the lock, for a card without an answer.
LEMMA RaisesAsks ==
    ASSUME Orderly, NEW r \in Requests, Raises(r)
    PROVE  \E q \in Asked!Questions : Asked!Ask(q)
<1> DEFINE card == task[r].card
<1>1. /\ task[r].phase = "waiting" /\ lock = None /\ ShouldAsk(Evaluate(card))
      /\ task' = [task EXCEPT ![r] = Asking(card, task[r].caller, Len(dialogs) + 1)]
      /\ UNCHANGED store
  BY DEF Raises, HasTurn
<1>2. card \in Cards /\ task[r].caller \in Callers /\ Len(dialogs) + 1 \in Nat
  BY <1>1, TaskKinds DEF Orderly, Typed
<1>3. PICK t \in Tasks : task' = [task EXCEPT ![r] = t] /\ t.phase = "asking" /\ t.card = card
  <2> DEFINE t == Asking(card, task[r].caller, Len(dialogs) + 1)
  <2>1. t \in Tasks /\ t.phase = "asking" /\ t.card = card
    BY <1>2, TaskKinds
  <2>2. task' = [task EXCEPT ![r] = t]
    BY <1>1
  <2> HIDE DEF t
  <2> QED
    BY <2>1, <2>2
<1>4. \A p \in Requests : task'[p] = IF p = r THEN t ELSE task[p]
  BY <1>3 DEF Orderly, Typed
<1>5. Holder = {}
  BY <1>1 DEF Orderly, Locked
<1>6. Holder' = {r}
  BY <1>3, <1>4, <1>5 DEF Holder
<1>7. PICK q : q = QuestionOf(r)
  OBVIOUS
<1>8. q \in Asked!Questions /\ q.name = card.name /\ q.hash = card.hash
  BY <1>2, <1>7 DEF QuestionOf, Asked!Questions, Names
<1>9. Opened = {} /\ Opened' = {q}
  BY <1>3, <1>4, <1>5, <1>6, <1>7 DEF Opened, QuestionOf
<1>10. Answered[q.name] \notin {Asked!Denied, Asked!Granted(q.hash)}
  <2>1. q.name \in Names /\ store[q.name] \in Records
    BY <1>2, <1>8 DEF Names, Orderly, Typed
  <2>2. \/ store[q.name].state = "not-asked"
        \/ store[q.name].state = "granted" /\ store[q.name].hash # q.hash
    BY <1>1, <1>8, <2>1 DEF ShouldAsk, Evaluate, Records
  <2> QED
    BY <2>1, <2>2 DEF Answered, WithoutText, Asked!Denied, Asked!Granted
<1>11. Answered' = Answered
  BY <1>1 DEF Answered
<1>12. Asked!Ask(q)
  BY ONLY <1>9, <1>10, <1>11
     DEF Asked!Ask, Opened, Answered, Asked!Denied, Asked!Granted
<1> QED
  BY <1>8, <1>12

\* Whoever asks comes to an end with an answer about its card or with none.
LEMMA AskerEndsQuestion ==
    ASSUME Orderly, NEW r \in Requests, task[r].phase = "asking",
           \A p \in Requests : task'[p].phase # "asking",
           \/ UNCHANGED store
           \/ store' = [store EXCEPT ![task[r].card.name] = Denied]
           \/ store' = [store EXCEPT ![task[r].card.name] =
                          GrantedFor(task[r].card.hash, LaunchSummary(task[r].card))]
    PROVE  \E q \in Asked!Questions : Asked!End(q)
<1>1. PICK q : q = QuestionOf(r)
  OBVIOUS
<1>2. /\ Opened = {q} /\ q \in Asked!Questions
      /\ q.name = task[r].card.name /\ q.hash = task[r].card.hash /\ q.name \in Names
  BY <1>1, HolderAsks DEF Names
<1>3. Opened' = {}
  BY DEF Opened, Holder
<1>4. \E a \in {Answered[q.name], Asked!Denied, Asked!Granted(q.hash)} :
        Answered' = [Answered EXCEPT ![q.name] = a]
  <2>1. CASE UNCHANGED store
    <3>1. Answered' = Answered
      BY <2>1 DEF Answered
    <3> QED
      BY <1>2, <3>1, AnsweredSame
  <2>2. CASE store' = [store EXCEPT ![q.name] = Denied]
    BY <1>2, <2>2, AnsweredBecomes, TextsAside
  <2>3. CASE store' = [store EXCEPT ![q.name] = GrantedFor(q.hash, LaunchSummary(task[r].card))]
    <3> DEFINE record == GrantedFor(q.hash, LaunchSummary(task[r].card))
    <3>1. WithoutText(record) = Asked!Granted(q.hash)
      BY TextsAside
    <3> HIDE DEF record
    <3>2. Answered' = [Answered EXCEPT ![q.name] = WithoutText(record)]
      BY <1>2, <2>3, AnsweredBecomes DEF record
    <3> QED
      BY <3>1, <3>2
  <2> QED
    BY <1>2, <2>1, <2>2, <2>3
<1>5. Asked!End(q)
  BY ONLY <1>2, <1>3, <1>4
     DEF Asked!End, Opened, Answered, Asked!Denied, Asked!Granted
<1> QED
  BY <1>2, <1>5

LEMMA NobodyAsksAfter ==
    ASSUME Orderly, NEW r \in Requests, task[r].phase = "asking", Ends(r)
    PROVE  \A p \in Requests : task'[p].phase # "asking"
<1>1. \A p \in Requests : task'[p] = IF p = r THEN Done ELSE task[p]
  BY DEF Ends, Orderly, Typed
<1>2. Holder = {r}
  BY DEF Orderly, Locked, Holder
<1> QED
  BY <1>1, <1>2, TaskKinds DEF Holder

LEMMA CommandDecides ==
    ASSUME Orderly, NEW card \in Cards, ConsentCommand(card)
    PROVE  \E n \in Names, a \in Asked!Answers : Asked!Decide(n, a)
<1>1. PICK record : /\ store' = [store EXCEPT ![card.name] = record]
                    /\ record \in {Denied, NotAsked, GrantedFor(card.hash, LaunchSummary(card))}
  BY DEF ConsentCommand
<1>2. PICK n \in Names : n = card.name
  BY DEF Names
<1>3. PICK a : a = WithoutText(record)
  OBVIOUS
<1>4. a \in Asked!Answers
  BY <1>1, <1>3, TextsAside DEF Asked!Answers
<1>5. Answered' = [Answered EXCEPT ![n] = a]
  BY <1>1, <1>2, <1>3, AnsweredBecomes
<1>6. Opened' = Opened
  BY DEF ConsentCommand, Opened, Holder, QuestionOf
<1>7. Asked!Decide(n, a)
  BY ONLY <1>5, <1>6 DEF Asked!Decide, Opened, Answered
<1> QED
  BY <1>4, <1>7

LEMMA QuestionStep ==
    ASSUME Orderly, [Next]_vars
    PROVE  UNCHANGED <<Opened, Answered>> \/ Asked!QuestionNext
<1>1. ASSUME NEW r \in Requests, NEW card \in Cards, NEW caller \in Callers,
             Arrives(r, card, caller)
      PROVE  UNCHANGED <<Opened, Answered>>
  <2>1. Waiting(card, caller) \in Tasks /\ Waiting(card, caller).phase = "waiting"
    BY TaskKinds
  <2>2. task[r].phase # "asking" /\ Answered' = Answered
    BY <1>1, TaskKinds DEF Arrives, Answered
  <2> QED
    BY <1>1, <2>1, <2>2, OpenedStays DEF Arrives
<1>2. ASSUME NEW r \in Requests, NoDialog(r)
      PROVE  UNCHANGED <<Opened, Answered>>
  <2>1. task[r].phase = "waiting" /\ Answered' = Answered
    BY <1>2 DEF NoDialog, HasTurn, Answered
  <2> QED
    BY <1>2, <2>1, TaskKinds, OpenedStays DEF NoDialog, Ends
<1>3. ASSUME NEW r \in Requests, Raises(r)
      PROVE  Asked!QuestionNext
  BY <1>3, RaisesAsks DEF Asked!QuestionNext
<1>4. ASSUME NEW r \in Requests, AnswerComes(r)
      PROVE  Asked!QuestionNext
  <2>1. task[r].phase = "asking" /\ Ends(r)
    BY <1>4 DEF AnswerComes
  <2>2. \/ UNCHANGED store
        \/ store' = [store EXCEPT ![task[r].card.name] = Denied]
        \/ store' = [store EXCEPT ![task[r].card.name] =
                       GrantedFor(task[r].card.hash, LaunchSummary(task[r].card))]
    BY <1>4 DEF AnswerComes, Decision
  <2> QED
    BY <2>1, <2>2, NobodyAsksAfter, AskerEndsQuestion DEF Asked!QuestionNext
<1>5. ASSUME NEW r \in Requests, TimesOut(r)
      PROVE  Asked!QuestionNext
  <2>1. task[r].phase = "asking" /\ Ends(r) /\ UNCHANGED store
    BY <1>5 DEF TimesOut
  <2> QED
    BY <2>1, NobodyAsksAfter, AskerEndsQuestion DEF Asked!QuestionNext
<1>6. ASSUME UNCHANGED <<task, store>>
      PROVE  UNCHANGED <<Opened, Answered>>
  BY <1>6 DEF Opened, Answered, Holder, QuestionOf
<1>7. ASSUME NEW i \in DOMAIN dialogs,
             \/ Opens(i) \/ IsEnded(i)
             \/ \E code \in {ALLOW, DENY, DISMISSED} : Press(i, code)
      PROVE  UNCHANGED <<task, store>>
  BY <1>7 DEF Opens, IsEnded, Press
<1>8. CASE BrokerDies
  <2>1. \A r \in Requests : task'[r].phase # "asking"
    BY <1>8, TaskKinds DEF BrokerDies
  <2>2. UNCHANGED store
    BY <1>8 DEF BrokerDies
  <2>3. CASE Holder = {}
    BY <2>1, <2>2, <2>3 DEF Opened, Answered, Holder
  <2>4. ASSUME NEW r \in Holder
        PROVE  Asked!QuestionNext
    BY <2>1, <2>2, <2>4, AskerEndsQuestion DEF Holder, Asked!QuestionNext
  <2> QED
    BY <2>3, <2>4
<1>9. CASE BrokerStarts \/ UNCHANGED vars
  BY <1>6, <1>9 DEF BrokerStarts, vars
<1>10. ASSUME NEW card \in Cards, ConsentCommand(card)
       PROVE  Asked!QuestionNext
  BY <1>10, CommandDecides DEF Asked!QuestionNext
<1> QED
  BY <1>1, <1>2, <1>3, <1>4, <1>5, <1>6, <1>7, <1>8, <1>9, <1>10 DEF Next, RequestStep

\* With processes, time limits and brokers that die, a question is still the only one
\* whose answer counts, and what is recorded is about the launch in question
\* (server.rs:57-109, prompt.rs:65-128).
THEOREM QuestionKept == Spec => KeepsQuestion
<1>1. Init => Asked!QuestionInit
  <2> SUFFICES ASSUME Init PROVE Asked!QuestionInit
    OBVIOUS
  <2>1. Holder = {}
    BY TaskKinds DEF Init, Holder
  <2>2. Opened = {}
    BY <2>1 DEF Opened
  <2>3. Answered \in [Names -> Asked!Answers]
    BY TextsAside DEF Init, Answered, Asked!Answers
  <2> QED
    BY <2>2, <2>3 DEF Asked!QuestionInit, Opened, Answered
<1>2. Orderly /\ [Next]_vars => [Asked!QuestionNext]_Asked!questionVars
  BY QuestionStep DEF Asked!questionVars, Opened, Answered
<1> QED
  BY <1>1, <1>2, OrderlyHolds, PTL DEF Spec, KeepsQuestion, Asked!QuestionSpec
=============================================================================
