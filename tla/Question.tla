------------------------------ MODULE Question ------------------------------
(***************************************************************************)
(* What asking a person comes to, whoever asks and however long it takes   *)
(* (broker/crates/broker/src/server.rs:38-109): one question is open at a  *)
(* time, none whose answer is known is opened, and what it leaves behind   *)
(* is an answer about the very launch that was asked about, whatever has   *)
(* become of the card since.  Broker keeps this with a queue of            *)
(* connections, Dialog with processes, time limits and deaths.             *)
(***************************************************************************)

CONSTANTS Askers, Names, Hashes

VARIABLES
    open,       \* the question whose answer is waited for, if any
    answers     \* answers[n]: what is recorded about server n

questionVars == <<open, answers>>

NotAsked == [state |-> "not-asked"]
Denied == [state |-> "denied"]
Granted(h) == [state |-> "granted", hash |-> h]
Answers == {NotAsked, Denied} \cup {Granted(h) : h \in Hashes}
Questions == [by : Askers, name : Names, hash : Hashes]

QuestionInit == open = {} /\ answers \in [Names -> Answers]

Ask(q) ==
    /\ open = {}
    /\ answers[q.name] \notin {Denied, Granted(q.hash)}
    /\ open' = {q}
    /\ UNCHANGED answers

\* The question ends with an answer or without.
End(q) ==
    /\ open = {q}
    /\ open' = {}
    /\ \E a \in {answers[q.name], Denied, Granted(q.hash)} :
         answers' = [answers EXCEPT ![q.name] = a]

\* A consent command decides about any server, a question being open or not.
Decide(n, a) ==
    /\ answers' = [answers EXCEPT ![n] = a]
    /\ UNCHANGED open

QuestionNext ==
    \/ \E q \in Questions : Ask(q) \/ End(q)
    \/ \E n \in Names, a \in Answers : Decide(n, a)

QuestionSpec == QuestionInit /\ [][QuestionNext]_questionVars
=============================================================================
