---------------------------- MODULE AtomicDocument ---------------------------
(***************************************************************************)
(* What callers of a durable document are promised: the change of a call   *)
(* is written whole and once, at one moment between the call and its end,  *)
(* on top of everything written before; a call answered without an error   *)
(* has been written.  A call that is rejected, or whose process ended, may *)
(* have been written or not.                                               *)
(*                                                                         *)
(* The document is the sequence of the calls whose changes it holds.       *)
(***************************************************************************)
EXTENDS Sequences

CONSTANT Calls

VARIABLES
    doc,   \* the changes written, in their order
    state  \* per call: where its caller stands

vars == <<doc, state>>

Written == {doc[i] : i \in DOMAIN doc}

Init ==
    /\ doc = << >>
    /\ state = [c \in Calls |-> "idle"]

Invoke(c) ==
    /\ state[c] = "idle"
    /\ state' = [state EXCEPT ![c] = "pending"]
    /\ UNCHANGED doc

Apply(c) ==
    /\ state[c] = "pending"
    /\ c \notin Written
    /\ doc' = Append(doc, c)
    /\ UNCHANGED state

Answer(c) ==
    /\ state[c] = "pending"
    /\ \/ c \in Written /\ state' = [state EXCEPT ![c] = "done"]
       \/ state' = [state EXCEPT ![c] = "rejected"]
    /\ UNCHANGED doc

\* A process ends, and with it the calls it had not answered.
Lose(lost) ==
    /\ \A c \in lost : state[c] = "pending"
    /\ state' = [c \in Calls |-> IF c \in lost THEN "gone" ELSE state[c]]
    /\ UNCHANGED doc

Next ==
    \/ \E c \in Calls : Invoke(c) \/ Apply(c) \/ Answer(c)
    \/ \E lost \in SUBSET Calls : Lose(lost)

Spec == Init /\ [][Next]_vars
=============================================================================
