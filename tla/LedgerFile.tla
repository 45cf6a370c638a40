------------------------------ MODULE LedgerFile -----------------------------
(***************************************************************************)
(* How the operation ledger keeps its document in a file                   *)
(* (backend/src/operation-ledger.mjs: mutate, acquireMutationLock, read,   *)
(* atomicWrite).  Every ledger object queues its own calls; all objects,   *)
(* those of an old and a new application core and those of other           *)
(* processes, share the file and a lock file beside it.  A call reads the  *)
(* document, changes it in memory, writes a temporary file and renames it  *)
(* over the document.  The disk may fail at every step and a process may   *)
(* end between any two; the lock file it leaves is removed by a script     *)
(* that a person runs (scripts/recover-operation-ledger-lock.ps1).         *)
(*                                                                         *)
(* What a change does to the document is OperationLedger's business: here  *)
(* the document is the sequence of the calls whose changes it holds.       *)
(* Queries read the file without the lock and see a document that was      *)
(* written, since only whole files are renamed over it.                    *)
(***************************************************************************)
EXTENDS Integers, Sequences

CONSTANTS
    Calls,     \* calls of recover, start, transition and resolveManual
    Ledgers,   \* ledger objects
    Processes,
    Home,      \* per ledger object: its process
    NoLock,    \* there is no lock file
    MaxExits,  \* bound: processes that end
    MaxFaults  \* bound: disk operations that fail

ASSUME FileHome == Home \in [Ledgers -> Processes]
ASSUME FileLedgers == Ledgers # {}
ASSUME FileBounds == {MaxExits, MaxFaults} \subseteq Nat

Locks == [owner: Calls, written: BOOLEAN, dead: BOOLEAN]

ASSUME FileNoLock == NoLock \notin Locks

VARIABLES
    doc,      \* the ledger file: the changes it holds, in their order
    lock,     \* the lock file: who made it, is its text written, is that process dead
    queue,    \* per ledger object: its calls that have not been answered
    pc,       \* per call: where mutate stands
    at,       \* per call: its ledger object
    seen,     \* per call: the document it has read
    answer,   \* per call: what it will be answered once the lock is given back
    removing, \* the script has verified the lock file and not yet removed it
    order,    \* history: the calls in the order they came in
    exits, faults

fileVars == <<doc, lock>>
callVars == <<pc, seen, answer, queue>>
vars == <<fileVars, callVars, at, removing, order, exits, faults>>

Holding == {"creating", "held", "loaded", "prepared", "leaving"}
Over == {"done", "rejected", "gone"}
Stages == {"idle", "queued"} \cup Holding \cup Over

Written == {doc[i] : i \in DOMAIN doc}

-----------------------------------------------------------------------------

Init ==
    /\ doc = << >>
    /\ lock = NoLock
    /\ queue = [l \in Ledgers |-> << >>]
    /\ pc = [c \in Calls |-> "idle"]
    /\ at \in [Calls -> Ledgers]
    /\ seen = [c \in Calls |-> << >>]
    /\ answer = [c \in Calls |-> "rejected"]
    /\ removing = FALSE
    /\ order = << >>
    /\ exits = 0 /\ faults = 0

\* A disk operation fails.
Fault == faults < MaxFaults /\ faults' = faults + 1

\* mutate: the call waits for the one queued before it.
Mutate(c) ==
    /\ pc[c] = "idle"
    /\ pc' = [pc EXCEPT ![c] = "queued"]
    /\ queue' = [queue EXCEPT ![at[c]] = Append(@, c)]
    /\ order' = Append(order, c)
    /\ UNCHANGED <<fileVars, seen, answer, at, removing, exits, faults>>

\* Slip: calls do not wait for one another.
AnyTurn(c) == pc[c] = "queued"

HasTurn(c) == pc[c] = "queued" /\ Head(queue[at[c]]) = c

\* Slip: a rejection is not caught, and the queue goes no further.
EndAndPoison(c, result) ==
    /\ pc' = [pc EXCEPT ![c] = result]
    /\ queue' = IF result = "done" THEN [queue EXCEPT ![at[c]] = Tail(@)] ELSE queue

\* The call is answered and, answered how it may be, the next one goes on.
End(c, result) ==
    /\ pc' = [pc EXCEPT ![c] = result]
    /\ queue' = [queue EXCEPT ![at[c]] = Tail(@)]

\* What is left to do is to give the lock back.
Leave(c, result) ==
    /\ pc' = [pc EXCEPT ![c] = "leaving"]
    /\ answer' = [answer EXCEPT ![c] = result]

-----------------------------------------------------------------------------
(* acquireMutationLock. *)

\* open(lockPath, 'wx') succeeds.
OpenLock(c) ==
    /\ HasTurn(c)
    /\ lock = NoLock
    /\ lock' = [owner |-> c, written |-> FALSE, dead |-> FALSE]
    /\ pc' = [pc EXCEPT ![c] = "creating"]
    /\ UNCHANGED <<doc, seen, answer, queue, at, removing, order, exits, faults>>

\* The lock file was there at the last attempt or is stale, or the disk fails.
GiveUp(c) ==
    /\ HasTurn(c)
    /\ \/ lock # NoLock /\ UNCHANGED faults
       \/ Fault
    /\ End(c, "rejected")
    /\ UNCHANGED <<fileVars, seen, answer, at, removing, order, exits>>

WriteLock(c) ==
    /\ pc[c] = "creating"
    /\ lock' = [lock EXCEPT !.written = TRUE]
    /\ pc' = [pc EXCEPT ![c] = "held"]
    /\ UNCHANGED <<doc, seen, answer, queue, at, removing, order, exits, faults>>

\* The text of the lock file is not written or not synced; the file stays.
WriteLockFails(c) ==
    /\ pc[c] = "creating"
    /\ Fault
    /\ \E written \in BOOLEAN : lock' = [lock EXCEPT !.written = written]
    /\ End(c, "rejected")
    /\ UNCHANGED <<doc, seen, answer, at, removing, order, exits>>

-----------------------------------------------------------------------------
(* The rest of mutate, under the lock. *)

Read(c) ==
    /\ pc[c] = "held"
    /\ seen' = [seen EXCEPT ![c] = doc]
    /\ pc' = [pc EXCEPT ![c] = "loaded"]
    /\ UNCHANGED <<fileVars, answer, queue, at, removing, order, exits, faults>>

ReadFails(c) ==
    /\ pc[c] = "held"
    /\ Fault
    /\ Leave(c, "rejected")
    /\ UNCHANGED <<fileVars, seen, queue, at, removing, order, exits>>

\* Slip: a change that throws leaves the lock file behind.
RefuseLocked(c) ==
    /\ pc[c] = "loaded"
    /\ End(c, "rejected")
    /\ UNCHANGED <<fileVars, seen, answer, at, removing, order, exits, faults>>

\* The change throws, or the temporary file cannot be written.
Refuse(c) ==
    /\ pc[c] = "loaded"
    /\ Leave(c, "rejected")
    /\ UNCHANGED <<fileVars, seen, queue, at, removing, order, exits, faults>>

\* The change is made in memory and the temporary file is complete.
Prepare(c) ==
    /\ pc[c] = "loaded"
    /\ pc' = [pc EXCEPT ![c] = "prepared"]
    /\ UNCHANGED <<fileVars, seen, answer, queue, at, removing, order, exits, faults>>

\* Slip: the answer does not wait for the file to be replaced.
AnswerBeforeReplace(c) ==
    /\ pc[c] = "prepared"
    /\ \/ doc' = Append(seen[c], c) /\ UNCHANGED faults
       \/ Fault /\ UNCHANGED doc
    /\ Leave(c, "done")
    /\ UNCHANGED <<lock, seen, queue, at, removing, order, exits>>

\* rename, then rm of the temporary file.  Either may fail: a call whose change
\* is in the file can still be rejected.
Replace(c) ==
    /\ pc[c] = "prepared"
    /\ \/ doc' = Append(seen[c], c) /\ Leave(c, "done") /\ UNCHANGED faults
       \/ /\ Fault
          /\ doc' \in {doc, Append(seen[c], c)}
          /\ Leave(c, "rejected")
    /\ UNCHANGED <<lock, seen, queue, at, removing, order, exits>>

\* The finally block closes the lock file and removes whatever has its name.
RemoveLock(c) ==
    /\ pc[c] = "leaving"
    /\ lock' = NoLock
    /\ End(c, answer[c])
    /\ UNCHANGED <<doc, seen, answer, at, removing, order, exits, faults>>

RemoveLockFails(c) ==
    /\ pc[c] = "leaving"
    /\ Fault
    /\ End(c, "rejected")
    /\ UNCHANGED <<fileVars, seen, answer, at, removing, order, exits>>

-----------------------------------------------------------------------------
(* Processes that end, and the recovery script. *)

\* A process ends; when it starts again its ledger objects are new.
Exit(p) ==
    /\ exits < MaxExits
    /\ exits' = exits + 1
    /\ pc' = [c \in Calls |-> IF Home[at[c]] = p /\ pc[c] \notin Over \cup {"idle"}
                              THEN "gone" ELSE pc[c]]
    /\ queue' = [l \in Ledgers |-> IF Home[l] = p THEN << >> ELSE queue[l]]
    /\ lock' = IF lock # NoLock /\ Home[at[lock.owner]] = p
               THEN [lock EXCEPT !.dead = TRUE] ELSE lock
    /\ UNCHANGED <<doc, seen, answer, at, removing, order, faults>>

\* Slip: the process named in the lock file is not looked up.
VerifyLockOfAny ==
    /\ ~removing
    /\ lock # NoLock /\ lock.written
    /\ removing' = TRUE
    /\ UNCHANGED <<fileVars, callVars, at, order, exits, faults>>

\* The script: the lock file is legible, its process does not run, and it has
\* not changed for a while.  One run of the script at a time is assumed.
VerifyLock ==
    /\ ~removing
    /\ lock # NoLock /\ lock.written /\ lock.dead
    /\ removing' = TRUE
    /\ UNCHANGED <<fileVars, callVars, at, order, exits, faults>>

RemoveStaleLock ==
    /\ removing
    /\ lock' = NoLock
    /\ removing' = FALSE
    /\ UNCHANGED <<doc, callVars, at, order, exits, faults>>

-----------------------------------------------------------------------------

CallStep(c) ==
    \/ OpenLock(c) \/ GiveUp(c) \/ WriteLock(c) \/ WriteLockFails(c)
    \/ Read(c) \/ ReadFails(c) \/ Refuse(c) \/ Prepare(c) \/ Replace(c)
    \/ RemoveLock(c) \/ RemoveLockFails(c)

Next ==
    \/ \E c \in Calls : Mutate(c) \/ CallStep(c)
    \/ \E p \in Processes : Exit(p)
    \/ VerifyLock \/ RemoveStaleLock

Spec == Init /\ [][Next]_vars

\* Every step of a running call ends by itself, and a call that waits for the
\* lock file gives up after its hundred attempts.
FairSpec == Spec /\ \A c \in Calls : WF_vars(CallStep(c))

-----------------------------------------------------------------------------

TypeOK ==
    /\ doc \in Seq(Calls)
    /\ lock \in Locks \cup {NoLock}
    /\ queue \in [Ledgers -> Seq(Calls)]
    /\ pc \in [Calls -> Stages]
    /\ at \in [Calls -> Ledgers]
    /\ seen \in [Calls -> Seq(Calls)]
    /\ answer \in [Calls -> {"done", "rejected"}]
    /\ removing \in BOOLEAN
    /\ order \in Seq(Calls)
    /\ {exits, faults} \subseteq Nat

\* Whoever works under the lock file finds its own there: whatever fails, ends
\* or is removed meanwhile, no two calls of any two ledger objects are between
\* acquireMutationLock and the end of its finally block.
HolderOwnsLock ==
    \A c \in Calls : pc[c] \in Holding => lock # NoLock /\ lock.owner = c /\ ~lock.dead

\* No call overwrites what another one has written since it read the file.
NoLostChange ==
    [][doc' # doc => \E c \in Calls : c \notin Written /\ doc' = Append(doc, c)]_vars

\* The changes of one ledger object reach the file in the order of its calls: a
\* change is written only when every earlier call has been answered.
QueueOrder ==
    [][\A i, j \in DOMAIN order :
        i < j /\ at[order[i]] = at[order[j]] /\ doc' = Append(doc, order[j])
        => pc[order[i]] \in Over]_vars

\* The lock file of a running process is only removed by the call that made it.
LivingLockKept ==
    [][lock # NoLock /\ lock' = NoLock /\ ~lock.dead => pc[lock.owner] = "leaving"]_vars

\* The file gives its callers an atomic document.
Document == INSTANCE AtomicDocument WITH
    state <- [c \in Calls |->
        IF pc[c] \in Over \cup {"idle"} THEN pc[c] ELSE "pending"]

AtomicCalls == Document!Spec

\* Every call is answered, or its process ends: no rejected call and no lock file
\* left behind stops the calls queued after it.
EveryCallAnswered == \A c \in Calls : pc[c] = "queued" ~> pc[c] \in Over

\* As long as no disk operation fails and no process ends, the lock file goes.
LockGivenBack == lock # NoLock ~> lock = NoLock \/ exits > 0 \/ faults > 0
=============================================================================
