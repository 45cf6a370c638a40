--------------------------- MODULE LedgerFileProofs --------------------------
(***************************************************************************)
(* The ledger file for every number of calls, ledger objects, processes,   *)
(* failing disk operations and exits: mutual exclusion under the lock      *)
(* file, no change lost or reordered, and the atomic document it gives to  *)
(* its callers.  The second part is about the other file that one queue    *)
(* guards, the history of the hardware page.                               *)
(***************************************************************************)
EXTENDS LedgerFile, HardwareInvariant, FiniteSetTheorems, TLAPS

-----------------------------------------------------------------------------
(* The inductive invariant. *)

\* What a call has read is what is in the file, and its own change is not there.
SeenIsCurrent ==
    \A c \in Calls :
        /\ pc[c] \in {"loaded", "prepared"} => seen[c] = doc
        /\ pc[c] \in {"idle", "queued"} \cup (Holding \ {"leaving"}) => c \notin Written

\* Only calls that are written are answered without an error.
AnswerIsTrue ==
    \A c \in Calls :
        pc[c] = "done" \/ (pc[c] = "leaving" /\ answer[c] = "done") => c \in Written

\* The script only has its hand on the lock file of a process that has ended.
RemovingDead == removing => lock # NoLock /\ lock.dead

\* A call stands in the queue of its ledger object until it is answered; the one
\* that works under the lock file stands first.
QueueHolds ==
    /\ \A c \in Calls : pc[c] \in {"queued"} \cup Holding =>
        \E i \in DOMAIN queue[at[c]] : queue[at[c]][i] = c
    /\ \A c \in Calls : pc[c] \in Holding => queue[at[c]][1] = c

\* A queue lists its calls in the order they came in.
QueueSorted ==
    /\ \A i, j \in DOMAIN order : order[i] = order[j] => i = j
    /\ \A i \in DOMAIN order : pc[order[i]] # "idle"
    /\ \A l \in Ledgers : \A m \in DOMAIN queue[l] :
        \E i \in DOMAIN order : order[i] = queue[l][m]
    /\ \A l \in Ledgers : \A m, n \in DOMAIN queue[l] : m < n =>
        \E i, j \in DOMAIN order :
            i < j /\ order[i] = queue[l][m] /\ order[j] = queue[l][n]

IndInv ==
    /\ TypeOK
    /\ HolderOwnsLock
    /\ SeenIsCurrent
    /\ AnswerIsTrue
    /\ RemovingDead
    /\ QueueHolds
    /\ QueueSorted

\* The lock file's absence is no lock file.
LEMMA NoLockIsNoRecord == NoLock \notin Locks
BY FileNoLock

\* Every stage of a call is one of four kinds.
LEMMA StageKinds ==
    /\ Holding \subseteq Stages /\ Over \subseteq Stages
    /\ {"idle", "queued"} \subseteq Stages
    /\ Holding \cap Over = {} /\ "idle" \notin Holding \cup Over
    /\ "queued" \notin Holding \cup Over
    /\ \A s \in Stages : s \in {"idle", "queued"} \/ s \in Holding \/ s \in Over
BY DEF Stages, Holding, Over

-----------------------------------------------------------------------------
(* Types. *)

\* Ending a call takes it off a queue that is not empty.
LEMMA EndTypes ==
    ASSUME TypeOK, QueueHolds, NEW c \in Calls, pc[c] \in {"queued"} \cup Holding,
           NEW result \in Over, End(c, result)
    PROVE  pc' \in [Calls -> Stages] /\ queue' \in [Ledgers -> Seq(Calls)]
<1>1. queue[at[c]] \in Seq(Calls) /\ queue[at[c]] # << >>
  BY DEF TypeOK, QueueHolds
<1>2. Tail(queue[at[c]]) \in Seq(Calls)
  BY <1>1
<1>3. queue' \in [Ledgers -> Seq(Calls)]
  BY <1>2 DEF End, TypeOK
<1>4. pc' \in [Calls -> Stages]
  BY StageKinds DEF End, TypeOK
<1> QED
  BY <1>3, <1>4

\* Leaving keeps the types.
LEMMA LeaveTypes ==
    ASSUME TypeOK, NEW c \in Calls, NEW result \in {"done", "rejected"}, Leave(c, result)
    PROVE  pc' \in [Calls -> Stages] /\ answer' \in [Calls -> {"done", "rejected"}]
BY DEF TypeOK, Leave, Stages, Holding

\* No step of the calls, of the processes or of the script breaks the types.
LEMMA TypesKept ==
    ASSUME TypeOK, QueueHolds, HolderOwnsLock, [Next]_vars
    PROVE  TypeOK'
<1> USE DEF TypeOK, fileVars, callVars
<1>1. ASSUME NEW c \in Calls, Mutate(c) PROVE TypeOK'
  BY <1>1 DEF Mutate, Stages
<1>2. ASSUME NEW c \in Calls, OpenLock(c) PROVE TypeOK'
  BY <1>2 DEF OpenLock, Locks, Stages, Holding
<1>3. ASSUME NEW c \in Calls, GiveUp(c) PROVE TypeOK'
  <2>1. pc' \in [Calls -> Stages] /\ queue' \in [Ledgers -> Seq(Calls)]
    BY <1>3, EndTypes DEF GiveUp, HasTurn, Over
  <2> QED
    BY <1>3, <2>1 DEF GiveUp, Fault
<1>4. ASSUME NEW c \in Calls, WriteLock(c) PROVE TypeOK'
  <2>1. lock \in Locks
    BY <1>4 DEF WriteLock, HolderOwnsLock, Holding
  <2>2. lock' \in Locks
    BY <1>4, <2>1 DEF WriteLock, Locks
  <2>3. pc' \in [Calls -> Stages]
    BY <1>4 DEF WriteLock, Stages, Holding
  <2> QED
    BY <1>4, <2>2, <2>3 DEF WriteLock
<1>5. ASSUME NEW c \in Calls, WriteLockFails(c) PROVE TypeOK'
  <2>1. pc' \in [Calls -> Stages] /\ queue' \in [Ledgers -> Seq(Calls)]
    BY <1>5, EndTypes DEF WriteLockFails, Holding, Over
  <2>2. lock \in Locks
    BY <1>5 DEF WriteLockFails, HolderOwnsLock, Holding
  <2>3. lock' \in Locks
    BY <1>5, <2>2 DEF WriteLockFails, Locks
  <2> QED
    BY <1>5, <2>1, <2>3 DEF WriteLockFails, Fault
<1>6. ASSUME NEW c \in Calls, Read(c) PROVE TypeOK'
  BY <1>6 DEF Read, Stages, Holding
<1>7. ASSUME NEW c \in Calls, ReadFails(c) \/ Refuse(c) PROVE TypeOK'
  <2>1. Leave(c, "rejected") /\ (UNCHANGED faults \/ Fault)
    BY <1>7 DEF ReadFails, Refuse
  <2>2. UNCHANGED <<doc, lock, seen, queue, at, removing, order, exits>>
    BY <1>7 DEF ReadFails, Refuse
  <2> QED
    BY <2>1, <2>2, LeaveTypes DEF Fault
<1>8. ASSUME NEW c \in Calls, Prepare(c) PROVE TypeOK'
  BY <1>8 DEF Prepare, Stages, Holding
<1>9. ASSUME NEW c \in Calls, Replace(c) PROVE TypeOK'
  <2>1. doc' = doc \/ doc' = Append(seen[c], c)
    BY <1>9 DEF Replace
  <2>2. (Leave(c, "done") \/ Leave(c, "rejected")) /\ (UNCHANGED faults \/ Fault)
    BY <1>9 DEF Replace
  <2>3. UNCHANGED <<lock, seen, queue, at, removing, order, exits>>
    BY <1>9 DEF Replace
  <2>4. doc' \in Seq(Calls)
    <3>1. seen[c] \in Seq(Calls)
      OBVIOUS
    <3>2. Append(seen[c], c) \in Seq(Calls)
      BY <3>1
    <3> QED
      BY <2>1, <3>2
  <2> QED
    BY <2>2, <2>3, <2>4, LeaveTypes DEF Fault
<1>10. ASSUME NEW c \in Calls, RemoveLock(c) PROVE TypeOK'
  <2>1. pc' \in [Calls -> Stages] /\ queue' \in [Ledgers -> Seq(Calls)]
    BY <1>10, EndTypes DEF RemoveLock, Holding, Over
  <2> QED
    BY <1>10, <2>1 DEF RemoveLock
<1>11. ASSUME NEW c \in Calls, RemoveLockFails(c) PROVE TypeOK'
  <2>1. pc' \in [Calls -> Stages] /\ queue' \in [Ledgers -> Seq(Calls)]
    BY <1>11, EndTypes DEF RemoveLockFails, Holding, Over
  <2> QED
    BY <1>11, <2>1 DEF RemoveLockFails, Fault
<1>12. ASSUME NEW p \in Processes, Exit(p) PROVE TypeOK'
  <2>1. pc' \in [Calls -> Stages]
    BY <1>12 DEF Exit, Stages, Over
  <2>2. queue' \in [Ledgers -> Seq(Calls)]
    BY <1>12 DEF Exit
  <2>3. lock' \in Locks \cup {NoLock}
    BY <1>12 DEF Exit, Locks
  <2>4. {exits', faults'} \subseteq Nat
    BY <1>12 DEF Exit
  <2>5. UNCHANGED <<doc, seen, answer, at, removing, order>>
    BY <1>12 DEF Exit
  <2> QED
    BY <2>1, <2>2, <2>3, <2>4, <2>5
<1>13. CASE VerifyLock \/ RemoveStaleLock
  BY <1>13 DEF VerifyLock, RemoveStaleLock
<1>14. CASE UNCHANGED vars
  BY <1>14 DEF vars
<1> QED
  BY <1>1, <1>2, <1>3, <1>4, <1>5, <1>6, <1>7, <1>8, <1>9, <1>10, <1>11, <1>12, <1>13, <1>14
     DEF Next, CallStep

-----------------------------------------------------------------------------
(* Mutual exclusion. *)

\* Two calls never work under the lock file at once.
LEMMA OneHolder ==
    ASSUME HolderOwnsLock, NEW c \in Calls, NEW d \in Calls,
           pc[c] \in Holding, pc[d] \in Holding
    PROVE  c = d
BY DEF HolderOwnsLock

\* The lock file stays that of the call that works under it.
LEMMA LockKept ==
    ASSUME TypeOK, HolderOwnsLock, RemovingDead, [Next]_vars
    PROVE  HolderOwnsLock' /\ RemovingDead'
<1> USE DEF TypeOK, HolderOwnsLock, RemovingDead, fileVars, callVars
<1>1. ASSUME NEW c \in Calls, Mutate(c) PROVE HolderOwnsLock' /\ RemovingDead'
  BY <1>1 DEF Mutate, Holding
<1>2. ASSUME NEW c \in Calls, OpenLock(c) PROVE HolderOwnsLock' /\ RemovingDead'
  <2>1. lock' # NoLock
    <3>1. [owner |-> c, written |-> FALSE, dead |-> FALSE] \in Locks
      BY DEF Locks
    <3> QED
      BY <1>2, <3>1, NoLockIsNoRecord DEF OpenLock
  <2> QED
    BY <1>2, <2>1 DEF OpenLock, Holding
<1>3. ASSUME NEW c \in Calls, GiveUp(c) PROVE HolderOwnsLock' /\ RemovingDead'
  BY <1>3 DEF GiveUp, End, Holding
<1>4. ASSUME NEW c \in Calls, WriteLock(c) PROVE HolderOwnsLock' /\ RemovingDead'
  <2>1. lock \in Locks /\ lock.owner = c /\ ~lock.dead
    BY <1>4 DEF WriteLock, Holding
  <2>2. lock' \in Locks /\ lock'.owner = c /\ ~lock'.dead
    BY <1>4, <2>1 DEF WriteLock, Locks
  <2>3. pc' = [pc EXCEPT ![c] = "held"] /\ removing' = removing
    BY <1>4 DEF WriteLock
  <2> QED
    BY <2>1, <2>2, <2>3, NoLockIsNoRecord DEF Holding
<1>5. ASSUME NEW c \in Calls, WriteLockFails(c) PROVE HolderOwnsLock' /\ RemovingDead'
  <2>1. pc[c] \in Holding /\ lock \in Locks /\ lock.owner = c /\ ~lock.dead
    BY <1>5 DEF WriteLockFails, Holding
  <2>2. pc' = [pc EXCEPT ![c] = "rejected"] /\ removing' = removing
    BY <1>5 DEF WriteLockFails, End
  <2>3. \A d \in Calls : pc'[d] \notin Holding
    BY <2>1, <2>2, OneHolder DEF Holding
  <2> QED
    BY <2>1, <2>2, <2>3
<1>6. ASSUME NEW c \in Calls, Read(c) \/ Prepare(c) PROVE HolderOwnsLock' /\ RemovingDead'
  BY <1>6 DEF Read, Prepare, Holding
<1>7. ASSUME NEW c \in Calls, ReadFails(c) \/ Refuse(c)
      PROVE  HolderOwnsLock' /\ RemovingDead'
  BY <1>7 DEF ReadFails, Refuse, Leave, Holding
<1>8. ASSUME NEW c \in Calls, Replace(c) PROVE HolderOwnsLock' /\ RemovingDead'
  <2>1. pc[c] \in Holding /\ pc' = [pc EXCEPT ![c] = "leaving"]
        /\ UNCHANGED <<lock, removing>>
    BY <1>8 DEF Replace, Leave, Holding
  <2> QED
    BY <2>1 DEF Holding
<1>9. ASSUME NEW c \in Calls, RemoveLock(c) PROVE HolderOwnsLock' /\ RemovingDead'
  <2>1. pc[c] \in Holding /\ lock.owner = c /\ ~removing
    BY <1>9 DEF RemoveLock, Holding
  <2>2. pc' = [pc EXCEPT ![c] = answer[c]] /\ removing' = removing
    BY <1>9 DEF RemoveLock, End
  <2>3. \A d \in Calls : pc'[d] \notin Holding
    BY <2>1, <2>2, OneHolder DEF Holding
  <2> QED
    BY <2>1, <2>2, <2>3
<1>10. ASSUME NEW c \in Calls, RemoveLockFails(c) PROVE HolderOwnsLock' /\ RemovingDead'
  BY <1>10 DEF RemoveLockFails, End, Holding
<1>11. ASSUME NEW p \in Processes, Exit(p) PROVE HolderOwnsLock' /\ RemovingDead'
  <2>1. CASE lock = NoLock
    BY <1>11, <2>1 DEF Exit, Holding
  <2>2. CASE lock # NoLock /\ Home[at[lock.owner]] = p
    <3>1. \A d \in Calls : pc'[d] \notin Holding
      BY <1>11, <2>2 DEF Exit, Holding, Over
    <3>2. lock \in Locks /\ lock' = [lock EXCEPT !.dead = TRUE] /\ removing' = removing
      BY <1>11, <2>2 DEF Exit
    <3>3. lock' \in Locks /\ lock'.dead
      BY <3>2 DEF Locks
    <3> QED
      BY <3>1, <3>2, <3>3, NoLockIsNoRecord
  <2>3. CASE lock # NoLock /\ Home[at[lock.owner]] # p
    BY <1>11, <2>3 DEF Exit, Holding, Over
  <2> QED
    BY <2>1, <2>2, <2>3
<1>12. CASE VerifyLock
  BY <1>12 DEF VerifyLock
<1>13. CASE RemoveStaleLock
  BY <1>13 DEF RemoveStaleLock
<1>14. CASE UNCHANGED vars
  BY <1>14 DEF vars
<1> QED
  BY <1>1, <1>2, <1>3, <1>4, <1>5, <1>6, <1>7, <1>8, <1>9, <1>10, <1>11, <1>12, <1>13, <1>14
     DEF Next, CallStep

-----------------------------------------------------------------------------
(* The document. *)

\* A written change adds its call to those the document holds.
LEMMA WrittenAfter ==
    ASSUME doc \in Seq(Calls), NEW c \in Calls, doc' = Append(doc, c)
    PROVE  Written' = Written \cup {c}
<1>1. /\ DOMAIN doc = 1 .. Len(doc) /\ Len(doc) \in Nat
      /\ DOMAIN doc' = 1 .. Len(doc) + 1
      /\ \A i \in 1 .. Len(doc) : doc'[i] = doc[i]
      /\ doc'[Len(doc) + 1] = c
  OBVIOUS
<1> QED
  BY <1>1 DEF Written

\* A step that replaces the file: what it may write.
LEMMA ReplaceEffect ==
    ASSUME TypeOK, SeenIsCurrent, NEW c \in Calls, Replace(c)
    PROVE  /\ c \notin Written /\ pc[c] = "prepared"
           /\ doc' = doc \/ doc' = Append(doc, c)
           /\ pc' = [pc EXCEPT ![c] = "leaving"]
           /\ \/ answer' = [answer EXCEPT ![c] = "done"] /\ doc' = Append(doc, c)
              \/ answer' = [answer EXCEPT ![c] = "rejected"]
           /\ UNCHANGED <<lock, seen, queue, at, removing, order>>
<1>1. c \notin Written /\ seen[c] = doc /\ pc[c] = "prepared"
  BY DEF Replace, SeenIsCurrent, Holding
<1> QED
  BY <1>1 DEF Replace, Leave

\* What calls have read and what they will be answered stays true.
LEMMA DocKept ==
    ASSUME TypeOK, HolderOwnsLock, SeenIsCurrent, AnswerIsTrue, [Next]_vars
    PROVE  SeenIsCurrent' /\ AnswerIsTrue'
<1> DEFINE Goal == SeenIsCurrent' /\ AnswerIsTrue'
<1> USE DEF TypeOK, SeenIsCurrent, AnswerIsTrue, fileVars, callVars
<1>1. ASSUME UNCHANGED doc PROVE Written' = Written
  BY <1>1 DEF Written
<1>2. ASSUME NEW c \in Calls, Mutate(c) PROVE Goal
  BY <1>1, <1>2 DEF Mutate, Holding
<1>3. ASSUME NEW c \in Calls, OpenLock(c) \/ WriteLock(c) PROVE Goal
  BY <1>1, <1>3 DEF OpenLock, WriteLock, HasTurn, Holding
<1>4. ASSUME NEW c \in Calls, GiveUp(c) \/ WriteLockFails(c) PROVE Goal
  BY <1>1, <1>4 DEF GiveUp, WriteLockFails, End, Holding
<1>5. ASSUME NEW c \in Calls, Read(c) PROVE Goal
  BY <1>1, <1>5 DEF Read, Holding
<1>6. ASSUME NEW c \in Calls, ReadFails(c) \/ Refuse(c) PROVE Goal
  BY <1>1, <1>6 DEF ReadFails, Refuse, Leave, Holding
<1>7. ASSUME NEW c \in Calls, Prepare(c) PROVE Goal
  BY <1>1, <1>7 DEF Prepare, Holding
<1>8. ASSUME NEW c \in Calls, Replace(c) PROVE Goal
  <2>1. /\ pc[c] = "prepared" /\ pc' = [pc EXCEPT ![c] = "leaving"]
        /\ \/ answer' = [answer EXCEPT ![c] = "done"] /\ doc' = Append(doc, c)
           \/ answer' = [answer EXCEPT ![c] = "rejected"]
        /\ seen' = seen
    BY <1>8, ReplaceEffect
  <2>2. Written' = Written \/ Written' = Written \cup {c}
    BY <1>1, <1>8, ReplaceEffect, WrittenAfter
  <2>3. doc' = Append(doc, c) => c \in Written'
    BY WrittenAfter
  <2>4. \A d \in Calls : d # c => pc[d] \notin Holding
    BY <2>1, OneHolder DEF Holding
  <2>5. SeenIsCurrent'
    BY <2>1, <2>2, <2>4 DEF Holding
  <2>6. AnswerIsTrue'
    BY <2>1, <2>2, <2>3, <2>4 DEF Holding
  <2> QED
    BY <2>5, <2>6
<1>9. ASSUME NEW c \in Calls, RemoveLock(c) \/ RemoveLockFails(c) PROVE Goal
  BY <1>1, <1>9 DEF RemoveLock, RemoveLockFails, End, Holding
<1>10. ASSUME NEW p \in Processes, Exit(p) PROVE Goal
  BY <1>1, <1>10 DEF Exit, Holding, Over
<1>11. CASE VerifyLock \/ RemoveStaleLock
  BY <1>1, <1>11 DEF VerifyLock, RemoveStaleLock
<1>12. CASE UNCHANGED vars
  BY <1>1, <1>12 DEF vars
<1> QED
  BY <1>2, <1>3, <1>4, <1>5, <1>6, <1>7, <1>8, <1>9, <1>10, <1>11, <1>12
     DEF Next, CallStep

-----------------------------------------------------------------------------
(* The queues. *)

\* A call that ends leaves the queues as they must be.
LEMMA EndKeepsQueues ==
    ASSUME TypeOK, HolderOwnsLock, QueueHolds, QueueSorted,
           NEW c \in Calls, NEW result \in Over,
           pc[c] \in Holding \/ HasTurn(c), End(c, result), UNCHANGED <<at, order>>
    PROVE  QueueHolds' /\ QueueSorted'
<1> USE DEF TypeOK
<1> DEFINE q == queue[at[c]]
<1>1. q \in Seq(Calls) /\ q # << >> /\ q[1] = c
  BY DEF QueueHolds, HasTurn
<1>2. pc[c] \in {"queued"} \cup Holding
  BY DEF HasTurn
<1>3. /\ queue'[at[c]] = Tail(q)
      /\ \A l \in Ledgers : l # at[c] => queue'[l] = queue[l]
      /\ pc' = [pc EXCEPT ![c] = result] /\ result \notin {"queued"} \cup Holding
      /\ result # "idle"
  BY StageKinds DEF End
<1>4. /\ Len(q) \in Nat \ {0} /\ DOMAIN q = 1 .. Len(q)
      /\ DOMAIN Tail(q) = 1 .. Len(q) - 1
      /\ \A m \in 1 .. Len(q) - 1 : Tail(q)[m] = q[m + 1]
  BY <1>1
<1> HIDE DEF q
<1>5. ASSUME NEW d \in Calls, pc'[d] \in {"queued"} \cup Holding
      PROVE  \E i \in DOMAIN queue'[at[d]] : queue'[at[d]][i] = d
  <2>1. d # c /\ pc[d] \in {"queued"} \cup Holding
    BY <1>3, <1>5
  <2>2. PICK i \in DOMAIN queue[at[d]] : queue[at[d]][i] = d
    BY <2>1 DEF QueueHolds
  <2>3. CASE at[d] = at[c]
    <3>1. i \in 1 .. Len(q) /\ i # 1 /\ q[i] = d
      BY <1>1, <1>4, <2>1, <2>2, <2>3 DEF q
    <3>2. i - 1 \in 1 .. Len(q) - 1 /\ Tail(q)[i - 1] = d
      BY <1>4, <3>1
    <3> QED
      BY <1>3, <1>4, <2>3, <3>2
  <2>4. CASE at[d] # at[c]
    BY <1>3, <2>2, <2>4
  <2> QED
    BY <2>3, <2>4
<1>6. ASSUME NEW d \in Calls, pc'[d] \in Holding
      PROVE  queue'[at[d]][1] = d
  <2>1. d # c /\ pc[d] \in Holding
    BY <1>3, <1>6
  <2>2. queue[at[d]][1] = d
    BY <2>1 DEF QueueHolds
  <2>3. at[d] # at[c]
    BY <1>1, <2>1, <2>2 DEF q
  <2> QED
    BY <1>3, <2>2, <2>3
<1>7. QueueHolds'
  BY <1>5, <1>6 DEF QueueHolds
<1>8. \A i \in DOMAIN order : pc'[order[i]] # "idle"
  BY <1>3 DEF QueueSorted
<1>9. ASSUME NEW l \in Ledgers, NEW m \in DOMAIN queue'[l]
      PROVE  \E i \in DOMAIN order : order[i] = queue'[l][m]
  <2>1. CASE l = at[c]
    <3>1. m \in 1 .. Len(q) - 1 /\ queue'[l][m] = q[m + 1]
      BY <1>3, <1>4, <2>1, <1>9
    <3>2. m + 1 \in DOMAIN q
      BY <1>4, <3>1
    <3> QED
      BY <2>1, <3>1, <3>2 DEF QueueSorted, q
  <2>2. CASE l # at[c]
    BY <1>3, <2>2, <1>9 DEF QueueSorted
  <2> QED
    BY <2>1, <2>2
<1>10. ASSUME NEW l \in Ledgers, NEW m \in DOMAIN queue'[l], NEW n \in DOMAIN queue'[l], m < n
       PROVE  \E i, j \in DOMAIN order :
                i < j /\ order[i] = queue'[l][m] /\ order[j] = queue'[l][n]
  <2>1. CASE l = at[c]
    <3>1. /\ m \in 1 .. Len(q) - 1 /\ n \in 1 .. Len(q) - 1
          /\ queue'[l][m] = q[m + 1] /\ queue'[l][n] = q[n + 1]
      BY <1>3, <1>4, <2>1, <1>10
    <3>2. m + 1 \in DOMAIN q /\ n + 1 \in DOMAIN q /\ m + 1 < n + 1
      BY <1>4, <1>10, <3>1
    <3> QED
      BY <2>1, <3>1, <3>2 DEF QueueSorted, q
  <2>2. CASE l # at[c]
    BY <1>3, <2>2, <1>10 DEF QueueSorted
  <2> QED
    BY <2>1, <2>2
<1>11. QueueSorted'
  BY <1>8, <1>9, <1>10 DEF QueueSorted
<1> QED
  BY <1>7, <1>11

\* A call that only moves on under the lock file leaves the queues alone.
LEMMA HoldingKeepsQueues ==
    ASSUME TypeOK, QueueHolds, QueueSorted, NEW c \in Calls, NEW stage \in Holding,
           pc[c] \in Holding \/ HasTurn(c), pc' = [pc EXCEPT ![c] = stage],
           UNCHANGED <<queue, at, order>>
    PROVE  QueueHolds' /\ QueueSorted'
<1>1. queue[at[c]][1] = c /\ pc[c] \in {"queued"} \cup Holding
  BY DEF QueueHolds, HasTurn, TypeOK
<1>2. QueueHolds'
  BY <1>1 DEF QueueHolds, TypeOK
<1>3. stage # "idle"
  BY DEF Holding
<1> QED
  BY <1>2, <1>3 DEF QueueSorted, TypeOK

\* A sequence with one more element, read at its positions.
LEMMA AppendEffect ==
    ASSUME NEW s \in Seq(Calls), NEW c \in Calls, NEW t, t = Append(s, c)
    PROVE  /\ Len(s) + 1 \in DOMAIN t /\ t[Len(s) + 1] = c /\ Len(s) \in Nat
           /\ \A i \in DOMAIN s : i \in Nat /\ i \in DOMAIN t /\ t[i] = s[i]
           /\ \A i \in DOMAIN s : i < Len(s) + 1 /\ 1 \in DOMAIN s
           /\ \A i \in DOMAIN t : i \in DOMAIN s \/ i = Len(s) + 1
OBVIOUS

\* A new call goes to the end of its queue and of the order.
LEMMA MutateKeepsQueues ==
    ASSUME TypeOK, QueueHolds, QueueSorted, NEW c \in Calls, Mutate(c)
    PROVE  QueueHolds' /\ QueueSorted'
<1> DEFINE q == queue[at[c]]
           last == Len(order) + 1
<1>1. /\ pc[c] = "idle" /\ pc' = [pc EXCEPT ![c] = "queued"] /\ at' = at
      /\ \A l \in Ledgers : l # at[c] => queue'[l] = queue[l]
  BY DEF Mutate, TypeOK
<1>2. /\ \A d \in Calls : d # c => pc'[d] = pc[d]
      /\ pc'[c] = "queued" /\ at \in [Calls -> Ledgers]
  BY <1>1 DEF TypeOK
<1>3. /\ Len(q) + 1 \in DOMAIN queue'[at[c]] /\ queue'[at[c]][Len(q) + 1] = c
      /\ \A i \in DOMAIN q : i \in DOMAIN queue'[at[c]] /\ queue'[at[c]][i] = q[i]
      /\ \A i \in DOMAIN q : i \in Nat /\ i < Len(q) + 1 /\ 1 \in DOMAIN q
      /\ \A i \in DOMAIN queue'[at[c]] : i \in DOMAIN q \/ i = Len(q) + 1
      /\ Len(q) \in Nat
  <2>1. q \in Seq(Calls) /\ queue'[at[c]] = Append(q, c)
    BY DEF Mutate, TypeOK
  <2> QED
    BY <2>1, AppendEffect
<1>4. /\ last \in DOMAIN order' /\ order'[last] = c
      /\ \A i \in DOMAIN order : i \in DOMAIN order' /\ order'[i] = order[i] /\ i < last
      /\ \A i \in DOMAIN order' : i \in DOMAIN order \/ i = last
      /\ \A i \in DOMAIN order : order[i] \in Calls /\ order[i] # c
  <2>1. order \in Seq(Calls) /\ order' = Append(order, c)
    BY DEF Mutate, TypeOK
  <2>2. \A i \in DOMAIN order : order[i] \in Calls /\ order[i] # c
    BY <1>1, <2>1 DEF QueueSorted
  <2> QED
    BY <2>1, <2>2, AppendEffect
<1> HIDE DEF q, last
<1>5. ASSUME NEW d \in Calls, pc'[d] \in {"queued"} \cup Holding
      PROVE  /\ \E i \in DOMAIN queue'[at[d]] : queue'[at[d]][i] = d
             /\ pc'[d] \in Holding => queue'[at[d]][1] = d
  <2>1. CASE d = c
    BY <1>2, <1>3, <2>1 DEF Holding
  <2>2. CASE d # c
    <3>1. pc[d] = pc'[d] /\ at[d] \in Ledgers
      BY <1>2, <2>2
    <3>2. PICK i \in DOMAIN queue[at[d]] : queue[at[d]][i] = d
      BY <1>5, <3>1 DEF QueueHolds
    <3>3. pc[d] \in Holding => queue[at[d]][1] = d
      BY DEF QueueHolds
    <3>4. CASE at[d] = at[c]
      BY <1>3, <3>1, <3>2, <3>3, <3>4 DEF q
    <3>5. CASE at[d] # at[c]
      BY <1>1, <3>1, <3>2, <3>3, <3>5
    <3> QED
      BY <3>4, <3>5
  <2> QED
    BY <2>1, <2>2
<1>6. QueueHolds'
  BY <1>1, <1>5 DEF QueueHolds
<1>7. \A i, j \in DOMAIN order' : order'[i] = order'[j] => i = j
  BY <1>4 DEF QueueSorted
<1>8. \A i \in DOMAIN order' : pc'[order'[i]] # "idle"
  BY <1>2, <1>4 DEF QueueSorted
<1>9. ASSUME NEW l \in Ledgers, NEW m \in DOMAIN queue'[l]
      PROVE  \/ m \in DOMAIN queue[l] /\ queue'[l][m] = queue[l][m]
             \/ l = at[c] /\ m = Len(q) + 1 /\ queue'[l][m] = c
  <2>1. CASE l = at[c]
    BY <1>3, <1>9, <2>1 DEF q
  <2>2. CASE l # at[c]
    BY <1>1, <1>9, <2>2
  <2> QED
    BY <2>1, <2>2
<1>10. ASSUME NEW l \in Ledgers, NEW m \in DOMAIN queue[l]
       PROVE  \E i \in DOMAIN order' : order'[i] = queue[l][m] /\ i < last
  BY <1>4 DEF QueueSorted
<1>11. ASSUME NEW l \in Ledgers, NEW m \in DOMAIN queue'[l]
       PROVE  \E i \in DOMAIN order' : order'[i] = queue'[l][m]
  BY <1>4, <1>9, <1>10
<1>12. ASSUME NEW l \in Ledgers, NEW m \in DOMAIN queue'[l], NEW n \in DOMAIN queue'[l], m < n
       PROVE  \E i, j \in DOMAIN order' :
                i < j /\ order'[i] = queue'[l][m] /\ order'[j] = queue'[l][n]
  <2>1. CASE n \in DOMAIN queue[l] /\ queue'[l][n] = queue[l][n]
    <3>1. m \in DOMAIN queue[l] /\ queue'[l][m] = queue[l][m]
      <4>1. CASE l = at[c] /\ m = Len(q) + 1
        BY <1>3, <1>12, <2>1, <4>1 DEF q
      <4> QED
        BY <1>9, <4>1
    <3>2. PICK i, j \in DOMAIN order :
            i < j /\ order[i] = queue[l][m] /\ order[j] = queue[l][n]
      BY <1>12, <2>1, <3>1 DEF QueueSorted
    <3> QED
      BY <1>4, <2>1, <3>1, <3>2
  <2>2. CASE l = at[c] /\ n = Len(q) + 1 /\ queue'[l][n] = c
    <3>1. m \in DOMAIN queue[l] /\ queue'[l][m] = queue[l][m]
      BY <1>3, <1>9, <1>12, <2>2
    <3>2. PICK i \in DOMAIN order' : order'[i] = queue[l][m] /\ i < last
      BY <1>10, <3>1
    <3> QED
      BY <1>4, <2>2, <3>1, <3>2
  <2> QED
    BY <1>9, <2>1, <2>2
<1>13. QueueSorted'
  BY <1>7, <1>8, <1>11, <1>12 DEF QueueSorted
<1> QED
  BY <1>6, <1>13

\* Every step keeps the queues.
LEMMA QueuesKept ==
    ASSUME TypeOK, HolderOwnsLock, QueueHolds, QueueSorted, [Next]_vars
    PROVE  QueueHolds' /\ QueueSorted'
<1> DEFINE Goal == QueueHolds' /\ QueueSorted'
<1> USE DEF fileVars, callVars
<1>1. ASSUME NEW c \in Calls, Mutate(c) PROVE Goal
  BY <1>1, MutateKeepsQueues
<1>2. ASSUME NEW c \in Calls, OpenLock(c) PROVE Goal
  BY <1>2, HoldingKeepsQueues DEF OpenLock, Holding
<1>3. ASSUME NEW c \in Calls, GiveUp(c) PROVE Goal
  BY <1>3, EndKeepsQueues DEF GiveUp, Over
<1>4. ASSUME NEW c \in Calls, WriteLock(c) \/ Read(c) \/ Prepare(c) PROVE Goal
  BY <1>4, HoldingKeepsQueues DEF WriteLock, Read, Prepare, Holding
<1>5. ASSUME NEW c \in Calls, WriteLockFails(c) \/ RemoveLockFails(c) PROVE Goal
  BY <1>5, EndKeepsQueues DEF WriteLockFails, RemoveLockFails, Holding, Over
<1>6. ASSUME NEW c \in Calls, ReadFails(c) \/ Refuse(c) PROVE Goal
  BY <1>6, HoldingKeepsQueues DEF ReadFails, Refuse, Leave, Holding
<1>7. ASSUME NEW c \in Calls, Replace(c) PROVE Goal
  <2>1. pc[c] \in Holding /\ pc' = [pc EXCEPT ![c] = "leaving"] /\ "leaving" \in Holding
        /\ UNCHANGED <<queue, at, order>>
    BY <1>7 DEF Replace, Leave, Holding
  <2> QED
    BY <2>1, HoldingKeepsQueues
<1>8. ASSUME NEW c \in Calls, RemoveLock(c) PROVE Goal
  <2>1. PICK result \in {"done", "rejected"} : answer[c] = result
    BY DEF TypeOK
  <2>2. End(c, result) /\ pc[c] \in Holding /\ result \in Over /\ UNCHANGED <<at, order>>
    BY <1>8, <2>1 DEF RemoveLock, End, Holding, Over
  <2> QED
    BY <2>2, EndKeepsQueues
<1>9. ASSUME NEW p \in Processes, Exit(p) PROVE Goal
  <2>1. \A d \in Calls : pc'[d] \in {"queued"} \cup Holding =>
            Home[at[d]] # p /\ pc'[d] = pc[d]
    BY <1>9 DEF Exit, Over, Holding, TypeOK
  <2>2. \A l \in Ledgers : queue'[l] = IF Home[l] = p THEN << >> ELSE queue[l]
    BY <1>9 DEF Exit
  <2>3. at' = at /\ order' = order
    BY <1>9 DEF Exit
  <2>4. QueueHolds'
    <3>1. ASSUME NEW d \in Calls, pc'[d] \in {"queued"} \cup Holding
          PROVE  queue'[at[d]] = queue[at[d]] /\ pc'[d] = pc[d]
      BY <2>1, <2>2, <3>1 DEF TypeOK
    <3> QED
      BY <2>3, <3>1 DEF QueueHolds
  <2>5. \A i \in DOMAIN order : pc'[order[i]] # "idle"
    BY <1>9 DEF Exit, QueueSorted, TypeOK
  <2> QED
    BY <2>2, <2>3, <2>4, <2>5 DEF QueueSorted
<1>10. CASE VerifyLock \/ RemoveStaleLock
  BY <1>10 DEF VerifyLock, RemoveStaleLock, QueueHolds, QueueSorted
<1>11. CASE UNCHANGED vars
  BY <1>11 DEF vars, QueueHolds, QueueSorted
<1> QED
  BY <1>1, <1>2, <1>3, <1>4, <1>5, <1>6, <1>7, <1>8, <1>9, <1>10, <1>11
     DEF Next, CallStep

-----------------------------------------------------------------------------
(* The invariant holds. *)

\* An empty ledger nobody has called satisfies the invariant.
LEMMA InitIndInv == Init => IndInv
<1> SUFFICES ASSUME Init PROVE IndInv
  OBVIOUS
<1>1. TypeOK
  <2>1. << >> \in Seq(Calls)
    OBVIOUS
  <2>2. pc \in [Calls -> Stages] /\ answer \in [Calls -> {"done", "rejected"}]
    BY DEF Init, Stages
  <2>3. queue \in [Ledgers -> Seq(Calls)] /\ seen \in [Calls -> Seq(Calls)]
    BY <2>1 DEF Init
  <2>4. {exits, faults} \subseteq Nat
    BY DEF Init
  <2> QED
    BY <2>1, <2>2, <2>3, <2>4 DEF Init, TypeOK
<1>2. HolderOwnsLock /\ SeenIsCurrent /\ AnswerIsTrue /\ RemovingDead
  BY DEF Init, HolderOwnsLock, SeenIsCurrent, AnswerIsTrue, RemovingDead, Holding, Written
<1>3. QueueHolds /\ QueueSorted
  BY DEF Init, QueueHolds, QueueSorted, Holding
<1> QED
  BY <1>1, <1>2, <1>3 DEF IndInv

\* Every step keeps the invariant.
LEMMA IndInvInductive == IndInv /\ [Next]_vars => IndInv'
BY TypesKept, LockKept, DocKept, QueuesKept DEF IndInv

\* Lock file, document, answers and queues stay in step.
THEOREM FileInvariant == Spec => []IndInv
<1> QED
  BY InitIndInv, IndInvInductive, PTL DEF Spec

\* Every variable of the ledger file keeps its type.
THEOREM FileTypeCorrect == Spec => []TypeOK
<1>1. IndInv => TypeOK
  BY DEF IndInv
<1> QED
  BY <1>1, FileInvariant, PTL

\* No two calls, of whatever ledger objects and processes, are under the lock
\* file at once, through failing disks, exits and the recovery script.
THEOREM MutualExclusion == Spec => []HolderOwnsLock
<1>1. IndInv => HolderOwnsLock
  BY DEF IndInv
<1> QED
  BY <1>1, FileInvariant, PTL

\* Only a call that replaces the file changes the document.
LEMMA DocChanges ==
    ASSUME [Next]_vars, doc' # doc
    PROVE  \E c \in Calls : Replace(c)
BY DEF Next, vars, CallStep, fileVars, callVars, Mutate, OpenLock, GiveUp, WriteLock,
       WriteLockFails, Read, ReadFails, Refuse, Prepare, RemoveLock, RemoveLockFails,
       Exit, VerifyLock, RemoveStaleLock

\* No call overwrites what another has written since it read the file.
THEOREM ChangesKept == Spec => NoLostChange
<1>1. ASSUME IndInv, [Next]_vars, doc' # doc
      PROVE  \E c \in Calls : c \notin Written /\ doc' = Append(doc, c)
  <2>1. PICK c \in Calls : Replace(c)
    BY <1>1, DocChanges
  <2> QED
    BY <1>1, <2>1, ReplaceEffect DEF IndInv
<1>2. IndInv /\ [Next]_vars
      => [doc' # doc => \E c \in Calls : c \notin Written /\ doc' = Append(doc, c)]_vars
  BY <1>1
<1> QED
  BY <1>2, FileInvariant, PTL DEF Spec, NoLostChange

\* A change is written only when every earlier call of its ledger object has been
\* answered.
THEOREM CallsInOrder == Spec => QueueOrder
<1>1. ASSUME IndInv, [Next]_vars, NEW i \in DOMAIN order, NEW j \in DOMAIN order,
             i < j, at[order[i]] = at[order[j]], doc' = Append(doc, order[j])
      PROVE  pc[order[i]] \in Over
  <2> DEFINE d == order[i]
  <2>1. order \in Seq(Calls) /\ doc \in Seq(Calls) /\ order[j] \in Calls /\ d \in Calls
        /\ i \in Nat /\ j \in Nat
    BY <1>1 DEF IndInv, TypeOK
  <2>2. doc' # doc
    BY <1>1, <2>1
  <2>3. PICK c \in Calls : Replace(c)
    BY <1>1, <2>2, DocChanges
  <2>4. c = order[j] /\ pc[c] \in Holding
    <3>1. doc' = Append(doc, c) /\ pc[c] = "prepared"
      BY <1>1, <2>2, <2>3, ReplaceEffect DEF IndInv
    <3>2. Append(doc, c)[Len(doc) + 1] = c
      BY <2>1
    <3>3. Append(doc, order[j])[Len(doc) + 1] = order[j]
      BY <2>1
    <3>4. Append(doc, c) = Append(doc, order[j])
      BY <1>1, <3>1
    <3> QED
      BY <3>1, <3>2, <3>3, <3>4 DEF Holding
  <2>5. queue[at[c]][1] = c
    BY <1>1, <2>4 DEF IndInv, QueueHolds
  <2>6. d # c
    BY <1>1, <2>1, <2>4 DEF IndInv, QueueSorted
  <2> SUFFICES ASSUME pc[d] \notin Over PROVE FALSE
    OBVIOUS
  <2>7. pc[d] \in {"queued"} \cup Holding
    BY <1>1, <2>1, StageKinds DEF IndInv, TypeOK, QueueSorted
  <2>8. PICK n \in DOMAIN queue[at[c]] : queue[at[c]][n] = d
    BY <1>1, <2>1, <2>4, <2>7 DEF IndInv, QueueHolds
  <2>9. at[c] \in Ledgers /\ 1 \in DOMAIN queue[at[c]] /\ 1 < n
    <3>1. at[c] \in Ledgers /\ queue[at[c]] \in Seq(Calls)
      BY <1>1 DEF IndInv, TypeOK
    <3> QED
      BY <2>5, <2>6, <2>8, <3>1
  <2>10. PICK x, y \in DOMAIN order : x < y /\ order[x] = c /\ order[y] = d
    BY <1>1, <2>5, <2>8, <2>9 DEF IndInv, QueueSorted
  <2>11. x = j /\ y = i
    BY <1>1, <2>4, <2>10 DEF IndInv, QueueSorted
  <2> QED
    BY <1>1, <2>1, <2>10, <2>11
<1>2. IndInv /\ [Next]_vars =>
        [\A i, j \in DOMAIN order :
            i < j /\ at[order[i]] = at[order[j]] /\ doc' = Append(doc, order[j])
            => pc[order[i]] \in Over]_vars
  BY <1>1
<1> QED
  BY <1>2, FileInvariant, PTL DEF Spec, QueueOrder

\* The lock file of a running process is only removed by the call that made it.
THEOREM LivingLock == Spec => LivingLockKept
<1>1. ASSUME IndInv, [Next]_vars, lock # NoLock, lock' = NoLock, ~lock.dead
      PROVE  pc[lock.owner] = "leaving"
  <2> USE DEF fileVars, callVars
  <2>1. lock \in Locks
    BY <1>1 DEF IndInv, TypeOK
  <2>2. [lock EXCEPT !.written = TRUE] \in Locks /\ [lock EXCEPT !.dead = TRUE] \in Locks
        /\ \A written \in BOOLEAN : [lock EXCEPT !.written = written] \in Locks
    BY <2>1 DEF Locks
  <2>3. ASSUME NEW c \in Calls, Mutate(c) \/ OpenLock(c) \/ GiveUp(c) PROVE FALSE
    BY <1>1, <2>3 DEF Mutate, OpenLock, GiveUp
  <2>4. ASSUME NEW c \in Calls, WriteLock(c) \/ WriteLockFails(c) PROVE FALSE
    BY <1>1, <2>2, <2>4, NoLockIsNoRecord DEF WriteLock, WriteLockFails
  <2>5. ASSUME NEW c \in Calls, Read(c) \/ ReadFails(c) \/ Refuse(c) \/ Prepare(c)
        PROVE  FALSE
    BY <1>1, <2>5 DEF Read, ReadFails, Refuse, Prepare
  <2>6. ASSUME NEW c \in Calls, Replace(c) \/ RemoveLockFails(c) PROVE FALSE
    BY <1>1, <2>6 DEF Replace, RemoveLockFails
  <2>7. ASSUME NEW c \in Calls, RemoveLock(c) PROVE pc[lock.owner] = "leaving"
    BY <1>1, <2>7 DEF RemoveLock, IndInv, HolderOwnsLock, Holding
  <2>8. ASSUME NEW p \in Processes, Exit(p) PROVE FALSE
    BY <1>1, <2>2, <2>8, NoLockIsNoRecord DEF Exit
  <2>9. CASE VerifyLock \/ RemoveStaleLock
    BY <1>1, <2>9 DEF VerifyLock, RemoveStaleLock, IndInv, RemovingDead
  <2>10. CASE UNCHANGED vars
    BY <1>1, <2>10 DEF vars
  <2> QED
    BY <1>1, <2>3, <2>4, <2>5, <2>6, <2>7, <2>8, <2>9, <2>10 DEF Next, CallStep
<1>2. IndInv /\ [Next]_vars =>
        [lock # NoLock /\ lock' = NoLock /\ ~lock.dead => pc[lock.owner] = "leaving"]_vars
  BY <1>1
<1> QED
  BY <1>2, FileInvariant, PTL DEF Spec, LivingLockKept

-----------------------------------------------------------------------------
(* The atomic document. *)

\* A step within a call is no step of the atomic document.
LEMMA WithinCall ==
    ASSUME UNCHANGED doc, NEW c \in Calls, pc \in [Calls -> Stages],
           NEW stage \in Stages, pc' = [pc EXCEPT ![c] = stage],
           pc[c] \notin Over \cup {"idle"}, stage \notin Over \cup {"idle"}
    PROVE  UNCHANGED Document!vars
BY DEF Document!vars

\* An answer is an answer of the atomic document.
LEMMA EndIsAnswer ==
    ASSUME UNCHANGED doc, NEW c \in Calls, pc \in [Calls -> Stages],
           NEW result \in {"done", "rejected"}, pc' = [pc EXCEPT ![c] = result],
           pc[c] \notin Over \cup {"idle"}, result = "done" => c \in Written
    PROVE  Document!Next
<1>1. Document!Answer(c)
  BY DEF Document!Answer, Document!Written, Written, Over
<1> QED
  BY <1>1 DEF Document!Next

\* Every step of the file is one step of the atomic document, or none.
LEMMA StepRefines ==
    ASSUME IndInv, [Next]_vars
    PROVE  [Document!Next]_(Document!vars)
<1> DEFINE Goal == [Document!Next]_(Document!vars)
<1> USE DEF fileVars, callVars
<1>1. pc \in [Calls -> Stages] /\ \A s \in {"queued"} \cup Holding : s \notin Over \cup {"idle"}
  BY StageKinds DEF IndInv, TypeOK
<1>2. ASSUME NEW c \in Calls, Mutate(c) PROVE Goal
  <2>1. Document!Invoke(c)
    BY <1>1, <1>2 DEF Mutate, Document!Invoke, Over
  <2> QED
    BY <2>1 DEF Document!Next
<1>3. ASSUME NEW c \in Calls, OpenLock(c) \/ WriteLock(c) PROVE Goal
  BY <1>1, <1>3, WithinCall, StageKinds DEF OpenLock, WriteLock, HasTurn, Holding
<1>4. ASSUME NEW c \in Calls, Read(c) \/ Prepare(c) PROVE Goal
  BY <1>1, <1>4, WithinCall, StageKinds DEF Read, Prepare, Holding
<1>5. ASSUME NEW c \in Calls, ReadFails(c) \/ Refuse(c) PROVE Goal
  BY <1>1, <1>5, WithinCall, StageKinds DEF ReadFails, Refuse, Leave, Holding
<1>6. ASSUME NEW c \in Calls, GiveUp(c) \/ WriteLockFails(c) \/ RemoveLockFails(c)
      PROVE  Goal
  BY <1>1, <1>6, EndIsAnswer
     DEF GiveUp, WriteLockFails, RemoveLockFails, HasTurn, End, Holding
<1>7. ASSUME NEW c \in Calls, RemoveLock(c) PROVE Goal
  <2>1. PICK result \in {"done", "rejected"} : answer[c] = result
    BY DEF IndInv, TypeOK
  <2>2. /\ pc' = [pc EXCEPT ![c] = result] /\ UNCHANGED doc
        /\ pc[c] \in Holding /\ (result = "done" => c \in Written)
    BY <1>7, <2>1 DEF RemoveLock, End, Holding, IndInv, AnswerIsTrue
  <2> QED
    BY <1>1, <2>2, EndIsAnswer
<1>8. ASSUME NEW c \in Calls, Replace(c) PROVE Goal
  <2>1. /\ c \notin Written /\ pc[c] = "prepared" /\ pc' = [pc EXCEPT ![c] = "leaving"]
        /\ doc' = doc \/ doc' = Append(doc, c)
    BY <1>8, ReplaceEffect DEF IndInv
  <2>2. {"prepared", "leaving"} \subseteq Holding
    BY DEF Holding
  <2>3. CASE doc' = doc
    BY <1>1, <2>1, <2>2, <2>3, WithinCall, StageKinds
  <2>4. CASE doc' = Append(doc, c)
    <3>1. Document!Apply(c)
      BY <1>1, <2>1, <2>2, <2>4 DEF Document!Apply, Document!Written, Written
    <3> QED
      BY <3>1 DEF Document!Next
  <2> QED
    BY <2>1, <2>3, <2>4
<1>9. ASSUME NEW p \in Processes, Exit(p) PROVE Goal
  <2> DEFINE ended == {c \in Calls : Home[at[c]] = p /\ pc[c] \notin Over \cup {"idle"}}
  <2>1. PICK lost \in SUBSET Calls : lost = ended
    OBVIOUS
  <2>2. Document!Lose(lost)
    BY <1>1, <1>9, <2>1 DEF Exit, Document!Lose, Over
  <2> QED
    BY <2>2 DEF Document!Next
<1>10. CASE VerifyLock \/ RemoveStaleLock \/ UNCHANGED vars
  BY <1>10 DEF VerifyLock, RemoveStaleLock, vars, Document!vars
<1> QED
  BY <1>2, <1>3, <1>4, <1>5, <1>6, <1>7, <1>8, <1>9, <1>10 DEF Next, CallStep

\* The file, its lock file and the queues give every caller an atomic document.
THEOREM ImplementsAtomicDocument == Spec => AtomicCalls
<1>1. Init => Document!Init
  BY DEF Init, Document!Init
<1>2. Spec => Document!Spec
  BY <1>1, StepRefines, FileInvariant, PTL DEF Spec, Document!Spec
<1> QED
  BY <1>2 DEF AtomicCalls

-----------------------------------------------------------------------------
(* HardwareHistory: what compacting a list of records keeps. *)

\* A set of places that reaches to the end of a list is its last places.
LEMMA LastPlaces ==
    ASSUME NEW n \in Nat, NEW S \in SUBSET (1..n), \A i \in S : \A j \in i..n : j \in S
    PROVE  /\ IsFiniteSet(S) /\ Cardinality(S) \in 0..n
           /\ S = (n - Cardinality(S) + 1)..n
<1>1. IsFiniteSet(1..n) /\ Cardinality(1..n) = n
  BY FS_Interval
<1> DEFINE m == Cardinality(S)
<1>2. IsFiniteSet(S) /\ m \in Nat /\ m <= n
  <2>1. IsFiniteSet(S) /\ Cardinality(S) <= Cardinality(1..n)
    BY <1>1, FS_Subset
  <2> QED BY <1>1, <2>1, FS_CardinalityType
<1>3. ASSUME NEW i \in S PROVE i \in (n - m + 1)..n
  <2>1. i..n \in SUBSET S /\ i \in 1..n
    OBVIOUS
  <2>2. Cardinality(i..n) <= m
    BY <1>2, <2>1, FS_Subset
  <2>3. Cardinality(i..n) = n - i + 1
    BY <2>1, FS_Interval
  <2> HIDE DEF m
  <2> QED BY <1>2, <2>1, <2>2, <2>3
<1>4. ASSUME NEW i \in (n - m + 1)..n, i \notin S PROVE FALSE
  <2>1. i \in Int /\ i <= n /\ i >= 1
    BY <1>2
  <2>2. S \in SUBSET ((i + 1)..n)
    <3>1. ASSUME NEW j \in S PROVE j \in (i + 1)..n
      <4>1. j \in 1..n
        OBVIOUS
      <4>2. ~(j <= i)
        BY <1>4, <2>1, <4>1
      <4> QED BY <2>1, <4>1, <4>2
    <3> QED BY <3>1
  <2>3. IsFiniteSet((i + 1)..n) /\ Cardinality((i + 1)..n) = n - i
    <3>1. i + 1 \in Int /\ n \in Int
      BY <2>1
    <3>2. /\ IsFiniteSet((i + 1)..n)
          /\ Cardinality((i + 1)..n) = IF i + 1 > n THEN 0 ELSE n - (i + 1) + 1
      BY <3>1, FS_Interval
    <3> QED BY <2>1, <3>2
  <2>4. m <= n - i
    BY <2>2, <2>3, FS_Subset
  <2> HIDE DEF m
  <2> QED BY <1>2, <2>1, <2>4
<1> QED
  <2> HIDE DEF m
  <2>1. S = (n - m + 1)..n
    BY <1>3, <1>4
  <2> QED BY <1>2, <2>1 DEF m

\* A list whose records stand in the order of their times.
Ascending(list) == \A i, j \in DOMAIN list : i < j => list[i].at < list[j].at

\* Of a list in the order of its times the recent records are the last ones, and
\* of these the last MaxRecords are kept.
LEMMA KeptPlaces ==
    ASSUME NEW list \in Seq(Samples), Ascending(list), now \in Nat
    PROVE  /\ IsFiniteSet(Kept(list)) /\ Cardinality(Kept(list)) \in Nat
           /\ Cardinality(Kept(list)) <= Len(list) /\ Cardinality(Kept(list)) <= MaxRecords
           /\ Kept(list) = (Len(list) - Cardinality(Kept(list)) + 1)..Len(list)
           /\ \A i \in DOMAIN list \ Kept(list) :
                 \/ list[i].at < now - Retention
                 \/ Cardinality(Kept(list)) = MaxRecords
<1> DEFINE n == Len(list)
           R == Recent(list)
           K == Kept(list)
<1>1. /\ n \in Nat /\ DOMAIN list = 1..n /\ MaxRecords \in Nat \ {0}
      /\ \A i \in 1..n : list[i].at \in Int
      /\ now - Retention \in Int
  <2>1. MaxRecords \in Nat \ {0} /\ Retention \in Nat
    BY HardwareBounds
  <2>2. ASSUME NEW i \in 1..n PROVE list[i].at \in Int
    <3>1. list[i] \in Samples /\ MaxTime + MaxSkew \in Nat
      BY HardwareBounds
    <3> QED BY <3>1 DEF Samples, Times
  <2> QED BY <2>1, <2>2
<1>2. \A i, j \in 1..n : Before(list, i, j) <=> i < j
  BY <1>1 DEF Ascending, Before
<1>3. R \in SUBSET (1..n) /\ \A i \in R : \A j \in i..n : j \in R
  <2>1. ASSUME NEW i \in R, NEW j \in i..n PROVE j \in R
    <3>1. i \in 1..n /\ j \in 1..n /\ (i < j \/ i = j) /\ list[i].at >= now - Retention
      BY <1>1 DEF Recent
    <3>2. list[j].at >= now - Retention
      BY <1>1, <3>1 DEF Ascending
    <3> QED BY <1>1, <3>1, <3>2 DEF Recent
  <2> QED BY <1>1, <2>1 DEF Recent
<1>4. ASSUME NEW i \in R
      PROVE  Cardinality({j \in R : Before(list, i, j)}) = n - i
  <2>1. i \in 1..n
    BY <1>3
  <2>2. {j \in R : Before(list, i, j)} = (i + 1)..n
    <3>1. ASSUME NEW j \in R, Before(list, i, j) PROVE j \in (i + 1)..n
      <4>1. j \in 1..n /\ i < j
        BY <1>2, <1>3, <2>1, <3>1
      <4> QED BY <1>1, <2>1, <4>1
    <3>2. ASSUME NEW j \in (i + 1)..n PROVE j \in R /\ Before(list, i, j)
      <4>1. j \in i..n /\ j \in 1..n /\ i < j
        BY <1>1, <2>1
      <4> QED BY <1>2, <1>3, <2>1, <4>1
    <3> HIDE DEF R
    <3> QED BY <3>1, <3>2
  <2>3. Cardinality((i + 1)..n) = n - i
    <3>1. i + 1 \in Int /\ n \in Int
      BY <1>1, <2>1
    <3>2. Cardinality((i + 1)..n) = IF i + 1 > n THEN 0 ELSE n - (i + 1) + 1
      BY <3>1, FS_Interval
    <3> QED BY <1>1, <2>1, <3>2
  <2> QED BY <2>2, <2>3
<1>5. \A i \in 1..n : i \in K <=> i \in R /\ n - i < MaxRecords
  BY <1>4 DEF Kept
<1>6. K \in SUBSET (1..n) /\ \A i \in K : \A j \in i..n : j \in K
  <2>1. K \in SUBSET (1..n)
    BY <1>3 DEF Kept
  <2>2. ASSUME NEW i \in K, NEW j \in i..n PROVE j \in K
    <3>1. i \in 1..n /\ j \in 1..n /\ i <= j
      BY <1>1, <2>1
    <3>2. i \in R /\ n - i < MaxRecords
      BY <1>5, <3>1
    <3>3. j \in R /\ n - j < MaxRecords
      BY <1>1, <1>3, <3>1, <3>2
    <3> QED BY <1>5, <3>1, <3>3
  <2> QED BY <2>1, <2>2
<1> DEFINE m == Cardinality(K)
<1> HIDE DEF n, R, K
<1>7. IsFiniteSet(K) /\ m \in 0..n /\ K = (n - m + 1)..n
  BY <1>1, <1>6, LastPlaces
<1> HIDE DEF m
<1>8. m <= MaxRecords
  <2>1. CASE m = 0
    BY <1>1, <2>1
  <2>2. CASE m # 0
    <3>1. n - m + 1 \in K /\ n - m + 1 \in 1..n
      BY <1>1, <1>7, <2>2
    <3>2. n - (n - m + 1) < MaxRecords
      BY <1>5, <3>1
    <3> QED BY <1>1, <1>7, <3>2
  <2> QED BY <2>1, <2>2
<1>9. ASSUME NEW i \in 1..n, i \notin K
      PROVE  list[i].at < now - Retention \/ m = MaxRecords
  <2>1. CASE i \notin R
    BY <1>1, <2>1 DEF R, n, Recent
  <2>2. CASE i \in R
    <3>1. n - i >= MaxRecords
      BY <1>1, <1>5, <1>9, <2>2
    <3>2. n - MaxRecords + 1 \in 1..n /\ n - MaxRecords + 1 \in i..n
      BY <1>1, <3>1
    <3>3. n - MaxRecords + 1 \in R /\ n - (n - MaxRecords + 1) < MaxRecords
      BY <1>1, <1>3, <2>2, <3>2
    <3>4. n - MaxRecords + 1 \in K
      BY <1>5, <3>2, <3>3
    <3>5. n - m + 1 <= n - MaxRecords + 1
      BY <1>7, <3>4
    <3> QED BY <1>1, <1>7, <1>8, <3>5
  <2> QED BY <2>1, <2>2
<1> QED
  BY <1>1, <1>7, <1>8, <1>9 DEF n, K, m

\* What is kept comes in its order, and nothing else.
LEMMA KeptInOrder ==
    ASSUME NEW list \in Seq(Samples), Ascending(list), now \in Nat
    PROVE  \E f \in [1..Cardinality(Kept(list)) -> Kept(list)] :
             /\ \A i, j \in 1..Cardinality(Kept(list)) : i < j => f[i] < f[j]
             /\ \A x \in Kept(list) : \E i \in 1..Cardinality(Kept(list)) : f[i] = x
             /\ Compact(list) = [i \in 1..Cardinality(Kept(list)) |-> list[f[i]]]
<1> DEFINE n == Len(list)
           K == Kept(list)
           m == Cardinality(K)
           InOrderOf(f) == \A i, j \in 1..m : i < j => Before(list, f[i], f[j])
           f == CHOOSE f \in [1..m -> K] : InOrderOf(f)
<1>1. /\ n \in Nat /\ m \in Nat /\ m <= n /\ IsFiniteSet(K)
      /\ K = (n - m + 1)..n
  BY KeptPlaces
<1>2. \A i, j \in 1..n : Before(list, i, j) <=> i < j
  <2>1. ASSUME NEW i \in 1..n PROVE list[i].at \in Int
    <3>1. list[i] \in Samples /\ MaxTime + MaxSkew \in Nat
      BY HardwareBounds
    <3> QED BY <3>1 DEF Samples, Times
  <2> QED BY <2>1 DEF Ascending, Before
<1>3. f \in [1..m -> K] /\ InOrderOf(f)
  <2> DEFINE g == [k \in 1..m |-> n - m + k]
  <2>1. \A k \in 1..m : g[k] \in K /\ g[k] \in 1..n
    <3> HIDE DEF n, K, m
    <3> QED BY <1>1
  <2>2. g \in [1..m -> K]
    <3> HIDE DEF n, K, m
    <3> QED BY <2>1
  <2>3. InOrderOf(g)
    <3> HIDE DEF n, K, m
    <3>1. ASSUME NEW i \in 1..m, NEW j \in 1..m, i < j PROVE Before(list, g[i], g[j])
      <4>1. g[i] < g[j]
        BY <1>1, <3>1
      <4> HIDE DEF g
      <4> QED BY <1>2, <2>1, <4>1
    <3> HIDE DEF g
    <3> QED BY <3>1
  <2> HIDE DEF n, K, m, g, InOrderOf
  <2> QED BY <2>2, <2>3
<1>4. Compact(list) = [i \in 1..m |-> list[f[i]]]
  BY DEF Compact
<1> HIDE DEF f, m, K, n
<1>5. ASSUME NEW i \in 1..m, NEW j \in 1..m, i < j PROVE f[i] < f[j]
  <2>1. f[i] \in 1..n /\ f[j] \in 1..n
    BY <1>1, <1>3
  <2> QED BY <1>2, <1>3, <1>5, <2>1
<1>6. ASSUME NEW x \in K, \A i \in 1..m : f[i] # x PROVE FALSE
  <2>1. f \in [1..m -> K \ {x}]
    BY <1>3, <1>6
  <2>2. IsFiniteSet(K \ {x}) /\ Cardinality(K \ {x}) = m - 1
    BY <1>1, FS_RemoveElement DEF m
  <2>3. IsFiniteSet(1..m) /\ Cardinality(1..m) = m
    BY <1>1, FS_Interval
  <2>4. \E i, j \in 1..m : i # j /\ f[i] = f[j]
    <3>1. Cardinality(K \ {x}) < Cardinality(1..m)
      BY <1>1, <2>2, <2>3
    <3> QED BY <2>1, <2>2, <2>3, <3>1, FS_PigeonHole
  <2>5. PICK i \in 1..m, j \in 1..m : i # j /\ f[i] = f[j]
    BY <2>4
  <2>6. i < j \/ j < i
    BY <1>1, <2>5
  <2>7. f[i] \in 1..n /\ f[j] \in 1..n
    BY <1>1, <1>3
  <2> QED BY <1>1, <1>5, <2>5, <2>6, <2>7
<1> QED
  BY <1>3, <1>4, <1>5, <1>6 DEF m, K

\* Compacting keeps a list spaced and within its limit, and what it drops is
\* outdated or gave way to younger records.
LEMMA CompactKeeps ==
    ASSUME NEW list \in Seq(Samples), Ascending(list), now \in Nat,
           NEW c, c = Compact(list)
    PROVE  /\ c \in Seq(Samples) /\ Len(c) <= MaxRecords
           /\ Spaced(list) => Spaced(c)
           /\ \A x \in ToSet(list) \ ToSet(c) :
                 \/ x.at < now - Retention
                 \/ Len(c) = MaxRecords /\ \A i \in 1..Len(c) : c[i].at > x.at
           /\ Len(list) <= MaxRecords =>
                 \A x \in ToSet(list) \ ToSet(c) : x.at < now - Retention
<1> DEFINE n == Len(list)
           K == Kept(list)
           m == Cardinality(K)
<1>1. /\ n \in Nat /\ m \in Nat /\ m <= n /\ m <= MaxRecords
      /\ K = (n - m + 1)..n
      /\ \A i \in DOMAIN list \ K : list[i].at < now - Retention \/ m = MaxRecords
  BY KeptPlaces
<1>2. PICK f \in [1..m -> K] :
             /\ \A i, j \in 1..m : i < j => f[i] < f[j]
             /\ \A x \in K : \E i \in 1..m : f[i] = x
             /\ Compact(list) = [i \in 1..m |-> list[f[i]]]
  BY KeptInOrder
<1> HIDE DEF n, K, m
<1>3. /\ DOMAIN list = 1..n /\ K \in SUBSET (1..n)
      /\ \A i \in 1..n : list[i] \in Samples
      /\ MaxRecords \in Nat
  BY <1>1, HardwareBounds DEF n
<1>4. c = [i \in 1..m |-> list[f[i]]] /\ \A i \in 1..m : f[i] \in 1..n /\ f[i] \in K
  BY <1>2, <1>3
<1>5. c \in Seq(Samples) /\ Len(c) = m /\ DOMAIN c = 1..m
  BY <1>1, <1>3, <1>4
<1>6. ASSUME Spaced(list) PROVE Spaced(c)
  <2>1. ASSUME NEW i \in 1..m, NEW j \in 1..m, i < j PROVE c[j].at - c[i].at >= MinInterval
    <3>1. f[i] < f[j] /\ c[i] = list[f[i]] /\ c[j] = list[f[j]]
      BY <1>2, <1>4, <2>1
    <3> QED BY <1>3, <1>4, <1>6, <3>1 DEF Spaced
  <2> QED BY <1>5, <2>1 DEF Spaced
<1>7. ASSUME NEW x \in ToSet(list) \ ToSet(c), ~(x.at < now - Retention)
      PROVE  m = MaxRecords /\ n > MaxRecords /\ \A i \in 1..m : c[i].at > x.at
  <2>1. PICK i \in 1..n : x = list[i]
    BY <1>3 DEF ToSet
  <2>2. i \notin K
    <3>1. ASSUME i \in K PROVE FALSE
      <4>1. PICK k \in 1..m : f[k] = i
        BY <1>2, <3>1
      <4>2. c[k] = x
        BY <1>4, <2>1, <4>1
      <4> QED BY <1>5, <4>2 DEF ToSet
    <3> QED BY <3>1
  <2>3. m = MaxRecords
    BY <1>1, <1>3, <1>7, <2>1, <2>2
  <2>4. i < n - m + 1
    BY <1>1, <2>2
  <2>5. \A j \in K : list[j].at > x.at
    <3>1. ASSUME NEW j \in K PROVE list[i].at < list[j].at
      <4>1. j \in 1..n /\ i < j
        BY <1>1, <1>3, <2>4
      <4> QED BY <1>3, <4>1 DEF Ascending
    <3>2. ASSUME NEW j \in 1..n PROVE list[j].at \in Int
      <4>1. list[j] \in Samples /\ MaxTime + MaxSkew \in Nat
        BY <1>3, HardwareBounds
      <4> QED BY <4>1 DEF Samples, Times
    <3> QED BY <1>3, <2>1, <3>1, <3>2
  <2> QED BY <1>1, <1>4, <2>3, <2>4, <2>5
<1>8. n = Len(list)
  BY DEF n
<1> QED
  BY <1>1, <1>3, <1>5, <1>6, <1>7, <1>8

-----------------------------------------------------------------------------
(* Lists of records, and queues. *)

\* A snapshot's time is a number.
LEMMA SampleTimes == \A x \in Samples : x.at \in Nat /\ x.at \in Times
<1>1. MaxTime + MaxSkew \in Nat
  BY HardwareBounds
<1> QED BY <1>1 DEF Samples, Times

\* Spaced records stand in the order of their times.
LEMMA SpacedAscends ==
    ASSUME NEW list \in Seq(Samples), Spaced(list)
    PROVE  Ascending(list)
<1>1. MinInterval \in Nat \ {0}
  BY HardwareBounds
<1>2. \A i \in DOMAIN list : list[i].at \in Nat
  BY SampleTimes
<1> QED BY <1>1, <1>2 DEF Spaced, Ascending

\* A record that follows the last one at an interval keeps a list spaced.
LEMMA AppendSpaced ==
    ASSUME NEW list \in Seq(Samples), Spaced(list), NEW x \in Samples,
           list # <<>> => x.at - Last(list).at >= MinInterval
    PROVE  Append(list, x) \in Seq(Samples) /\ Spaced(Append(list, x))
<1> DEFINE n == Len(list)
           a == Append(list, x)
<1>1. /\ a \in Seq(Samples) /\ DOMAIN a = 1..(n + 1) /\ a[n + 1] = x
      /\ n \in Nat /\ \A i \in 1..n : a[i] = list[i] /\ list[i] \in Samples
  OBVIOUS
<1>2. MinInterval \in Nat \ {0}
  BY HardwareBounds
<1>3. ASSUME NEW i \in 1..n PROVE x.at - list[i].at >= MinInterval
  <2>1. n \in 1..n /\ list # <<>> /\ Last(list) = list[n]
    BY <1>1 DEF Last
  <2>2. /\ x.at - list[n].at >= MinInterval
        /\ x.at \in Nat /\ list[n].at \in Nat /\ list[i].at \in Nat
    BY <1>1, <2>1, SampleTimes
  <2>3. i = n \/ list[n].at - list[i].at >= MinInterval
    BY <2>1, <1>1 DEF Spaced
  <2> QED BY <1>2, <2>2, <2>3
<1>4. ASSUME NEW i \in 1..(n + 1), NEW j \in 1..(n + 1), i < j
      PROVE  a[j].at - a[i].at >= MinInterval
  <2>1. i \in 1..n
    BY <1>1, <1>4
  <2>2. CASE j = n + 1
    <3>1. a[j] = x /\ a[i] = list[i]
      BY <1>1, <2>1, <2>2
    <3> QED BY <1>3, <2>1, <3>1
  <2>3. CASE j # n + 1
    <3>1. j \in 1..n
      BY <1>1, <2>3
    <3>2. a[i] = list[i] /\ a[j] = list[j]
      BY <1>1, <2>1, <3>1
    <3>3. i \in DOMAIN list /\ j \in DOMAIN list
      BY <2>1, <3>1
    <3> QED BY <1>4, <3>2, <3>3 DEF Spaced
  <2> QED BY <2>2, <2>3
<1> HIDE DEF a
<1> QED
  BY <1>1, <1>4 DEF Spaced, a

\* Without its head a queue has all but that element.
LEMMA TailOfQueue ==
    ASSUME NEW S, NEW q \in Seq(S), IsInjective(q), NEW x \in ToSet(q), Head(q) = x
    PROVE  /\ Tail(q) \in Seq(S) /\ IsInjective(Tail(q))
           /\ ToSet(Tail(q)) = ToSet(q) \ {x}
<1>1. Len(q) \in Nat /\ Len(q) # 0 /\ q # <<>> /\ DOMAIN q = 1..Len(q) /\ q[1] = x
  BY DEF ToSet
<1>2. /\ Tail(q) \in Seq(S) /\ Len(Tail(q)) = Len(q) - 1
      /\ DOMAIN Tail(q) = 1..(Len(q) - 1)
      /\ \A i \in 1..(Len(q) - 1) : Tail(q)[i] = q[i + 1]
  BY <1>1
<1>3. IsInjective(Tail(q))
  BY <1>1, <1>2 DEF IsInjective
<1>4. ASSUME NEW y \in ToSet(Tail(q)) PROVE y \in ToSet(q) /\ y # x
  <2>1. PICK i \in 1..(Len(q) - 1) : y = q[i + 1]
    BY <1>2, <1>4 DEF ToSet
  <2>2. i + 1 \in 1..Len(q) /\ i + 1 # 1 /\ 1 \in 1..Len(q)
    BY <1>1
  <2> QED BY <1>1, <2>1, <2>2 DEF IsInjective, ToSet
<1>5. ASSUME NEW y \in ToSet(q), y # x PROVE y \in ToSet(Tail(q))
  <2>1. PICK i \in 1..Len(q) : y = q[i]
    BY <1>1 DEF ToSet
  <2>2. i # 1 /\ i - 1 \in 1..(Len(q) - 1)
    BY <1>1, <1>5, <2>1
  <2>3. Tail(q)[i - 1] = q[i]
    BY <1>1, <1>2, <2>2
  <2> QED BY <1>2, <2>1, <2>2, <2>3 DEF ToSet
<1> QED BY <1>2, <1>3, <1>4, <1>5

\* Two queues without a common element make one, and the head stays the head.
LEMMA JoinedQueue ==
    ASSUME NEW S, NEW q \in Seq(S), IsInjective(q), NEW p \in Seq(S), IsInjective(p),
           ToSet(q) \cap ToSet(p) = {}
    PROVE  /\ q \o p \in Seq(S) /\ IsInjective(q \o p)
           /\ ToSet(q \o p) = ToSet(q) \cup ToSet(p)
           /\ q # <<>> => Head(q \o p) = Head(q)
<1> DEFINE n == Len(q)
           k == Len(p)
           a == q \o p
<1>1. /\ n \in Nat /\ k \in Nat /\ a \in Seq(S) /\ DOMAIN a = 1..(n + k)
      /\ DOMAIN q = 1..n /\ DOMAIN p = 1..k
      /\ \A i \in 1..n : a[i] = q[i]
      /\ \A i \in 1..k : a[n + i] = p[i]
  <2>1. \A i \in 1..k : a[n + i] = p[i]
    <3>1. ASSUME NEW i \in 1..k PROVE a[n + i] = p[i]
      <4>1. n + i \in 1..(n + k) /\ n + i > n /\ n + i - n = i
        OBVIOUS
      <4> QED BY <4>1
    <3> QED BY <3>1
  <2> QED BY <2>1
<1> HIDE DEF a, n, k
<1>2. \A i \in 1..(n + k) : i \in 1..n \/ (i - n \in 1..k /\ i = n + (i - n))
  BY <1>1
<1>3. ASSUME NEW i \in 1..(n + k)
      PROVE  \/ a[i] \in ToSet(q) /\ i \in 1..n
             \/ a[i] \in ToSet(p) /\ i - n \in 1..k
  <2>1. CASE i \in 1..n
    BY <1>1, <2>1 DEF ToSet
  <2>2. CASE i - n \in 1..k /\ i = n + (i - n)
    <3>1. a[i] = p[i - n]
      BY <1>1, <2>2
    <3> QED BY <1>1, <2>2, <3>1 DEF ToSet
  <2> QED BY <1>2, <2>1, <2>2
<1>4. IsInjective(a)
  <2>1. ASSUME NEW i \in 1..(n + k), NEW j \in 1..(n + k), a[i] = a[j] PROVE i = j
    <3>1. CASE i \in 1..n /\ j \in 1..n
      BY <1>1, <2>1, <3>1 DEF IsInjective
    <3>2. CASE i - n \in 1..k /\ j - n \in 1..k
      <4>1. a[i] = p[i - n] /\ a[j] = p[j - n]
        <5>1. i = n + (i - n) /\ j = n + (j - n)
          BY <1>1
        <5> QED BY <1>1, <3>2, <5>1
      <4>2. i - n = j - n
        BY <1>1, <2>1, <3>2, <4>1 DEF IsInjective
      <4> QED BY <1>1, <4>2
    <3>3. \A x : ~(x \in ToSet(q) /\ x \in ToSet(p))
      OBVIOUS
    <3> QED BY <1>3, <2>1, <3>1, <3>2, <3>3
  <2> QED BY <1>1, <2>1 DEF IsInjective
<1>5. ToSet(a) = ToSet(q) \cup ToSet(p)
  <2>1. ASSUME NEW y \in ToSet(a) PROVE y \in ToSet(q) \cup ToSet(p)
    <3>1. PICK i \in 1..(n + k) : y = a[i]
      BY <1>1 DEF ToSet
    <3> QED BY <1>3, <3>1
  <2>2. ASSUME NEW y \in ToSet(q) PROVE y \in ToSet(a)
    <3>1. PICK i \in 1..n : y = q[i]
      BY <1>1 DEF ToSet
    <3>2. i \in 1..(n + k) /\ a[i] = y
      BY <1>1, <3>1
    <3> QED BY <1>1, <3>2 DEF ToSet
  <2>3. ASSUME NEW y \in ToSet(p) PROVE y \in ToSet(a)
    <3>1. PICK i \in 1..k : y = p[i]
      BY <1>1 DEF ToSet
    <3>2. n + i \in 1..(n + k) /\ a[n + i] = y
      BY <1>1, <3>1
    <3> QED BY <1>1, <3>2 DEF ToSet
  <2> QED BY <2>1, <2>2, <2>3
<1>6. q # <<>> => Head(a) = Head(q)
  <2>1. q # <<>> => 1 \in 1..n
    BY <1>1 DEF n
  <2>2. a \in Seq(S) /\ q \in Seq(S)
    BY <1>1
  <2> QED BY <1>1, <2>1, <2>2
<1> QED BY <1>1, <1>4, <1>5, <1>6 DEF a

\* A queue of one.
LEMMA OneInQueue ==
    ASSUME NEW x
    PROVE  <<x>> \in Seq({x}) /\ IsInjective(<<x>>) /\ ToSet(<<x>>) = {x}
BY DEF IsInjective, ToSet

\* The waiting requests in some order.
LEMMA SetInQueue ==
    ASSUME NEW W, IsFiniteSet(W)
    PROVE  SetToSeq(W) \in Seq(W) /\ IsInjective(SetToSeq(W)) /\ ToSet(SetToSeq(W)) = W
<1> DEFINE m == Cardinality(W)
           f == SetToSeq(W)
<1>1. m \in Nat
  BY FS_CardinalityType
<1>2. \E g \in [1..m -> W] : IsInjective(g)
  <2>1. ExistsBijection(1..m, W)
    BY FS_CardinalityType
  <2> QED BY <2>1 DEF ExistsBijection, Bijection, Injection, IsInjective
<1>3. f \in [1..m -> W] /\ IsInjective(f)
  BY <1>2 DEF SetToSeq
<1> HIDE DEF f, m
<1>4. ASSUME NEW x \in W, \A i \in 1..m : f[i] # x PROVE FALSE
  <2>1. f \in [1..m -> W \ {x}]
    BY <1>3, <1>4
  <2>2. IsFiniteSet(W \ {x}) /\ Cardinality(W \ {x}) = m - 1
    BY FS_RemoveElement DEF m
  <2>3. IsFiniteSet(1..m) /\ Cardinality(1..m) = m
    BY <1>1, FS_Interval
  <2>4. \E i, j \in 1..m : i # j /\ f[i] = f[j]
    <3>1. Cardinality(W \ {x}) < Cardinality(1..m)
      BY <1>1, <2>2, <2>3
    <3> QED BY <2>1, <2>2, <2>3, <3>1, FS_PigeonHole
  <2> QED BY <1>3, <2>4 DEF IsInjective
<1>5. f \in Seq(W) /\ DOMAIN f = 1..m
  BY <1>1, <1>3
<1> QED
  BY <1>3, <1>4, <1>5 DEF IsInjective, ToSet, f

-----------------------------------------------------------------------------
(* The steps. *)

\* Snapshots, sessions and what requests use keep their types.
Typed ==
    /\ now \in 0..MaxTime /\ ahead \in [Profiles -> 0..MaxSkew]
    /\ active \in Profiles /\ core \in Cores /\ core <= events
    /\ session \in [Cores -> Sessions]
    /\ events \in 0..MaxEvents /\ failures \in 0..MaxFailures

\* So does what is kept of each request.
RequestsTyped ==
    /\ place \in [Requests -> Places]
    /\ using \in [Requests -> [core : Cores, no : Nat, profile : Profiles \cup {None}, since : Nat]]
    /\ sample \in [Requests -> Samples \cup {None}]
    /\ loaded \in [Requests -> Seq(Samples)]
    /\ due \in [Cores -> Seq(Requests)]

\* An addition that is due or under way.
Adding(r) == place[r] \in {"queued", "saving"}

\* What is assumed of the constants.
LEMMA HardwareNumbers ==
    /\ {MaxSkew, MaxTime, MaxEvents, MaxFailures} \subseteq Nat
    /\ {TTL, MinInterval, Retention, MaxRecords} \subseteq Nat \ {0}
    /\ IsFiniteSet(Requests)
BY HardwareBounds, HardwareRequests

\* The parts of the invariant that every step needs.
LEMMA InvFacts ==
    ASSUME HardwareInv
    PROVE  /\ Typed /\ RequestsTyped
           /\ records \in Seq(Samples) /\ Len(records) <= MaxRecords /\ Spaced(records)
           /\ Cores \subseteq Nat /\ now \in Nat
BY HardwareNumbers DEF HardwareInv, HardwareTypeOK, Typed, RequestsTyped, Cores

\* Another addition that has read belongs to another core than the head of a queue.
LEMMA OtherCore ==
    ASSUME HardwareInv, NEW r \in Requests, Head(due[using[r].core]) = r,
           NEW q \in Requests, q # r, place[q] = "saving"
    PROVE  using[q].core # using[r].core
BY DEF HardwareInv, AdditionOK, LoadedOK

\* What stays true of the others when the head of a queue is done.
LEMMA FinishKeeps ==
    ASSUME HardwareInv, NEW r \in Requests, Adding(r), Head(due[using[r].core]) = r,
           Finish(r), UNCHANGED <<now, core>>
    PROVE  /\ RequestsTyped'
           /\ \A q \in Requests : AdditionOK(q)'
           /\ \A c \in Cores : QueueOK(c)'
<1> DEFINE k == using[r].core
<1>1. /\ k \in Cores /\ due[k] \in Seq(Requests) /\ IsInjective(due[k]) /\ r \in ToSet(due[k])
      /\ core \in Cores /\ \A c \in Cores : c \in Nat
  <2>1. k \in Cores /\ due[k] \in Seq(Requests)
    BY InvFacts DEF RequestsTyped
  <2>2. QueueOK(k) /\ AdditionOK(r)
    BY <2>1 DEF HardwareInv
  <2> QED BY <2>1, <2>2, InvFacts DEF QueueOK, AdditionOK, Adding, Typed
<1>2. /\ Tail(due[k]) \in Seq(Requests) /\ IsInjective(Tail(due[k]))
      /\ ToSet(Tail(due[k])) = ToSet(due[k]) \ {r}
  BY <1>1, TailOfQueue
<1>3. /\ place' = [place EXCEPT ![r] = "answered"] /\ using' = [using EXCEPT ![r] = Unbound]
      /\ sample' = [sample EXCEPT ![r] = None] /\ loaded' = [loaded EXCEPT ![r] = <<>>]
      /\ due' = [due EXCEPT ![k] = Tail(due[k])]
  BY DEF Finish, Answer
<1>4. RequestsTyped
  BY InvFacts
<1>5. Unbound \in [core : Cores, no : Nat, profile : Profiles \cup {None}, since : Nat]
  BY HardwareNumbers DEF Unbound, Cores
<1> HIDE DEF k
<1>6. RequestsTyped'
  <2>1. place' \in [Requests -> Places] /\ due' \in [Cores -> Seq(Requests)]
    BY <1>1, <1>2, <1>3, <1>4 DEF RequestsTyped, Places
  <2>2. using' \in [Requests -> [core : Cores, no : Nat, profile : Profiles \cup {None}, since : Nat]]
    BY <1>3, <1>4, <1>5 DEF RequestsTyped
  <2>3. sample' \in [Requests -> Samples \cup {None}] /\ loaded' \in [Requests -> Seq(Samples)]
    <3>1. <<>> \in Seq(Samples)
      OBVIOUS
    <3> QED BY <1>3, <1>4, <3>1 DEF RequestsTyped
  <2> QED BY <2>1, <2>2, <2>3 DEF RequestsTyped
<1>7. ASSUME NEW q \in Requests PROVE AdditionOK(q)'
  <2>1. CASE q = r
    <3>1. place'[q] = "answered" /\ using'[q].core = 0 /\ core' = core
      BY <1>3, <1>4, <2>1 DEF RequestsTyped, Unbound
    <3> QED BY <1>1, <3>1 DEF AdditionOK
  <2>2. CASE q # r
    <3>1. /\ place'[q] = place[q] /\ using'[q] = using[q] /\ sample'[q] = sample[q]
          /\ loaded'[q] = loaded[q] /\ now' = now /\ core' = core /\ using[q].core \in Cores
      BY <1>3, <1>4, <2>2 DEF RequestsTyped
    <3>2. AdditionOK(q)
      BY DEF HardwareInv
    <3>3. Adding(q) => q \in ToSet(due'[using[q].core])
      <4>1. CASE using[q].core = k
        BY <1>1, <1>2, <1>3, <1>4, <2>2, <3>2, <4>1 DEF RequestsTyped, AdditionOK, Adding
      <4>2. CASE using[q].core # k
        BY <1>3, <1>4, <3>1, <3>2, <4>2 DEF RequestsTyped, AdditionOK, Adding
      <4> QED BY <4>1, <4>2
    <3>4. ASSUME place[q] = "saving" PROVE LoadedOK(q)'
      <4>1. using[q].core # k
        BY <2>2, <3>4, OtherCore DEF k
      <4>2. due'[using[q].core] = due[using[q].core]
        BY <1>3, <1>4, <3>1, <4>1 DEF RequestsTyped
      <4>3. core # 0
        BY <1>1, <3>1, <3>2, <4>1 DEF HardwareInv, AdditionOK, k
      <4> QED BY <3>1, <3>2, <3>4, <4>2, <4>3 DEF AdditionOK, LoadedOK, Spaced
    <3> QED BY <3>1, <3>2, <3>3, <3>4 DEF AdditionOK, Adding
  <2> QED BY <2>1, <2>2
<1>8. ASSUME NEW c \in Cores PROVE QueueOK(c)'
  <2>1. QueueOK(c)
    BY DEF HardwareInv
  <2>2. ToSet(due'[c]) \subseteq ToSet(due[c]) \ {r} /\ IsInjective(due'[c])
    <3>1. CASE c = k
      BY <1>1, <1>2, <1>3, <1>4, <3>1 DEF RequestsTyped
    <3>2. CASE c # k
      <4>1. due'[c] = due[c] /\ r \notin ToSet(due[c])
        BY <1>3, <1>4, <2>1, <3>2 DEF RequestsTyped, QueueOK, k
      <4> QED BY <2>1, <4>1 DEF QueueOK
    <3> QED BY <3>1, <3>2
  <2>3. ToSet(due[c]) \subseteq Requests
    BY <1>4 DEF RequestsTyped, ToSet
  <2>4. \A q \in Requests \ {r} : place'[q] = place[q] /\ using'[q] = using[q]
    BY <1>3, <1>4 DEF RequestsTyped
  <2> QED BY <2>1, <2>2, <2>3, <2>4 DEF QueueOK
<1> QED BY <1>6, <1>7, <1>8

\* Requests W whose addition was not due come to be due, as the list p at the end
\* of a queue, begin to wait for a probe or are done without an addition.
Joins(W, c, p) ==
    /\ UNCHANGED <<now, core, records>>
    /\ IsInjective(p) /\ ToSet(p) \subseteq W
    /\ due' = [due EXCEPT ![c] = @ \o p]
    /\ \A q \in W : /\ ~Adding(q) /\ place'[q] # "saving" /\ using'[q].core <= core
                    /\ q \in ToSet(p) <=> place'[q] = "queued"
                    /\ place'[q] = "probing" => using'[q].profile \in Profiles
                    /\ place'[q] = "queued" => sample'[q] \in Samples /\ using'[q].core = c
    /\ \A q \in Requests \ W : /\ place'[q] = place[q] /\ using'[q] = using[q]
                               /\ sample'[q] = sample[q] /\ loaded'[q] = loaded[q]

\* The queues and the other additions stay as the invariant has them.
LEMMA JoinKeeps ==
    ASSUME HardwareInv, RequestsTyped',
           NEW W \in SUBSET Requests, NEW c \in Cores, NEW p \in Seq(Requests),
           Joins(W, c, p)
    PROVE  /\ \A q \in Requests : AdditionOK(q)'
           /\ \A k \in Cores : QueueOK(k)'
<1> USE DEF Joins
<1>1. RequestsTyped /\ due \in [Cores -> Seq(Requests)]
  BY InvFacts DEF RequestsTyped
<1>2. \A k \in Cores : due[k] \in Seq(Requests) /\ ToSet(due[k]) \subseteq Requests \ W
  <2>1. ASSUME NEW k \in Cores, NEW q \in ToSet(due[k]) PROVE q \in Requests \ W
    <3>1. q \in Requests
      BY <1>1, <2>1 DEF ToSet
    <3>2. Adding(q)
      BY <2>1 DEF HardwareInv, QueueOK, Adding
    <3> QED BY <3>1, <3>2
  <2> QED BY <1>1, <2>1
<1>3. /\ due[c] \o p \in Seq(Requests) /\ IsInjective(due[c] \o p)
      /\ ToSet(due[c] \o p) = ToSet(due[c]) \cup ToSet(p)
      /\ due[c] # <<>> => Head(due[c] \o p) = Head(due[c])
  <2>1. IsInjective(due[c]) /\ ToSet(due[c]) \cap ToSet(p) = {}
    BY <1>2 DEF HardwareInv, QueueOK
  <2> QED BY <1>2, <2>1, JoinedQueue
<1>4. /\ due'[c] = due[c] \o p
      /\ \A k \in Cores \ {c} : due'[k] = due[k]
  BY <1>1
<1>5. ASSUME NEW k \in Cores PROVE QueueOK(k)'
  <2>1. QueueOK(k)
    BY DEF HardwareInv
  <2>2. \A q \in ToSet(due[k]) : place'[q] = place[q] /\ using'[q] = using[q]
    BY <1>2
  <2>3. CASE k # c
    BY <1>4, <2>1, <2>2, <2>3 DEF QueueOK
  <2>4. CASE k = c
    <3>1. ASSUME NEW q \in ToSet(due'[k]) PROVE place'[q] \in {"queued", "saving"} /\ using'[q].core = k
      <4>1. q \in ToSet(due[k]) \/ q \in ToSet(p)
        BY <1>3, <1>4, <2>4, <3>1
      <4>2. CASE q \in ToSet(p)
        BY <2>4, <4>2
      <4> QED BY <2>1, <2>2, <4>1, <4>2 DEF QueueOK
    <3>2. IsInjective(due'[k])
      BY <1>3, <1>4, <2>4
    <3> QED BY <3>1, <3>2 DEF QueueOK
  <2> QED BY <2>3, <2>4
<1>6. ASSUME NEW q \in Requests PROVE AdditionOK(q)'
  <2>1. CASE q \in W
    <3>1. place'[q] = "queued" => q \in ToSet(due'[c])
      BY <1>3, <1>4, <2>1
    <3> QED BY <2>1, <3>1 DEF AdditionOK
  <2>2. CASE q \notin W
    <3>1. /\ place'[q] = place[q] /\ using'[q] = using[q] /\ sample'[q] = sample[q]
          /\ loaded'[q] = loaded[q] /\ using[q].core \in Cores
      BY <1>1, <2>2 DEF RequestsTyped
    <3> DEFINE k == using[q].core
    <3>2. AdditionOK(q)
      BY DEF HardwareInv
    <3>3. ToSet(due[k]) \subseteq ToSet(due'[k])
      BY <1>3, <1>4, <3>1
    <3>4. Adding(q) => Head(due'[k]) = Head(due[k])
      <4>1. Adding(q) => due[k] # <<>>
        BY <3>2 DEF AdditionOK, Adding, ToSet
      <4> QED BY <1>3, <1>4, <3>1, <4>1
    <3>5. place[q] = "saving" => LoadedOK(q)'
      BY <3>1, <3>2, <3>4 DEF AdditionOK, LoadedOK, Adding, Spaced
    <3> QED BY <3>1, <3>2, <3>3, <3>5 DEF AdditionOK
  <2> QED BY <2>1, <2>2
<1> QED BY <1>5, <1>6

\* A clock that goes on, another profile or core leave the additions as they are.
LEMMA WorldKeeps ==
    ASSUME HardwareInv, Typed', UNCHANGED <<session, requestVars, historyVars>>,
           now' \in {now, now + 1}, core' \in {core, core + 1}
    PROVE  HardwareInv'
<1>1. /\ RequestsTyped' /\ records' = records /\ core \in Nat /\ now \in Nat
      /\ records' \in Seq(Samples) /\ Len(records') <= MaxRecords /\ Spaced(records')
  BY InvFacts DEF requestVars, historyVars, RequestsTyped, Typed, Spaced
<1>2. ASSUME NEW q \in Requests PROVE AdditionOK(q)'
  <2>1. AdditionOK(q) /\ using[q].core \in Nat
    BY InvFacts DEF HardwareInv, RequestsTyped
  <2>2. core' = 0 => core = 0
    BY <1>1
  <2>3. ASSUME NEW x \in ToSet(records), x.at < now - Retention
        PROVE  x.at < now' - Retention
    <3>1. x.at \in Nat /\ Retention \in Nat
      BY InvFacts, SampleTimes, HardwareNumbers DEF ToSet
    <3> QED BY <1>1, <2>3, <3>1
  <2>4. LoadedOK(q) => LoadedOK(q)'
    BY <2>2, <2>3 DEF LoadedOK, Spaced, requestVars, historyVars
  <2> QED BY <1>1, <2>1, <2>4 DEF AdditionOK, requestVars, historyVars
<1>3. \A c \in Cores : QueueOK(c)'
  BY DEF HardwareInv, QueueOK, requestVars, historyVars
<1> QED BY <1>1, <1>2, <1>3 DEF HardwareInv, HardwareTypeOK, Typed, RequestsTyped

\* The program starts with an empty history and nothing due.
LEMMA HardwareStarts == HardwareInit => HardwareInv
<1> SUFFICES ASSUME HardwareInit PROVE HardwareInv
  OBVIOUS
<1>1. 0 \in Cores /\ 0 \in 0..MaxTime /\ 0 \in 0..MaxEvents /\ 0 \in 0..MaxFailures
  BY HardwareNumbers DEF Cores
<1>2. /\ \A c \in Cores : due[c] = <<>> /\ ToSet(due[c]) = {}
      /\ \A r \in Requests : place[r] = "idle" /\ using[r].core = 0
  BY DEF HardwareInit, ToSet, Unbound
<1>3. NoSession \in Sessions /\ <<>> \in Seq(Samples) /\ <<>> \in Seq(Requests)
  BY DEF NoSession, Sessions
<1>4. using \in [Requests -> [core : Cores, no : Nat, profile : Profiles \cup {None}, since : Nat]]
  BY <1>1 DEF HardwareInit, Unbound
<1>5. /\ Typed /\ RequestsTyped /\ records = <<>> 
  BY <1>1, <1>3, <1>4 DEF HardwareInit, Typed, RequestsTyped, Places
<1>6. Len(records) <= MaxRecords /\ Spaced(records)
  BY <1>5, HardwareNumbers DEF Spaced
<1>7. \A r \in Requests : AdditionOK(r)
  BY <1>2 DEF HardwareInit, AdditionOK
<1>8. \A c \in Cores : QueueOK(c)
  BY <1>2 DEF QueueOK, IsInjective
<1> QED BY <1>3, <1>5, <1>6, <1>7, <1>8 DEF HardwareInv, HardwareTypeOK, Typed, RequestsTyped

\* The invariant from its parts.
LEMMA Assembled ==
    ASSUME Typed', RequestsTyped',
           records' \in Seq(Samples), Len(records') <= MaxRecords, Spaced(records)',
           \A q \in Requests : AdditionOK(q)', \A c \in Cores : QueueOK(c)'
    PROVE  HardwareInv'
BY DEF HardwareInv, HardwareTypeOK, Typed, RequestsTyped

\* A request that asks has its addition due at once, or waits for a probe.
LEMMA AskKeeps ==
    ASSUME HardwareInv, NEW r \in Requests, Ask(r)
    PROVE  HardwareInv'
<1> SUFFICES ASSUME NEW s, s = SessionNow, NEW others, others = Awaiting(core, s.no),
                    NEW u, u = [core |-> core, no |-> s.no, profile |-> s.profile,
                                since |-> IF others = {} THEN now
                                          ELSE using[CHOOSE q \in others : TRUE].since]
             PROVE  HardwareInv'
  OBVIOUS
<1>1. /\ Typed /\ RequestsTyped /\ now \in Nat
      /\ records \in Seq(Samples) /\ Len(records) <= MaxRecords /\ Spaced(records)
  BY InvFacts
<1>2. s \in Sessions /\ s.profile \in Profiles
  <2>1. session[core] \in Sessions /\ active \in Profiles
    BY <1>1 DEF Typed
  <2>2. CASE session[core].profile = active
    BY <2>1, <2>2 DEF SessionNow
  <2>3. CASE session[core].profile # active
    <3>1. s = [no |-> session[core].no + 1, profile |-> active, cached |-> None, until |-> 0]
      BY <2>3 DEF SessionNow, NoSession
    <3> QED BY <2>1, <3>1 DEF Sessions
  <2> QED BY <2>2, <2>3
<1>3. /\ place[r] = "idle" /\ session' = [session EXCEPT ![core] = s]
      /\ using' = [using EXCEPT ![r] = u]
      /\ \/ /\ s.cached # None /\ sample' = [sample EXCEPT ![r] = s.cached]
            /\ place' = [place EXCEPT ![r] = "queued"]
            /\ due' = [due EXCEPT ![core] = Append(@, r)]
         \/ place' = [place EXCEPT ![r] = "probing"] /\ UNCHANGED <<sample, due>>
      /\ UNCHANGED <<now, ahead, worldVars, records, loaded, failures>>
  BY DEF Ask
<1>4. u \in [core : Cores, no : Nat, profile : Profiles \cup {None}, since : Nat]
  <2>1. core \in Cores /\ s.no \in Nat
    BY <1>1, <1>2 DEF Typed, Sessions
  <2>2. ASSUME others # {} PROVE using[CHOOSE q \in others : TRUE].since \in Nat
    <3>1. (CHOOSE q \in others : TRUE) \in Requests
      BY <2>2 DEF Awaiting
    <3> QED BY <1>1, <3>1 DEF RequestsTyped
  <2> QED BY <1>1, <1>2, <2>1, <2>2
<1>5. Typed' /\ core \in Cores /\ core \in Nat
  BY <1>1, <1>2, <1>3, InvFacts DEF Typed, worldVars
<1>6. using'[r] = u /\ u.core = core /\ u.profile \in Profiles
  BY <1>1, <1>2, <1>3 DEF RequestsTyped
<1>7. using' \in [Requests -> [core : Cores, no : Nat, profile : Profiles \cup {None}, since : Nat]]
  BY <1>1, <1>3, <1>4 DEF RequestsTyped
<1>8. \A q \in Requests \ {r} : /\ place'[q] = place[q] /\ using'[q] = using[q]
                                /\ sample'[q] = sample[q] /\ loaded'[q] = loaded[q]
  BY <1>1, <1>3 DEF RequestsTyped
<1>9. ASSUME NEW p \in Seq(Requests), IsInjective(p), RequestsTyped',
             ToSet(p) \subseteq {r}, r \in ToSet(p) <=> place'[r] = "queued",
             place'[r] \in {"queued", "probing"},
             place'[r] = "queued" => sample'[r] \in Samples,
             due' = [due EXCEPT ![core] = @ \o p]
      PROVE  HardwareInv'
  <2>1. ~Adding(r) /\ UNCHANGED <<now, core, records>>
    BY <1>3 DEF Adding, worldVars
  <2>2. Joins({r}, core, p)
    BY <1>5, <1>6, <1>8, <1>9, <2>1 DEF Joins
  <2>3. /\ \A q \in Requests : AdditionOK(q)'
        /\ \A k \in Cores : QueueOK(k)'
    BY <1>5, <1>9, <2>2, JoinKeeps
  <2> QED BY <1>1, <1>5, <1>9, <2>1, <2>3, Assembled DEF Spaced
<1>10. CASE /\ s.cached # None /\ sample' = [sample EXCEPT ![r] = s.cached]
            /\ place' = [place EXCEPT ![r] = "queued"]
            /\ due' = [due EXCEPT ![core] = Append(@, r)]
  <2>1. <<r>> \in Seq(Requests) /\ IsInjective(<<r>>) /\ ToSet(<<r>>) = {r}
    BY OneInQueue
  <2>2. due[core] \in Seq(Requests) /\ due[core] \o <<r>> = Append(due[core], r)
    BY <1>1, <1>5 DEF RequestsTyped
  <2>3. s.cached \in Samples
    BY <1>2, <1>10 DEF Sessions
  <2>4. RequestsTyped'
    <3>1. Append(due[core], r) \in Seq(Requests)
      BY <2>2
    <3>2. due' \in [Cores -> Seq(Requests)] /\ place' \in [Requests -> Places]
      BY <1>1, <1>5, <1>10, <3>1 DEF RequestsTyped, Places
    <3> QED BY <1>1, <1>3, <1>7, <1>10, <2>3, <3>2 DEF RequestsTyped
  <2>5. place'[r] = "queued" /\ sample'[r] = s.cached
    BY <1>1, <1>10 DEF RequestsTyped
  <2>6. due' = [due EXCEPT ![core] = @ \o <<r>>]
    BY <1>10, <2>2
  <2> QED BY <1>9, <2>1, <2>3, <2>4, <2>5, <2>6
<1>11. CASE place' = [place EXCEPT ![r] = "probing"] /\ UNCHANGED <<sample, due>>
  <2>1. <<>> \in Seq(Requests) /\ IsInjective(<<>>) /\ ToSet(<<>>) = {}
    BY DEF IsInjective, ToSet
  <2>2. due[core] \in Seq(Requests) /\ due[core] \o <<>> = due[core]
    BY <1>1, <1>5 DEF RequestsTyped
  <2>3. RequestsTyped'
    BY <1>1, <1>3, <1>7, <1>11 DEF RequestsTyped, Places
  <2>4. place'[r] = "probing"
    BY <1>1, <1>11 DEF RequestsTyped
  <2>5. due' = [due EXCEPT ![core] = @ \o <<>>]
    BY <1>1, <1>11, <2>2 DEF RequestsTyped
  <2> QED BY <1>9, <2>1, <2>3, <2>4, <2>5
<1> QED BY <1>3, <1>10, <1>11

\* Requests whose probe fails are done without an addition.
LEMMA ProbeFailsKeeps ==
    ASSUME HardwareInv, NEW r \in Requests, ProbeFails(r)
    PROVE  HardwareInv'
<1> SUFFICES ASSUME NEW W, W = Awaiting(using[r].core, using[r].no)
             PROVE  HardwareInv'
  OBVIOUS
<1>1. /\ Typed /\ RequestsTyped
      /\ records \in Seq(Samples) /\ Len(records) <= MaxRecords /\ Spaced(records)
      /\ core \in Cores /\ 0 <= core
  BY InvFacts DEF Typed, Cores
<1>2. /\ place' = [q \in Requests |-> IF q \in W THEN "unavailable" ELSE place[q]]
      /\ using' = [q \in Requests |-> IF q \in W THEN Unbound ELSE using[q]]
      /\ failures < MaxFailures /\ failures' = failures + 1
      /\ UNCHANGED <<now, ahead, worldVars, session, sample, historyVars>>
  BY DEF ProbeFails, Failure
<1>3. Typed'
  BY <1>1, <1>2, HardwareNumbers DEF Typed, worldVars
<1>4. RequestsTyped'
  <2>1. Unbound \in [core : Cores, no : Nat, profile : Profiles \cup {None}, since : Nat]
    BY HardwareNumbers DEF Unbound, Cores
  <2>2. using' \in [Requests -> [core : Cores, no : Nat, profile : Profiles \cup {None}, since : Nat]]
    BY <1>1, <1>2, <2>1 DEF RequestsTyped
  <2> QED BY <1>1, <1>2, <2>2 DEF RequestsTyped, Places, historyVars
<1>5. W \in SUBSET Requests /\ \A q \in W : place[q] = "probing"
  BY DEF Awaiting
<1>6. \A q \in W : /\ ~Adding(q) /\ place'[q] = "unavailable" /\ using'[q].core = 0
  BY <1>2, <1>5 DEF Adding, Unbound
<1>7. \A q \in Requests \ W : /\ place'[q] = place[q] /\ using'[q] = using[q]
                              /\ sample'[q] = sample[q] /\ loaded'[q] = loaded[q]
  BY <1>2 DEF historyVars
<1>8. <<>> \in Seq(Requests) /\ IsInjective(<<>>) /\ ToSet(<<>>) = {}
  BY DEF IsInjective, ToSet
<1>9. due' = [due EXCEPT ![core] = @ \o <<>>]
  <2>1. due[core] \o <<>> = due[core]
    BY <1>1 DEF RequestsTyped
  <2> QED BY <1>1, <1>2, <2>1 DEF RequestsTyped, historyVars
<1>10. UNCHANGED <<now, core, records>>
  BY <1>2 DEF worldVars, historyVars
<1>11. /\ \A q \in Requests : AdditionOK(q)'
       /\ \A k \in Cores : QueueOK(k)'
  <2>1. Joins(W, core, <<>>)
    BY <1>1, <1>5, <1>6, <1>7, <1>8, <1>9, <1>10 DEF Joins
  <2> QED BY <1>1, <1>4, <1>5, <1>8, <2>1, JoinKeeps
<1> QED BY <1>1, <1>3, <1>4, <1>10, <1>11, Assembled DEF Spaced

\* All that wait for a probe come to be due, once each.
LEMMA ProbeEndsKeeps ==
    ASSUME HardwareInv, NEW r \in Requests, ProbeEnds(r)
    PROVE  HardwareInv'
<1> SUFFICES ASSUME NEW c, c = using[r].core, NEW n, n = using[r].no,
                    NEW W, W = Awaiting(c, n), NEW p, p = SetToSeq(W)
             PROVE  HardwareInv'
  OBVIOUS
<1>1. /\ Typed /\ RequestsTyped /\ now \in Nat
      /\ records \in Seq(Samples) /\ Len(records) <= MaxRecords /\ Spaced(records)
      /\ Cores \subseteq Nat
  BY InvFacts
<1>2. /\ c \in Cores /\ c <= core /\ using[r].since \in Nat /\ using[r].profile \in Profiles
      /\ place[r] = "probing"
  BY <1>1 DEF ProbeEnds, RequestsTyped, HardwareInv, AdditionOK
<1>3. PICK t \in using[r].since..now :
        LET taken == [at |-> t + ahead[using[r].profile], of |-> using[r].profile] IN
          /\ session' = IF session[c].no = n
                        THEN [session EXCEPT ![c].cached = taken, ![c].until = now + TTL]
                        ELSE session
          /\ sample' = [q \in Requests |-> IF q \in W THEN taken ELSE sample[q]]
          /\ place' = [q \in Requests |-> IF q \in W THEN "queued" ELSE place[q]]
          /\ due' = [due EXCEPT ![c] = @ \o p]
  BY DEF ProbeEnds
<1> SUFFICES ASSUME NEW taken, taken = [at |-> t + ahead[using[r].profile], of |-> using[r].profile]
             PROVE  HardwareInv'
  OBVIOUS
<1>4. UNCHANGED <<now, ahead, worldVars, using, records, loaded, failures>>
  BY DEF ProbeEnds
<1>5. taken \in Samples
  <2>1. ahead[using[r].profile] \in 0..MaxSkew /\ now \in 0..MaxTime
    BY <1>1, <1>2 DEF Typed
  <2>2. t + ahead[using[r].profile] \in Times
    BY <1>2, <2>1, HardwareNumbers DEF Times
  <2> QED BY <1>2, <1>3, <2>2 DEF Samples
<1>6. Typed'
  <2>1. ASSUME NEW s \in Sessions PROVE [s EXCEPT !.cached = taken, !.until = now + TTL] \in Sessions
    <3>1. now + TTL \in Nat
      BY <1>1, HardwareNumbers
    <3> QED BY <1>5, <3>1 DEF Sessions
  <2>2. session' \in [Cores -> Sessions]
    <3>1. session \in [Cores -> Sessions]
      BY <1>1 DEF Typed
    <3>2. [session EXCEPT ![c].cached = taken, ![c].until = now + TTL]
             = [session EXCEPT ![c] = [session[c] EXCEPT !.cached = taken, !.until = now + TTL]]
      BY <1>2, <3>1
    <3> QED BY <1>2, <1>3, <2>1, <3>1, <3>2
  <2> QED BY <1>1, <1>4, <2>2 DEF Typed, worldVars
<1>7. /\ W \in SUBSET Requests
      /\ \A q \in W : place[q] = "probing" /\ using[q].core = c
      /\ IsFiniteSet(W)
  <2>1. W \in SUBSET Requests
    BY DEF Awaiting
  <2> QED BY <2>1, HardwareNumbers, FS_Subset DEF Awaiting
<1>8. p \in Seq(W) /\ p \in Seq(Requests) /\ IsInjective(p) /\ ToSet(p) = W
  <2>1. p \in Seq(W) /\ IsInjective(p) /\ ToSet(p) = W
    BY <1>7, SetInQueue
  <2> QED BY <1>7, <2>1
<1>9. RequestsTyped'
  <2>1. due[c] \o p \in Seq(Requests)
    BY <1>1, <1>2, <1>8 DEF RequestsTyped
  <2>2. due' \in [Cores -> Seq(Requests)]
    BY <1>1, <1>2, <1>3, <2>1 DEF RequestsTyped
  <2>3. place' \in [Requests -> Places] /\ sample' \in [Requests -> Samples \cup {None}]
    BY <1>1, <1>3, <1>5 DEF RequestsTyped, Places
  <2> QED BY <1>1, <1>4, <2>2, <2>3 DEF RequestsTyped
<1>10. Joins(W, c, p)
  <2>1. \A q \in W : /\ ~Adding(q) /\ place'[q] = "queued"
                     /\ using'[q].core = c /\ sample'[q] \in Samples
    BY <1>3, <1>4, <1>5, <1>7 DEF Adding
  <2>2. \A q \in Requests \ W : /\ place'[q] = place[q] /\ using'[q] = using[q]
                                /\ sample'[q] = sample[q] /\ loaded'[q] = loaded[q]
    BY <1>3, <1>4
  <2> QED BY <1>2, <1>3, <1>4, <1>8, <2>1, <2>2 DEF Joins, worldVars
<1>11. /\ \A q \in Requests : AdditionOK(q)'
       /\ \A k \in Cores : QueueOK(k)'
  BY <1>2, <1>7, <1>8, <1>9, <1>10, JoinKeeps
<1> QED BY <1>1, <1>4, <1>6, <1>9, <1>11, Assembled DEF Spaced

\* An addition that stands at the head of its queue.
LEMMA AtItsTurn ==
    ASSUME HardwareInv, NEW r \in Requests, ItsTurn(r) \/ place[r] = "saving"
    PROVE  /\ Adding(r) /\ Head(due[using[r].core]) = r
           /\ sample[r] \in Samples /\ r \in ToSet(due[using[r].core])
BY DEF HardwareInv, AdditionOK, LoadedOK, ItsTurn, Adding

\* An addition that is done with the file as it was.
LEMMA DoneKeeps ==
    ASSUME HardwareInv, NEW r \in Requests, ItsTurn(r) \/ place[r] = "saving", Finish(r),
           UNCHANGED <<now, ahead, worldVars, session, records>>,
           failures' \in 0..MaxFailures
    PROVE  HardwareInv'
<1>1. /\ Typed /\ RequestsTyped
      /\ records \in Seq(Samples) /\ Len(records) <= MaxRecords /\ Spaced(records)
  BY InvFacts
<1>2. Typed' /\ UNCHANGED <<now, core>>
  BY <1>1 DEF Typed, worldVars
<1>3. /\ RequestsTyped'
      /\ \A q \in Requests : AdditionOK(q)'
      /\ \A c \in Cores : QueueOK(c)'
  BY <1>2, AtItsTurn, FinishKeeps
<1> QED BY <1>1, <1>2, <1>3, Assembled DEF Spaced

\* An addition that fails leaves the file.
LEMMA CaptureFailsKeeps ==
    ASSUME HardwareInv, NEW r \in Requests, CaptureFails(r)
    PROVE  HardwareInv'
<1>1. failures' \in 0..MaxFailures
  BY InvFacts, HardwareNumbers DEF CaptureFails, Failure, Typed
<1> QED BY <1>1, DoneKeeps DEF CaptureFails, GoOnAdding

\* What an addition reads: the records that are recent.
LEMMA ReadKeeps ==
    ASSUME HardwareInv, NEW c, c = Compact(records)
    PROVE  /\ c \in Seq(Samples) /\ Len(c) <= MaxRecords /\ Spaced(c)
           /\ \A x \in ToSet(records) \ ToSet(c) : x.at < now - Retention
<1>1. /\ records \in Seq(Samples) /\ Len(records) <= MaxRecords /\ Spaced(records)
      /\ now \in Nat /\ Ascending(records)
  BY InvFacts, SpacedAscends
<1> QED BY <1>1, CompactKeeps

\* An addition that has read is alone of its core, and its snapshot follows.
LEMMA LoadKeeps ==
    ASSUME HardwareInv, NEW r \in Requests, Load(r)
    PROVE  HardwareInv'
<1>1. CASE Finish(r)
  <2>1. failures' \in 0..MaxFailures
    BY InvFacts DEF Load, Typed
  <2> QED BY <1>1, <2>1, DoneKeeps DEF Load
<1>2. CASE ~Finish(r)
  <2> SUFFICES ASSUME NEW c, c = Compact(records) PROVE HardwareInv'
    OBVIOUS
  <2>1. /\ ItsTurn(r) /\ ~Recently(r, c)
        /\ loaded' = [loaded EXCEPT ![r] = c] /\ place' = [place EXCEPT ![r] = "saving"]
        /\ UNCHANGED <<due, using, sample, now, ahead, worldVars, session, records, failures>>
    BY <1>2 DEF Load
  <2>2. /\ Typed /\ RequestsTyped
        /\ records \in Seq(Samples) /\ Len(records) <= MaxRecords /\ Spaced(records)
    BY InvFacts
  <2>3. /\ c \in Seq(Samples) /\ Len(c) <= MaxRecords /\ Spaced(c)
        /\ \A x \in ToSet(records) \ ToSet(c) : x.at < now - Retention
    BY ReadKeeps
  <2>4. Typed' /\ UNCHANGED <<now, core>>
    BY <2>1, <2>2 DEF Typed, worldVars
  <2>5. RequestsTyped'
    BY <2>1, <2>2, <2>3 DEF RequestsTyped, Places
  <2>6. /\ place'[r] = "saving" /\ loaded'[r] = c
        /\ \A q \in Requests \ {r} : place'[q] = place[q] /\ loaded'[q] = loaded[q]
    BY <2>1, <2>2 DEF RequestsTyped
  <2>7. /\ place[r] = "queued" /\ Head(due[using[r].core]) = r
        /\ sample[r] \in Samples /\ r \in ToSet(due[using[r].core])
    BY <2>1, AtItsTurn DEF ItsTurn
  <2>8. c # <<>> => sample[r].at - Last(c).at >= MinInterval
    <3>1. ASSUME c # <<>> PROVE sample[r].at \in Nat /\ Last(c).at \in Nat /\ MinInterval \in Nat
      <4>1. Len(c) \in 1..Len(c)
        BY <2>3, <3>1
      <4>2. Last(c) \in Samples
        BY <2>3, <4>1 DEF Last
      <4> QED BY <2>7, <4>2, SampleTimes, HardwareNumbers
    <3> QED BY <2>1, <3>1 DEF Recently
  <2>9. LoadedOK(r)'
    BY <2>1, <2>3, <2>4, <2>6, <2>7, <2>8 DEF LoadedOK, Spaced
  <2>10. ASSUME NEW q \in Requests PROVE AdditionOK(q)'
    <3>1. AdditionOK(q)
      BY DEF HardwareInv
    <3>2. CASE q = r
      BY <2>1, <2>4, <2>6, <2>7, <2>9, <3>1, <3>2 DEF AdditionOK
    <3>3. CASE q # r
      <4>1. LoadedOK(q) => LoadedOK(q)'
        BY <2>1, <2>4, <2>6, <3>3 DEF LoadedOK, Spaced
      <4> QED BY <2>1, <2>4, <2>6, <3>1, <3>3, <4>1 DEF AdditionOK
    <3> QED BY <3>2, <3>3
  <2>11. ASSUME NEW k \in Cores PROVE QueueOK(k)'
    <3>1. QueueOK(k) /\ ToSet(due[k]) \subseteq Requests
      BY <2>2 DEF HardwareInv, RequestsTyped, ToSet
    <3> QED BY <2>1, <2>6, <3>1 DEF QueueOK
  <2> QED BY <2>1, <2>2, <2>4, <2>5, <2>10, <2>11, Assembled DEF Spaced
<1> QED BY <1>1, <1>2

\* What an addition writes keeps the file spaced and within its limit, and under one
\* core it drops none of the file's records but outdated ones.
LEMMA WrittenKept ==
    ASSUME HardwareInv, NEW r \in Requests, Save(r)
    PROVE  /\ records' \in Seq(Samples) /\ Len(records') <= MaxRecords /\ Spaced(records)'
           /\ core = 0 => \A x \in ToSet(records) \ ToSet(records') : Outdated(x)
<1>1. /\ place[r] = "saving" /\ records' = Compact(Append(loaded[r], sample[r]))
      /\ loaded[r] \in Seq(Samples) /\ sample[r] \in Samples
      /\ now \in Nat /\ LoadedOK(r)
  <2>1. place[r] = "saving" /\ records' = Compact(Append(loaded[r], sample[r]))
    BY DEF Save
  <2> QED BY <2>1, AtItsTurn, InvFacts DEF RequestsTyped, HardwareInv, AdditionOK
<1>2. PICK a : /\ a \in Seq(Samples) /\ Spaced(a) /\ records' = Compact(a)
               /\ ToSet(loaded[r]) \subseteq ToSet(a)
  <2> SUFFICES ASSUME NEW list, list = loaded[r], NEW x, x = sample[r],
                      NEW a, a = Append(list, x)
               PROVE  a \in Seq(Samples) /\ Spaced(a) /\ ToSet(list) \subseteq ToSet(a)
    BY <1>1
  <2>1. a \in Seq(Samples) /\ Spaced(a)
    BY <1>1, AppendSpaced DEF LoadedOK
  <2>2. /\ DOMAIN a = 1..(Len(list) + 1) /\ DOMAIN list = 1..Len(list) /\ Len(list) \in Nat
        /\ \A i \in 1..Len(list) : a[i] = list[i] /\ i \in 1..(Len(list) + 1)
    BY <1>1
  <2> QED BY <2>1, <2>2 DEF ToSet
<1>3. /\ records' \in Seq(Samples) /\ Len(records') <= MaxRecords
      /\ Spaced(a) => Spaced(records')
      /\ \A x \in ToSet(a) \ ToSet(records') : Outdated(x)
  <2>1. Ascending(a)
    BY <1>2, SpacedAscends
  <2> QED BY <1>1, <1>2, <2>1, CompactKeeps DEF Outdated
<1>4. ASSUME core = 0, NEW x \in ToSet(records) \ ToSet(records') PROVE Outdated(x)
  <2>1. CASE x \in ToSet(loaded[r])
    BY <1>2, <1>3, <1>4, <2>1
  <2>2. CASE x \notin ToSet(loaded[r])
    BY <1>1, <1>4, <2>2 DEF LoadedOK, Outdated
  <2> QED BY <2>1, <2>2
<1> QED BY <1>2, <1>3, <1>4 DEF Spaced

\* An addition that has written leaves its queue.
LEMMA SaveKeeps ==
    ASSUME HardwareInv, NEW r \in Requests, Save(r)
    PROVE  HardwareInv'
<1>1. /\ place[r] = "saving" /\ Finish(r)
      /\ UNCHANGED <<now, ahead, worldVars, session, failures>>
  BY DEF Save
<1>2. Typed' /\ UNCHANGED <<now, core>>
  BY <1>1, InvFacts DEF Typed, worldVars
<1>3. /\ RequestsTyped'
      /\ \A q \in Requests : AdditionOK(q)'
      /\ \A c \in Cores : QueueOK(c)'
  BY <1>1, <1>2, AtItsTurn, FinishKeeps
<1> QED BY <1>2, <1>3, WrittenKept, Assembled

\* Time, a switch of the profile and a restart of the core.
LEMMA WorldStepKeeps ==
    ASSUME HardwareInv, Tick \/ (\E p \in Profiles : Switch(p)) \/ Restart
    PROVE  HardwareInv'
<1>1. Typed /\ core \in Nat /\ now \in Nat
  BY InvFacts DEF Typed
<1>2. CASE Tick
  <2>1. Typed'
    BY <1>1, <1>2, HardwareNumbers DEF Tick, Typed, worldVars
  <2> QED BY <1>2, <2>1, WorldKeeps DEF Tick, worldVars
<1>3. ASSUME NEW p \in Profiles, Switch(p) PROVE HardwareInv'
  <2>1. Typed'
    BY <1>1, <1>3, HardwareNumbers DEF Switch, Typed
  <2> QED BY <1>3, <2>1, WorldKeeps DEF Switch
<1>4. CASE Restart
  <2>1. Typed'
    BY <1>1, <1>4, HardwareNumbers DEF Restart, Typed, Cores
  <2> QED BY <1>4, <2>1, WorldKeeps DEF Restart
<1> QED BY <1>2, <1>3, <1>4

\* A stuttering step.
LEMMA HardwareUnchanged ==
    ASSUME HardwareInv, UNCHANGED hardwareVars
    PROVE  HardwareInv'
<1>1. Typed'
  BY InvFacts DEF hardwareVars, worldVars, Typed
<1> QED BY <1>1, WorldKeeps DEF hardwareVars, worldVars

\* Every step keeps the invariant.
LEMMA HardwareStep ==
    ASSUME HardwareInv, [HardwareNext]_hardwareVars
    PROVE  HardwareInv'
<1>1. CASE UNCHANGED hardwareVars
  BY <1>1, HardwareUnchanged
<1>2. ASSUME NEW r \in Requests, RequestStep(r) PROVE HardwareInv'
  BY <1>2, AskKeeps, ProbeFailsKeeps, CaptureFailsKeeps, ProbeEndsKeeps, LoadKeeps, SaveKeeps
     DEF RequestStep, GoesOn
<1>3. CASE Tick \/ (\E p \in Profiles : Switch(p)) \/ Restart
  BY <1>3, WorldStepKeeps
<1> QED BY <1>1, <1>2, <1>3 DEF HardwareNext

\* The inductive invariant holds: the file is spaced, an addition of each core at a
\* time reads and writes it, and what it writes follows on what it has read.
THEOREM HardwareHolds == HardwareSpec => []HardwareInv
<1>1. HardwareInv /\ [HardwareNext]_hardwareVars => HardwareInv'
  BY HardwareStep
<1> QED BY HardwareStarts, <1>1, PTL DEF HardwareSpec

\* Requests, sessions, queues and records keep their types; a snapshot's time is
\* one the machines' clocks show.
THEOREM HardwareTypes == HardwareSpec => []HardwareTypeOK
<1>1. HardwareInv => HardwareTypeOK
  BY DEF HardwareInv
<1> QED BY HardwareHolds, <1>1, PTL

\* Every step leaves the file in order; only Save changes it.
LEMMA HistoryKeptStep ==
    ASSUME HardwareInv, [HardwareNext]_hardwareVars
    PROVE  /\ InOrder'
           /\ core = 0 => \A x \in ToSet(records) \ ToSet(records') : Outdated(x)
<1>1. InOrder'
  <2>1. /\ Len(records') <= MaxRecords /\ records' \in Seq(Samples)
        /\ \A i, j \in DOMAIN records' : i < j => records'[j].at - records'[i].at >= MinInterval
    BY HardwareStep DEF HardwareInv, HardwareTypeOK, Spaced
  <2>2. ASSUME NEW i \in 1..Len(records') - 1
        PROVE  i \in DOMAIN records' /\ i + 1 \in DOMAIN records' /\ i < i + 1
    BY <2>1
  <2> QED BY <2>1, <2>2 DEF InOrder
<1>2. ASSUME NEW r \in Requests, Save(r), core = 0, NEW x \in ToSet(records) \ ToSet(records')
      PROVE  Outdated(x)
  BY <1>2, WrittenKept
<1>3. (\E r \in Requests : Save(r)) \/ UNCHANGED records
  BY DEF HardwareNext, RequestStep, GoesOn, Ask, ProbeFails, CaptureFails, ProbeEnds, Load,
         Tick, Switch, Restart, hardwareVars, historyVars
<1> QED BY <1>1, <1>2, <1>3

\* The history stays in order, spaced and within its limit, for every number of
\* requests, machines with whatever clocks, switches, restarts and failures; and
\* while there is one core no addition loses what another has written.
THEOREM HistoryIsKept == HardwareSpec => HistoryKept
<1>1. HardwareInv /\ [HardwareNext]_hardwareVars
        => [/\ InOrder'
            /\ core = 0 => \A x \in ToSet(records) \ ToSet(records') : Outdated(x)]_hardwareVars
  BY HistoryKeptStep
<1> QED BY HardwareHolds, <1>1, PTL DEF HardwareSpec, HistoryKept
=============================================================================
