----------------------- MODULE OperationLedgerProofs ------------------------
(***************************************************************************)
(* The properties of OperationLedger for every set of operations, every    *)
(* limit on the document and every order of calls.                         *)
(*                                                                         *)
(* The argument: the changes of LedgerDocument either keep the list of     *)
(* entries and set one status (WithStatus) or append one entry and drop at *)
(* most the oldest (Trimmed).  Two lemmas say exactly that; the inductive  *)
(* invariant adds to the checked ones which operations the late tasks may  *)
(* still touch (LiveAccounted) and that entries were issued.               *)
(***************************************************************************)
EXTENDS OperationLedger, TLAPS

UniqueIds(d) ==
    \A i, j \in DOMAIN d.operations : d.operations[i].id = d.operations[j].id => i = j

\* A task that is still alive works for the leased operation, for one that
\* awaits a person, or for one that a person has resolved meanwhile.
LiveAccounted ==
    \A i \in DOMAIN doc.operations :
        doc.operations[i].id \in live =>
            \/ doc.operations[i].id = doc.lease
            \/ doc.operations[i].status = "manual-required"
            \/ doc.operations[i].id \in acknowledged

EntriesIssued ==
    /\ \A i \in DOMAIN doc.operations :
        /\ doc.operations[i].id \in issued
        /\ doc.operations[i].id = MigrationId => doc.operations[i].kind = MigrationKind
    /\ MigrationId \in issued

IndInv ==
    /\ TypeOK
    /\ WellFormed
    /\ LeaseInFlight
    /\ OneAwaitsManual
    /\ RunningIsLeasedOrAcknowledged
    /\ LiveAccounted
    /\ EntriesIssued

-----------------------------------------------------------------------------
(* What the changes of the document do. *)

\* With distinct identifiers the entry find() returns is the only one.
LEMMA PositionOfEntry ==
    ASSUME NEW d \in Document, UniqueIds(d), NEW id, Recorded(d, id)
    PROVE  /\ Position(d, id) \in DOMAIN d.operations
           /\ d.operations[Position(d, id)].id = id
           /\ \A i \in DOMAIN d.operations : d.operations[i].id = id => i = Position(d, id)
<1>1. PICK i \in DOMAIN d.operations : d.operations[i].id = id
  BY DEF Recorded
<1>2. \A j \in DOMAIN d.operations : j < i => d.operations[j].id # id
  BY <1>1 DEF UniqueIds, Document
<1> QED
  BY <1>1, <1>2 DEF Position, UniqueIds

\* Reading an identifier from the list and looking it up leads back to the entry.
LEMMA EntryAt ==
    ASSUME NEW d \in Document, UniqueIds(d), NEW i \in DOMAIN d.operations
    PROVE  /\ Recorded(d, d.operations[i].id)
           /\ Entry(d, d.operations[i].id) = d.operations[i]
<1> DEFINE id == d.operations[i].id
<1>1. Recorded(d, id)
  BY DEF Recorded
<1>2. i = Position(d, id)
  BY <1>1, PositionOfEntry
<1> QED
  BY <1>1, <1>2 DEF Entry

\* Setting a status changes nothing else.
LEMMA WithStatusChangesOneStatus ==
    ASSUME NEW d \in Document, UniqueIds(d), NEW id, Recorded(d, id), NEW s \in Statuses
    PROVE  LET e == WithStatus(d, id, s) IN
           /\ e \in Document
           /\ e.lease = d.lease
           /\ Len(e.operations) = Len(d.operations)
           /\ DOMAIN e.operations = DOMAIN d.operations
           /\ \A i \in DOMAIN d.operations :
                /\ e.operations[i].id = d.operations[i].id
                /\ e.operations[i].kind = d.operations[i].kind
                /\ e.operations[i].status = IF d.operations[i].id = id THEN s
                                            ELSE d.operations[i].status
<1> DEFINE p == Position(d, id)
           f == [d.operations EXCEPT ![p].status = s]
<1>1. /\ p \in DOMAIN d.operations
      /\ \A i \in DOMAIN d.operations : d.operations[i].id = id <=> i = p
  BY PositionOfEntry
<1>2. WithStatus(d, id, s) = [d EXCEPT !.operations = f]
  BY DEF WithStatus
<1>3. d.operations \in Seq(Operation) /\ d.lease \in Ids \cup {NoLease}
  BY DEF Document
<1>4. d.operations[p] \in Operation
  BY <1>1, <1>3
<1>5. [d.operations[p] EXCEPT !.status = s] \in Operation
  BY <1>4 DEF Operation
<1>6. f \in Seq(Operation) /\ Len(f) = Len(d.operations) /\ DOMAIN f = DOMAIN d.operations
  BY <1>1, <1>3, <1>5
<1>7. \A i \in DOMAIN d.operations :
        /\ f[i].id = d.operations[i].id
        /\ f[i].kind = d.operations[i].kind
        /\ f[i].status = IF i = p THEN s ELSE d.operations[i].status
  BY <1>1, <1>3, <1>4 DEF Operation
<1>8. [d EXCEPT !.operations = f] = [lease |-> d.lease, operations |-> f]
  BY DEF Document
<1> QED
  BY <1>1, <1>2, <1>3, <1>6, <1>7, <1>8 DEF Document

\* Appending one entry to a list within its limit drops at most the oldest.
LEMMA TrimmedAppend ==
    ASSUME NEW ops \in Seq(Operation), Len(ops) <= MaxOperations, NEW new \in Operation
    PROVE  LET t == Trimmed(Append(ops, new)) IN
           /\ t \in Seq(Operation)
           /\ Len(t) <= MaxOperations
           /\ Len(t) >= 1
           /\ \E k \in {0, 1} :
                /\ Len(t) = Len(ops) + 1 - k
                /\ \A i \in 1 .. Len(t) : t[i] = IF i = Len(t) THEN new ELSE ops[i + k]
<1> DEFINE all == Append(ops, new)
           n == Len(ops) + 1
<1>1. all \in Seq(Operation) /\ Len(all) = n /\ n \in Nat
  OBVIOUS
<1>2. \A i \in 1 .. n : all[i] = IF i = n THEN new ELSE ops[i]
  OBVIOUS
<1>3. CASE n <= MaxOperations
  <2>1. Trimmed(all) = all
    BY <1>1, <1>3, MaxOperationsAssumption DEF Trimmed
  <2> QED
    BY <1>1, <1>2, <1>3, <2>1
<1>4. CASE n > MaxOperations
  <2> DEFINE t == SubSeq(all, 2, n)
  <2>1. n = MaxOperations + 1
    BY <1>1, <1>4, MaxOperationsAssumption
  <2>2. Trimmed(all) = t
    BY <1>1, <2>1, MaxOperationsAssumption DEF Trimmed
  <2>3. t \in Seq(Operation) /\ Len(t) = n - 1
    BY <1>1, <2>1, MaxOperationsAssumption
  <2>4. \A i \in 1 .. n - 1 : t[i] = all[i + 1]
    BY <1>1, <2>1, MaxOperationsAssumption
  <2>5. \A i \in 1 .. n - 1 : t[i] = IF i = n - 1 THEN new ELSE ops[i + 1]
    BY <1>1, <1>2, <2>4
  <2> QED
    BY <1>1, <2>1, <2>2, <2>3, <2>5, MaxOperationsAssumption
<1> QED
  BY <1>1, <1>3, <1>4, MaxOperationsAssumption

-----------------------------------------------------------------------------
(* The inductive invariant, one lemma per kind of step. *)

\* Both initial documents, the empty one and the migration block, satisfy it.
LEMMA InitIndInv == Init => IndInv
<1> SUFFICES ASSUME Init PROVE IndInv
  OBVIOUS
<1> USE DEF Init
<1>1. CASE doc = EmptyDocument
  <2>1. << >> \in Seq(Operation) /\ Len(<< >>) = 0
    OBVIOUS
  <2>2. doc \in Document /\ doc.operations = << >> /\ doc.lease = NoLease
    BY <1>1, <2>1 DEF EmptyDocument, Document
  <2>3. DOMAIN doc.operations = {} /\ Len(doc.operations) = 0
    BY <2>1, <2>2
  <2> QED
    BY <2>2, <2>3, MigrationAssumption, MaxOperationsAssumption
       DEF IndInv, TypeOK, WellFormed, LeaseInFlight, OneAwaitsManual, LiveAccounted,
           RunningIsLeasedOrAcknowledged, EntriesIssued
<1>2. CASE doc = MigrationBlockDocument
  <2> DEFINE e == [id |-> MigrationId, kind |-> MigrationKind,
                   context |-> MigrationContext, status |-> "manual-required"]
  <2>1. e \in Operation
    BY KindAssumption, MigrationAssumption DEF Operation, Statuses
  <2>2. doc = [lease |-> NoLease, operations |-> << e >>]
    BY <1>2 DEF MigrationBlockDocument
  <2> HIDE DEF e
  <2>3. doc \in Document /\ DOMAIN doc.operations = {1} /\ doc.operations[1] = e
        /\ Len(doc.operations) = 1
    BY <2>1, <2>2 DEF Document
  <2>4. e.id = MigrationId /\ e.kind = MigrationKind /\ e.status = "manual-required"
    BY DEF e
  <2> QED
    BY <2>2, <2>3, <2>4, MigrationAssumption, MaxOperationsAssumption
       DEF IndInv, TypeOK, WellFormed, LeaseInFlight, OneAwaitsManual, LiveAccounted,
           RunningIsLeasedOrAcknowledged, EntriesIssued
<1> QED
  BY <1>1, <1>2

\* The invariant, read at the entries of the list.
LEMMA IndInvEntries ==
    ASSUME IndInv
    PROVE  /\ doc \in Document /\ UniqueIds(doc)
           /\ doc.operations \in Seq(Operation)
           /\ doc.lease \in Ids \cup {NoLease}
           /\ \A id : Recorded(doc, id) =>
                \E i \in DOMAIN doc.operations :
                    doc.operations[i].id = id /\ Entry(doc, id) = doc.operations[i]
BY PositionOfEntry DEF IndInv, TypeOK, WellFormed, UniqueIds, Document, Entry

\* A core start: the leased operation becomes the one that awaits a person.
LEMMA RecoverKeeps == IndInv /\ Recover => IndInv'
<1> SUFFICES ASSUME IndInv, Recover PROVE IndInv'
  OBVIOUS
<1>1. CASE doc.lease = NoLease
  BY <1>1 DEF Recover, Recovered, IndInv, TypeOK, WellFormed, LeaseInFlight, Entry, Position,
              OneAwaitsManual, LiveAccounted, RunningIsLeasedOrAcknowledged, EntriesIssued,
              Recorded, AwaitsManual
<1>2. CASE doc.lease # NoLease
  <2> DEFINE e == WithStatus(doc, doc.lease, "manual-required")
  <2>1. Recorded(doc, doc.lease) /\ doc' = [e EXCEPT !.lease = NoLease]
    BY <1>2 DEF Recover, CanRecover, Recovered
  <2>2. /\ e \in Document
        /\ Len(e.operations) = Len(doc.operations)
        /\ DOMAIN e.operations = DOMAIN doc.operations
        /\ \A i \in DOMAIN doc.operations :
            /\ e.operations[i].id = doc.operations[i].id
            /\ e.operations[i].kind = doc.operations[i].kind
            /\ e.operations[i].status = IF doc.operations[i].id = doc.lease
                                        THEN "manual-required" ELSE doc.operations[i].status
    <3>1. "manual-required" \in Statuses
      BY DEF Statuses
    <3> HIDE DEF e
    <3> QED
      BY <2>1, <3>1, IndInvEntries, WithStatusChangesOneStatus DEF e
  <2> HIDE DEF e
  <2>3. doc' \in Document /\ doc'.operations = e.operations /\ doc'.lease = NoLease
    BY <2>1, <2>2 DEF Document
  <2>4. UNCHANGED <<live, issued, acknowledged>>
    BY DEF Recover
  <2>5. ~AwaitsManual(doc)
    BY <1>2 DEF IndInv, LeaseInFlight
  <2> QED
    BY <2>2, <2>3, <2>4, <2>5
       DEF IndInv, TypeOK, WellFormed, LeaseInFlight, OneAwaitsManual, LiveAccounted,
           RunningIsLeasedOrAcknowledged, EntriesIssued, AwaitsManual
<1> QED
  BY <1>1, <1>2

\* A crash only ends tasks.
LEMMA CrashKeeps == IndInv /\ Crash => IndInv'
BY DEF Crash, IndInv, TypeOK, WellFormed, LeaseInFlight, OneAwaitsManual, LiveAccounted,
       RunningIsLeasedOrAcknowledged, EntriesIssued, AwaitsManual, Recorded, Entry, Position

\* A start appends the new lease holder to a list in which nothing is leased and
\* nothing waits, so the entry that may fall out is settled.
LEMMA StartKeeps ==
    ASSUME NEW id \in Ids, NEW context \in Contexts, IndInv, Start(id, context)
    PROVE  IndInv'
<1> DEFINE new == NewOperation(id, ServiceKind, context)
           t == Trimmed(Append(doc.operations, new))
<1>1. doc' = [lease |-> id, operations |-> t]
  BY DEF Start, Started
<1>2. new \in Operation /\ new.id = id /\ new.status = "running"
  BY KindAssumption DEF NewOperation, Operation, Statuses
<1> HIDE DEF new
<1>3. doc.operations \in Seq(Operation) /\ Len(doc.operations) <= MaxOperations
  BY IndInvEntries DEF IndInv, WellFormed
<1>4. PICK k \in {0, 1} :
        /\ t \in Seq(Operation) /\ Len(t) <= MaxOperations /\ Len(t) >= 1
        /\ Len(t) = Len(doc.operations) + 1 - k
        /\ \A i \in 1 .. Len(t) : t[i] = IF i = Len(t) THEN new ELSE doc.operations[i + k]
  BY <1>2, <1>3, TrimmedAppend
<1> HIDE DEF t
<1>5. \A i \in 1 .. Len(t) : i # Len(t) => i + k \in DOMAIN doc.operations
  BY <1>3, <1>4
<1>6. /\ doc.lease = NoLease /\ ~AwaitsManual(doc) /\ ~Recorded(doc, id)
      /\ id \notin issued /\ issued' = issued \cup {id}
      /\ live' \in {live, live \cup {id}} /\ acknowledged' = acknowledged
  BY DEF Start, CanStart, Blocked
<1>7. doc' \in Document /\ doc'.lease = id /\ doc'.operations = t
      /\ DOMAIN doc'.operations = 1 .. Len(t)
  BY <1>1, <1>4 DEF Document
<1>8. TypeOK'
  BY <1>6, <1>7 DEF IndInv, TypeOK
<1>9. WellFormed'
  <2> SUFFICES ASSUME NEW i \in 1 .. Len(t), NEW j \in 1 .. Len(t), t[i].id = t[j].id
               PROVE  i = j
    BY <1>4, <1>7 DEF WellFormed
  <2>1. CASE i # Len(t) /\ j # Len(t)
    BY <2>1, <1>3, <1>4, <1>5 DEF IndInv, WellFormed
  <2>2. CASE i = Len(t) \/ j = Len(t)
    BY <2>2, <1>2, <1>4, <1>5, <1>6 DEF Recorded
  <2> QED
    BY <2>1, <2>2
<1>10. LeaseInFlight'
  <2>1. Len(t) \in DOMAIN t /\ t[Len(t)] = new
    BY <1>4
  <2>2. UniqueIds(doc')
    BY <1>9 DEF WellFormed, UniqueIds
  <2>3. Recorded(doc', id) /\ Entry(doc', id) = new
    BY <1>2, <1>7, <2>1, <2>2, EntryAt
  <2>4. ~AwaitsManual(doc')
    BY <1>2, <1>4, <1>5, <1>6, <1>7 DEF AwaitsManual
  <2> QED
    BY <1>2, <1>7, <2>3, <2>4 DEF LeaseInFlight
<1>11. OneAwaitsManual'
  BY <1>2, <1>4, <1>5, <1>6, <1>7 DEF OneAwaitsManual, AwaitsManual
<1>12. RunningIsLeasedOrAcknowledged'
  BY <1>2, <1>3, <1>4, <1>5, <1>6, <1>7, NoLeaseAssumption, IndInvEntries
     DEF RunningIsLeasedOrAcknowledged, IndInv, Operation, EntriesIssued, TypeOK
<1>13. LiveAccounted'
  <2> SUFFICES ASSUME NEW i \in 1 .. Len(t), i # Len(t), t[i].id \in live'
               PROVE  t[i].id \in acknowledged'
    BY <1>2, <1>4, <1>7 DEF LiveAccounted
  <2>1. i + k \in DOMAIN doc.operations /\ t[i] = doc.operations[i + k]
    BY <1>4, <1>5
  <2>2. t[i].id # id /\ t[i].status # "manual-required"
    BY <1>6, <2>1 DEF Recorded, AwaitsManual
  <2>3. t[i].id \in Ids
    <3>1. doc.operations[i + k] \in Operation
      BY <1>3, <2>1
    <3> QED
      BY <2>1, <3>1 DEF Operation
  <2> QED
    BY <1>6, <2>1, <2>2, <2>3, NoLeaseAssumption DEF IndInv, LiveAccounted
<1>14. EntriesIssued'
  BY <1>2, <1>4, <1>5, <1>6, <1>7 DEF EntriesIssued, IndInv
<1> QED
  BY <1>8, <1>9, <1>10, <1>11, <1>12, <1>13, <1>14 DEF IndInv

\* Setting a status, with the lease kept or given back, keeps the shape of the
\* document.  Stated for the step from doc to doc'.
LEMMA SetStatusEffect ==
    ASSUME IndInv, NEW id, Recorded(doc, id), NEW s \in Statuses,
           NEW STATE lease, lease \in Ids \cup {NoLease},
           doc' = [WithStatus(doc, id, s) EXCEPT !.lease = lease]
    PROVE  /\ doc' \in Document /\ UniqueIds(doc')
           /\ doc'.lease = lease
           /\ Len(doc'.operations) = Len(doc.operations)
           /\ DOMAIN doc'.operations = DOMAIN doc.operations
           /\ \A i \in DOMAIN doc.operations :
                /\ doc'.operations[i].id = doc.operations[i].id
                /\ doc'.operations[i].kind = doc.operations[i].kind
                /\ doc'.operations[i].status = IF doc.operations[i].id = id THEN s
                                               ELSE doc.operations[i].status
<1> DEFINE e == WithStatus(doc, id, s)
<1>1. /\ e \in Document
      /\ Len(e.operations) = Len(doc.operations)
      /\ DOMAIN e.operations = DOMAIN doc.operations
      /\ \A i \in DOMAIN doc.operations :
            /\ e.operations[i].id = doc.operations[i].id
            /\ e.operations[i].kind = doc.operations[i].kind
            /\ e.operations[i].status = IF doc.operations[i].id = id THEN s
                                        ELSE doc.operations[i].status
  BY IndInvEntries, WithStatusChangesOneStatus
<1>2. doc' = [e EXCEPT !.lease = lease]
  OBVIOUS
<1> HIDE DEF e
<1>3. lease \in Ids \cup {NoLease}
  OBVIOUS
<1>4. doc' \in Document /\ doc'.operations = e.operations /\ doc'.lease = lease
  BY <1>1, <1>2, <1>3 DEF Document
<1>5. UniqueIds(doc')
  BY <1>1, <1>4, IndInvEntries DEF UniqueIds
<1> QED
  BY <1>1, <1>4, <1>5

\* A progress report finds its own lease, or an entry that a person resolved.
LEMMA ProgressKeeps ==
    ASSUME NEW id \in Ids, IndInv, Progress(id)
    PROVE  IndInv'
<1>1. /\ id \in live /\ Recorded(doc, id) /\ Entry(doc, id).status # "manual-required"
      /\ UNCHANGED <<live, issued, acknowledged>>
      /\ doc' = WithStatus(doc, id, "running")
  BY DEF Progress, CanTransition, Progressed
<1>2. doc' = [WithStatus(doc, id, "running") EXCEPT !.lease = doc.lease]
  BY <1>1, IndInvEntries, WithStatusChangesOneStatus DEF Statuses, Document
<1>3. "running" \in Statuses
  BY DEF Statuses
<1>3a. doc.lease \in Ids \cup {NoLease}
  BY IndInvEntries
<1>4. /\ doc' \in Document /\ UniqueIds(doc')
      /\ doc'.lease = doc.lease
      /\ Len(doc'.operations) = Len(doc.operations)
      /\ DOMAIN doc'.operations = DOMAIN doc.operations
      /\ \A i \in DOMAIN doc.operations :
            /\ doc'.operations[i].id = doc.operations[i].id
            /\ doc'.operations[i].kind = doc.operations[i].kind
            /\ doc'.operations[i].status = IF doc.operations[i].id = id THEN "running"
                                           ELSE doc.operations[i].status
  BY <1>1, <1>2, <1>3, <1>3a, SetStatusEffect
<1>5. id = doc.lease \/ id \in acknowledged
  BY <1>1, IndInvEntries DEF IndInv, LiveAccounted
<1>6. \A i \in DOMAIN doc.operations :
        doc.operations[i].id = id => doc.operations[i].status # "manual-required"
  BY <1>1, IndInvEntries DEF UniqueIds
<1>7. TypeOK' /\ WellFormed' /\ OneAwaitsManual' /\ EntriesIssued'
  BY <1>1, <1>4, <1>6
     DEF IndInv, TypeOK, WellFormed, UniqueIds, OneAwaitsManual, EntriesIssued
<1>8. RunningIsLeasedOrAcknowledged' /\ LiveAccounted'
  BY <1>1, <1>4, <1>5, <1>6 DEF IndInv, RunningIsLeasedOrAcknowledged, LiveAccounted
<1>9. LeaseInFlight'
  <2> SUFFICES ASSUME doc.lease # NoLease
               PROVE  /\ Recorded(doc', doc.lease)
                      /\ Entry(doc', doc.lease).status = "running"
                      /\ ~AwaitsManual(doc')
    BY <1>4 DEF LeaseInFlight
  <2>1. Recorded(doc, doc.lease) /\ Entry(doc, doc.lease).status = "running"
        /\ ~AwaitsManual(doc)
    BY DEF IndInv, LeaseInFlight
  <2>2. PICK i \in DOMAIN doc.operations :
            doc.operations[i].id = doc.lease /\ doc.operations[i].status = "running"
    BY <2>1, IndInvEntries
  <2>3. Recorded(doc', doc.lease) /\ Entry(doc', doc.lease) = doc'.operations[i]
    BY <1>4, <2>2, EntryAt
  <2> QED
    BY <1>4, <2>1, <2>2, <2>3 DEF AwaitsManual
<1> QED
  BY <1>7, <1>8, <1>9 DEF IndInv

\* A completion, on time or by a late task, gives back no lease but its own.
LEMMA CompleteKeeps ==
    ASSUME NEW id \in Ids, NEW status \in {"succeeded", "failed"}, IndInv,
           Complete(id, status)
    PROVE  IndInv'
<1>1. CASE UNCHANGED doc
  <2>1. doc' = doc /\ live' = live \ {id} /\ UNCHANGED <<issued, acknowledged>>
    BY <1>1 DEF Complete
  <2> QED
    BY <2>1 DEF IndInv, TypeOK, WellFormed, LeaseInFlight, OneAwaitsManual, LiveAccounted,
                RunningIsLeasedOrAcknowledged, EntriesIssued
<1>2. CASE CanTransition(doc, id) /\ doc' = Completed(doc, id, status)
  <2> DEFINE lease == IF doc.lease = id THEN NoLease ELSE doc.lease
  <2>1. /\ id \in live /\ live' = live \ {id} /\ UNCHANGED <<issued, acknowledged>>
        /\ Recorded(doc, id) /\ Entry(doc, id).status # "manual-required"
        /\ doc' = Completed(doc, id, status)
    BY <1>2 DEF Complete, CanTransition
  <2>2. status \in Statuses /\ status \notin {"running", "manual-required"}
    BY DEF Statuses
  <2>3. doc' = [WithStatus(doc, id, status) EXCEPT !.lease = lease]
    BY <2>1, <2>2, IndInvEntries, WithStatusChangesOneStatus DEF Completed, Document
  <2>4. lease \in Ids \cup {NoLease}
    BY IndInvEntries
  <2>5. lease # NoLease => lease = doc.lease /\ id # lease
    OBVIOUS
  <2> HIDE DEF lease
  <2>6. /\ doc' \in Document /\ UniqueIds(doc')
        /\ doc'.lease = lease
        /\ Len(doc'.operations) = Len(doc.operations)
        /\ DOMAIN doc'.operations = DOMAIN doc.operations
        /\ \A i \in DOMAIN doc.operations :
              /\ doc'.operations[i].id = doc.operations[i].id
              /\ doc'.operations[i].kind = doc.operations[i].kind
              /\ doc'.operations[i].status = IF doc.operations[i].id = id THEN status
                                             ELSE doc.operations[i].status
    BY <2>1, <2>2, <2>3, <2>4, SetStatusEffect
  <2>7. \A i \in DOMAIN doc.operations : doc.operations[i].id # id =>
            (doc.operations[i].id = doc.lease => doc.operations[i].id = lease)
    BY DEF lease
  <2>8. TypeOK' /\ WellFormed' /\ OneAwaitsManual' /\ EntriesIssued'
    BY <2>1, <2>2, <2>6
       DEF IndInv, TypeOK, WellFormed, UniqueIds, OneAwaitsManual, EntriesIssued
  <2>9a. RunningIsLeasedOrAcknowledged'
    BY <2>1, <2>2, <2>6, <2>7 DEF IndInv, RunningIsLeasedOrAcknowledged
  <2>9. LiveAccounted'
    BY <2>1, <2>2, <2>6, <2>7 DEF IndInv, LiveAccounted
  <2>10. LeaseInFlight'
    <3> SUFFICES ASSUME lease # NoLease
                 PROVE  /\ Recorded(doc', lease)
                        /\ Entry(doc', lease).status = "running"
                        /\ ~AwaitsManual(doc')
      BY <2>6 DEF LeaseInFlight
    <3>1. lease = doc.lease /\ id # lease
      BY <2>5
    <3>2. PICK i \in DOMAIN doc.operations :
              doc.operations[i].id = lease /\ doc.operations[i].status = "running"
      BY <3>1, IndInvEntries DEF IndInv, LeaseInFlight
    <3>3. Recorded(doc', lease) /\ Entry(doc', lease) = doc'.operations[i]
      BY <2>6, <3>2, EntryAt
    <3>4. ~AwaitsManual(doc)
      BY <3>1 DEF IndInv, LeaseInFlight
    <3> QED
      BY <2>2, <2>6, <3>1, <3>2, <3>3, <3>4 DEF AwaitsManual
  <2> QED
    BY <2>8, <2>9a, <2>9, <2>10 DEF IndInv
<1> QED
  BY <1>1, <1>2 DEF Complete

\* A resolution takes the only mark away while nothing is leased.
LEMMA ResolveManualKeeps ==
    ASSUME NEW id \in Ids, IndInv, ResolveManual(id)
    PROVE  IndInv'
<1>1. /\ Recorded(doc, id) /\ Entry(doc, id).status = "manual-required"
      /\ acknowledged' = acknowledged \cup {id} /\ UNCHANGED <<live, issued>>
      /\ doc' = WithStatus(doc, id, "resolved-manually")
  BY DEF ResolveManual, CanResolve, ResolvedByHand
<1>2. "resolved-manually" \in Statuses
  BY DEF Statuses
<1>3. doc' = [WithStatus(doc, id, "resolved-manually") EXCEPT !.lease = doc.lease]
  BY <1>1, <1>2, IndInvEntries, WithStatusChangesOneStatus DEF Document
<1>3a. doc.lease \in Ids \cup {NoLease}
  BY IndInvEntries
<1>4. /\ doc' \in Document /\ UniqueIds(doc')
      /\ doc'.lease = doc.lease
      /\ Len(doc'.operations) = Len(doc.operations)
      /\ DOMAIN doc'.operations = DOMAIN doc.operations
      /\ \A i \in DOMAIN doc.operations :
            /\ doc'.operations[i].id = doc.operations[i].id
            /\ doc'.operations[i].kind = doc.operations[i].kind
            /\ doc'.operations[i].status = IF doc.operations[i].id = id
                                           THEN "resolved-manually"
                                           ELSE doc.operations[i].status
  BY <1>1, <1>2, <1>3, <1>3a, SetStatusEffect
<1>5. AwaitsManual(doc)
  BY <1>1, IndInvEntries DEF AwaitsManual
<1>6. doc.lease = NoLease
  BY <1>5 DEF IndInv, LeaseInFlight
<1>7. TypeOK' /\ WellFormed' /\ OneAwaitsManual' /\ EntriesIssued'
  BY <1>1, <1>4
     DEF IndInv, TypeOK, WellFormed, UniqueIds, OneAwaitsManual, EntriesIssued
<1>8. RunningIsLeasedOrAcknowledged' /\ LiveAccounted' /\ LeaseInFlight'
  BY <1>1, <1>4, <1>6
     DEF IndInv, RunningIsLeasedOrAcknowledged, LiveAccounted, LeaseInFlight
<1> QED
  BY <1>7, <1>8 DEF IndInv

\* Every step of the ledger keeps the inductive invariant.
LEMMA IndInvInductive == IndInv /\ [Next]_vars => IndInv'
<1> SUFFICES ASSUME IndInv, [Next]_vars PROVE IndInv'
  OBVIOUS
<1>1. CASE Recover
  BY <1>1, RecoverKeeps
<1>2. CASE Crash
  BY <1>2, CrashKeeps
<1>3. ASSUME NEW id \in Ids, NEW context \in Contexts, Start(id, context) PROVE IndInv'
  BY <1>3, StartKeeps
<1>4. ASSUME NEW id \in Ids, Progress(id) PROVE IndInv'
  BY <1>4, ProgressKeeps
<1>5. ASSUME NEW id \in Ids, NEW status \in {"succeeded", "failed"}, Complete(id, status)
      PROVE  IndInv'
  BY <1>5, CompleteKeeps
<1>6. ASSUME NEW id \in Ids, ResolveManual(id) PROVE IndInv'
  BY <1>6, ResolveManualKeeps
<1>7. CASE UNCHANGED vars
  BY <1>7 DEF vars, IndInv, TypeOK, WellFormed, LeaseInFlight, OneAwaitsManual, LiveAccounted,
              RunningIsLeasedOrAcknowledged, EntriesIssued
<1> QED
  BY <1>1, <1>2, <1>3, <1>4, <1>5, <1>6, <1>7 DEF Next

\* The inductive invariant holds in every reachable state.
THEOREM LedgerInvariant == Spec => []IndInv
<1>1. QED
  BY InitIndInv, IndInvInductive, PTL DEF Spec

\* The document and the histories keep their types, whatever the callers do.
THEOREM TypeCorrect == Spec => []TypeOK
<1>1. IndInv => TypeOK
  BY DEF IndInv
<1> QED
  BY <1>1, LedgerInvariant, PTL

\* The document stays within its limit and lists every identifier once.
THEOREM DocumentWellFormed == Spec => []WellFormed
<1>1. IndInv => WellFormed
  BY DEF IndInv
<1> QED
  BY <1>1, LedgerInvariant, PTL

\* A lease names a recorded, running operation and never stands beside one that
\* awaits a person, so recover() never fails and new work never overtakes a block.
THEOREM LeaseSafe == Spec => []LeaseInFlight
<1>1. IndInv => LeaseInFlight
  BY DEF IndInv
<1> QED
  BY <1>1, LedgerInvariant, PTL

\* At most one operation waits for a person.
THEOREM OneManualBlock == Spec => []OneAwaitsManual
<1>1. IndInv => OneAwaitsManual
  BY DEF IndInv
<1> QED
  BY <1>1, LedgerInvariant, PTL

\* Whatever is shown as running is covered by the lease or by an acknowledgement.
THEOREM RunningAccounted == Spec => []RunningIsLeasedOrAcknowledged
<1>1. IndInv => RunningIsLeasedOrAcknowledged
  BY DEF IndInv
<1> QED
  BY <1>1, LedgerInvariant, PTL

\* All a reader of the ledger relies on, together.
THEOREM LedgerIsConsistent == Spec => []LedgerConsistent
<1>1. IndInv => LedgerConsistent
  BY DEF IndInv, LedgerConsistent
<1> QED
  BY <1>1, LedgerInvariant, PTL

-----------------------------------------------------------------------------
(* What a step may do to an operation that awaits a person. *)

\* Awaiting, read at the entries of the list.
LEMMA AwaitingAt ==
    ASSUME NEW d \in Document, UniqueIds(d), NEW id
    PROVE  Awaiting(d, id) <=>
            \E i \in DOMAIN d.operations :
                d.operations[i].id = id /\ d.operations[i].status = "manual-required"
<1>1. ASSUME Awaiting(d, id)
      PROVE  \E i \in DOMAIN d.operations :
                d.operations[i].id = id /\ d.operations[i].status = "manual-required"
  BY <1>1, PositionOfEntry DEF Awaiting, Entry
<1>2. ASSUME NEW i \in DOMAIN d.operations, d.operations[i].id = id,
             d.operations[i].status = "manual-required"
      PROVE  Awaiting(d, id)
  BY <1>2, EntryAt DEF Awaiting
<1> QED
  BY <1>1, <1>2

\* A waiting operation is still waiting after any step but its own resolution.
LEMMA AwaitingStep ==
    ASSUME IndInv, [Next]_vars, NEW id \in Ids, Awaiting(doc, id)
    PROVE  \/ Awaiting(doc', id) /\ doc'.lease = NoLease
           \/ /\ ResolveManual(id) /\ id \in acknowledged'
              /\ Recorded(doc', id) /\ Entry(doc', id).status = "resolved-manually"
<1>1. PICK i \in DOMAIN doc.operations :
          doc.operations[i].id = id /\ doc.operations[i].status = "manual-required"
  BY IndInvEntries, AwaitingAt
<1>2. AwaitsManual(doc) /\ doc.lease = NoLease
  BY <1>1 DEF AwaitsManual, IndInv, LeaseInFlight
<1>3. CASE doc' = doc
  BY <1>2, <1>3
<1>4. ASSUME NEW other, Recorded(doc, other), NEW s \in Statuses,
             doc' = WithStatus(doc, other, s)
      PROVE  /\ doc' \in Document /\ UniqueIds(doc') /\ doc'.lease = NoLease
             /\ i \in DOMAIN doc'.operations /\ doc'.operations[i].id = id
             /\ doc'.operations[i].status = IF id = other THEN s ELSE "manual-required"
  <2>1. /\ doc' \in Document /\ doc'.lease = doc.lease
        /\ DOMAIN doc'.operations = DOMAIN doc.operations
        /\ \A j \in DOMAIN doc.operations :
            /\ doc'.operations[j].id = doc.operations[j].id
            /\ doc'.operations[j].status = IF doc.operations[j].id = other THEN s
                                           ELSE doc.operations[j].status
    BY <1>4, IndInvEntries, WithStatusChangesOneStatus
  <2> QED
    BY <1>1, <1>2, <2>1, IndInvEntries DEF UniqueIds
<1>5. CASE Recover
  BY <1>2, <1>3, <1>5 DEF Recover, Recovered
<1>6. CASE Crash
  BY <1>3, <1>6 DEF Crash
<1>7. ASSUME NEW other \in Ids, NEW context \in Contexts, Start(other, context)
      PROVE  FALSE
  BY <1>2, <1>7 DEF Start, CanStart, Blocked
<1>8. ASSUME NEW other \in Ids, Progress(other)
      PROVE  Awaiting(doc', id) /\ doc'.lease = NoLease
  <2>1. Recorded(doc, other) /\ Entry(doc, other).status # "manual-required"
        /\ doc' = WithStatus(doc, other, "running") /\ "running" \in Statuses
    BY <1>8 DEF Progress, CanTransition, Progressed, Statuses
  <2>2. id # other
    BY <2>1 DEF Awaiting
  <2> QED
    BY <1>4, <2>1, <2>2, AwaitingAt
<1>9. ASSUME NEW other \in Ids, NEW s \in {"succeeded", "failed"}, Complete(other, s)
      PROVE  Awaiting(doc', id) /\ doc'.lease = NoLease
  <2>1. CASE UNCHANGED doc
    BY <1>2, <2>1
  <2>2. CASE CanTransition(doc, other) /\ doc' = Completed(doc, other, s)
    <3> DEFINE e == WithStatus(doc, other, s)
    <3>1. Recorded(doc, other) /\ Entry(doc, other).status # "manual-required"
          /\ doc' = Completed(doc, other, s) /\ s \in Statuses
      BY <1>9, <2>2 DEF Complete, CanTransition, Statuses
    <3>2. id # other
      BY <3>1 DEF Awaiting
    <3>3. e \in Document /\ e.lease = NoLease
      BY <1>2, <3>1, IndInvEntries, WithStatusChangesOneStatus
    <3>4. doc' = e
      BY <3>1, <3>3 DEF Completed, Document
    <3> QED
      BY <1>4, <3>1, <3>2, <3>4, AwaitingAt
  <2> QED
    BY <1>9, <2>1, <2>2 DEF Complete
<1>10. ASSUME NEW other \in Ids, ResolveManual(other)
       PROVE  \/ Awaiting(doc', id) /\ doc'.lease = NoLease
              \/ /\ ResolveManual(id) /\ id \in acknowledged'
                 /\ Recorded(doc', id) /\ Entry(doc', id).status = "resolved-manually"
  <2>1. Recorded(doc, other) /\ doc' = WithStatus(doc, other, "resolved-manually")
        /\ acknowledged' = acknowledged \cup {other} /\ "resolved-manually" \in Statuses
    BY <1>10 DEF ResolveManual, CanResolve, ResolvedByHand, Statuses
  <2>2. CASE id # other
    BY <1>4, <2>1, <2>2, AwaitingAt
  <2>3. CASE id = other
    BY <1>4, <1>10, <2>1, <2>3, EntryAt
  <2> QED
    BY <2>2, <2>3
<1> QED
  BY <1>3, <1>5, <1>6, <1>7, <1>8, <1>9, <1>10 DEF Next, vars

\* No restart, late task, new start or trimming takes a manual block off: only
\* the explicit resolution does, and until then nothing holds the lease.
THEOREM ManualBlockHolds == Spec => BlockedUntilResolved
<1>1. IndInv /\ [Next]_vars =>
        [\A id \in Ids :
            Awaiting(doc, id) =>
                \/ Awaiting(doc', id) /\ doc'.lease = NoLease
                \/ id \in acknowledged' /\ Recorded(doc', id)
                     /\ Entry(doc', id).status = "resolved-manually"]_vars
  BY AwaitingStep
<1> QED
  BY <1>1, LedgerInvariant, PTL DEF Spec, BlockedUntilResolved

\* Nothing the program does lifts the block of a quarantined ledger.
THEOREM MigrationBlockFinal == Spec => MigrationBlockStays
<1>1. ASSUME IndInv, [Next]_vars, Awaiting(doc, MigrationId)
      PROVE  Awaiting(doc', MigrationId)
  <2>1. ~ResolveManual(MigrationId)
    BY <1>1, IndInvEntries, KindAssumption
       DEF IndInv, EntriesIssued, ResolveManual, CanResolve
  <2> QED
    BY <1>1, <2>1, AwaitingStep, MigrationAssumption
<1>2. IndInv /\ [Next]_vars => [Awaiting(doc, MigrationId) => Awaiting(doc', MigrationId)]_vars
  BY <1>1
<1> QED
  BY <1>2, LedgerInvariant, PTL DEF Spec, MigrationBlockStays

-----------------------------------------------------------------------------
(* What falls out of the list. *)

\* A change that sets a status drops no entry.
LEMMA SettingStatusKeepsRecorded ==
    ASSUME IndInv, NEW other, Recorded(doc, other), NEW s \in Statuses,
           doc'.operations = WithStatus(doc, other, s).operations,
           NEW id, Recorded(doc, id)
    PROVE  Recorded(doc', id)
<1>1. /\ DOMAIN doc'.operations = DOMAIN doc.operations
      /\ \A i \in DOMAIN doc.operations : doc'.operations[i].id = doc.operations[i].id
  BY IndInvEntries, WithStatusChangesOneStatus
<1> QED
  BY <1>1 DEF Recorded

\* Only a start drops an entry.
LEMMA DropIsStart ==
    ASSUME IndInv, [Next]_vars, NEW id \in Ids, Recorded(doc, id), ~Recorded(doc', id)
    PROVE  \E other \in Ids, context \in Contexts : Start(other, context)
<1>1. ASSUME NEW other, Recorded(doc, other), NEW s \in Statuses, NEW lease,
             doc' = [WithStatus(doc, other, s) EXCEPT !.lease = lease]
      PROVE  FALSE
  <2>1. WithStatus(doc, other, s) \in Document
    BY <1>1, IndInvEntries, WithStatusChangesOneStatus
  <2>2. doc'.operations = WithStatus(doc, other, s).operations
    BY <1>1, <2>1 DEF Document
  <2> QED
    BY <1>1, <2>2, SettingStatusKeepsRecorded
<1>2. ASSUME NEW other, Recorded(doc, other), NEW s \in Statuses,
             doc' = WithStatus(doc, other, s)
      PROVE  FALSE
  BY <1>2, SettingStatusKeepsRecorded
<1>3. doc' # doc
  OBVIOUS
<1>4. CASE Recover
  <2>1. "manual-required" \in Statuses
    BY DEF Statuses
  <2> QED
    BY <1>1, <1>3, <1>4, <2>1 DEF Recover, CanRecover, Recovered
<1>5. CASE Crash
  BY <1>3, <1>5 DEF Crash
<1>6. ASSUME NEW other \in Ids, Progress(other) PROVE FALSE
  <2>1. "running" \in Statuses
    BY DEF Statuses
  <2> QED
    BY <1>2, <1>6, <2>1 DEF Progress, CanTransition, Progressed
<1>7. ASSUME NEW other \in Ids, NEW s \in {"succeeded", "failed"}, Complete(other, s)
      PROVE  FALSE
  <2>1. s \in Statuses /\ Recorded(doc, other)
        /\ doc' = Completed(doc, other, s)
    BY <1>3, <1>7 DEF Complete, CanTransition, Statuses
  <2>2. WithStatus(doc, other, s) \in Document
    BY <2>1, IndInvEntries, WithStatusChangesOneStatus
  <2>3. doc'.operations = WithStatus(doc, other, s).operations
    BY <2>1, <2>2 DEF Completed, Document
  <2> QED
    BY <2>1, <2>3, SettingStatusKeepsRecorded
<1>8. ASSUME NEW other \in Ids, ResolveManual(other) PROVE FALSE
  <2>1. "resolved-manually" \in Statuses
    BY DEF Statuses
  <2> QED
    BY <1>2, <1>8, <2>1 DEF ResolveManual, CanResolve, ResolvedByHand
<1> QED
  BY <1>3, <1>4, <1>5, <1>6, <1>7, <1>8 DEF Next, vars

\* The limit drops no operation that is leased or waits for a person: whatever
\* falls out of the list is over or was resolved by hand.
THEOREM TrimmingIsSafe == Spec => DropsOnlySettled
<1>1. ASSUME IndInv, [Next]_vars, NEW id \in Ids, Recorded(doc, id), ~Recorded(doc', id)
      PROVE  \/ Entry(doc, id).status \in {"succeeded", "failed", "resolved-manually"}
             \/ id \in acknowledged
  <2>1. doc.lease = NoLease /\ ~AwaitsManual(doc)
    BY <1>1, DropIsStart DEF Start, CanStart, Blocked
  <2>2. PICK i \in DOMAIN doc.operations :
            doc.operations[i].id = id /\ Entry(doc, id) = doc.operations[i]
    BY <1>1, IndInvEntries
  <2>3. doc.operations[i].status \in Statuses
    <3>1. doc.operations[i] \in Operation
      BY <1>1, IndInvEntries
    <3> QED
      BY <3>1 DEF Operation
  <2>4. doc.operations[i].status # "manual-required"
    BY <2>1 DEF AwaitsManual
  <2>5. doc.operations[i].status = "running" => id \in acknowledged
    BY <1>1, <2>1, <2>2, NoLeaseAssumption DEF IndInv, RunningIsLeasedOrAcknowledged
  <2> QED
    BY <2>2, <2>3, <2>4, <2>5 DEF Statuses
<1>2. IndInv /\ [Next]_vars =>
        [\A id \in Ids :
            Recorded(doc, id) /\ ~Recorded(doc', id) =>
                \/ Entry(doc, id).status \in {"succeeded", "failed", "resolved-manually"}
                \/ id \in acknowledged]_vars
  BY <1>1
<1> QED
  BY <1>2, LedgerInvariant, PTL DEF Spec, DropsOnlySettled

-----------------------------------------------------------------------------
(* What a caller may rely on between its own calls. *)

\* An operation keeps the ledger closed.
Holds(d, id) == d.lease = id \/ Awaiting(d, id)

\* A live task's operation is in the list, or a person has resolved it.
LiveRecorded == \A id \in live : Recorded(doc, id) \/ id \in acknowledged

\* No step of another task drops the operation of a live one.
LEMMA LiveRecordedKept ==
    ASSUME IndInv, [Next]_vars, LiveRecorded
    PROVE  LiveRecorded'
<1> SUFFICES ASSUME NEW id \in live', id \notin acknowledged'
             PROVE  Recorded(doc', id)
  BY DEF LiveRecorded
<1>1. id \notin acknowledged
  BY DEF Next, vars, Recover, Crash, Start, Progress, Complete, ResolveManual
<1>2. CASE id \in live
  <2>1. id \in Ids /\ Recorded(doc, id)
    BY <1>1, <1>2 DEF LiveRecorded, IndInv, TypeOK
  <2> SUFFICES ASSUME ~Recorded(doc', id) PROVE FALSE
    OBVIOUS
  <2>2. doc.lease = NoLease /\ ~AwaitsManual(doc)
    BY <2>1, DropIsStart DEF Start, CanStart, Blocked
  <2>3. PICK i \in DOMAIN doc.operations : doc.operations[i].id = id
    BY <2>1 DEF Recorded
  <2> QED
    BY <1>1, <1>2, <2>1, <2>2, <2>3, NoLeaseAssumption
       DEF IndInv, LiveAccounted, AwaitsManual
<1>3. CASE id \notin live
  <2>1. PICK context \in Contexts : id \in Ids /\ Start(id, context)
    BY <1>3 DEF Next, vars, Recover, Crash, Start, Progress, Complete, ResolveManual
  <2>2. doc'.lease = id
    BY <2>1 DEF Start, Started
  <2>3. IndInv'
    BY IndInvInductive
  <2> QED
    BY <2>1, <2>2, <2>3, NoLeaseAssumption DEF IndInv, LeaseInFlight
<1> QED
  BY <1>2, <1>3

\* An operation holds the ledger until its own last call is written or a person
\* resolves it: restarts, other tasks and new starts leave it held.
LEMMA HoldsStep ==
    ASSUME IndInv, [Next]_vars, NEW id \in Ids, Holds(doc, id)
    PROVE  \/ Holds(doc', id)
           \/ id \in acknowledged'
           \/ id \in live /\ id \notin live' /\ doc' # doc
<1>1. CASE Awaiting(doc, id)
  BY <1>1, AwaitingStep DEF Holds
<1>2. CASE doc.lease = id
  <2>1. doc.lease # NoLease
    BY <1>2, NoLeaseAssumption
  <2>2. CASE doc' = doc
    BY <1>2, <2>2 DEF Holds
  <2>3. CASE Recover
    <3> DEFINE e == WithStatus(doc, id, "manual-required")
    <3>1. Recorded(doc, id) /\ doc' = [e EXCEPT !.lease = NoLease]
          /\ "manual-required" \in Statuses
      BY <1>2, <2>1, <2>3 DEF Recover, CanRecover, Recovered, Statuses
    <3>2. /\ UniqueIds(doc') /\ doc' \in Document
          /\ DOMAIN doc'.operations = DOMAIN doc.operations
          /\ \A i \in DOMAIN doc.operations :
                /\ doc'.operations[i].id = doc.operations[i].id
                /\ doc'.operations[i].status = IF doc.operations[i].id = id
                                               THEN "manual-required"
                                               ELSE doc.operations[i].status
      BY <3>1, SetStatusEffect
    <3>3. PICK i \in DOMAIN doc.operations : doc.operations[i].id = id
      BY <3>1 DEF Recorded
    <3> QED
      BY <3>2, <3>3, AwaitingAt DEF Holds
  <2>4. ASSUME NEW other \in Ids, Progress(other) PROVE Holds(doc', id)
    <3>1. Recorded(doc, other) /\ doc' = WithStatus(doc, other, "running")
          /\ "running" \in Statuses
      BY <2>4 DEF Progress, CanTransition, Progressed, Statuses
    <3> QED
      BY <1>2, <3>1, IndInvEntries, WithStatusChangesOneStatus DEF Holds
  <2>5. ASSUME NEW other \in Ids, NEW s \in {"succeeded", "failed"}, Complete(other, s),
               doc' # doc
        PROVE  Holds(doc', id) \/ (id \in live /\ id \notin live' /\ doc' # doc)
    <3>1. Recorded(doc, other) /\ s \in Statuses /\ doc' = Completed(doc, other, s)
          /\ other \in live /\ live' = live \ {other}
      BY <2>5 DEF Complete, CanTransition, Statuses
    <3>2. CASE other = id
      BY <2>5, <3>1, <3>2
    <3>3. CASE other # id
      <4>1. WithStatus(doc, other, s) \in Document /\ WithStatus(doc, other, s).lease = id
        BY <1>2, <3>1, IndInvEntries, WithStatusChangesOneStatus
      <4> QED
        BY <3>1, <3>3, <4>1 DEF Completed, Holds, Document
    <3> QED
      BY <3>2, <3>3
  <2>6. ASSUME NEW other \in Ids, ResolveManual(other) PROVE Holds(doc', id)
    <3>1. Recorded(doc, other) /\ doc' = WithStatus(doc, other, "resolved-manually")
          /\ "resolved-manually" \in Statuses
      BY <2>6 DEF ResolveManual, CanResolve, ResolvedByHand, Statuses
    <3> QED
      BY <1>2, <3>1, IndInvEntries, WithStatusChangesOneStatus DEF Holds
  <2> QED
    BY <2>1, <2>2, <2>3, <2>4, <2>5, <2>6
       DEF Next, vars, Crash, Start, CanStart, Blocked
<1> QED
  BY <1>1, <1>2 DEF Holds

\* The operation of a live task holds the ledger, unless a person resolved it.
LEMMA LiveHolds ==
    ASSUME IndInv, LiveRecorded, NEW id \in live, id \notin acknowledged
    PROVE  Holds(doc, id)
<1>1. PICK i \in DOMAIN doc.operations : doc.operations[i].id = id
  BY DEF LiveRecorded, Recorded
<1>2. CASE doc.lease = id
  BY <1>2 DEF Holds
<1>3. CASE doc.operations[i].status = "manual-required"
  BY <1>1, <1>3, IndInvEntries, AwaitingAt DEF Holds
<1> QED
  BY <1>1, <1>2, <1>3 DEF IndInv, LiveAccounted

\* An operation that holds the ledger keeps new work out.
LEMMA HolderBlocks ==
    ASSUME IndInv, NEW id \in Ids, Holds(doc, id)
    PROVE  Blocked(doc)
<1>1. CASE doc.lease = id
  BY <1>1, NoLeaseAssumption DEF Blocked
<1>2. CASE Awaiting(doc, id)
  BY <1>2, IndInvEntries, AwaitingAt DEF Blocked, AwaitsManual
<1> QED
  BY <1>1, <1>2 DEF Holds

\* An operation that holds the ledger is the only one that does.
LEMMA HolderIsUnique ==
    ASSUME IndInv, NEW a \in Ids, NEW b \in Ids, Holds(doc, a), Holds(doc, b)
    PROVE  a = b
<1>1. \A id : Awaiting(doc, id) =>
        \E i \in DOMAIN doc.operations :
            doc.operations[i].id = id /\ doc.operations[i].status = "manual-required"
  BY IndInvEntries, AwaitingAt
<1>2. doc.lease # NoLease => \A id : ~Awaiting(doc, id)
  BY <1>1 DEF IndInv, LeaseInFlight, AwaitsManual
<1> QED
  BY <1>1, <1>2, NoLeaseAssumption DEF Holds, IndInv, OneAwaitsManual
=============================================================================
