--------------------------- MODULE OperationLedger --------------------------
(***************************************************************************)
(* What the durable operation ledger promises its callers: every call is   *)
(* one atomic change of the document, whoever calls and in whatever order. *)
(*                                                                         *)
(* The callers of the program are the tasks of the local service           *)
(* controller (start, transition), the start-up of an application core     *)
(* (recover) and the person who acknowledges a recovered operation         *)
(* (resolveManual).  No order among them is assumed: the desktop process   *)
(* starts a new core, and so recovers the ledger, whenever a session       *)
(* preference is toggled, and the tasks of the old core outlive that.      *)
(***************************************************************************)
EXTENDS LedgerDocument

CONSTANTS
    ServiceKind,     \* 'service-control', the only kind the program starts
    MigrationKind,   \* 'ledger-migration', the kind of the migration block
    MigrationId,     \* identifier of the migration block's one entry
    MigrationContext \* the all-zero context of the migration block

ASSUME KindAssumption ==
    ServiceKind \in Kinds /\ MigrationKind \in Kinds /\ ServiceKind # MigrationKind
ASSUME MigrationAssumption == MigrationId \in Ids /\ MigrationContext \in Contexts

VARIABLES
    doc,          \* the document in the ledger file
    live,         \* operations whose task is still running in the process
    issued,       \* history: identifiers handed out (a random UUID never repeats)
    acknowledged  \* history: operations a person has resolved

vars == <<doc, live, issued, acknowledged>>

\* What the desktop start-up leaves in the file when it had to set aside an
\* incompatible ledger that held unfinished operations.
MigrationBlockDocument ==
    [lease |-> NoLease,
     operations |-> << [id |-> MigrationId, kind |-> MigrationKind,
                        context |-> MigrationContext, status |-> "manual-required"] >>]

Init ==
    /\ doc \in {EmptyDocument, MigrationBlockDocument}
    /\ live = {}
    /\ issued = {MigrationId}
    /\ acknowledged = {}

\* A new core starts: after a crash, or in the same process.
Recover ==
    /\ CanRecover(doc)
    /\ doc' = Recovered(doc)
    /\ UNCHANGED <<live, issued, acknowledged>>

\* The process ends; its tasks are gone and the file stays.
Crash ==
    /\ live' = {}
    /\ UNCHANGED <<doc, issued, acknowledged>>

\* An operation is recorded and its task goes to work; or the file is written
\* and the call rejected nevertheless, and no task follows.
Start(id, context) ==
    /\ id \notin issued
    /\ issued' = issued \cup {id}
    /\ CanStart(doc, id)
    /\ doc' = Started(doc, id, ServiceKind, context)
    /\ live' \in {live, live \cup {id}}
    /\ UNCHANGED acknowledged

\* A task reports that it executes, or that it verifies.
Progress(id) ==
    /\ id \in live
    /\ CanTransition(doc, id)
    /\ doc' = Progressed(doc, id)
    /\ UNCHANGED <<live, issued, acknowledged>>

\* A task's last call.  The task ends whether the ledger takes the call, rejects
\* it, or cannot reach the file (lock busy, disk error).
Complete(id, status) ==
    /\ id \in live
    /\ live' = live \ {id}
    /\ \/ CanTransition(doc, id) /\ doc' = Completed(doc, id, status)
       \/ UNCHANGED doc
    /\ UNCHANGED <<issued, acknowledged>>

ResolveManual(id) ==
    /\ CanResolve(doc, id, ServiceKind)
    /\ doc' = ResolvedByHand(doc, id)
    /\ acknowledged' = acknowledged \cup {id}
    /\ UNCHANGED <<live, issued>>

Next ==
    \/ Recover
    \/ Crash
    \/ \E id \in Ids :
        \/ \E context \in Contexts : Start(id, context)
        \/ Progress(id)
        \/ \E status \in {"succeeded", "failed"} : Complete(id, status)
        \/ ResolveManual(id)

Spec == Init /\ [][Next]_vars

-----------------------------------------------------------------------------

TypeOK ==
    /\ doc \in Document
    /\ live \in SUBSET Ids
    /\ issued \in SUBSET Ids
    /\ acknowledged \in SUBSET Ids

Awaiting(d, id) == Recorded(d, id) /\ Entry(d, id).status = "manual-required"

\* The document never outgrows its limit and never lists an identifier twice,
\* so "the first entry with this id" is the only one, whatever the limit cuts.
WellFormed ==
    /\ Len(doc.operations) <= MaxOperations
    /\ \A i, j \in DOMAIN doc.operations :
        doc.operations[i].id = doc.operations[j].id => i = j

\* A lease always names a recorded operation that is still running, and never
\* stands beside an operation that awaits a person: recover() cannot meet
\* "lease refers to a missing operation", which would stop the application
\* from starting, and new work cannot hold the ledger next to unresolved work.
LeaseInFlight ==
    doc.lease # NoLease =>
        /\ Recorded(doc, doc.lease)
        /\ Entry(doc, doc.lease).status = "running"
        /\ ~AwaitsManual(doc)

\* At most one operation ever waits for a person, however restarts and late
\* tasks interleave: one acknowledgement always unblocks the ledger.
OneAwaitsManual ==
    \A i, j \in DOMAIN doc.operations :
        /\ doc.operations[i].status = "manual-required"
        /\ doc.operations[j].status = "manual-required"
        => i = j

\* An operation shown as running holds the lease, or a person has already
\* resolved it and its late task revived it: no other running entry exists
\* that a restart would fail to turn into a manual block.
RunningIsLeasedOrAcknowledged ==
    \A i \in DOMAIN doc.operations :
        doc.operations[i].status = "running" =>
            doc.operations[i].id \in acknowledged \cup {doc.lease}

\* What every caller may rely on whenever it reads the ledger, whatever restarts,
\* late tasks and the limit have made of it: the document is well formed, its
\* lease is in flight, at most one operation waits for a person, and no other
\* entry runs than the leased one and those that a person has resolved.
LedgerConsistent ==
    /\ TypeOK
    /\ WellFormed
    /\ LeaseInFlight
    /\ OneAwaitsManual
    /\ RunningIsLeasedOrAcknowledged

\* "A recovered in-flight operation always blocks new work until a human
\* explicitly resolves it": no restart, late task, new start or trimming
\* takes the mark off or drops the entry; only resolveManual does.
BlockedUntilResolved ==
    [][\A id \in Ids :
        Awaiting(doc, id) =>
            \/ Awaiting(doc', id) /\ doc'.lease = NoLease
            \/ id \in acknowledged' /\ Recorded(doc', id)
                 /\ Entry(doc', id).status = "resolved-manually"]_vars

\* The limit on the document's length only drops operations that are over, or
\* that a person has resolved: never the leased one, never one that waits.
DropsOnlySettled ==
    [][\A id \in Ids :
        Recorded(doc, id) /\ ~Recorded(doc', id) =>
            \/ Entry(doc, id).status \in {"succeeded", "failed", "resolved-manually"}
            \/ id \in acknowledged]_vars

\* The block left by a quarantined ledger is of a kind no flow of the program
\* resolves, so service control stays refused for good.
MigrationBlockStays ==
    [][Awaiting(doc, MigrationId) => Awaiting(doc', MigrationId)]_vars
=============================================================================
