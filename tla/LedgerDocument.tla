--------------------------- MODULE LedgerDocument ---------------------------
(***************************************************************************)
(* The JSON document of the control-operation ledger                       *)
(* (backend/src/operation-ledger.mjs) and the change each ledger call      *)
(* makes to it.  A call of the code reads the document, applies one of     *)
(* these changes in memory and writes the result back; a change that       *)
(* throws writes nothing.  Every change is therefore a pair: the condition *)
(* under which the code does not throw (CanX) and the document it writes.  *)
(*                                                                         *)
(* Timestamps, action names, plan identifiers and the phase text shown to  *)
(* the user are left out.  The verified operation context is kept as one   *)
(* opaque value.                                                           *)
(*                                                                         *)
(* A definition marked "Slip" is no part of the model: it is the one after *)
(* it with a likely mistake, kept to show which property notices it.       *)
(***************************************************************************)
EXTENDS Integers, Sequences

CONSTANTS
    Ids,            \* operation identifiers (random UUIDs in the code)
    Kinds,          \* operation kinds
    Contexts,       \* verified operation contexts
    MaxOperations,  \* entries the document keeps (100 in the code)
    NoLease         \* the lease field when it is null

ASSUME NoLeaseAssumption == NoLease \notin Ids
ASSUME MaxOperationsAssumption == MaxOperations \in Nat \ {0}

Statuses == {"running", "succeeded", "failed", "manual-required", "resolved-manually"}

Operation == [id: Ids, kind: Kinds, context: Contexts, status: Statuses]

Document == [lease: Ids \cup {NoLease}, operations: Seq(Operation)]

EmptyDocument == [lease |-> NoLease, operations |-> << >>]

-----------------------------------------------------------------------------
(* Reading the document. *)

Recorded(doc, id) == \E i \in DOMAIN doc.operations : doc.operations[i].id = id

\* operations.find(...) returns the first entry with the identifier.
Position(doc, id) ==
    CHOOSE i \in DOMAIN doc.operations :
        /\ doc.operations[i].id = id
        /\ \A j \in DOMAIN doc.operations : j < i => doc.operations[j].id # id

Entry(doc, id) == doc.operations[Position(doc, id)]

AwaitsManual(doc) ==
    \E i \in DOMAIN doc.operations : doc.operations[i].status = "manual-required"

Blocked(doc) == doc.lease # NoLease \/ AwaitsManual(doc)

-----------------------------------------------------------------------------
(* Changing the document. *)

WithStatus(doc, id, status) ==
    [doc EXCEPT !.operations[Position(doc, id)].status = status]

\* Slip: the limit is compared one entry too late.
TrimmedLate(ops) ==
    IF Len(ops) > MaxOperations + 1
    THEN SubSeq(ops, Len(ops) - MaxOperations + 1, Len(ops))
    ELSE ops

\* operations.splice(0, length - MAX_OPERATIONS): the oldest entries go.
Trimmed(ops) ==
    IF Len(ops) > MaxOperations
    THEN SubSeq(ops, Len(ops) - MaxOperations + 1, Len(ops))
    ELSE ops

CanRecover(doc) == doc.lease # NoLease => Recorded(doc, doc.lease)

\* Slip: the lease is given up and its operation is not marked.
RecoveredUnmarked(doc) == [doc EXCEPT !.lease = NoLease]

Recovered(doc) ==
    IF doc.lease = NoLease THEN doc
    ELSE [WithStatus(doc, doc.lease, "manual-required") EXCEPT !.lease = NoLease]

\* Slip: only the operations that wait are looked at.
CanStartBesideLease(doc, id) == ~AwaitsManual(doc) /\ ~Recorded(doc, id)

CanStart(doc, id) == ~Blocked(doc) /\ ~Recorded(doc, id)

NewOperation(id, kind, context) ==
    [id |-> id, kind |-> kind, context |-> context, status |-> "running"]

Started(doc, id, kind, context) ==
    [lease |-> id,
     operations |-> Trimmed(Append(doc.operations, NewOperation(id, kind, context)))]

\* Slip: a late task may write over the mark of a restart.
CanTransitionRecovered(doc, id) == Recorded(doc, id)

CanTransition(doc, id) == Recorded(doc, id) /\ Entry(doc, id).status # "manual-required"

\* The transitions to 'executing' and 'verifying'.
Progressed(doc, id) == WithStatus(doc, id, "running")

\* Slip: only a successful task clears the lease.
CompletedOnSuccess(doc, id, status) ==
    [WithStatus(doc, id, status) EXCEPT
        !.lease = IF @ = id /\ status = "succeeded" THEN NoLease ELSE @]

\* The transition with completed: true, which gives an own lease back.
Completed(doc, id, status) ==
    [WithStatus(doc, id, status) EXCEPT !.lease = IF @ = id THEN NoLease ELSE @]

\* Slip: the kind of the recovery flow is not compared.
CanResolveAnyKind(doc, id, kind) ==
    Recorded(doc, id) /\ Entry(doc, id).status = "manual-required"

CanResolve(doc, id, kind) ==
    /\ Recorded(doc, id)
    /\ Entry(doc, id).status = "manual-required"
    /\ Entry(doc, id).kind = kind

ResolvedByHand(doc, id) == WithStatus(doc, id, "resolved-manually")
=============================================================================
