-------------------------- MODULE HardwareInvariant -------------------------
(***************************************************************************)
(* The inductive invariant of HardwareHistory, which LedgerFileProofs      *)
(* proves.                                                                 *)
(***************************************************************************)
EXTENDS HardwareHistory

\* Any two records are at least an interval apart, in the order of their times.
Spaced(list) ==
    \A i, j \in DOMAIN list : i < j => list[j].at - list[i].at >= MinInterval

\* What an addition that has read is about to write: what it has read is spaced,
\* its snapshot follows, and under one core the file only has outdated records more.
LoadedOK(r) ==
    /\ Head(due[using[r].core]) = r
    /\ Len(loaded[r]) <= MaxRecords /\ Spaced(loaded[r])
    /\ loaded[r] # <<>> => sample[r].at - Last(loaded[r]).at >= MinInterval
    /\ core = 0 => \A x \in ToSet(records) \ ToSet(loaded[r]) : x.at < now - Retention

\* A request whose addition is due has a snapshot, and is in its core's queue.
AdditionOK(r) ==
    /\ using[r].core <= core
    /\ place[r] = "probing" => using[r].profile \in Profiles
    /\ place[r] \in {"queued", "saving"} =>
           sample[r] \in Samples /\ r \in ToSet(due[using[r].core])
    /\ place[r] = "saving" => LoadedOK(r)

\* A queue has each of its core's additions once, and nothing else.
QueueOK(c) ==
    /\ IsInjective(due[c])
    /\ \A r \in ToSet(due[c]) : place[r] \in {"queued", "saving"} /\ using[r].core = c

HardwareInv ==
    /\ HardwareTypeOK /\ core <= events
    /\ Len(records) <= MaxRecords /\ Spaced(records)
    /\ \A r \in Requests : AdditionOK(r)
    /\ \A c \in Cores : QueueOK(c)

=============================================================================
