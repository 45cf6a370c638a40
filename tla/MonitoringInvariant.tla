------------------------ MODULE MonitoringInvariant -------------------------
(***************************************************************************)
(* The inductive invariant of Monitoring, which ControlPagesProofs proves. *)
(***************************************************************************)
EXTENDS Monitoring

Unasked == {"idle", "loading", "loaded", "reloaded"}
Asked == {"waiting", "reloading", "reading", "answered"}

\* On its way to a log, after the snapshot.
ForLog == {"reloading", "reloaded", "reading"}

Looked(r) == probe[r].stage = "looked"

\* Before its profile is loaded a request has none, and it has asked no session.
RequestOK(r) ==
    /\ pc[r] # "idle" => active \in during[r]
    /\ pc[r] \in {"idle", "loading"} => profile[r] = Nothing
    /\ pc[r] \notin {"idle", "loading"} => profile[r] \in Machines /\ profile[r] \in during[r]
    /\ pc[r] \in Unasked => using[r] = Nothing
    \* A request that has asked uses a session of the profile it loaded last.
    /\ pc[r] \in Asked => using[r] \in Sessions /\ session[using[r]].machine = profile[r]
    /\ pc[r] = "waiting" => awaits[r] \in Requests /\ session[using[r]].flight = awaits[r]
    /\ pc[r] # "waiting" => awaits[r] = Nothing
    /\ response[r] # Nothing => pc[r] = "answered"
    /\ response[r] # Nothing => response[r] <= version[profile[r]]

\* A probe belongs to a request that waits for it or reads a log by it.
ProbeOK(r) ==
    /\ probe[r].stage # "none" => awaits[r] = r \/ pc[r] = "reading"
    /\ Looked(r) => probe[r].saw \in Versions /\ probe[r].saw <= version[profile[r]]

\* A snapshot is of the session's machine, and a probe in flight that has
\* looked will not replace it by an older one.
SnapshotOK(s) ==
    /\ session[s].fresh => session[s].snapshot # Nothing
    /\ session[s].snapshot # Nothing =>
         /\ session[s].machine \in Machines
         /\ session[s].snapshot <= version[session[s].machine]
         /\ session[s].flight # Nothing /\ Looked(session[s].flight) =>
              probe[session[s].flight].saw >= session[s].snapshot

\* Nothing that may still answer r is older than r's floor: for a snapshot any
\* fresh one of the machine and any probe there, for a log the request's own.
FloorOK(r) ==
    floor[r] # Nothing =>
        /\ pc[r] \notin {"idle", "loading", "reloading"}
        /\ floor[r] <= version[profile[r]]
        /\ resource = "status" =>
             /\ \A s \in Sessions :
                  session[s].fresh /\ session[s].machine = profile[r] =>
                      session[s].snapshot >= floor[r]
             /\ \A q \in Requests :
                  Looked(q) /\ profile[q] = profile[r] => probe[q].saw >= floor[r]
        /\ resource = "logs" =>
             /\ pc[r] \notin {"loaded", "waiting"}
             /\ Looked(r) => probe[r].saw >= floor[r]
        /\ response[r] # Nothing => response[r] >= floor[r]

\* What is shown came from the session it names; on a status page that session
\* has kept it or something newer.
ShownOK ==
    ~shown.stale =>
        /\ shown.session \in Sessions /\ shown.machine \in Machines /\ shown.version \in Versions
        /\ session[shown.session].machine = shown.machine
        /\ shown.version <= version[shown.machine]
        /\ resource = "status" =>
             /\ session[shown.session].snapshot # Nothing
             /\ session[shown.session].snapshot >= shown.version

\* The request that may show its response has nothing older than what is shown
\* of its session, and on a status page the session has kept its response.
ResponseOK(r) ==
    /\ resource = "status" => pc[r] \notin ForLog
    /\ resource = "status" /\ response[r] # Nothing =>
         /\ session[using[r]].snapshot # Nothing
         /\ response[r] <= session[using[r]].snapshot
    /\ latest = r /\ ~shown.stale /\ using[r] = shown.session =>
         /\ pc[r] = "answered" /\ response[r] # Nothing => response[r] >= shown.version
         /\ pc[r] = "reading" /\ Looked(r) => probe[r].saw >= shown.version

IInv ==
    /\ TypeOK
    /\ remembered.stale
    /\ \A m \in Machines : version[m] <= changes
    /\ \A r \in Requests : RequestOK(r) /\ ProbeOK(r) /\ FloorOK(r) /\ ResponseOK(r)
    /\ \A s \in Sessions : SnapshotOK(s)
    /\ ShownOK
=============================================================================
