----------------------------- MODULE Monitoring -----------------------------
(***************************************************************************)
(* How a page comes by what it shows of the DGX: the polling hook          *)
(* (use-api-resource.ts), the client's memory of the last good response    *)
(* (api-client.ts read), the session of the active profile                 *)
(* (profile-session.mjs), its snapshot cache and the probe over ssh        *)
(* (dgx-collector.mjs; hardware-collector.mjs works alike).                *)
(*                                                                         *)
(* A request is a slot: a call of the hook's refresh, its HTTP request and *)
(* the probe it may start.  A probe shared by several requests bears the   *)
(* slot of the request that started it.  The state of a machine is a       *)
(* version number, and a snapshot the version that the probe saw.          *)
(***************************************************************************)
EXTENDS Naturals, FiniteSets

CONSTANTS
    Machines,     \* machines of verified profiles
    Requests,     \* slots: requests under way at the same time
    Nothing,      \* null
    MaxChanges,   \* bound: changes of a machine's state
    MaxSwitches,  \* bound: switches of the active profile
    MaxFailures,  \* bound: probes that fail
    MaxClicks     \* bound: refreshes by hand

ASSUME MonitoringBounds == {MaxChanges, MaxSwitches, MaxFailures, MaxClicks} \subseteq Nat
ASSUME MonitoringRequests == IsFiniteSet(Requests)
ASSUME MonitoringNone == Nothing \notin Machines \cup Requests \cup Nat

\* Every request may use a session of its own, one is kept by the manager, and
\* one may be known by what the page shows only.
Sessions == 1..(Cardinality(Requests) + 2)
Versions == 0..MaxChanges

VARIABLES
    resource,   \* "status": a snapshot is the response; "logs": after it the session is
                \* asked for again, and its log read
    active,     \* machine of the active profile
    version,    \* per machine: the version of its state
    session,    \* per session: machine, snapshot kept, is it fresh, probe in flight
    kept,       \* the manager's session (cachedSession, cachedKey)
    pc,         \* per request: where it stands
    profile,    \* per request: machine of the profile it loaded last
    using,      \* per request: its session
    awaits,     \* per request: the request whose probe it waits for
    probe,      \* per request: stage of the probe it started, and what it saw
    response,   \* per request: version of its response, or Nothing before it and
                \* after an error
    latest,     \* the request that the hook's sequence number belongs to
    remembered, \* the client's last good response
    shown,      \* what the page shows
    during,     \* history, per request: machines that were active during it
    floor,      \* history, per request: version it must not fall behind, or Nothing
    changes, switches, failures, clicks

worldVars == <<resource, active, version, changes, switches>>
serverVars == <<session, kept>>
requestVars == <<profile, using, awaits, response>>
pageVars == <<latest, remembered, shown>>
historyVars == <<during, floor>>
monitoringVars ==
    <<worldVars, serverVars, pc, requestVars, probe, pageVars, historyVars,
      failures, clicks>>

Places ==
    {"idle", "loading", "loaded", "waiting", "reloading", "reloaded", "reading", "answered"}
Stages == {"none", "started", "looked"}

NoProbe == [stage |-> "none", saw |-> Nothing]
Unused == [machine |-> Nothing, snapshot |-> Nothing, fresh |-> FALSE, flight |-> Nothing]
Unavailable == [machine |-> Nothing, version |-> Nothing, session |-> Nothing, stale |-> TRUE]

Views == [machine : Machines \cup {Nothing}, version : Versions \cup {Nothing},
          session : Sessions \cup {Nothing}, stale : BOOLEAN]

\* The hook starts without data; nothing is cached.
MonitoringInit ==
    /\ resource \in {"status", "logs"}
    /\ active \in Machines
    /\ version = [m \in Machines |-> 0]
    /\ session = [s \in Sessions |-> Unused]
    /\ kept = Nothing
    /\ pc = [r \in Requests |-> "idle"]
    /\ profile = [r \in Requests |-> Nothing]
    /\ using = [r \in Requests |-> Nothing]
    /\ awaits = [r \in Requests |-> Nothing]
    /\ probe = [r \in Requests |-> NoProbe]
    /\ response = [r \in Requests |-> Nothing]
    /\ latest = Nothing /\ remembered = Unavailable /\ shown = Unavailable
    /\ during = [r \in Requests |-> {}]
    /\ floor = [r \in Requests |-> Nothing]
    /\ changes = 0 /\ switches = 0 /\ failures = 0 /\ clicks = 0

-----------------------------------------------------------------------------
(* The page asks. *)

\* refresh: takes the next sequence number and calls load.
Refresh(r) ==
    /\ pc[r] = "idle"
    /\ pc' = [pc EXCEPT ![r] = "loading"]
    /\ latest' = r
    /\ during' = [during EXCEPT ![r] = {active}]
    /\ floor' = [floor EXCEPT ![r] = Nothing]
    /\ UNCHANGED <<worldVars, serverVars, requestVars, probe, remembered, shown, failures>>

\* Seconds pass only while nothing but probes is under way.
SecondsPass == \A r \in Requests : pc[r] \in {"idle", "waiting", "reading"}

\* The timer of five seconds.
Tick(r) ==
    /\ SecondsPass
    /\ Refresh(r)
    /\ UNCHANGED clicks

\* The button may be used at any time.
Click(r) ==
    /\ clicks < MaxClicks
    /\ clicks' = clicks + 1
    /\ Refresh(r)

-----------------------------------------------------------------------------
(* The session of the active profile and its cache. *)

\* Something seen on m before now can still answer.
AnswersEarly(m) ==
    \/ \E s \in Sessions : session[s].machine = m /\ session[s].fresh
    \/ \E r \in Requests : profile[r] = m /\ probe[r].stage = "looked"

\* Nothing seen before now can be r's response.  A log is read by a probe of its
\* own, on the machine of the second profile.
SeesOnlyNew(r) ==
    IF resource = "status" THEN ~AnswersEarly(active) ELSE pc[r] = "reloading"

\* activeProfile: the profile file is read, for a log a second time after the
\* snapshot.
LoadProfile(r) ==
    /\ pc[r] \in {"loading", "reloading"}
    /\ pc' = [pc EXCEPT ![r] = IF @ = "loading" THEN "loaded" ELSE "reloaded"]
    /\ profile' = [profile EXCEPT ![r] = active]
    /\ using' = [using EXCEPT ![r] = Nothing]
    /\ floor' = [floor EXCEPT ![r] = IF SeesOnlyNew(r) THEN version[active] ELSE Nothing]
    /\ UNCHANGED <<worldVars, serverVars, awaits, response, probe, pageVars, during,
                   failures, clicks>>

\* Slip: any session will do.
ReusableForAny(r) == kept # Nothing

\* The manager returns its session when the key is that of the profile.
Reusable(r) == kept # Nothing /\ session[kept].machine = profile[r]

\* A session nobody holds: the place of a new one.
Held(s) ==
    \/ s \in {kept, shown.session}
    \/ \E q \in Requests : pc[q] # "idle" /\ using[q] = s
NewSession == CHOOSE s \in Sessions : ~Held(s)

\* Sessions nobody holds after the step are gone.
Collected(sessions) == [s \in Sessions |-> IF Held(s)' THEN sessions[s] ELSE Unused]

\* getSession: the session of r's profile, and the sessions with it.
SessionOf(r) == IF Reusable(r) THEN kept ELSE NewSession
WithSessionOf(r) ==
    IF Reusable(r) THEN session
    ELSE [session EXCEPT ![NewSession] = [Unused EXCEPT !.machine = profile[r]]]

\* A request that has its snapshot: the response is ready, or the log is read.
AfterSnapshot == IF resource = "status" THEN "answered" ELSE "reloading"

\* The cache answers.
TakeSnapshot(r, s, sessions) ==
    /\ pc' = [pc EXCEPT ![r] = AfterSnapshot]
    /\ session' = Collected(sessions)
    /\ response' = IF resource = "status" THEN [response EXCEPT ![r] = sessions[s].snapshot]
                   ELSE response
    /\ UNCHANGED <<awaits, probe>>

\* The request starts a probe.
StartFlight(r, s, sessions) ==
    /\ pc' = [pc EXCEPT ![r] = "waiting"]
    /\ session' = Collected([sessions EXCEPT ![s].flight = r])
    /\ awaits' = [awaits EXCEPT ![r] = r]
    /\ probe' = [probe EXCEPT ![r] = [NoProbe EXCEPT !.stage = "started"]]
    /\ UNCHANGED response

\* The request waits for the probe in flight.
JoinFlight(r, s, sessions) ==
    /\ pc' = [pc EXCEPT ![r] = "waiting"]
    /\ session' = Collected(sessions)
    /\ awaits' = [awaits EXCEPT ![r] = sessions[s].flight]
    /\ UNCHANGED <<response, probe>>

\* createSnapshotCache's reader.
ReadCache(r, s, sessions) ==
    IF sessions[s].fresh THEN TakeSnapshot(r, s, sessions)
    ELSE IF sessions[s].flight # Nothing THEN JoinFlight(r, s, sessions)
    ELSE StartFlight(r, s, sessions)

\* getSession goes on with the profile it loaded and keeps the session it made.
Ask(r) ==
    /\ pc[r] = "loaded"
    /\ using' = [using EXCEPT ![r] = SessionOf(r)]
    /\ kept' = SessionOf(r)
    /\ UNCHANGED <<worldVars, profile, pageVars, historyVars, failures, clicks>>
    /\ ReadCache(r, SessionOf(r), WithSessionOf(r))

\* logProvider: getSession again, with the profile loaded again; a probe for each
\* request.
AskLog(r) ==
    /\ pc[r] = "reloaded"
    /\ pc' = [pc EXCEPT ![r] = "reading"]
    /\ using' = [using EXCEPT ![r] = SessionOf(r)]
    /\ kept' = SessionOf(r)
    /\ probe' = [probe EXCEPT ![r] = [NoProbe EXCEPT !.stage = "started"]]
    /\ UNCHANGED <<worldVars, profile, awaits, response, pageVars, historyVars, failures, clicks>>
    /\ session' = Collected(WithSessionOf(r))

\* ttlMs after the snapshot.
Expire(s) ==
    /\ SecondsPass
    /\ session[s].fresh
    /\ session' = [session EXCEPT ![s].fresh = FALSE]
    /\ UNCHANGED <<worldVars, kept, pc, requestVars, probe, pageVars, historyVars,
                   failures, clicks>>

-----------------------------------------------------------------------------
(* Probes. *)

\* The script on the machine reads its state.
Look(r) ==
    /\ probe[r].stage = "started"
    /\ probe' = [probe EXCEPT ![r] = [stage |-> "looked", saw |-> version[profile[r]]]]
    /\ UNCHANGED <<worldVars, serverVars, pc, requestVars, pageVars, historyVars,
                   failures, clicks>>

\* A probe ends: with what it saw, or with an error.
Outcome(r, result) ==
    \/ probe[r].stage = "looked" /\ result = probe[r].saw /\ UNCHANGED failures
    \/ /\ probe[r].stage \in {"started", "looked"} /\ result = Nothing
       /\ failures < MaxFailures /\ failures' = failures + 1


\* A snapshot is kept, and no flight is left either way.
Landed(s, result) ==
    IF result = Nothing THEN [session[s] EXCEPT !.flight = Nothing]
    ELSE [session[s] EXCEPT !.snapshot = result, !.fresh = TRUE, !.flight = Nothing]

Waiting(r) == {q \in Requests : pc[q] = "waiting" /\ awaits[q] = r}

\* The probe started by r answers all that wait for it.  After an error the
\* route answers 503 at once.
Land(r) ==
    /\ awaits[r] = r /\ pc[r] = "waiting"
    /\ \E result \in Versions \cup {Nothing} :
        /\ Outcome(r, result)
        /\ session' = [session EXCEPT ![using[r]] = Landed(using[r], result)]
        /\ pc' = [q \in Requests |->
                    IF q \notin Waiting(r) THEN pc[q]
                    ELSE IF result = Nothing THEN "answered" ELSE AfterSnapshot]
        /\ response' = [q \in Requests |->
                          IF q \in Waiting(r) /\ resource = "status" THEN result ELSE response[q]]
        /\ probe' = [probe EXCEPT ![r] = NoProbe]
        /\ awaits' = [q \in Requests |-> IF q \in Waiting(r) THEN Nothing ELSE awaits[q]]
    /\ UNCHANGED <<worldVars, kept, profile, using, pageVars, historyVars, clicks>>

\* The log's probe ends.
ReadLog(r) ==
    /\ pc[r] = "reading"
    /\ \E result \in Versions \cup {Nothing} :
        Outcome(r, result) /\ response' = [response EXCEPT ![r] = result]
    /\ probe' = [probe EXCEPT ![r] = NoProbe]
    /\ pc' = [pc EXCEPT ![r] = "answered"]
    /\ UNCHANGED <<worldVars, serverVars, profile, using, awaits, pageVars, historyVars, clicks>>

-----------------------------------------------------------------------------
(* The page gets its response. *)

Response(r) ==
    [machine |-> profile[r], version |-> response[r], session |-> using[r], stale |-> FALSE]

\* read: a response is remembered; after an error the last one is returned as
\* stale, or an explicitly unavailable value.
Result(r) ==
    IF response[r] = Nothing THEN remembered ELSE Response(r)

\* Slip: every response is shown.
MayShowAlways(r) == TRUE

\* Only the request that started last may change what is shown.
MayShow(r) == r = latest

Deliver(r) ==
    /\ pc[r] = "answered"
    /\ remembered' = IF response[r] = Nothing THEN remembered
                     ELSE [Response(r) EXCEPT !.session = Nothing, !.stale = TRUE]
    /\ shown' = IF MayShow(r) THEN Result(r) ELSE shown
    /\ pc' = [pc EXCEPT ![r] = "idle"]
    /\ profile' = [profile EXCEPT ![r] = Nothing]
    /\ using' = [using EXCEPT ![r] = Nothing]
    /\ response' = [response EXCEPT ![r] = Nothing]
    /\ during' = [during EXCEPT ![r] = {}]
    /\ floor' = [floor EXCEPT ![r] = Nothing]
    /\ UNCHANGED <<worldVars, kept, awaits, probe, latest, failures, clicks>>
    /\ session' = Collected(session)

-----------------------------------------------------------------------------
(* What happens around it. *)

\* The state of a machine changes.
Change(m) ==
    /\ changes < MaxChanges
    /\ changes' = changes + 1
    /\ version' = [version EXCEPT ![m] = @ + 1]
    /\ UNCHANGED <<resource, active, switches, serverVars, pc, requestVars, probe, pageVars,
                   historyVars, failures, clicks>>

\* Another verified profile is activated.
Switch(m) ==
    /\ switches < MaxSwitches /\ m # active
    /\ switches' = switches + 1
    /\ active' = m
    /\ during' = [r \in Requests |-> IF pc[r] = "idle" THEN {} ELSE during[r] \cup {m}]
    /\ UNCHANGED <<resource, version, changes, serverVars, pc, requestVars, probe, pageVars,
                   floor, failures, clicks>>

RequestStep(r) ==
    LoadProfile(r) \/ Ask(r) \/ Look(r) \/ Land(r) \/ AskLog(r) \/ ReadLog(r) \/ Deliver(r)

MonitoringNext ==
    \/ \E r \in Requests : Tick(r) \/ Click(r) \/ RequestStep(r)
    \/ \E s \in Sessions : Expire(s)
    \/ \E m \in Machines : Change(m) \/ Switch(m)

MonitoringSpec == MonitoringInit /\ [][MonitoringNext]_monitoringVars

\* The timer ticks while the page is open; a file read, a response and a probe
\* end, the last at its timeout at the latest.
MonitoringFairness ==
    /\ WF_monitoringVars(\E r \in Requests : Tick(r))
    /\ \A r \in Requests : WF_monitoringVars(RequestStep(r))

FairMonitoring == MonitoringSpec /\ MonitoringFairness

-----------------------------------------------------------------------------
(* Properties. *)

\* A flight is a probe somebody waits for, and it left from this session.
FlightOK(s) ==
    session[s].flight # Nothing =>
        /\ pc[session[s].flight] = "waiting"
        /\ using[session[s].flight] = s
        /\ awaits[session[s].flight] = session[s].flight

SessionRecords ==
    [machine : Machines \cup {Nothing}, snapshot : Versions \cup {Nothing},
     fresh : BOOLEAN, flight : Requests \cup {Nothing}]
Probes == [stage : Stages, saw : Versions \cup {Nothing}]

\* Types; the probe in flight of a session is under way and was started by a
\* request of that session (createSnapshotCache's inFlight).
TypeOK ==
    /\ resource \in {"status", "logs"} /\ active \in Machines
    /\ version \in [Machines -> Versions]
    /\ session \in [Sessions -> SessionRecords]
    /\ \A s \in Sessions : FlightOK(s)
    /\ kept \in Sessions \cup {Nothing}
    /\ pc \in [Requests -> Places]
    /\ profile \in [Requests -> Machines \cup {Nothing}]
    /\ using \in [Requests -> Sessions \cup {Nothing}]
    /\ awaits \in [Requests -> Requests \cup {Nothing}]
    /\ probe \in [Requests -> Probes]
    /\ response \in [Requests -> Versions \cup {Nothing}]
    /\ latest \in Requests \cup {Nothing}
    /\ remembered \in Views /\ shown \in Views
    /\ during \in [Requests -> SUBSET Machines]
    /\ floor \in [Requests -> Versions \cup {Nothing}]
    /\ changes \in 0..MaxChanges /\ switches \in 0..MaxSwitches
    /\ failures \in 0..MaxFailures /\ clicks \in 0..MaxClicks

\* A response was read on a machine that was active at some time during the
\* request, although sessions and probes are shared, a log asks for the session
\* twice, and the profile may be switched at any time (profile-session.mjs
\* getSession, server.mjs logProvider); and it is no older than the request,
\* unless a snapshot was fresh or a probe had looked already when the request
\* loaded its profile (dgx-collector.mjs createSnapshotCache).  A log is never
\* older than the second load of the profile.
ResponsesFitTheRequest ==
    \A r \in Requests :
        pc[r] = "answered" /\ response[r] # Nothing =>
            /\ session[using[r]].machine \in during[r]
            /\ floor[r] # Nothing => response[r] >= floor[r]

\* What a page shows of one session never becomes older from one good response
\* to the next, in whatever order the responses of overlapping requests arrive
\* (use-api-resource.ts refresh).
ShownOnlyImproves ==
    [][~shown.stale /\ ~shown'.stale /\ shown'.session = shown.session
         => shown'.version >= shown.version]_monitoringVars


\* "so an older slow response cannot overwrite newer verified data"
\* (use-api-resource.ts:20): what is shown of a machine never becomes older.
NoOlderDataShown ==
    [][shown.machine # Nothing /\ shown'.machine = shown.machine
         => shown'.version >= shown.version]_monitoringVars

=============================================================================
