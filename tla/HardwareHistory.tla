--------------------------- MODULE HardwareHistory ---------------------------
(***************************************************************************)
(* The hardware page's data (hardware-collector.mjs) and their history on  *)
(* this computer (hardware-history.mjs): a request takes the session's     *)
(* snapshot, from its cache or by a probe that requests share, and adds it *)
(* to the history before it is answered.  Additions of one core wait for   *)
(* one another; those of a core that was replaced go on beside them.       *)
(*                                                                         *)
(* A snapshot bears the time of the machine it is of, and clocks differ.   *)
(* Every snapshot that reaches the history is a fresh one: the state and   *)
(* the numbers of a record are left out, and so is the limit in bytes.     *)
(***************************************************************************)
EXTENDS Integers, Sequences, FiniteSets, SequencesExt

CONSTANTS
    Profiles,     \* verified connection profiles, each for a machine
    Requests,     \* requests of the hardware page
    None,
    TTL,          \* 3 s
    MinInterval,  \* minCaptureIntervalMs, 10 s
    Retention,    \* retentionMs, 7 days
    MaxRecords,   \* 60 480
    MaxSkew,      \* bound: how far the clock of a machine is ahead
    MaxTime,      \* bound: seconds that pass
    MaxEvents,    \* bound: profile switches and restarts of the core
    MaxFailures   \* bound: probes and file operations that fail

ASSUME HardwareRequests == IsFiniteSet(Requests)

ASSUME HardwareBounds ==
    /\ {TTL, MinInterval, Retention, MaxRecords} \subseteq Nat \ {0}
    /\ {MaxSkew, MaxTime, MaxEvents, MaxFailures} \subseteq Nat

VARIABLES
    now,      \* the clock of this computer
    ahead,    \* how far the clock of a machine is ahead of it
    active,   \* activeProfileId
    core,     \* the core that answers new requests
    session,  \* per core: its session, with the cache
    place,    \* where each request stands
    using,    \* per request: core, session and, for a probe, when it started
    sample,   \* per request: its snapshot, or None
    records,  \* the history file
    loaded,   \* per request: what its addition has read
    due,      \* per core: the requests whose addition is due
    events, failures

worldVars == <<active, core, events>>
requestVars == <<place, using, sample>>
historyVars == <<records, loaded, due>>
hardwareVars == <<now, ahead, worldVars, session, requestVars, historyVars, failures>>

Cores == 0..MaxEvents
Times == 0..(MaxTime + MaxSkew)
Samples == [at : Times, of : Profiles]
Sessions == [no : Nat, profile : Profiles \cup {None}, cached : Samples \cup {None}, until : Nat]
Unbound == [core |-> 0, no |-> 0, profile |-> None, since |-> 0]
NoSession == [no |-> 0, profile |-> None, cached |-> None, until |-> 0]
Places == {"idle", "probing", "queued", "saving", "answered", "unavailable"}

HardwareInit ==
    /\ now = 0 /\ ahead \in [Profiles -> 0..MaxSkew]
    /\ active \in Profiles /\ core = 0 /\ events = 0 /\ failures = 0
    /\ session = [c \in Cores |-> NoSession]
    /\ place = [r \in Requests |-> "idle"]
    /\ using = [r \in Requests |-> Unbound]
    /\ sample = [r \in Requests |-> None]
    /\ records = <<>>
    /\ loaded = [r \in Requests |-> <<>>]
    /\ due = [c \in Cores |-> <<>>]

-----------------------------------------------------------------------------
(* The snapshot. *)

\* getSession: the session that is kept, or a new one for another profile.
SessionNow ==
    IF session[core].profile = active THEN session[core]
    ELSE [NoSession EXCEPT !.no = session[core].no + 1, !.profile = active]

\* The requests that wait for the probe of session n of core c (inFlight).
Awaiting(c, n) == {r \in Requests : place[r] = "probing" /\ using[r].core = c /\ using[r].no = n}

\* A request takes the cached snapshot, joins the probe in flight or starts one.
Ask(r) ==
    /\ place[r] = "idle"
    /\ LET s == SessionNow
           others == Awaiting(core, s.no)
           since == IF others = {} THEN now ELSE using[CHOOSE q \in others : TRUE].since
       IN  /\ session' = [session EXCEPT ![core] = s]
           /\ using' = [using EXCEPT ![r] = [core |-> core, no |-> s.no, profile |-> s.profile,
                                             since |-> since]]
           /\ IF s.cached # None /\ now < s.until
              THEN /\ sample' = [sample EXCEPT ![r] = s.cached]
                   /\ place' = [place EXCEPT ![r] = "queued"]
                   /\ due' = [due EXCEPT ![core] = Append(@, r)]
              ELSE /\ place' = [place EXCEPT ![r] = "probing"]
                   /\ UNCHANGED <<sample, due>>
    /\ UNCHANGED <<now, ahead, worldVars, records, loaded, failures>>

\* The probe that r waits for ends: all that wait go on, and a session that is
\* still kept caches the snapshot.
ProbeEnds(r) ==
    /\ place[r] = "probing"
    /\ LET c == using[r].core
           n == using[r].no
           p == using[r].profile
       IN  \E t \in using[r].since..now :
             LET taken == [at |-> t + ahead[p], of |-> p] IN
             /\ session' = IF session[c].no = n
                           THEN [session EXCEPT ![c].cached = taken, ![c].until = now + TTL]
                           ELSE session
             /\ sample' = [q \in Requests |-> IF q \in Awaiting(c, n) THEN taken ELSE sample[q]]
             /\ place' = [q \in Requests |-> IF q \in Awaiting(c, n) THEN "queued" ELSE place[q]]
             /\ due' = [due EXCEPT ![c] = @ \o SetToSeq(Awaiting(c, n))]
    /\ UNCHANGED <<now, ahead, worldVars, using, records, loaded, failures>>

Failure == failures < MaxFailures /\ failures' = failures + 1

\* It fails: all that wait are answered that the data are unavailable.
ProbeFails(r) ==
    /\ place[r] = "probing" /\ Failure
    /\ LET waiting == Awaiting(using[r].core, using[r].no)
       IN  /\ place' = [q \in Requests |-> IF q \in waiting THEN "unavailable" ELSE place[q]]
           /\ using' = [q \in Requests |-> IF q \in waiting THEN Unbound ELSE using[q]]
    /\ UNCHANGED <<now, ahead, worldVars, session, sample, historyVars>>

-----------------------------------------------------------------------------
(* The history. *)

\* The places of a list whose records are recent.
Recent(list) == {i \in DOMAIN list : list[i].at >= now - Retention}

\* The order of their times; sorting keeps equal ones as they were.
Before(list, i, j) ==
    \/ list[i].at < list[j].at
    \/ list[i].at = list[j].at /\ i < j

\* Recent records with fewer than MaxRecords younger ones.
Kept(list) ==
    {i \in Recent(list) : Cardinality({j \in Recent(list) : Before(list, i, j)}) < MaxRecords}

\* compactForStore: recent records in the order of their times, the last of them.
Compact(list) ==
    LET n == Cardinality(Kept(list))
        order == CHOOSE f \in [1..n -> Kept(list)] :
                     \A i, j \in 1..n : i < j => Before(list, f[i], f[j])
    IN  [i \in 1..n |-> list[order[i]]]

\* Slip: additions do not wait for one another.
AnyonesTurn(r) == place[r] = "queued"

\* mutate: the addition of r has reached the head of its core's queue.
ItsTurn(r) == place[r] = "queued" /\ Head(due[using[r].core]) = r

\* The request is answered: what it used no longer matters.
Answer(r) ==
    /\ place' = [place EXCEPT ![r] = "answered"]
    /\ using' = [using EXCEPT ![r] = Unbound]
    /\ sample' = [sample EXCEPT ![r] = None]
    /\ loaded' = [loaded EXCEPT ![r] = <<>>]

\* The next addition may begin, too: the one that ends was the head of its queue.
Finish(r) ==
    /\ Answer(r)
    /\ due' = [due EXCEPT ![using[r].core] = Tail(@)]

\* The last record is hardly older than the snapshot, or younger.
Recently(r, list) == list # <<>> /\ sample[r].at - Last(list).at < MinInterval

\* capture reads the file, and leaves it if the last record will do.
Load(r) ==
    /\ ItsTurn(r)
    /\ IF Recently(r, Compact(records))
       THEN Finish(r)
       ELSE /\ loaded' = [loaded EXCEPT ![r] = Compact(records)]
            /\ place' = [place EXCEPT ![r] = "saving"]
            /\ UNCHANGED <<due, using, sample>>
    /\ UNCHANGED <<now, ahead, worldVars, session, records, failures>>

\* atomicWrite
Save(r) ==
    /\ place[r] = "saving"
    /\ records' = Compact(Append(loaded[r], sample[r]))
    /\ Finish(r)
    /\ UNCHANGED <<now, ahead, worldVars, session, failures>>

\* Slip: nothing follows an addition that has failed.
StopAdding(r) == Answer(r) /\ UNCHANGED due

\* The queue goes on after an addition that has failed.
GoOnAdding(r) == Finish(r)

\* The file cannot be read or written: the request is answered all the same.
CaptureFails(r) ==
    /\ ItsTurn(r) \/ place[r] = "saving"
    /\ Failure
    /\ GoOnAdding(r)
    /\ UNCHANGED <<now, ahead, worldVars, session, records>>

-----------------------------------------------------------------------------
(* Time, the profile and the core. *)

Tick ==
    /\ now < MaxTime
    /\ now' = now + 1
    /\ UNCHANGED <<ahead, worldVars, session, requestVars, historyVars, failures>>

Switch(p) ==
    /\ p # active /\ events < MaxEvents
    /\ active' = p /\ events' = events + 1
    /\ UNCHANGED <<now, ahead, core, session, requestVars, historyVars, failures>>

\* The old core's requests go on.
Restart ==
    /\ events < MaxEvents
    /\ core' = core + 1 /\ events' = events + 1
    /\ UNCHANGED <<now, ahead, active, session, requestVars, historyVars, failures>>

GoesOn(r) == ProbeEnds(r) \/ Load(r) \/ Save(r)
RequestStep(r) == Ask(r) \/ ProbeFails(r) \/ CaptureFails(r) \/ GoesOn(r)

HardwareNext ==
    \/ \E r \in Requests : RequestStep(r)
    \/ Tick
    \/ \E p \in Profiles : Switch(p)
    \/ Restart

HardwareSpec == HardwareInit /\ [][HardwareNext]_hardwareVars

\* Probes end, by their time limit if need be, and so do file operations.
HardwareFairness == \A r \in Requests : WF_hardwareVars(GoesOn(r))

FairHardware == HardwareSpec /\ HardwareFairness

-----------------------------------------------------------------------------
(* Properties. *)

HardwareTypeOK ==
    /\ now \in 0..MaxTime /\ ahead \in [Profiles -> 0..MaxSkew]
    /\ active \in Profiles /\ core \in Cores
    /\ session \in [Cores -> Sessions]
    /\ place \in [Requests -> Places]
    /\ using \in [Requests -> [core : Cores, no : Nat, profile : Profiles \cup {None}, since : Nat]]
    /\ sample \in [Requests -> Samples \cup {None}]
    /\ records \in Seq(Samples) /\ loaded \in [Requests -> Seq(Samples)]
    /\ due \in [Cores -> Seq(Requests)]
    /\ events \in 0..MaxEvents /\ failures \in 0..MaxFailures

\* The records are in order, at least an interval apart and not too many.
InOrder ==
    /\ Len(records) <= MaxRecords
    /\ \A i \in 1..Len(records) - 1 : records[i + 1].at - records[i].at >= MinInterval

\* A record that goes was too old, or gave way to newer ones up to the limit.
Outdated(x) ==
    \/ x.at < now - Retention
    \/ Len(records') = MaxRecords /\ \A i \in 1..Len(records') : records'[i].at > x.at

\* The history stays in order and spaced although requests share snapshots, two
\* cores add to one file and the machines' clocks differ; and while there is one
\* core no addition loses what another has written (hardware-history.mjs mutate,
\* capture, compactForStore).
HistoryKept ==
    [][/\ InOrder'
       /\ core = 0 => \A x \in ToSet(records) \ ToSet(records') : Outdated(x)]_hardwareVars

\* "Monitoring data remains available if local history compaction fails"
\* (application-core.mjs:680): a request that has its snapshot is answered with
\* it, whichever additions before it have failed.
DataRemainAvailable ==
    \A r \in Requests : place[r] = "queued" ~> place[r] = "answered"

=============================================================================
