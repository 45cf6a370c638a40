---------------------------- MODULE DesktopStart ----------------------------
(***************************************************************************)
(* The desktop process from its start to its exit (desktop main.mjs).      *)
(*                                                                         *)
(* A start copies the files of older installations into the user's runtime *)
(* directory (runtime-paths.mjs), moves an operation ledger of an older    *)
(* build aside (operation-ledger-recovery.mjs) and creates the application *)
(* core.  While the process runs, every change of the preferences          *)
(* (preferences.mjs) that touches a session flag replaces the core by one  *)
(* with the new flags, and a failing replacement is undone.  The process   *)
(* may exit between any two steps; steps may fail.                         *)
(*                                                                         *)
(* One step is what the process does between two awaits.  A restart inside *)
(* the process finds both manifests and a ledger of its own format, so its *)
(* only step that can be told apart is the recovery of the ledger.         *)
(***************************************************************************)
EXTENDS Naturals, Sequences, FiniteSets

CONSTANTS
    RuntimeFiles,   \* LEGACY_FILES, in their order
    LedgerFile,     \* the one of them that holds the operation ledger
    ProfileFile,    \* connection-profiles.json, migrated by itself
    Installations,  \* the sets of files an older installation may have left
    Updates,        \* calls of desktop:preferences:update
    None,           \* null
    MaxExits,       \* bound: exits of the process, orderly or not
    MaxFaults       \* bound: failing disk operations

Files == {RuntimeFiles[i] : i \in 1 .. Len(RuntimeFiles)} \cup {ProfileFile}

ASSUME StartFiles ==
    /\ RuntimeFiles \in Seq(Files)
    /\ Installations \subseteq SUBSET Files
    /\ LedgerFile \in Files \ {ProfileFile}
    /\ \A i \in 1 .. Len(RuntimeFiles) : RuntimeFiles[i] # ProfileFile
ASSUME StartBounds == {MaxExits, MaxFaults} \subseteq Nat

\* The two migrations, each with a manifest that says it is over.
Batches == <<RuntimeFiles, <<ProfileFile>> >>

\* What an older build's ledger holds: entries this build reads, entries it
\* refuses but that are all over, or a lease or entry that is not.
LedgerKinds == {"compatible", "terminal", "open"}

\* A copy that an exit cut short is "truncated"; "own" is written by this build;
\* a "blocked" ledger is the one entry that a person would have to resolve.
Contents == {"absent", "truncated", "legacy", "own", "blocked"}

Keys == {"readOnly", "control", "background"}
Preferences == [Keys -> BOOLEAN]
Sessions == [readOnly : BOOLEAN, control : BOOLEAN]

VARIABLES
    source,       \* files of older installations
    ledgerKind,   \* what their ledger holds
    file,         \* per file of the runtime directory: its content
    manifest,     \* per batch: has its manifest been written?
    archived,     \* is an incompatible ledger kept beside?
    process,      \* "down", or the stage of the start, "ready" or "failed"
    place,        \* batch and file the start is at, and files it has created
    saved,        \* preferences.json
    current,      \* currentPreferences
    core,         \* sessions of the application core, or None
    pc,           \* per update: where its handler stands
    update,       \* per update: its patch, the preferences before, copy and flags
    interrupted,  \* history: the block was not written after the ledger moved
    overlapped,   \* history: two updates were under way at once
    exits, faults

dataVars == <<file, manifest, archived, interrupted>>
startVars == <<process, place>>
updateVars == <<pc, update, overlapped>>
prefVars == <<saved, current>>
worldVars == <<source, ledgerKind>>
vars == <<worldVars, dataVars, startVars, prefVars, core, updateVars, exits, faults>>

Migrating == {"checking", "copying"}
Recovering == {"recovering", "archiving", "blocking", "reopening"}
Starting == Migrating \cup Recovering
Processes == {"down", "ready", "failed"} \cup Starting

\* update ... its first restart ... the undo ... its second restart.
Restarting == {"importing", "opening"}
Undoing == {"undoing", "undone", "reimporting", "reopening"}
Busy == {"reading", "writing", "renamed"} \cup Restarting \cup Undoing
Places == {"idle", "done", "failed"} \cup Busy

\* The flags a core is created with.
SessionsOf(p) == [readOnly |-> p["readOnly"], control |-> p["readOnly"] /\ p["control"]]

\* The flags whose change makes a new core necessary.
SameSession(p, q) == p["readOnly"] = q["readOnly"] /\ p["control"] = q["control"]

Fault == faults < MaxFaults /\ faults' = faults + 1

FirstPlace == [batch |-> 1, index |-> 1, created |-> {}]
DefaultPreferences == [k \in Keys |-> FALSE]
NoUpdate == [key |-> "background", value |-> FALSE, previous |-> DefaultPreferences,
             copy |-> DefaultPreferences, sessions |-> SessionsOf(DefaultPreferences)]

-----------------------------------------------------------------------------

\* Any older installation, and an earlier run of this one that saved profiles.
Init ==
    /\ source \in Installations
    /\ ledgerKind \in LedgerKinds
    /\ file \in [Files -> {"absent", "own"}]
    /\ file[LedgerFile] = "absent"
    /\ manifest = [b \in 1 .. 2 |-> FALSE]
    /\ archived = FALSE
    /\ process = "down" /\ place = FirstPlace
    /\ saved = DefaultPreferences /\ current = DefaultPreferences
    /\ core = None
    /\ pc = [u \in Updates |-> "idle"]
    /\ update = [u \in Updates |-> NoUpdate]
    /\ interrupted = FALSE /\ overlapped = FALSE
    /\ exits = 0 /\ faults = 0

-----------------------------------------------------------------------------
(* A start of the process. *)

\* The preferences are loaded and the core's flags taken from them.
Boot ==
    /\ process = "down"
    /\ process' = "checking"
    /\ place' = FirstPlace
    /\ current' = saved
    /\ UNCHANGED <<worldVars, dataVars, saved, core, updateVars, exits, faults>>

\* What follows a batch: the next one, or the ledger.
NextBatch ==
    /\ process' = IF place.batch = Len(Batches) THEN "recovering" ELSE "checking"
    /\ place' = [batch |-> IF place.batch = Len(Batches) THEN place.batch ELSE place.batch + 1,
                 index |-> 1, created |-> {}]

CheckManifest ==
    /\ process = "checking"
    /\ IF manifest[place.batch]
       THEN NextBatch
       ELSE process' = "copying" /\ UNCHANGED place
    /\ UNCHANGED <<worldVars, dataVars, prefVars, core, updateVars, exits, faults>>

\* The file the start is at, if any is left in its batch.
AtFile(f) ==
    /\ process = "copying"
    /\ place.index <= Len(Batches[place.batch])
    /\ f = Batches[place.batch][place.index]

\* Slip: a file that is there already is replaced by the older one.
MissingOrOlder(f) == f \in source

\* A file is only copied where there is none; the copy is exclusive as well.
Missing(f) == file[f] = "absent" /\ f \in source

CopyFile(f) ==
    /\ AtFile(f)
    /\ IF Missing(f)
       THEN /\ file' = [file EXCEPT ![f] = "legacy"]
            /\ place' = [place EXCEPT !.index = @ + 1, !.created = @ \cup {f}]
       ELSE /\ place' = [place EXCEPT !.index = @ + 1]
            /\ UNCHANGED file
    /\ UNCHANGED <<worldVars, manifest, archived, interrupted, process, prefVars, core, updateVars,
                   exits, faults>>

WriteManifest ==
    /\ process = "copying"
    /\ place.index > Len(Batches[place.batch])
    /\ manifest' = [manifest EXCEPT ![place.batch] = TRUE]
    /\ NextBatch
    /\ UNCHANGED <<worldVars, file, archived, interrupted, prefVars, core, updateVars, exits, faults>>

\* Slip: the copies made so far are forgotten, and the batch taken for done.
KeepGoing ==
    /\ Fault
    /\ process = "copying"
    /\ place' = [place EXCEPT !.index = Len(Batches[place.batch]) + 1]
    /\ UNCHANGED <<worldVars, dataVars, process, prefVars, core, updateVars, exits>>

\* A copy or the manifest fails: what this batch has created is removed, unless
\* that fails too, and the start is given up.
MigrationFails ==
    /\ Fault
    /\ process \in Migrating
    /\ \E removed \in SUBSET place.created :
        /\ removed = place.created \/ faults' < MaxFaults
        /\ file' = [f \in Files |-> IF f \in removed THEN "absent" ELSE file[f]]
    /\ process' = "failed"
    /\ UNCHANGED <<worldVars, manifest, archived, interrupted, place, prefVars, core, updateVars, exits>>

\* An absent ledger reads as an empty one, and recovery writes what it read.
Readable ==
    \/ file[LedgerFile] \in {"absent", "own", "blocked"}
    \/ file[LedgerFile] = "legacy" /\ ledgerKind = "compatible"

\* The core is created and takes requests.
OpenCore ==
    /\ file' = [file EXCEPT ![LedgerFile] = IF @ = "blocked" THEN @ ELSE "own"]
    /\ core' = SessionsOf(current)
    /\ process' = "ready"

RecoverLedger ==
    /\ process \in {"recovering", "reopening"}
    /\ Readable
    /\ OpenCore
    /\ UNCHANGED <<worldVars, manifest, archived, interrupted, place, prefVars, updateVars, exits, faults>>

\* The ledger is refused as one of another format.  A truncated one is, too, when
\* the parser's message begins the way the check expects.
RefuseLedger ==
    /\ process = "recovering"
    /\ ~Readable
    /\ process' = "archiving"
    /\ UNCHANGED <<worldVars, dataVars, place, prefVars, core, updateVars, exits, faults>>

\* Any other error ends the start: a lock that is held, a truncated ledger whose
\* parser message is another one.
RecoveryFails ==
    /\ process \in Recovering
    /\ \/ Fault
       \/ process = "recovering" /\ file[LedgerFile] = "truncated" /\ UNCHANGED faults
    /\ process' = "failed"
    /\ interrupted' = (interrupted \/ process = "blocking")
    /\ UNCHANGED <<worldVars, file, manifest, archived, place, prefVars, core, updateVars, exits>>

\* Slip: a lease or an open entry is not looked for.
RequiresNoBlock == file[LedgerFile] = "truncated"

\* An unreadable ledger is taken for one with open work.
RequiresMigrationBlock == ledgerKind = "open" \/ file[LedgerFile] = "truncated"

Archive ==
    /\ process = "archiving"
    /\ process' = IF RequiresMigrationBlock THEN "blocking" ELSE "reopening"
    /\ file' = [file EXCEPT ![LedgerFile] = "absent"]
    /\ archived' = TRUE
    /\ UNCHANGED <<worldVars, manifest, interrupted, place, prefVars, core, updateVars, exits, faults>>

WriteBlock ==
    /\ process = "blocking"
    /\ file' = [file EXCEPT ![LedgerFile] = "blocked"]
    /\ process' = "reopening"
    /\ UNCHANGED <<worldVars, manifest, archived, interrupted, place, prefVars, core, updateVars,
                   exits, faults>>

\* What an exit leaves of a file that was being written.
Unfinished ==
    IF process = "copying" THEN {f \in Files : AtFile(f) /\ Missing(f)}
    ELSE IF process = "blocking" THEN {LedgerFile}
    ELSE {}

\* The person quits, the machine stops or the process is ended.
Exit ==
    /\ process # "down"
    /\ exits < MaxExits
    /\ exits' = exits + 1
    /\ process' = "down"
    /\ \E torn \in SUBSET Unfinished :
        file' = [f \in Files |-> IF f \in torn THEN "truncated" ELSE file[f]]
    /\ core' = None
    /\ pc' = [u \in Updates |-> IF pc[u] \in Busy THEN "failed" ELSE pc[u]]
    /\ interrupted' = (interrupted \/ process = "blocking")
    /\ UNCHANGED <<worldVars, manifest, archived, place, prefVars, update, overlapped, faults>>

\* The application writes its files while it runs.
Use(f) ==
    /\ core # None
    /\ f # LedgerFile /\ file[f] \in {"absent", "legacy"}
    /\ file' = [file EXCEPT ![f] = "own"]
    /\ UNCHANGED <<worldVars, manifest, archived, interrupted, startVars, prefVars, core, updateVars,
                   exits, faults>>

-----------------------------------------------------------------------------
(* Updates of the preferences. *)

Goes(u, from, to) == pc[u] = from /\ pc' = [pc EXCEPT ![u] = to]

\* The preferences in memory are remembered ...
BeginUpdate(u, key, value) ==
    /\ process = "ready"
    /\ Goes(u, "idle", "reading")
    /\ update' = [update EXCEPT ![u].previous = current, ![u].key = key, ![u].value = value]
    /\ overlapped' = (overlapped \/ \E v \in Updates \ {u} : pc[v] \in Busy)
    /\ UNCHANGED <<worldVars, dataVars, startVars, prefVars, core, exits, faults>>

\* ... and the file is read and patched.
Read(u) ==
    /\ Goes(u, "reading", "writing")
    /\ update' = [update EXCEPT ![u].copy = [saved EXCEPT ![update[u].key] = update[u].value]]
    /\ UNCHANGED <<worldVars, dataVars, startVars, prefVars, core, overlapped, exits, faults>>

Rename(u) ==
    /\ Goes(u, "writing", "renamed")
    /\ saved' = update[u].copy
    /\ UNCHANGED <<worldVars, dataVars, startVars, current, core, update, overlapped, exits, faults>>

UpdateFails(u) ==
    /\ Fault
    /\ Goes(u, "reading", "failed") \/ Goes(u, "writing", "failed")
    /\ UNCHANGED <<worldVars, dataVars, startVars, prefVars, core, update, overlapped, exits>>

\* The saved preferences are now the current ones.  When the session flags have
\* changed the core is dropped, and its successor's modules are imported.
Adopt(u) ==
    /\ current' = update[u].copy
    /\ IF SameSession(update[u].previous, update[u].copy)
       THEN Goes(u, "renamed", "done") /\ UNCHANGED core
       ELSE Goes(u, "renamed", "importing") /\ core' = None
    /\ UNCHANGED <<worldVars, dataVars, startVars, saved, update, overlapped, exits, faults>>

\* Slip: the flags are those of the preferences the update began with.
TakeOldFlags(u) ==
    /\ Goes(u, "importing", "opening") \/ Goes(u, "reimporting", "reopening")
    /\ update' = [update EXCEPT ![u].sessions = SessionsOf(update[u].previous)]
    /\ UNCHANGED <<worldVars, dataVars, startVars, prefVars, core, overlapped, exits, faults>>

\* The start reads the flags once, before its awaits.
TakeFlags(u) ==
    /\ Goes(u, "importing", "opening") \/ Goes(u, "reimporting", "reopening")
    /\ update' = [update EXCEPT ![u].sessions = SessionsOf(current)]
    /\ UNCHANGED <<worldVars, dataVars, startVars, prefVars, core, overlapped, exits, faults>>

\* Slip: a start whose flags are no longer the current ones is dropped.
ReopenIfCurrent(u) ==
    /\ Goes(u, "opening", "done") \/ Goes(u, "reopening", "failed")
    /\ core' = IF update[u].sessions = SessionsOf(current) THEN update[u].sessions ELSE core
    /\ UNCHANGED <<worldVars, dataVars, startVars, prefVars, update, overlapped, exits, faults>>

\* The ledger is recovered and the core put in place; an update whose first
\* restart has failed reports that error although its second has succeeded.
Reopen(u) ==
    /\ Goes(u, "opening", "done") \/ Goes(u, "reopening", "failed")
    /\ core' = update[u].sessions
    /\ UNCHANGED <<worldVars, dataVars, startVars, prefVars, update, overlapped, exits, faults>>

ReopenFails(u) ==
    /\ Fault
    /\ \/ Goes(u, "importing", "undoing") \/ Goes(u, "opening", "undoing")
       \/ Goes(u, "reimporting", "failed") \/ Goes(u, "reopening", "failed")
    /\ UNCHANGED <<worldVars, dataVars, startVars, prefVars, core, update, overlapped, exits>>

UndoRename(u) ==
    /\ Goes(u, "undoing", "undone")
    /\ saved' = update[u].previous
    /\ UNCHANGED <<worldVars, dataVars, startVars, current, core, update, overlapped, exits, faults>>

UndoFails(u) ==
    /\ Fault
    /\ Goes(u, "undoing", "failed")
    /\ UNCHANGED <<worldVars, dataVars, startVars, prefVars, core, update, overlapped, exits>>

UndoAdopt(u) ==
    /\ Goes(u, "undone", "reimporting")
    /\ current' = update[u].previous
    /\ core' = None
    /\ UNCHANGED <<worldVars, dataVars, startVars, saved, update, overlapped, exits, faults>>

-----------------------------------------------------------------------------

\* What a start does by itself, whether it succeeds or fails.
StartStep ==
    \/ CheckManifest \/ (\E f \in Files : CopyFile(f)) \/ WriteManifest \/ MigrationFails
    \/ RecoverLedger \/ RefuseLedger \/ RecoveryFails \/ Archive \/ WriteBlock

\* What an update does by itself.
UpdateStep(u) ==
    \/ Read(u) \/ Rename(u) \/ UpdateFails(u) \/ Adopt(u) \/ TakeFlags(u) \/ Reopen(u)
    \/ ReopenFails(u) \/ UndoRename(u) \/ UndoFails(u) \/ UndoAdopt(u)

Next ==
    \/ Boot \/ StartStep \/ Exit
    \/ \E f \in Files : Use(f)
    \/ \E u \in Updates :
        \/ \E key \in Keys, value \in BOOLEAN : BeginUpdate(u, key, value)
        \/ UpdateStep(u)

Spec == Init /\ [][Next]_vars

\* A step waits for a file, a rename or the ledger's lock, all of them bounded.
\* People start the program, change preferences and quit when they like.
FairSpec == Spec /\ WF_vars(StartStep) /\ \A u \in Updates : WF_vars(UpdateStep(u))

-----------------------------------------------------------------------------

TypeOK ==
    /\ source \in Installations /\ ledgerKind \in LedgerKinds
    /\ file \in [Files -> Contents]
    /\ manifest \in [1 .. 2 -> BOOLEAN] /\ archived \in BOOLEAN
    /\ process \in Processes
    /\ place \in [batch : 1 .. 2, index : Nat \ {0}, created : SUBSET Files]
    /\ saved \in Preferences /\ current \in Preferences
    /\ core \in Sessions \cup {None}
    /\ pc \in [Updates -> Places]
    /\ update \in [Updates -> [key : Keys, value : BOOLEAN, previous : Preferences,
                                copy : Preferences, sessions : Sessions]]
    /\ interrupted \in BOOLEAN /\ overlapped \in BOOLEAN
    /\ exits \in Nat /\ faults \in Nat

\* What this build or the person wrote outlives every start, retried start and
\* rollback; a file is only ever removed by the rollback of its own copy
\* (runtime-paths.mjs copyIfMissing, rollbackNewFiles).
OwnDataKept ==
    [][\A f \in Files :
        /\ file[f] = "own" => file'[f] = "own"
        /\ file[f] # "absent" /\ file'[f] = "absent" =>
            \/ f \in place.created /\ process' = "failed"
            \/ f = LedgerFile /\ archived']_vars

\* A migration that is over has brought every older file, whole unless the process
\* was ended in the middle of a copy: a failed one leaves no manifest behind
\* (runtime-paths.mjs migrateLegacyRuntimeData).
MigrationComplete ==
    \A b \in 1 .. 2 : manifest[b] =>
        \A i \in 1 .. Len(Batches[b]) :
            LET f == Batches[b][i] IN
            f \in source \ {LedgerFile} =>
                \/ file[f] \in {"legacy", "own"}
                \/ file[f] = "truncated" /\ exits > 0

\* Open work of an older build's ledger keeps every core blocked, unless the
\* process or the disk failed between moving that ledger and writing the block
\* (operation-ledger-recovery.mjs recoverCompatibleOperationLedger).
OpenWorkBlocks ==
    core # None /\ archived /\ ledgerKind = "open" =>
        file[LedgerFile] = "blocked" \/ interrupted

Quiet == \A u \in Updates : pc[u] \notin Busy

\* Between updates the core has the flags of the preferences shown and of those
\* saved, through failed restarts and their undoing; two overlapping updates may
\* leave it with others (main.mjs desktop:preferences:update).
CoreFollowsPreferences ==
    process = "ready" /\ Quiet /\ ~overlapped =>
        /\ saved = current
        /\ core # None => core = SessionsOf(current)

\* A core that an update dropped is replaced, whichever updates overlap, unless
\* restarts fail or the process ends (main.mjs restartLocalApplicationCore).
CoreComesBack ==
    process = "ready" /\ core = None ~> core # None \/ faults > 0 \/ process # "ready"

-----------------------------------------------------------------------------
(* What the documents say and the code does not do. *)

\* Control never goes on with an empty ledger in place of one with open work
\* (CHANGELOG.md:74).
NeverEmptyLedger ==
    core # None /\ archived /\ ledgerKind = "open" => file[LedgerFile] = "blocked"

\* With model service control shown as disabled, no core allows it
\* (main.mjs desktop:preferences:update).
ControlOnlyWhenEnabled ==
    process = "ready" /\ Quiet /\ core # None => (core.control => SessionsOf(current).control)
=============================================================================
