-------------------------- MODULE DesktopStartProofs -------------------------
(***************************************************************************)
(* The safety properties of DesktopStart for any list of files, older      *)
(* installation, number of updates, exits and faults.                      *)
(*                                                                         *)
(* The argument: a start only creates files where there are none, and what *)
(* it has created it has not written to since (MigrationOK), so giving up  *)
(* removes nobody's data.  Once an older ledger with open work is moved    *)
(* aside, the block is there, or about to be written by a process without  *)
(* a core (LedgerOK, CoreOK).  A lone update keeps file, memory and core   *)
(* in a fixed relation at each of its stages (UpdateOK).                   *)
(***************************************************************************)
EXTENDS DesktopStart, TLAPS

PlaceRecords == [batch : 1 .. 2, index : Nat \ {0}, created : SUBSET Files]
UpdateRecords ==
    [key : Keys, value : BOOLEAN, previous : Preferences, copy : Preferences, sessions : Sessions]

\* An older file that a finished migration owes.
Brought(f) ==
    f \in source \ {LedgerFile} =>
        \/ file[f] \in {"legacy", "own"}
        \/ file[f] = "truncated" /\ exits > 0

MigrationOK ==
    /\ \A f \in Files :
         /\ file[f] = "truncated" => exits > 0
         /\ file[f] = "blocked" => f = LedgerFile
    /\ process = "checking" => place.created = {} /\ place.index = 1
    /\ process = "copying" =>
         /\ ~manifest[place.batch]
         /\ \A f \in place.created :
              file[f] = "legacy" /\ (f = ProfileFile <=> place.batch = 2)
         /\ \A i \in 1 .. Len(Batches[place.batch]) :
              i < place.index => Brought(Batches[place.batch][i])
    /\ MigrationComplete

\* Where the older ledger is during its recovery, and the block after it.
LedgerOK ==
    /\ process = "archiving" => file[LedgerFile] \in {"legacy", "truncated"}
    /\ process = "blocking" => file[LedgerFile] = "absent"
    /\ archived /\ ledgerKind = "open" /\ ~interrupted =>
         file[LedgerFile] = "blocked" \/ process = "blocking"

\* Cores and updates are of a process that has started.
CoreOK ==
    /\ core # None => process = "ready"
    /\ \A u \in Updates : pc[u] \in Busy => process = "ready"

\* The core, if there is one, has these flags.
Follows(p) == core # None => core = SessionsOf(p)

\* What an update that is alone has made of file, memory and core so far.
UpdateOK(u) ==
    LET previous == update[u].previous  copy == update[u].copy IN
    /\ pc[u] \in {"reading", "writing"} =>
         saved = current /\ current = previous /\ Follows(current)
    /\ pc[u] = "renamed" => saved = copy /\ current = previous /\ Follows(current)
    /\ pc[u] \in {"importing", "opening", "undoing"} =>
         saved = copy /\ current = copy /\ core = None
    /\ pc[u] = "undone" => saved = previous /\ current = copy /\ core = None
    /\ pc[u] \in {"reimporting", "reopening"} =>
         saved = previous /\ current = previous /\ core = None
    /\ pc[u] \in {"opening", "reopening"} => update[u].sessions = SessionsOf(current)

PreferencesOK ==
    /\ process \in Starting => saved = current
    /\ ~overlapped =>
         /\ \A u, v \in Updates : pc[u] \in Busy /\ pc[v] \in Busy => u = v
         /\ \A u \in Updates : UpdateOK(u)
    /\ CoreFollowsPreferences

Strong == TypeOK /\ MigrationOK /\ LedgerOK /\ CoreOK /\ PreferencesOK
-----------------------------------------------------------------------------

LEMMA BatchFiles ==
    /\ Len(Batches) = 2
    /\ \A b \in 1 .. 2 :
         /\ Len(Batches[b]) \in Nat
         /\ \A i \in 1 .. Len(Batches[b]) :
              Batches[b][i] \in Files /\ (Batches[b][i] = ProfileFile <=> b = 2)
<1>1. RuntimeFiles \in Seq(Files) /\ \A i \in 1 .. Len(RuntimeFiles) : RuntimeFiles[i] # ProfileFile
  BY StartFiles
<1>2. ProfileFile \in Files
  BY DEF Files
<1>3. Len(Batches) = 2 /\ Batches[1] = RuntimeFiles /\ Batches[2] = <<ProfileFile>>
  BY DEF Batches
<1> QED
  BY <1>1, <1>2, <1>3

\* The steps of Next, one by one.
LEMMA NextCases ==
    ASSUME [Next]_vars
    PROVE  \/ Boot \/ CheckManifest \/ WriteManifest \/ MigrationFails
           \/ RecoverLedger \/ RefuseLedger \/ RecoveryFails \/ Archive \/ WriteBlock \/ Exit
           \/ \E f \in Files : CopyFile(f) \/ Use(f)
           \/ \E u \in Updates, key \in Keys, value \in BOOLEAN : BeginUpdate(u, key, value)
           \/ \E u \in Updates : UpdateStep(u)
           \/ UNCHANGED vars
  BY DEF Next, StartStep

\* What updates leave alone.
LEMMA UpdateFrame ==
    ASSUME \/ \E u \in Updates, key \in Keys, value \in BOOLEAN : BeginUpdate(u, key, value)
           \/ \E u \in Updates : UpdateStep(u)
           \/ UNCHANGED vars
    PROVE  UNCHANGED <<worldVars, dataVars, startVars, exits>>
  BY DEF BeginUpdate, UpdateStep, Read, Rename, UpdateFails, Adopt, TakeFlags, Reopen, ReopenFails,
     UndoRename, UndoFails, UndoAdopt, vars

-----------------------------------------------------------------------------
(* Types. *)

LEMMA NextBatchTyped ==
    ASSUME TypeOK, NextBatch
    PROVE  /\ process' \in {"checking", "recovering"}
           /\ place' \in PlaceRecords /\ place'.created = {} /\ place'.index = 1
  BY BatchFiles DEF NextBatch, TypeOK, PlaceRecords

\* A file is copied, or left.
LEMMA CopyMoves ==
    ASSUME TypeOK, NEW f \in Files, CopyFile(f)
    PROVE  /\ place' \in PlaceRecords /\ place'.batch = place.batch
           /\ place'.index = place.index + 1
           /\ Missing(f) => place'.created = place.created \cup {f}
           /\ ~Missing(f) => place'.created = place.created
<1> DEFINE next == place.index + 1
           more == place.created \cup {f}
           copied == [place EXCEPT !.index = next, !.created = more]
           left == [place EXCEPT !.index = next]
<1>1. place \in PlaceRecords /\ next \in Nat \ {0} /\ more \in SUBSET Files
  BY DEF TypeOK, PlaceRecords
<1>2. (Missing(f) /\ place' = copied) \/ (~Missing(f) /\ place' = left)
  BY DEF CopyFile
<1> HIDE DEF next, more
<1>3. /\ copied \in PlaceRecords /\ copied.batch = place.batch /\ copied.index = next
      /\ copied.created = more
      /\ left \in PlaceRecords /\ left.batch = place.batch /\ left.index = next
      /\ left.created = place.created
  BY <1>1 DEF PlaceRecords
<1> HIDE DEF copied, left
<1> QED
  BY <1>2, <1>3 DEF next, more

LEMMA SessionsTyped ==
    ASSUME NEW p \in Preferences
    PROVE  SessionsOf(p) \in Sessions
  BY DEF SessionsOf, Sessions, Preferences, Keys

LEMMA StartTyped ==
    ASSUME TypeOK, [Next]_vars
    PROVE  /\ source' \in Installations /\ ledgerKind' \in LedgerKinds
           /\ file' \in [Files -> Contents] /\ manifest' \in [1 .. 2 -> BOOLEAN]
           /\ archived' \in BOOLEAN /\ interrupted' \in BOOLEAN
           /\ process' \in Processes /\ place' \in PlaceRecords /\ exits' \in Nat
<1> DEFINE Typed ==
      /\ source \in Installations /\ ledgerKind \in LedgerKinds
      /\ file \in [Files -> Contents] /\ manifest \in [1 .. 2 -> BOOLEAN]
      /\ archived \in BOOLEAN /\ interrupted \in BOOLEAN
      /\ process \in Processes /\ place \in PlaceRecords /\ exits \in Nat
<1> USE DEF worldVars, dataVars, startVars
<1>1. Typed
  BY DEF TypeOK, PlaceRecords
<1>2. CASE Boot
  BY <1>1, <1>2 DEF Boot, FirstPlace, PlaceRecords, Processes, Starting, Migrating
<1>3. CASE CheckManifest
  BY <1>1, <1>3, NextBatchTyped DEF CheckManifest, Processes, Starting, Migrating, Recovering
<1>4. ASSUME NEW f \in Files, CopyFile(f)
      PROVE  Typed'
  <2>1. place' \in PlaceRecords
    BY <1>4, CopyMoves
  <2> QED
    BY <1>1, <1>4, <2>1 DEF CopyFile, Contents
<1>5. CASE WriteManifest
  BY <1>1, <1>5, NextBatchTyped DEF WriteManifest, Processes, Starting, Migrating, Recovering
<1>6. CASE MigrationFails
  BY <1>1, <1>6 DEF MigrationFails, Contents, Processes
<1>7. CASE RecoverLedger
  BY <1>1, <1>7 DEF RecoverLedger, OpenCore, Contents, Processes
<1>8. CASE RefuseLedger \/ RecoveryFails
  BY <1>1, <1>8 DEF RefuseLedger, RecoveryFails, Processes, Starting, Recovering
<1>9. CASE Archive \/ WriteBlock
  BY <1>1, <1>9 DEF Archive, WriteBlock, Contents, Processes, Starting, Recovering
<1>10. CASE Exit
  BY <1>1, <1>10 DEF Exit, Contents, Processes
<1>11. ASSUME NEW f \in Files, Use(f)
       PROVE  Typed'
  BY <1>1, <1>11 DEF Use, Contents
<1>12. ASSUME \/ \E u \in Updates, key \in Keys, value \in BOOLEAN : BeginUpdate(u, key, value)
              \/ \E u \in Updates : UpdateStep(u)
              \/ UNCHANGED vars
       PROVE  Typed'
  BY <1>1, <1>12, UpdateFrame
<1> QED
  BY <1>2, <1>3, <1>4, <1>5, <1>6, <1>7, <1>8, <1>9, <1>10, <1>11, <1>12, NextCases

\* One field of an update's record at a time.
LEMMA RecordTyped ==
    ASSUME TypeOK, NEW u \in Updates
    PROVE  /\ update \in [Updates -> UpdateRecords] /\ update[u] \in UpdateRecords
           /\ update[u].previous \in Preferences /\ update[u].copy \in Preferences
           /\ update[u].key \in Keys /\ update[u].value \in BOOLEAN
           /\ update[u].sessions \in Sessions
  BY DEF TypeOK, UpdateRecords

LEMMA RecordBecomes ==
    ASSUME TypeOK, NEW u \in Updates, NEW record \in UpdateRecords,
           update' = [update EXCEPT ![u] = record]
    PROVE  /\ update' \in [Updates -> UpdateRecords] /\ update'[u] = record
           /\ \A v \in Updates : v # u => update'[v] = update[v]
  BY RecordTyped

\* A call's place moves alone.
LEMMA PcMoves ==
    ASSUME TypeOK, NEW u \in Updates, NEW from, NEW to \in Places, Goes(u, from, to)
    PROVE  /\ pc' \in [Updates -> Places] /\ pc[u] = from /\ pc'[u] = to
           /\ \A v \in Updates : v # u => pc'[v] = pc[v]
  BY DEF Goes, TypeOK

\* What the steps of an update make of its record.
LEMMA UpdateBegins ==
    ASSUME TypeOK, NEW u \in Updates, NEW key \in Keys, NEW value \in BOOLEAN,
           BeginUpdate(u, key, value)
    PROVE  /\ update' \in [Updates -> UpdateRecords] /\ update'[u].previous = current
           /\ \A v \in Updates : v # u => update'[v] = update[v]
<1> DEFINE record == [update[u] EXCEPT !.previous = current, !.key = key, !.value = value]
<1>1. record \in UpdateRecords /\ record.previous = current
  BY RecordTyped DEF TypeOK, UpdateRecords
<1>2. update' = [update EXCEPT ![u] = record]
  BY RecordTyped DEF BeginUpdate, UpdateRecords
<1> HIDE DEF record
<1> QED
  BY <1>1, <1>2, RecordBecomes

LEMMA UpdateReads ==
    ASSUME TypeOK, NEW u \in Updates, Read(u)
    PROVE  /\ update' \in [Updates -> UpdateRecords] /\ update'[u].previous = update[u].previous
           /\ \A v \in Updates : v # u => update'[v] = update[v]
<1> DEFINE copy == [saved EXCEPT ![update[u].key] = update[u].value]
           record == [update[u] EXCEPT !.copy = copy]
<1>1. copy \in Preferences
  BY RecordTyped DEF TypeOK, Preferences
<1>2. record \in UpdateRecords /\ record.previous = update[u].previous
  BY <1>1, RecordTyped DEF UpdateRecords
<1>3. update' = [update EXCEPT ![u] = record]
  BY RecordTyped DEF Read
<1> HIDE DEF record
<1> QED
  BY <1>2, <1>3, RecordBecomes

LEMMA UpdateTakes ==
    ASSUME TypeOK, NEW u \in Updates, TakeFlags(u)
    PROVE  /\ update' \in [Updates -> UpdateRecords]
           /\ update'[u].previous = update[u].previous /\ update'[u].copy = update[u].copy
           /\ update'[u].sessions = SessionsOf(current)
           /\ \A v \in Updates : v # u => update'[v] = update[v]
<1> DEFINE flags == SessionsOf(current)
           record == [update[u] EXCEPT !.sessions = flags]
<1>1. flags \in Sessions
  BY SessionsTyped DEF TypeOK
<1> HIDE DEF flags
<1>2. record \in UpdateRecords /\ record.previous = update[u].previous
      /\ record.copy = update[u].copy /\ record.sessions = flags
  BY <1>1, RecordTyped DEF UpdateRecords
<1>3. update' = [update EXCEPT ![u] = record]
  BY RecordTyped DEF TakeFlags, flags
<1> HIDE DEF record
<1> QED
  BY <1>2, <1>3, RecordBecomes DEF flags

LEMMA UpdatesTyped ==
    ASSUME TypeOK, [Next]_vars
    PROVE  /\ saved' \in Preferences /\ current' \in Preferences /\ core' \in Sessions \cup {None}
           /\ pc' \in [Updates -> Places] /\ update' \in [Updates -> UpdateRecords]
           /\ overlapped' \in BOOLEAN /\ faults' \in Nat
<1> DEFINE Typed ==
      /\ saved \in Preferences /\ current \in Preferences /\ core \in Sessions \cup {None}
      /\ pc \in [Updates -> Places] /\ update \in [Updates -> UpdateRecords]
      /\ overlapped \in BOOLEAN /\ faults \in Nat
<1> USE DEF prefVars, updateVars
<1>1. Typed
  BY DEF TypeOK, UpdateRecords
<1>2. ASSUME NEW u \in Updates, NEW from, NEW to \in Places, Goes(u, from, to)
      PROVE  pc' \in [Updates -> Places]
  BY <1>2, PcMoves
<1>3. CASE \/ Boot \/ CheckManifest \/ WriteManifest \/ RefuseLedger \/ Archive \/ WriteBlock
           \/ \E f \in Files : CopyFile(f) \/ Use(f)
  BY <1>1, <1>3 DEF Boot, CheckManifest, WriteManifest, RefuseLedger, Archive, WriteBlock, CopyFile, Use
<1>4. CASE MigrationFails \/ RecoveryFails
  BY <1>1, <1>4 DEF MigrationFails, RecoveryFails, Fault
<1>5. CASE RecoverLedger
  BY <1>1, <1>5, SessionsTyped DEF RecoverLedger, OpenCore
<1>6. CASE Exit
  BY <1>1, <1>6 DEF Exit, Places
<1>7. ASSUME NEW u \in Updates, NEW key \in Keys, NEW value \in BOOLEAN, BeginUpdate(u, key, value)
      PROVE  Typed'
  BY <1>1, <1>2, <1>7, UpdateBegins DEF BeginUpdate, Places, Busy
<1>8. ASSUME NEW u \in Updates, UpdateStep(u)
      PROVE  Typed'
  <2> USE DEF Places, Busy, Restarting, Undoing
  <2>1. CASE Read(u)
    BY <1>1, <1>2, <2>1, UpdateReads DEF Read
  <2>2. CASE TakeFlags(u)
    BY <1>1, <1>2, <2>2, UpdateTakes DEF TakeFlags
  <2>3. CASE Rename(u) \/ Adopt(u)
    BY <1>1, <1>2, <2>3, RecordTyped DEF Rename, Adopt
  <2>4. CASE UndoRename(u) \/ UndoAdopt(u)
    BY <1>1, <1>2, <2>4, RecordTyped DEF UndoRename, UndoAdopt
  <2>5. CASE Reopen(u)
    BY <1>1, <1>2, <2>5, RecordTyped DEF Reopen
  <2>6. CASE UpdateFails(u) \/ ReopenFails(u) \/ UndoFails(u)
    BY <1>1, <1>2, <2>6 DEF UpdateFails, ReopenFails, UndoFails, Fault
  <2> QED
    BY <1>8, <2>1, <2>2, <2>3, <2>4, <2>5, <2>6 DEF UpdateStep
<1>9. CASE UNCHANGED vars
  BY <1>1, <1>9 DEF vars
<1> QED
  BY <1>3, <1>4, <1>5, <1>6, <1>7, <1>8, <1>9, NextCases

LEMMA TypeStep == ASSUME TypeOK, [Next]_vars PROVE TypeOK'
  BY StartTyped, UpdatesTyped DEF TypeOK, PlaceRecords, UpdateRecords
-----------------------------------------------------------------------------
(* The migrations. *)

\* A file that was brought stays, unless the start gives up what it has created.
LEMMA BroughtStays ==
    ASSUME TypeOK, NEW f \in Files, Brought(f), source' = source, exits' >= exits, exits' \in Nat,
           f = LedgerFile \/ file'[f] = file[f] \/ file'[f] \in {"legacy", "own"}
    PROVE  Brought(f)'
  BY DEF Brought, TypeOK

LEMMA BatchesBrought ==
    ASSUME NEW b \in 1 .. 2, MigrationComplete, manifest[b],
           NEW i \in 1 .. Len(Batches[b])
    PROVE  Brought(Batches[b][i])
  BY DEF MigrationComplete, Brought

\* The batches that are over stay complete whatever happens to other files.
LEMMA CompleteStays ==
    ASSUME TypeOK, MigrationComplete, source' = source, exits' >= exits, exits' \in Nat,
           \A b \in 1 .. 2 : manifest'[b] = manifest[b],
           \A f \in Files :
               \/ f = LedgerFile \/ file'[f] = file[f] \/ file'[f] \in {"legacy", "own"}
               \/ \A b \in 1 .. 2 : manifest[b] => (f = ProfileFile <=> b # 2)
    PROVE  MigrationComplete'
<1> SUFFICES ASSUME NEW b \in 1 .. 2, manifest[b], NEW i \in 1 .. Len(Batches[b])
             PROVE  Brought(Batches[b][i])'
  BY DEF MigrationComplete, Brought
<1>1. Brought(Batches[b][i])
  BY BatchesBrought
<1>2. Batches[b][i] \in Files /\ (Batches[b][i] = ProfileFile <=> b = 2)
  BY BatchFiles
<1> QED
  BY <1>1, <1>2, BroughtStays

LEMMA MigrationStep ==
    ASSUME TypeOK, MigrationOK, LedgerOK, CoreOK, [Next]_vars
    PROVE  MigrationOK'
<1> USE DEF MigrationOK, worldVars
<1>1. /\ TypeOK' /\ LedgerFile \in Files /\ LedgerFile # ProfileFile
      /\ place.batch \in 1 .. 2 /\ place.index \in Nat \ {0} /\ exits \in Nat /\ exits' \in Nat
      /\ file \in [Files -> Contents] /\ manifest \in [1 .. 2 -> BOOLEAN]
  BY TypeStep, StartFiles DEF TypeOK
<1>2. CASE Boot
  BY <1>1, <1>2, CompleteStays DEF Boot, FirstPlace, dataVars
<1>3. CASE CheckManifest
  <2>1. source' = source /\ file' = file /\ manifest' = manifest /\ exits' = exits
    BY <1>3 DEF CheckManifest, dataVars
  <2>2. MigrationComplete'
    BY <1>1, <2>1, CompleteStays
  <2>3. CASE manifest[place.batch]
    BY <1>1, <1>3, <2>1, <2>2, <2>3, NextBatchTyped DEF CheckManifest
  <2>4. CASE ~manifest[place.batch]
    <3>1. place' = place /\ process = "checking" /\ process' = "copying"
      BY <1>3, <2>4 DEF CheckManifest
    <3>2. place.created = {} /\ place.index = 1
      BY <3>1
    <3>3. ASSUME NEW i \in 1 .. Len(Batches[place.batch])
          PROVE  ~(i < place.index)
      BY <1>1, <3>2, BatchFiles
    <3> QED
      BY <1>1, <2>1, <2>2, <2>4, <3>1, <3>2, <3>3
  <2> QED
    BY <2>3, <2>4
<1>4. ASSUME NEW f \in Files, CopyFile(f)
      PROVE  MigrationOK'
  <2>0. PICK b \in 1 .. 2 : b = place.batch
    BY <1>1
  <2>1. /\ process = "copying" /\ process' = "copying" /\ source' = source /\ exits' = exits
        /\ manifest' = manifest /\ ~manifest[b]
        /\ place.index \in 1 .. Len(Batches[b]) /\ f = Batches[b][place.index]
        /\ Missing(f) => file' = [file EXCEPT ![f] = "legacy"]
        /\ ~Missing(f) => file' = file
    BY <1>1, <1>4, <2>0, BatchFiles DEF CopyFile, AtFile
  <2>2. place'.batch = b /\ place'.index = place.index + 1
        /\ place'.created \subseteq place.created \cup {f}
        /\ (f \in place'.created => Missing(f) \/ f \in place.created)
    BY <1>4, <2>0, CopyMoves
  <2>3. \A g \in Files : \/ file'[g] = file[g]
                         \/ file'[g] = "legacy" /\ g = f /\ Missing(f)
    BY <1>1, <2>1
  <2>4. MigrationComplete'
    BY <1>1, <2>1, <2>3, CompleteStays
  <2>5. f = ProfileFile <=> b = 2
    BY <1>1, <2>1, BatchFiles
  <2>6. Brought(f)'
    BY <1>1, <2>1 DEF Brought, Missing, Contents
  <2>7. ASSUME NEW i \in 1 .. Len(Batches[b]), i < place.index + 1
        PROVE  Brought(Batches[b][i])'
    <3>1. CASE i = place.index
      BY <2>1, <2>6, <3>1
    <3>2. CASE i # place.index
      <4>1. i < place.index
        BY <1>1, <2>7, <3>2, BatchFiles
      <4>2. Brought(Batches[b][i]) /\ Batches[b][i] \in Files
        BY <1>1, <2>0, <2>1, <4>1, BatchFiles
      <4> QED
        BY <1>1, <2>1, <2>3, <4>2, BroughtStays
    <3> QED
      BY <3>1, <3>2
  <2>8. \A g \in place'.created : file'[g] = "legacy" /\ (g = ProfileFile <=> b = 2)
    BY <1>1, <2>0, <2>1, <2>2, <2>3, <2>5 DEF TypeOK, Missing
  <2>9. \A g \in Files :
          /\ file'[g] = "truncated" => exits' > 0
          /\ file'[g] = "blocked" => g = LedgerFile
    BY <2>1, <2>3
  <2>10. ~manifest'[place'.batch]
    BY <2>0, <2>1, <2>2
  <2> QED
    BY <2>0, <2>1, <2>2, <2>4, <2>7, <2>8, <2>9, <2>10
<1>5. CASE WriteManifest
  <2> DEFINE b == place.batch
  <2>1. /\ process = "copying" /\ file' = file /\ source' = source /\ exits' = exits
        /\ manifest' = [manifest EXCEPT ![b] = TRUE] /\ NextBatch
        /\ place.index > Len(Batches[b])
    BY <1>5 DEF WriteManifest
  <2>2. process' \in {"checking", "recovering"} /\ place'.created = {} /\ place'.index = 1
    BY <2>1, NextBatchTyped
  <2>3. ASSUME NEW c \in 1 .. 2, manifest'[c], NEW i \in 1 .. Len(Batches[c])
        PROVE  Brought(Batches[c][i])
    <3>1. CASE c = b
      BY <1>1, <2>1, <3>1, BatchFiles
    <3>2. CASE c # b
      <4>1. manifest[c]
        BY <1>1, <2>1, <2>3, <3>2
      <4> QED
        BY <4>1, BatchesBrought
    <3> QED
      BY <3>1, <3>2
  <2>4. MigrationComplete'
    BY <2>1, <2>3 DEF MigrationComplete, Brought
  <2> QED
    BY <2>1, <2>2, <2>4
<1>6. CASE MigrationFails
  <2>1. PICK removed \in SUBSET place.created :
            file' = [f \in Files |-> IF f \in removed THEN "absent" ELSE file[f]]
    BY <1>6 DEF MigrationFails
  <2>2. /\ process \in {"checking", "copying"} /\ process' = "failed" /\ source' = source
        /\ exits' = exits /\ manifest' = manifest
    BY <1>6 DEF MigrationFails, Migrating
  <2>3. ASSUME NEW f \in Files, f \in removed, NEW b \in 1 .. 2, manifest[b]
        PROVE  f = ProfileFile <=> b # 2
    <3>1. process = "copying"
      BY <2>1, <2>2, <2>3
    <3>2. (f = ProfileFile <=> place.batch = 2) /\ ~manifest[place.batch]
      BY <2>3, <3>1
    <3> QED
      BY <1>1, <2>3, <3>2
  <2>4. MigrationComplete'
    BY <1>1, <2>1, <2>2, <2>3, CompleteStays
  <2> QED
    BY <1>1, <2>1, <2>2, <2>4
<1>7. CASE RecoverLedger \/ RefuseLedger \/ RecoveryFails \/ Archive \/ WriteBlock
  <2>1. /\ process' \notin {"checking", "copying"} /\ source' = source
        /\ exits' = exits /\ manifest' = manifest
    BY <1>7 DEF RecoverLedger, OpenCore, RefuseLedger, RecoveryFails, Archive, WriteBlock, dataVars
  <2>2. \A f \in Files : \/ file'[f] = file[f]
                         \/ f = LedgerFile /\ file'[f] \in {"own", "absent", "blocked"}
    BY <1>1, <1>7 DEF RecoverLedger, OpenCore, RefuseLedger, RecoveryFails, Archive, WriteBlock, dataVars
  <2>3. MigrationComplete'
    BY <1>1, <2>1, <2>2, CompleteStays
  <2> QED
    BY <2>1, <2>2, <2>3
<1>8. CASE Exit
  <2>1. PICK torn \in SUBSET Unfinished :
            file' = [f \in Files |-> IF f \in torn THEN "truncated" ELSE file[f]]
    BY <1>8 DEF Exit
  <2>2. process' = "down" /\ source' = source /\ exits' = exits + 1 /\ manifest' = manifest
    BY <1>8 DEF Exit
  <2>3. ASSUME NEW f \in Files, f \in torn, f # LedgerFile, NEW b \in 1 .. 2, manifest[b]
        PROVE  f = ProfileFile <=> b # 2
    <3>1. process = "copying" /\ AtFile(f)
      BY <2>1, <2>3 DEF Unfinished
    <3>2. (f = ProfileFile <=> place.batch = 2) /\ ~manifest[place.batch]
      BY <1>1, <3>1, BatchFiles DEF AtFile
    <3> QED
      BY <1>1, <2>3, <3>2
  <2>4. MigrationComplete'
    BY <1>1, <2>1, <2>2, <2>3, CompleteStays
  <2> QED
    BY <1>1, <2>1, <2>2, <2>4
<1>9. ASSUME NEW f \in Files, Use(f)
      PROVE  MigrationOK'
  <2>1. /\ process' = process /\ place' = place /\ source' = source /\ exits' = exits
        /\ manifest' = manifest /\ process \notin {"checking", "copying"}
        /\ file' = [file EXCEPT ![f] = "own"]
    BY <1>9 DEF Use, startVars, CoreOK
  <2>2. MigrationComplete'
    BY <1>1, <2>1, CompleteStays
  <2> QED
    BY <1>1, <2>1, <2>2
<1>10. ASSUME \/ \E u \in Updates, key \in Keys, value \in BOOLEAN : BeginUpdate(u, key, value)
              \/ \E u \in Updates : UpdateStep(u)
              \/ UNCHANGED vars
       PROVE  MigrationOK'
  <2>1. UNCHANGED <<source, exits, file, manifest, process, place>>
    BY <1>10, UpdateFrame DEF dataVars, startVars
  <2> QED
    BY <2>1 DEF MigrationComplete, Brought
<1> QED
  BY <1>2, <1>3, <1>4, <1>5, <1>6, <1>7, <1>8, <1>9, <1>10, NextCases
-----------------------------------------------------------------------------
(* The ledger and its block. *)

\* What a migration touches was missing, or is a copy of its own.
LEMMA TouchedByMigration ==
    ASSUME TypeOK, MigrationOK, process \in Migrating, NEW f \in Files
    PROVE  /\ CopyFile(f) => file[f] = "absent" \/ file' = file
           /\ f \in place.created => file[f] = "legacy"
  BY DEF MigrationOK, Migrating, CopyFile, Missing, TypeOK

LEMMA LedgerStep ==
    ASSUME TypeOK, MigrationOK, LedgerOK, CoreOK, [Next]_vars
    PROVE  LedgerOK'
<1> USE DEF LedgerOK, worldVars
<1>1. LedgerFile \in Files /\ file \in [Files -> Contents] /\ ledgerKind \in LedgerKinds
  BY StartFiles DEF TypeOK
<1>2. CASE Boot
  BY <1>2 DEF Boot, dataVars
<1>3. CASE CheckManifest \/ WriteManifest
  BY <1>3, NextBatchTyped DEF CheckManifest, WriteManifest, dataVars
<1>4. ASSUME NEW f \in Files, CopyFile(f)
      PROVE  LedgerOK'
  <2>1. process = "copying" /\ UNCHANGED <<process, ledgerKind, archived, interrupted>>
    BY <1>4 DEF CopyFile, AtFile
  <2>2. file[LedgerFile] = "blocked" => file'[LedgerFile] = "blocked"
    BY <1>1, <1>4 DEF CopyFile, Missing
  <2> QED
    BY <2>1, <2>2
<1>5. CASE MigrationFails
  <2>1. PICK removed \in SUBSET place.created :
            file' = [f \in Files |-> IF f \in removed THEN "absent" ELSE file[f]]
    BY <1>5 DEF MigrationFails
  <2>2. /\ process \in Migrating /\ process' = "failed"
        /\ UNCHANGED <<ledgerKind, archived, interrupted>>
    BY <1>5 DEF MigrationFails
  <2>3. file[LedgerFile] = "blocked" => file'[LedgerFile] = "blocked"
    BY <1>1, <2>1, <2>2, TouchedByMigration
  <2> QED
    BY <2>2, <2>3 DEF Migrating
<1>6. CASE RecoverLedger
  BY <1>1, <1>6 DEF RecoverLedger, OpenCore
<1>7. CASE RefuseLedger
  BY <1>1, <1>7 DEF RefuseLedger, Readable, Contents, dataVars
<1>8. CASE RecoveryFails
  BY <1>1, <1>8 DEF RecoveryFails, Recovering
<1>9. CASE Archive \/ WriteBlock
  BY <1>1, <1>9 DEF Archive, WriteBlock, RequiresMigrationBlock
<1>10. CASE Exit
  <2>1. PICK torn \in SUBSET Unfinished :
            file' = [f \in Files |-> IF f \in torn THEN "truncated" ELSE file[f]]
    BY <1>10 DEF Exit
  <2>2. /\ process' = "down" /\ UNCHANGED <<ledgerKind, archived>>
        /\ interrupted' = (interrupted \/ process = "blocking")
    BY <1>10 DEF Exit
  <2>3. process # "blocking" /\ file[LedgerFile] = "blocked" => file'[LedgerFile] = "blocked"
    BY <1>1, <2>1 DEF Unfinished, Missing
  <2> QED
    BY <2>2, <2>3
<1>11. ASSUME NEW f \in Files, Use(f)
       PROVE  LedgerOK'
  BY <1>1, <1>11 DEF Use, startVars
<1>12. ASSUME \/ \E u \in Updates, key \in Keys, value \in BOOLEAN : BeginUpdate(u, key, value)
              \/ \E u \in Updates : UpdateStep(u)
              \/ UNCHANGED vars
       PROVE  LedgerOK'
  BY <1>12, UpdateFrame DEF dataVars, startVars
<1> QED
  BY <1>2, <1>3, <1>4, <1>5, <1>6, <1>7, <1>8, <1>9, <1>10, <1>11, <1>12, NextCases

\* The block is all the invariant says of a process with a core.
LEMMA BlockedOrInterrupted == LedgerOK /\ CoreOK => OpenWorkBlocks
  BY DEF LedgerOK, CoreOK, OpenWorkBlocks
-----------------------------------------------------------------------------
(* Cores, updates and preferences. *)

LEMMA CoreStep ==
    ASSUME TypeOK, CoreOK, [Next]_vars
    PROVE  CoreOK'
<1> USE DEF CoreOK
<1>1. CASE CheckManifest \/ WriteManifest \/ MigrationFails \/ RefuseLedger \/ RecoveryFails
           \/ Archive \/ WriteBlock \/ \E f \in Files : CopyFile(f) \/ Use(f)
  BY <1>1 DEF CheckManifest, WriteManifest, MigrationFails, RefuseLedger, RecoveryFails, Archive,
     WriteBlock, CopyFile, AtFile, Use, updateVars, startVars, Migrating, Recovering
<1>2. CASE Boot \/ RecoverLedger
  BY <1>2 DEF Boot, RecoverLedger, OpenCore, updateVars
<1>3. CASE Exit
  BY <1>3 DEF Exit, TypeOK, Busy, Restarting, Undoing
<1>4. ASSUME NEW u \in Updates, NEW key \in Keys, NEW value \in BOOLEAN, BeginUpdate(u, key, value)
      PROVE  CoreOK'
  BY <1>4 DEF BeginUpdate, Goes, TypeOK, startVars
<1>5. ASSUME NEW u \in Updates, UpdateStep(u)
      PROVE  CoreOK'
  <2>1. pc[u] \in Busy /\ \A v \in Updates : v # u => pc'[v] = pc[v]
    BY <1>5 DEF UpdateStep, Read, Rename, UpdateFails, Adopt, TakeFlags, Reopen, ReopenFails,
       UndoRename, UndoFails, UndoAdopt, Goes, TypeOK, Busy, Restarting, Undoing
  <2>2. process = "ready" /\ process' = process
    BY <1>5, <2>1, UpdateFrame DEF startVars
  <2> QED
    BY <2>2
<1>6. CASE UNCHANGED vars
  BY <1>6 DEF vars, startVars, updateVars
<1> QED
  BY <1>1, <1>2, <1>3, <1>4, <1>5, <1>6, NextCases

\* An update without work to do says nothing of file, memory and core.
LEMMA IdleIsFine == \A u \in Updates : pc[u] \notin Busy => UpdateOK(u)
  BY DEF UpdateOK, Busy, Restarting, Undoing

LEMMA SameFlags ==
    ASSUME NEW p, NEW q, SameSession(p, q)
    PROVE  SessionsOf(p) = SessionsOf(q)
  BY DEF SameSession, SessionsOf

\* Each step of an update that is alone takes it to its next stage, and leaves
\* preferences that agree when it is the last.
LEMMA AloneStep ==
    ASSUME TypeOK, NEW u \in Updates, UpdateOK(u), UpdateStep(u)
    PROVE  /\ pc[u] \in Busy /\ \A v \in Updates : v # u => pc'[v] = pc[v]
           /\ UpdateOK(u)'
           /\ pc'[u] \notin Busy => saved' = current' /\ Follows(current)'
<1> DEFINE OneStep ==
      /\ pc[u] \in Busy /\ \A v \in Updates : v # u => pc'[v] = pc[v]
      /\ UpdateOK(u)'
      /\ pc'[u] \notin Busy => saved' = current' /\ Follows(current)'
<1> USE DEF UpdateOK, Follows, Places, Busy, Restarting, Undoing
<1>1. \A to \in Places : \A from : Goes(u, from, to) =>
        /\ pc[u] = from /\ pc'[u] = to
        /\ \A v \in Updates : v # u => pc'[v] = pc[v]
  BY PcMoves
<1>2. CASE Read(u)
  <2>1. Goes(u, "reading", "writing") /\ UNCHANGED <<saved, current, core>>
    BY <1>2 DEF Read, prefVars
  <2> QED
    BY <1>1, <1>2, <2>1, UpdateReads
<1>3. CASE Rename(u)
  <2>1. /\ Goes(u, "writing", "renamed") /\ UNCHANGED <<current, core, update>>
        /\ saved' = update[u].copy
    BY <1>3 DEF Rename
  <2> QED
    BY <1>1, <2>1
<1>4. CASE UpdateFails(u)
  <2>1. /\ Goes(u, "reading", "failed") \/ Goes(u, "writing", "failed")
        /\ UNCHANGED <<saved, current, core, update>>
    BY <1>4 DEF UpdateFails, prefVars
  <2> QED
    BY <1>1, <2>1
<1>5. CASE Adopt(u)
  <2>1. current' = update[u].copy /\ UNCHANGED <<saved, update>>
    BY <1>5 DEF Adopt
  <2>2. CASE SameSession(update[u].previous, update[u].copy)
    <3>1. Goes(u, "renamed", "done") /\ UNCHANGED core
      BY <1>5, <2>2 DEF Adopt
    <3>2. SessionsOf(update[u].previous) = SessionsOf(update[u].copy)
      BY <2>2, SameFlags
    <3> QED
      BY <1>1, <2>1, <3>1, <3>2
  <2>3. CASE ~SameSession(update[u].previous, update[u].copy)
    <3>1. Goes(u, "renamed", "importing") /\ core' = None
      BY <1>5, <2>3 DEF Adopt
    <3> QED
      BY <1>1, <2>1, <3>1
  <2> QED
    BY <2>2, <2>3
<1>6. CASE TakeFlags(u)
  <2>1. /\ Goes(u, "importing", "opening") \/ Goes(u, "reimporting", "reopening")
        /\ UNCHANGED <<saved, current, core>>
    BY <1>6 DEF TakeFlags, prefVars
  <2> QED
    BY <1>1, <1>6, <2>1, UpdateTakes
<1>7. CASE Reopen(u)
  <2>1. /\ Goes(u, "opening", "done") \/ Goes(u, "reopening", "failed")
        /\ core' = update[u].sessions /\ UNCHANGED <<saved, current, update>>
    BY <1>7 DEF Reopen, prefVars
  <2> QED
    BY <1>1, <2>1
<1>8. CASE ReopenFails(u)
  <2>1. /\ \/ Goes(u, "importing", "undoing") \/ Goes(u, "opening", "undoing")
           \/ Goes(u, "reimporting", "failed") \/ Goes(u, "reopening", "failed")
        /\ UNCHANGED <<saved, current, core, update>>
    BY <1>8 DEF ReopenFails, prefVars
  <2> QED
    BY <1>1, <2>1
<1>9. CASE UndoRename(u)
  <2>1. /\ Goes(u, "undoing", "undone") /\ UNCHANGED <<current, core, update>>
        /\ saved' = update[u].previous
    BY <1>9 DEF UndoRename
  <2> QED
    BY <1>1, <2>1
<1>10. CASE UndoFails(u)
  <2>1. Goes(u, "undoing", "failed") /\ UNCHANGED <<saved, current, core, update>>
    BY <1>10 DEF UndoFails, prefVars
  <2> QED
    BY <1>1, <2>1
<1>11. CASE UndoAdopt(u)
  <2>1. /\ Goes(u, "undone", "reimporting") /\ UNCHANGED <<saved, update>>
        /\ current' = update[u].previous /\ core' = None
    BY <1>11 DEF UndoAdopt
  <2> QED
    BY <1>1, <2>1
<1> QED
  BY <1>2, <1>3, <1>4, <1>5, <1>6, <1>7, <1>8, <1>9, <1>10, <1>11 DEF UpdateStep

LEMMA PreferencesStep ==
    ASSUME TypeOK, CoreOK, PreferencesOK, [Next]_vars
    PROVE  PreferencesOK'
<1> USE DEF PreferencesOK
<1>1. CASE CheckManifest \/ WriteManifest \/ MigrationFails \/ RefuseLedger \/ RecoveryFails
           \/ Archive \/ WriteBlock \/ \E f \in Files : CopyFile(f) \/ Use(f)
  <2>1. UNCHANGED <<saved, current, core, pc, update, overlapped>>
    BY <1>1 DEF CheckManifest, WriteManifest, MigrationFails, RefuseLedger, RecoveryFails, Archive,
       WriteBlock, CopyFile, Use, prefVars, updateVars
  <2>2. process' = process \/ (process \in Starting /\ process' # "ready")
    BY <1>1, NextBatchTyped DEF CheckManifest, WriteManifest, MigrationFails, RefuseLedger,
       RecoveryFails, Archive, WriteBlock, CopyFile, AtFile, Use, startVars, Starting, Migrating,
       Recovering
  <2> QED
    BY <2>1, <2>2 DEF UpdateOK, Follows, CoreFollowsPreferences, Quiet
<1>2. CASE Boot \/ RecoverLedger
  <2>1. /\ \A u \in Updates : pc[u] \notin Busy
        /\ UNCHANGED <<saved, pc, update, overlapped>> /\ saved' = current'
        /\ process' = "ready" => core' = SessionsOf(current')
    BY <1>2 DEF Boot, RecoverLedger, OpenCore, CoreOK, updateVars, prefVars, Starting, Recovering
  <2>2. \A u \in Updates : UpdateOK(u)'
    BY <2>1 DEF UpdateOK, Busy, Restarting, Undoing
  <2> QED
    BY <2>1, <2>2 DEF CoreFollowsPreferences
<1>3. CASE Exit
  <2>1. /\ process' = "down" /\ overlapped' = overlapped
        /\ \A u \in Updates : pc'[u] \notin Busy
    BY <1>3 DEF Exit, TypeOK, Busy, Restarting, Undoing
  <2>2. \A u \in Updates : UpdateOK(u)'
    BY <2>1 DEF UpdateOK, Busy, Restarting, Undoing
  <2> QED
    BY <2>1, <2>2 DEF CoreFollowsPreferences, Starting, Migrating, Recovering
<1>4. ASSUME NEW u \in Updates, NEW key \in Keys, NEW value \in BOOLEAN, BeginUpdate(u, key, value)
      PROVE  PreferencesOK'
  <2>1. /\ process = "ready" /\ UNCHANGED <<process, saved, current, core>>
        /\ pc[u] = "idle" /\ pc'[u] = "reading"
        /\ \A v \in Updates : v # u => pc'[v] = pc[v]
        /\ overlapped' = (overlapped \/ \E v \in Updates \ {u} : pc[v] \in Busy)
    BY <1>4, PcMoves DEF BeginUpdate, Goes, prefVars, startVars, TypeOK
  <2>2. SUFFICES ASSUME ~overlapped'
        PROVE  PreferencesOK'
    BY <2>1 DEF CoreFollowsPreferences, Starting, Migrating, Recovering
  <2>3. Quiet /\ ~overlapped
    BY <2>1, <2>2 DEF Quiet, Busy, Restarting, Undoing
  <2>4. saved = current /\ Follows(current)
    BY <2>1, <2>3 DEF CoreFollowsPreferences, Follows
  <2>5. ASSUME NEW v \in Updates
        PROVE  UpdateOK(v)'
    <3>1. CASE v = u
      BY <1>4, <2>1, <2>4, <3>1, UpdateBegins DEF UpdateOK, Follows
    <3>2. CASE v # u
      BY <2>1, <2>3, <3>2 DEF Quiet, UpdateOK, Busy, Restarting, Undoing
    <3> QED
      BY <3>1, <3>2
  <2>6. \A v \in Updates : pc'[v] \in Busy => v = u
    BY <2>1, <2>3 DEF Quiet
  <2>7. ~Quiet'
    BY <2>1 DEF Quiet, Busy
  <2> QED
    BY <2>1, <2>5, <2>6, <2>7 DEF CoreFollowsPreferences, Starting, Migrating, Recovering
<1>5. ASSUME NEW u \in Updates, UpdateStep(u)
      PROVE  PreferencesOK'
  <2>1. pc[u] \in Busy
    BY <1>5 DEF UpdateStep, Read, Rename, UpdateFails, Adopt, TakeFlags, Reopen, ReopenFails,
       UndoRename, UndoFails, UndoAdopt, Goes, Busy, Restarting, Undoing
  <2>2. process = "ready" /\ process' = process /\ overlapped' = overlapped
    BY <1>5, <2>1, UpdateFrame DEF CoreOK, startVars, UpdateStep, Read, Rename, UpdateFails, Adopt,
       TakeFlags, Reopen, ReopenFails, UndoRename, UndoFails, UndoAdopt
  <2>3. SUFFICES ASSUME ~overlapped
        PROVE  PreferencesOK'
    BY <2>2 DEF CoreFollowsPreferences, Starting, Migrating, Recovering
  <2>4. /\ \A v \in Updates : v # u => pc'[v] = pc[v]
        /\ UpdateOK(u)' /\ (pc'[u] \notin Busy => saved' = current' /\ Follows(current)')
    BY <1>5, <2>3, AloneStep
  <2>5. \A v \in Updates : v # u => pc'[v] \notin Busy
    BY <2>1, <2>3, <2>4
  <2>6. \A v \in Updates : v # u => UpdateOK(v)'
    BY <2>5 DEF UpdateOK, Busy, Restarting, Undoing
  <2> QED
    BY <2>2, <2>4, <2>5, <2>6 DEF CoreFollowsPreferences, Quiet, Follows, Starting, Migrating,
       Recovering
<1>6. CASE UNCHANGED vars
  BY <1>6 DEF vars, startVars, prefVars, updateVars, UpdateOK, Follows, CoreFollowsPreferences, Quiet
<1> QED
  BY <1>1, <1>2, <1>3, <1>4, <1>5, <1>6, NextCases
-----------------------------------------------------------------------------
(* The invariant, and what follows from it. *)

LEMMA InitStrong == Init => Strong
<1> SUFFICES ASSUME Init PROVE Strong
  OBVIOUS
<1>1. LedgerFile \in Files
  BY StartFiles
<1>2. DefaultPreferences \in Preferences /\ SessionsOf(DefaultPreferences) \in Sessions
  BY SessionsTyped DEF DefaultPreferences, Preferences
<1> HIDE DEF DefaultPreferences
<1>3. NoUpdate \in UpdateRecords
  BY <1>2 DEF NoUpdate, UpdateRecords, Keys
<1> HIDE DEF NoUpdate
<1>4. TypeOK
  <2>1. file \in [Files -> Contents] /\ FirstPlace \in PlaceRecords
    BY DEF Init, Contents, FirstPlace, PlaceRecords
  <2>2. update \in [Updates -> UpdateRecords] /\ pc \in [Updates -> Places]
    BY <1>3 DEF Init, Places
  <2> QED
    BY <1>2, <2>1, <2>2 DEF Init, TypeOK, UpdateRecords, PlaceRecords, Processes
<1>5. MigrationOK
  BY DEF Init, MigrationOK, MigrationComplete
<1>6. LedgerOK /\ CoreOK
  BY DEF Init, LedgerOK, CoreOK, Busy, Restarting, Undoing
<1>7. \A u \in Updates : pc[u] \notin Busy
  BY DEF Init, Busy, Restarting, Undoing
<1>8. PreferencesOK
  BY <1>7, IdleIsFine DEF Init, PreferencesOK, CoreFollowsPreferences, Starting, Migrating, Recovering
<1> QED
  BY <1>4, <1>5, <1>6, <1>8 DEF Strong

LEMMA StrongStep == Strong /\ [Next]_vars => Strong'
  BY TypeStep, MigrationStep, LedgerStep, CoreStep, PreferencesStep DEF Strong

\* What this build or the person wrote is only overwritten or removed by them.
LEMMA KeptStep ==
    ASSUME Strong, [Next]_vars, NEW f \in Files
    PROVE  /\ file[f] = "own" => file'[f] = "own"
           /\ file[f] # "absent" /\ file'[f] = "absent" =>
                \/ f \in place.created /\ process' = "failed"
                \/ f = LedgerFile /\ archived'
<1> DEFINE Kept == /\ file[f] = "own" => file'[f] = "own"
                   /\ file[f] # "absent" /\ file'[f] = "absent" =>
                        \/ f \in place.created /\ process' = "failed"
                        \/ f = LedgerFile /\ archived'
<1>1. TypeOK /\ MigrationOK /\ LedgerOK /\ LedgerFile \in Files /\ file \in [Files -> Contents]
  BY StartFiles DEF Strong, TypeOK
<1>2. CASE Boot \/ CheckManifest \/ WriteManifest \/ RefuseLedger \/ RecoveryFails
  BY <1>2 DEF Boot, CheckManifest, WriteManifest, RefuseLedger, RecoveryFails, dataVars
<1>3. CASE MigrationFails
  <2>1. process \in Migrating /\ process' = "failed"
    BY <1>3 DEF MigrationFails
  <2> QED
    BY <1>1, <1>3, <2>1, TouchedByMigration DEF MigrationFails
<1>4. CASE RecoverLedger
  BY <1>1, <1>4 DEF RecoverLedger, OpenCore
<1>5. CASE Archive \/ WriteBlock
  BY <1>1, <1>5 DEF Archive, WriteBlock, LedgerOK
<1>6. CASE Exit
  BY <1>1, <1>6 DEF Exit, Unfinished, Missing, LedgerOK
<1>7. ASSUME NEW g \in Files, CopyFile(g) \/ Use(g)
      PROVE  Kept
  BY <1>1, <1>7 DEF CopyFile, Missing, Use
<1>8. ASSUME \/ \E u \in Updates, key \in Keys, value \in BOOLEAN : BeginUpdate(u, key, value)
             \/ \E u \in Updates : UpdateStep(u)
             \/ UNCHANGED vars
      PROVE  Kept
  BY <1>8, UpdateFrame DEF dataVars
<1> QED
  BY <1>2, <1>3, <1>4, <1>5, <1>6, <1>7, <1>8, NextCases

\* Every reachable state of the desktop process satisfies the invariant.
THEOREM StartInvariant == Spec => []Strong
  BY InitStrong, StrongStep, PTL DEF Spec

\* Files, stages, preferences and updates keep their types.
THEOREM StartTypes == Spec => []TypeOK
<1>1. Strong => TypeOK
  BY DEF Strong
<1> QED
  BY <1>1, StartInvariant, PTL

\* Starts, retried starts, failed migrations and exits at any step overwrite
\* nothing that this build or the person wrote, and remove only copies of their
\* own and the ledger that was archived.
THEOREM StartsKeepData == Spec => OwnDataKept
<1>1. Strong /\ [Next]_vars =>
        [\A f \in Files :
            /\ file[f] = "own" => file'[f] = "own"
            /\ file[f] # "absent" /\ file'[f] = "absent" =>
                 \/ f \in place.created /\ process' = "failed"
                 \/ f = LedgerFile /\ archived']_vars
  BY KeptStep
<1> QED
  BY <1>1, StartInvariant, PTL DEF Spec, OwnDataKept

\* A manifest is never written for a batch that is short of an older file.
THEOREM ManifestsAreTrue == Spec => []MigrationComplete
<1>1. Strong => MigrationComplete
  BY DEF Strong, MigrationOK
<1> QED
  BY <1>1, StartInvariant, PTL

\* However starts fail and are repeated, no core runs unblocked over open work of
\* an older ledger, unless the block itself was interrupted.
THEOREM OlderWorkBlocks == Spec => []OpenWorkBlocks
<1>1. Strong => OpenWorkBlocks
  BY BlockedOrInterrupted DEF Strong
<1> QED
  BY <1>1, StartInvariant, PTL

\* Updates one after the other, with any restarts and undos failing, leave the
\* core with the flags that are shown and saved.
THEOREM CoreIsCurrent == Spec => []CoreFollowsPreferences
<1>1. Strong => CoreFollowsPreferences
  BY DEF Strong, PreferencesOK
<1> QED
  BY <1>1, StartInvariant, PTL
=============================================================================
