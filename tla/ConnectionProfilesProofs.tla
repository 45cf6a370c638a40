----------------------- MODULE ConnectionProfilesProofs ----------------------
(***************************************************************************)
(* The properties of ConnectionProfiles for any number of profiles, calls, *)
(* searches and requests to the catalog.                                   *)
(*                                                                         *)
(* The argument: a call only holds a sound document that allows what the   *)
(* call does to it (CallOK), so whatever it builds is sound.  A call that  *)
(* loads after another has saved sees its effect, so only calls that held  *)
(* a document at that save can undo it (HeldOK).  As long as the wizard's  *)
(* requests did not cross, at most one is under way and the wizard waits   *)
(* for it (WizardOK).  A search that saw no switch has listed the machine  *)
(* its results are bound to (SearchOK).                                    *)
(***************************************************************************)
EXTENDS ConnectionProfiles, TLAPS

CallRecords ==
    [kind : Kinds, id : Ids \cup {None}, stage : Stages, copy : Documents, by : {"wizard", "other"}]
Forms == [list : SUBSET Ids, saving : BOOLEAN]
Wizards ==
    [step : {"connection", "testing", "capabilities", "complete"}, profile : Ids \cup {None},
     failure : {"none", "save", "verify", "profiles"}, load : {"ready", "unavailable"},
     form : Forms, listing : BOOLEAN, result : Ids \cup {None}, starting : BOOLEAN]
Bindings == Ids \cup {None}
Items == [binding : Bindings, found : Bindings, mixed : BOOLEAN, id : Nat]

StoreTyped ==
    /\ file \in Documents /\ Fits(file)
    /\ call \in [Calls -> CallRecords]
    /\ overlap \in [Calls -> SUBSET Calls] /\ later \in [Calls -> SUBSET Calls]

\* A call holds a loaded document from its load to its answer, a sound one in
\* which it found what it needs.
CallOK(c) ==
    /\ call[c].stage # "free" => call[c].id \in Ids
    /\ call[c].stage \notin Holding => call[c].copy = Empty
    /\ call[c].stage \in Holding => Sound(call[c].copy) /\ MayUse(c, call[c].copy)
    /\ \A d \in later[c] : call[d].stage # "free"

StoreInv ==
    /\ StoreTyped /\ Sound(file)
    /\ \A c \in Calls : CallOK(c)

\* What a call has done to a document.
EffectIn(c, d) ==
    CASE call[c].kind = "create" -> call[c].id \in d.known
      [] call[c].kind = "verify" -> call[c].id \in d.verified
      [] OTHER -> d.active = call[c].id

\* The calls that may have undone it.
Undone(c) ==
    \E d \in later[c] :
        d \in overlap[c] \/ (call[c].kind = "activate" /\ call[d].kind = "activate")

\* A document loaded after a call was done has its effect.
HeldOK ==
    \A c, d \in Calls :
        /\ call[c].stage = "ok" /\ call[d].stage \in Holding /\ d \notin overlap[c]
        => EffectIn(c, call[d].copy) \/ Undone(c)

WizardTyped ==
    /\ page \in {"setup", "models"}
    /\ wizard \in Wizards /\ heard \subseteq Calls /\ crossed \in BOOLEAN
    /\ wizard.step = "testing" => wizard.profile # None

\* The wizard waits for the one call it has made.
WizardOK ==
    /\ \A c \in Pending : call[c].kind \in {"create", "verify"}
    /\ ~crossed =>
         /\ \A c, d \in Pending : c = d
         /\ \A c \in Pending :
              /\ call[c].kind = "create" => wizard.step = "connection"
              /\ call[c].kind = "verify" =>
                   wizard.step = "testing" /\ wizard.profile = call[c].id
WizardInv == WizardTyped /\ WizardOK /\ WizardShowsTheVerified

CatalogTyped ==
    /\ search.stage \in {"none", "target", "remote"}
    /\ search.binding \in Bindings /\ search.target \in Bindings
    /\ searches \in 0..MaxSearches /\ switched \in BOOLEAN
    /\ results \in Items \cup {None}
    /\ consumer \in [Consumers -> [stage : {"idle", "binding", "done"}, item : Items \cup {None}]]

\* What a search without a switch has seen, and what became of its result.
SearchOK ==
    /\ search.stage # "none" /\ ~switched => search.binding = file.active /\ file.active # None
    /\ search.stage = "remote" /\ ~switched => search.binding = search.target
    /\ results # None => (results.binding # results.found => results.mixed)
    /\ \A k \in Consumers : consumer[k].stage = "binding" =>
         (consumer[k].item.binding # consumer[k].item.found => consumer[k].item.mixed)
CatalogInv == CatalogTyped /\ SearchOK /\ CatalogNamesItsMachine

Strong == StoreInv /\ HeldOK /\ UpdatesLast /\ WizardInv /\ CatalogInv
-----------------------------------------------------------------------------
(* The store. *)

\* A call is made.
Begins(c, kind, id, by) ==
    /\ call[c].stage = "free" /\ kind \in Kinds /\ id \in Ids /\ by \in {"wizard", "other"}
    /\ call' = Made(c, kind, id, by)
    /\ UNCHANGED <<file, overlap, later>>

LEMMA Documented ==
    /\ Empty \in Documents /\ Sound(Empty)
    /\ NoCall \in CallRecords
  BY DEF Empty, NoCall, CallRecords, Documents, Sound, Kinds, Stages

\* The wizard's calls.
LEMMA TestBegins ==
    ASSUME NEW id \in Ids, NEW w, Test(id, w)
    PROVE  \E c \in Calls : Begins(c, "verify", id, "wizard")
  BY DEF Test, Calling, Begins, Kinds

LEMMA StoreCases ==
    ASSUME StoreInv, WizardTyped, [Next]_vars
    PROVE  \/ \E c \in Calls, kind \in Kinds, id \in Ids, by \in {"wizard", "other"} :
                Begins(c, kind, id, by)
           \/ \E c \in Calls : CallStep(c)
           \/ UNCHANGED storeVars
<1> DEFINE Some == \E c \in Calls, kind \in Kinds, id \in Ids, by \in {"wizard", "other"} :
                       Begins(c, kind, id, by)
<1>1. ASSUME NEW c \in Calls, NEW kind \in Kinds, NEW id \in Ids, Request(c, kind, id)
      PROVE  Some
  BY <1>1 DEF Request, Begins
<1>2. ASSUME NEW id \in Ids, NEW w, Test(id, w)
      PROVE  Some
  BY <1>2, TestBegins DEF Kinds
<1>3. ASSUME WizardStep
      PROVE  Some \/ UNCHANGED storeVars
  <2>1. CASE Listed \/ ListFails \/ Retry \/ Continue
    BY <2>1 DEF Listed, ListFails, Retry, Continue, Turn, Turns
  <2>2. CASE Create
    BY <2>2 DEF Create, Calling, Begins, Kinds, Fresh
  <2>3. CASE Select
    <3>1. wizard.form.list \subseteq Ids
      BY DEF WizardTyped, Wizards, Forms
    <3> QED
      BY <1>2, <2>3, <3>1 DEF Select
  <2>4. CASE RuntimeArrives
    <3>1. wizard.step = "testing" => wizard.profile \in Ids
      BY DEF WizardTyped, Wizards
    <3> QED
      BY <1>2, <2>4, <3>1 DEF RuntimeArrives, Turn, Turns
  <2>5. ASSUME NEW c \in Calls, Hear(c)
        PROVE  Some \/ UNCHANGED storeVars
    <3>1. call[c].id \in Ids
      BY <2>5 DEF Hear, Pending, StoreInv, CallOK
    <3> HIDE DEF Some
    <3> QED
      BY <1>2, <2>5, <3>1 DEF Hear, Turn, Turns
  <2> HIDE DEF Some
  <2> QED
    BY <1>3, <2>1, <2>2, <2>3, <2>4, <2>5 DEF WizardStep
<1>4. ModelStep => UNCHANGED storeVars
  BY DEF ModelStep, Search, FindTarget, Listing, Prune, Consume, AddFound, RefuseFound,
     SearchGoes, ConsumerGoes
<1>5. UNCHANGED vars => UNCHANGED storeVars
  BY DEF vars
<1> HIDE DEF Some
<1>6. Some \/ (\E c \in Calls : CallStep(c)) \/ UNCHANGED storeVars
  BY <1>1, <1>3, <1>4, <1>5 DEF Next
<1> QED
  BY <1>6 DEF Some

\* What the steps make of the record of a call.
Became(c, kind, id, stage, copy, by) ==
    /\ call' \in [Calls -> CallRecords]
    /\ call'[c].kind = kind /\ call'[c].id = id /\ call'[c].stage = stage
    /\ call'[c].copy = copy /\ call'[c].by = by
    /\ \A d \in Calls : d # c => call'[d] = call[d]

LEMMA CallBecomes ==
    ASSUME StoreTyped, NEW c \in Calls, NEW record \in CallRecords,
           call' = [call EXCEPT ![c] = record]
    PROVE  Became(c, record.kind, record.id, record.stage, record.copy, record.by)
  BY DEF StoreTyped, Became

LEMMA CallBegins ==
    ASSUME StoreTyped, NEW c \in Calls, NEW kind \in Kinds, NEW id \in Ids,
           NEW by \in {"wizard", "other"}, Begins(c, kind, id, by)
    PROVE  Became(c, kind, id, FirstStage(kind), Empty, by)
<1> DEFINE record == [kind |-> kind, id |-> id, stage |-> FirstStage(kind), copy |-> Empty,
                      by |-> by]
<1>1. /\ record \in CallRecords /\ record.kind = kind /\ record.id = id
      /\ record.stage = FirstStage(kind) /\ record.copy = Empty /\ record.by = by
  BY Documented DEF CallRecords, FirstStage, Stages
<1>2. call' = [call EXCEPT ![c] = record]
  BY DEF Begins, Made
<1> HIDE DEF record
<1> QED
  BY <1>1, <1>2, CallBecomes

LEMMA CallMoves ==
    ASSUME StoreTyped, NEW c \in Calls, NEW stage \in Stages, NEW copy \in Documents,
           call' = [call EXCEPT ![c].stage = stage, ![c].copy = copy]
    PROVE  Became(c, call[c].kind, call[c].id, stage, copy, call[c].by)
<1> DEFINE record == [call[c] EXCEPT !.stage = stage, !.copy = copy]
<1>1. /\ record \in CallRecords /\ record.kind = call[c].kind /\ record.id = call[c].id
      /\ record.stage = stage /\ record.copy = copy /\ record.by = call[c].by
  BY DEF CallRecords, StoreTyped
<1>2. call' = [call EXCEPT ![c] = record]
  BY DEF StoreTyped
<1> HIDE DEF record
<1> QED
  BY <1>1, <1>2, CallBecomes

\* A call that has neither saved nor failed before goes on alone; it holds the
\* stored document when it has loaded it.
LEMMA CallGoes ==
    ASSUME StoreInv, NEW c \in Calls, CallStep(c), ~Save(c)
    PROVE  /\ UNCHANGED <<file, overlap, later>>
           /\ call[c].stage \notin {"free", "ok", "error"}
           /\ \E stage \in Stages \ {"free", "ok"}, copy \in Documents :
                /\ Became(c, call[c].kind, call[c].id, stage, copy, call[c].by)
                /\ stage \notin Holding => copy = Empty
                /\ stage \in Holding => \/ call[c].stage \in Holding /\ copy = call[c].copy
                                        \/ Load(c) /\ copy = file /\ MayUse(c, file)
<1>1. StoreTyped /\ Empty \in Documents /\ file \in Documents /\ call[c].copy \in Documents
  BY Documented DEF StoreInv, StoreTyped, CallRecords
<1>2. ASSUME NEW stage \in Stages, NEW copy \in Documents, Goes(c, stage, copy)
      PROVE  /\ UNCHANGED <<file, overlap, later>>
             /\ Became(c, call[c].kind, call[c].id, stage, copy, call[c].by)
  BY <1>1, <1>2, CallMoves DEF Goes
<1>3. CASE LookUp(c)
  BY <1>1, <1>2, <1>3 DEF LookUp, Stages, Holding
<1>4. CASE Verifier(c)
  BY <1>1, <1>2, <1>4 DEF Verifier, Stages, Holding
<1>5. CASE Load(c)
  BY <1>1, <1>2, <1>5 DEF Load, Stages, Holding
<1>6. CASE CanActivate(c)
  BY <1>1, <1>2, <1>6 DEF CanActivate, Stages, Holding
<1>7. CASE SaveFails(c)
  BY <1>1, <1>2, <1>7 DEF SaveFails, Stages, Holding
<1> QED
  BY <1>3, <1>4, <1>5, <1>6, <1>7 DEF CallStep

\* What is saved is sound, as it is built from a sound document that allows it.
LEMMA SavedIsSound ==
    ASSUME StoreInv, NEW c \in Calls, call[c].stage = "save"
    PROVE  Updated(c) \in Documents /\ Sound(Updated(c))
<1> DEFINE d == call[c].copy
<1>1. d \in Documents /\ Sound(d) /\ MayUse(c, d) /\ call[c].id \in Ids /\ call[c].kind \in Kinds
  BY DEF StoreInv, StoreTyped, CallRecords, CallOK, Holding
<1>2. CASE call[c].kind = "create"
  BY <1>1, <1>2 DEF Updated, Documents, Sound
<1>3. CASE call[c].kind = "verify"
  BY <1>1, <1>3 DEF Updated, Documents, Sound, MayUse
<1>4. CASE call[c].kind = "activate"
  BY <1>1, <1>4 DEF Updated, Documents, Sound, MayUse
<1> QED
  BY <1>1, <1>2, <1>3, <1>4 DEF Kinds

LEMMA CallSaves ==
    ASSUME StoreInv, NEW c \in Calls, Save(c)
    PROVE  /\ \E stage \in {"ok", "error"} :
                Became(c, call[c].kind, call[c].id, stage, Empty, call[c].by)
           /\ file' = Updated(c) /\ file' \in Documents /\ Sound(file') /\ Fits(file')
           /\ overlap' \in [Calls -> SUBSET Calls] /\ later' \in [Calls -> SUBSET Calls]
           /\ call'[c].stage = "ok" =>
                overlap'[c] = {d \in Calls \ {c} : call[d].stage \in Holding}
           /\ \A d \in Calls : d # c => overlap'[d] = overlap[d]
           /\ \A d \in Calls :
                later'[d] = IF call[d].stage = "ok" THEN later[d] \cup {c} ELSE later[d]
<1>1. StoreTyped /\ call[c].stage = "save"
  BY DEF StoreInv, Save
<1>2. \E stage \in {"ok", "error"} :
        Became(c, call[c].kind, call[c].id, stage, Empty, call[c].by)
  BY <1>1, Documented, CallMoves DEF Save, Stages
<1>3. file' = Updated(c) /\ file' \in Documents /\ Sound(file') /\ Fits(file')
  BY <1>1, SavedIsSound DEF Save, WithinLimit
<1> QED
  BY <1>1, <1>2, <1>3 DEF Save, StoreTyped

LEMMA StoreStep ==
    ASSUME StoreInv, WizardTyped, [Next]_vars
    PROVE  StoreInv'
<1> USE DEF StoreInv
<1>1. ASSUME NEW c \in Calls, NEW kind \in Kinds, NEW id \in Ids, NEW by \in {"wizard", "other"},
             Begins(c, kind, id, by)
      PROVE  StoreInv'
  <2>1. Became(c, kind, id, FirstStage(kind), Empty, by) /\ FirstStage(kind) \notin Holding
    BY <1>1, CallBegins DEF FirstStage, Holding
  <2> QED
    BY <1>1, <2>1 DEF Begins, Became, StoreTyped, CallOK, MayUse
<1>2. ASSUME NEW c \in Calls, CallStep(c), ~Save(c)
      PROVE  StoreInv'
  <2>1. PICK stage \in Stages \ {"free", "ok"}, copy \in Documents :
                /\ Became(c, call[c].kind, call[c].id, stage, copy, call[c].by)
                /\ stage \notin Holding => copy = Empty
                /\ stage \in Holding => \/ call[c].stage \in Holding /\ copy = call[c].copy
                                        \/ Load(c) /\ copy = file /\ MayUse(c, file)
    BY <1>2, CallGoes
  <2>2. UNCHANGED <<file, overlap, later>> /\ call[c].stage # "free"
    BY <1>2, CallGoes
  <2>3. \A d \in Calls : \A e \in later[d] : call'[e].stage # "free"
    BY <2>1 DEF Became, CallOK, StoreTyped
  <2>4. ASSUME NEW d \in Calls
        PROVE  CallOK(d)'
    <3>1. CASE d = c
      BY <2>1, <2>2, <2>3, <3>1 DEF Became, CallOK, MayUse
    <3>2. CASE d # c
      BY <2>1, <2>2, <2>3, <3>2 DEF Became, CallOK, MayUse
    <3> QED
      BY <3>1, <3>2
  <2> QED
    BY <2>1, <2>2, <2>4 DEF Became, StoreTyped
<1>3. ASSUME NEW c \in Calls, Save(c)
      PROVE  StoreInv'
  <2>1. PICK stage \in {"ok", "error"} :
          Became(c, call[c].kind, call[c].id, stage, Empty, call[c].by)
    BY <1>3, CallSaves
  <2>0. call[c].stage = "save"
    BY <1>3 DEF Save
  <2>2. StoreTyped' /\ Sound(file)'
    BY <1>3, CallSaves DEF Became, StoreTyped
  <2>3. ASSUME NEW d \in Calls
        PROVE  CallOK(d)'
    <3>1. \A e \in later'[d] : e \in Calls /\ call'[e].stage # "free"
      <4>1. later'[d] \subseteq later[d] \cup {c}
        BY <1>3, CallSaves
      <4> QED
        BY <2>1, <4>1 DEF Became, CallOK, StoreTyped
    <3>2. CASE d = c
      BY <2>0, <2>1, <3>1, <3>2 DEF Became, CallOK, MayUse, Holding
    <3>3. CASE d # c
      BY <2>1, <3>1, <3>3 DEF Became, CallOK, MayUse, Holding
    <3> QED
      BY <3>2, <3>3
  <2> QED
    BY <2>2, <2>3
<1>4. ASSUME UNCHANGED storeVars
      PROVE  StoreInv'
  BY <1>4 DEF storeVars, StoreTyped, CallOK, MayUse
<1> QED
  BY <1>1, <1>2, <1>3, <1>4, StoreCases

-----------------------------------------------------------------------------
(* Updates that last. *)

\* A saved document has the effect of its call.
LEMMA OwnEffect ==
    ASSUME StoreInv, NEW c \in Calls, Save(c)
    PROVE  EffectIn(c, Updated(c))
<1>1. call[c].copy \in Documents /\ call[c].kind \in Kinds
  BY DEF StoreInv, StoreTyped, CallRecords
<1> QED
  BY <1>1 DEF EffectIn, Updated, Documents, Kinds

\* It keeps every effect of the document it was built from, but for activations.
LEMMA EffectKept ==
    ASSUME StoreInv, NEW c \in Calls, NEW d \in Calls, Save(d), EffectIn(c, call[d].copy),
           ~(call[c].kind = "activate" /\ call[d].kind = "activate")
    PROVE  EffectIn(c, Updated(d))
<1>1. /\ call[d].copy \in Documents /\ call[d].kind \in Kinds /\ call[c].kind \in Kinds
  BY DEF StoreInv, StoreTyped, CallRecords
<1> QED
  BY <1>1 DEF EffectIn, Updated, Documents, Kinds

LEMMA EffectIs ==
    ASSUME NEW c \in Calls
    PROVE  Effect(c) <=> EffectIn(c, file)
  BY DEF Effect, EffectIn

\* Whoever made a call, it stays what it is once it has begun.
Same(c) == call'[c].kind = call[c].kind /\ call'[c].id = call[c].id

LEMMA EffectSame ==
    ASSUME NEW c \in Calls, Same(c)
    PROVE  /\ EffectIn(c, file)' <=> EffectIn(c, file')
           /\ \A d \in Calls : EffectIn(c, call[d].copy)' <=> EffectIn(c, call'[d].copy)
  BY DEF EffectIn, Same

LEMMA UndoneStays ==
    ASSUME StoreInv, NEW c \in Calls, Undone(c), Same(c),
           later[c] \subseteq later'[c], overlap'[c] = overlap[c],
           \A d \in Calls : call[d].stage # "free" => Same(d)
    PROVE  Undone(c)'
<1>1. PICK d \in later[c] : d \in overlap[c] \/ (call[c].kind = "activate" /\ call[d].kind = "activate")
  BY DEF Undone
<1>2. d \in Calls /\ Same(d)
  BY <1>1 DEF StoreInv, StoreTyped, CallOK
<1> QED
  BY <1>1, <1>2 DEF Undone, Same

LEMMA UpdatesStep ==
    ASSUME StoreInv, WizardTyped, HeldOK, UpdatesLast, [Next]_vars
    PROVE  HeldOK' /\ UpdatesLast'
<1>1. /\ StoreTyped /\ \A c \in Calls : CallOK(c)
      /\ \A c \in Calls : call[c].stage = "ok" => EffectIn(c, file) \/ Undone(c)
  BY EffectIs DEF StoreInv, UpdatesLast, Undone
<1> SUFFICES ASSUME NEW c \in Calls, call'[c].stage = "ok"
             PROVE  /\ EffectIn(c, file)' \/ Undone(c)'
                    /\ \A d \in Calls : call'[d].stage \in Holding /\ d \notin overlap'[c] =>
                         EffectIn(c, call[d].copy)' \/ Undone(c)'
  <2>1. UpdatesLast' <=> \A c \in Calls : call'[c].stage = "ok" => Effect(c)' \/ Undone(c)'
    BY DEF UpdatesLast, Undone
  <2>2. \A c \in Calls : Effect(c)' <=> EffectIn(c, file)'
    BY DEF Effect, EffectIn
  <2> QED
    BY <2>1, <2>2 DEF HeldOK
\* What holds of c whenever c was done before and the store is not saved.
<1>2. ASSUME call'[c] = call[c], UNCHANGED <<file, overlap, later>>,
             \A d \in Calls : call[d].stage # "free" => Same(d),
             \A d \in Calls : call'[d].stage \in Holding =>
                 \/ call[d].stage \in Holding /\ call'[d].copy = call[d].copy
                 \/ call'[d].copy = file
      PROVE  /\ EffectIn(c, file)' \/ Undone(c)'
             /\ \A d \in Calls : call'[d].stage \in Holding /\ d \notin overlap'[c] =>
                  EffectIn(c, call[d].copy)' \/ Undone(c)'
  <2>1. EffectIn(c, file) \/ Undone(c)
    BY <1>1, <1>2
  <2>2. Undone(c) => Undone(c)'
    BY <1>2, UndoneStays DEF Same
  <2>3. ASSUME NEW d \in Calls, call'[d].stage \in Holding, d \notin overlap'[c]
        PROVE  EffectIn(c, call'[d].copy) \/ Undone(c)
    BY <1>2, <2>1, <2>3 DEF HeldOK
  <2> QED
    BY <1>2, <2>1, <2>2, <2>3, EffectSame DEF Same
<1>3. ASSUME NEW e \in Calls, NEW kind \in Kinds, NEW id \in Ids, NEW by \in {"wizard", "other"},
             Begins(e, kind, id, by)
      PROVE  /\ EffectIn(c, file)' \/ Undone(c)'
             /\ \A d \in Calls : call'[d].stage \in Holding /\ d \notin overlap'[c] =>
                  EffectIn(c, call[d].copy)' \/ Undone(c)'
  <2>1. Became(e, kind, id, FirstStage(kind), Empty, by)
        /\ FirstStage(kind) \notin Holding \cup {"ok"} /\ call[e].stage = "free"
    BY <1>1, <1>3, CallBegins DEF FirstStage, Holding, Begins
  <2> QED
    BY <1>2, <1>3, <2>1 DEF Begins, Became, Same
<1>4. ASSUME NEW e \in Calls, CallStep(e), ~Save(e)
      PROVE  /\ EffectIn(c, file)' \/ Undone(c)'
             /\ \A d \in Calls : call'[d].stage \in Holding /\ d \notin overlap'[c] =>
                  EffectIn(c, call[d].copy)' \/ Undone(c)'
  <2>1. PICK stage \in Stages \ {"free", "ok"}, copy \in Documents :
                /\ Became(e, call[e].kind, call[e].id, stage, copy, call[e].by)
                /\ stage \notin Holding => copy = Empty
                /\ stage \in Holding => \/ call[e].stage \in Holding /\ copy = call[e].copy
                                        \/ Load(e) /\ copy = file /\ MayUse(e, file)
    BY <1>4, CallGoes
  <2>2. UNCHANGED <<file, overlap, later>>
    BY <1>4, CallGoes
  <2> QED
    BY <1>2, <2>1, <2>2 DEF Became, Same
<1>5. ASSUME NEW e \in Calls, Save(e)
      PROVE  /\ EffectIn(c, file)' \/ Undone(c)'
             /\ \A d \in Calls : call'[d].stage \in Holding /\ d \notin overlap'[c] =>
                  EffectIn(c, call[d].copy)' \/ Undone(c)'
  <2>0. PICK stage \in {"ok", "error"} :
          Became(e, call[e].kind, call[e].id, stage, Empty, call[e].by)
    BY <1>5, CallSaves DEF StoreInv
  <2>1. /\ Became(e, call[e].kind, call[e].id, stage, Empty, call[e].by)
        /\ file' = Updated(e) /\ call[e].stage = "save"
        /\ call'[e].stage = "ok" =>
             overlap'[e] = {d \in Calls \ {e} : call[d].stage \in Holding}
        /\ \A d \in Calls : d # e => overlap'[d] = overlap[d]
        /\ \A d \in Calls :
             later'[d] = IF call[d].stage = "ok" THEN later[d] \cup {e} ELSE later[d]
    BY <1>5, <2>0, CallSaves DEF StoreInv, Save
  <2>2. \A d \in Calls : Same(d)
    BY <2>1 DEF Became, Same
  <2>3. CASE e = c
    <3>1. EffectIn(c, file)'
      BY <1>5, <2>1, <2>2, <2>3, OwnEffect, EffectSame
    <3>2. \A d \in Calls : call'[d].stage \in Holding => d \in overlap'[c]
      BY <2>1, <2>3 DEF Became, Holding
    <3> QED
      BY <3>1, <3>2
  <2>4. CASE e # c
    <3>1. /\ call'[c] = call[c] /\ call[c].stage = "ok"
          /\ later'[c] = later[c] \cup {e} /\ overlap'[c] = overlap[c]
      BY <2>1, <2>4 DEF Became
    <3>2. Undone(c) => Undone(c)'
      BY <2>2, <3>1, UndoneStays
    <3>3. e \in overlap[c] => Undone(c)'
      BY <3>1 DEF Undone
    <3>4. call[c].kind = "activate" /\ call[e].kind = "activate" => Undone(c)'
      BY <2>2, <3>1 DEF Undone, Same
    <3>5. e \notin overlap[c] => EffectIn(c, call[e].copy) \/ Undone(c)
      BY <2>1, <3>1 DEF HeldOK, Holding
    <3>6. EffectIn(c, file)' \/ Undone(c)'
      BY <1>5, <2>1, <2>2, <3>2, <3>3, <3>4, <3>5, EffectKept, EffectSame
    <3>7. ASSUME NEW d \in Calls, call'[d].stage \in Holding, d \notin overlap'[c]
          PROVE  EffectIn(c, call[d].copy)' \/ Undone(c)'
      <4>1. call'[d] = call[d]
        BY <2>1, <3>7 DEF Became, Holding
      <4> QED
        BY <2>2, <3>1, <3>2, <3>7, <4>1, EffectSame DEF HeldOK
    <3> QED
      BY <3>6, <3>7
  <2> QED
    BY <2>3, <2>4
<1>6. ASSUME UNCHANGED storeVars
      PROVE  /\ EffectIn(c, file)' \/ Undone(c)'
             /\ \A d \in Calls : call'[d].stage \in Holding /\ d \notin overlap'[c] =>
                  EffectIn(c, call[d].copy)' \/ Undone(c)'
  BY <1>2, <1>6 DEF storeVars, Same
<1> QED
  BY <1>3, <1>4, <1>5, <1>6, StoreCases
-----------------------------------------------------------------------------
(* The wizard. *)

\* The fields the properties are about.
Shows(w, step, profile, result) == w.step = step /\ w.profile = profile /\ w.result = result

LEMMA MountedKeeps ==
    ASSUME NEW w \in Wizards
    PROVE  Mounted(w) \in Wizards /\ Shows(Mounted(w), w.step, w.profile, w.result)
<1> DEFINE m == [w EXCEPT !.form = Form, !.listing = TRUE]
<1>1. Form \in Forms
  BY DEF Form, Forms
<1>2. m \in Wizards /\ m.step = w.step /\ m.profile = w.profile /\ m.result = w.result
  BY <1>1 DEF Wizards
<1> HIDE DEF m
<1>3. Mounted(w) \in {w, m}
  BY DEF Mounted, m
<1> QED
  BY <1>2, <1>3 DEF Shows

\* The states the wizard goes to.
LEMMA WizardStates ==
    ASSUME WizardTyped
    PROVE  /\ \A id \in Ids : /\ ToTesting(id) \in Wizards
                              /\ Shows(ToTesting(id), "testing", id, None)
                              /\ VerifyOk(id) \in Wizards
                              /\ Shows(VerifyOk(id), "capabilities", wizard.profile, id)
           /\ SaveProfileFail \in Wizards
           /\ Shows(SaveProfileFail, "connection", None, wizard.result)
           /\ VerifyFail \in Wizards /\ Shows(VerifyFail, "connection", None, None)
           /\ ProfilesLoadFail \in Wizards /\ Shows(ProfilesLoadFail, "connection", None, None)
<1>1. wizard \in Wizards /\ wizard.form \in Forms
  BY DEF WizardTyped, Wizards
<1>2. \A id \in Ids : ToTesting(id) \in Wizards /\ Shows(ToTesting(id), "testing", id, None)
  BY <1>1 DEF ToTesting, Wizards, Shows
<1>3. \A id \in Ids : VerifyOk(id) \in Wizards
                      /\ Shows(VerifyOk(id), "capabilities", wizard.profile, id)
  BY <1>1 DEF VerifyOk, Wizards, Shows
<1>4. SaveProfileFail \in Wizards /\ Shows(SaveProfileFail, "connection", None, wizard.result)
  <2> DEFINE form == [wizard.form EXCEPT !.saving = FALSE]
  <2>1. form \in Forms
    BY <1>1 DEF Forms
  <2>2. SaveProfileFail = [wizard EXCEPT !.step = "connection", !.profile = None, !.failure = "save",
                                         !.load = "ready", !.form = form]
    BY <1>1 DEF SaveProfileFail, Wizards
  <2> HIDE DEF form
  <2> QED
    BY <1>1, <2>1, <2>2 DEF Wizards, Shows
<1>5. VerifyFail \in Wizards /\ Shows(VerifyFail, "connection", None, None)
  BY <1>1 DEF VerifyFail, Wizards, Shows
<1>6. ProfilesLoadFail \in Wizards /\ Shows(ProfilesLoadFail, "connection", None, None)
  BY <1>1 DEF ProfilesLoadFail, Wizards, Shows
<1> QED
  BY <1>2, <1>3, <1>4, <1>5, <1>6

\* The fields of a call never change once it was made, nor does a call done.
LEMMA CallsStay ==
    ASSUME StoreInv, WizardTyped, [Next]_vars, NEW c \in Calls
    PROVE  /\ call[c].stage = "ok" => call'[c] = call[c]
           /\ call[c].stage # "free" =>
                Same(c) /\ call'[c].by = call[c].by /\ call'[c].stage # "free"
<1>1. ASSUME NEW e \in Calls, NEW kind \in Kinds, NEW id \in Ids, NEW by \in {"wizard", "other"},
             Begins(e, kind, id, by), call[c].stage # "free"
      PROVE  call'[c] = call[c]
  BY <1>1, CallBegins DEF StoreInv, Became, Begins
<1>2. ASSUME NEW e \in Calls, CallStep(e), ~Save(e)
      PROVE  /\ call[c].stage = "ok" => call'[c] = call[c]
             /\ call[c].stage # "free" =>
                  Same(c) /\ call'[c].by = call[c].by /\ call'[c].stage # "free"
  BY <1>2, CallGoes DEF Became, Same
<1>3. ASSUME NEW e \in Calls, Save(e)
      PROVE  /\ call[c].stage = "ok" => call'[c] = call[c]
             /\ call[c].stage # "free" =>
                  Same(c) /\ call'[c].by = call[c].by /\ call'[c].stage # "free"
  BY <1>3, CallSaves DEF Became, Same, Save
<1>4. CASE UNCHANGED storeVars
  BY <1>4 DEF storeVars, Same
<1> QED
  BY <1>1, <1>2, <1>3, <1>4, StoreCases DEF Same

\* What is shown goes on being so.
LEMMA ShowsStays ==
    ASSUME StoreInv, WizardTyped, WizardShowsTheVerified, [Next]_vars,
           Shows(wizard', wizard.step, wizard.profile, wizard.result) \/ wizard' = wizard,
           heard \subseteq heard', crossed => crossed'
    PROVE  WizardShowsTheVerified'
  BY CallsStay DEF WizardShowsTheVerified, WizardTyped, Shows

\* Steps that are not the wizard's.
LEMMA OthersWait ==
    ASSUME StoreInv, WizardTyped, WizardOK, [Next]_vars, UNCHANGED wizardVars,
           Pending' \subseteq Pending
    PROVE  WizardOK'
<1>1. \A c \in Pending : c \in Calls /\ Same(c)
  BY CallsStay DEF Pending
<1> QED
  BY <1>1 DEF WizardOK, wizardVars, Same

LEMMA OthersPending ==
    ASSUME StoreInv, WizardTyped, [Next]_vars, ~WizardStep
    PROVE  UNCHANGED <<wizardVars, page>> /\ Pending' \subseteq Pending
<1>1. ASSUME NEW e \in Calls, NEW kind \in Kinds, NEW id \in Ids, Request(e, kind, id)
      PROVE  UNCHANGED <<wizardVars, page>> /\ Pending' \subseteq Pending
  <2>1. Became(e, kind, id, FirstStage(kind), Empty, "other")
    BY <1>1, CallBegins DEF Request, Begins, StoreInv
  <2> QED
    BY <1>1, <2>1 DEF Request, Pending, Became, wizardVars
<1>2. ASSUME NEW e \in Calls, CallStep(e)
      PROVE  UNCHANGED <<wizardVars, page>> /\ Pending' \subseteq Pending
  <2>1. UNCHANGED <<wizardVars, page>>
    BY <1>2 DEF CallStep, LookUp, Verifier, Load, CanActivate, Save, SaveFails, Goes
  <2>2. /\ call'[e].by = call[e].by /\ call[e].stage # "free"
        /\ \A d \in Calls : d # e => call'[d] = call[d]
    BY <1>2, CallGoes, CallSaves DEF Became, Save
  <2> QED
    BY <2>1, <2>2 DEF Pending, wizardVars
<1>3. ModelStep => UNCHANGED <<wizardVars, page>> /\ call' = call
  BY DEF ModelStep, Search, FindTarget, Listing, Prune, Consume, AddFound, RefuseFound,
     SearchGoes, ConsumerGoes, storeVars
<1>4. UNCHANGED vars => UNCHANGED <<wizardVars, page>> /\ call' = call
  BY DEF vars, storeVars
<1>5. call' = call /\ UNCHANGED wizardVars => Pending' \subseteq Pending
  BY DEF Pending, wizardVars
<1> QED
  BY <1>1, <1>2, <1>3, <1>4, <1>5 DEF Next

\* The wizard makes a call about id, and no other is under way unless they crossed.
LEMMA CallingMakes ==
    ASSUME StoreInv, WizardTyped, WizardOK, [Next]_vars,
           NEW c \in Calls, NEW kind \in {"create", "verify"}, NEW id \in Ids, NEW w \in Wizards,
           Calling(c, kind, id, w), heard \subseteq heard', heard' \subseteq Calls,
           kind = "create" => w.step = "connection",
           kind = "verify" => w.step = "testing" /\ w.profile = id
    PROVE  WizardTyped' /\ WizardOK'
<1>1. Became(c, kind, id, FirstStage(kind), Empty, "wizard")
  BY CallBegins DEF Calling, Begins, StoreInv, Kinds
<1>2. Pending' \subseteq (Pending \ heard') \cup {c}
  BY <1>1 DEF Pending, Became
<1>3. WizardTyped'
  BY ProfileNone DEF Calling, WizardTyped
<1>4. \A d \in Pending : call[d].stage # "free" /\ d \in Calls
  BY DEF Pending
<1>5. c \notin Pending /\ \A d \in Pending : call'[d] = call[d]
  BY <1>1, <1>4 DEF Calling, Became
<1>6. \A d \in Pending' : call'[d].kind \in {"create", "verify"}
  BY <1>1, <1>2, <1>5 DEF Became, WizardOK
<1>7. ~crossed' => Pending' \subseteq {c}
  BY <1>2 DEF Calling
<1> QED
  BY <1>1, <1>3, <1>6, <1>7 DEF WizardOK, Calling, Became

\* The wizard turns to another state without a call.
LEMMA TurnsTo ==
    ASSUME StoreInv, WizardTyped, WizardOK, [Next]_vars, NEW w \in Wizards,
           NEW crossing \in BOOLEAN, Turns(w, crossing),
           heard \subseteq heard', heard' \subseteq Calls,
           w.step = "testing" => w.profile # None
    PROVE  /\ WizardTyped' /\ Shows(wizard', w.step, w.profile, w.result)
           /\ Pending' = Pending \ heard' /\ call' = call
           /\ (crossed \/ crossing) <=> crossed'
<1>1. wizard' \in Wizards /\ Shows(wizard', w.step, w.profile, w.result)
  BY MountedKeeps DEF Turns
<1> QED
  BY <1>1 DEF Turns, WizardTyped, Pending, Shows, storeVars

LEMMA WizardStepOK ==
    ASSUME StoreInv, WizardInv, [Next]_vars, WizardStep
    PROVE  WizardInv'
<1> USE DEF WizardInv
<1>1. wizard \in Wizards /\ wizard.form \in Forms /\ heard \subseteq Calls
  BY DEF WizardTyped, Wizards
<1>2. CASE Listed
  <2> DEFINE list == IF FormShown(wizard) THEN file.known ELSE wizard.form.list
             form == [wizard.form EXCEPT !.list = list]
             w == [wizard EXCEPT !.listing = FALSE, !.form = form]
  <2>1. list \subseteq Ids
    BY <1>1 DEF Forms, StoreInv, StoreTyped, Documents
  <2>2. form \in Forms
    BY <1>1, <2>1 DEF Forms
  <2>3. w \in Wizards /\ w.step = wizard.step /\ w.profile = wizard.profile
        /\ w.result = wizard.result
    BY <1>1, <2>2 DEF Wizards
  <2>4. [wizard EXCEPT !.listing = FALSE,
                       !.form.list = IF FormShown(wizard) THEN file.known ELSE @] = w
    BY <1>1 DEF Wizards, Forms
  <2>5. Turns(w, FALSE) /\ heard' = heard
    BY <1>2, <2>4 DEF Listed, Turn
  <2> HIDE DEF list, form, w
  <2>6. /\ WizardTyped' /\ Shows(wizard', wizard.step, wizard.profile, wizard.result)
        /\ Pending' = Pending \ heard' /\ call' = call /\ (crossed <=> crossed')
    BY <1>1, <2>3, <2>5, TurnsTo DEF WizardTyped
  <2>7. WizardOK'
    BY <2>6 DEF WizardOK, Shows
  <2> QED
    BY <2>5, <2>6, <2>7, ShowsStays
<1>3. CASE ListFails
  <2>1. /\ WizardTyped' /\ Shows(wizard', "connection", None, None)
        /\ Pending' = Pending \ heard' /\ call' = call
        /\ (crossed \/ Pending # {}) <=> crossed'
    BY <1>1, <1>3, TurnsTo, WizardStates DEF ListFails, Shows
  <2>2. WizardOK'
    BY <2>1 DEF WizardOK, Shows
  <2> QED
    BY <2>1, <2>2 DEF WizardShowsTheVerified, Shows
<1>4. CASE Create
  <2> DEFINE form == [wizard.form EXCEPT !.saving = TRUE]
             w == [wizard EXCEPT !.form = form]
  <2>1. form \in Forms
    BY <1>1 DEF Forms
  <2>2. w \in Wizards /\ Shows(w, wizard.step, wizard.profile, wizard.result)
    BY <1>1, <2>1 DEF Wizards, Shows
  <2>3. [wizard EXCEPT !.form.saving = TRUE] = w
    BY <1>1 DEF Wizards, Forms
  <2>4. PICK c \in Calls, id \in Fresh : Calling(c, "create", id, w)
    BY <1>4, <2>3 DEF Create
  <2>5. wizard.step = "connection" /\ heard' = heard /\ id \in Ids
    BY <1>4 DEF Create, FormShown, Fresh
  <2> HIDE DEF form, w
  <2>6. WizardTyped' /\ WizardOK'
    BY <1>1, <2>2, <2>4, <2>5, CallingMakes DEF Shows
  <2> QED
    BY <2>2, <2>4, <2>5, <2>6 DEF Calling, WizardShowsTheVerified, Shows
<1>5. ASSUME NEW id \in Ids, NEW w \in Wizards, Test(id, w), w.step = "testing", w.profile = id,
             heard \subseteq heard', heard' \subseteq Calls
      PROVE  WizardInv'
  <2>1. PICK c \in Calls : Calling(c, "verify", id, w)
    BY <1>5 DEF Test
  <2>2. WizardTyped' /\ WizardOK'
    BY <1>5, <2>1, CallingMakes
  <2> QED
    BY <1>5, <2>1, <2>2 DEF Calling, WizardShowsTheVerified
<1>6. CASE Select
  <2>1. PICK id \in wizard.form.list : Test(id, ToTesting(id))
    BY <1>6 DEF Select
  <2>2. id \in Ids
    BY <1>1 DEF Forms
  <2> QED
    BY <1>1, <1>5, <1>6, <2>1, <2>2, WizardStates DEF Select, Shows
<1>7. CASE RuntimeArrives
  <2> DEFINE w == [wizard EXCEPT !.starting = FALSE]
  <2>1. w \in Wizards /\ w.step = wizard.step /\ w.profile = wizard.profile
        /\ w.result = wizard.result
    BY <1>1 DEF Wizards
  <2>2. heard' = heard /\ IF wizard.step = "testing" THEN Test(wizard.profile, w) ELSE Turns(w, FALSE)
    BY <1>7 DEF RuntimeArrives, Turn
  <2> HIDE DEF w
  <2>3. CASE wizard.step = "testing"
    <3>1. wizard.profile \in Ids
      BY <1>1, <2>3 DEF WizardTyped, Wizards
    <3> QED
      BY <1>1, <1>5, <2>1, <2>2, <2>3, <3>1
  <2>4. CASE wizard.step # "testing"
    <3>1. /\ WizardTyped' /\ Shows(wizard', wizard.step, wizard.profile, wizard.result)
          /\ Pending' = Pending \ heard' /\ call' = call /\ (crossed <=> crossed')
      BY <1>1, <2>1, <2>2, <2>4, TurnsTo
    <3>2. WizardOK'
      BY <3>1 DEF WizardOK, Shows
    <3> QED
      BY <2>2, <3>1, <3>2, ShowsStays
  <2> QED
    BY <2>3, <2>4
<1>8. CASE Retry
  <2> DEFINE w == [InitialState EXCEPT !.listing = wizard.listing, !.starting = wizard.starting]
  <2>1. w \in Wizards /\ w.step = "connection"
    BY <1>1 DEF InitialState, Form, Forms, Wizards
  <2>2. Turns(w, FALSE) /\ heard' = heard /\ wizard.step = "connection"
    BY <1>8 DEF Retry, Turn
  <2> HIDE DEF w
  <2>3. /\ WizardTyped' /\ wizard'.step = "connection"
        /\ Pending' = Pending \ heard' /\ call' = call /\ (crossed <=> crossed')
    BY <1>1, <2>1, <2>2, TurnsTo DEF Shows
  <2>4. WizardOK'
    BY <2>2, <2>3 DEF WizardOK
  <2> QED
    BY <2>3, <2>4 DEF WizardShowsTheVerified
<1>9. CASE Continue
  <2> DEFINE w == [wizard EXCEPT !.step = "complete", !.failure = "none"]
  <2>1. w \in Wizards /\ w.step = "complete" /\ w.profile = wizard.profile
        /\ w.result = wizard.result
    BY <1>1 DEF Wizards
  <2>2. Turns(w, FALSE) /\ heard' = heard /\ wizard.step = "capabilities"
    BY <1>9 DEF Continue, Turn
  <2> HIDE DEF w
  <2>3. /\ WizardTyped' /\ Shows(wizard', "complete", wizard.profile, wizard.result)
        /\ Pending' = Pending \ heard' /\ call' = call /\ (crossed <=> crossed')
    BY <1>1, <2>1, <2>2, TurnsTo
  <2>4. WizardOK'
    BY <2>2, <2>3 DEF WizardOK
  <2> QED
    BY <2>2, <2>3, <2>4 DEF WizardShowsTheVerified, Shows
<1>10. ASSUME NEW c \in Calls, Hear(c)
       PROVE  WizardInv'
  <2>1. /\ heard' = heard \cup {c} /\ c \in Pending /\ call[c].stage \in {"ok", "error"}
        /\ call[c].id \in Ids /\ call[c].kind \in {"create", "verify"} /\ heard' \subseteq Calls
    BY <1>1, <1>10 DEF Hear, Pending, StoreInv, CallOK, WizardOK
  <2>2. ~crossed => Pending \ heard' = {}
    BY <2>1 DEF WizardOK
  <2>3. CASE call[c].kind = "create" /\ call[c].stage = "ok"
    <3>1. Test(call[c].id, ToTesting(call[c].id))
      BY <1>10, <2>3 DEF Hear
    <3> QED
      BY <1>5, <2>1, <3>1, WizardStates DEF Shows
  <2>4. ASSUME NEW w \in {SaveProfileFail, VerifyFail}, Turn(w)
        PROVE  WizardInv'
    <3>1. w \in Wizards /\ w.step = "connection"
      BY WizardStates DEF Shows
    <3>2. /\ WizardTyped' /\ wizard'.step = "connection"
          /\ Pending' = Pending \ heard' /\ call' = call /\ (crossed <=> crossed')
      BY <2>1, <2>4, <3>1, TurnsTo DEF Turn, Shows
    <3>3. WizardOK'
      BY <2>2, <3>2 DEF WizardOK
    <3> QED
      BY <3>2, <3>3 DEF WizardShowsTheVerified
  <2>5. CASE call[c].kind = "verify" /\ call[c].stage = "ok"
    <3>1. Turns(VerifyOk(call[c].id), FALSE)
      BY <1>10, <2>5 DEF Hear, Turn
    <3>2. VerifyOk(call[c].id) \in Wizards
          /\ Shows(VerifyOk(call[c].id), "capabilities", wizard.profile, call[c].id)
      BY <2>1, WizardStates
    <3>3. /\ WizardTyped' /\ Shows(wizard', "capabilities", wizard.profile, call[c].id)
          /\ Pending' = Pending \ heard' /\ call' = call /\ (crossed <=> crossed')
      BY <2>1, <3>1, <3>2, TurnsTo DEF Shows
    <3>4. WizardOK'
      BY <2>2, <3>3 DEF WizardOK
    <3>5. ~crossed' => wizard'.profile = wizard'.result
      BY <2>1, <2>5, <3>3 DEF WizardOK, Shows
    <3>6. c \in heard' /\ call'[c].kind = "verify" /\ call'[c].stage = "ok"
          /\ call'[c].id = wizard'.result
      BY <2>1, <2>5, <3>3 DEF Shows
    <3> QED
      BY <3>3, <3>4, <3>5, <3>6 DEF WizardShowsTheVerified
  <2> QED
    BY <1>10, <2>1, <2>3, <2>4, <2>5 DEF Hear
<1> QED
  BY <1>2, <1>3, <1>4, <1>6, <1>7, <1>8, <1>9, <1>10 DEF WizardStep

LEMMA WizardInvStep ==
    ASSUME StoreInv, WizardInv, [Next]_vars
    PROVE  WizardInv'
<1>1. CASE WizardStep
  BY <1>1, WizardStepOK
<1>2. CASE ~WizardStep
  <2>1. UNCHANGED <<wizardVars, page>> /\ Pending' \subseteq Pending
    BY <1>2, OthersPending DEF WizardInv
  <2> QED
    BY <2>1, OthersWait, ShowsStays DEF WizardInv, WizardTyped, wizardVars
<1> QED
  BY <1>1, <1>2
-----------------------------------------------------------------------------
(* The model page. *)

\* A switch of the active profile during a search is noticed.
LEMMA SwitchNoticed ==
    ASSUME StoreInv, WizardTyped, CatalogInv, [Next]_vars, ~ModelStep
    PROVE  /\ UNCHANGED searchVars /\ switched' \in BOOLEAN
           /\ switched => switched'
           /\ search.stage # "none" /\ ~switched' => file'.active = file.active
<1>1. ASSUME NEW c \in Calls, CallStep(c)
      PROVE  /\ UNCHANGED searchVars /\ switched' \in BOOLEAN
             /\ switched => switched'
             /\ search.stage # "none" /\ ~switched' => file'.active = file.active
  BY <1>1 DEF CallStep, LookUp, Verifier, Load, CanActivate, Save, SaveFails, Goes, CatalogInv,
     CatalogTyped
<1>2. ASSUME NEW c \in Calls, NEW kind \in Kinds, NEW id \in Ids, Request(c, kind, id)
      PROVE  UNCHANGED <<searchVars, switched, file>>
  BY <1>2 DEF Request
<1>3. ASSUME NEW id, NEW w, Test(id, w)
      PROVE  UNCHANGED <<searchVars, switched, file>>
  BY <1>3 DEF Test, Calling
<1>4. ASSUME WizardStep
      PROVE  UNCHANGED <<searchVars, switched, file>>
  <2>1. CASE Listed \/ ListFails \/ Retry \/ Continue
    BY <2>1 DEF Listed, ListFails, Retry, Continue, Turn, Turns, storeVars
  <2>2. CASE Create
    BY <2>2 DEF Create, Calling
  <2>3. CASE Select \/ RuntimeArrives
    BY <1>3, <2>3 DEF Select, RuntimeArrives, Turn, Turns, storeVars
  <2>4. ASSUME NEW c \in Calls, Hear(c)
        PROVE  UNCHANGED <<searchVars, switched, file>>
    BY <1>3, <2>4 DEF Hear, Turn, Turns, storeVars
  <2> QED
    BY <1>4, <2>1, <2>2, <2>3, <2>4 DEF WizardStep
<1>5. UNCHANGED vars => UNCHANGED <<searchVars, switched, file>>
  BY DEF vars, storeVars
<1> QED
  BY <1>1, <1>2, <1>4, <1>5 DEF Next, CatalogInv, CatalogTyped

LEMMA CatalogStep ==
    ASSUME StoreInv, WizardTyped, CatalogInv, [Next]_vars
    PROVE  CatalogInv'
<1> USE DEF CatalogInv, searchVars
<1>1. /\ file \in Documents /\ ActiveVerified \in Bindings
      /\ ActiveVerified # None => ActiveVerified = file.active
  BY DEF StoreInv, StoreTyped, Documents, ActiveVerified, Bindings
<1>2. CatalogTyped /\ SearchOK /\ CatalogNamesItsMachine
  OBVIOUS
<1>3. CASE ~ModelStep
  BY <1>2, <1>3, SwitchNoticed DEF CatalogTyped, SearchOK, CatalogNamesItsMachine
<1>4. CASE Search
  <2> DEFINE s == [NoSearch EXCEPT !.stage = "target", !.binding = ActiveVerified]
  <2>1. s.stage = "target" /\ s.binding = ActiveVerified /\ s.target = None
    BY DEF NoSearch
  <2>2. search' = s
    BY <1>4 DEF Search, SearchGoes
  <2> HIDE DEF s
  <2>3. searches' \in 0..MaxSearches
    BY <1>2, <1>4, ProfileBounds DEF Search, CatalogTyped
  <2> QED
    BY <1>1, <1>2, <1>4, <2>1, <2>2, <2>3 DEF Search, SearchGoes, CatalogTyped, SearchOK,
       CatalogNamesItsMachine, storeVars, Bindings
<1>5. CASE FindTarget
  <2>1. UNCHANGED <<results, searches, switched, file, consumer, catalog>>
    BY <1>5 DEF FindTarget, SearchGoes, storeVars
  <2>2. CASE ActiveVerified = None
    BY <1>2, <1>5, <2>1, <2>2 DEF FindTarget, SearchGoes, NoSearch, CatalogTyped, SearchOK,
       CatalogNamesItsMachine, Bindings
  <2>3. CASE ActiveVerified # None
    <3>1. search' = [search EXCEPT !.stage = "remote", !.target = ActiveVerified]
      BY <1>5, <2>3 DEF FindTarget, SearchGoes
    <3>2. search'.stage = "remote" /\ search'.binding = search.binding
          /\ search'.target = ActiveVerified
      BY <3>1
    <3> QED
      BY <1>1, <1>2, <1>5, <2>1, <2>3, <3>2 DEF FindTarget, CatalogTyped, SearchOK,
         CatalogNamesItsMachine
  <2> QED
    BY <2>2, <2>3
<1>6. CASE Listing
  <2> DEFINE r == [binding |-> search.binding, found |-> search.target, mixed |-> switched,
                   id |-> searches]
  <2>1. r \in Items /\ r.binding = search.binding /\ r.found = search.target /\ r.mixed = switched
    BY <1>2 DEF CatalogTyped, Items
  <2>2. results' \in {results, r} /\ search' = NoSearch
        /\ UNCHANGED <<searches, switched, file, consumer, catalog>> /\ search.stage = "remote"
    BY <1>6 DEF Listing, SearchGoes, storeVars
  <2> HIDE DEF r
  <2> QED
    BY <1>2, <2>1, <2>2 DEF NoSearch, CatalogTyped, SearchOK, CatalogNamesItsMachine, Bindings
<1>7. CASE Prune
  BY <1>2, <1>7 DEF Prune, storeVars, CatalogTyped, SearchOK, CatalogNamesItsMachine
<1>8. ASSUME NEW k \in Consumers, Consume(k) \/ AddFound(k) \/ RefuseFound(k)
      PROVE  CatalogInv'
  <2>1. UNCHANGED <<search, searches, switched, file>> /\ results' \in {results, None}
    BY <1>8 DEF Consume, AddFound, RefuseFound, ConsumerGoes, storeVars
  <2>2. PICK stage \in {"binding", "done"}, item \in Items \cup {None} :
            /\ consumer' = [consumer EXCEPT ![k] = [stage |-> stage, item |-> item]]
            /\ stage = "binding" => item = results /\ results # None
    BY <1>2, <1>8 DEF Consume, AddFound, RefuseFound, ConsumerGoes, CatalogTyped
  <2> DEFINE record == [stage |-> stage, item |-> item]
  <2>3. record.stage = stage /\ record.item = item
        /\ record \in [stage : {"idle", "binding", "done"}, item : Items \cup {None}]
    OBVIOUS
  <2>4. consumer' = [consumer EXCEPT ![k] = record]
    BY <2>2
  <2> HIDE DEF record
  <2>5. CatalogTyped'
    BY <1>2, <2>1, <2>3, <2>4 DEF CatalogTyped
  <2>6. SearchOK'
    BY <1>2, <2>1, <2>2, <2>3, <2>4 DEF SearchOK, CatalogTyped
  <2>7. CatalogNamesItsMachine'
    <3>1. CASE AddFound(k)
      <4>1. catalog' = catalog \cup {Entry(consumer[k].item)} /\ consumer[k].stage = "binding"
        BY <3>1 DEF AddFound
      <4> QED
        BY <1>2, <4>1 DEF Entry, SearchOK, CatalogNamesItsMachine
    <3>2. CASE ~AddFound(k)
      BY <1>2, <1>8, <3>2 DEF Consume, RefuseFound, CatalogNamesItsMachine
    <3> QED
      BY <3>1, <3>2
  <2> QED
    BY <2>5, <2>6, <2>7
<1> QED
  BY <1>3, <1>4, <1>5, <1>6, <1>7, <1>8 DEF ModelStep

-----------------------------------------------------------------------------

LEMMA InitStrong == Init => Strong
<1> SUFFICES ASSUME Init PROVE Strong
  OBVIOUS
<1>1. call \in [Calls -> CallRecords] /\ \A c \in Calls : call[c] = NoCall
  BY Documented DEF Init
<1>2. StoreInv /\ HeldOK /\ UpdatesLast
  BY <1>1 DEF Init, StoreInv, StoreTyped, CallOK, HeldOK, UpdatesLast, NoCall, Holding
<1>3. wizard \in Wizards /\ wizard.step = "connection"
  BY DEF Init, InitialState, Form, Forms, Wizards
<1>4. Pending = {}
  BY <1>1 DEF Pending, NoCall
<1>5. WizardInv
  BY <1>3, <1>4 DEF Init, WizardInv, WizardTyped, WizardOK, WizardShowsTheVerified
<1>6. CatalogInv
  <2>1. NoConsumer \in [stage : {"idle", "binding", "done"}, item : Items \cup {None}]
        /\ NoConsumer.stage = "idle"
    BY DEF NoConsumer
  <2>2. consumer \in [Consumers -> [stage : {"idle", "binding", "done"}, item : Items \cup {None}]]
        /\ \A k \in Consumers : consumer[k].stage = "idle"
    BY <2>1 DEF Init
  <2>3. 0 \in 0..MaxSearches
    BY ProfileBounds
  <2> QED
    BY <2>2, <2>3 DEF Init, CatalogInv, CatalogTyped, SearchOK, CatalogNamesItsMachine, NoSearch,
       Bindings
<1> QED
  BY <1>2, <1>5, <1>6 DEF Strong

LEMMA StrongStep == ASSUME Strong, [Next]_vars PROVE Strong'
  BY StoreStep, UpdatesStep, WizardInvStep, CatalogStep DEF Strong, WizardInv

\* Strong is inductive.
THEOREM ProfilesInvariant == Spec => []Strong
  BY InitStrong, StrongStep, PTL DEF Spec

\* The profile file, and every document about to replace it, can be read back: its
\* active profile is a verified one, whatever the overlapping calls made of it.
THEOREM StoreStaysReadable == Spec => []StoreReadable
<1>1. Strong => StoreReadable
  <2> SUFFICES ASSUME Strong PROVE StoreReadable
    OBVIOUS
  <2>1. TypeOK
    BY DEF Strong, StoreInv, StoreTyped, CallOK, Fits, CallRecords, WizardInv, WizardTyped, Wizards,
       CatalogInv, CatalogTyped, TypeOK
  <2>2. StoreSound
    BY SavedIsSound DEF Strong, StoreInv, StoreSound
  <2> QED
    BY <2>1, <2>2 DEF StoreReadable
<1> QED
  BY <1>1, ProfilesInvariant, PTL

\* Only calls that held a document when a call saved, or another activation, can
\* undo what that call was answered to have done.
THEOREM UpdatesAreKept == Spec => []UpdatesLast
<1>1. Strong => UpdatesLast
  BY DEF Strong
<1> QED
  BY <1>1, ProfilesInvariant, PTL

\* The wizard shows a profile that the store took as verified, and the chosen one
\* unless its requests crossed.
THEOREM WizardIsTrue == Spec => []WizardShowsTheVerified
<1>1. Strong => WizardShowsTheVerified
  BY DEF Strong, WizardInv
<1> QED
  BY <1>1, ProfilesInvariant, PTL

\* An entry of the catalog names the machine its model was found on, unless the
\* active profile changed while that search ran.
THEOREM CatalogIsTrue == Spec => []CatalogNamesItsMachine
<1>1. Strong => CatalogNamesItsMachine
  BY DEF Strong, CatalogInv
<1> QED
  BY <1>1, ProfilesInvariant, PTL

=============================================================================
