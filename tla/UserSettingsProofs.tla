-------------------------- MODULE UserSettingsProofs --------------------------
(***************************************************************************)
(* Proofs about UserSettings, for any pages, callers, themes, names and    *)
(* number of saves.                                                        *)
(*                                                                         *)
(* Every step but the renaming is that of one page t: its request moves,   *)
(* its copy may change, and the row may take a next version.  StepInv says *)
(* what such a step has to show for the copies; NamesStep, what it has to  *)
(* show for the two names.                                                 *)
(***************************************************************************)
EXTENDS UserSettings, TLAPS

-----------------------------------------------------------------------------
(* Types *)

LEMMA DefaultsType ==
    /\ Defaults \in Preferences /\ Defaults \in Changes
    /\ NoChange \in Changes /\ None \in UserRow
  BY ThemeAssumption DEF Defaults, NoChange, None, Preferences, Changes, UserRow, GivenNames

LEMMA AskingType ==
    ASSUME NEW op \in {"get", "patch", "put"}, NEW pc \in Step,
           NEW v \in Nat, NEW c \in Changes
    PROVE  Asking(op, pc, v, c) \in Call
  BY DefaultsType DEF Asking, Call

LEMMA RestingType == Resting \in Call
  BY AskingType, DefaultsType DEF Resting, AnyVersion, Step

LEMMA MergedType ==
    ASSUME NEW doc \in Preferences, NEW c \in Changes
    PROVE  Merged(doc, c) \in Preferences
  BY DEF Merged, Preferences, Changes

LEMMA OverrideType == \A n : Override(n) \in Names \cup {Unset}
  BY DEF Override

LEMMA PreferencesAreChanges == Preferences \subseteq Changes
  BY DEF Preferences, Changes

-----------------------------------------------------------------------------
(* The row *)

\* The steps of the row: none, or its next version.
RowStep ==
    \/ UNCHANGED <<settings, saved>>
    \/ \E doc \in Preferences : Save(doc)

LEMMA SaveStep ==
    ASSUME UserTypeOK, RowOK, NEW doc \in Preferences, Save(doc)
    PROVE  /\ settings' \in UserRow
           /\ saved' \in Seq(Preferences)
           /\ settings'.doc = doc
           /\ settings'.version # 0
           /\ RowOK'
           /\ Len(saved) <= Len(saved')
           /\ \A v \in 1..Len(saved) : saved'[v] = saved[v]
  <1>1. saved \in Seq(Preferences) /\ Len(saved) \in Nat /\ settings.version = Len(saved)
    BY DEF UserTypeOK, RowOK
  <1>2. settings' = [version |-> settings.version + 1, doc |-> doc] /\ saved' = Append(saved, doc)
    BY DEF Save
  <1>3. /\ saved' \in Seq(Preferences) /\ Len(saved') = Len(saved) + 1
        /\ saved'[Len(saved) + 1] = doc
        /\ \A v \in 1..Len(saved) : saved'[v] = saved[v]
    BY <1>1, <1>2
  <1>4. settings'.version = Len(saved) + 1 /\ settings'.doc = doc /\ settings' \in UserRow
    BY <1>1, <1>2 DEF UserRow
  <1> QED
    BY <1>1, <1>3, <1>4 DEF RowOK, Held

LEMMA RowKept ==
    ASSUME UserTypeOK, RowOK, RowStep
    PROVE  /\ settings' \in UserRow /\ saved' \in Seq(Preferences) /\ RowOK'
           /\ Len(saved) <= Len(saved')
           /\ \A v \in 1..Len(saved) : saved'[v] = saved[v]
  <1>1. CASE UNCHANGED <<settings, saved>>
    BY <1>1 DEF UserTypeOK, RowOK, Held
  <1>2. CASE \E doc \in Preferences : Save(doc)
    BY <1>2, SaveStep
  <1> QED
    BY <1>1, <1>2 DEF RowStep

\* Whatever copy the row once was, it still was.
LEMMA HeldKept ==
    ASSUME UserTypeOK, RowOK, RowStep, NEW c \in UserRow, Held(c)
    PROVE  Held(c)'
  <1>1. /\ Len(saved) \in Nat /\ Len(saved') \in Nat /\ Len(saved) <= Len(saved')
        /\ \A v \in 1..Len(saved) : saved'[v] = saved[v]
    BY RowKept DEF UserTypeOK
  <1>2. c.version \in Nat
    BY DEF UserRow
  <1> QED
    BY <1>1, <1>2 DEF Held

-----------------------------------------------------------------------------
(* What a step of page t has to show *)

\* The part of the invariant that is about copies of the row.
CopiesOK == UserTypeOK /\ RowOK /\ \A t \in Tabs : Held(tab[t]) /\ CallOK(t)

LEMMA StepInv ==
    ASSUME CopiesOK, NEW t \in Tabs, RowStep,
           NEW q \in Call, call' = [call EXCEPT ![t] = q],
           NEW c \in UserRow, tab' = [tab EXCEPT ![t] = c],
           displayName' \in Names \cup {Unset}, excused' \in BOOLEAN,
           Held(c)', Held(q.seen)',
           q.pc = "upsert" => q.change \in Preferences /\ q.seen = None
    PROVE  CopiesOK'
  <1>1. UserTypeOK /\ RowOK
    BY DEF CopiesOK
  <1>2. call \in [Tabs -> Call] /\ tab \in [Tabs -> UserRow]
    BY <1>1 DEF UserTypeOK
  <1>3. UserTypeOK'
    BY <1>1, <1>2, RowKept DEF UserTypeOK
  <1>4. RowOK'
    BY <1>1, RowKept
  <1>5. ASSUME NEW u \in Tabs PROVE Held(tab[u])' /\ CallOK(u)'
    <2>1. CASE u = t
      <3>1. call'[u] = q /\ tab'[u] = c
        BY <1>2, <2>1
      <3> QED
        BY <3>1 DEF CallOK, Held
    <2>2. CASE u # t
      <3>1. call'[u] = call[u] /\ tab'[u] = tab[u]
        BY <1>2, <2>2
      <3>2. call[u].seen \in UserRow /\ tab[u] \in UserRow
        BY <1>2 DEF Call
      <3>3. Held(tab[u]) /\ CallOK(u)
        BY DEF CopiesOK
      <3>4. Held(call[u].seen)
        BY <3>3 DEF CallOK
      <3>5. \A d \in UserRow : Held(d) => (d.version # 0 => d.version <= Len(saved') /\ d.doc = saved'[d.version])
        BY <1>1, HeldKept DEF Held
      <3> QED
        BY <3>1, <3>2, <3>3, <3>4, <3>5 DEF CallOK, Held
    <2> QED
      BY <2>1, <2>2
  <1> QED
    BY <1>3, <1>4, <1>5 DEF CopiesOK
-----------------------------------------------------------------------------
(* The two names *)

NamesOK == NamesAgree /\ (excused \/ OneNameAtATime)

LEMMA SyncingAfter ==
    ASSUME UserTypeOK, NEW t \in Tabs, NEW q \in Call, call' = [call EXCEPT ![t] = q]
    PROVE  Syncing' = IF q.pc = "sync" THEN Syncing \cup {t} ELSE Syncing \ {t}
  <1>1. call \in [Tabs -> Call]
    BY DEF UserTypeOK
  <1>2. \A u \in Tabs : call'[u] = IF u = t THEN q ELSE call[u]
    BY <1>1
  <1> QED
    BY <1>2 DEF Syncing

\* A step that has nothing to do with a name.
LEMMA NamesQuiet ==
    ASSUME UserTypeOK, NamesOK,
           NEW t \in Tabs, NEW q \in Call, call' = [call EXCEPT ![t] = q],
           call[t].pc # "sync", q.pc # "sync",
           displayName' = displayName, excused' = excused,
           settings'.doc.name = settings.doc.name
    PROVE  NamesOK'
  <1>1. Syncing' = Syncing /\ t \notin Syncing /\ Syncing \subseteq Tabs
    BY SyncingAfter DEF Syncing
  <1>2. \A u \in Syncing : call'[u] = call[u]
    BY <1>1 DEF UserTypeOK
  <1> QED
    BY <1>1, <1>2 DEF NamesOK, NamesAgree, OneNameAtATime, Override

\* A write of the row, by the second statement of which the name it sent follows.
LEMMA NamesWrite ==
    ASSUME UserTypeOK, NamesOK,
           NEW t \in Tabs, NEW doc \in Preferences, NEW q \in Call,
           call' = [call EXCEPT ![t] = q],
           call[t].pc # "sync", q.pc = After(t), q.change = call[t].change,
           Named(t) => doc.name = call[t].change.name,
           ~Named(t) /\ call[t].seen = settings => doc.name = settings.doc.name,
           settings'.doc = doc, displayName' = displayName, Excuse(t, doc)
    PROVE  NamesOK'
  <1>1. t \notin Syncing /\ Syncing \subseteq Tabs
    BY DEF Syncing
  <1>2. \A u \in Tabs : call'[u] = IF u = t THEN q ELSE call[u]
    BY DEF UserTypeOK
  <1>3. CASE Named(t)
    <2>1. Syncing' = Syncing \cup {t} /\ excused' = (Syncing # {})
      BY <1>3, SyncingAfter DEF After, Excuse
    <2> QED
      BY <1>1, <1>2, <1>3, <2>1 DEF NamesOK, NamesAgree, OneNameAtATime
  <1>4. CASE ~Named(t)
    <2>1. Syncing' = Syncing
      BY <1>1, <1>4, SyncingAfter DEF After
    <2>2. excused' = (excused \/ (call[t].seen # settings /\ doc.name # settings.doc.name))
      BY <1>4 DEF Excuse
    <2>3. CASE excused'
      BY <2>3 DEF NamesOK, NamesAgree
    <2>4. CASE ~excused'
      <3>1. ~excused /\ settings'.doc.name = settings.doc.name
        BY <1>4, <2>2, <2>4
      <3>2. \A u \in Syncing : call'[u] = call[u]
        BY <1>1, <1>2
      <3> QED
        BY <2>1, <2>4, <3>1, <3>2 DEF NamesOK, NamesAgree, OneNameAtATime, Override
    <2> QED
      BY <2>3, <2>4
  <1> QED
    BY <1>3, <1>4

-----------------------------------------------------------------------------
(* The actions *)

\* MoveTo and Hangs give the request of t its next form.
LEMMA MoveToStep ==
    ASSUME UserTypeOK, NEW t \in Tabs, NEW pc \in Step, NEW copy \in UserRow, MoveTo(t, pc, copy)
    PROVE  \E q \in Call :
              /\ call' = [call EXCEPT ![t] = q]
              /\ q.pc = pc /\ q.seen = copy /\ q.change = call[t].change
              /\ q.op = call[t].op /\ q.ifMatch = call[t].ifMatch
  <1> DEFINE q == [call[t] EXCEPT !.pc = pc, !.seen = copy]
  <1>1. call \in [Tabs -> Call] /\ call[t] \in Call
    BY DEF UserTypeOK
  <1>2. q \in Call /\ q.pc = pc /\ q.seen = copy /\ q.change = call[t].change
        /\ q.op = call[t].op /\ q.ifMatch = call[t].ifMatch
    BY <1>1 DEF Call
  <1>3. call' = [call EXCEPT ![t] = q]
    BY <1>1 DEF MoveTo
  <1> QED
    BY <1>2, <1>3

\* The request of t that neither reads nor writes: it is asked for, or is over.
LEMMA QuietStep ==
    ASSUME UserInv, NEW t \in Tabs, NEW q \in Call, call' = [call EXCEPT ![t] = q],
           call[t].pc # "sync", q.pc # "sync", q.seen = None,
           q.pc = "upsert" => q.change \in Preferences,
           UNCHANGED <<settings, displayName, tab, saved, excused>>
    PROVE  UserInv'
  <1>1. CopiesOK /\ NamesOK /\ UserTypeOK
    BY DEF UserInv, CopiesOK, NamesOK
  <1>2. tab[t] \in UserRow /\ tab' = [tab EXCEPT ![t] = tab[t]]
    BY <1>1 DEF UserTypeOK
  <1>3. Held(tab[t]) /\ Held(None)
    BY <1>1 DEF CopiesOK, Held, None
  <1>4. Held(tab[t])' /\ Held(q.seen)'
    BY <1>3 DEF Held
  <1>5. CopiesOK'
    <2>1. displayName' \in Names \cup {Unset} /\ excused' \in BOOLEAN
      BY <1>1 DEF UserTypeOK
    <2> HIDE DEF None
    <2> QED
      BY <1>1, <1>2, <1>4, <2>1, StepInv DEF RowStep
  <1>6. NamesOK'
    BY <1>1, NamesQuiet
  <1> QED
    BY <1>5, <1>6 DEF UserInv, CopiesOK, NamesOK

\* The forms a request can have when it is asked for.
LEMMA AskedStep ==
    ASSUME UserInv, NEW t \in Tabs, call[t].pc # "sync",
           NEW op \in {"get", "patch", "put"}, NEW pc \in {"idle", "read", "upsert"},
           NEW v \in Nat, NEW c \in Changes, pc = "upsert" => c \in Preferences,
           call' = [call EXCEPT ![t] = Asking(op, pc, v, c)],
           UNCHANGED <<settings, displayName, tab, saved, excused>>
    PROVE  UserInv'
  <1> DEFINE q == Asking(op, pc, v, c)
  <1>1. q \in Call
    BY AskingType DEF Step
  <1>2. q.pc = pc /\ q.seen = None /\ q.change = c /\ pc # "sync"
    BY DEF Asking
  <1> HIDE DEF q
  <1>3. call' = [call EXCEPT ![t] = q]
    BY DEF q
  <1> QED
    BY <1>1, <1>2, <1>3, QuietStep

LEMMA RestingPc == Resting.pc = "idle"
  BY DEF Resting, Asking
\* A page, or a caller, asks for something; only a page at rest does.
LEMMA AsksStep ==
    ASSUME UserInv, NEW t \in Tabs,
           \/ OpenSettingsPage(t) \/ UpdateTheme(t) \/ UpdateProfile(t)
           \/ t \in Callers /\ (PatchFromAnywhere(t) \/ Replace(t))
    PROVE  UserInv'
  <1>0. tab[t].version \in Nat /\ AnyVersion \in Nat
    BY DEF UserInv, UserTypeOK, UserRow, AnyVersion
  <1>1. CASE OpenSettingsPage(t)
    BY <1>0, <1>1, AskedStep, RestingPc, DefaultsType DEF OpenSettingsPage
  <1>2. ASSUME NEW c \in Changes, Saves(c, t) PROVE UserInv'
    BY <1>0, <1>2, AskedStep, RestingPc DEF Saves
  <1>3. CASE UpdateTheme(t)
    <2> PICK theme \in Themes : Saves([NoChange EXCEPT !.theme = theme], t)
      BY <1>3 DEF UpdateTheme
    <2>1. [NoChange EXCEPT !.theme = theme] \in Changes
      BY DEF NoChange, Changes
    <2> QED
      BY <1>2, <2>1
  <1>4. CASE UpdateProfile(t)
    <2> PICK name \in Names \cup {Unset} : Saves([NoChange EXCEPT !.name = name], t)
      BY <1>4 DEF UpdateProfile
    <2>1. [NoChange EXCEPT !.name = name] \in Changes
      BY DEF NoChange, Changes, GivenNames
    <2> QED
      BY <1>2, <2>1
  <1>5. CASE PatchFromAnywhere(t)
    <2> PICK c \in SentChanges :
           call' = [call EXCEPT ![t] = Asking("patch", "read", AnyVersion, c)]
      BY <1>5 DEF PatchFromAnywhere
    <2> QED
      BY <1>0, <1>5, AskedStep, RestingPc, SentAssumption DEF PatchFromAnywhere
  <1>6. CASE Replace(t)
    <2> PICK doc \in SentDocuments :
           call' = [call EXCEPT ![t] = Asking("put", "upsert", AnyVersion, doc)]
      BY <1>6 DEF Replace
    <2> QED
      BY <1>0, <1>6, AskedStep, RestingPc, SentAssumption, PreferencesAreChanges DEF Replace
  <1> QED
    BY <1>1, <1>3, <1>4, <1>5, <1>6

\* The copies of the row that a handler or a page holds are kept by its steps.
LEMMA CopyOfCall ==
    ASSUME CopiesOK, NEW t \in Tabs
    PROVE  /\ call[t] \in Call /\ call[t].seen \in UserRow /\ Held(call[t].seen)
           /\ tab[t] \in UserRow /\ Held(tab[t])
           /\ call[t].change \in Changes
           /\ call[t].pc = "upsert" => call[t].change \in Preferences /\ call[t].seen = None
  BY DEF CopiesOK, CallOK, UserTypeOK, Call

LEMMA RestingHeld == Resting.seen = None /\ Resting.pc = "idle" /\ None \in UserRow /\ Held(None)
  BY DefaultsType DEF Resting, Asking, None, Held

LEMMA ShowSettingsStep ==
    ASSUME UserInv, NEW t \in Tabs, ShowSettings(t)
    PROVE  UserInv'
  <1>1. CopiesOK /\ NamesOK /\ UserTypeOK
    BY DEF UserInv, CopiesOK, NamesOK
  <1> PICK c \in UserRow : c = call[t].seen /\ Held(c)
    BY <1>1, CopyOfCall
  <1> PICK q \in Call : q = Resting
    BY RestingType
  <1>2. /\ tab' = [tab EXCEPT ![t] = c] /\ call' = [call EXCEPT ![t] = q]
        /\ UNCHANGED <<settings, displayName, saved, excused>> /\ call[t].pc # "sync"
    BY DEF ShowSettings, Hangs
  <1>3. RowStep
    BY <1>2 DEF RowStep
  <1>4. Held(c)' /\ Held(q.seen)'
    <2>1. UserTypeOK /\ RowOK /\ Held(q.seen) /\ q.seen \in UserRow
      BY <1>1, RestingHeld DEF CopiesOK
    <2> PICK d \in UserRow : d = q.seen
      BY <2>1
    <2>2. Held(d)' /\ Held(c)'
      BY <1>3, <2>1, HeldKept
    <2> QED
      BY <2>2
  <1>5. CopiesOK'
    <2>1. displayName' \in Names \cup {Unset} /\ excused' \in BOOLEAN
      BY <1>1, <1>2 DEF UserTypeOK
    <2>2. q.pc # "upsert"
      BY RestingHeld
    <2> QED
      BY <1>1, <1>2, <1>3, <1>4, <2>1, <2>2, StepInv
  <1>6. NamesOK'
    BY <1>1, <1>2, NamesQuiet, RestingHeld
  <1> QED
    BY <1>5, <1>6 DEF UserInv, CopiesOK, NamesOK
\* A handler leaves the pages alone.
LEMMA HandlerStep ==
    ASSUME CopiesOK, NEW t \in Tabs, RowStep,
           NEW q \in Call, call' = [call EXCEPT ![t] = q], tab' = tab,
           displayName' \in Names \cup {Unset}, excused' \in BOOLEAN,
           Held(q.seen)', q.pc # "upsert"
    PROVE  CopiesOK'
  <1>1. UserTypeOK /\ RowOK
    BY DEF CopiesOK
  <1> PICK c \in UserRow : c = tab[t] /\ Held(c)
    BY CopyOfCall
  <1>2. Held(c)'
    BY <1>1, HeldKept
  <1>3. tab' = [tab EXCEPT ![t] = c]
    BY <1>1 DEF UserTypeOK
  <1> QED
    BY <1>2, <1>3, StepInv

LEMMA ComparedStep ==
    ASSUME UserTypeOK, NEW t \in Tabs, NEW copy \in UserRow, Compared(t, copy)
    PROVE  \E q \in Call :
              /\ call' = [call EXCEPT ![t] = q]
              /\ q.pc \in {"answer", "update", "read"}
              /\ q.seen \in {copy, None}
  <1>1. ASSUME NEW pc \in {"answer", "update"}, MoveTo(t, pc, copy)
        PROVE  \E q \in Call :
                  /\ call' = [call EXCEPT ![t] = q]
                  /\ q.pc \in {"answer", "update", "read"}
                  /\ q.seen \in {copy, None}
    <2>1. pc \in Step
      BY DEF Step
    <2> QED
      BY <1>1, <2>1, MoveToStep
  <1>2. CASE call' = [call EXCEPT ![t] = Asking("get", "read", AnyVersion, NoChange)]
    <2> DEFINE q == Asking("get", "read", AnyVersion, NoChange)
    <2>1. q \in Call
      BY AskingType, DefaultsType DEF Step, AnyVersion
    <2>2. q.pc = "read" /\ q.seen = None
      BY DEF Asking
    <2> QED
      BY <1>2, <2>1, <2>2
  <1> QED
    BY <1>1, <1>2 DEF Compared

LEMMA FindSettingsStep ==
    ASSUME UserInv, NEW t \in Tabs, FindSettings(t)
    PROVE  UserInv'
  <1>1. CopiesOK /\ NamesOK /\ UserTypeOK /\ RowOK
    BY DEF UserInv, CopiesOK, NamesOK
  <1>2. /\ call[t].pc # "sync" /\ RowStep
        /\ UNCHANGED <<settings, displayName, tab, saved, excused>>
    BY DEF FindSettings, RowStep
  <1>3. \E q \in Call : /\ call' = [call EXCEPT ![t] = q]
                        /\ q.pc \in {"answer", "update", "read", "create"}
                        /\ Held(q.seen)
    <2>1. CASE Compared(t, settings)
      <3> PICK copy \in UserRow : copy = settings
        BY <1>1 DEF UserTypeOK
      <3> PICK q \in Call : /\ call' = [call EXCEPT ![t] = q]
                            /\ q.pc \in {"answer", "update", "read"}
                            /\ q.seen \in {copy, None}
        BY <1>1, <2>1, ComparedStep
      <3> QED
        BY <1>1, RestingHeld DEF RowOK
    <2>2. CASE call' = [call EXCEPT ![t].pc = "create"]
      <3> DEFINE q == [call[t] EXCEPT !.pc = "create"]
      <3>1. q \in Call /\ q.pc = "create" /\ q.seen = call[t].seen
        BY <1>1, CopyOfCall DEF Call, Step
      <3>2. call' = [call EXCEPT ![t] = q]
        BY <1>1, <2>2 DEF UserTypeOK
      <3>3. Held(q.seen)
        BY <1>1, <3>1, CopyOfCall
      <3> HIDE DEF q
      <3> QED
        BY <3>1, <3>2, <3>3
    <2> QED
      BY <2>1, <2>2 DEF FindSettings
  <1> PICK q \in Call : /\ call' = [call EXCEPT ![t] = q]
                        /\ q.pc \in {"answer", "update", "read", "create"}
                        /\ Held(q.seen)
    BY <1>3
  <1>4. Held(q.seen)'
    BY <1>2 DEF Held
  <1>5. CopiesOK'
    <2>1. displayName' \in Names \cup {Unset} /\ excused' \in BOOLEAN
      BY <1>1, <1>2 DEF UserTypeOK
    <2> QED
      BY <1>1, <1>2, <1>4, <2>1, HandlerStep
  <1>6. NamesOK'
    BY <1>1, <1>2, NamesQuiet
  <1> QED
    BY <1>5, <1>6 DEF UserInv, CopiesOK, NamesOK

LEMMA CreateDefaultsStep ==
    ASSUME UserInv, NEW t \in Tabs, CreateDefaults(t)
    PROVE  UserInv'
  <1>1. CopiesOK /\ NamesOK /\ UserTypeOK /\ RowOK
    BY DEF UserInv, CopiesOK, NamesOK
  <1>2. call[t].pc # "sync" /\ UNCHANGED <<displayName, tab, excused>>
    BY DEF CreateDefaults
  <1>3. displayName' \in Names \cup {Unset} /\ excused' \in BOOLEAN
    BY <1>1, <1>2 DEF UserTypeOK
  <1>4. CASE settings = None /\ Save(Defaults) /\ Compared(t, settings')
    <2>1. /\ settings' \in UserRow /\ RowOK' /\ RowStep
          /\ settings'.doc.name = settings.doc.name
      BY <1>1, <1>4, SaveStep, DefaultsType DEF RowStep, None
    <2> PICK copy \in UserRow : copy = settings'
      BY <2>1
    <2> PICK q \in Call : /\ call' = [call EXCEPT ![t] = q]
                          /\ q.pc \in {"answer", "update", "read"}
                          /\ q.seen \in {copy, None}
      BY <1>1, <1>4, ComparedStep
    <2>2. Held(q.seen)'
      BY <2>1, RestingHeld DEF RowOK, Held, None
    <2>3. CopiesOK'
      BY <1>1, <1>2, <1>3, <2>1, <2>2, HandlerStep
    <2>4. NamesOK'
      BY <1>1, <1>2, <2>1, NamesQuiet
    <2> QED
      BY <2>3, <2>4 DEF UserInv, CopiesOK, NamesOK
  <1>5. CASE settings # None /\ Hangs(t) /\ UNCHANGED <<settings, saved>>
    <2>1. Resting \in Call /\ Resting.pc # "sync" /\ Resting.pc # "upsert" /\ Resting.seen = None
      BY RestingType, RestingHeld
    <2> PICK q \in Call : q = Resting
      BY <2>1
    <2> QED
      BY <1>2, <1>5, <2>1, QuietStep DEF Hangs
  <1> QED
    BY <1>4, <1>5 DEF CreateDefaults

\* A write of the row, conditional or not.
LEMMA WriteStep ==
    ASSUME UserInv, NEW t \in Tabs, call[t].pc # "sync",
           NEW doc \in Preferences, Save(doc),
           MoveTo(t, After(t), settings'), Excuse(t, doc), UNCHANGED <<displayName, tab>>,
           Named(t) => doc.name = call[t].change.name,
           ~Named(t) /\ call[t].seen = settings => doc.name = settings.doc.name
    PROVE  UserInv'
  <1>1. CopiesOK /\ NamesOK /\ UserTypeOK /\ RowOK
    BY DEF UserInv, CopiesOK, NamesOK
  <1>2. /\ settings' \in UserRow /\ settings'.doc = doc /\ RowOK' /\ RowStep
    BY <1>1, SaveStep DEF RowStep
  <1>3. displayName' \in Names \cup {Unset} /\ excused' \in BOOLEAN
    BY <1>1 DEF UserTypeOK, Excuse
  <1> PICK copy \in UserRow : copy = settings'
    BY <1>2
  <1> PICK pc \in Step : pc = After(t)
    BY DEF After, Step
  <1> PICK q \in Call : /\ call' = [call EXCEPT ![t] = q]
                        /\ q.pc = pc /\ q.seen = copy /\ q.change = call[t].change
    BY <1>1, MoveToStep
  <1>4. Held(q.seen)' /\ q.pc # "upsert"
    BY <1>2 DEF RowOK, Held, After
  <1>5. CopiesOK'
    BY <1>1, <1>2, <1>3, <1>4, HandlerStep
  <1>6. NamesOK'
    BY <1>1, <1>2, NamesWrite
  <1> QED
    BY <1>5, <1>6 DEF UserInv, CopiesOK, NamesOK

LEMMA UpdateSettingsRowStep ==
    ASSUME UserInv, NEW t \in Tabs, UpdateSettingsRow(t)
    PROVE  UserInv'
  <1>1. call[t].seen.doc \in Preferences /\ call[t].change \in Changes
    BY CopyOfCall DEF UserInv, CopiesOK, UserRow
  <1> PICK doc \in Preferences : doc = Merged(call[t].seen.doc, call[t].change)
    BY <1>1, MergedType
  <1>2. /\ Named(t) => doc.name = call[t].change.name
        /\ ~Named(t) => doc.name = call[t].seen.doc.name
    BY DEF Merged, Named
  <1> QED
    BY <1>2, WriteStep DEF UpdateSettingsRow

LEMMA UpsertSettingsRowStep ==
    ASSUME UserInv, NEW t \in Tabs, UpsertSettingsRow(t)
    PROVE  UserInv'
  <1>1. call[t].pc = "upsert" /\ call[t].change \in Preferences /\ call[t].seen = None
    BY CopyOfCall DEF UserInv, CopiesOK, UpsertSettingsRow
  <1> PICK doc \in Preferences : doc = call[t].change
    BY <1>1
  <1>2. ~Named(t) /\ call[t].seen = settings => doc.name = settings.doc.name
    BY <1>1 DEF Named, None, Defaults
  <1> QED
    BY <1>1, <1>2, WriteStep DEF UpsertSettingsRow
\* While nothing excuses a difference no other name is being copied, so that the
\* second statement makes the two agree.
LEMMA SyncDisplayNameStep ==
    ASSUME UserInv, NEW t \in Tabs, SyncDisplayName(t)
    PROVE  UserInv'
  <1>1. CopiesOK /\ NamesOK /\ UserTypeOK
    BY DEF UserInv, CopiesOK, NamesOK
  <1> PICK copy \in UserRow : copy = call[t].seen /\ Held(copy)
    BY <1>1, CopyOfCall
  <1>2. "answer" \in Step /\ MoveTo(t, "answer", copy)
    BY DEF Step, SyncDisplayName
  <1> PICK q \in Call : /\ call' = [call EXCEPT ![t] = q]
                        /\ q.pc = "answer" /\ q.seen = copy /\ q.change = call[t].change
    BY <1>1, <1>2, MoveToStep
  <1>3. /\ UNCHANGED <<settings, tab, saved, excused>> /\ t \in Syncing
        /\ displayName' = Override(call[t].change.name)
    BY DEF SyncDisplayName, Syncing
  <1>4. CopiesOK'
    <2>1. /\ Held(q.seen)' /\ RowStep
          /\ displayName' \in Names \cup {Unset} /\ excused' \in BOOLEAN
      BY <1>1, <1>3, OverrideType DEF Held, RowStep, UserTypeOK
    <2> QED
      BY <1>1, <1>3, <2>1, HandlerStep
  <1>5. NamesOK'
    <2>1. Syncing' = Syncing \ {t}
      BY <1>1, SyncingAfter
    <2>2. CASE excused
      BY <1>3, <2>2 DEF NamesOK, NamesAgree
    <2>3. CASE ~excused
      <3>1. Syncing' = {} /\ displayName' = Override(settings'.doc.name)
        BY <1>1, <1>3, <2>1, <2>3 DEF NamesOK, OneNameAtATime
      <3> QED
        BY <3>1 DEF NamesOK, NamesAgree, OneNameAtATime, Override
    <2> QED
      BY <2>2, <2>3
  <1> QED
    BY <1>4, <1>5 DEF UserInv, CopiesOK, NamesOK

LEMMA CallFailsStep ==
    ASSUME UserInv, NEW t \in Tabs, CallFails(t)
    PROVE  UserInv'
  <1>1. CopiesOK /\ NamesOK /\ UserTypeOK
    BY DEF UserInv, CopiesOK, NamesOK
  <1> PICK q \in Call : q = Resting
    BY RestingType
  <1>2. /\ call' = [call EXCEPT ![t] = q] /\ RowStep
        /\ UNCHANGED <<settings, displayName, tab, saved>>
        /\ excused' = (excused \/ call[t].pc = "sync")
    BY DEF CallFails, Hangs, RowStep
  <1>3. CopiesOK'
    <2>1. Held(None)' /\ q.seen = None /\ q.pc = "idle"
      BY RestingHeld DEF Held, None
    <2>2. displayName' \in Names \cup {Unset} /\ excused' \in BOOLEAN
      BY <1>1, <1>2 DEF UserTypeOK
    <2>3. Held(q.seen)'
      BY <2>1 DEF Held, None
    <2> QED
      BY <1>1, <1>2, <2>1, <2>2, <2>3, HandlerStep
  <1>4. NamesOK'
    <2>1. CASE call[t].pc = "sync"
      BY <1>2, <2>1 DEF NamesOK, NamesAgree
    <2>2. CASE call[t].pc # "sync"
      <3>1. excused' = excused
        BY <1>1, <1>2, <2>2 DEF UserTypeOK
      <3> QED
        BY <1>1, <1>2, <2>2, <3>1, NamesQuiet, RestingHeld
    <2> QED
      BY <2>1, <2>2
  <1> QED
    BY <1>3, <1>4 DEF UserInv, CopiesOK, NamesOK

LEMMA RenameStep ==
    ASSUME UserInv, Rename
    PROVE  UserInv'
  BY DEF UserInv, Rename, UserTypeOK, RowOK, Held, CallOK, NamesAgree

-----------------------------------------------------------------------------
(* The theorems *)

LEMMA Initially == UserInit => UserInv
  <1> SUFFICES ASSUME UserInit PROVE UserInv
    OBVIOUS
  <1>0. /\ settings \in UserRow /\ saved \in Seq(Preferences) /\ RowOK
    <2>1. CASE settings = None /\ saved = <<>>
      <3>1. None.version = 0 /\ Len(saved) = 0 /\ saved \in Seq(Preferences)
        BY <2>1 DEF None
      <3> QED
        BY <2>1, <3>1, DefaultsType DEF RowOK, Held
    <2>2. CASE settings = [version |-> 1, doc |-> Defaults] /\ saved = <<Defaults>>
      <3>1. /\ settings.version = 1 /\ settings.doc = Defaults
            /\ Len(saved) = 1 /\ saved[1] = Defaults /\ saved \in Seq(Preferences)
        BY <2>2, DefaultsType
      <3> QED
        BY <2>2, <3>1, DefaultsType DEF RowOK, Held, UserRow
    <2> QED
      BY <2>1, <2>2 DEF UserInit
  <1>1. UserTypeOK
    <2>1. displayName \in Names \cup {Unset} /\ excused \in BOOLEAN
      BY DEF UserInit
    <2>2. tab \in [Tabs -> UserRow] /\ call \in [Tabs -> Call]
      BY DefaultsType, RestingType DEF UserInit
    <2> QED
      BY <1>0, <2>1, <2>2 DEF UserTypeOK
  <1>2. RowOK
    BY <1>0
  <1>3. \A t \in Tabs : tab[t] = None /\ call[t] = Resting
    BY DEF UserInit
  <1>4. \A t \in Tabs : Held(tab[t]) /\ CallOK(t)
    BY <1>3, RestingHeld DEF CallOK
  <1>5. Syncing = {}
    BY <1>3, RestingHeld DEF Syncing
  <1>6. settings.doc.name = Unset
    BY DEF UserInit, None, Defaults
  <1>7. NamesAgree /\ OneNameAtATime
    BY <1>5, <1>6, NameAssumption DEF UserInit, NamesAgree, OneNameAtATime, Override
  <1> QED
    BY <1>1, <1>2, <1>4, <1>7 DEF UserInv

LEMMA NextStep == UserInv /\ [UserNext]_userVars => UserInv'
  <1> SUFFICES ASSUME UserInv, [UserNext]_userVars PROVE UserInv'
    OBVIOUS
  <1>1. ASSUME NEW t \in Tabs, SettingsPage(t) PROVE UserInv'
    BY <1>1, AsksStep, ShowSettingsStep DEF SettingsPage
  <1>2. ASSUME NEW t \in Tabs, SettingsService(t) PROVE UserInv'
    BY <1>2, FindSettingsStep, CreateDefaultsStep, UpdateSettingsRowStep,
       UpsertSettingsRowStep, SyncDisplayNameStep, CallFailsStep DEF SettingsService
  <1>3. ASSUME NEW t \in Callers, PatchFromAnywhere(t) \/ Replace(t) PROVE UserInv'
    BY <1>3, AsksStep, CallerAssumption
  <1>4. CASE UNCHANGED userVars
    BY <1>4 DEF userVars, UserInv, UserTypeOK, RowOK, Held, CallOK, NamesAgree,
       OneNameAtATime, Syncing, Override
  <1> QED
    BY <1>1, <1>2, <1>3, <1>4, RenameStep DEF UserNext

LEMMA Inductive == UserSpec => []UserInv
  BY Initially, NextStep, PTL DEF UserSpec

\* Type correctness, for any pages, names and number of saves.
THEOREM TypeCorrect == UserSpec => []UserTypeOK
  <1>1. UserInv => UserTypeOK
    BY DEF UserInv
  <1> QED
    BY <1>1, Inductive, PTL

\* Every page shows a document that the row held at the version it sends back.
THEOREM TabsAreSnapshots == UserSpec => []TabIsSnapshot
  <1>1. UserInv => TabIsSnapshot
    BY DEF UserInv, UserTypeOK, RowOK, Held, TabIsSnapshot, UserRow
  <1> QED
    BY <1>1, Inductive, PTL

\* The names of the two tables agree, but for the excuses NamesAgree names.
THEOREM TheNamesAgree == UserSpec => []NamesAgree
  <1>1. UserInv => NamesAgree
    BY DEF UserInv
  <1> QED
    BY <1>1, Inductive, PTL

=============================================================================
