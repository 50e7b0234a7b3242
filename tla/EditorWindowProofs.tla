-------------------------------- MODULE EditorWindowProofs --------------------------------
(***************************************************************************)
(* What the one editor of the browser window guarantees, for any number of *)
(* files, calls under way, changes and losses: the four properties that    *)
(* TLC checks on two files and three calls.                                *)
(***************************************************************************)
EXTENDS EditorWindow, TLAPS

Texts == [of : Files, v : Nat]

Windows ==
    [name : Files \union {NoFile}, of : Files \union {NoFile}, time : Nat, edited : BOOLEAN,
     text : Texts \union {None}, place : {"empty", "loading", "editor", "wrecked"}, hidden : BOOLEAN,
     bound : Nat, session : Nat, timers : SUBSET Nat, pop : BOOLEAN, offer : BOOLEAN]

Calls ==
    [kind : {"load", "save", "last"}, path : Files, text : Texts \union {None},
     of : Files \union {NoFile}, time : Nat, st : {"sent", "ok", "no"}]

Loads(s) == calls[s].kind = "load"
Stores(s) == calls[s].kind \in {"save", "last"}

\* A save carries a text, and so does an answered load; whoever edits has one.
Types ==
    /\ win \in Windows
    /\ calls \in [Slots -> Calls \union {None}]
    /\ disk \in [Files -> [text : Texts, time : Nat]]
    /\ now \in Nat
    /\ typed \in [Files -> Nat] /\ saved \in [Files -> Nat] /\ overhung \in [Files -> Nat]
    /\ \A s \in Slots : Loads(s) => calls[s].text = None \/ calls[s].text.of \in Files
    /\ \A s \in Slots : Loads(s) /\ calls[s].st = "ok" => calls[s].text \in Texts
    /\ \A s \in Slots : Stores(s) => calls[s].text \in Texts /\ win.text \in Texts
    /\ win.place = "editor" \/ win.edited => win.text \in Texts
    /\ win.name \notin Files => win.text = None /\ \A s \in Slots : ~Loads(s)

No(what) == troubles \cap what = {}

NoMixing == No({"loads", "unsaved", "late"})
NoTurning == No({"loads", "turned", "unsaved"})
InOrder == No({"loads", "turned", "saves", "unsaved"})
Undisturbed == troubles = {}

\* Every text is under way to, or on screen as, the file it was read from.
Apart ==
    /\ \A f \in Files : disk[f].text.of = f
    /\ \A s \in Slots : Loads(s) => calls[s].path = win.name
    /\ \A s \in Slots : Loads(s) /\ calls[s].st = "ok" => calls[s].text.of = calls[s].path
    /\ \A s \in Slots : Stores(s) => calls[s].text.of = calls[s].path
    /\ win.edited \/ win.place = "editor" => win.text.of = win.name

\* What is under way is about the file in the window.
OnTopic ==
    /\ \A s, t \in Slots : Loads(s) /\ Loads(t) => s = t
    /\ \A s \in Slots : Stores(s) => calls[s].path = win.name /\ win.text.of = win.name
    /\ \A s \in Slots : Stores(s) /\ calls[s].st = "ok" => calls[s].of = calls[s].path
    /\ \A s \in Slots : Loads(s) =>
         ~win.edited /\ win.place \in {"loading", "empty"} /\ \A t \in Slots : ~Stores(t)
    /\ win.place = "editor" => win.of = win.name

\* One save at a time, and nothing to edit behind the last one.
OneAtATime ==
    /\ \A s, t \in Slots : Stores(s) /\ Stores(t) => s = t
    /\ \A s \in Slots : calls[s].kind = "last" => ~win.edited /\ ~Visible

\* The time on record, or in the answer under way, is the time of the file.
InTouch ==
    /\ \A s \in Slots : Loads(s) /\ calls[s].st = "ok" => calls[s].time = disk[calls[s].path].time
    /\ \A s \in Slots : Stores(s) /\ calls[s].st # "no" => calls[s].time = disk[calls[s].path].time
    /\ \A s \in Slots : Stores(s) /\ calls[s].st # "ok" => win.time = disk[win.name].time
    /\ win.edited \/ win.place = "editor" =>
         win.time = disk[win.name].time \/ \E s \in Slots : Stores(s) /\ calls[s].st = "ok"

Unkept(f) == typed[f] \notin {saved[f], overhung[f]} /\ f \notin warned

\* A change that will be saved where the user sees it if it is not.
Pending == win.edited /\ Visible /\ win.timers # {}

\* Nobody forgets a text that is not stored: it is being edited, with a timer
\* that runs, or on its way.
Remembered ==
    /\ win.edited \/ (\E s \in Slots : Stores(s)) => win.text.v = typed[win.name]
    /\ \A s \in Slots : Stores(s) => calls[s].text.v = typed[calls[s].path] \/ Pending
    /\ \A f \in Files : Unkept(f) =>
         /\ win.name = f
         /\ Pending \/ \E s \in Slots : /\ Stores(s) /\ calls[s].st # "ok"
                                        /\ calls[s].text.v = typed[f]
                                        /\ calls[s].kind = "save" => Visible

IInv ==
    /\ Types
    /\ events \in Nat
    /\ NoMixing => Apart
    /\ NoTurning => NoMixing /\ OnTopic
    /\ InOrder => OneAtATime /\ Remembered
    /\ Undisturbed => InTouch
-----------------------------------------------------------------------------
\* A call is put where there is none.
LEMMA SendFillsSlot ==
    ASSUME NEW call, Types, Send(call)
    PROVE  \E s \in Slots : calls[s] = None /\ calls' = [calls EXCEPT ![s] = call]
BY DEF Send, Slot, Free

\* What is sent has a text and a name.
LEMMA SavingFillsSlot ==
    ASSUME NEW kind \in {"save", "last"}, Types, win.edited, Saving(kind)
    PROVE  \E s \in Slots, c \in Calls :
             /\ calls[s] = None /\ calls' = [calls EXCEPT ![s] = c]
             /\ c.kind = kind /\ c.path = win.name /\ c.text = win.text
             /\ c.of = win.of /\ c.time = win.time /\ c.st = "sent"
             /\ win.text \in Texts /\ win.name \in Files
<1> DEFINE c == [kind |-> kind, path |-> win.name, text |-> win.text, of |-> win.of, time |-> win.time, st |-> "sent"]
<1>1. win.text \in Texts /\ win.name \in Files
  <2>1. win.text \in Texts /\ (win.name \notin Files => win.text = None)
    BY DEF Types
  <2>2. None \notin Texts
    BY DEF None, Texts
  <2>3. QED
    BY <2>1, <2>2
<1>2. c \in Calls
  BY <1>1 DEF Types, Windows, Calls
<1>3. PICK s \in Slots : calls[s] = None /\ calls' = [calls EXCEPT ![s] = c]
  BY SendFillsSlot DEF Saving
<1>4. QED
  BY <1>1, <1>2, <1>3

LEMMA InitIInv == Init => IInv
<1> SUFFICES ASSUME Init PROVE IInv
  OBVIOUS
<1>1. Types
  BY DEF Init, Types, Windows, Texts, Text, Loads, Stores, None
<1>2. Apart /\ OnTopic /\ OneAtATime /\ InTouch /\ Remembered
  BY DEF Init, Apart, OnTopic, OneAtATime, InTouch, Remembered, Loads, Stores, None, Unkept, Text
<1>3. NoMixing
  BY DEF Init, NoMixing, No
<1>4. events \in Nat
  BY DEF Init
<1>5. QED
  BY <1>1, <1>2, <1>3, <1>4 DEF IInv
-----------------------------------------------------------------------------
\* What the steps do to the window, field by field.
SameFile == win' \in Windows /\ UNCHANGED <<win.name, win.of, win.time, win.text>>
SameView == UNCHANGED <<win.place, win.hidden>>

LEMMA CloseEditorIs ==
    ASSUME NEW w \in Windows
    PROVE  /\ CloseEditor(w) \in Windows /\ CloseEditor(w).place = "empty"
           /\ CloseEditor(w).name = w.name /\ CloseEditor(w).of = w.of /\ CloseEditor(w).time = w.time
           /\ CloseEditor(w).text = w.text /\ CloseEditor(w).edited = w.edited
           /\ CloseEditor(w).timers = w.timers
BY DEF CloseEditor, Unbound, Windows

LEMMA HideEditorIs ==
    ASSUME NEW w \in Windows
    PROVE  /\ HideEditor(w) \in Windows /\ HideEditor(w).hidden
           /\ HideEditor(w).name = w.name /\ HideEditor(w).of = w.of /\ HideEditor(w).time = w.time
           /\ HideEditor(w).text = w.text /\ HideEditor(w).edited = w.edited
           /\ HideEditor(w).place = w.place /\ HideEditor(w).timers = w.timers
BY DEF HideEditor, Unbound, Windows

\* A save of what is edited, which then no longer counts as edited.
SendsOff(kind) ==
    /\ win.edited /\ ~win'.edited /\ SameFile
    /\ win.text \in Texts /\ win.name \in Files
    /\ \E s \in Slots, c \in Calls :
         /\ calls[s] = None /\ calls' = [calls EXCEPT ![s] = c]
         /\ c.kind = kind /\ c.path = win.name /\ c.text = win.text
         /\ c.of = win.of /\ c.time = win.time /\ c.st = "sent"
    /\ UNCHANGED <<disk, now, typed, saved, overhung, warned>>

LEMMA SavingSendsOff ==
    ASSUME Types, win.edited, NEW kind \in {"save", "last"}, Saving(kind), SameFile, ~win'.edited,
           UNCHANGED <<disk, now, typed, saved, overhung, warned>>
    PROVE  SendsOff(kind)
BY SavingFillsSlot DEF SendsOff

\* By the keyboard or a timer.
LEMMA SaveSends ==
    ASSUME Types, win.edited, Save \/ Autosave
    PROVE  SendsOff("save") /\ SameView /\ troubles' = troubles \union Overlap /\ (Save => Visible)
<1>1. win \in Windows
  BY DEF Types
<1>2. PICK T \in SUBSET Nat : /\ SaveTrigger([win EXCEPT !.timers = T])
                              /\ troubles' = troubles \union Overlap /\ (Save => Visible)
                              /\ UNCHANGED <<disk, now, typed, saved, overhung, warned>>
  <2>1. CASE Save
    <3>1. win = [win EXCEPT !.timers = win.timers] /\ win.timers \in SUBSET Nat
      BY <1>1 DEF Windows
    <3>2. QED
      BY <2>1, <3>1 DEF Save
  <2>2. CASE Autosave
    <3>1. PICK t \in win.timers : /\ SaveTrigger([win EXCEPT !.timers = @ \ {t}])
                                  /\ troubles' = troubles \union Overlap
                                  /\ UNCHANGED <<disk, now, typed, saved, overhung, warned>>
      BY <2>2 DEF Autosave
    <3>2. win.timers \ {t} \in SUBSET Nat
      BY <1>1 DEF Windows
    <3>3. Save => Visible
      BY DEF Save
    <3>4. QED
      BY <3>1, <3>2, <3>3
  <2>3. QED
    BY <2>1, <2>2
<1>3. Saving("save") /\ win' = [[win EXCEPT !.timers = T] EXCEPT !.edited = FALSE]
  BY <1>1, <1>2 DEF SaveTrigger, Windows
<1>4. SameFile /\ ~win'.edited /\ SameView
  BY <1>1, <1>3 DEF SameFile, SameView, Windows
<1>5. QED
  BY <1>2, <1>3, <1>4, SavingSendsOff

\* By closing the editor.
LEMMA CloseSends ==
    ASSUME Types, win.edited, Close \/ CloseTwice
    PROVE  /\ SendsOff("last") /\ troubles' = troubles \union Turned
           /\ ~Visible' /\ win'.place \in {win.place, "empty"}
<1> DEFINE w == [win EXCEPT !.edited = FALSE]
<1>1. w \in Windows /\ w.name = win.name /\ w.of = win.of /\ w.time = win.time /\ w.text = win.text
      /\ w.place = win.place /\ ~w.edited
  BY DEF Types, Windows
<1> HIDE DEF w
<1>2. Saving("last") /\ troubles' = troubles \union Turned /\ UNCHANGED <<disk, now, typed, saved, overhung, warned>>
  BY DEF Close, CloseTrigger, CloseTwice
<1>3. win' = HideEditor(w) \/ win' = CloseEditor(w)
  BY DEF Close, CloseTrigger, CloseTwice, w
<1>4. SameFile /\ ~win'.edited /\ ~Visible' /\ win'.place \in {win.place, "empty"}
  BY <1>1, <1>3, CloseEditorIs, HideEditorIs DEF SameFile, Visible
<1>5. QED
  BY <1>2, <1>4, SavingSendsOff

\* Nothing is edited: the timer runs out and the editor is closed without a call.
\* A hidden editor is shown again.
Stays ==
    /\ SameFile /\ UNCHANGED <<calls, disk, now, typed, saved, overhung, warned, win.edited>>
    /\ win'.place \in {win.place, "empty"}

LEMMA IdleSaveStays ==
    ASSUME Types, ~win.edited, Autosave
    PROVE  Stays /\ SameView /\ troubles' = troubles
BY DEF Types, Windows, Stays, SameFile, SameView, Autosave, SaveTrigger

LEMMA IdleCloseStays ==
    ASSUME Types, ~win.edited, Close \/ CloseTwice
    PROVE  Stays /\ win'.place = "empty" /\ troubles' = troubles \union Turned
<1> DEFINE w == [win EXCEPT !.edited = FALSE]
<1>1. w = win /\ win \in Windows
  BY DEF Types, Windows
<1>2. win' = CloseEditor(win)
  BY <1>1 DEF Close, CloseTrigger, CloseTwice
<1>3. /\ troubles' = troubles \union Turned
      /\ UNCHANGED <<calls, disk, now, typed, saved, overhung, warned>>
  BY DEF Close, CloseTrigger, CloseTwice
<1>4. QED
  BY <1>1, <1>2, <1>3, CloseEditorIs DEF Stays, SameFile

LEMMA ReopenStays ==
    ASSUME Types, Reopen
    PROVE  Stays /\ win'.place = win.place /\ win.hidden /\ troubles' = troubles \union Turned
BY DEF Types, Windows, Stays, SameFile, Reopen

\* A click in the list.
LEMMA OpenAsks ==
    ASSUME Types, NEW f \in Files, Open(f)
    PROVE  /\ \E s \in Slots, c \in Calls :
                /\ calls[s] = None /\ calls' = [calls EXCEPT ![s] = c]
                /\ c = [kind |-> "load", path |-> f, text |-> None, of |-> f, time |-> 0, st |-> "sent"]
           /\ win' \in Windows /\ win'.name = f /\ win'.place = "loading"
           /\ UNCHANGED <<win.of, win.time, win.text, win.edited, win.hidden, disk, now, typed, saved, overhung, warned>>
<1>1. [kind |-> "load", path |-> f, text |-> None, of |-> f, time |-> 0, st |-> "sent"] \in Calls
  BY DEF Calls
<1>2. /\ win' \in Windows /\ win'.name = f /\ win'.place = "loading"
      /\ UNCHANGED <<win.of, win.time, win.text, win.edited, win.hidden>>
  BY DEF Open, Types, Windows
<1>3. QED
  BY <1>1, <1>2, SendFillsSlot DEF Open

\* A change of the text.
LEMMA TypeChanges ==
    ASSUME Types, Type
    PROVE  /\ win.text \in Texts /\ Visible
           /\ win' \in Windows /\ SameView /\ UNCHANGED <<win.name, win.of, win.time>>
           /\ win'.text = [of |-> win.text.of, v |-> typed[win.text.of] + 1]
           /\ win'.edited /\ win'.timers # {}
           /\ typed' = [typed EXCEPT ![win.text.of] = @ + 1]
           /\ warned' = warned \ {win.text.of}
           /\ UNCHANGED <<calls, disk, now, saved, overhung, troubles>>
<1>1. win.text \in Texts /\ win.session \in Nat /\ win.timers \in SUBSET Nat /\ win \in Windows /\ Visible
  BY DEF Type, Visible, Types, Windows
<1>2. win' = [win EXCEPT !.text = Text(win.text.of, typed[win.text.of] + 1), !.edited = TRUE, !.timers = @ \union {win.session}]
  BY DEF Type
<1>3. typed[win.text.of] + 1 \in Nat
  BY <1>1 DEF Types, Texts
<1>4. win'.text = [of |-> win.text.of, v |-> typed[win.text.of] + 1] /\ win'.text \in Texts
  BY <1>1, <1>2, <1>3 DEF Windows, Texts, Text
<1>5. /\ win' \in Windows /\ SameView /\ UNCHANGED <<win.name, win.of, win.time>>
      /\ win'.edited /\ win'.timers # {}
  BY <1>1, <1>2, <1>4 DEF Windows, SameView
<1>6. /\ typed' = [typed EXCEPT ![win.text.of] = @ + 1]
      /\ warned' = warned \ {win.text.of}
      /\ UNCHANGED <<calls, disk, now, saved, overhung, troubles>>
  BY DEF Type
<1>7. QED
  BY <1>1, <1>4, <1>5, <1>6

Ends(s) == calls' = [calls EXCEPT ![s] = None] /\ UNCHANGED <<disk, now, typed, saved, overhung>>

Shown(w, t) == [w EXCEPT !.place = "editor", !.text = t, !.session = @ + 1, !.bound = @ + 1, !.pop = TRUE]
Wrecked(w) == [w EXCEPT !.place = "wrecked", !.bound = @ + 1]

LEMMA ShownIs ==
    ASSUME NEW w \in Windows, NEW t \in Texts
    PROVE  /\ Shown(w, t) \in Windows /\ Shown(w, t).place = "editor" /\ Shown(w, t).text = t
           /\ Shown(w, t).name = w.name /\ Shown(w, t).of = w.of /\ Shown(w, t).time = w.time
           /\ Shown(w, t).edited = w.edited /\ Shown(w, t).hidden = w.hidden
<1>1. w.session + 1 \in Nat /\ w.bound + 1 \in Nat
  BY DEF Windows
<1>2. QED
  BY <1>1 DEF Shown, Windows

LEMMA WreckedIs ==
    ASSUME NEW w \in Windows
    PROVE  /\ Wrecked(w) \in Windows /\ Wrecked(w).place = "wrecked" /\ Wrecked(w).text = w.text
           /\ Wrecked(w).name = w.name /\ Wrecked(w).of = w.of /\ Wrecked(w).time = w.time
           /\ Wrecked(w).edited = w.edited /\ Wrecked(w).hidden = w.hidden
<1>1. w.bound + 1 \in Nat
  BY DEF Windows
<1>2. QED
  BY <1>1 DEF Wrecked, Windows

\* The text that was loaded is put on screen, or only its time on record.
LEMMA LoadedShows ==
    ASSUME Types, NEW s \in Slots, Loaded(s)
    PROVE  /\ Loads(s) /\ calls[s].st = "ok" /\ calls[s] \in Calls /\ calls[s].text \in Texts
           /\ Ends(s) /\ UNCHANGED <<warned, troubles>>
           /\ win' \in Windows /\ UNCHANGED <<win.name, win.edited, win.hidden>>
           /\ win'.of = calls[s].path /\ win'.time = calls[s].time
           /\ \/ win'.place \in {"empty", "wrecked"} /\ win'.text = win.text
              \/ win'.place = "editor" /\ win'.text = calls[s].text
<1>1. calls[s].kind = "load" /\ calls[s].st = "ok"
  BY DEF Loaded
<1>2. calls[s] \in Calls /\ calls[s].text \in Texts
  BY <1>1 DEF Types, Loads, None
<1> DEFINE w == [win EXCEPT !.of = calls[s].path, !.time = calls[s].time]
<1>3. /\ w \in Windows /\ w.name = win.name /\ w.edited = win.edited /\ w.hidden = win.hidden
      /\ w.of = calls[s].path /\ w.time = calls[s].time /\ w.text = win.text
  BY <1>2 DEF Types, Windows, Calls
<1>4. \/ w.place = "empty" /\ win' = w
      \/ win' = Shown(w, calls[s].text)
      \/ win' = Wrecked(w)
  BY DEF Loaded, Shown, Wrecked
<1> HIDE DEF w
<1>5. /\ win' \in Windows /\ UNCHANGED <<win.name, win.edited, win.hidden>>
      /\ win'.of = calls[s].path /\ win'.time = calls[s].time
      /\ \/ win'.place \in {"empty", "wrecked"} /\ win'.text = win.text
         \/ win'.place = "editor" /\ win'.text = calls[s].text
  BY <1>2, <1>3, <1>4, ShownIs, WreckedIs
<1>6. Ends(s) /\ UNCHANGED <<warned, troubles>>
  BY DEF Loaded, Over, Answer, Ends, history
<1>7. QED
  BY <1>1, <1>2, <1>5, <1>6 DEF Loads

\* The empty editor stays or goes.
LEMMA NotLoadedStays ==
    ASSUME Types, NEW s \in Slots, NotLoaded(s, TRUE) \/ NotLoaded(s, FALSE)
    PROVE  /\ Loads(s) /\ Ends(s) /\ UNCHANGED <<warned, troubles, win.edited>>
           /\ SameFile /\ (SameView \/ win'.place = "empty")
<1>1. win \in Windows
  BY DEF Types
<1>2. win' = CloseEditor(win) \/ win' = win
  BY DEF NotLoaded
<1>3. SameFile /\ (SameView \/ win'.place = "empty") /\ win'.edited = win.edited
  BY <1>1, <1>2, CloseEditorIs DEF SameFile, SameView
<1>4. Loads(s) /\ Ends(s) /\ UNCHANGED <<warned, troubles>>
  BY DEF NotLoaded, Loads, Ends, Over, Answer, history
<1>5. QED
  BY <1>3, <1>4

\* The new time is put on record.
LEMMA SavedRecords ==
    ASSUME Types, NEW s \in Slots, Saved(s)
    PROVE  /\ Stores(s) /\ calls[s].kind = "save" /\ calls[s].st = "ok" /\ calls[s] \in Calls
           /\ Ends(s) /\ UNCHANGED <<warned, troubles>>
           /\ win' \in Windows /\ SameView
           /\ UNCHANGED <<win.name, win.text, win.edited, win.timers>>
           /\ win'.of = calls[s].of /\ win'.time = calls[s].time
<1>1. Stores(s) /\ calls[s].kind = "save" /\ calls[s].st = "ok" /\ calls[s] \in Calls
  BY DEF Saved, Stores, Types, None
<1>2. win' = [win EXCEPT !.of = calls[s].of, !.time = calls[s].time]
  BY DEF Saved
<1>3. /\ win' \in Windows /\ SameView
      /\ UNCHANGED <<win.name, win.text, win.edited, win.timers>>
      /\ win'.of = calls[s].of /\ win'.time = calls[s].time
  BY <1>1, <1>2 DEF Types, Windows, Calls, SameView
<1>4. Ends(s) /\ UNCHANGED <<warned, troubles>>
  BY DEF Saved, Ends, Over, Answer, history
<1>5. QED
  BY <1>1, <1>3, <1>4

\* What was not saved counts as edited again.
LEMMA NotSavedAgain ==
    ASSUME Types, NEW s \in Slots, NotSaved(s) \/ NotSavedLast(s)
    PROVE  /\ Stores(s) /\ calls[s].st = "no" /\ calls[s] \in Calls
           /\ Ends(s) /\ troubles' = troubles \union Late(calls[s])
           /\ warned' = IF calls[s].kind = "last" \/ Visible THEN warned \union {calls[s].text.of} ELSE warned
           /\ SameFile /\ SameView /\ win'.edited /\ UNCHANGED <<win.timers>>
<1>1. Stores(s) /\ calls[s].st = "no" /\ calls[s] \in Calls
  BY DEF NotSaved, NotSavedLast, Stores, Types, None
<1>2. win' = [win EXCEPT !.edited = TRUE] \/ win' = [win EXCEPT !.edited = TRUE, !.offer = TRUE]
  BY DEF NotSaved, NotSavedLast
<1>3. SameFile /\ SameView /\ win'.edited /\ UNCHANGED <<win.timers>>
  BY <1>2 DEF Types, Windows, SameFile, SameView
<1>4. /\ Ends(s) /\ troubles' = troubles \union Late(calls[s])
      /\ warned' = IF calls[s].kind = "last" \/ Visible THEN warned \union {calls[s].text.of} ELSE warned
  BY DEF NotSaved, NotSavedLast, Ends, Over, Answer
<1>5. QED
  BY <1>1, <1>3, <1>4

\* The editor that was closed is gone.
LEMMA SavedLastCloses ==
    ASSUME Types, NEW s \in Slots, SavedLast(s)
    PROVE  /\ Stores(s) /\ calls[s].kind = "last" /\ calls[s].st = "ok"
           /\ Ends(s) /\ UNCHANGED <<warned, troubles, win.edited>>
           /\ SameFile /\ win'.place = "empty"
<1>1. win \in Windows
  BY DEF Types
<1>2. SameFile /\ win'.place = "empty" /\ win'.edited = win.edited
  BY <1>1, CloseEditorIs DEF SavedLast, SameFile
<1>3. /\ Stores(s) /\ calls[s].kind = "last" /\ calls[s].st = "ok"
      /\ Ends(s) /\ UNCHANGED <<warned, troubles>>
  BY DEF SavedLast, Stores, Ends, Over, Answer, history
<1>4. QED
  BY <1>2, <1>3

LEMMA ServeLoadAnswers ==
    ASSUME Types, NEW s \in Slots, ServeLoad(s)
    PROVE  \E c \in Calls :
             /\ Loads(s) /\ calls[s] \in Calls /\ calls[s].st = "sent"
             /\ calls' = [calls EXCEPT ![s] = c]
             /\ c.kind = "load" /\ c.st = "ok" /\ c.path = calls[s].path
             /\ c.text = disk[c.path].text /\ c.time = disk[c.path].time /\ c.text \in Texts
             /\ UNCHANGED <<win, disk, now, typed, saved, overhung, warned, troubles>>
<1> DEFINE d == disk[calls[s].path]
           c == [calls[s] EXCEPT !.st = "ok", !.text = d.text, !.time = d.time]
<1>1. Loads(s) /\ calls[s].st = "sent" /\ calls[s] \in Calls
  BY DEF ServeLoad, Loads, Types, None
<1>2. d \in [text : Texts, time : Nat]
  BY <1>1 DEF Types, Calls
<1> HIDE DEF d
<1>3. c \in Calls /\ c.kind = "load" /\ c.st = "ok" /\ c.path = calls[s].path /\ c.text = d.text /\ c.time = d.time
  BY <1>1, <1>2 DEF Calls, Loads
<1>4. calls' = [calls EXCEPT ![s] = c] /\ UNCHANGED <<win, disk, now, typed, saved, overhung, warned, troubles>>
  BY DEF ServeLoad, Answer, d, history
<1>5. QED
  BY <1>1, <1>2, <1>3, <1>4 DEF d

\* What is stored is of the file the text is of, with an end of another or not.
LEMMA WrittenIs ==
    ASSUME NEW t \in Texts, NEW covers \in BOOLEAN
    PROVE  Written(t, covers) \in Texts /\ Written(t, covers).of = t.of
BY DEF Written, Text, Texts

\* The save of a text that passes the comparison, and one that does not.
Writes(s) ==
    \E c \in Calls, covers \in BOOLEAN :
      /\ Stores(s) /\ calls[s] \in Calls /\ calls[s].st = "sent"
      /\ calls[s].time = disk[calls[s].path].time
      /\ calls' = [calls EXCEPT ![s] = c]
      /\ c.kind = calls[s].kind /\ c.st = "ok" /\ c.path = calls[s].path /\ c.text = calls[s].text
      /\ c.of = c.path /\ c.time = now
      /\ disk' = [disk EXCEPT ![c.path] = [text |-> Written(c.text, covers), time |-> now]]
      /\ saved' = IF covers THEN Noted(saved, c) ELSE saved
      /\ overhung' = IF covers THEN overhung ELSE Noted(overhung, c)
      /\ UNCHANGED <<win, now, typed, warned, troubles>>

Fails(s) ==
    \E c \in Calls :
      /\ calls[s] \in Calls /\ calls[s].st # "no"
      /\ calls' = [calls EXCEPT ![s] = c]
      /\ c.kind = calls[s].kind /\ c.st = "no" /\ c.path = calls[s].path
      /\ c.text = calls[s].text /\ c.of = calls[s].of /\ c.time = calls[s].time
      /\ UNCHANGED <<win, disk, now, typed, saved, overhung, warned>>

LEMMA ServeSaveWrites ==
    ASSUME Types, NEW s \in Slots, ServeSave(s)
    PROVE  \/ Writes(s)
           \/ /\ Fails(s) /\ Stores(s) /\ calls[s].st = "sent" /\ UNCHANGED troubles
              /\ calls[s].time # disk[calls[s].path].time
<1>1. Stores(s) /\ calls[s].st = "sent" /\ calls[s] \in Calls
  BY DEF ServeSave, Stores, Types, None
<1>2. CASE calls[s].time = disk[calls[s].path].time
  <2> DEFINE c == [calls[s] EXCEPT !.st = "ok", !.of = calls[s].path, !.time = now]
  <2>1. /\ c \in Calls /\ c.kind = calls[s].kind /\ c.st = "ok" /\ c.path = calls[s].path
        /\ c.text = calls[s].text /\ c.of = c.path /\ c.time = now
    BY <1>1 DEF Calls, Types
  <2>2. PICK covers \in BOOLEAN :
          /\ calls' = [calls EXCEPT ![s] = c]
          /\ disk' = [disk EXCEPT ![calls[s].path] = [text |-> Written(calls[s].text, covers), time |-> now]]
          /\ saved' = IF covers THEN Noted(saved, calls[s]) ELSE saved
          /\ overhung' = IF covers THEN overhung ELSE Noted(overhung, calls[s])
          /\ UNCHANGED <<win, now, typed, warned, troubles>>
    BY <1>2 DEF ServeSave, Answer
  <2> HIDE DEF c
  <2>3. \A note : Noted(note, c) = Noted(note, calls[s])
    BY <2>1 DEF Noted
  <2>4. QED
    BY <1>1, <1>2, <2>1, <2>2, <2>3 DEF Writes
<1>3. CASE calls[s].time # disk[calls[s].path].time
  <2> DEFINE c == [calls[s] EXCEPT !.st = "no"]
  <2>1. /\ c \in Calls /\ c.kind = calls[s].kind /\ c.st = "no" /\ c.path = calls[s].path
        /\ c.text = calls[s].text /\ c.of = calls[s].of /\ c.time = calls[s].time
    BY <1>1 DEF Calls
  <2>2. /\ calls' = [calls EXCEPT ![s] = c]
        /\ UNCHANGED <<win, disk, now, typed, saved, overhung, warned, troubles>>
    BY <1>3 DEF ServeSave, Answer
  <2> HIDE DEF c
  <2>3. QED
    BY <1>1, <1>3, <2>1, <2>2 DEF Fails
<1>4. QED
  BY <1>2, <1>3

LEMMA FaultFails ==
    ASSUME Types, NEW s \in Slots, Fault(s)
    PROVE  Fails(s) /\ troubles' = troubles \union (IF calls[s].st = "ok" THEN {"lost"} ELSE {})
<1>1. calls[s] \in Calls /\ calls[s].st # "no"
  BY DEF Fault, Types, None
<1> DEFINE c == [calls[s] EXCEPT !.st = "no"]
<1>2. /\ c \in Calls /\ c.kind = calls[s].kind /\ c.st = "no" /\ c.path = calls[s].path
      /\ c.text = calls[s].text /\ c.of = calls[s].of /\ c.time = calls[s].time
  BY <1>1 DEF Calls
<1>3. /\ calls' = [calls EXCEPT ![s] = c] /\ UNCHANGED <<win, disk, now, typed, saved, overhung, warned>>
      /\ troubles' = troubles \union (IF calls[s].st = "ok" THEN {"lost"} ELSE {})
  BY DEF Fault, Answer
<1> HIDE DEF c
<1>4. QED
  BY <1>1, <1>2, <1>3 DEF Fails
-----------------------------------------------------------------------------
\* The window is the only place where a text changes; what is sent and what is
\* stored are copies of one.
LEMMA NextTypes == Types /\ [Next]_vars => Types'
<1> SUFFICES ASSUME Types, [Next]_vars PROVE Types'
  OBVIOUS
<1>1. ASSUME NEW f \in Files, Open(f) PROVE Types'
  <2>1. PICK s \in Slots, c \in Calls : /\ calls' = [calls EXCEPT ![s] = c]
                                        /\ c.kind = "load" /\ c.text = None /\ c.st = "sent"
    BY <1>1, OpenAsks
  <2>2. /\ win' \in Windows /\ win'.name = f /\ win'.place = "loading"
        /\ UNCHANGED <<win.text, win.edited, disk, now, typed, saved, overhung>>
    BY <1>1, OpenAsks DEF Open
  <2>3. QED
    BY <2>1, <2>2 DEF Types, Loads, Stores
<1>2. CASE Type
  <2>1. /\ win.text \in Texts /\ win' \in Windows /\ UNCHANGED win.name
        /\ win'.text = [of |-> win.text.of, v |-> typed[win.text.of] + 1]
        /\ typed' = [typed EXCEPT ![win.text.of] = @ + 1]
        /\ UNCHANGED <<calls, disk, now, saved, overhung>>
    BY <1>2, TypeChanges
  <2>2. win.text.of \in Files /\ typed[win.text.of] + 1 \in Nat
    BY <2>1 DEF Types, Texts
  <2>3. typed' \in [Files -> Nat] /\ win'.text \in Texts
    BY <2>1, <2>2 DEF Types, Texts
  <2>4. win.name \in Files
    BY <2>1 DEF Types, Texts, None
  <2>5. QED
    BY <2>1, <2>3, <2>4 DEF Types, Loads, Stores
<1>3. ASSUME NEW kind \in {"save", "last"}, SendsOff(kind), UNCHANGED now PROVE Types'
  BY <1>3 DEF SendsOff, SameFile, Types, Calls, Loads, Stores, None
<1>4. CASE Stays
  BY <1>4 DEF Stays, SameFile, Types, Loads, Stores
<1>5. ASSUME NEW s \in Slots, ServeLoad(s) PROVE Types'
  <2>1. PICK c \in Calls : /\ Loads(s) /\ calls' = [calls EXCEPT ![s] = c]
                           /\ c.kind = "load" /\ c.text \in Texts
                           /\ UNCHANGED <<win, disk, now, typed, saved, overhung>>
    BY <1>5, ServeLoadAnswers
  <2>2. QED
    BY <2>1 DEF Types, Loads, Stores, Texts
<1>6. ASSUME NEW s \in Slots, Writes(s) PROVE Types'
  <2>1. PICK c \in Calls, covers \in BOOLEAN :
          /\ Stores(s) /\ calls' = [calls EXCEPT ![s] = c]
          /\ c.kind = calls[s].kind /\ c.text = calls[s].text
          /\ disk' = [disk EXCEPT ![c.path] = [text |-> Written(c.text, covers), time |-> now]]
          /\ saved' = IF covers THEN Noted(saved, c) ELSE saved
          /\ overhung' = IF covers THEN overhung ELSE Noted(overhung, c)
          /\ UNCHANGED <<win, now, typed>>
    BY <1>6 DEF Writes
  <2> c.text \in Texts
    BY <2>1 DEF Types
  <2>2. disk' \in [Files -> [text : Texts, time : Nat]]
    <3>1. [text |-> Written(c.text, covers), time |-> now] \in [text : Texts, time : Nat]
      BY <2>1, WrittenIs DEF Types
    <3>2. QED
      BY <2>1, <3>1 DEF Types
  <2>3. saved' \in [Files -> Nat] /\ overhung' \in [Files -> Nat]
    BY <2>1 DEF Types, Calls, Texts, Noted
  <2>4. QED
    BY <2>1, <2>2, <2>3 DEF Types, Loads, Stores
<1>7. ASSUME NEW s \in Slots, Fails(s) PROVE Types'
  BY <1>7 DEF Fails, Types, Loads, Stores
<1>8. ASSUME NEW f \in Files, Others(f) PROVE Types'
  <2>1. /\ disk' = [disk EXCEPT ![f] = [text |-> [of |-> f, v |-> 0], time |-> now]]
        /\ UNCHANGED <<win, calls, now, typed, saved, overhung>>
    BY <1>8 DEF Others, Text
  <2>2. [text |-> [of |-> f, v |-> 0], time |-> now] \in [text : Texts, time : Nat]
    BY DEF Types, Texts
  <2>3. disk' \in [Files -> [text : Texts, time : Nat]]
    BY <2>1, <2>2 DEF Types
  <2>4. QED
    BY <2>1, <2>3 DEF Types, Loads, Stores
<1>9. CASE Tick
  BY <1>9 DEF Tick, Types, Loads, Stores, history
<1>10. ASSUME NEW s \in Slots, Ends(s), UNCHANGED <<now, win.name, win.text>>, win' \in Windows,
              win'.place = "editor" \/ win'.edited => win.text \in Texts
       PROVE  Types'
  BY <1>10 DEF Ends, Types, Loads, Stores, None
<1>11. ASSUME NEW s \in Slots, Loaded(s) PROVE Types'
  <2>1. /\ calls' = [calls EXCEPT ![s] = None]
        /\ UNCHANGED <<disk, now, typed, saved, overhung, win.name, win.edited>>
        /\ win' \in Windows /\ win'.text \in {win.text, calls[s].text}
        /\ win'.place = "editor" => win'.text = calls[s].text
        /\ calls[s].text \in Texts /\ Loads(s)
    BY <1>11, LoadedShows DEF Ends
  <2>2. \A t \in Slots : /\ Loads(t)' => Loads(t) /\ calls'[t] = calls[t]
                         /\ Stores(t)' => Stores(t) /\ calls'[t] = calls[t]
    BY <2>1 DEF Types, Loads, Stores, None
  <2>3. calls' \in [Slots -> Calls \union {None}]
    BY <2>1 DEF Types
  <2>4. win.name \in Files
    BY <2>1 DEF Types
  <2>5. \A t \in Slots : Stores(t)' => calls'[t].text \in Texts /\ win'.text \in Texts
    BY <2>1, <2>2 DEF Types
  <2>6. win'.place = "editor" \/ win'.edited => win'.text \in Texts
    BY <2>1 DEF Types
  <2>7. QED
    BY <2>1, <2>2, <2>3, <2>4, <2>5, <2>6 DEF Types
<1>12. ASSUME NEW s \in Slots, NotLoaded(s, TRUE) \/ NotLoaded(s, FALSE) PROVE Types'
  BY <1>10, <1>12, NotLoadedStays DEF Types, SameFile, SameView, Ends
<1>13. ASSUME NEW s \in Slots, Saved(s) PROVE Types'
  BY <1>10, <1>13, SavedRecords DEF Types, SameView, Ends
<1>14. ASSUME NEW s \in Slots, NotSaved(s) \/ NotSavedLast(s) PROVE Types'
  BY <1>10, <1>14, NotSavedAgain DEF Types, SameFile, SameView, Ends
<1>15. ASSUME NEW s \in Slots, SavedLast(s) PROVE Types'
  BY <1>10, <1>15, SavedLastCloses DEF Types, SameFile, SameView, Ends
<1>16. CASE UNCHANGED vars
  BY <1>16 DEF vars, history, Types, Loads, Stores
<1>17. ASSUME NEW f \in Files, Open(f) \/ Others(f) PROVE Types'
  BY <1>1, <1>8, <1>17
<1>18. ASSUME NEW s \in Slots, Serve(s) \/ Callback(s) \/ Fault(s) PROVE Types'
  BY <1>5, <1>6, <1>7, <1>11, <1>12, <1>13, <1>14, <1>15, <1>18, ServeSaveWrites, FaultFails DEF Serve, Callback
<1>19. CASE Save \/ Autosave \/ Close \/ CloseTwice \/ Reopen
  <2>1. UNCHANGED now
    BY <1>19 DEF Save, Autosave, Close, CloseTwice, Reopen
  <2>2. Save => win.edited
    BY DEF Save
  <2>3. QED
    BY <1>3, <1>4, <1>19, <2>1, <2>2, SaveSends, CloseSends, IdleSaveStays, IdleCloseStays, ReopenStays
<1>20. QED
  BY <1>2, <1>9, <1>16, <1>17, <1>18, <1>19 DEF Next, Rest
-----------------------------------------------------------------------------
\* Nothing that overlapped is forgotten.
LEMMA TroublesGrow == ASSUME Types, [Next]_vars PROVE troubles \subseteq troubles'
<1>1. ASSUME NEW f \in Files, Open(f) \/ Others(f) PROVE troubles \subseteq troubles'
  BY <1>1 DEF Open, Others
<1>2. CASE Type \/ Save \/ Autosave \/ Close \/ CloseTwice \/ Reopen \/ Tick \/ UNCHANGED vars
  BY <1>2 DEF Type, Save, Autosave, Close, CloseTwice, Reopen, Tick, vars, history
<1>3. ASSUME NEW s \in Slots, Serve(s) \/ Fault(s) PROVE troubles \subseteq troubles'
  BY <1>3 DEF Serve, ServeLoad, ServeSave, Fault, history
<1>4. ASSUME NEW s \in Slots, Callback(s) PROVE troubles \subseteq troubles'
  BY <1>4 DEF Callback, Loaded, NotLoaded, Saved, NotSaved, SavedLast, NotSavedLast, history
<1>5. QED
  BY <1>1, <1>2, <1>3, <1>4 DEF Next, Rest

\* Every step is one of these.
LEMMA StepCases ==
    ASSUME Types, [Next]_vars
    PROVE  \/ \E f \in Files : Open(f) \/ Others(f)
           \/ Type
           \/ win.edited /\ (Save \/ Autosave)
           \/ win.edited /\ (Close \/ CloseTwice)
           \/ Stays /\ UNCHANGED win.place /\ UNCHANGED win.hidden /\ ~win.edited /\ UNCHANGED troubles
           \/ Stays /\ win'.place = "empty" /\ ~win.edited /\ troubles' = troubles \union Turned
           \/ Stays /\ win'.place = win.place /\ win.hidden /\ troubles' = troubles \union Turned
           \/ \E s \in Slots : \/ ServeLoad(s) \/ Writes(s)
                               \/ /\ Fails(s) /\ Stores(s) /\ calls[s].st = "sent" /\ UNCHANGED troubles
                                  /\ calls[s].time # disk[calls[s].path].time
                               \/ Fault(s) \/ Loaded(s) \/ NotLoaded(s, TRUE) \/ NotLoaded(s, FALSE)
                               \/ Saved(s) \/ NotSaved(s) \/ NotSavedLast(s) \/ SavedLast(s)
           \/ UNCHANGED <<win, calls, disk, typed, saved, overhung, warned, troubles>>
<1>1. CASE Save \/ Autosave \/ Close \/ CloseTwice \/ Reopen
  <2>1. Save => win.edited
    BY DEF Save
  <2>2. QED
    BY <1>1, <2>1, IdleSaveStays, IdleCloseStays, ReopenStays DEF SameView
<1>2. ASSUME NEW s \in Slots, Serve(s) \/ Callback(s)
      PROVE  \/ ServeLoad(s) \/ Writes(s)
             \/ /\ Fails(s) /\ Stores(s) /\ calls[s].st = "sent" /\ UNCHANGED troubles
                /\ calls[s].time # disk[calls[s].path].time
             \/ Loaded(s) \/ NotLoaded(s, TRUE) \/ NotLoaded(s, FALSE)
             \/ Saved(s) \/ NotSaved(s) \/ NotSavedLast(s) \/ SavedLast(s)
  BY <1>2, ServeSaveWrites DEF Serve, Callback
<1>3. CASE Tick \/ UNCHANGED vars
  BY <1>3 DEF Tick, vars, history
<1>4. QED
  BY <1>1, <1>2, <1>3 DEF Next, Rest

\* Opening a file while another is loaded, or a text is not saved, is a trouble,
\* and so is an answer about another file.
LEMMA NextApart ==
    ASSUME Types, Apart, [Next]_vars, NoMixing'
    PROVE  Apart'
<1>1. ASSUME NEW f \in Files, Open(f) PROVE Apart'
  <2>1. PICK s \in Slots, c \in Calls : /\ calls' = [calls EXCEPT ![s] = c]
                                        /\ c.kind = "load" /\ c.st = "sent" /\ c.path = f
    BY <1>1, OpenAsks
  <2>2. ~win.edited /\ \A t \in Slots : ~Loads(t)
    BY <1>1 DEF Open, NoMixing, No, Under, Loads
  <2>3. win'.name = f /\ win'.place = "loading" /\ UNCHANGED <<win.edited, disk>>
    BY <1>1, OpenAsks DEF Open
  <2>4. QED
    BY <2>1, <2>2, <2>3 DEF Types, Apart, Loads, Stores
<1>2. ASSUME NEW f \in Files, Others(f) PROVE Apart'
  BY <1>2 DEF Others, Text, Types, Apart, Loads, Stores
<1>3. CASE Type
  BY <1>3, TypeChanges DEF Apart, SameView, Visible, Loads, Stores
<1>4. ASSUME NEW kind \in {"save", "last"}, SendsOff(kind), win'.place \in {win.place, "empty"} \/ SameView
      PROVE  Apart'
  <2>1. PICK s \in Slots, c \in Calls : /\ calls' = [calls EXCEPT ![s] = c]
                                        /\ c.kind = kind /\ c.path = win.name /\ c.text = win.text
    BY <1>4 DEF SendsOff
  <2>2. QED
    BY <1>4, <2>1 DEF SendsOff, SameFile, SameView, Types, Apart, Loads, Stores
<1>5. CASE Stays
  BY <1>5 DEF Stays, SameFile, Apart, Loads, Stores
<1>6. ASSUME NEW s \in Slots, ServeLoad(s) PROVE Apart'
  <2>1. PICK c \in Calls : /\ Loads(s) /\ calls[s] \in Calls /\ calls' = [calls EXCEPT ![s] = c]
                           /\ c.kind = "load" /\ c.path = calls[s].path /\ c.text = disk[c.path].text
                           /\ UNCHANGED <<win, disk>>
    BY <1>6, ServeLoadAnswers
  <2>2. c.text.of = c.path
    BY <2>1 DEF Apart, Calls
  <2>3. QED
    BY <2>1, <2>2 DEF Types, Apart, Loads, Stores
<1>7. ASSUME NEW s \in Slots, Writes(s) PROVE Apart'
  <2>1. PICK c \in Calls, covers \in BOOLEAN :
          /\ Stores(s) /\ calls' = [calls EXCEPT ![s] = c]
          /\ c.kind = calls[s].kind /\ c.path = calls[s].path /\ c.text = calls[s].text
          /\ disk' = [disk EXCEPT ![c.path] = [text |-> Written(c.text, covers), time |-> now]]
          /\ UNCHANGED win
    BY <1>7 DEF Writes
  <2>2. Written(c.text, covers).of = c.text.of
    BY <2>1, WrittenIs DEF Types
  <2>3. QED
    BY <2>1, <2>2 DEF Types, Apart, Loads, Stores
<1>8. ASSUME NEW s \in Slots, Fails(s) PROVE Apart'
  BY <1>8 DEF Fails, Types, Apart, Loads, Stores
<1>9. ASSUME NEW s \in Slots, Loaded(s) PROVE Apart'
  <2>1. Loads(s) /\ calls[s].text.of = calls[s].path /\ calls[s].path = win.name
    BY <1>9, LoadedShows DEF Apart
  <2>2. win'.edited \/ win'.place = "editor" => win'.text.of = win'.name
    BY <1>9, <2>1, LoadedShows DEF Apart
  <2>3. Ends(s) /\ UNCHANGED <<win.name>>
    BY <1>9, LoadedShows
  <2>4. QED
    BY <2>2, <2>3 DEF Ends, Types, Apart, Loads, Stores, None
<1>10. ASSUME NEW s \in Slots, Ends(s), UNCHANGED <<win.name, win.text>>,
              win'.edited \/ win'.place = "editor" => win'.text.of = win'.name
       PROVE  Apart'
  BY <1>10 DEF Ends, Types, Apart, Loads, Stores, None
<1>11. ASSUME NEW s \in Slots, NotLoaded(s, TRUE) \/ NotLoaded(s, FALSE) PROVE Apart'
  BY <1>10, <1>11, NotLoadedStays DEF SameFile, SameView, Apart
<1>12. ASSUME NEW s \in Slots, Saved(s) PROVE Apart'
  BY <1>10, <1>12, SavedRecords DEF SameView, Apart
<1>13. ASSUME NEW s \in Slots, NotSaved(s) \/ NotSavedLast(s) PROVE Apart'
  <2>1. Stores(s) /\ calls[s].path = win.name /\ calls[s].text.of = win.text.of
    BY <1>13, NotSavedAgain DEF Late, NoMixing, No
  <2>2. QED
    BY <1>10, <1>13, <2>1, NotSavedAgain DEF SameFile, SameView, Apart
<1>14. ASSUME NEW s \in Slots, SavedLast(s) PROVE Apart'
  BY <1>10, <1>14, SavedLastCloses DEF SameFile, Apart
<1>15. CASE UNCHANGED <<win, calls, disk>>
  BY <1>15 DEF Apart, Loads, Stores
<1>16. CASE win.edited /\ (Save \/ Autosave)
  BY <1>4, <1>16, SaveSends
<1>17. CASE win.edited /\ (Close \/ CloseTwice)
  BY <1>4, <1>17, CloseSends
<1>18. QED
  BY <1>1, <1>2, <1>3, <1>5, <1>6, <1>7, <1>8, <1>9, <1>11, <1>12, <1>13, <1>14, <1>15, <1>16, <1>17,
     StepCases, FaultFails

\* The user does not turn to something else while a save is under way, nor to
\* another file with something edited.
LEMMA NextOnTopic ==
    ASSUME Types, Apart, OnTopic, NoMixing, [Next]_vars, NoTurning'
    PROVE  NoMixing' /\ OnTopic'
<1>1. ASSUME NEW f \in Files, Open(f) PROVE NoMixing' /\ OnTopic'
  <2>1. PICK s \in Slots, c \in Calls : /\ calls[s] = None /\ calls' = [calls EXCEPT ![s] = c]
                                        /\ c.kind = "load" /\ c.st = "sent" /\ c.path = f
    BY <1>1, OpenAsks
  <2>2. ~win.edited /\ \A t \in Slots : ~Loads(t) /\ ~Stores(t)
    BY <1>1 DEF Open, NoTurning, No, Turned, Under, Loads, Stores
  <2>3. win'.place = "loading" /\ UNCHANGED <<win.edited>>
    BY <1>1, OpenAsks
  <2>4. NoMixing'
    BY <1>1 DEF Open, Turned, NoMixing, NoTurning, No
  <2>5. QED
    BY <2>1, <2>2, <2>3, <2>4 DEF Types, OnTopic, Loads, Stores
<1>2. ASSUME NEW f \in Files, Others(f) PROVE NoMixing' /\ OnTopic'
  BY <1>2 DEF Others, OnTopic, Loads, Stores, NoMixing, No
<1>3. CASE Type
  BY <1>3, TypeChanges DEF OnTopic, SameView, Visible, Loads, Stores, NoMixing, No
<1>4. ASSUME NEW kind \in {"save", "last"}, SendsOff(kind), win'.place \in {win.place, "empty"},
             troubles' \subseteq troubles \union {"saves", "turned"}
      PROVE  NoMixing' /\ OnTopic'
  <2>1. PICK s \in Slots, c \in Calls : /\ calls' = [calls EXCEPT ![s] = c]
                                        /\ c.kind = kind /\ c.path = win.name /\ c.text = win.text /\ c.st = "sent"
    BY <1>4 DEF SendsOff
  <2>2. win.text.of = win.name /\ \A t \in Slots : ~Loads(t)
    BY <1>4 DEF SendsOff, Apart, OnTopic
  <2>3. NoMixing'
    BY <1>4 DEF NoMixing, No
  <2>4. QED
    BY <1>4, <2>1, <2>2, <2>3 DEF SendsOff, SameFile, Types, OnTopic, Loads, Stores
<1>5. ASSUME Stays, troubles' \subseteq troubles \union Turned PROVE NoMixing' /\ OnTopic'
  BY <1>5 DEF Stays, SameFile, OnTopic, Loads, Stores, NoMixing, No, Turned
<1>6. ASSUME NEW s \in Slots, ServeLoad(s) PROVE NoMixing' /\ OnTopic'
  <2>1. PICK c \in Calls : /\ Loads(s) /\ calls' = [calls EXCEPT ![s] = c] /\ c.kind = "load"
                           /\ UNCHANGED <<win, troubles>>
    BY <1>6, ServeLoadAnswers
  <2>2. QED
    BY <2>1 DEF Types, OnTopic, Loads, Stores, NoMixing, No
<1>7. ASSUME NEW s \in Slots, Writes(s) PROVE NoMixing' /\ OnTopic'
  <2>1. PICK c \in Calls : /\ Stores(s) /\ calls' = [calls EXCEPT ![s] = c]
                           /\ c.kind = calls[s].kind /\ c.path = calls[s].path /\ c.of = c.path
                           /\ UNCHANGED <<win, troubles>>
    BY <1>7 DEF Writes
  <2>2. QED
    BY <2>1 DEF Types, OnTopic, Loads, Stores, NoMixing, No
<1>8. ASSUME NEW s \in Slots, Fails(s), troubles' \subseteq troubles \union {"lost"}
      PROVE  NoMixing' /\ OnTopic'
  BY <1>8 DEF Fails, Types, OnTopic, Loads, Stores, NoMixing, No
<1>9. ASSUME NEW s \in Slots, Loaded(s) PROVE NoMixing' /\ OnTopic'
  <2>1. Loads(s) /\ calls[s].path = win.name /\ ~win.edited /\ \A t \in Slots : ~Stores(t)
    BY <1>9, LoadedShows DEF Apart, OnTopic
  <2>2. win'.of = win'.name /\ UNCHANGED <<win.edited, troubles>>
    BY <1>9, <2>1, LoadedShows
  <2>3. calls' = [calls EXCEPT ![s] = None] /\ \A t \in Slots : Loads(t) => t = s
    BY <1>9, <2>1, LoadedShows DEF Ends, OnTopic
  <2>4. QED
    BY <2>1, <2>2, <2>3 DEF Types, OnTopic, Loads, Stores, None, NoMixing, No
<1>10. ASSUME NEW s \in Slots, Ends(s), UNCHANGED <<win.name, win.text>>, troubles' = troubles,
              win'.place \in {win.place, "empty"}, win'.of = win'.name \/ win'.of = win.of,
              Stores(s) \/ UNCHANGED <<win.edited>>
       PROVE  NoMixing' /\ OnTopic'
  BY <1>10 DEF Ends, Types, OnTopic, Loads, Stores, None, NoMixing, No
<1>11. ASSUME NEW s \in Slots, NotLoaded(s, TRUE) \/ NotLoaded(s, FALSE) PROVE NoMixing' /\ OnTopic'
  BY <1>10, <1>11, NotLoadedStays DEF SameFile, SameView
<1>12. ASSUME NEW s \in Slots, Saved(s) PROVE NoMixing' /\ OnTopic'
  <2>1. Stores(s) /\ calls[s].of = win.name
    BY <1>12, SavedRecords DEF OnTopic
  <2>2. QED
    BY <1>10, <1>12, <2>1, SavedRecords DEF SameView
<1>13. ASSUME NEW s \in Slots, NotSaved(s) \/ NotSavedLast(s) PROVE NoMixing' /\ OnTopic'
  <2>1. Stores(s) /\ calls[s].path = win.name /\ calls[s].text.of = win.text.of
    BY <1>13, NotSavedAgain DEF Apart, OnTopic
  <2>2. troubles' = troubles
    BY <1>13, <2>1, NotSavedAgain DEF Late
  <2>3. QED
    BY <1>10, <1>13, <2>1, <2>2, NotSavedAgain DEF SameFile, SameView
<1>14. ASSUME NEW s \in Slots, SavedLast(s) PROVE NoMixing' /\ OnTopic'
  BY <1>10, <1>14, SavedLastCloses DEF SameFile
<1>15. CASE UNCHANGED <<win, calls, troubles>>
  BY <1>15 DEF OnTopic, Loads, Stores, NoMixing, No
<1>16. CASE win.edited /\ (Save \/ Autosave)
  BY <1>4, <1>16, SaveSends DEF SameView, Overlap
<1>17. CASE win.edited /\ (Close \/ CloseTwice)
  BY <1>4, <1>17, CloseSends DEF Turned
<1>18. ASSUME NEW s \in Slots, Fault(s) PROVE NoMixing' /\ OnTopic'
  BY <1>8, <1>18, FaultFails
<1>19. QED
  BY <1>1, <1>2, <1>3, <1>5, <1>6, <1>7, <1>8, <1>9, <1>11, <1>12, <1>13, <1>14, <1>15, <1>16, <1>17, <1>18,
     StepCases

\* A save only starts when none is under way, and the editor is not shown again
\* before the last one is answered.
LEMMA NextOneAtATime ==
    ASSUME Types, OnTopic, OneAtATime, [Next]_vars, InOrder'
    PROVE  OneAtATime'
<1>1. ASSUME \A t \in Slots : Stores(t)' => Stores(t) /\ calls'[t].kind = calls[t].kind,
             win'.edited => win.edited, Visible' => Visible
      PROVE  OneAtATime'
  BY <1>1 DEF OneAtATime, Stores
<1>2. ASSUME \A t \in Slots : ~Stores(t)' PROVE OneAtATime'
  BY <1>2 DEF OneAtATime, Stores
<1>3. ASSUME NEW f \in Files, Open(f) PROVE OneAtATime'
  <2>1. PICK s \in Slots, c \in Calls : calls' = [calls EXCEPT ![s] = c] /\ c.kind = "load"
    BY <1>3, OpenAsks
  <2>2. \A t \in Slots : ~Stores(t)
    BY <1>3 DEF Open, InOrder, No, Turned, Under, Stores
  <2>3. QED
    BY <1>2, <2>1, <2>2 DEF Types, Stores
<1>4. ASSUME NEW f \in Files, Others(f) PROVE OneAtATime'
  BY <1>1, <1>4 DEF Others, Stores, Visible
<1>5. CASE Type
  BY <1>5, TypeChanges DEF OneAtATime, SameView, Visible, Stores
<1>6. ASSUME NEW kind \in {"save", "last"}, SendsOff(kind), kind = "last" => ~Visible',
             \A t \in Slots : ~Stores(t)
      PROVE  OneAtATime'
  BY <1>6 DEF SendsOff, Types, OneAtATime, Stores
<1>7. CASE win.edited /\ (Save \/ Autosave)
  <2>1. \A t \in Slots : ~Stores(t)
    BY <1>7, SaveSends DEF InOrder, No, Overlap, Under, Stores
  <2>2. QED
    BY <1>6, <1>7, <2>1, SaveSends
<1>8. CASE win.edited /\ (Close \/ CloseTwice)
  <2>1. \A t \in Slots : ~Stores(t)
    BY <1>8, CloseSends DEF InOrder, No, Turned, Under, Stores
  <2>2. QED
    BY <1>6, <1>8, <2>1, CloseSends
<1>9. ASSUME Stays, SameView \/ win'.place = "empty" PROVE OneAtATime'
  BY <1>1, <1>9 DEF Stays, SameView, Visible, Stores
<1>10. CASE Stays /\ troubles' = troubles \union Turned /\ win'.place = win.place
  <2>1. \A t \in Slots : ~Stores(t)
    BY <1>10 DEF InOrder, No, Turned, Under, Stores
  <2>2. QED
    BY <1>2, <1>10, <2>1 DEF Stays, Stores
<1>11. ASSUME NEW s \in Slots, ServeLoad(s) PROVE OneAtATime'
  <2>1. PICK c \in Calls : calls' = [calls EXCEPT ![s] = c] /\ c.kind = "load" /\ UNCHANGED win
    BY <1>11, ServeLoadAnswers
  <2>2. QED
    BY <1>1, <2>1 DEF Types, Stores, Visible
<1>12. ASSUME NEW s \in Slots, Writes(s) \/ Fails(s) PROVE OneAtATime'
  <2>1. PICK c \in Calls : calls' = [calls EXCEPT ![s] = c] /\ c.kind = calls[s].kind /\ UNCHANGED win
    BY <1>12 DEF Writes, Fails
  <2>2. QED
    BY <1>1, <2>1 DEF Types, Stores, Visible
<1>13. ASSUME NEW s \in Slots, Ends(s), Loads(s) PROVE OneAtATime'
  BY <1>2, <1>13 DEF Ends, OnTopic, Types, Stores, None
<1>14. ASSUME NEW s \in Slots, Ends(s), Stores(s) PROVE OneAtATime'
  BY <1>2, <1>14 DEF Ends, OneAtATime, Types, Stores, None
<1>15. CASE UNCHANGED <<win, calls>>
  BY <1>1, <1>15 DEF Stores, Visible
<1>16. ASSUME NEW s \in Slots,
              \/ Loaded(s) \/ NotLoaded(s, TRUE) \/ NotLoaded(s, FALSE)
              \/ Saved(s) \/ NotSaved(s) \/ NotSavedLast(s) \/ SavedLast(s)
       PROVE  OneAtATime'
  BY <1>13, <1>14, <1>16, LoadedShows, NotLoadedStays, SavedRecords, NotSavedAgain, SavedLastCloses
<1>17. QED
  BY <1>3, <1>4, <1>5, <1>7, <1>8, <1>9, <1>10, <1>11, <1>12, <1>15, <1>16, StepCases, FaultFails DEF SameView

\* Only the one save under way writes, and its answer brings the new time.
LEMMA NextInTouch ==
    ASSUME Types, Apart, OnTopic, OneAtATime, InTouch, [Next]_vars, Undisturbed'
    PROVE  InTouch'
<1>1. ASSUME NEW f \in Files, Open(f) PROVE InTouch'
  <2>1. PICK s \in Slots, c \in Calls : /\ calls' = [calls EXCEPT ![s] = c]
                                        /\ c.kind = "load" /\ c.st = "sent"
    BY <1>1, OpenAsks
  <2>2. ~win.edited /\ \A t \in Slots : ~Loads(t) /\ ~Stores(t)
    BY <1>1 DEF Open, Undisturbed, Turned, Under, Loads, Stores
  <2>3. win'.place = "loading" /\ ~win'.edited /\ UNCHANGED disk
    BY <1>1, <2>2, OpenAsks
  <2>4. QED
    BY <2>1, <2>2, <2>3 DEF Types, InTouch, Loads, Stores
<1>2. ASSUME NEW f \in Files, Others(f) PROVE InTouch'
  BY <1>2 DEF Others, Undisturbed
<1>3. CASE Type
  BY <1>3, TypeChanges DEF InTouch, SameView, Visible, Loads, Stores
<1>4. ASSUME NEW kind \in {"save", "last"}, SendsOff(kind), \A t \in Slots : ~Stores(t)
      PROVE  InTouch'
  <2>1. PICK s \in Slots, c \in Calls : /\ calls[s] = None /\ calls' = [calls EXCEPT ![s] = c]
                                        /\ c.kind = kind /\ c.path = win.name /\ c.time = win.time
                                        /\ c.st = "sent"
    BY <1>4 DEF SendsOff
  <2>2. win.time = disk[win.name].time /\ \A t \in Slots : ~Loads(t)
    BY <1>4 DEF SendsOff, InTouch, OnTopic
  <2>3. UNCHANGED <<disk, win.name, win.time>>
    BY <1>4 DEF SendsOff, SameFile
  <2>4. QED
    BY <1>4, <2>1, <2>2, <2>3 DEF Types, InTouch, Loads, Stores
<1>5. CASE win.edited /\ (Save \/ Autosave)
  <2>1. \A t \in Slots : ~Stores(t)
    BY <1>5, SaveSends DEF Undisturbed, Overlap, Under, Stores
  <2>2. QED
    BY <1>4, <1>5, <2>1, SaveSends
<1>6. CASE win.edited /\ (Close \/ CloseTwice)
  <2>1. \A t \in Slots : ~Stores(t)
    BY <1>6, CloseSends DEF Undisturbed, Turned, Under, Stores
  <2>2. QED
    BY <1>4, <1>6, <2>1, CloseSends
<1>7. CASE Stays
  BY <1>7 DEF Stays, SameFile, InTouch, Loads, Stores
<1>8. ASSUME NEW s \in Slots, ServeLoad(s) PROVE InTouch'
  <2>1. PICK c \in Calls : /\ Loads(s) /\ calls' = [calls EXCEPT ![s] = c] /\ c.kind = "load"
                           /\ c.time = disk[c.path].time /\ UNCHANGED <<win, disk>>
    BY <1>8, ServeLoadAnswers
  <2>2. QED
    BY <2>1 DEF Types, InTouch, Loads, Stores
<1>9. ASSUME NEW s \in Slots, Writes(s) PROVE InTouch'
  <2>1. PICK c \in Calls, covers \in BOOLEAN :
          /\ Stores(s) /\ calls' = [calls EXCEPT ![s] = c]
          /\ c.kind = calls[s].kind /\ c.st = "ok" /\ c.time = now
          /\ disk' = [disk EXCEPT ![c.path] = [text |-> Written(c.text, covers), time |-> now]]
    BY <1>9 DEF Writes
  <2>2. \A t \in Slots : ~Loads(t)
    BY <2>1 DEF OnTopic
  <2>3. \A t \in Slots : Stores(t) => t = s
    BY <2>1 DEF OneAtATime
  <2>4. disk'[c.path].time = now
    BY <2>1 DEF Types, Calls
  <2>5. QED
    BY <2>1, <2>2, <2>3, <2>4 DEF Types, InTouch, Loads, Stores
<1>10. ASSUME NEW s \in Slots, Fails(s), calls[s].st # "ok" PROVE InTouch'
  <2>1. PICK c \in Calls : /\ calls' = [calls EXCEPT ![s] = c] /\ c.kind = calls[s].kind /\ c.st = "no"
                           /\ UNCHANGED <<win, disk>>
    BY <1>10 DEF Fails
  <2>2. QED
    BY <1>10, <2>1 DEF Types, InTouch, Loads, Stores
<1>11. ASSUME NEW s \in Slots, Fault(s) PROVE InTouch'
  BY <1>10, <1>11, FaultFails DEF Undisturbed
<1>12. ASSUME NEW s \in Slots, Loaded(s) PROVE InTouch'
  <2>1. Loads(s) /\ calls[s].st = "ok" /\ calls[s].path = win.name
    BY <1>12, LoadedShows DEF Apart
  <2>2. \A t \in Slots : ~Stores(t) /\ (Loads(t) => t = s)
    BY <2>1 DEF OnTopic
  <2>3. win'.time = disk[win'.name].time /\ UNCHANGED disk
    BY <1>12, <2>1, LoadedShows DEF InTouch, Ends
  <2>4. \A t \in Slots : ~Stores(t)' /\ ~Loads(t)'
    BY <1>12, <2>2, LoadedShows DEF Ends, Types, Loads, Stores, None
  <2>5. QED
    BY <2>3, <2>4 DEF InTouch
<1>13. ASSUME NEW s \in Slots, NotLoaded(s, TRUE) \/ NotLoaded(s, FALSE) PROVE InTouch'
  <2>1. ~win.edited /\ win.place # "editor" /\ \A t \in Slots : ~Stores(t) /\ (Loads(t) => t = s)
    BY <1>13, NotLoadedStays DEF OnTopic
  <2>2. ~win'.edited /\ win'.place # "editor" /\ Ends(s)
    BY <1>13, <2>1, NotLoadedStays DEF SameView
  <2>3. \A t \in Slots : ~Stores(t)' /\ ~Loads(t)'
    BY <2>1, <2>2 DEF Ends, Types, Loads, Stores, None
  <2>4. QED
    BY <2>2, <2>3 DEF InTouch
<1>14. ASSUME NEW s \in Slots, Stores(s), Ends(s), UNCHANGED <<win.name>>,
              win'.edited \/ win'.place = "editor" => win'.time = disk[win.name].time
       PROVE  InTouch'
  <2>1. \A t \in Slots : ~Loads(t) /\ (Stores(t) => t = s)
    BY <1>14 DEF OnTopic, OneAtATime
  <2>2. \A t \in Slots : ~Stores(t)' /\ ~Loads(t)'
    BY <1>14, <2>1 DEF Ends, Types, Loads, Stores, None
  <2>3. QED
    BY <1>14, <2>2 DEF Ends, InTouch
<1>15. ASSUME NEW s \in Slots, Saved(s) PROVE InTouch'
  <2>1. calls[s].time = disk[win.name].time
    BY <1>15, SavedRecords DEF OnTopic, InTouch
  <2>2. QED
    BY <1>14, <1>15, <2>1, SavedRecords
<1>16. ASSUME NEW s \in Slots, NotSaved(s) \/ NotSavedLast(s) PROVE InTouch'
  <2>1. win.time = disk[win.name].time
    BY <1>16, NotSavedAgain DEF InTouch
  <2>2. QED
    BY <1>14, <1>16, <2>1, NotSavedAgain DEF SameFile
<1>17. ASSUME NEW s \in Slots, SavedLast(s) PROVE InTouch'
  <2>1. ~win'.edited /\ win'.place = "empty"
    BY <1>17, SavedLastCloses DEF OneAtATime
  <2>2. QED
    BY <1>14, <1>17, <2>1, SavedLastCloses DEF SameFile
<1>18. CASE UNCHANGED <<win, calls, disk>>
  BY <1>18 DEF InTouch, Loads, Stores
<1>19. QED
  BY <1>1, <1>2, <1>3, <1>5, <1>6, <1>7, <1>8, <1>9, <1>10, <1>11, <1>12, <1>13, <1>15, <1>16, <1>17, <1>18,
     StepCases

\* A text is only out of sight of its timer while a save of it is under way, and
\* that one either arrives or is seen not to.
LEMMA NextRemembered ==
    ASSUME Types, Apart, OnTopic, OneAtATime, Remembered, [Next]_vars, InOrder'
    PROVE  Remembered'
<1> DEFINE Idle0 == \A t \in Slots : ~Stores(t)
<1>1. ASSUME Idle0, ~win.edited \/ ~Pending PROVE \A f \in Files : ~Unkept(f)
  BY <1>1 DEF Remembered, Pending
<1>2. ASSUME Idle0', \A f \in Files : ~Unkept(f)', win'.edited => win'.text.v = typed'[win'.name]
      PROVE  Remembered'
  BY <1>2 DEF Remembered
<1>3. ASSUME NEW f \in Files, Open(f) PROVE Remembered'
  <2>1. PICK s \in Slots, c \in Calls : calls' = [calls EXCEPT ![s] = c] /\ c.kind = "load"
    BY <1>3, OpenAsks
  <2>2. ~win.edited /\ Idle0
    BY <1>3 DEF Open, InOrder, No, Turned, Under, Stores
  <2>3. Idle0'
    BY <2>1, <2>2 DEF Types, Stores
  <2>4. ~win'.edited /\ UNCHANGED <<saved, overhung, typed, warned>>
    BY <1>3, <2>2, OpenAsks
  <2>5. QED
    BY <1>1, <1>2, <2>2, <2>3, <2>4 DEF Unkept
<1>4. ASSUME UNCHANGED <<win, calls, saved, overhung, typed, warned>> PROVE Remembered'
  BY <1>4 DEF Remembered, Unkept, Pending, Visible, Stores
<1>5. CASE Type
  <2>1. win.text \in Texts /\ win.text.of = win.name /\ Visible
    BY <1>5, TypeChanges DEF Apart, Visible
  <2>2. /\ Pending' /\ win'.name = win.name
        /\ typed' = [typed EXCEPT ![win.name] = @ + 1]
        /\ win'.text.v = typed[win.name] + 1
    BY <1>5, <2>1, TypeChanges DEF Pending, Visible, SameView
  <2>3. win'.text.v = typed'[win'.name]
    BY <2>1, <2>2 DEF Types, Texts
  <2>4. ASSUME NEW f \in Files, Unkept(f)' PROVE win'.name = f
    BY <1>5, <2>1, <2>2, <2>4, TypeChanges DEF Remembered, Unkept, Types
  <2>5. QED
    BY <2>2, <2>3, <2>4 DEF Remembered
<1>6. ASSUME NEW kind \in {"save", "last"}, SendsOff(kind), Idle0, kind = "save" => SameView
      PROVE  Remembered'
  <2>1. PICK s \in Slots, c \in Calls : /\ calls[s] = None /\ calls' = [calls EXCEPT ![s] = c]
                                        /\ c.kind = kind /\ c.path = win.name /\ c.text = win.text
                                        /\ c.st = "sent"
    BY <1>6 DEF SendsOff
  <2>2. win.edited /\ win.text.v = typed[win.name]
    BY <1>6 DEF SendsOff, Remembered
  <2>3. UNCHANGED <<win.name, win.text, typed, saved, overhung, warned>>
    BY <1>6 DEF SendsOff, SameFile
  <2>4. \A t \in Slots : Stores(t)' => t = s
    BY <1>6, <2>1 DEF Types, Stores
  <2>5. Stores(s)' /\ calls'[s] = c
    BY <2>1 DEF Types, Stores
  <2>6. ASSUME NEW f \in Files, Unkept(f)'
        PROVE  win'.name = f /\ (kind = "save" => Visible')
    <3>1. win.name = f /\ Visible
      BY <1>6, <2>3, <2>6 DEF Remembered, Unkept, Pending
    <3>2. QED
      BY <1>6, <2>3, <3>1 DEF SameView, Visible
  <2>7. QED
    BY <2>1, <2>2, <2>3, <2>4, <2>5, <2>6 DEF Remembered
<1>7. CASE win.edited /\ (Save \/ Autosave)
  <2>1. Idle0
    BY <1>7, SaveSends DEF InOrder, No, Overlap, Under, Stores
  <2>2. QED
    BY <1>6, <1>7, <2>1, SaveSends
<1>8. CASE win.edited /\ (Close \/ CloseTwice)
  <2>1. Idle0
    BY <1>8, CloseSends DEF InOrder, No, Turned, Under, Stores
  <2>2. QED
    BY <1>6, <1>8, <2>1, CloseSends
<1>9. CASE Stays /\ UNCHANGED win.place /\ UNCHANGED win.hidden /\ ~win.edited
  BY <1>9 DEF Stays, SameFile, Remembered, Unkept, Pending, Visible, Stores
<1>10. ASSUME Stays, ~win.edited \/ win.hidden, troubles' = troubles \union Turned PROVE Remembered'
  <2>1. Idle0
    BY <1>10 DEF InOrder, No, Turned, Under, Stores
  <2>2. \A f \in Files : ~Unkept(f)
    BY <1>1, <1>10, <2>1 DEF Pending, Visible
  <2>3. Idle0' /\ \A f \in Files : ~Unkept(f)'
    BY <1>10, <2>1, <2>2 DEF Stays, Stores, Unkept
  <2>4. win'.edited => win'.text.v = typed'[win'.name]
    BY <1>10 DEF Stays, SameFile, Remembered
  <2>5. QED
    BY <1>2, <2>3, <2>4
<1>11. ASSUME NEW s \in Slots, ServeLoad(s) PROVE Remembered'
  <2>1. PICK c \in Calls : /\ Loads(s) /\ calls' = [calls EXCEPT ![s] = c] /\ c.kind = "load"
                           /\ UNCHANGED <<win, saved, overhung, typed, warned>>
    BY <1>11, ServeLoadAnswers
  <2>2. ~win.edited /\ Idle0
    BY <2>1 DEF OnTopic
  <2>3. Idle0'
    BY <2>1, <2>2 DEF Types, Stores
  <2>4. QED
    BY <1>1, <1>2, <2>1, <2>2, <2>3 DEF Unkept
<1>12. ASSUME NEW s \in Slots, Writes(s) PROVE Remembered'
  <2>1. PICK c \in Calls, covers \in BOOLEAN :
          /\ Stores(s) /\ calls' = [calls EXCEPT ![s] = c]
          /\ c.kind = calls[s].kind /\ c.st = "ok" /\ c.path = calls[s].path /\ c.text = calls[s].text
          /\ saved' = IF covers THEN Noted(saved, c) ELSE saved
          /\ overhung' = IF covers THEN overhung ELSE Noted(overhung, c)
          /\ UNCHANGED <<win, typed, warned>>
    BY <1>12 DEF Writes
  <2>2. /\ c.text.of = c.path /\ c.path = win.name /\ win.text.v = typed[win.name]
        /\ c.text.v = typed[win.name] \/ Pending
        /\ \A t \in Slots : Stores(t) => t = s
    BY <2>1 DEF Apart, OnTopic, Remembered, OneAtATime
  <2>3. \/ saved' = [saved EXCEPT ![win.name] = c.text.v] /\ UNCHANGED overhung
        \/ overhung' = [overhung EXCEPT ![win.name] = c.text.v] /\ UNCHANGED saved
    BY <2>1, <2>2 DEF Noted
  <2>4. calls'[s] = c /\ (Pending => Pending') /\ \A t \in Slots : Stores(t)' => t = s
    BY <2>1, <2>2 DEF Types, Stores, Pending, Visible
  <2>5. ASSUME NEW f \in Files, Unkept(f)' PROVE win.name = f /\ Pending
    BY <2>1, <2>2, <2>3, <2>5 DEF Types, Unkept, Remembered, OneAtATime
  <2>6. QED
    BY <2>1, <2>2, <2>4, <2>5 DEF Remembered
<1>13. ASSUME NEW s \in Slots, Fails(s) PROVE Remembered'
  <2>1. PICK c \in Calls :
          /\ calls' = [calls EXCEPT ![s] = c]
          /\ c.kind = calls[s].kind /\ c.st = "no" /\ c.path = calls[s].path /\ c.text = calls[s].text
          /\ UNCHANGED <<win, typed, saved, overhung, warned>>
    BY <1>13 DEF Fails
  <2>2. \A t \in Slots : /\ calls'[t].kind = calls[t].kind /\ calls'[t].path = calls[t].path
                         /\ calls'[t].text = calls[t].text
                         /\ calls[t].st # "ok" => calls'[t].st # "ok"
    BY <2>1 DEF Types
  <2>3. QED
    BY <2>1, <2>2 DEF Remembered, Unkept, Pending, Visible, Stores
<1>14. ASSUME NEW s \in Slots, Ends(s), Loads(s), UNCHANGED <<win.edited, warned>> PROVE Remembered'
  <2>1. ~win.edited /\ Idle0
    BY <1>14 DEF OnTopic
  <2>2. Idle0' /\ UNCHANGED <<saved, overhung, typed>>
    BY <1>14, <2>1 DEF Ends, Types, Stores, None
  <2>3. QED
    BY <1>1, <1>2, <1>14, <2>1, <2>2 DEF Unkept
<1>15. ASSUME NEW s \in Slots, Ends(s), Stores(s) PROVE Idle0' /\ UNCHANGED <<typed, saved, overhung>>
  BY <1>15 DEF Ends, OneAtATime, Types, Stores, None
<1>16. ASSUME NEW s \in Slots, Saved(s) PROVE Remembered'
  <2>1. Stores(s) /\ calls[s].st = "ok" /\ Ends(s) /\ \A t \in Slots : Stores(t) => t = s
    BY <1>16, SavedRecords DEF OneAtATime
  <2>2. win.text.v = typed[win.name] /\ \A f \in Files : Unkept(f) => win.name = f /\ Pending
    BY <2>1 DEF Remembered
  <2>3. Idle0' /\ UNCHANGED <<typed, saved, overhung, warned, win.name, win.text>> /\ (Pending => Pending')
    BY <1>15, <1>16, <2>1, SavedRecords DEF SameView, Pending, Visible
  <2>4. QED
    BY <2>2, <2>3 DEF Remembered, Unkept
<1>17. ASSUME NEW s \in Slots, NotSaved(s) \/ NotSavedLast(s) PROVE Remembered'
  <2>1. Stores(s) /\ Ends(s) /\ calls[s].text.of = win.name
    BY <1>17, NotSavedAgain DEF Apart, OnTopic
  <2>2. win.text.v = typed[win.name]
    BY <2>1 DEF Remembered
  <2>3. Idle0' /\ UNCHANGED <<typed, saved, overhung, win.name, win.text>>
    BY <1>15, <1>17, <2>1, NotSavedAgain DEF SameFile
  <2>4. warned' = IF calls[s].kind = "last" \/ Visible THEN warned \union {win.name} ELSE warned
    BY <1>17, <2>1, NotSavedAgain
  <2>5. ASSUME NEW f \in Files, Unkept(f)' PROVE FALSE
    <3>1. Unkept(f) /\ (win.name = f => calls[s].kind # "last" /\ ~Visible)
      BY <2>3, <2>4, <2>5 DEF Unkept
    <3>2. \A t \in Slots : Stores(t) => t = s
      BY <2>1 DEF OneAtATime
    <3>3. QED
      BY <2>1, <3>1, <3>2 DEF Remembered, Pending, Stores
  <2>6. QED
    BY <1>2, <2>2, <2>3, <2>5
<1>18. ASSUME NEW s \in Slots, SavedLast(s) PROVE Remembered'
  <2>1. Stores(s) /\ calls[s].st = "ok" /\ Ends(s) /\ ~win.edited /\ \A t \in Slots : Stores(t) => t = s
    BY <1>18, SavedLastCloses DEF OneAtATime
  <2>2. \A f \in Files : ~Unkept(f)
    BY <2>1 DEF Remembered, Pending
  <2>3. Idle0' /\ UNCHANGED <<typed, saved, overhung, warned>> /\ ~win'.edited
    BY <1>15, <1>18, <2>1, SavedLastCloses
  <2>4. QED
    BY <1>2, <2>2, <2>3 DEF Unkept
<1>19. ASSUME NEW s \in Slots, Loaded(s) \/ NotLoaded(s, TRUE) \/ NotLoaded(s, FALSE) PROVE Remembered'
  BY <1>14, <1>19, LoadedShows, NotLoadedStays
<1>20. ASSUME NEW f \in Files, Others(f) PROVE Remembered'
  BY <1>4, <1>20 DEF Others
<1>21. QED
  BY <1>3, <1>4, <1>5, <1>7, <1>8, <1>9, <1>10, <1>11, <1>12, <1>13, <1>16, <1>17, <1>18, <1>19, <1>20,
     StepCases, FaultFails
-----------------------------------------------------------------------------
LEMMA NextEvents == ASSUME events \in Nat, [Next]_vars PROVE events' \in Nat
<1>1. Count => events' \in Nat
  BY DEF Count
<1>2. ASSUME NEW f \in Files, Open(f) \/ Others(f) PROVE events' \in Nat
  BY <1>1, <1>2 DEF Open, Others
<1>3. CASE Type \/ Save \/ Autosave \/ Close \/ CloseTwice \/ Reopen \/ Tick \/ UNCHANGED vars
  BY <1>3 DEF Type, Save, Autosave, Close, CloseTwice, Reopen, Tick, vars
<1>4. ASSUME NEW s \in Slots, Serve(s) \/ Fault(s) PROVE events' \in Nat
  BY <1>1, <1>4 DEF Serve, ServeLoad, ServeSave, Fault
<1>5. ASSUME NEW s \in Slots, Callback(s) PROVE events' \in Nat
  BY <1>5 DEF Callback, Loaded, NotLoaded, Saved, NotSaved, SavedLast, NotSavedLast
<1>6. QED
  BY <1>2, <1>3, <1>4, <1>5 DEF Next, Rest

LEMMA NextIInv == IInv /\ [Next]_vars => IInv'
<1> SUFFICES ASSUME IInv, [Next]_vars PROVE IInv'
  OBVIOUS
<1>1. Types /\ Types' /\ events' \in Nat
  BY NextTypes, NextEvents DEF IInv
<1>2. /\ NoMixing' => NoMixing
      /\ NoTurning' => NoTurning
      /\ InOrder' => InOrder /\ NoTurning
      /\ Undisturbed' => Undisturbed /\ InOrder'
  BY <1>1, TroublesGrow DEF NoMixing, NoTurning, InOrder, Undisturbed, No
<1>3. NoMixing' => Apart'
  BY <1>1, <1>2, NextApart DEF IInv
<1>4. NoTurning' => NoMixing' /\ OnTopic'
  BY <1>1, <1>2, NextOnTopic DEF IInv
<1>5. InOrder' => OneAtATime' /\ Remembered'
  BY <1>1, <1>2, NextOneAtATime, NextRemembered DEF IInv
<1>6. Undisturbed' => InTouch'
  BY <1>1, <1>2, NextInTouch DEF IInv
<1>7. QED
  BY <1>1, <1>3, <1>4, <1>5, <1>6 DEF IInv

\* The invariant holds throughout.
LEMMA AlwaysIInv == Spec => []IInv
BY InitIInv, NextIInv, PTL DEF Spec

\* editor.js: where the user can type, the text, the name it will be saved under
\* and the time it is checked against are of one file, unless a file was opened
\* while another was being loaded, or saved, or could not be saved.
THEOREM OneFileAlways == Spec => []OneFile
<1>1. IInv => OneFile
  BY DEF IInv, OneFile, NoTurning, No, Visible, Apart, OnTopic
<1>2. QED
  BY <1>1, AlwaysIInv, PTL

\* editor.js: nothing is written to a file but the text that was read from it,
\* whatever timers run out and whatever answers come late, unless two files were
\* being loaded at once or a text that could not be saved was left behind.
THEOREM TextGoesHomeAlways == Spec => TextGoesHome
<1>1. ASSUME IInv, [Next]_vars, NoMixing, NEW f \in Files, disk'[f] # disk[f]
      PROVE  disk'[f].text.of = f
  <2>1. Types /\ Apart
    BY <1>1 DEF IInv
  <2>2. \/ \E g \in Files : Others(g)
        \/ \E s \in Slots : Writes(s)
    BY <1>1, <2>1, StepCases, OpenAsks, TypeChanges, SaveSends, CloseSends, ServeLoadAnswers, FaultFails,
       LoadedShows, NotLoadedStays, SavedRecords, NotSavedAgain, SavedLastCloses
       DEF SendsOff, Stays, Fails, Ends
  <2>3. ASSUME NEW g \in Files, Others(g) PROVE disk'[f].text.of = f
    BY <1>1, <2>1, <2>3 DEF Others, Text, Types
  <2>4. ASSUME NEW s \in Slots, Writes(s) PROVE disk'[f].text.of = f
    <3>1. PICK c \in Calls, covers \in BOOLEAN :
            /\ c.path = calls[s].path /\ c.text = calls[s].text /\ Stores(s)
            /\ disk' = [disk EXCEPT ![c.path] = [text |-> Written(c.text, covers), time |-> now]]
      BY <2>4 DEF Writes
    <3>2. Written(c.text, covers).of = c.path
      BY <2>1, <3>1, WrittenIs DEF Apart, Types
    <3>3. QED
      BY <1>1, <2>1, <3>1, <3>2 DEF Types, Calls
  <2>5. QED
    BY <2>2, <2>3, <2>4
<1>2. IInv /\ [Next]_vars =>
        [troubles \cap {"loads", "unsaved", "late"} = {} =>
           \A f \in Files : disk'[f] # disk[f] => disk'[f].text.of = f]_vars
  BY <1>1 DEF NoMixing, No
<1>3. QED
  BY <1>2, AlwaysIInv, PTL DEF Spec, TextGoesHome

\* editor.js and savefile.go: as long as calls do not overlap and none is lost, a
\* save is only refused for what others wrote: each answer puts the time on
\* record that the next save is checked against.
THEOREM RefusedForOthersAlways == Spec => RefusedForOthers
<1>1. ASSUME IInv, [Next]_vars, NEW s \in Slots, Refused(s) PROVE troubles # {}
  <2>1. Types
    BY <1>1 DEF IInv
  <2>2. Stores(s) /\ calls[s].st = "sent" /\ Stores(s)' /\ calls'[s].st = "no"
    BY <1>1 DEF Refused, Stores
  <2>3. ASSUME NEW t \in Slots, NEW c, calls' = [calls EXCEPT ![t] = c] PROVE t = s /\ c.st = "no" /\ c # None
    BY <2>1, <2>2, <2>3 DEF Types, Stores, None
  <2>4. ~UNCHANGED calls
    BY <2>2
  <2>5. ~\E t \in Slots : Ends(t)
    BY <2>3 DEF Ends
  <2>6. ~\E kind \in {"save", "last"} : SendsOff(kind)
    BY <2>2, <2>3 DEF SendsOff
  <2>7. \A f \in Files : ~Open(f) /\ ~Others(f)
    BY <2>1, <2>3, <2>4, OpenAsks DEF Others
  <2>8. \A t \in Slots : ~ServeLoad(t) /\ ~Writes(t)
    BY <2>1, <2>3, ServeLoadAnswers DEF Writes
  <2>9. PICK t \in Slots : Fault(t) \/ (Fails(t) /\ calls[t].time # disk[calls[t].path].time)
    <3>1. \A t \in Slots : /\ ~Loaded(t) /\ ~NotLoaded(t, TRUE) /\ ~NotLoaded(t, FALSE)
                           /\ ~Saved(t) /\ ~NotSaved(t) /\ ~NotSavedLast(t) /\ ~SavedLast(t)
      BY <2>1, <2>5, LoadedShows, NotLoadedStays, SavedRecords, NotSavedAgain, SavedLastCloses
    <3>2. ~Type /\ ~Stays /\ ~(win.edited /\ (Save \/ Autosave \/ Close \/ CloseTwice))
      BY <2>1, <2>4, <2>6, TypeChanges, SaveSends, CloseSends DEF Stays
    <3>3. ~UNCHANGED <<win, calls, disk, typed, saved, overhung, warned, troubles>>
      BY <2>4
    <3>4. QED
      BY <1>1, <2>1, <2>7, <2>8, <3>1, <3>2, <3>3, StepCases
  <2>10. ~Fault(t)
    BY <1>1 DEF Fault, Count, Refused, IInv
  <2>11. calls[s].time # disk[calls[s].path].time
    BY <2>1, <2>3, <2>9, <2>10 DEF Fails
  <2>12. ~InTouch
    BY <2>2, <2>11 DEF InTouch
  <2>13. QED
    BY <1>1, <2>12 DEF IInv, Undisturbed
<1>2. IInv /\ [Next]_vars => [\A s \in Slots : Refused(s) => troubles # {}]_vars
  BY <1>1
<1>3. QED
  BY <1>2, AlwaysIInv, PTL DEF Spec, RefusedForOthers

\* editor.js and savefile.go: when the timers have run out and all is answered, the
\* last text the user typed is stored, and nothing beside it, or was stored over a
\* longer one whose end was left behind it, or he saw since then that it was not
\* stored, whichever way the editor was closed: unless two saves overlapped, or the
\* user turned to something else while there was one under way, or to another file
\* in spite of what he saw.
THEOREM KeptOrWarnedAlways == Spec => []KeptOrWarned
<1>1. ASSUME IInv, Idle, InOrder, NEW f \in Files PROVE ~Unkept(f)
  <2>1. \A s \in Slots : ~Stores(s)
    BY <1>1 DEF Idle, Free, Stores, None
  <2>2. ~Pending
    BY <1>1 DEF Idle, Pending
  <2>3. QED
    BY <1>1, <2>1, <2>2 DEF IInv, Remembered
<1>2. IInv => KeptOrWarned
  BY <1>1 DEF KeptOrWarned, InOrder, No, Unkept
<1>3. QED
  BY <1>2, AlwaysIInv, PTL
=============================================================================
