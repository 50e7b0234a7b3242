-------------------------------- MODULE EditorWindow --------------------------------
(***************************************************************************)
(* The browser window of the text editor (files_texteditor/js/editor.js).  *)
(* There is one editor, and one record of the file in it, which the        *)
(* callbacks of every call read and write whatever file they were made     *)
(* for.  A call is one step of the server; what lies between the check of  *)
(* the time, the write and the answer is in Editor.                        *)
(***************************************************************************)
EXTENDS Naturals, FiniteSetsExt

CONSTANTS
    Files,       \* in the directory on screen
    Slots,       \* bound on the calls under way
    MaxTyped,    \* bound on the changes the user makes
    MaxTime,     \* bound on the clock
    MaxEvents    \* bound on the files opened, what others write and the calls lost

ASSUME EditorWindowAssumption == MaxTyped \in Nat /\ MaxTime \in Nat /\ MaxEvents \in Nat

VARIABLES
    win,        \* the window
    calls,      \* the calls to the server, by slot
    disk,       \* of each file, the text and its time
    now,        \* the clock of the file system, in seconds
    typed,      \* history: how often the user changed each file
    saved,      \* history: the last of these changes that was stored, and nothing beside it
    overhung,   \* history: the last of these changes that was stored with the end of a longer text behind it
    warned,     \* history: the files of which the user saw, since the last change, that they were not saved
    troubles,   \* history: what overlapped
    events

history == <<typed, saved, overhung, warned, troubles>>
vars == <<win, calls, disk, now, history, events>>

None == [kind |-> "none"]
NoFile == "nofile"

\* A text: the file it is of and the change of it that made it.  Change 0 is what
\* the user did not make: what was there, what others wrote, and a change with the
\* end of another text behind it.
Text(f, v) == [of |-> f, v |-> v]
-----------------------------------------------------------------------------
\* The window.  name, of and time are of the file record: of is the file whose
\* time it is.  text is what the editor (ace) holds, also when it is not on
\* screen.  place is what is in the container, hidden that it is not displayed,
\* bound how many handlers wait for a click beside it, pop that the browser's
\* "back" closes the editor, offer that a notification offers to open it again.

Unbound(w) == [w EXCEPT !.bound = 0]

CloseEditor(w) == [Unbound(w) EXCEPT !.place = "empty", !.hidden = FALSE]

HideEditor(w) == [Unbound(w) EXCEPT !.hidden = TRUE]

Free == {s \in Slots : calls[s] = None}
Slot == CHOOSE s \in Free : TRUE
Under(kinds) == {s \in Slots : calls[s].kind \in kinds}

Send(call) == Free # {} /\ calls' = [calls EXCEPT ![Slot] = call]

\* saveFile: what the editor holds, under the name and the time on record.
Saving(kind) ==
    Send([kind |-> kind, path |-> win.name, text |-> win.text, of |-> win.of, time |-> win.time, st |-> "sent"])

\* Mutant: it is not looked whether anything was edited.
SaveTriggerAlways(w) == Saving("save") /\ win' = [w EXCEPT !.edited = FALSE]

\* _onSaveTrigger.  The flag that is to stop a second save is down again as soon
\* as the first one is sent.
SaveTrigger(w) ==
    IF win.edited
    THEN Saving("save") /\ win' = [w EXCEPT !.edited = FALSE]
    ELSE win' = w /\ UNCHANGED calls

\* Mutant: nothing counts as edited any more before it is looked whether it was.
CloseTriggerForgets == win' = CloseEditor([win EXCEPT !.edited = FALSE]) /\ UNCHANGED calls

\* _onCloseTrigger.
CloseTrigger ==
    IF win.edited
    THEN Saving("last") /\ win' = HideEditor([win EXCEPT !.edited = FALSE])
    ELSE win' = CloseEditor(win) /\ UNCHANGED calls
-----------------------------------------------------------------------------
\* The user.

Count == events < MaxEvents /\ events' = events + 1

\* What overlaps with a save: another one, or the user turning to something else.
Overlap == IF Under({"save", "last"}) # {} THEN {"saves"} ELSE {}
Turned == IF Under({"save", "last"}) # {} THEN {"turned"} ELSE {}

Visible == win.place = "editor" /\ ~win.hidden

\* A click in the list, or the new-file menu when the file it asked for is there:
\* that comes whatever the window shows by then.
Open(f) ==
    /\ Count
    /\ Send([kind |-> "load", path |-> f, text |-> None, of |-> f, time |-> 0, st |-> "sent"])
    /\ win' = [win EXCEPT !.name = f, !.place = "loading"]
    /\ troubles' = troubles \union Turned
                            \union (IF Under({"load"}) # {} THEN {"loads"} ELSE {})
                            \union (IF win.edited THEN {"unsaved"} ELSE {})
    /\ UNCHANGED <<disk, now, typed, saved, overhung, warned>>

Type ==
    LET f == win.text.of IN
    /\ Visible
    /\ MapThenSumSet(LAMBDA g : typed[g], Files) < MaxTyped
    /\ typed' = [typed EXCEPT ![f] = @ + 1]
    /\ win' = [win EXCEPT !.text = Text(f, typed[f] + 1), !.edited = TRUE, !.timers = @ \union {win.session}]
    /\ warned' = warned \ {f}
    /\ UNCHANGED <<calls, disk, now, saved, overhung, troubles, events>>

\* By the keyboard.
Save ==
    /\ Visible /\ win.edited
    /\ SaveTrigger(win)
    /\ troubles' = troubles \union Overlap
    /\ UNCHANGED <<disk, now, typed, saved, overhung, warned, events>>

\* Three seconds after the last change of a text, whatever the window shows by
\* then: each text that was loaded has a timer of its own.
Autosave ==
    \E t \in win.timers :
    /\ SaveTrigger([win EXCEPT !.timers = @ \ {t}])
    /\ troubles' = IF win.edited THEN troubles \union Overlap ELSE troubles
    /\ UNCHANGED <<disk, now, typed, saved, overhung, warned, events>>

\* The button, a click beside the editor, or the browser's "back".
Close ==
    /\ Visible \/ win.bound > 0 \/ win.pop
    /\ CloseTrigger
    /\ troubles' = troubles \union Turned
    /\ UNCHANGED <<disk, now, typed, saved, overhung, warned, events>>

\* A click beside the editor when it is bound twice.
CloseTwice ==
    /\ win.bound > 1
    /\ IF win.edited THEN Saving("last") ELSE UNCHANGED calls
    /\ win' = CloseEditor([win EXCEPT !.edited = FALSE])
    /\ troubles' = troubles \union Turned
    /\ UNCHANGED <<disk, now, typed, saved, overhung, warned, events>>

\* _onReOpenTrigger.
Reopen ==
    /\ win.offer /\ win.hidden
    /\ win' = [win EXCEPT !.hidden = FALSE]
    /\ troubles' = troubles \union Turned
    /\ UNCHANGED <<calls, disk, now, typed, saved, overhung, warned, events>>
-----------------------------------------------------------------------------
\* The server.

Answer(s, call) == calls' = [calls EXCEPT ![s] = call]

ServeLoad(s) ==
    LET c == calls[s] IN
    /\ c.kind = "load" /\ c.st = "sent"
    /\ Answer(s, [c EXCEPT !.st = "ok", !.text = disk[c.path].text, !.time = disk[c.path].time])
    /\ UNCHANGED <<win, disk, now, history, events>>

\* The file is opened without being emptied: of a longer text that is there the
\* end stays behind the one that is written.  Whether the text covers what is
\* there is left open.
Written(text, covers) == IF covers THEN text ELSE Text(text.of, 0)

\* Which change of a file the write leaves there, alone or with such an end.
Noted(note, c) == IF c.text.of = c.path THEN [note EXCEPT ![c.path] = c.text.v] ELSE note

ServeSave(s) ==
    LET c == calls[s] IN
    /\ c.kind \in {"save", "last"} /\ c.st = "sent"
    /\ \/ /\ c.time = disk[c.path].time
          /\ Answer(s, [c EXCEPT !.st = "ok", !.of = c.path, !.time = now])
          /\ \E covers \in BOOLEAN :
               /\ disk' = [disk EXCEPT ![c.path] = [text |-> Written(c.text, covers), time |-> now]]
               /\ saved' = IF covers THEN Noted(saved, c) ELSE saved
               /\ overhung' = IF covers THEN overhung ELSE Noted(overhung, c)
       \/ /\ c.time # disk[c.path].time
          /\ Answer(s, [c EXCEPT !.st = "no"])
          /\ UNCHANGED <<disk, saved, overhung>>
    /\ UNCHANGED <<win, now, typed, warned, troubles, events>>

\* A call, or the answer to it, is lost.
Fault(s) ==
    /\ calls[s].kind # "none" /\ calls[s].st # "no"
    /\ Count
    /\ Answer(s, [calls[s] EXCEPT !.st = "no"])
    /\ troubles' = troubles \union (IF calls[s].st = "ok" THEN {"lost"} ELSE {})
    /\ UNCHANGED <<win, disk, now, typed, saved, overhung, warned>>

Others(f) ==
    /\ Count
    /\ disk' = [disk EXCEPT ![f] = [text |-> Text(f, 0), time |-> now]]
    /\ troubles' = troubles \union {"others"}
    /\ UNCHANGED <<win, calls, now, typed, saved, overhung, warned>>

Tick ==
    /\ now < MaxTime
    /\ now' = now + 1
    /\ UNCHANGED <<win, calls, disk, history, events>>
-----------------------------------------------------------------------------
\* The callbacks.

Over(s) == Answer(s, None)

\* By now the window is about another file.
Late(c) == IF c.path # win.name \/ c.text.of # win.text.of THEN {"late"} ELSE {}

\* Mutant: the time of the last file is kept.
LoadedWithoutTime(s) ==
    LET c == calls[s] IN
    /\ c.kind = "load" /\ c.st = "ok"
    /\ Over(s)
    /\ win' = CASE win.place = "empty" -> win
                [] win.place = "loading" ->
                     [win EXCEPT !.place = "editor", !.text = c.text, !.session = @ + 1,
                                 !.bound = @ + 1, !.pop = TRUE]
                [] OTHER -> [win EXCEPT !.place = "wrecked", !.bound = @ + 1]
    /\ UNCHANGED <<disk, now, history, events>>

\* The time is put on record first.  Without a place for it ace throws; with an
\* ace that is there already the text is put where it destroys it.
Loaded(s) ==
    LET c == calls[s]
        w == [win EXCEPT !.of = c.path, !.time = c.time] IN
    /\ c.kind = "load" /\ c.st = "ok"
    /\ Over(s)
    /\ win' = CASE w.place = "empty" -> w
                [] w.place = "loading" ->
                     [w EXCEPT !.place = "editor", !.text = c.text, !.session = @ + 1,
                               !.bound = @ + 1, !.pop = TRUE]
                [] OTHER -> [w EXCEPT !.place = "wrecked", !.bound = @ + 1]
    /\ UNCHANGED <<disk, now, history, events>>

\* Only one error message can be read; all others end in an exception, and the
\* empty editor stays.
NotLoaded(s, readable) ==
    /\ calls[s].kind = "load" /\ calls[s].st = "no"
    /\ Over(s)
    /\ win' = IF readable THEN CloseEditor(win) ELSE win
    /\ UNCHANGED <<disk, now, history, events>>

\* Mutant: the new time is not put on record.
SavedWithoutTime(s) ==
    /\ calls[s].kind = "save" /\ calls[s].st = "ok"
    /\ Over(s)
    /\ UNCHANGED <<win, disk, now, history, events>>

Saved(s) ==
    LET c == calls[s] IN
    /\ c.kind = "save" /\ c.st = "ok"
    /\ Over(s)
    /\ win' = [win EXCEPT !.of = c.of, !.time = c.time]
    /\ UNCHANGED <<disk, now, history, events>>

NotSaved(s) ==
    LET c == calls[s] IN
    /\ c.kind = "save" /\ c.st = "no"
    /\ Over(s)
    /\ win' = [win EXCEPT !.edited = TRUE]
    /\ warned' = IF Visible THEN warned \union {c.text.of} ELSE warned
    /\ troubles' = troubles \union Late(c)
    /\ UNCHANGED <<disk, now, typed, saved, overhung, events>>

SavedLast(s) ==
    /\ calls[s].kind = "last" /\ calls[s].st = "ok"
    /\ Over(s)
    /\ win' = CloseEditor(win)
    /\ UNCHANGED <<disk, now, history, events>>

NotSavedLast(s) ==
    LET c == calls[s] IN
    /\ c.kind = "last" /\ c.st = "no"
    /\ Over(s)
    /\ win' = [win EXCEPT !.edited = TRUE, !.offer = TRUE]
    /\ warned' = warned \union {c.text.of}
    /\ troubles' = troubles \union Late(c)
    /\ UNCHANGED <<disk, now, typed, saved, overhung, events>>

Idle == Free = Slots /\ win.timers = {}

\* The user may leave it at that.
Rest == Idle /\ UNCHANGED vars

Serve(s) == ServeLoad(s) \/ ServeSave(s)

Callback(s) == \/ Loaded(s) \/ NotLoaded(s, TRUE) \/ NotLoaded(s, FALSE)
               \/ Saved(s) \/ NotSaved(s) \/ SavedLast(s) \/ NotSavedLast(s)

Next == \/ \E f \in Files : Open(f) \/ Others(f)
        \/ Type \/ Save \/ Autosave \/ Close \/ CloseTwice \/ Reopen \/ Tick
        \/ \E s \in Slots : Serve(s) \/ Callback(s) \/ Fault(s)
        \/ Rest

Init ==
    /\ win = [name |-> NoFile, of |-> NoFile, time |-> 0, edited |-> FALSE, text |-> None,
              place |-> "empty", hidden |-> FALSE, bound |-> 0, session |-> 0, timers |-> {}, pop |-> FALSE, offer |-> FALSE]
    /\ calls = [s \in Slots |-> None]
    /\ disk = [f \in Files |-> [text |-> Text(f, 0), time |-> 0]]
    /\ now = 0
    /\ typed = [f \in Files |-> 0] /\ saved = [f \in Files |-> 0] /\ overhung = [f \in Files |-> 0]
    /\ warned = {} /\ troubles = {} /\ events = 0

Spec == Init /\ [][Next]_vars
-----------------------------------------------------------------------------
\* Where the user can type, the text, the name it will be saved under and the
\* time it is checked against are of one file, unless a file was opened while
\* another was being loaded, or saved, or could not be saved.
OneFile == Visible /\ troubles \cap {"loads", "turned", "unsaved"} = {} => win.of = win.name /\ win.text.of = win.name

\* The text of a file is never stored as another one, not even by a timer that
\* runs out after the user has opened that one and when the times of both are
\* the same, unless two files were being loaded at once or a text that could not
\* be saved was left behind.
TextGoesHome ==
    [][troubles \cap {"loads", "unsaved", "late"} = {} => \A f \in Files : disk'[f] # disk[f] => disk'[f].text.of = f]_vars

Refused(s) ==
    /\ calls[s].kind \in {"save", "last"} /\ calls[s].st = "sent"
    /\ calls'[s].kind = calls[s].kind /\ calls'[s].st = "no" /\ events' = events

\* As long as calls do not overlap and none is lost, a save is only refused for
\* what others wrote: each save puts the time on record the next one is checked
\* against, autosaves, closing and resuming included.
RefusedForOthers ==
    [][\A s \in Slots : Refused(s) => troubles # {}]_vars

\* When the timers have run out and all is answered, the last text the user
\* typed is stored, and nothing beside it, or was stored over a longer one whose
\* end was left behind it (the answer is the same, and the user is told nothing),
\* or the user saw since then that it was not, whichever way the editor was
\* closed and whoever refused or lost the save: unless two saves overlapped, or
\* the user turned to something else while there was one under way, or to
\* another file in spite of what he saw.
KeptOrWarned ==
    Idle /\ troubles \cap {"loads", "turned", "saves", "unsaved"} = {} =>
      \A f \in Files : typed[f] \in {saved[f], overhung[f]} \/ f \in warned
=============================================================================
