----------------------------------- MODULE Editor -----------------------------------
(***************************************************************************)
(* The text editor (apps/files_texteditor): files are loaded with their    *)
(* modification time in seconds, and a save is refused when that is no     *)
(* longer the file's.  One file, any number of editors, and other writers  *)
(* of the file (webdav).  Of what is written only the time is modelled.  A *)
(* request that fails reports it, and the user then has to load again;     *)
(* such requests are not modelled.                                         *)
(***************************************************************************)
EXTENDS Naturals

CONSTANTS
    Editors,   \* browser windows
    MaxTime    \* bound on the clock

ASSUME EditorAssumption == MaxTime \in Nat

VARIABLES
    mtime,            \* modification time of the file, in seconds
    now,              \* the clock of the file system, in seconds
    pc,               \* of each editor's request, or that it has none
    known,            \* the modification time it was told
    late              \* ghost: the times of what others wrote since it was told

vars == <<mtime, now, pc, known, late>>

GoTo(e, from, to) == pc[e] = from /\ pc' = [pc EXCEPT ![e] = to]

\* A write by e.
Writes(e) ==
    /\ mtime' = now
    /\ late' = [d \in Editors |-> IF d = e THEN late[d] ELSE late[d] \union {now}]

\* os.Stat or file.Stat on behalf of e.
Told(e) ==
    /\ known' = [known EXCEPT ![e] = mtime]
    /\ late' = [late EXCEPT ![e] = {}]
-----------------------------------------------------------------------------
LoadStat(e) ==
    /\ GoTo(e, "closed", "read")
    /\ Told(e)
    /\ UNCHANGED <<mtime, now>>

LoadRead(e) ==
    /\ GoTo(e, "read", "open")
    /\ UNCHANGED <<mtime, now, known, late>>

\* Mutant: only a file older than it should be counts as modified.
NotOlder(e) == known[e] <= mtime

Unmodified(e) == known[e] = mtime

SaveCheck(e) ==
    /\ GoTo(e, "open", "write")
    /\ Unmodified(e)
    /\ UNCHANGED <<mtime, now, known, late>>

\* errFileModified: all that is left to do is to open the file again.
SaveRefused(e) ==
    /\ GoTo(e, "open", "closed")
    /\ ~Unmodified(e)
    /\ UNCHANGED <<mtime, now, known, late>>

SaveWrite(e) ==
    /\ GoTo(e, "write", "stat")
    /\ Writes(e)
    /\ UNCHANGED <<now, known>>

\* Mutant: the time the client sent is sent back.
TellNothing(e) ==
    /\ GoTo(e, "stat", "open")
    /\ late' = [late EXCEPT ![e] = {}]
    /\ UNCHANGED <<mtime, now, known>>

SaveStat(e) ==
    /\ GoTo(e, "stat", "open")
    /\ Told(e)
    /\ UNCHANGED <<mtime, now>>

\* Requests of the window that are under way end before it can load again.
Close(e) ==
    /\ GoTo(e, "open", "closed")
    /\ UNCHANGED <<mtime, now, known, late>>

\* PUT truncates the file, or makes a new one.
OtherWrite ==
    /\ mtime' = now
    /\ late' = [e \in Editors |-> late[e] \union {now}]
    /\ UNCHANGED <<now, pc, known>>

Tick ==
    /\ now < MaxTime
    /\ now' = now + 1
    /\ UNCHANGED <<mtime, pc, known, late>>

Init ==
    /\ mtime = 0 /\ now = 0
    /\ pc = [e \in Editors |-> "closed"]
    /\ known = [e \in Editors |-> 0]
    /\ late = [e \in Editors |-> {}]

Edit(e) == \/ LoadStat(e) \/ LoadRead(e) \/ SaveCheck(e) \/ SaveRefused(e)
           \/ SaveWrite(e) \/ SaveStat(e) \/ Close(e)

Next == OtherWrite \/ Tick \/ \E e \in Editors : Edit(e)

Spec == Init /\ [][Next]_vars
-----------------------------------------------------------------------------
\* Of what others wrote since the editor was told the time, a save that passes
\* the check covers up only what was written in that very second, or after the
\* check.  (What they wrote between a save and the answer to it is not counted:
\* the time told then is theirs, and the next save covers them up.)
CheckSeesOtherSeconds ==
    [][\A e \in Editors : SaveCheck(e) => late[e] \subseteq {known[e]}]_vars

\* A save is only refused when someone else has written since the editor was
\* told the time: its own saves never stand in its way.
NoSpuriousRefusal ==
    [][\A e \in Editors : SaveRefused(e) => late[e] # {}]_vars
=====================================================================================
