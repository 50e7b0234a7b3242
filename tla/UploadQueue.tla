--------------------------------- MODULE UploadQueue --------------------------------
(***************************************************************************)
(* The web client's side of an upload (apps/files/js/file-upload.js and    *)
(* the jquery.fileupload it configures): files are chosen, compared with   *)
(* the list on screen, asked about in a dialog, queued, and sent one after *)
(* the other to the upload form of the server (module Upload, of which a   *)
(* whole request is one step here).  The list itself is in FileList; here  *)
(* it is the set of names it has, and a directory is loaded in one step.   *)
(* Folders that are uploaded with what is in them are not modelled.        *)
(***************************************************************************)
EXTENDS Integers, FiniteSets, Sequences, Functions

CONSTANTS
    Home, Sub,     \* a directory, and one that has a row in its list
    Names,
    FirstFiles,    \* the names each directory has at first
    Selections,    \* what can be chosen at once: sequences of names
    MaxUploads, MaxEvents   \* bounds on the files chosen, and on what else happens

Dirs == {Home, Sub}

ASSUME UploadQueueAssumption ==
    /\ Home # Sub /\ FirstFiles \in [Dirs -> SUBSET Names]
    /\ Selections \subseteq Seq(Names) \ {<<>>}
    /\ MaxUploads \in Nat /\ MaxEvents \in Nat

VARIABLES
    win,       \* the window: directory, list, folder row, dialog, uploads and their queue
    server,    \* who wrote each file: an upload, or one of the following
    orphans,   \* uploads whose request was aborted and may yet reach the server
    slips,     \* history: the counter of the folder row may be wrong since
    troubles,  \* history: something went on that no answer told the window
    events

vars == <<win, server, orphans, slips, troubles, events>>

Nobody == 0
Owner == -1      \* who put the first files there
Stranger == -2   \* another client
Nowhere == "nowhere"

Existing(d) == {n \in Names : server[d][n] # Nobody}
-----------------------------------------------------------------------------
\* The window.

Asked(w) == {u \in DOMAIN w.ups : w.ups[u].st = "asked"}

Settle(w, us, st) ==
    [w EXCEPT !.ups = [u \in DOMAIN @ |-> IF u \in us THEN [@[u] EXCEPT !.st = st] ELSE @[u]]]

Heading(w, target) == IF target = Nowhere THEN w.cur ELSE target

\* submit and _onSend, one upload after the other: where a file goes is only
\* decided now.
SubmitAll(w, us) ==
    [w EXCEPT !.ups = [u \in DOMAIN @ |->
                         IF u \in Range(us)
                         THEN [@[u] EXCEPT !.st = "queued", !.dir = Heading(w, w.ups[u].target)]
                         ELSE @[u]],
              !.queue = @ \o us,
              !.wire = IF w.queue = <<>> /\ us # <<>> THEN "sent" ELSE @]

\* They go in the order in which they were chosen.
Ascending(us) == {q \in [1..Cardinality(us) -> us] : Range(q) = us /\ \A i, j \in DOMAIN q : i < j => q[i] < q[j]}

\* The upload at the head is over, and the next is sent.  After the last one
\* (stop) the folder row is no longer busy.
Advance(w) ==
    [w EXCEPT !.queue = Tail(@),
              !.wire = IF Len(w.queue) = 1 THEN "none" ELSE "sent",
              !.counter = IF Len(w.queue) = 1 THEN 0 ELSE @]

InRow(w, us) == Cardinality({u \in us : w.ups[u].row = w.loads})

\* Going wrong lasts until the counter is reset while no question is open.
Reset == win.queue # <<>> /\ win'.queue = <<>> /\ InRow(win', Asked(win')) = 0
Slipped(now) == slips' = IF Reset THEN FALSE ELSE slips \/ now
-----------------------------------------------------------------------------
\* What the user does.

\* A file of this name is on its way, or was chosen before it.
Expected(names, i) ==
    \/ \E u \in DOMAIN win.ups : win.ups[u].name = names[i] /\ win.ups[u].st \in {"queued", "asked"}
    \/ \E j \in 1..(i - 1) : names[j] = names[i]

Entry(names, i, bad, target) ==
    [name |-> names[i], sel |-> Len(win.ups) + 1, target |-> target, from |-> win.cur, dir |-> Nowhere,
     row |-> IF win.cur = Home /\ target = Sub THEN win.loads ELSE 0,
     twin |-> Expected(names, i), res |-> "none",
     st |-> IF i = bad THEN "refused" ELSE "dropped"]

\* Mutant: one question for a selection, about its first file.
ConflictsOfFirst(w, us) == {u \in us : w.ups[u].name \in w.list /\ \A v \in us : u <= v}

\* checkExistingFiles looks at the list on screen, wherever the files are to go.
Conflicts(w, us) == {u \in us : w.ups[u].name \in w.list}

\* Mutant: only the file that is refused is left out.
AcceptedButTheBad(bad, broken) == ~broken

\* On an error nothing of the selection is sent.
Accepted(bad, broken) == bad = 0 /\ ~broken

\* Files are chosen with the button, or dropped on a folder or bread crumb, and
\* file number bad is refused (its name, its size or the space left).  If there
\* is one all files before it are dropped with it and those after it are not
\* looked at.  A question that is asked while the dialog is still being loaded,
\* or could not be, ends in an exception, and nothing of the selection is sent.
Choose(names, bad, target) ==
    LET n == Len(names)
        new == [i \in 1..n |-> Entry(names, i, bad, target)]
        us == (Len(win.ups) + 1) .. (Len(win.ups) + n)
        w == [win EXCEPT !.ups = @ \o new,
                         !.counter = IF new[1].row = 0 THEN @ ELSE @ + (IF bad = 0 THEN n ELSE bad)]
        conflicts == Conflicts(w, us)
        fine == {u \in us \ conflicts : w.ups[u].st = "dropped"}
        asked == Settle([w EXCEPT !.dialog = IF conflicts = {} THEN @
                                             ELSE IF w.template THEN "shown" ELSE "loading"],
                        conflicts, "asked")
        broken == conflicts # {} /\ win.dialog \in {"loading", "unloaded"}
    IN /\ win.dialog # "shown"
       /\ Len(win.ups) + n <= MaxUploads
       /\ \E sent \in Ascending(fine) : win' = IF Accepted(bad, broken) THEN SubmitAll(asked, sent) ELSE w
       /\ Slipped(new[1].row # 0 /\ (bad # 0 \/ conflicts # {}))
       /\ UNCHANGED <<server, orphans, troubles, events>>

Resolved(w, choice) ==
    [w EXCEPT !.ups = [u \in DOMAIN @ |-> IF u \in DOMAIN choice THEN [@[u] EXCEPT !.res = choice[u]] ELSE @[u]]]

\* onContinue: for each conflict the user keeps the old file, the new one, or both.
Continue(choice) ==
    LET skipped == {u \in Asked(win) : choice[u] = "skip"}
        w == Resolved(Settle([win EXCEPT !.dialog = "none"], skipped, "skipped"), choice)
    IN /\ win.dialog = "shown"
       /\ \E again \in Ascending(Asked(win) \ skipped) : win' = SubmitAll(w, again)
       /\ Slipped(FALSE)
       /\ UNCHANGED <<server, orphans, troubles, events>>

\* cancelUploads: each upload in the queue is sent as the one before it is
\* aborted, and then aborted itself.
CancelUploads(w) ==
    [Settle(w, Range(w.queue), "cancelled") EXCEPT
       !.queue = <<>>, !.wire = "none", !.counter = IF w.queue = <<>> THEN @ ELSE 0]

Unserved == {u \in Range(win.queue) : u # Head(win.queue) \/ win.wire = "sent"}

Count == events < MaxEvents /\ events' = events + 1

Stop ==
    /\ win.dialog # "shown" /\ win.queue # <<>>
    /\ Count
    /\ win' = CancelUploads(win)
    /\ orphans' = orphans \union Unserved
    /\ Slipped(FALSE)
    /\ troubles' = TRUE
    /\ UNCHANGED server

\* onCancel, for all uploads, whether or not the dialog is about them.
CancelDialog ==
    /\ win.dialog = "shown"
    /\ Count
    /\ win' = CancelUploads(Settle([win EXCEPT !.dialog = "none"], Asked(win), "cancelled"))
    /\ orphans' = orphans \union Unserved
    /\ Slipped(FALSE)
    /\ troubles' = (troubles \/ win.queue # <<>>)
    /\ UNCHANGED server

\* The escape key.
CloseDialog ==
    /\ win.dialog = "shown"
    /\ Count
    /\ win' = Settle([win EXCEPT !.dialog = "none"], Asked(win), "skipped")
    /\ Slipped(FALSE)
    /\ UNCHANGED <<server, orphans, troubles>>

\* By a bread crumb, or the browser's buttons even under the dialog.  The rows
\* of the list are made anew.
Go(d) ==
    /\ Count
    /\ win' = [win EXCEPT !.cur = d, !.list = Existing(d), !.loads = @ + 1, !.counter = 0]
    /\ slips' = FALSE
    /\ UNCHANGED <<server, orphans, troubles>>
-----------------------------------------------------------------------------
\* The template of the dialog arrives, or does not: then the dialog counts as
\* shown for ever after, but nobody sees it.

TemplateLoaded ==
    /\ win.dialog = "loading" /\ ~win.template
    /\ win' = [win EXCEPT !.dialog = "shown", !.template = TRUE]
    /\ UNCHANGED <<server, orphans, slips, troubles, events>>

TemplateFails ==
    /\ win.dialog = "loading" /\ ~win.template
    /\ Count
    /\ win' = [win EXCEPT !.dialog = "unloaded"]
    /\ UNCHANGED <<server, orphans, slips, troubles>>
-----------------------------------------------------------------------------
\* The server, and the answers.

Writes(u) == server' = [server EXCEPT ![win.ups[u].dir][win.ups[u].name] = u]

\* The form overwrites a file that is there, and then fails on its row.
Serve ==
    LET u == win.ups[Head(win.queue)] IN
    /\ win.wire = "sent"
    /\ Writes(Head(win.queue))
    /\ win' = [win EXCEPT !.wire = IF server[u.dir][u.name] = Nobody THEN "ok" ELSE "error"]
    /\ UNCHANGED <<orphans, slips, troubles, events>>

ServeOrphan(u) ==
    /\ u \in orphans
    /\ Writes(u)
    /\ orphans' = orphans \ {u}
    /\ UNCHANGED <<win, slips, troubles, events>>

\* The connection is lost before or after.
Fault ==
    /\ win.wire \in {"sent", "ok"}
    /\ Count
    /\ win' = [win EXCEPT !.wire = "error"]
    /\ troubles' = (troubles \/ win.wire = "ok")
    /\ UNCHANGED <<server, orphans, slips>>

\* Mutant: what arrives is listed wherever it went.
DoneAnywhere ==
    LET u == win.ups[Head(win.queue)]
        w == Settle(win, {Head(win.queue)}, "stored")
    IN /\ win.wire = "ok"
       /\ win' = Advance(
            IF u.row # 0 THEN [w EXCEPT !.counter = IF u.row = w.loads THEN @ - 1 ELSE @]
            ELSE [w EXCEPT !.list = @ \union {u.name}])
       /\ Slipped(FALSE)
       /\ UNCHANGED <<server, orphans, troubles, events>>

\* Mutant: the folder row need not be the one the file was dropped on.
DoneOnOldRow ==
    LET u == win.ups[Head(win.queue)]
        w == Settle(win, {Head(win.queue)}, "stored")
    IN /\ win.wire = "ok"
       /\ win' = Advance(
            IF u.row # 0 THEN [w EXCEPT !.counter = @ - 1]
            ELSE IF u.dir = w.cur THEN [w EXCEPT !.list = @ \union {u.name}]
            ELSE w)
       /\ Slipped(FALSE)
       /\ UNCHANGED <<server, orphans, troubles, events>>

\* A file in the directory on screen enters its list, one for a folder counts
\* down on its row, if that is still there.
Done ==
    LET u == win.ups[Head(win.queue)]
        w == Settle(win, {Head(win.queue)}, "stored")
    IN /\ win.wire = "ok"
       /\ win' = Advance(
            IF u.row # 0 THEN [w EXCEPT !.counter = IF u.row = w.loads THEN @ - 1 ELSE @]
            ELSE IF u.dir = w.cur THEN [w EXCEPT !.list = @ \union {u.name}]
            ELSE w)
       /\ Slipped(FALSE)
       /\ UNCHANGED <<server, orphans, troubles, events>>

\* Mutant: a failed upload is tried again.
FailRetries ==
    /\ win.wire = "error"
    /\ win' = [win EXCEPT !.wire = "sent"]
    /\ UNCHANGED <<server, orphans, slips, troubles, events>>

\* The next one is sent all the same, and the folder row keeps its number.
Fail ==
    LET u == win.ups[Head(win.queue)] IN
    /\ win.wire = "error"
    /\ win' = Advance(Settle(win, {Head(win.queue)}, "failed"))
    /\ Slipped(u.row = win.loads)
    /\ UNCHANGED <<server, orphans, troubles, events>>

\* Another client makes a file.
Intrude(d, n) ==
    /\ server[d][n] = Nobody
    /\ Count
    /\ server' = [server EXCEPT ![d][n] = Stranger]
    /\ troubles' = TRUE
    /\ UNCHANGED <<win, orphans, slips>>

Answers == [Asked(win) -> {"skip", "replace", "keep"}]

User == \/ \E s \in Selections : \E bad \in 0..Len(s), t \in Dirs \union {Nowhere} : Choose(s, bad, t)
        \/ \E c \in Answers : Continue(c)
        \/ Stop \/ CancelDialog \/ CloseDialog
        \/ \E d \in Dirs : Go(d)

Wire == Serve \/ Done \/ Fail

Rest == win.queue = <<>> /\ UNCHANGED vars

Next == \/ User \/ TemplateLoaded \/ TemplateFails \/ Wire \/ Fault \/ Rest
        \/ \E u \in orphans : ServeOrphan(u)
        \/ \E d \in Dirs, n \in Names : Intrude(d, n)

Init ==
    /\ server = [d \in Dirs |-> [n \in Names |-> IF n \in FirstFiles[d] THEN Owner ELSE Nobody]]
    /\ win = [cur |-> Home, list |-> FirstFiles[Home], loads |-> 1, counter |-> 0,
              dialog |-> "none", template |-> FALSE,
              ups |-> <<>>, queue |-> <<>>, wire |-> "none"]
    /\ orphans = {} /\ slips = FALSE /\ troubles = FALSE /\ events = 0

Spec == Init /\ [][Next]_vars /\ WF_vars(Wire)
-----------------------------------------------------------------------------
\* One refused file takes the whole selection with it: none of it is ever sent.
RefusedWhole ==
    \A u, v \in DOMAIN win.ups :
      win.ups[u].st = "refused" /\ win.ups[v].sel = win.ups[u].sel => win.ups[v].st \in {"refused", "dropped"}

Overwrites(u) ==
    \E d \in Dirs, n \in Names : server[d][n] # Nobody /\ server'[d][n] = u /\ server[d][n] # u

\* What was dropped on the folder of a directory never enters its list.
OnFolder(d) == {win.ups[u].name : u \in {v \in DOMAIN win.ups :
                  win.ups[v].st = "stored" /\ win.ups[v].row # 0 /\ win.ups[v].dir = d}}

\* A file is only overwritten when the user was asked about that name, unless
\* it went to another directory than the one on screen when it was chosen, or
\* a file of that name was on its way already.
OverwritesAsked ==
    [][~troubles => \A u \in DOMAIN win.ups :
         Overwrites(u) => \/ win.ups[u].res # "none"
                          \/ win.ups[u].dir # win.ups[u].from
                          \/ win.ups[u].twin
                          \/ win.ups[u].name \in OnFolder(win.ups[u].dir)]_vars

\* The list has what was stored as soon as nothing is under way any more,
\* however often the user changed the directory meanwhile, but for files that
\* were dropped on a folder that was opened before they were there.
StoredIsListed ==
    ~troubles /\ win.queue = <<>> =>
      win.list \subseteq Existing(win.cur) /\ Existing(win.cur) \subseteq win.list \union OnFolder(win.cur)

\* The number on a folder is that of the uploads into it that are under way,
\* and it is no longer busy when they are over.
CounterRight == ~slips => win.counter = InRow(win, Range(win.queue))

\* All that is queued gets sent, or given up.
Drains == []<>(win.queue = <<>>)
=============================================================================
