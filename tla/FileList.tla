---------------------------------- MODULE FileList ----------------------------------
(***************************************************************************)
(* The web client's list of files (apps/files/js/filelist.js): a browser   *)
(* window that shows a directory, and the calls to the server it has under *)
(* way.  A call is answered by a callback that runs whenever its answer    *)
(* comes, whatever the window shows by then.  Of the server there is what  *)
(* a callback can tell of it: which files a directory has, and whether the *)
(* call was carried out, refused or lost.                                  *)
(***************************************************************************)
EXTENDS Integers, FiniteSets, SequencesExt

CONSTANTS
    Dirs, Root,
    Names,         \* names of files, in the order the list sorts them
    FirstFiles, FirstId,   \* the files each directory has at first, the id of the next one
    Unlistable,    \* directories the server refuses to list
    PageSize,      \* rows rendered at a time
    Slots,         \* bound on the calls under way
    Patience,      \* bound on the calls under way when the user starts another
    MaxEvents      \* bound on what the user does, and on the calls that fail for no reason of theirs

ASSUME FileListAssumption ==
    /\ Root \in Dirs \ Unlistable
    /\ Names \subseteq Nat /\ Slots \subseteq Nat
    /\ PageSize \in Nat \ {0} /\ Patience \in Nat /\ MaxEvents \in Nat
    /\ IsFiniteSet(Slots) /\ Patience < Cardinality(Slots)

\* A directory has one file of a name, and no id is given twice.
ASSUME FirstFilesAssumption ==
    /\ FirstId \in Nat /\ DOMAIN FirstFiles = Dirs
    /\ \A d \in Dirs :
         /\ FirstFiles[d] \subseteq [id : 0 .. FirstId - 1, name : Names] /\ IsFiniteSet(FirstFiles[d])
         /\ \A f, g \in FirstFiles[d] : f.name = g.name => f = g
    /\ \A d, e \in Dirs : \A f \in FirstFiles[d], g \in FirstFiles[e] : f.id = g.id => d = e /\ f = g

VARIABLES
    view,      \* the window: its directory, the list, the mask over it, the calls
    server,    \* the files of each directory
    nextid,    \* the id of the next file
    shown,     \* history: the directory whose files were rendered last
    troubles,  \* history: what overlapped or got lost since the list was asked for alone
    events     \* of the user, and faults

vars == <<view, server, nextid, shown, troubles, events>>
-----------------------------------------------------------------------------
\* The list on screen.  All files of the directory are known to it, the first
\* few have rows.  A row may be held by the callback of a call made for it.
\* sum and tally are what the two summaries count, of all files and of the
\* chosen ones, and all is the box that chooses all files.

Rendered(f, state) == [id |-> f.id, name |-> f.name, picked |-> state, busy |-> FALSE, held |-> {}]

NextPage(l) ==
    LET n == Len(l.rows)
        page == SubSeq(l.files, n + 1, Min({n + PageSize, Len(l.files)}))
    IN [l EXCEPT !.rows = @ \o [i \in DOMAIN page |->
          Rendered(page[i], l.all \/ \E p \in l.picked : p.id = page[i].id)]]

SetFiles(l, files) ==
    [NextPage([l EXCEPT !.files = files, !.rows = <<>>, !.all = FALSE, !.sum = Len(files)])
       EXCEPT !.picked = {}, !.tally = 0]

InsertionIndex(files, f) ==
    LET stop == SelectInSeq(files, LAMBDA g : g.name >= f.name)
    IN IF stop = 0 THEN Len(files) + 1 ELSE stop

\* Mutant: every new file gets a row.
AddRow(l, f) ==
    LET i == InsertionIndex(l.files, f) IN
    [l EXCEPT !.files = InsertAt(@, i, f), !.sum = @ + 1,
              !.rows = InsertAt(@, Min({i, Len(@) + 1}), Rendered(f, FALSE))]

\* Only where the rows reach does the new file get one.
Add(l, f) ==
    LET i == InsertionIndex(l.files, f) IN
    [l EXCEPT !.files = InsertAt(@, i, f), !.sum = @ + 1,
              !.rows = IF i <= Len(@) + 1 THEN InsertAt(@, i, Rendered(f, FALSE)) ELSE @]

\* splice: one element is cut out if there is one.
Cut(s, i) == IF i \in DOMAIN s THEN RemoveAt(s, i) ELSE s

\* Mutant: that all are chosen is only known when one is added.
UnpickOne(l, id) ==
    LET left == {p \in l.picked : p.id # id} IN
    IF left = l.picked THEN l ELSE [l EXCEPT !.picked = left, !.tally = @ - 1]

Unpick(l, id) ==
    LET left == {p \in l.picked : p.id # id} IN
    IF left = l.picked THEN l
    ELSE [l EXCEPT !.picked = left, !.tally = @ - 1, !.all = l.tally - 1 = Len(l.files)]

\* The members of a set, the one with the smallest key first.
Ascending(S, key) ==
    CHOOSE q \in [1 .. Cardinality(S) -> S] : \A i, j \in DOMAIN q : i < j => key[q[i]] < key[q[j]]

\* What is left when every row of a file is removed.
Without(rows, name) ==
    LET left == Ascending({i \in DOMAIN rows : rows[i].name # name}, [i \in DOMAIN rows |-> i])
    IN [k \in DOMAIN left |-> rows[left[k]]]

\* Only a file that has a row is found.
RemoveFile(l, name) ==
    LET i == SelectInSeq(l.rows, LAMBDA r : r.name = name)
        rest == [Unpick(l, l.rows[i].id) EXCEPT
                   !.files = Cut(@, i), !.sum = @ - 1,
                   !.rows = Without(@, name)]
    IN IF i = 0 THEN l
       ELSE IF Len(rest.rows) < PageSize THEN NextPage(rest) ELSE rest

\* Mutant: a renamed file stays where it is.
UpdateRowInPlace(l, s, f) ==
    LET i == SelectInSeq(l.rows, LAMBDA r : s \in r.held) IN
    IF i = 0 THEN l ELSE [l EXCEPT !.files[i] = f, !.rows[i] = Rendered(f, FALSE)]

\* The index of a row that is no longer in the list is -1, and splice(-1, 1)
\* cuts the last file.
UpdateRow(l, s, f) ==
    LET i == SelectInSeq(l.rows, LAMBDA r : s \in r.held) IN
    [Add([l EXCEPT !.files = Cut(@, IF i = 0 THEN Len(@) ELSE i), !.rows = Cut(@, i)], f)
       EXCEPT !.sum = l.sum]

RowsNamed(l, names) == {i \in DOMAIN l.rows : l.rows[i].name \in names}

\* The row element the callback of a call has kept, if it is still there.
RowHeld(l, s) == {i \in DOMAIN l.rows : s \in l.rows[i].held}

\* showFileBusyState.
ShowBusy(l, is, state) ==
    [l EXCEPT !.rows = [i \in DOMAIN @ |-> IF i \in is THEN [@[i] EXCEPT !.busy = state] ELSE @[i]]]
-----------------------------------------------------------------------------
\* Calls under way.

None == [kind |-> "none"]

\* Fields of a record replaced or added.
With(new, old) ==
    [x \in DOMAIN new \union DOMAIN old |-> IF x \in DOMAIN new THEN new[x] ELSE old[x]]

FreeSlots(v) == {s \in Slots : v.calls[s] = None}
Send(v, call) == [v EXCEPT !.calls[Min(FreeSlots(v))] = With([st |-> "sent"], call)]
End(v, s) ==
    LET rows == v.list.rows IN
    [v EXCEPT !.calls[s] = None,
              !.list.rows = [i \in DOMAIN rows |-> [rows[i] EXCEPT !.held = @ \ {s}]]]

Quiet == FreeSlots(view) = Slots

\* Mutant: the old list stays in reach until the new one comes.
ReloadInSight(v, back) ==
    Send([v EXCEPT !.list.picked = {}, !.list.tally = 0, !.list.all = FALSE],
         [kind |-> "list", dir |-> v.cur, back |-> back])

\* reload, for a changeDirectory that will go back if it fails.
Reload(v, back) ==
    Send([v EXCEPT !.mask = TRUE, !.list.picked = {}, !.list.tally = 0, !.list.all = FALSE],
         [kind |-> "list", dir |-> v.cur, back |-> back])

\* Mutant: the directory to go back to is asked for too late.
ChangeDirectoryLate(v, dir) == IF v.cur = dir THEN v ELSE Reload([v EXCEPT !.cur = dir], dir)

ChangeDirectory(v, dir) == IF v.cur = dir THEN v ELSE Reload([v EXCEPT !.cur = dir], v.cur)
-----------------------------------------------------------------------------
\* What the calls under way may do to one another.

UnderWay(kinds) == {s \in Slots : view.calls[s].kind \in kinds}

Changes == UnderWay({"delete", "rename", "move", "create", "stat"})

About(c) == IF c.kind = "rename" THEN {c.name, c.to} ELSE {c.name}

Overlaps ==
    {t \in {"listings", "listing and change", "same file", "lost", "no row"} :
       CASE t = "listings" -> Cardinality(UnderWay({"list"})) > 1
         [] t = "listing and change" -> UnderWay({"list"}) # {} /\ Changes # {}
         [] t = "same file" ->
              \E s, o \in Changes : s # o /\ About(view.calls[s]) \cap About(view.calls[o]) # {}
         [] t = "lost" ->
              \E s \in Slots \ FreeSlots(view) :
                \/ view.calls[s].st = "lost"
                \/ view.calls[s].st = "refused"
                   /\ \/ view.calls[s].kind = "stat"
                      \/ view.calls[s].kind = "list" /\ view.calls[s].dir \notin Unlistable
         [] t = "no row" ->
              \E s \in UnderWay({"delete"}) :
                \A r \in Range(view.list.rows) : r.name # view.calls[s].name}

\* A listing asked for while nothing is under way starts anew.
History == troubles' = IF Quiet /\ UnderWay({"list"})' # {} THEN {} ELSE troubles \union Overlaps'

-----------------------------------------------------------------------------
\* What the user does.  The rows are hidden while the mask is shown; the bread
\* crumbs, the browser's buttons and the menu for new files are not.

Click(newview) ==
    /\ events < MaxEvents
    /\ events' = events + 1
    /\ view' = newview
    /\ History
    /\ UNCHANGED <<server, nextid, shown>>

Patient == Cardinality(Slots \ FreeSlots(view)) <= Patience

Open(d) == Patient /\ d # view.cur /\ Click(ChangeDirectory(view, d))

\* Back and forward (popstate) also load the directory that is shown.
Pop(d) == Patient /\ Click(Reload([view EXCEPT !.cur = d], view.cur))

Scroll ==
    /\ ~view.mask /\ Len(view.list.rows) < Len(view.list.files)
    /\ Click([view EXCEPT !.list = NextPage(@)])

PickRow(i) ==
    LET l == view.list
        r == l.rows[i]
        add == l.picked \union {[id |-> r.id, name |-> r.name]}
        m == [l EXCEPT !.rows[i].picked = ~@]
    IN /\ ~view.mask
       /\ Click([view EXCEPT !.list =
            IF r.picked THEN Unpick(m, r.id)
            ELSE IF \E p \in l.picked : p.id = r.id THEN m
            ELSE [m EXCEPT !.picked = add, !.tally = @ + 1, !.all = l.tally + 1 = Len(l.files)]])

PickAll ==
    LET l == view.list IN
    /\ ~view.mask /\ l.files # <<>>
    /\ Click([view EXCEPT !.list =
         [l EXCEPT !.all = ~@,
                   !.rows = [i \in DOMAIN @ |-> [@[i] EXCEPT !.picked = ~l.all]],
                   !.picked = IF l.all THEN {} ELSE Range(l.files),
                   !.tally = IF l.all THEN 0 ELSE Len(l.files)]])

\* do_delete: a call for each of the files.
DeleteFiles(names) ==
    LET busy == ShowBusy(view.list, RowsNamed(view.list, names), TRUE)
        ways == Injection(names, FreeSlots(view))
        slot == CHOOSE way \in ways : TRUE
        call(n) == [kind |-> "delete", dir |-> view.cur, name |-> n, batch |-> names, st |-> "sent"]
    IN /\ ways # {}
       /\ Click([view EXCEPT !.list = busy,
                   !.calls = [s \in Slots |-> IF s \in Range(slot)
                                                THEN call(CHOOSE n \in names : slot[n] = s) ELSE @[s]]])

ChosenNames ==
    LET l == view.list IN
    IF l.all THEN {f.name : f \in Range(l.files)} ELSE {p.name : p \in l.picked}

DeleteSelected ==
    /\ ~view.mask /\ view.list.picked # {}
    /\ Patient /\ DeleteFiles(ChosenNames)

DeleteRow(i) == ~view.mask /\ Patient /\ DeleteFiles({view.list.rows[i].name})

Hold(v, i, s) == [v EXCEPT !.list.rows[i].held = @ \union {s}, !.list.rows[i].busy = TRUE]

\* A row is not renamed again while that is under way.
RenameRow(i, to) ==
    LET l == view.list
        r == l.rows[i]
    IN /\ ~view.mask /\ Patient
       /\ i <= Len(l.files) /\ r.held = {}
       /\ \A f \in Range(l.files) : f.name # to
       /\ Click(Send([Hold(view, i, Min(FreeSlots(view))) EXCEPT !.list.rows[i].name = to],
                     [kind |-> "rename", dir |-> view.cur, old |-> l.files[i], name |-> r.name, to |-> to]))

MoveRow(i, d) ==
    /\ ~view.mask /\ Patient /\ d # view.cur
    /\ Click(Send(Hold(view, i, Min(FreeSlots(view))),
                  [kind |-> "move", dir |-> view.cur, name |-> view.list.rows[i].name, to |-> d]))

Create(n) ==
    /\ Patient
    /\ \A f \in Range(view.list.files) : f.name # n
    /\ \A r \in Range(view.list.rows) : r.name # n
    /\ Click(Send(view, [kind |-> "create", dir |-> view.cur, name |-> n]))
-----------------------------------------------------------------------------
\* The server carries out a call (its answer is then on the way), refuses it,
\* or the connection is lost before or after.

In(d, n) == {f \in server[d] : f.name = n}

Answered(s, outcome) == view' = [view EXCEPT !.calls[s] = With(outcome, @)]

Verdict(c) ==
    CASE c.kind = "list" -> IF c.dir \in Unlistable THEN "refused" ELSE "ok"
      [] c.kind \in {"delete", "stat"} -> IF In(c.dir, c.name) = {} THEN "gone" ELSE "ok"
      [] c.kind \in {"rename", "move"} ->
           LET d == IF c.kind = "move" THEN c.to ELSE c.dir
               n == IF c.kind = "move" THEN c.name ELSE c.to
           IN IF In(c.dir, c.name) = {} THEN "gone" ELSE IF In(d, n) # {} THEN "taken" ELSE "ok"
      [] c.kind = "create" -> "ok"

CarriedOut(c) ==
    LET f == CHOOSE g \in In(c.dir, c.name) : TRUE IN
    CASE c.kind = "delete" -> [server EXCEPT ![c.dir] = @ \ In(c.dir, c.name)]
      [] c.kind = "rename" -> [server EXCEPT ![c.dir] = (@ \ {f}) \union {[f EXCEPT !.name = c.to]}]
      [] c.kind = "move" -> [server EXCEPT ![c.dir] = @ \ {f}, ![c.to] = @ \union {f}]
      [] c.kind = "create" /\ In(c.dir, c.name) = {} ->
           [server EXCEPT ![c.dir] = @ \union {[id |-> nextid, name |-> c.name]}]
      [] OTHER -> server

Found(c) == IF c.kind = "list" THEN server[c.dir] ELSE In(c.dir, c.name)

Serve(s) ==
    LET c == view.calls[s] IN
    /\ c # None /\ c.st = "sent"
    /\ server' = IF Verdict(c) = "ok" THEN CarriedOut(c) ELSE server
    /\ nextid' = IF server' # server /\ c.kind = "create" THEN nextid + 1 ELSE nextid
    /\ Answered(s, [st |-> Verdict(c), found |-> Found(c)])
    /\ History
    /\ UNCHANGED <<shown, events>>

Fault(s) ==
    LET c == view.calls[s] IN
    /\ c # None /\ events < MaxEvents
    /\ events' = events + 1
    /\ \/ c.st = "sent" /\ \E st \in {"refused", "lost"} : Answered(s, [st |-> st, found |-> {}])
       \/ c.st = "ok" /\ Answered(s, [st |-> "lost"])
    /\ History
    /\ UNCHANGED <<server, nextid, shown>>
-----------------------------------------------------------------------------
\* The callbacks.

Callback(s, kind, newview) ==
    /\ view.calls[s].kind = kind /\ view.calls[s].st # "sent"
    /\ FreeSlots(view) # {}
    /\ view' = newview
    /\ History
    /\ UNCHANGED <<server, nextid, events>>

Sorted(files) == Ascending(files, [f \in files |-> f.name])

\* reloadCallback, and the one of changeDirectory.  A lost connection counts as
\* a call that was aborted.
ListCallback(s) ==
    LET c == view.calls[s]
        v == [End(view, s) EXCEPT !.mask = FALSE]
    IN /\ Callback(s, "list",
            CASE c.st = "ok" -> [v EXCEPT !.list = SetFiles(@, Sorted(c.found))]
              [] c.st = "lost" -> v
              [] OTHER -> ChangeDirectory(ChangeDirectory(v, Root), c.back))
       /\ shown' = IF c.st = "ok" THEN c.dir ELSE shown

\* Mutant: the summary is updated by remove and once more after it.
DeleteCallbackCountsTwice(s) ==
    LET c == view.calls[s]
        l == RemoveFile(view.list, c.name)
    IN /\ Callback(s, "delete",
            [End(view, s) EXCEPT !.list =
               IF c.st \in {"ok", "gone"} THEN [l EXCEPT !.sum = @ + @ - view.list.sum]
               ELSE ShowBusy(@, RowsNamed(@, c.batch), FALSE)])
       /\ UNCHANGED shown

DeleteCallback(s) ==
    LET c == view.calls[s] IN
    /\ Callback(s, "delete",
         [End(view, s) EXCEPT !.list =
            IF c.st \in {"ok", "gone"} THEN RemoveFile(@, c.name)
            ELSE ShowBusy(@, RowsNamed(@, c.batch), FALSE)])
    /\ UNCHANGED shown

RenameCallback(s) ==
    LET c == view.calls[s]
        l == CASE c.st = "ok" -> UpdateRow(view.list, s, [c.old EXCEPT !.name = c.to])
               [] c.st = "gone" -> RemoveFile(view.list, c.to)
               [] OTHER -> UpdateRow(view.list, s, c.old)
    IN /\ Callback(s, "rename", End([view EXCEPT !.list = l], s))
       /\ UNCHANGED shown

\* Mutant: done instead of always.
MoveCallbackDone(s) ==
    LET c == view.calls[s]
        l == IF c.st = "ok" /\ view.cur = c.dir THEN RemoveFile(view.list, c.name) ELSE view.list
    IN /\ Callback(s, "move", End([view EXCEPT !.list = l], s))
       /\ UNCHANGED shown

MoveCallback(s) ==
    LET c == view.calls[s]
        l == IF c.st = "ok" /\ view.cur = c.dir THEN RemoveFile(view.list, c.name) ELSE view.list
    IN /\ Callback(s, "move",
            End([view EXCEPT !.list = ShowBusy(l, RowHeld(l, s), FALSE)], s))
       /\ UNCHANGED shown

CreateCallback(s) ==
    LET c == view.calls[s] IN
    /\ Callback(s, "create",
         IF c.st = "ok" THEN Send(End(view, s), [kind |-> "stat", dir |-> c.dir, name |-> c.name])
         ELSE End(view, s))
    /\ UNCHANGED shown

StatCallback(s) ==
    LET c == view.calls[s] IN
    /\ Callback(s, "stat",
         [End(view, s) EXCEPT !.list =
            IF c.st = "ok" THEN Add(@, CHOOSE f \in c.found : TRUE) ELSE @])
    /\ UNCHANGED shown

Step(s) == \/ Serve(s) \/ ListCallback(s) \/ DeleteCallback(s) \/ RenameCallback(s)
           \/ MoveCallback(s) \/ CreateCallback(s) \/ StatCallback(s)

Rows == DOMAIN view.list.rows

User == \/ Scroll \/ PickAll \/ DeleteSelected
        \/ \E d \in Dirs : Open(d) \/ Pop(d)
        \/ \E n \in Names : Create(n)
        \/ \E i \in Rows : \/ PickRow(i) \/ DeleteRow(i)
                           \/ \E n \in Names : RenameRow(i, n)
                           \/ \E d \in Dirs : MoveRow(i, d)

Rest == Quiet /\ UNCHANGED vars

Next == User \/ Rest \/ \E s \in Slots : Step(s) \/ Fault(s)
-----------------------------------------------------------------------------
\* The page asks for the directory its address names.
Init ==
    /\ server = FirstFiles /\ nextid = FirstId
    /\ \E d \in Dirs :
         /\ shown = d
         /\ view = Reload([cur |-> d, mask |-> FALSE, calls |-> [s \in Slots |-> None],
                           list |-> [files |-> <<>>, rows |-> <<>>, sum |-> 0,
                                     picked |-> {}, tally |-> 0, all |-> FALSE]],
                          Root)
    /\ troubles = {} /\ events = 0

\* As long as there are calls under way one of them is answered in the end, if
\* only by the browser, and its callback runs.
Fairness == WF_vars(\E s \in Slots : Step(s))

Spec == Init /\ [][Next]_vars /\ Fairness
-----------------------------------------------------------------------------
\* A user who has seen everything answered finds no row marked as busy, whatever
\* overlapped, failed or was lost.
IdleIsNotBusy == Quiet => \A i \in Rows : ~view.list.rows[i].busy

\* When everything is answered the list shows the files its directory has, in
\* their order, unless since it was last loaded alone two listings, a listing
\* and a change, or two changes of one file overlapped, a call was lost, or a
\* file without a row was deleted.  Changes of different files may overlap, and
\* a directory that cannot be listed takes the user back without any harm.
Fresh == Quiet /\ troubles = {} => shown = view.cur /\ view.list.files = Sorted(server[view.cur])

\* Every row that can be clicked stands for the file at its place in the list,
\* which is what renaming and removing rely on.
RowsMatch ==
    troubles = {} /\ ~view.mask =>
      \A i \in Rows : i <= Len(view.list.files) /\ view.list.rows[i].id = view.list.files[i].id

\* The summary, which is counted up and down by the callbacks, is the number of
\* files in the list.
SumIsTotal == troubles = {} /\ ~view.mask => view.list.sum = Len(view.list.files)

\* Files that can be clicked are of the directory the window names, to which
\* deletions and moves will be sent, unless two listings were under way at once
\* or one was lost.
UnmaskedIsShown == ~view.mask /\ troubles \cap {"listings", "lost"} = {} => shown = view.cur

\* If all files are said to be chosen, which makes "delete" delete all of them,
\* then each of them is: only a new file that is added later can be missed.
AllIsAll == view.list.all => \A f \in Range(view.list.files) : \E p \in view.list.picked : p.id = f.id
AllButNew == [][troubles' = {} /\ AllIsAll /\ ~AllIsAll' => \E s \in Slots : StatCallback(s)]_vars

\* The calls a user has started come to an end if each is answered: a listing
\* that fails does not call up others for ever.
Quiets == []<>Quiet
=============================================================================
