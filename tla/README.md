# A verification project for gowncloud

gowncloud is a WebDAV file store with the web client of ownCloud. It keeps the
names of all files in the tables of a CockroachDB database and the files
themselves in a directory tree. Most of what can go wrong in it comes from that
division: every operation on a file changes rows one statement at a time,
without a transaction, and then changes the tree by one system call. Nothing is
undone when a later step fails, and any number of requests are served at once.
The web client is the other half: it keeps a list of files, a queue of uploads
and an editor, all of which are changed by the answers to calls that come in any
order, whatever the window shows by then.

This directory holds TLA+ modules that model those operations statement by
statement, TLC configurations that check them on small homes, and theorems
checked by TLAPS. `PROJECT.json` maps every definition to the lines it models
and lists the runs, mutants, hazards, findings and theorems.

    tlc -config Gowncloud_trash.cfg MCGowncloud.tla     # one run
    tlapm HomeDirProofs.tla                             # one module's proofs

## The system

| Component | State | Operations | Module |
|---|---|---|---|
| First-login provisioning (`ensurehomedirectorymiddleware.go`, `MakeUserHomeDirectory`, `CreateUser`) | row of the user, three rows and three directories of the home | PROPFIND of a user without a home | `HomeDir`, abstractly `HomeLifecycle` |
| Paths (`LIKE`, `strings.Replace`, `TrimLeft`) | none | matching and rewriting | `Paths` |
| Tables and tree (`database/*.go`, DAV root) | `nodes`, `trashnodes`, `shares`, `favorites`, the tree | statements and system calls, `DeleteNode`, failure, crash | `Storage` |
| WebDAV adapters and library (`apps/dav`) | temporary locks | PUT, MKCOL, MOVE, DELETE | `Dav` |
| Trash bin (`apps/files_trashbin`) | the tables above | UNDELETE, PURGE | `Trashbin` |
| Shares and favorites (`apps/files_sharing`, `favorite.go`) | the tables above | SHARE, UNSHARE, FAVORITE, UNFAVORITE | `Sharing` |
| Upload form (`apps/files/ajax/upload.go`) | the tables above | UPLOAD of a file, UPDIR of a file with its directories | `Upload` |
| All of them together | | | `Gowncloud` |
| Home listing (`propfindadapter.go`) | none | PROPFIND of the home | `Listing` |
| Settings and start-up (`settings.go`, `main.go`) | table `settings` and its map, the library's root | start, stop | `Settings` |
| Text editor, server side (`apps/files_texteditor`) | modification time of a file | load, save | `Editor` |
| File list of the web client (`filelist.js`, `filesummary.js`) | directory, files and rows, selection, summaries, mask, calls under way | change directory, scroll, select, delete, rename, move, create, and a callback for each call | `FileList` |
| Uploads of the web client (`file-upload.js`, `jquery.fileupload.js`, `oc-dialogs.js`) | uploads, queue, dialog, counter of a folder row | choose, answer the dialog, cancel, change directory, `done`, `fail` | `UploadQueue` |
| Editor window of the web client (`editor.js`) | the file record, the text, autosave timers, handlers | open, type, save, autosave, close, resume, and their callbacks | `EditorWindow` |

The components of the server meet in the tables and the tree; there are no
messages and no callbacks except the visits of `filepath.Walk`. Client and
server meet in calls: each client module has the calls under way as state, with
a step of the server, the loss of request or answer, and the callback as steps
of their own. What the server does in that step is what the client can tell of
it; how it does it is in the modules of the server. A WebDAV request goes to an adapter
that resolves its path and changes the tables, then to the vendored webdav
library, which takes a temporary lock and changes the tree. Only a PROPFIND passes
the middleware of provisioning before its adapter (`customocdav.go:68`). The other
handlers change tables and tree themselves and take no lock. `Storage` starts
with each home as far as its first login got: with all of it, or without what a
login that was given up has not made.

What is hard here:

- a tree of rows is rewritten one by one while the tree on disk is walked, and
  the disk is changed by one rename afterwards: both must come to the same;
- where a row goes is found by comparing texts: `LIKE path || '%'`, the tail of
  a path, `strings.Replace` of the first occurrence;
- two requests interleave between tables and disk, or between two looks at a row;
- any statement may fail, and some failures are logged and passed over;
- the server may die between any two statements;
- an answer reaches a window that has since turned to another directory or
  file, and callbacks read the one list, the one directory and the one file
  record there is.

What makes each part correct: a home is built once and in order; tables and tree
describe the same files between requests; whatever is in the trash can be
restored; homes themselves are never lost; rows belong to the user in whose home
they lie; walks end; every home can be listed; shares are removed, not
trashed, by those they are for; handlers and library use one directory; a save
notices what others wrote; what a user can click is what the server has; a file
is not overwritten without a question; a text is stored under its own name, or
the user learns that it is not.

## The modules

**`HomeDir`** has one variable for the seven things that make a home (`made`),
and where each login is. `Check` is the middleware's question for the row of the
home, `Make` and `Refused` one INSERT or mkdir that succeeds or finds the thing
made, `Fault` a failing step (a row may be there all the same: `CreateUser` and
`SaveNode` read it back after the INSERT), `Crash` the end of the server.
`HomeLifecycle` is what this promises: absent, building, ready or abandoned,
and a home abandoned is so for good. It is not a recommendation: the code never
completes a half-built home, because the middleware takes the row of the home
for the home and `CreateUser` refuses an existing user. `HomeDir` is shown to
implement it under the refinement mapping `home`.

**`Paths`**: a path is a user, an area (`files` or `files_trash`) and a
sequence of names. A name is an atom. What the code sees of its letters is
given by relations among names: `StartsWith` and `EndsWith` for `LIKE`,
`TrimmedAway` and `EndsTrimmed` for `strings.TrimLeft(path,
"/remote.php/webdav/")`, which takes its argument for a set of letters, and
`FilesPrefix` for names that are the beginning of `files`. `garbled` is the
area of a path which a replacement has cut in a wrong place. No row and no
directory is above a garbled path: what the code does in a directory beside the
homes is left out. Names that collide with a user's name or the name of the
data directory are left out, and the test whether a path is the root of a
share, `strings.HasSuffix` in the code, is equality.

**`Storage`** has the tables and the tree as sets of records, `req` with the
control state and local variables of each request, and the two ghosts and
counters named below. It defines what statements and system calls do
(`Inserted`, `CanUpdate`, `CanRename`, `Renamed`), how paths are resolved in
one's own files and in shares (`Resolve`, `AjaxResolve`), the walk
(`NextVisits`, `Visited`), `DeleteNode` with its four statements, and failing:
`Fault` ends a request at any step as its handler does (two statements of
`DeleteNode` and the walk of UNDELETE only go on), `Crash` ends them all. `torn`
is a ghost that says that some request, or a first login, has failed after it had
written.

**`Dav`, `Trashbin`, `Sharing`, `Upload`** each have one action per statement or
system call of a handler; reads that directly precede it, and checks of values
only the request knows, belong to the same action. A `\E` over `Resolve`
is a query that returns its rows in no order. A walk is a loop of `*Look` (the
next entry and the row read for it) and the statements of the visit. The library
is `DavLock`, `DavTarget` (an existing target of a MOVE is removed first) and
the system call. A request for several nodes or files is modelled as several
requests, which is what the handlers' loops amount to.

**`Gowncloud`** composes them: `Start` is any client request, `Step` the next
step of a handler. **`Listing`** adds which nodes the listing of a home names
and when it fails.

**`Settings`** is `main.go` up to the moment the server serves: load or make the
defaults, choose the directory, update directory and version. `Stop` may come
at any moment. `used` is a ghost: the directories of earlier starts.
**`Editor`** is one file, of which only the modification time is modelled, with
windows that load and save it and others that write it. `late` is a ghost: when
others wrote since a window was last told the time.

**`FileList`** is one window. `view` has its directory, the list, the mask and the
calls under way by slot; the list has all `files` of the directory, the `rows`
rendered so far, what is chosen by id (`picked`), whether all are (`all`), and
the two counts that the code keeps beside them (`sum`, `tally`). A row is what
the DOM holds: a callback that keeps a row keeps it after `setFiles` has thrown
it away, which is `held` losing the slot. `server` is the files each directory
has. `Serve` carries a call out, `Fault` loses it or has it refused. `shown` and
`troubles` are ghosts: the directory last rendered, and what overlapped since
the list was asked for alone.

**`UploadQueue`** has in `win` the directory and list on screen, the dialog, all
uploads with what became of them, the sequential queue of the plugin and the
state of the request at its head (`wire`). `Choose` is a whole selection: the
`add` handler for each file and `checkExistingFiles` for all. The directory an
upload goes to is fixed only when it is submitted (`SubmitAll`); what is
submitted at once goes in the order it was chosen in (`Ascending`). Requests that were
aborted may still reach the server (`orphans`). Ghosts are `slips` (the counter of
the folder row may be wrong), `troubles` (something went on that no answer told)
and, of each upload, the list it was chosen from, the user's answer, and whether
a file of its name was on its way when it was chosen (`twin`, `Expected`).

**`EditorWindow`** has in `win` the record of the file (`name`, `of`, `time`,
`edited`: the name, and the file whose time is on record), the text in ace, what
is in the container and whether it is displayed, how many handlers wait for a
click, and the sessions whose autosave timer runs. A text is the file it was
loaded from and the number of the user's last change. `ServeSave` writes it over
what is there without emptying the file, as `savefile.go:73` does: whether it
covers what is there, or leaves the end of a longer text behind it, is open
(`Written`). `typed`, `saved` (the last change stored and nothing beside it),
`overhung` (the last one stored with such an end behind it), `warned` (of which
files the user was told, since he last changed them, that they were not stored)
and `troubles` are ghosts.

`MC*` modules give TLC its values; `*Proofs` modules hold the theorems.

Operators marked "Mutant" in the modules are used by no specification. Each is a
variant of the definition after it with a plausible mistake, and shows that the
properties of a run are violated by code that makes it.

## The runs

| Run | What is in it | What it checks |
|---|---|---|
| `home_logins` | 3 logins of a new user, 2 faults or crashes | `TypeOK`, `OneBuilder`, `MadeInOrder`, `BuilderUnopposed`, refinement of `HomeLifecycle`, `Answered`, `FirstLoginBuilds` |
| `store_sequence` | 1 user, 2 names, all paths two deep, any 5 of PUT, MKCOL, MOVE, DELETE, PURGE one after the other | `SyncUnlessTorn`, `TrashRestorable` |
| `store_trash` | 1 user, paths `a`, `b`, `a/b`, any 6 of these and UNDELETE one after the other | the same |
| `store_concurrent` | 2 users, one of whom has no trash because his first login was given up, a shared directory, one name the beginning of the other, any 2 requests of all kinds at once, one fault or crash | `TypeOK`, `HomesIntact`, `OwnerGoesAlong`, `Answered` |
| `store_create` | 3 requests at once that create (PUT, MKCOL, UPLOAD, UPDIR), paths up to three deep, one fault or crash | `SyncUnlessTorn`, `MadeTopDown` |
| `listing_sharing` | 2 users in one group, paths `a`, `b`, `a/b` and one of three names, any 5 of MOVE, DELETE, UNDELETE, PURGE, SHARE, UNSHARE, FAVORITE, UNFAVORITE one after the other | `HomesListable`, `FavoriteIdentifies`, `JustUnshared` |
| `settings_starts` | 3 starts with any flag, one cut short, one failing statement | `KnownRootServed`, `PreviousUsed` |
| `editor_windows` | 3 windows, other writers, 4 seconds | `CheckSeesOtherSeconds`, `NoSpuriousRefusal` |
| `file_list` | 3 directories, one not listable, 2 files and 1, a page of one row, 3 things the user does or that fail, the second while the first is under way | `IdleIsNotBusy`, `Fresh`, `RowsMatch`, `SumIsTotal`, `UnmaskedIsShown`, `AllButNew`, `Quiets` |
| `upload_queue` | 2 directories, 3 files chosen one or two at a time, 2 of: cancel, escape, change of directory, lost call, other client | `RefusedWhole`, `StoredIsListed`, `CounterRight`, `OverwritesAsked`, `Drains` |
| `editor_saves` | 2 files (symmetric), 2 changes of the text, 2 calls under way, 2 seconds, 3 of: open, other writer, lost call | `OneFile`, `KeptOrWarned`, `TextGoesHome`, `RefusedForOthers` |

One run shows what a comment of the code says and the code does not do:

| Run | Refutes | How |
|---|---|---|
| `walkerror` | "Failed to restore node structure" ends an UNDELETE (`undeletetrash.go:96`) | `err` is declared anew inside the closure; a file is trashed, another one takes its path, the first is restored: a 500 is written, and the rename replaces the second file with the first |

### Bounds

A home in these runs has one directory with one file in it, two names and paths
two or three deep. That is enough for what the code distinguishes: a node, its
parent, its child and its sibling; a name that occurs twice in a path; a lost
parent and one that has been made again; a trash that holds two nodes that were
siblings, parent and child, or had the same path. Five or six requests are
enough to trash, re-create, trash again, restore and purge. The interleavings
that matter need two requests, for creation three. `MaxFaults = 1` allows a
fault at each step of each of them. `MaxStarts` bounds `starts`, `MaxFaults`
bounds `faults`; nothing else is cut off. `Rest` lets a run end when all is
answered, so that every other state without a successor is an error. Only
`settings_starts` does not check deadlock: the server really stops
after its last start.

In the client, `MaxEvents` bounds what the user does and what fails or intrudes
(each module says which), `Patience` in `file_list` how much is under way when
the user goes on, `Slots` the calls at once (one deletion may be several),
`MaxUploads`, `MaxTyped` and `MaxTime` what their names say. Two calls overlap in
`file_list`, each with an answer that comes before or after the other's; a page
of one row makes a list of two files longer than what is rendered; three uploads
are a queue with a head, one that waits and one that is asked about; two calls
of the editor are a save and a load or another save.

The premises say where a property stops:

- `~torn`: no request and no first login has failed after it wrote. Such a failure
  is answered with an error, and nothing in the code repairs what it leaves.
- `Quiet`: no request is in progress.
- `TrashKnown` in `HomesListable`: no node has been moved out of the trash
  through a share (see below).
- `troubles` in the client: what overlapped. The properties hold as long as the
  overlaps each of them names do not happen, and they are stated with as few of
  them as possible: changes of different files may overlap, calls may fail, a
  timer may run out after the next file was opened. What happens in the other
  cases is in the observations.
- `slips` in `CounterRight`: a refused, failed or skipped upload has left its
  number on the row, which lasts until the queue is empty.
- sequential runs of one user with names none of which begins another: in
  others `SyncUnlessTorn` does not hold (see below).

### Fairness

`Fairness` is weak fairness of the next step of each handler, in `HomeDir` and
`Gowncloud`. net/http serves each request in a goroutine of its own; a handler
waits for nothing but the database and the disk, and the library refuses a
locked path at once instead of waiting. Nothing obliges clients to send
requests, faults to happen or the server to crash.

In `FileList` the next step of any of the calls under way is fair: one of them
is answered, if only by the browser's timeout, and its callback runs. `Quiets`
then says that callbacks do not call up calls for ever, which a listing that
fails could do. In `UploadQueue` fairness is that of the request at the head of
the queue. Users, timers, losses and other clients are never obliged to
anything. The other specifications have no liveness properties.

## The theorems

All of them hold for any values of the constants.

**`HomeDirProofs`.** `OneBuilder` is not inductive by itself: one must know that
the user row is there as soon as anyone builds, and that whoever builds has made
all before its step and nothing from it on. `IInv == TypeOK /\ OneBuilder /\
MadeInOrder /\ Frontier` is inductive, and gives `OneBuilderAlways`,
`MadeInOrderAlways` and `BuilderUnopposedAlways`, with any number of logins and
faults. `Refines` uses it as well: under it each step is a step of
`HomeLifecycle` or a stutter: since a builder is never opposed, only a fault or a
crash can abandon a home.

**`SettingsProofs`.** `KnownRootAlways`: from the moment the directory is chosen,
`settings["davroot"]` is unset or the root of the library. What has to be carried
along is that map and table stay maps of the three keys (`Maps`).
`PreviousUsedAlways` needs to know more, where a start is: that nothing is stored
before the defaults are (`Fresh`), that map, root and table pass the directory on
to one another (`Carried`), and that what is stored was used (`StoredIsUsed`).
The last of these is what makes the invariant survive a crash between choosing a
directory and storing it. It holds until a statement fails.

**`EditorProofs`.** What others wrote since a window was told the time lies
between that time and the time of the file (`Bracketed`), and if they wrote
nothing the two are equal unless the window has just written itself
(`InTouch`). From these, `ChecksAlways` and `RefusalsAlways`.

**`StorageProofs`** is about `Gowncloud`'s `Spec`: all operations together, any
number of requests, faults and crashes, any tree that is sound at first. Homes
need not be complete. Each theorem, and each of `AloneProofs`, has the
hypothesis `RootsUnnamed`: no client names the root of a home itself. The web
client offers no operation on it, but no handler refuses one, and without the
hypothesis the theorems are not true of the code (observation 38). `HomesStay`
says that the rows and directories there were at first of homes and trashes stay
whatever else happens. `HomesIntact` is not inductive: a request that had a home
in its hands would move or remove it. What has to be carried along is that no
request ever has one (`RequestsProper`: what it works on, its destination, what
its walk has still to visit and the rows it has read all lie below a home), and
that no trash row leads to one (`OriginsInner`), since a restore takes its
destination from there. Types are needed as well, so that `IInv == TypeOK /\
HomesIntact /\ RequestsProper /\ OriginsInner`, and `TypeCorrect` comes with it.
The proof has one lemma per action; the two that carry it are `HomeIsNotUnder`
(neither `LIKE path || '%'` nor a rename reaches a home from below it) and
`SlotFound`. `SearchEnds` follows: where the owner's trash had its row at first
(`TrashRowed`), DELETE's search in the trash ends at the trash itself at the
latest (`SlotsFound`). Without that row it slices beyond its names and panics,
which is a step of the model too (`DeleteSlot`, observation 39). The module
begins with the lemmas on paths: a parent, a child, a rebased path and one with
a text cut out of it are paths again, and of any numbers there is a smallest
(from well-foundedness, for the searches).

Its second part, `OwnersAlong`, says that every step from a state where owners
and paths agree leads to one, unless it is the UPDATE of a restore. The
difficult step is the UPDATE of DELETE, which moves whatever row has the path by
now to the trash of the owner it has read before. So `OwnerIsPathHead` includes
the rows that requests have read (without them the property is false: the row
read may be of an owner that differs from the present one's), and `AllCareful`
is carried along: the row read and the slot found belong together. For all other
steps `Apart` says that they read nothing that is not in the table.

Its third part shows `RowsUniqueAlways`: no two rows have an id or a path in
common, and ids stay below the next (`RowsUnique`). The fourth is about clients
that only create, by PUT, MKCOL and both uploads (`OnlyCreating`), any number of
them at once, with any faults and crashes. The premise is one on `Ops`, not on
the state: with MOVE or DELETE both properties fail (observation 6): the parent
may go while a child is being made.

*`MadeTopDownAlways`*: the directory UPDIR makes next has its parent, on the
disk or in the hands of a request. By itself that is not inductive. `TopDown`
says in addition that a request is on the course of its operation (`Straight`),
that what it has made is there (`Made`), that the directories it has still to
make are a ladder whose foot stands or is about to (`Ladder`), and that every row
has its entry or somebody about to bring it (`RowsCome`): UPDIR stops climbing
where it finds a row. For each action, `Onward` says what it does for
the request that takes it and does not undo for the others.

*`SyncWhileCreating`* is `SyncUnlessTorn` under `OnlyCreating` and, because of
observation 1, `NoPrefixes`: no name is the beginning of another. One half is
`RowsCome` with nobody coming. The other is `Together`: every entry has a row or
somebody who owes it one (`Accounted`). A request owes a row between its system
call and its INSERT. The difficult case is PUT, which deletes the rows of all
that is in the place of its file, and is refused by the disk if there was a
directory: then it owes the rows it took, and may not end well. So `Owes`
includes these, and an entry somebody is about to bring that has neither a row
nor a debtor must be `Hopeless`: something else is in its place or a file above
it, so that the system call will fail. This needs that the disk stays a tree
(`DiskTree`), which `LIKE` of a path finds the inside of (`LikeIsWithin`).
`InStep` is `DiskTree` and, until a request fails after it wrote, `Together`;
each action has a lemma that it is `Bearing`, which is what keeps `Together`.

**`AloneProofs`** is about requests that come one after the other
(`OneAtATime`), any number of them, of all kinds, with any faults and crashes.
The premise is needed: two requests at once lose each of these properties
(observations 6, 7 and 11). A request is on the course of its operation
(`Routes`), which by itself takes half of the cases away.

*`FavoriteIdentifiesAlways`*: nothing changes between the look and the use of the
path, so that what must be carried along is where the path came from (`Named`).
The premise `NamesKept` is that trimming leaves all names alone; paths may be of any
length. The property itself leaves out the paths of three names or more whose
directory WebDAV finds in a share (`OnlyWebdavFinds`): `favorite.go` looks for the
first name only, and really finds something else there (observation 40).

*`JustUnsharedAlone`*: while a DELETE that goes on to the trash looks at the path
of another user, the path is no root of a share (`Tested`). The premises are that
no name ends with another (`EndsWith = {}`) and that no two nodes have the same
one (`NamesApart`); the second is a premise on the states, since clients may
choose any name.

*`TrashRestorableAlone`*: a node is in the trash if and only if it has a trash row.
In the course of a request the two part and meet again in ways that depend on
where it is (`TrashBooks`): DELETE writes the trash row first and PURGE takes it
first, UNDELETE moves the row first. To follow that one must know
which side everything a request holds is on (`InPlace`), that it has read the row
it moves (`HasRead`), that trash rows lead back to files (`FromFiles`) and that
there is one per node and per path (`OneTrashRow`). `TrashGood` is the
conjunction. It assumes that nothing is shared (`AloneAtFirst`), because of
observation 7.

**`UploadQueueProofs`** proves the four safety properties from one invariant.
Beyond types: what is queued is queued once, is in state `queued`, and is what
`wire` is about (`Queued`); selections and rows have numbers not above the last
(`Numbered`); no question is open about an upload the counter has counted
(`Counted`); what is in the directory and not in the list is in the answer under
way or went to a folder (`Listed`); and of an upload nobody was asked about
nothing is there yet, nor is it before it in the queue (`Untaken`).

**`EditorWindowProofs`** does the same for the editor. `KeptOrWarned` says
exactly what is kept: the last text is stored alone, or over a longer one whose
end is left behind it (`overhung`, observation 16), or the user was told that it
is not. Each property has its own premise on `troubles`, so that the invariant
is a ladder of implications, each on fewer troubles than the one before: what is
on screen is of one file (`Apart`); what is under way is about it (`OnTopic`);
saves come one at a time and nobody forgets a text that is not stored
(`OneAtATime`, `Remembered`); the time on record, or in the answer under way, is
that of the file (`InTouch`). There is no bound on calls, changes or seconds in
them.

**`FileListProofs`** has `UnmaskedIsShownAlways`. The property is not inductive: a
listing under way could show another directory than the one named by then. As
long as listings neither overlap nor get lost, `Loading` holds: there is at most
one, it is for the directory named, the mask is shown while it is under way, and
it is refused only where it has to be. Going back after a refusal asks for two
lists at once if the directory gone back to is not the root, which is an overlap;
the proof of `GoBack` is about that. All other calls are `Calm`. It assumes that a
patient user leaves a slot free (`Patience < Cardinality(Slots)`).

The second theorem, `IdleIsNotBusyAlways`, needs no premise on what overlaps. Its
invariant (`RowsHeld`) says why a mark is taken off in the end: a row that is
marked is held by a renaming or a move under way, or named by a deletion under
way; no call holds two rows; and a row held by a renaming has the new name, which
is how `remove` finds it when the file turns out to be gone (`Holding`). Every
operation on the rows either keeps them or puts in rows no call has to do with
(`Stem`). The lemmas before it say what `splice`, `slice` and the sorting of
`Ascending` come to for any sequence, and type the window (`Window`) and the
server (`Served`), of which it is assumed that at first a directory has one file
of a name and no id is given twice (`FirstFilesAssumption`).

`RowsMatchAlways` and `SumIsTotalAlways` are about a list while nothing has gone
wrong (`troubles = {}`). Their invariant is `SInv` (`SoundAlways`): a listing is
under way alone; no two calls are about one file (`Disjoint`); and when no listing
is under way the list is `Sound`: it is in order, a row has the id of the file at
its place and its name too unless it is held by a renaming, the summary is the
number of files, and what a call is about is where it was when the call was sent
(`Meant`: a row held by a renaming stands for the old file, and no file has the new
name). Every callback takes out files and puts in others that its call is about
(`Settles`, `Turns`), so that the other calls keep what they mean (`SettledSound`).
The operations on the list were brought into the form `Turns` before: a row is cut
out with its file (`Kin`), a new file goes where the order wants it.

`FreshAlways` adds the server: when all is answered, the list is the directory, in
its order. In between the two differ, and the invariant, `FInv` (`AlignedAlways`),
says by how much. They have the same files of every name that no call under way is
about (`InStep`), and a call tells of the names it is about how they stand
(`Tells`): while it is under way or refused list and directory agree on them; once
a deletion, a move or a renaming has been carried out the old name is gone from the
directory, and for a renaming the new one has the old file; once a `stat` has been
answered the directory has what the answer says. A listing that is answered holds what the
directory has (`Brings`), because nothing else is under way and so nothing changes
it in between. A callback then has to do to the list what the server did to the
directory, and nothing to any other name. The last step is that a list in order
with the files of a directory is that directory sorted (`OrderedSorted`).

`AllButNewAlways` is about the selection: the mark over all rows, which makes
"delete" delete everything, is set where the count of chosen files reaches the
number of files. That is right only if the count is right and what is chosen is in
the list, and these two hold only if no file comes that has the id of another. The
invariant is `PInv` (`DistinctAlways`): the count is the number of chosen files,
whose ids differ (`Counted`); nothing is chosen while a listing is under way
(`Blanked`); otherwise what is chosen is in the list, where ids differ as well
(`Within`), are older than the next one the server gives (`Below`), and are none of
those a creation or a `stat` will bring (`Unmet`). So a full count leaves no file
out (`Outnumber`). A callback other than that of a `stat` takes a file out together
with its choice (`Loses`) or puts another with the same id in its place (`Swaps`);
the callback of a `stat` puts one in that nobody has chosen (`Gains`), and this is
the one step after which the mark can be wrong.

The assumptions are the named `ASSUME`s of the modules: bounds are natural
numbers, the unset value is no directory, and at first rows and tree describe the
same but for roots of homes whose directory was never made, owners are as the
paths say, and every entry of the tree is in a directory (`InitiallySound`); and
`main.go:113` gives a directory its final slash at most once, the root of the file
system being one already. `RootsUnnamed`, `NamesKept`, `OnlyCreating`,
`OneAtATime` and the like are not assumptions but hypotheses of the theorems that
need them.

Only model-checked:

- `SyncUnlessTorn` with MOVE, DELETE, UNDELETE and PURGE, and `HomesListable`,
  which rests on it. They hold for one request at a time; an invariant has to
  relate a walk that is half done to the renaming that follows it.
- `TrashRestorable` with shares.
- Liveness (`Answered`, `FirstLoginBuilds`, `Quiets`, `Drains`), which no proof
  here can reach, and what recursive definitions compute for every input.

## Observations

Disagreements between the code and what it says, or between two of its parts,
that were met while modelling. No run is kept for them. The model reproduces all
of them but 13 to 15, 17, 38, 41 and 42, which were read off the code; the configuration is named
where it is not that of a run.

The store:

1. `LIKE path || '%'` (`nodes.go:112`) deletes siblings whose name begins with
   the node's: PUT of `x` deletes the rows of `x.txt`. (`StartsWith` with one user.)
2. MOVE of a directory into a deeper directory of itself passes the check of
   `moveadapter.go:29`, which looks at the immediate parent only; rows are
   rewritten before the rename fails. (Paths three deep.)
3. PUT at the path of a directory deletes the rows of the directory and all in
   it (`putadapter.go:36`) before webdav refuses it. (Any configuration.)
4. A node trashed from elsewhere into a trashed directory comes back inside that
   directory on disk and at its own old path in the table
   (`undeletetrash.go:68`, `:103`). (UNDELETE over all paths two deep.)
5. A lost parent whose name is the beginning of `files`, or of another name in
   the path, is cut out at the wrong place (`undeletetrash.go:81`).
   (`FilesPrefix`.)
6. Two requests of one user that both succeed, a PUT into a directory and a
   MOVE of it, leave a row without a file: adapters change the tables before the
   library takes its lock. (Two requests, MOVE and PUT.)
7. A trashed node is still reachable through its shares. MOVE takes it from the
   trash and leaves its trash row; trashed and restored again it may go to the
   first owner's home and keep its second owner. (`SHARE`, `DELETE`, `MOVE`,
   `DELETE`, `UNDELETE`.)
8. Marking a path that resolves next to a share but does not exist inserts a
   favorite of no node (`favorites.go:21`); comment: an error is returned.
9. A file named with letters of `/remote.php/webdav/` only (`photo`, `dev`)
   vanishes from its path, and the rest resolves to some other share in favorites and uploads
   (`upload.go:338`). (`TrimmedAway`.)
10. Purging a directory with a shared file in it removes the tree from disk
    first; `DeleteNode` drops only the shares of the directory itself, and the
    foreign key then refuses the rows below (`nodes.go:90`). The recipient's home
    answers 500 from then on. (The run `listing_sharing`, without the premise
    that nothing has failed half way.)
11. Of two DELETEs of a share at once the second finds no share on its second
    look and moves the owner's directory to the owner's trash
    (`deleteadapter.go:37`; comment, `:46`: "This is a root of a share, just
    unshare"). (Two requests at once in `listing_sharing`.)
12. Defaults are stored row by row and only into an empty table
    (`settings.go:69`, `:98`): a first start that dies between two of them leaves
    a key out for good, `UpdateSetting` refuses it, main ignores that, and
    handlers work under the empty directory. (The first start of
    `settings_starts`, cut short.)
13. The home lists what is shared to an organization itself
    (`shares.go:150`, `org || '%'`), paths are resolved by `org || '.%'`
    (`nodes.go:198`): it can be seen and not opened.
14. Search and the list of favorites compare with a subquery as a scalar
    (`nodes.go:296`, `favorites.go:59`) and fail with two shares.
15. Download looks for a file in a shared directory beside that directory
    (`download.go:268`).
16. A shorter text keeps the end of the longer one, since the file is opened
    without `O_TRUNC` (`savefile.go:73`). The save is answered as any other and
    nobody is told; `KeptOrWarned` counts it as kept (`overhung`).
17. `getstoragestats.go:47`: shift and division bind alike, so the percentage is
    that of `(free / allowed) << 30`.
18. A save that passes the check overwrites what was written in the same second,
    between check and write, or, the next time, between write and answer
    (`savefile.go:61`, `:87`).

The file list (each is an element of `troubles`):

19. Of two listings under way the last answer wins, whichever directory it is
    of: the list may be of one directory and the window, and the deletions sent
    from it, of another (`filelist.js:1559`).
20. A listing that is refused sends the window to `/` and, at once, back to the
    directory before: both are listed, and 19 applies if they differ. A lost
    connection has status 0 and is taken for an abort: the old list is
    uncovered under the new name.
21. A rename that is answered after the list was loaded anew finds no row:
    `splice(-1, 1)` cuts the last file from the list (`filelist.js:1916`).
22. Deleting all files of a list that is longer than the page deletes them on
    the server, and those without a row stay listed (`filelist.js:1789`).

Uploads:

23. The dialog says "If you select both versions, the copied file will have a
    number added to its name." (`oc-dialogs.js:559`). `upload.go` does not look
    at `resolution` and overwrites the file. The INSERT of its row then fails, so
    that this and a plain "replace" are answered 500 and shown as failed.
24. Files for a folder or bread crumb are compared with the list on screen
    (`file-upload.js:212`): what is in the folder is overwritten without a
    question, and what is in the list is asked about in vain. So are files
    that get there by a change of directory before the dialog is answered, since
    the directory is only read when they are submitted (`:455`).
25. A second selection with a conflict while the template of the dialog is being
    loaded ends in an exception in `addConflict`, and none of it is sent; after the
    template has failed to load, that is so until the page is loaded anew.
26. The comment at `file-upload.js:234` says that conflicts found by the server
    are added to the dialog; `upload.go` never answers `existserror`.
27. The number on a folder row counts refused, failed and skipped uploads until
    the queue is empty, and can then fall below zero.
28. `cancelUploads` aborts from the head on, so that each upload in the queue is
    sent before it is aborted itself; it may be stored after all.
29. A file dropped on a folder that is opened before the answer is not listed.

The editor window (each is an element of `troubles`):

30. "Don't try to save twice" (`editor.js:85`): the flag is down again as soon
    as the request is sent. A second save sent before the first is answered is
    refused because of the first; or, if both are of one second and are served
    in the wrong order, the older text replaces the newer.
31. The closing save is the only one whose success is acted on whatever is on
    screen: its late answer closes the editor of a file opened meanwhile. Its
    failure leaves the container hidden, and all files opened later with it,
    until a click on the notification.
32. Closing while a save is under way closes at once, since nothing counts as
    edited; if that save fails nobody is told.
33. What could not be saved stays `edited` when another file is opened, and a
    timer saves the old text under the new name, which the server accepts if the
    times of the two files are the same.
34. Two files opened at once (open, back, open) show the text of one under the
    name of the other; the second answer puts its text where it destroys ace.
35. `loadFile` parses every error as JSON (`editor.js:511`); the server's are
    plain text but for one, so that an exception leaves the empty overlay.
36. `window.onpopstate` is replaced for good (`editor.js:379`): once a file was
    opened, Back no longer changes directories.

The store once more:

37. DELETE of a directory whose path repeats a name (`a/a`, with `b` in it) looks
    for a parent of `b` in the trash by the ends of its path, and the row of the
    directory just moved, the trash's `a`, ends so too (`deleteadapter.go:98`):
    the row of `b` goes to `a/a/b`, its file to `a/b`. (Paths three deep.)
38. No handler refuses a request for the root of a home: a MOVE of it rewrites the
    row of the files directory (`moveadapter.go:69`, `:108`), a DELETE panics
    (`deleteadapter.go:102`) after it has written a trash row, a PUT deletes all rows
    below it before WebDAV refuses it (`putadapter.go:36`).
39. A first login that is given up before the trash has its row is never resumed
    (`ensurehomedirectorymiddleware.go:15`). In such a home DELETE writes a trash row
    and panics (`deleteadapter.go:113`).
40. WebDAV looks for a share named like the directory above the file, then by the
    first name of the path (`adapter.go:75`); favorites and uploads by the first name
    only (`upload.go:346`). A path of three names or more may be one file for the
    one and another, or none, for the other.
41. `_` and `%` in the names of files and users reach `LIKE` unescaped
    (`nodes.go:99`, `:106`, `:112`, `:183`, `:198`): deleting `a_` deletes the rows of
    `ab` too.
42. The Destination of DELETE is put together unescaped (`deleteadapter.go:133`)
    and parsed as a URL (`webdav.go:322`): a name with `%`, `?` or `#` fails there,
    or goes elsewhere than its row.

## What is not modelled

- COPY, LOCK, UNLOCK and PROPPATCH have no adapter (`customocdav.go:73`) and go
  to the library without touching the tables; gowncloud's client sends none.
- GET and HEAD, search, downloads, lists of shares and favorites, storage
  statistics: they change nothing. Their lookups are those of `Storage` or are
  described above.
- Permissions and types of shares: stored and returned, looked at by no code.
- A request for the root of a home itself: no handler refuses one, the web client
  never sends one (observation 38).
- Names with `_`, `%`, `?` or `#` in them (observations 41 and 42).
- In a renaming, the file record the input was opened on (`filelist.js:662`), which
  the call uses though the list may have been loaded anew before the name was
  entered (`:1935`, `:2003`): `RenameRow` is the opening and the entering in one.
- Identity: a request carries its token; its user and groups are taken as given.
- Gallery, previews, thumbnails, logging, templates, routes, assets: I/O,
  generated code and wiring.
- Of the web client: sorting by size or date, the search filter, drag and drop of
  several files, new directories (as new files), the details view, thumbnails;
  uploads of whole folders, in chunks and by iframe; syntax modes and previews of
  the editor; the share dialogs, the trash, shared and tagged lists, the gallery,
  and the pages for set-up and administration, which this server does not have.
- Libraries under `core/vendor` and the built manuals under `core/doc`: third-party
  and generated.

## Plan

Done, in this order: `HomeDir` with its abstract specification and proofs;
`Paths`, `Storage`, `Dav`; `Trashbin`; `Sharing` and `Listing`; `Upload`;
`Settings` and `Editor` with proofs; the proofs of types, homes and owners for
the whole store; the web client: `FileList`, `UploadQueue`, `EditorWindow`; the
proofs of the upload queue, the editor window, of clients that only create and of
what the list shows; the proofs of the store's unique rows, of one request at a
time, of the list's busy marks, and of the list as a copy of the directory (rows,
summary, freshness and selection).
Next, most important first:

1. An abstract file store (a tree of files and a trash, one atomic step per
   request) that `Gowncloud` without concurrency and faults implements.
2. More theorems: `SyncUnlessTorn` with the walks of MOVE, DELETE and UNDELETE;
   references that never dangle (the foreign keys).
3. Observations 1 to 12 as properties with their premise made exact (which names,
   which overlaps), instead of runs that leave the case out.
4. The list of the trash as a variant of `FileList`. COPY and LOCK; storage
   statistics as an operator with a reference definition; search, favorites and
   downloads as queries of `Listing`.
