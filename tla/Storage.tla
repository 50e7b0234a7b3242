--------------------------------- MODULE Storage ---------------------------------
(***************************************************************************)
(* What every file operation of gowncloud works on: the tables nodes,      *)
(* trashnodes, shares and favorites, the tree under the DAV root, and the  *)
(* requests being served.  Every SQL statement and every system call that  *)
(* writes is one step; no transaction spans two of them, and nothing is    *)
(* undone when a later one fails.                                          *)
(*                                                                         *)
(* Homes are provisioned (module HomeDir) before this module starts, as far *)
(* as each user's first login got.                                         *)
(***************************************************************************)
EXTENDS Paths, FiniteSets

CONSTANTS
    Targets,       \* what a share can name: users and groups
    GroupTargets,  \* [Users -> SUBSET Targets]: targets LIKE org || '.%'
    Requests,      \* goroutines serving requests
    Ops,           \* the operations clients use
    Rels,          \* the paths clients name
    InitTree,      \* what the homes hold at first: entries of the disk
    InitNodes,     \* and the rows of the nodes table for them
    InitShares,
    InitFavorites,
    InitNextId,    \* the first id no row of these has
    MaxStarts,     \* bound on requests
    MaxFaults      \* bound on failing statements, system calls and crashes

Node == [id : Nat, owner : Users, path : Path, dir : BOOLEAN]
TrashNode == [node : Nat, path : Path]
Share == [id : Nat, node : Nat, target : Targets]
Favorite == [node : Nat, user : Users]   \* node Null: no node at all
Null == 0
Entry == [path : Path, dir : BOOLEAN]

AllOps == {"PUT", "MKCOL", "MOVE", "DELETE", "UNDELETE", "PURGE", "SHARE", "UNSHARE",
           "FAVORITE", "UNFAVORITE", "UPLOAD", "UPDIR"}

Homes == [user : Users, area : {"files", "files_trash"}, rel : {<<>>}]

ASSUME StorageAssumption ==
    /\ Users \subseteq Targets
    /\ GroupTargets \in [Users -> SUBSET Targets]
    /\ Ops \subseteq AllOps
    /\ Rels \subseteq Rel
    /\ InitTree \subseteq Entry
    /\ InitNodes \subseteq Node
    /\ InitShares \subseteq Share
    /\ InitFavorites \subseteq Favorite
    /\ InitNextId \in Nat
    /\ MaxStarts \in Nat
    /\ MaxFaults \in Nat

\* No client names the root of a home.  No handler refuses that, but what it
\* does is not modelled: MOVE rewrites the row of the home, PUT deletes every
\* row in it, and DELETE panics after it has written a trash row.
RootsUnnamed == <<>> \notin Rels

EntryOf(n) == [path |-> n.path, dir |-> n.dir]
InitRowed == {EntryOf(n) : n \in InitNodes}

\* The state the program starts from.  Rows and disk agree, but for a first
\* login that was given up: it leaves a home without its trash, or the row of a
\* root whose directory was never made.
ASSUME InitiallySound ==
    /\ \A n \in InitNodes : n.id \in 1 .. InitNextId - 1 /\ n.owner = n.path.user
    /\ \A n, m \in InitNodes : n.id = m.id \/ n.path = m.path => n = m
    /\ InitTree \subseteq InitRowed
    /\ \A e \in InitRowed \ InitTree : e.path \in Homes
    /\ \A e \in InitRowed : e.path \in Homes => e.dir
    /\ \A e \in InitTree : \A k \in 0 .. Len(e.path.rel) - 1 :
         [path |-> [e.path EXCEPT !.rel = SubSeq(@, 1, k)], dir |-> TRUE] \in InitTree
    /\ \A s \in InitShares \union InitFavorites : \E n \in InitNodes : n.id = s.node
    /\ \A s \in InitShares : s.id \in 1 .. InitNextId - 1
    /\ \A s, t \in InitShares : s.id = t.id => s = t

VARIABLES
    nodes,       \* table nodes
    trashnodes,  \* table trashnodes: where a trashed node came from
    shares,      \* table shares
    favorites,   \* table favorites
    nextid,      \* the SERIAL of nodes and shares
    disk,        \* files and directories under the DAV root
    req,         \* what each goroutine is doing
    torn,        \* ghost: a request or a first login failed after it had written
    starts, faults

tables == <<nodes, trashnodes, shares, favorites, nextid>>
counters == <<starts, faults>>
vars == <<nodes, trashnodes, shares, favorites, nextid, disk, req, torn, starts, faults>>

PCs == {"put.resolve", "put.save",
        "mkcol.resolve", "mkcol.check", "mkcol.save",
        "move.resolve", "move.check", "move.look", "move.transfer",
        "delete.resolve", "delete.share", "delete.check", "delete.look",
        "delete.mark", "delete.slot", "delete.move",
        "undelete.stat", "undelete.origin", "undelete.parent", "undelete.look",
        "undelete.move", "undelete.forget", "undelete.rename",
        "purge.remove",
        "share.lookup", "share.insert", "share.read", "unshare.delete",
        "favorite.resolve", "favorite.unmark", "favorite.mark",
        "upload.resolve", "upload.create", "upload.save",
        "updir.resolve", "updir.scan", "updir.mkdir", "updir.row",
        "updir.save", "updir.create",
        "del.shares", "del.trash", "del.favorites", "del.rows",
        "dav.lock", "dav.target", "dav.serve"}

Request ==
    [pc : PCs, op : AllOps, user : Users,
     rel : Rel,              \* the path in the URL
     dst : Rel,              \* the path in the Destination header
     overwrite : BOOLEAN,    \* Overwrite: T
     target : Targets,       \* whom SHARE is for
     share : Nat,            \* the id of the share UNSHARE is to delete
     path : Path,            \* what rel resolved to
     to : SUBSET Path,       \* Destination as handed to webdav, if set
     todo : SUBSET Path,     \* what filepath.Walk has listed and not visited
     at : SUBSET Entry,      \* the entry it is visiting
     node : SUBSET Node,     \* the row read for it
     slot : SUBSET Path,     \* where that row goes
     skip : SUBSET Path,     \* the lost parent UNDELETE cuts out of paths
     bad : BOOLEAN,          \* a 500 was written and the handler went on
     wrote : BOOLEAN]        \* something was written

Idle == [pc |-> "idle"]
-----------------------------------------------------------------------------
\* Queries.

RowExists(p) == \E n \in nodes : n.path = p
Rows(p) == {n \in nodes : n.path = p}

\* getSharedNamedNodesToUser, then getSharedNamedNodesToGroup for each group:
\* the rows found for the user come first, and callers take the first row.
SharedOf(u, named) ==
    LET To(targets) == {n \in named :
                          \E s \in shares : s.node = n.id /\ s.target \in targets}
    IN IF To({u}) # {} THEN To({u}) ELSE To(GroupTargets[u])

SharedNamed(u, rel) == SharedOf(u, {n \in nodes : LikeSuffix(n.path, rel)})

\* findShareRoot: the whole path, then without its last name, then its first.
ShareRoots(u, rel) ==
    IF SharedNamed(u, rel) # {} \/ Len(rel) <= 1 THEN SharedNamed(u, rel)
    ELSE IF SharedNamed(u, Front(rel)) # {} THEN SharedNamed(u, Front(rel))
    ELSE SharedNamed(u, <<Head(rel)>>)

\* The requested path next to a shared node, whether or not that exists.
NextTo(n, rel) == [n.path EXCEPT !.rel = Front(n.path.rel) \o rel]

\* getNodePath: the path in the user's own files if it has a row, else one in
\* a share.
Resolve(u, rel) ==
    IF RowExists(FilesPath(u, rel)) THEN {FilesPath(u, rel)}
    ELSE {NextTo(n, rel) : n \in ShareRoots(u, rel)}

\* Mutant: the last name is looked for in the shares first.
AjaxRootsLast(u, rel) == SharedOf(u, {n \in nodes : LikeTrimmed(n.path, <<Last(rel)>>)})

\* The findShareRoot of apps/files/ajax: trimmed, the whole path, then its
\* first name.
AjaxRoots(u, rel) ==
    LET left == TrimLeft(rel)
        Named(names) == SharedOf(u, {n \in nodes : LikeTrimmed(n.path, names)})
    IN IF Named(left) # {} \/ Len(left) <= 1 THEN Named(left) ELSE Named(<<Head(left)>>)

AjaxResolve(u, rel) ==
    IF RowExists(FilesPath(u, rel)) THEN {FilesPath(u, rel)}
    ELSE {NextTo(n, rel) : n \in AjaxRoots(u, rel)}

OnDisk(p) == \E e \in disk : e.path = p
IsDir(p) == [path |-> p, dir |-> TRUE] \in disk

ListDir(p) ==
    {e.path : e \in {x \in disk : x.path.rel # <<>> /\ ParentOf(x.path) = p}}
-----------------------------------------------------------------------------
\* Statements and system calls, as the value they leave behind.

Inserted(p, dir) ==
    nodes \union {[id |-> nextid, owner |-> p.user, path |-> p, dir |-> dir]}

\* UPDATE nodes SET path = to WHERE path = from succeeds: it finds the row and
\* the new path is unique.
CanUpdate(from, to) == RowExists(from) /\ (to = from \/ ~RowExists(to))

\* os.Rename of Go 1.8 refuses an existing directory as its target.
CanRename(from, to) ==
    /\ OnDisk(from)
    /\ to.rel # <<>> /\ IsDir(ParentOf(to))
    /\ ~IsDir(to)
    /\ OnDisk(to) => ~IsDir(from)
    /\ Beneath(to, from) => to = from

Renamed(from, to) ==
    {e \in disk : ~Beneath(e.path, from) /\ e.path # to}
    \union {[e EXCEPT !.path = Rebase(e.path, from, to)] :
              e \in {x \in disk : Beneath(x.path, from)}}
-----------------------------------------------------------------------------
\* Control of a request.

At(r, where) == req[r].pc = where
GoTo(r, where) == req' = [req EXCEPT ![r].pc = where]

\* Mutant: the request is over but nothing of it is forgotten.
FinishKeeping(r) ==
    /\ req' = [req EXCEPT ![r].pc = "idle"]
    /\ torn' = (torn \/ req[r].bad)

\* A success status; an error already written to the response stays.
Finish(r) ==
    /\ req' = [req EXCEPT ![r] = Idle]
    /\ torn' = (torn \/ req[r].bad)

\* An error status: what was written before stays.
Fail(r) ==
    /\ req' = [req EXCEPT ![r] = Idle]
    /\ torn' = (torn \/ req[r].wrote)

\* The next entry filepath.Walk visits: depth first, siblings in some order.
NextVisits(r) ==
    {p \in req[r].todo : \A q \in req[r].todo : Len(q.rel) <= Len(p.rel)}

\* Mutants: the walk does not descend, or visits its entry again.
VisitedShallow(r, e, look, done) ==
    LET left == req[r].todo \ {e.path} IN
    [req[r] EXCEPT !.pc = IF left = {} THEN done ELSE look,
                   !.todo = left, !.at = {}, !.node = {}, !.slot = {}]
VisitedAgain(r, e, look, done) ==
    [req[r] EXCEPT !.pc = look, !.at = {}, !.node = {}, !.slot = {}]

\* After a visit, Walk lists a directory, and then either goes on or is done.
Visited(r, e, look, done) ==
    LET left == (req[r].todo \ {e.path})
                \union (IF e.dir THEN ListDir(e.path) ELSE {})
    IN [req[r] EXCEPT !.pc = IF left = {} THEN done ELSE look,
                      !.todo = left, !.at = {}, !.node = {}, !.slot = {}]

\* The directory Walk has just visited is gone when it is listed.
ListingFails(e) == e.dir /\ ~OnDisk(e.path)
-----------------------------------------------------------------------------
\* database.DeleteNode(path): four statements.  Shares go by exact path, the
\* rest by LIKE path || '%'.

\* Mutant: the rows go by exact path, like the shares.
VictimsExact(r) == Rows(req[r].path)

Victims(r) == {n \in nodes : LikePrefix(n.path, req[r].path)}

Drops(r, gone, where) ==
    /\ req' = [req EXCEPT ![r].pc = where, ![r].wrote = @ \/ gone # {}]
    /\ UNCHANGED <<nodes, nextid, disk, torn, starts, faults>>

DeleteShares(r) ==
    LET gone == {s \in shares : \E n \in Rows(req[r].path) : n.id = s.node} IN
    /\ At(r, "del.shares")
    /\ shares' = shares \ gone
    /\ Drops(r, gone, "del.trash")
    /\ UNCHANGED <<trashnodes, favorites>>

DeleteTrashRefs(r) ==
    LET gone == {t \in trashnodes : \E n \in Victims(r) : n.id = t.node} IN
    /\ At(r, "del.trash")
    /\ trashnodes' = trashnodes \ gone
    /\ Drops(r, gone, "del.favorites")
    /\ UNCHANGED <<shares, favorites>>

DeleteFavorites(r) ==
    LET gone == {f \in favorites : \E n \in Victims(r) : n.id = f.node} IN
    /\ At(r, "del.favorites")
    /\ favorites' = favorites \ gone
    /\ Drops(r, gone, "del.rows")
    /\ UNCHANGED <<shares, trashnodes>>

\* The foreign keys refuse to delete a row that is still referred to.
Referenced(n) == \E x \in shares \union trashnodes \union favorites : x.node = n.id

DeleteRows(r) ==
    /\ At(r, "del.rows")
    /\ UNCHANGED <<trashnodes, shares, favorites, nextid, disk, counters>>
    /\ \/ /\ \E n \in Victims(r) : Referenced(n)
          /\ Fail(r)
          /\ UNCHANGED nodes
       \/ /\ \A n \in Victims(r) : ~Referenced(n)
          /\ nodes' = nodes \ Victims(r)
          /\ IF req[r].op = "PUT"
             THEN /\ req' = [req EXCEPT ![r].pc = "put.save",
                                        ![r].wrote = @ \/ Victims(r) # {}]
                  /\ UNCHANGED torn
             ELSE Finish(r)

DeleteNode(r) == DeleteShares(r) \/ DeleteTrashRefs(r) \/ DeleteFavorites(r) \/ DeleteRows(r)
-----------------------------------------------------------------------------
\* A statement or system call of the request fails and the handler answers
\* with an error.  DeleteNode only logs the failure of its second and third
\* statement, and UNDELETE ignores the error its walk returns.
FaultOf(r) ==
    LET where == req[r].pc IN
    IF where \in {"del.trash", "del.favorites"}
    THEN /\ GoTo(r, IF where = "del.trash" THEN "del.favorites" ELSE "del.rows")
         /\ UNCHANGED torn
    ELSE IF where \in {"undelete.look", "undelete.move", "undelete.forget"}
    THEN /\ req' = [req EXCEPT ![r].pc = "undelete.rename", ![r].bad = TRUE]
         /\ UNCHANGED torn
    ELSE Fail(r)

\* A PUT whose body cannot be copied has created its file.
HalfPut(r) ==
    /\ At(r, "dav.serve") /\ req[r].op = "PUT"
    /\ req[r].path.rel # <<>> /\ IsDir(ParentOf(req[r].path)) /\ ~IsDir(req[r].path)
    /\ disk' = disk \union {[path |-> req[r].path, dir |-> FALSE]}

Fault(r) ==
    /\ req[r].pc \notin {"idle", "dav.lock"}
    /\ faults < MaxFaults
    /\ faults' = faults + 1
    /\ FaultOf(r)
    /\ UNCHANGED disk \/ HalfPut(r)
    /\ UNCHANGED <<tables, starts>>

\* The server dies and restarts: requests and locks are gone, tables and disk
\* stay.
Crash ==
    /\ \E r \in Requests : ~At(r, "idle")
    /\ faults < MaxFaults
    /\ faults' = faults + 1
    /\ torn' = (torn \/ \E r \in Requests : ~At(r, "idle") /\ req[r].wrote)
    /\ req' = [r \in Requests |-> Idle]
    /\ UNCHANGED <<tables, disk, starts>>
-----------------------------------------------------------------------------
FirstStep(op) ==
    CASE op = "PUT" -> "put.resolve"
      [] op = "MKCOL" -> "mkcol.resolve"
      [] op = "MOVE" -> "move.resolve"
      [] op = "DELETE" -> "delete.resolve"
      [] op = "UNDELETE" -> "undelete.stat"
      [] op = "PURGE" -> "purge.remove"
      [] op = "SHARE" -> "share.lookup"
      [] op = "UNSHARE" -> "unshare.delete"
      [] op \in {"FAVORITE", "UNFAVORITE"} -> "favorite.resolve"
      [] op = "UPLOAD" -> "upload.resolve"
      [] op = "UPDIR" -> "updir.resolve"

\* A client sends a request.  Only MOVE has a Destination and an Overwrite
\* header, only SHARE a target; UNSHARE names a share by an id the client has
\* seen, UNDELETE and PURGE a path in the user's own trash.  UPLOAD and UPDIR
\* name the file they bring, which for UPDIR is in a directory.
Start(r) ==
    /\ At(r, "idle")
    /\ starts < MaxStarts
    /\ starts' = starts + 1
    /\ \E op \in Ops, u \in Users, rel \in Rels, dst \in Rels, ow \in BOOLEAN,
          target \in Targets, share \in {Null} \union {s.id : s \in shares} :
        /\ op # "MOVE" => dst = rel /\ ~ow
        /\ op # "SHARE" => target = u
        /\ op = "UNSHARE" <=> share # Null
        /\ op = "UPDIR" => Len(rel) > 1
        /\ req' = [req EXCEPT ![r] =
             [pc |-> FirstStep(op), op |-> op, user |-> u,
              rel |-> rel, dst |-> dst, overwrite |-> ow, target |-> target, share |-> share,
              path |-> TrashPath(u, rel), to |-> {}, todo |-> {}, at |-> {},
              node |-> {}, slot |-> {}, skip |-> {}, bad |-> FALSE, wrote |-> FALSE]]
    /\ UNCHANGED <<tables, disk, torn, faults>>

\* The bound on requests is used up and every request is answered.
Rest ==
    /\ \A r \in Requests : At(r, "idle")
    /\ starts = MaxStarts
    /\ UNCHANGED vars

Init ==
    /\ nodes = InitNodes
    /\ trashnodes = {}
    /\ shares = InitShares
    /\ favorites = InitFavorites
    /\ nextid = InitNextId
    /\ disk = InitTree
    /\ req = [r \in Requests |-> Idle]
    /\ torn = (InitTree # InitRowed)
    /\ starts = 0
    /\ faults = 0
-----------------------------------------------------------------------------
TypeOK ==
    /\ nodes \subseteq Node
    /\ trashnodes \subseteq TrashNode
    /\ shares \subseteq Share
    /\ favorites \subseteq Favorite
    /\ nextid \in Nat
    /\ disk \subseteq Entry
    /\ req \in [Requests -> {Idle} \union Request]
    /\ torn \in BOOLEAN
    /\ starts \in 0..MaxStarts
    /\ faults \in 0..MaxFaults

Quiet == \A r \in Requests : At(r, "idle")

\* What there is of a home and its trash, row or directory, is never moved,
\* deleted or replaced.  So DELETE's search for a parent in the trash, which
\* panics when it runs out of names, ends at the trash itself where that has a
\* row.
HomesIntact ==
    /\ \A n \in InitNodes : n.path \in Homes => \E m \in nodes : m.path = n.path /\ m.dir
    /\ \A e \in InitTree : e.path \in Homes => e \in disk

\* Every row, and every row a request has read, belongs to the user in whose
\* home its path lies.  Ownership decides whose trash a node goes to.
ReadRows == UNION {req[r].node : r \in {q \in Requests : ~At(q, "idle")}}
OwnerIsPathHead == \A n \in nodes \union ReadRows : n.owner = n.path.user

\* Between requests, unless one of them failed half way, the nodes table and
\* the disk describe the same tree: "Node found on disk but not in database"
\* and its opposite never come up.
InSync == {EntryOf(n) : n \in nodes} = disk
SyncUnlessTorn == Quiet /\ ~torn => InSync

\* What is in the trash has a trash row and what is not has none.
TrashKnown ==
    {t.node : t \in trashnodes} =
    {n.id : n \in {x \in nodes : x.path.area = "files_trash" /\ x.path.rel # <<>>}}

\* Between requests, unless one failed half way, whatever is in the trash can
\* be restored, and nothing outside the trash has a trash row.
TrashRestorable == Quiet /\ ~torn => TrashKnown
=================================================================================
