----------------------------------- MODULE Dav -----------------------------------
(***************************************************************************)
(* The WebDAV operations that change something: PUT, MKCOL, MOVE and       *)
(* DELETE.  Each is an adapter (apps/dav/adapters) that changes the tables *)
(* and then hands the patched request to the webdav library, which changes *)
(* the disk.                                                               *)
(***************************************************************************)
EXTENDS Storage

\* PUT replaces whatever row its path has, then stores the file.

PutResolve(r) ==
    /\ At(r, "put.resolve")
    /\ LET parents == Resolve(req[r].user, Front(req[r].rel)) IN
       \/ parents = {} /\ Fail(r)
       \/ \E p \in parents :
            /\ req' = [req EXCEPT ![r].pc = "del.shares",
                                  ![r].path = Child(p, Last(req[r].rel))]
            /\ UNCHANGED torn
    /\ UNCHANGED <<tables, disk, counters>>

\* SaveNode: INSERT, refused when the path has a row.
SaveNode(r, p, dir) ==
    \/ /\ RowExists(p)
       /\ Fail(r)
       /\ UNCHANGED <<nodes, nextid>>
    \/ /\ ~RowExists(p)
       /\ nodes' = Inserted(p, dir)
       /\ nextid' = nextid + 1
       /\ req' = [req EXCEPT ![r].pc = "dav.lock", ![r].wrote = TRUE]
       /\ UNCHANGED torn

PutSave(r) ==
    /\ At(r, "put.save")
    /\ SaveNode(r, req[r].path, FALSE)
    /\ UNCHANGED <<trashnodes, shares, favorites, disk, counters>>
-----------------------------------------------------------------------------
\* MKCOL.  A path that does not resolve is new; one that does is an existing
\* node, or lies next to a shared one and may be new as well.

MkcolResolve(r) ==
    LET found == Resolve(req[r].user, req[r].rel)
        parents == Resolve(req[r].user, Front(req[r].rel))
    IN
    /\ At(r, "mkcol.resolve")
    /\ \/ \E p \in found :
            /\ req' = [req EXCEPT ![r].pc = "mkcol.check", ![r].path = p]
            /\ UNCHANGED torn
       \/ found = {} /\ parents = {} /\ Fail(r)
       \/ found = {} /\ \E p \in parents :
            /\ req' = [req EXCEPT ![r].pc = "mkcol.save",
                                  ![r].path = Child(p, Last(req[r].rel))]
            /\ UNCHANGED torn
    /\ UNCHANGED <<tables, disk, counters>>

MkcolCheck(r) ==
    /\ At(r, "mkcol.check")
    /\ IF RowExists(req[r].path) \/ ~RowExists(ParentOf(req[r].path))
       THEN Fail(r)
       ELSE GoTo(r, "mkcol.save") /\ UNCHANGED torn
    /\ UNCHANGED <<tables, disk, counters>>

MkcolSave(r) ==
    /\ At(r, "mkcol.save")
    /\ SaveNode(r, req[r].path, TRUE)
    /\ UNCHANGED <<trashnodes, shares, favorites, disk, counters>>
-----------------------------------------------------------------------------
\* filepath.Walk, as MOVE and DELETE use it: an entry that is gone ends the
\* walk with an error, one without a row is passed over.
Look(r, look, next) ==
    /\ \E p \in NextVisits(r) :
        \/ ~OnDisk(p) /\ Fail(r)
        \/ \E e \in disk :
             /\ e.path = p
             /\ IF RowExists(p)
                THEN /\ req' = [req EXCEPT ![r].pc = next, ![r].at = {e},
                                           ![r].node = Rows(p)]
                     /\ UNCHANGED torn
                ELSE IF ListingFails(e)
                THEN Fail(r)
                ELSE req' = [req EXCEPT ![r] = Visited(r, e, look, "dav.lock")]
                     /\ UNCHANGED torn
    /\ UNCHANGED <<tables, disk, counters>>

\* Mutant: the row keeps its owner.
MovedKeepOwner(n, to, transfer) == [n EXCEPT !.path = to]

\* TransferNode also makes the row the new home's, MoveNode leaves its owner.
Moved(n, to, transfer) ==
    [n EXCEPT !.path = to, !.owner = IF transfer THEN to.user ELSE @]

\* The UPDATE that ends a visit: the row at path from goes to path to.
UpdateRow(r, e, from, to, transfer, look) ==
    \/ /\ ~CanUpdate(from, to)
       /\ Fail(r)
       /\ UNCHANGED nodes
    \/ /\ CanUpdate(from, to)
       /\ nodes' = (nodes \ Rows(from)) \union {Moved(n, to, transfer) : n \in Rows(from)}
       /\ IF ListingFails(e)
          THEN req' = [req EXCEPT ![r] = Idle] /\ torn' = TRUE
          ELSE /\ req' = [req EXCEPT ![r] =
                            [Visited(r, e, look, "dav.lock") EXCEPT !.wrote = TRUE]]
               /\ UNCHANGED torn

\* MOVE keeps the name of the node: only the parent of the destination counts.
\* The check that a folder does not move into itself looks at the URLs and
\* only at the immediate parent.
MoveResolve(r) ==
    LET sources == Resolve(req[r].user, req[r].rel)
        parents == Resolve(req[r].user, Front(req[r].dst))
        intoItself == Front(req[r].dst) = req[r].rel
    IN
    /\ At(r, "move.resolve")
    /\ \/ /\ intoItself \/ sources = {} \/ parents = {}
          /\ Fail(r)
       \/ /\ ~intoItself
          /\ \E src \in sources, p \in parents :
               /\ req' = [req EXCEPT ![r].pc = "move.check", ![r].path = src,
                                     ![r].to = {Child(p, NameOf(src))}]
               /\ UNCHANGED torn
    /\ UNCHANGED <<tables, disk, counters>>

MoveCheck(r) ==
    /\ At(r, "move.check")
    /\ IF \E p \in req[r].to : RowExists(p)
       THEN Fail(r)
       ELSE /\ req' = [req EXCEPT ![r].pc = "move.look", ![r].todo = {req[r].path}]
            /\ UNCHANGED torn
    /\ UNCHANGED <<tables, disk, counters>>

MoveLook(r) == At(r, "move.look") /\ Look(r, "move.look", "move.transfer")

MoveTransfer(r) ==
    /\ At(r, "move.transfer")
    /\ \E e \in req[r].at, n \in req[r].node, to \in req[r].to :
         UpdateRow(r, e, n.path, Rebase(n.path, req[r].path, to), TRUE, "move.look")
    /\ UNCHANGED <<trashnodes, shares, favorites, nextid, disk, counters>>
-----------------------------------------------------------------------------
\* DELETE of a node shared to the user removes the share; any other DELETE
\* moves the node and what is in it to the trash of its owner.

DeleteResolve(r) ==
    LET paths == Resolve(req[r].user, req[r].rel) IN
    /\ At(r, "delete.resolve")
    /\ \/ paths = {} /\ Fail(r)
       \/ \E p \in paths :
            /\ req' = [req EXCEPT ![r].path = p,
                 ![r].pc = IF p.user = req[r].user THEN "delete.check" ELSE "delete.share"]
            /\ UNCHANGED torn
    /\ UNCHANGED <<tables, disk, counters>>

\* Mutant: the handler does not return after it has unshared.
DeleteShareGoesOn(r) ==
    /\ At(r, "delete.share")
    /\ LET roots == ShareRoots(req[r].user, req[r].rel) IN
       shares' = {s \in shares : ~(s.node \in {n.id : n \in roots} /\ s.target = req[r].user)}
    /\ GoTo(r, "delete.check")
    /\ UNCHANGED <<nodes, trashnodes, favorites, nextid, disk, torn, counters>>

\* Only a share to the user goes: one to a group of the user stays.
DeleteShare(r) ==
    LET roots == ShareRoots(req[r].user, req[r].rel) IN
    /\ At(r, "delete.share")
    /\ \/ /\ \E n \in roots :
               /\ n.path = req[r].path
               /\ shares' = {s \in shares : ~(s.node = n.id /\ s.target = req[r].user)}
          /\ Finish(r)
       \/ /\ roots = {} \/ \E n \in roots : n.path # req[r].path
          /\ GoTo(r, "delete.check")
          /\ UNCHANGED <<shares, torn>>
    /\ UNCHANGED <<nodes, trashnodes, favorites, nextid, disk, counters>>

DeleteCheck(r) ==
    /\ At(r, "delete.check")
    /\ IF RowExists(req[r].path)
       THEN /\ req' = [req EXCEPT ![r].pc = "delete.look", ![r].todo = {req[r].path}]
            /\ UNCHANGED torn
       ELSE Fail(r)
    /\ UNCHANGED <<tables, disk, counters>>

DeleteLook(r) == At(r, "delete.look") /\ Look(r, "delete.look", "delete.mark")

\* Mutant: only the node named in the request is remembered.
RememberedRoot(r, n) ==
    IF n.path = req[r].path THEN trashnodes \union {[node |-> n.id, path |-> n.path]}
                            ELSE trashnodes

Remembered(r, n) == trashnodes \union {[node |-> n.id, path |-> n.path]}

\* CreateTrashNode remembers where the node was: one trash row per path.
DeleteMark(r) ==
    /\ At(r, "delete.mark")
    /\ \E n \in req[r].node :
         LET refused == \/ \E t \in trashnodes : t.path = n.path
                        \/ \A m \in nodes : m.id # n.id
         IN IF refused
            THEN Fail(r) /\ UNCHANGED trashnodes
            ELSE /\ trashnodes' = Remembered(r, n)
                 /\ req' = [req EXCEPT ![r].pc = "delete.slot", ![r].wrote = TRUE]
                 /\ UNCHANGED torn
    /\ UNCHANGED <<nodes, shares, favorites, nextid, disk, counters>>

\* The parents the search loop tries, longest first: the end of the node's own
\* parent path, and at last the trash itself.
TrashParents(n) ==
    {TrashPath(n.owner, SubSeq(n.path.rel, i, Len(n.path.rel) - 1)) : i \in 1 .. Len(n.path.rel)}

TrashSlot(n) ==
    LET there == {p \in TrashParents(n) : RowExists(p)}
        deepest == CHOOSE p \in there : \A q \in there : Len(q.rel) <= Len(p.rel)
    IN Child(deepest, NameOf(n.path))

\* The first node handled is taken for the root: its slot is the Destination,
\* which is not escaped: names have no '%', '?' or '#' in them.
\* In a home whose trash has no row the loop runs out of names and panics.
DeleteSlot(r) ==
    /\ At(r, "delete.slot")
    /\ \E n \in req[r].node :
        \/ /\ \A p \in TrashParents(n) : ~RowExists(p)
           /\ Fail(r)
        \/ /\ \E p \in TrashParents(n) : RowExists(p)
           /\ req' = [req EXCEPT ![r].pc = "delete.move", ![r].slot = {TrashSlot(n)},
                                 ![r].to = IF @ = {} THEN {TrashSlot(n)} ELSE @]
           /\ UNCHANGED torn
    /\ UNCHANGED <<tables, disk, counters>>

DeleteMove(r) ==
    /\ At(r, "delete.move")
    /\ \E e \in req[r].at, n \in req[r].node, to \in req[r].slot :
         UpdateRow(r, e, n.path, to, FALSE, "delete.look")
    /\ UNCHANGED <<trashnodes, shares, favorites, nextid, disk, counters>>
-----------------------------------------------------------------------------
\* The webdav library.  Its temporary locks are exact paths, held while the
\* request is served and released however that ends.

Holds(q) == IF q.pc \in {"dav.target", "dav.serve"} THEN {q.path} \union q.to ELSE {}
Locked(p) == \E q \in Requests : p \in Holds(req[q])

DavLock(r) ==
    LET q == req[r]
        refused == \/ \E p \in {q.path} \union q.to : Locked(p)
                   \/ q.op \in {"MOVE", "DELETE"} /\ (q.to = {} \/ q.path \in q.to)
    IN
    /\ At(r, "dav.lock")
    /\ IF refused THEN Fail(r)
       ELSE /\ GoTo(r, IF q.op \in {"MOVE", "DELETE"} THEN "dav.target" ELSE "dav.serve")
            /\ UNCHANGED torn
    /\ UNCHANGED <<tables, disk, counters>>

\* moveFiles: an existing target is removed first, if the client said so.
DavTarget(r) ==
    /\ At(r, "dav.target")
    /\ \E to \in req[r].to :
         \/ /\ ~OnDisk(to)
            /\ GoTo(r, "dav.serve")
            /\ UNCHANGED <<disk, torn>>
         \/ /\ OnDisk(to) /\ req[r].overwrite
            /\ disk' = {e \in disk : ~Beneath(e.path, to)}
            /\ req' = [req EXCEPT ![r].pc = "dav.serve", ![r].wrote = TRUE]
            /\ UNCHANGED torn
         \/ /\ OnDisk(to) /\ ~req[r].overwrite
            /\ Fail(r)
            /\ UNCHANGED disk
    /\ UNCHANGED <<tables, counters>>

\* Mutant: the error of the system call is not reported.
ServesAnyway(r, possible, result) ==
    /\ Finish(r)
    /\ IF possible THEN disk' = result ELSE UNCHANGED disk
    /\ UNCHANGED <<tables, counters>>

\* The system call of each method, and its result.
Serves(r, possible, result) ==
    /\ IF possible THEN Finish(r) /\ disk' = result
                   ELSE Fail(r) /\ UNCHANGED disk
    /\ UNCHANGED <<tables, counters>>

DavPut(r) ==
    LET p == req[r].path IN
    /\ At(r, "dav.serve") /\ req[r].op = "PUT"
    /\ Serves(r, IsDir(ParentOf(p)) /\ ~IsDir(p),
                 disk \union {[path |-> p, dir |-> FALSE]})

DavMkcol(r) ==
    LET p == req[r].path IN
    /\ At(r, "dav.serve") /\ req[r].op = "MKCOL"
    /\ Serves(r, IsDir(ParentOf(p)) /\ ~OnDisk(p),
                 disk \union {[path |-> p, dir |-> TRUE]})

DavMove(r) ==
    /\ At(r, "dav.serve") /\ req[r].op \in {"MOVE", "DELETE"}
    /\ \E to \in req[r].to :
         Serves(r, CanRename(req[r].path, to), Renamed(req[r].path, to))
-----------------------------------------------------------------------------
Put(r) == PutResolve(r) \/ PutSave(r)
Mkcol(r) == MkcolResolve(r) \/ MkcolCheck(r) \/ MkcolSave(r)
Move(r) == MoveResolve(r) \/ MoveCheck(r) \/ MoveLook(r) \/ MoveTransfer(r)
Delete(r) == \/ DeleteResolve(r) \/ DeleteShare(r) \/ DeleteCheck(r) \/ DeleteLook(r)
             \/ DeleteMark(r) \/ DeleteSlot(r) \/ DeleteMove(r)
Webdav(r) == DavLock(r) \/ DavTarget(r) \/ DavPut(r) \/ DavMkcol(r) \/ DavMove(r)

DavStep(r) == Put(r) \/ DeleteNode(r) \/ Mkcol(r) \/ Move(r) \/ Delete(r) \/ Webdav(r)
=============================================================================
