--------------------------------- MODULE Trashbin ---------------------------------
(***************************************************************************)
(* The trash bin (apps/files_trashbin/ajax): UNDELETE restores one trashed *)
(* node and what is in it, PURGE removes it for good.  Both name a path in *)
(* the user's own trash and work on disk and tables directly, without the  *)
(* locks of the webdav library.  A request for several nodes handles them  *)
(* one after the other, like as many requests.                             *)
(***************************************************************************)
EXTENDS Storage

\* GetTrashNode: some trash row of the node whose row is at the path.
Origins(p) == {t.path : t \in {x \in trashnodes : \E n \in Rows(p) : n.id = x.node}}

UndeleteStat(r) ==
    /\ At(r, "undelete.stat")
    /\ IF OnDisk(req[r].path) THEN GoTo(r, "undelete.origin") /\ UNCHANGED torn
                              ELSE Fail(r)
    /\ UNCHANGED <<tables, disk, counters>>

\* Without a trash row the handler dereferences nil and the request dies.
UndeleteOrigin(r) ==
    /\ At(r, "undelete.origin")
    /\ \/ Origins(req[r].path) = {} /\ Fail(r)
       \/ \E origin \in Origins(req[r].path) :
            /\ req' = [req EXCEPT ![r].pc = "undelete.parent", ![r].to = {origin}]
            /\ UNCHANGED torn
    /\ UNCHANGED <<tables, disk, counters>>

\* The parent of the original place; one in the trash is looked up in files.
OriginParent(r, origin) ==
    LET p == ParentOf(origin) IN
    IF p.user = req[r].user /\ p.area = "files_trash" THEN [p EXCEPT !.area = "files"] ELSE p

\* The parent, when lost, is to be cut out of every path that is restored.
\* Outside the user's files its whole path is, owner and all.
Restored(r, p) ==
    IF req[r].skip = {} THEN p
    ELSE LET lost == CHOOSE q \in req[r].skip : TRUE IN
         IF lost.user = req[r].user /\ lost.area = "files" THEN CutFirst(p, lost.rel)
         ELSE IF Beneath(p, lost) THEN [p EXCEPT !.area = "garbled"] ELSE p

UndeleteParent(r) ==
    /\ At(r, "undelete.parent")
    /\ \E origin \in req[r].to :
         LET parent == OriginParent(r, origin) IN
         req' = [req EXCEPT ![r].pc = "undelete.look", ![r].todo = {req[r].path},
                            ![r].skip = IF RowExists(parent) THEN {} ELSE {parent}]
    /\ UNCHANGED <<tables, disk, torn, counters>>

\* The walk over the trashed tree.  Its error goes nowhere: err is declared
\* inside the closure, and the test after the walk reads another one.  A 500
\* may have been written, but the rename below happens all the same.
GiveUpWalk(r, answered) ==
    req' = [req EXCEPT ![r].pc = "undelete.rename", ![r].bad = @ \/ answered]

UndeleteLook(r) ==
    /\ At(r, "undelete.look")
    /\ \E p \in NextVisits(r) :
        \/ /\ ~OnDisk(p)
           /\ GiveUpWalk(r, FALSE) /\ UNCHANGED torn
        \/ \E e \in disk :
             /\ e.path = p
             /\ \/ Origins(p) = {} /\ Fail(r)
                \/ \E origin \in Origins(p) :
                     /\ req' = [req EXCEPT ![r].pc = "undelete.move", ![r].at = {e},
                                           ![r].slot = {origin}]
                     /\ UNCHANGED torn
    /\ UNCHANGED <<tables, disk, counters>>

UndeleteMove(r) ==
    /\ At(r, "undelete.move")
    /\ \E e \in req[r].at, origin \in req[r].slot :
         LET to == Restored(r, origin) IN
         IF CanUpdate(e.path, to)
         THEN /\ nodes' = (nodes \ Rows(e.path))
                          \union {[n EXCEPT !.path = to] : n \in Rows(e.path)}
              /\ req' = [req EXCEPT ![r].pc = "undelete.forget", ![r].wrote = TRUE]
         ELSE GiveUpWalk(r, TRUE) /\ UNCHANGED nodes
    /\ UNCHANGED <<trashnodes, shares, favorites, nextid, disk, torn, counters>>

\* Mutant: the trash row stays.
UndeleteRemembers(r) ==
    /\ At(r, "undelete.forget")
    /\ \E e \in req[r].at :
         IF ListingFails(e) THEN GiveUpWalk(r, FALSE)
         ELSE req' = [req EXCEPT ![r] = Visited(r, e, "undelete.look", "undelete.rename")]
    /\ UNCHANGED <<tables, disk, torn, counters>>

UndeleteForget(r) ==
    /\ At(r, "undelete.forget")
    /\ \E e \in req[r].at, origin \in req[r].slot :
         /\ trashnodes' = {t \in trashnodes : t.path # origin}
         /\ IF ListingFails(e) THEN GiveUpWalk(r, FALSE)
            ELSE req' = [req EXCEPT ![r] = Visited(r, e, "undelete.look", "undelete.rename")]
    /\ UNCHANGED <<nodes, shares, favorites, nextid, disk, torn, counters>>

UndeleteRename(r) ==
    /\ At(r, "undelete.rename")
    /\ \E origin \in req[r].to :
         LET to == Restored(r, origin) IN
         IF CanRename(req[r].path, to)
         THEN disk' = Renamed(req[r].path, to) /\ Finish(r)
         ELSE Fail(r) /\ UNCHANGED disk
    /\ UNCHANGED <<tables, counters>>
-----------------------------------------------------------------------------
\* PURGE removes the tree from disk, then its rows.
PurgeRemove(r) ==
    /\ At(r, "purge.remove")
    /\ IF OnDisk(req[r].path)
       THEN /\ disk' = {e \in disk : ~Beneath(e.path, req[r].path)}
            /\ req' = [req EXCEPT ![r].pc = "del.shares", ![r].wrote = TRUE]
            /\ UNCHANGED torn
       ELSE Fail(r) /\ UNCHANGED disk
    /\ UNCHANGED <<tables, counters>>
-----------------------------------------------------------------------------
Undelete(r) == \/ UndeleteStat(r) \/ UndeleteOrigin(r) \/ UndeleteParent(r)
               \/ UndeleteLook(r) \/ UndeleteMove(r) \/ UndeleteForget(r)
               \/ UndeleteRename(r)
=============================================================================
