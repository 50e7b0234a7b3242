---------------------------------- MODULE Sharing ----------------------------------
(***************************************************************************)
(* Shares (apps/files_sharing/api/shares.go) and favorites                 *)
(* (apps/files/ajax/favorite.go): rows that refer to nodes.  Neither looks *)
(* at the disk.                                                            *)
(***************************************************************************)
EXTENDS Storage

\* Only a node in one's own files can be shared.
ShareLookup(r) ==
    /\ At(r, "share.lookup")
    /\ LET p == FilesPath(req[r].user, req[r].rel) IN
       IF RowExists(p)
       THEN /\ req' = [req EXCEPT ![r].pc = "share.insert", ![r].node = Rows(p)]
            /\ UNCHANGED torn
       ELSE Fail(r)
    /\ UNCHANGED <<tables, disk, counters>>

\* The node as it was read; the foreign key refuses one deleted since.
ShareInsert(r) ==
    /\ At(r, "share.insert")
    /\ \E n \in req[r].node :
         IF \E m \in nodes : m.id = n.id
         THEN /\ shares' = shares \union
                             {[id |-> nextid, node |-> n.id, target |-> req[r].target]}
              /\ nextid' = nextid + 1
              /\ req' = [req EXCEPT ![r].pc = "share.read", ![r].wrote = TRUE]
              /\ UNCHANGED torn
         ELSE Fail(r) /\ UNCHANGED <<shares, nextid>>
    /\ UNCHANGED <<nodes, trashnodes, favorites, disk, counters>>

\* The response describes some share of the node to the target and names the
\* parent the node had: without either the handler dereferences nil.
ShareRead(r) ==
    /\ At(r, "share.read")
    /\ \E n \in req[r].node :
         IF /\ \E s \in shares : s.node = n.id /\ s.target = req[r].target
            /\ RowExists(ParentOf(n.path))
         THEN Finish(r)
         ELSE Fail(r)
    /\ UNCHANGED <<tables, disk, counters>>

UnshareDelete(r) ==
    /\ At(r, "unshare.delete")
    /\ shares' = {s \in shares : s.id # req[r].share}
    /\ Finish(r)
    /\ UNCHANGED <<nodes, trashnodes, favorites, nextid, disk, counters>>
-----------------------------------------------------------------------------
\* Both ways of setting the tags of a node unmark it first.

FavoriteResolve(r) ==
    LET paths == AjaxResolve(req[r].user, req[r].rel) IN
    /\ At(r, "favorite.resolve")
    /\ \/ paths = {} /\ Fail(r)
       \/ \E p \in paths :
            /\ req' = [req EXCEPT ![r].pc = "favorite.unmark", ![r].path = p]
            /\ UNCHANGED torn
    /\ UNCHANGED <<tables, disk, counters>>

FavoriteUnmark(r) ==
    LET gone == {f \in favorites : /\ f.user = req[r].user
                                   /\ \E n \in Rows(req[r].path) : n.id = f.node}
    IN
    /\ At(r, "favorite.unmark")
    /\ favorites' = favorites \ gone
    /\ IF req[r].op = "FAVORITE"
       THEN /\ req' = [req EXCEPT ![r].pc = "favorite.mark", ![r].wrote = @ \/ gone # {}]
            /\ UNCHANGED torn
       ELSE Finish(r)
    /\ UNCHANGED <<nodes, trashnodes, shares, nextid, disk, counters>>

\* INSERT of (SELECT nodeid WHERE path), user: no node makes a row of NULL,
\* which is neither a duplicate nor a dangling reference.
FavoriteMark(r) ==
    LET ids == IF RowExists(req[r].path) THEN {n.id : n \in Rows(req[r].path)} ELSE {Null} IN
    /\ At(r, "favorite.mark")
    /\ \E i \in ids :
         LET f == [node |-> i, user |-> req[r].user] IN
         IF i # Null /\ f \in favorites
         THEN Fail(r) /\ UNCHANGED favorites
         ELSE Finish(r) /\ favorites' = favorites \union {f}
    /\ UNCHANGED <<nodes, trashnodes, shares, nextid, disk, counters>>
-----------------------------------------------------------------------------
Sharing(r) == ShareLookup(r) \/ ShareInsert(r) \/ ShareRead(r) \/ UnshareDelete(r)

Favoriting(r) == FavoriteResolve(r) \/ FavoriteUnmark(r) \/ FavoriteMark(r)
=============================================================================
