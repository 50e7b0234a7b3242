---------------------------------- MODULE Listing ----------------------------------
(***************************************************************************)
(* What the listing of a home (PROPFIND) answers in a state of the store,  *)
(* and what shares and favorites look like to the users they are for.  The *)
(* listing is a query: the answer of a handler nothing interrupts.         *)
(***************************************************************************)
EXTENDS Gowncloud

CONSTANT ListedTargets   \* [Users -> SUBSET Targets]: targets LIKE org || '%'

ASSUME ListedIncludesSubgroups ==
    /\ ListedTargets \in [Users -> SUBSET Targets]
    /\ \A u \in Users : GroupTargets[u] \subseteq ListedTargets[u]

NodesSharedTo(targets) ==
    {n \in nodes : \E s \in shares : s.node = n.id /\ s.target \in targets}

\* GetAllSharesToUser: to the user, and to groups and what starts like them.
ListedShares(u) == NodesSharedTo({u} \union ListedTargets[u])

\* PROPFIND of the home: what webdav finds there and the tables know.
OwnEntries(u) == {n \in nodes : n.path.rel # <<>> /\ OnDisk(n.path)
                                /\ ParentOf(n.path) = FilesPath(u, <<>>)}

\* Shares are asked for one by one; one that is not on disk fails the listing.
HomeFails(u) == \E n \in ListedShares(u) \ OwnEntries(u) : ~OnDisk(n.path)
-----------------------------------------------------------------------------
\* Between requests, unless one failed half way, every home can be listed: a
\* share whose node has left the disk would take the whole listing with it.
\* (Not so once a trashed node has been moved out of the trash through a share:
\* its trash row stays, and a later restore goes by that.)
HomesListable == Quiet /\ ~torn /\ TrashKnown => \A u \in Users : ~HomeFails(u)

\* favorite.go: Favorite "identifies the file from the URL Path", and means the
\* file webdav would serve there.  So it does for ordinary names, but where webdav
\* finds a share named like the directory above the file and favorite.go, which
\* tries the first name of the path only, does not.  (A name made of the letters
\* of "/remote.php/webdav/" is trimmed away, and then the path is put next to any
\* share.)
OnlyWebdavFinds(u, rel) == Len(rel) > 2 /\ SharedNamed(u, Front(rel)) # {}

FavoriteIdentifies ==
    \A r \in Requests : At(r, "favorite.unmark") =>
        \/ req[r].path \in Resolve(req[r].user, req[r].rel)
        \/ OnlyWebdavFinds(req[r].user, req[r].rel)

\* deleteadapter.go: "This is a root of a share, just unshare": what a DELETE
\* moves to the owner's trash is never the root of a share.  So it is while
\* nobody else changes the shares and no two have the same name; the test is
\* made on a second look at them.
JustUnshared ==
    [][\A r \in Requests : DeleteMove(r) =>
         req[r].path.user = req[r].user \/ Len(req[r].rel) > 1]_vars
=============================================================================
