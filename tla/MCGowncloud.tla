------------------------------- MODULE MCGowncloud -------------------------------
(***************************************************************************)
(* Small homes for TLC.                                                    *)
(***************************************************************************)
EXTENDS Gowncloud

CONSTANTS a, b, u, v, org

\* What these runs are about, and no more.
ASSUME OnlyBelowRoots == RootsUnnamed

NoPairs == {}
BStartsWithA == {<<b, a>>}
JustA == {a}
TwoNames == {a, b}
OneUser == {u}
TwoUsers == {u, v}
UsersAndGroup == {u, v, org}
NoGroups == [x \in Users |-> {}]
BothInGroup == [x \in Users |-> {org}]

\* Paths up to two names deep.
TopRels == {<<x>> : x \in Names}
AllRels == TopRels \union {<<x, y>> : x, y \in Names}

\* Of which only the first is there in Tree.
CreateRels == {<<a, b>>, <<b>>, <<b, a>>, <<b, b, a>>}

FewRels == {<<a>>, <<b>>, <<a, b>>}

HomesOf(us) == {[path |-> [user |-> x, area |-> s, rel |-> <<>>], dir |-> TRUE] :
                  x \in us, s \in {"files", "files_trash"}}

\* Everyone's home, and for u a directory a with a file b in it.
Tree == HomesOf(Users) \union
        {[path |-> FilesPath(u, <<a>>), dir |-> TRUE],
         [path |-> FilesPath(u, <<a, b>>), dir |-> FALSE]}

Numbered(tree) ==
    LET order == SetToSeq(tree) IN
    {[id |-> i, owner |-> order[i].path.user, path |-> order[i].path, dir |-> order[i].dir] :
       i \in 1 .. Len(order)}

TreeRows == Numbered(Tree)

\* The same, but v's first login never got as far as the trash.
OfTrash(p) == p.user = v /\ p.area = "files_trash"
HalfTree == {e \in Tree : ~OfTrash(e.path)}
HalfRows == {n \in TreeRows : ~OfTrash(n.path)}
TreeNextId == Cardinality(Tree) + 2
RowOf(p) == (CHOOSE n \in TreeRows : n.path = p).id

NoShares == {}
AShared == {[id |-> Cardinality(Tree) + 1, node |-> RowOf(FilesPath(u, <<a>>)), target |-> v]}
AFavorite == {[node |-> RowOf(FilesPath(u, <<a>>)), user |-> u]}

DavOps == {"PUT", "MKCOL", "MOVE", "DELETE"}
AllButUndelete == DavOps \union {"PURGE"}
CreateOps == {"PUT", "MKCOL", "UPLOAD", "UPDIR"}
TrashShareOps == {"DELETE", "PURGE", "SHARE"}
ShareOps == {"MOVE", "DELETE", "SHARE", "UNSHARE", "FAVORITE", "UNFAVORITE"}
AllShareOps == ShareOps \union {"UNDELETE", "PURGE"}
TrashOps == DavOps \union {"UNDELETE", "PURGE"}
=============================================================================
