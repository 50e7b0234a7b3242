---------------------------------- MODULE Paths ----------------------------------
(***************************************************************************)
(* Paths as the nodes table and the DAV root know them:                    *)
(* <user>/files/<rel> and <user>/files_trash/<rel>.  A file name is an     *)
(* atom; what SQL LIKE and strings.Replace see of its characters is given  *)
(* by the relations StartsWith and EndsWith and by FilesPrefix.            *)
(***************************************************************************)
EXTENDS Naturals, SequencesExt

CONSTANTS
    Users,
    Names,
    StartsWith,   \* <<n, m>>: the longer name n starts with the name m
    EndsWith,     \* <<n, m>>: the longer name n ends with the name m
    TrimmedAway,  \* the names made of the characters of "/remote.php/webdav/"
    EndsTrimmed,  \* <<n, m>>: n ends with what trimming those leaves of m
    FilesPrefix   \* the names "files" starts with: f, fi, fil, file

ASSUME NameRelations ==
    /\ StartsWith \subseteq Names \X Names
    /\ EndsWith \subseteq EndsTrimmed
    /\ EndsTrimmed \subseteq Names \X Names
    /\ TrimmedAway \subseteq Names
    /\ FilesPrefix \subseteq Names

Rel == Seq(Names)

\* "garbled" is a path strings.Replace has cut at the wrong place: it lies
\* outside every home.
Path == [user : Users, area : {"files", "files_trash", "garbled"}, rel : Rel]

FilesPath(u, rel) == [user |-> u, area |-> "files", rel |-> rel]
TrashPath(u, rel) == [user |-> u, area |-> "files_trash", rel |-> rel]

SameTree(p, q) == p.user = q.user /\ p.area = q.area

\* path[strings.LastIndex(path, "/"):] and what precedes it
NameOf(p) == Last(p.rel)
ParentOf(p) == [p EXCEPT !.rel = Front(p.rel)]
Child(p, n) == [p EXCEPT !.rel = Append(p.rel, n)]

\* p is q or inside q.
Beneath(p, q) == SameTree(p, q) /\ IsPrefix(q.rel, p.rel)

\* Where p goes when q becomes to: strings.Replace(p, q, to, 1) for p beneath q.
Rebase(p, q, to) ==
    [to EXCEPT !.rel = to.rel \o SubSeq(p.rel, Len(q.rel) + 1, Len(p.rel))]

\* Mutant: the pattern is the tree of the path, not the path.
LikeTree(p, q) == SameTree(p, q)

\* path LIKE q || '%', for q below a root: everything beneath q, and whatever
\* is in or beneath a sibling whose name starts with q's.  Names have no '_' or
\* '%' in them, which are put into the pattern unescaped and match anything.
LikePrefix(p, q) ==
    /\ SameTree(p, q)
    /\ Len(p.rel) >= Len(q.rel)
    /\ SubSeq(p.rel, 1, Len(q.rel) - 1) = Front(q.rel)
    /\ \/ p.rel[Len(q.rel)] = Last(q.rel)
       \/ <<p.rel[Len(q.rel)], Last(q.rel)>> \in StartsWith

\* The names of p end with rel, its first one up to the relation ends.
EndsLike(p, rel, ends) ==
    LET skip == Len(p.rel) - Len(rel) IN
    /\ skip >= 0
    /\ SubSeq(p.rel, skip + 2, Len(p.rel)) = Tail(rel)
    /\ \/ p.rel[skip + 1] = Head(rel)
       \/ <<p.rel[skip + 1], Head(rel)>> \in ends

\* path LIKE '%' || rel, for a rel that ends inside the files of the path.  Names
\* have no '_' or '%' in them, as in LikePrefix.
LikeSuffix(p, rel) == rel # <<>> /\ EndsLike(p, rel, EndsWith)

\* strings.TrimLeft(rel, "/remote.php/webdav/"), which takes the string for a
\* set of characters: leading names made of them go, the next is cut.
TrimLeft(rel) ==
    LET kept == {i \in 1 .. Len(rel) : rel[i] \notin TrimmedAway} IN
    IF kept = {} THEN <<>> ELSE SubSeq(rel, Min(kept), Len(rel))

\* path LIKE '%' || rel for a trimmed rel: '%' alone is like every path.
LikeTrimmed(p, rel) == rel = <<>> \/ EndsLike(p, rel, EndsTrimmed)

\* strings.Replace(p, cut, "", 1) for cut = "/" and the names of the sequence:
\* the first occurrence goes, wherever it is and whether or not it ends at a
\* name.  An occurrence that does not, or one inside "/files", garbles p.
CutFirst(p, cut) ==
    LET k == Len(cut)
        Matches(i) ==
            /\ SubSeq(p.rel, i, i + k - 2) = Front(cut)
            /\ \/ p.rel[i + k - 1] = Last(cut)
               \/ <<p.rel[i + k - 1], Last(cut)>> \in StartsWith
        hits == {i \in 1 .. Len(p.rel) - k + 1 : Matches(i)}
        first == CHOOSE i \in hits : \A j \in hits : i <= j
    IN IF cut = <<>> THEN p
       ELSE IF k = 1 /\ cut[1] \in FilesPrefix THEN [p EXCEPT !.area = "garbled"]
       ELSE IF hits = {} THEN p
       ELSE IF p.rel[first + k - 1] = Last(cut)
            THEN [p EXCEPT !.rel = SubSeq(p.rel, 1, first - 1)
                                   \o SubSeq(p.rel, first + k, Len(p.rel))]
       ELSE [p EXCEPT !.area = "garbled"]
=============================================================================
