------------------------------- MODULE StorageProofs -------------------------------
(***************************************************************************)
(* The file store keeps its types and everyone's home, for every set of    *)
(* users, names and requests, every choice of operations and paths, any    *)
(* number of requests in progress and of faults.                           *)
(***************************************************************************)
EXTENDS Gowncloud, SequenceTheorems, WellFoundedInduction, TLAPS

\* Numbers have a smallest: what CutFirst, DELETE's search for a parent and
\* uploadDirectory choose exists.
LEMMA Smallest ==
    ASSUME NEW T, T \subseteq Nat, T # {}
    PROVE  \E x \in T : \A y \in T : x <= y
<1> DEFINE R == OpToRel(<, Nat)
<1>1. IsWellFoundedOn(R, Nat)
  BY NatLessThanWellFounded
<1>2. \A x, y \in Nat : y < x => <<y, x>> \in R
  BY DEF OpToRel
<1> HIDE DEF R
<1>3. PICK x \in T : \A y \in T : ~(<<y, x>> \in R)
  BY <1>1, WFMin
<1>4. \A y \in T : x <= y
  <2> SUFFICES ASSUME NEW y \in T
               PROVE  x <= y
    OBVIOUS
  <2>1. x \in Nat /\ y \in Nat
    OBVIOUS
  <2>2. ~(y < x)
    BY <2>1, <1>2, <1>3, Zenon
  <2>3. QED
    BY <2>1, <2>2
<1>5. QED
  BY <1>4

\* A part of the names of a path is names of a path.
LEMMA SubRel ==
    ASSUME NEW rel \in Rel, NEW m \in Nat, NEW n \in Int, m >= 1, n <= Len(rel)
    PROVE  SubSeq(rel, m, n) \in Rel
<1>1. \A i \in m .. n : rel[i] \in Names
  BY DEF Rel
<1>2. QED
  BY <1>1, SubSeqProperties DEF Rel

LEMMA FrontRel ==
    ASSUME NEW rel \in Rel
    PROVE  Front(rel) \in Rel
BY SubRel, LenProperties DEF Front, Rel

LEMMA LastName ==
    ASSUME NEW rel \in Rel, rel # <<>>
    PROVE  Last(rel) \in Names
BY EmptySeq, LenProperties DEF Last, Rel

LEMMA HomePaths ==
    ASSUME NEW u \in Users, NEW rel \in Rel
    PROVE  FilesPath(u, rel) \in Path /\ TrashPath(u, rel) \in Path
BY DEF FilesPath, TrashPath, Path

LEMMA ParentPath ==
    ASSUME NEW p \in Path
    PROVE  ParentOf(p) \in Path
BY FrontRel DEF ParentOf, Path

\* What has a parent is not a root.
LEMMA ChildPath ==
    ASSUME NEW p \in Path, NEW n \in Names
    PROVE  Child(p, n) \in Path /\ Child(p, n).rel # <<>>
<1>1. Append(p.rel, n) \in Rel /\ Append(p.rel, n) # <<>>
  BY AppendProperties DEF Path, Rel
<1>2. QED
  BY <1>1 DEF Child, Path

LEMMA RebasedPath ==
    ASSUME NEW p \in Path, NEW q \in Path, NEW to \in Path
    PROVE  /\ Rebase(p, q, to) \in Path
           /\ to.rel # <<>> => Rebase(p, q, to).rel # <<>>
<1> DEFINE rest == SubSeq(p.rel, Len(q.rel) + 1, Len(p.rel))
<1>1. rest \in Rel
  BY SubRel, LenProperties DEF Path, Rel
<1> HIDE DEF rest
<1>2. to.rel \o rest \in Rel
  BY <1>1, ConcatProperties DEF Path, Rel
<1>3. to.rel # <<>> => to.rel \o rest # <<>>
  BY <1>1, ConcatEqualIffEmpty DEF Path, Rel
<1>4. QED
  BY <1>2, <1>3 DEF Rebase, rest, Path

\* Only a root is above a root.
LEMMA AboveRoot ==
    ASSUME NEW p \in Path, NEW q \in Path, Beneath(p, q), p.rel = <<>>
    PROVE  q.rel = <<>> /\ SameTree(p, q)
<1>1. Len(q.rel) <= Len(p.rel)
  BY DEF Beneath, IsPrefix
<1>2. QED
  BY <1>1, EmptySeq DEF Path, Rel, Beneath

LEMMA LikeRoot ==
    ASSUME NEW p \in Path, NEW q \in Path, LikePrefix(p, q), p.rel = <<>>
    PROVE  q.rel = <<>> /\ SameTree(p, q)
BY EmptySeq DEF Path, Rel, LikePrefix

LEMMA TrimmedRel ==
    ASSUME NEW rel \in Rel
    PROVE  TrimLeft(rel) \in Rel
<1> DEFINE kept == {i \in 1 .. Len(rel) : rel[i] \notin TrimmedAway}
<1>1. Len(rel) \in Nat
  BY LenProperties DEF Rel
<1>2. CASE kept = {}
  BY <1>2, EmptySeq DEF TrimLeft, Rel
<1>3. CASE kept # {}
  <2>1. kept \subseteq Nat
    BY <1>1
  <2>2. \E x \in kept : \A y \in kept : x <= y
    BY <2>1, <1>3, Smallest
  <2>3. Min(kept) \in kept
    BY <2>2 DEF Min
  <2>4. SubSeq(rel, Min(kept), Len(rel)) \in Rel
    BY <2>3, <1>1, SubRel
  <2>5. QED
    BY <2>4, <1>3 DEF TrimLeft
<1>4. QED
  BY <1>2, <1>3

\* strings.Replace leaves a path, garbled or not.
LEMMA CutPath ==
    ASSUME NEW p \in Path, NEW cut \in Rel
    PROVE  CutFirst(p, cut) \in Path
<1> DEFINE k == Len(cut)
           Matches(i) == /\ SubSeq(p.rel, i, i + k - 2) = Front(cut)
                         /\ \/ p.rel[i + k - 1] = Last(cut)
                            \/ <<p.rel[i + k - 1], Last(cut)>> \in StartsWith
           hits == {i \in 1 .. Len(p.rel) - k + 1 : Matches(i)}
           first == CHOOSE i \in hits : \A j \in hits : i <= j
           left == SubSeq(p.rel, 1, first - 1) \o SubSeq(p.rel, first + k, Len(p.rel))
<1>1. Len(p.rel) \in Nat /\ k \in Nat
  BY LenProperties DEF Path, Rel
<1>2. hits # {} => left \in Rel
  <2> SUFFICES ASSUME hits # {}
               PROVE  left \in Rel
    OBVIOUS
  <2>1. hits \subseteq Nat
    BY <1>1
  <2>2. \E i \in hits : \A j \in hits : i <= j
    BY <2>1, Smallest
  <2>3. first \in 1 .. Len(p.rel) - k + 1
    BY <2>2
  <2> HIDE DEF hits, first
  <2>4. /\ SubSeq(p.rel, 1, first - 1) \in Rel
        /\ SubSeq(p.rel, first + k, Len(p.rel)) \in Rel
    BY <2>3, <1>1, SubRel DEF Path
  <2>5. QED
    BY <2>4, ConcatProperties DEF Rel
<1>3. [p EXCEPT !.area = "garbled"] \in Path
  BY DEF Path
<1>4. CutFirst(p, cut) =
        IF cut = <<>> THEN p
        ELSE IF k = 1 /\ cut[1] \in FilesPrefix THEN [p EXCEPT !.area = "garbled"]
        ELSE IF hits = {} THEN p
        ELSE IF p.rel[first + k - 1] = Last(cut) THEN [p EXCEPT !.rel = left]
        ELSE [p EXCEPT !.area = "garbled"]
  BY Zenon DEF CutFirst
<1> HIDE DEF k, hits, first, left
<1>5. QED
  BY <1>2, <1>3, <1>4 DEF Path
-----------------------------------------------------------------------------

\* The strengthening: no request ever has a root in its hands to move or
\* remove, nor does a trash row lead to one.
Inner(p) == p.rel # <<>>

Proper == {q \in Request :
    /\ q.rel # <<>>
    /\ Inner(q.path)
    /\ \A p \in q.to \union q.todo : Inner(p)
    /\ \A x \in q.at \union q.node : Inner(x.path)
    /\ q.pc \in {"updir.mkdir", "updir.row"} => q.todo # {}}

RequestsProper == req \in [Requests -> {Idle} \union Proper]

OriginsInner == \A t \in trashnodes : Inner(t.path)

IInv == TypeOK /\ HomesIntact /\ RequestsProper /\ OriginsInner
-----------------------------------------------------------------------------
\* What there is of a home at first is all that is promised to stay.
LEMMA InitIInv == Init => IInv
<1> SUFFICES ASSUME Init PROVE IInv
  OBVIOUS
<1>1. TypeOK
  <2>1. req \in [Requests -> {Idle} \union Request]
    BY DEF Init
  <2>2. 0 \in 0..MaxStarts /\ 0 \in 0..MaxFaults
    BY StorageAssumption
  <2>3. QED
    BY <2>1, <2>2, StorageAssumption DEF Init, TypeOK
<1>2. HomesIntact
  <2>1. ASSUME NEW n \in InitNodes, n.path \in Homes
        PROVE  n.dir
    <3>1. EntryOf(n) \in InitRowed /\ EntryOf(n).path = n.path /\ EntryOf(n).dir = n.dir
      BY DEF InitRowed, EntryOf
    <3>2. QED
      BY <2>1, <3>1, InitiallySound
  <2>2. QED
    BY <2>1 DEF Init, HomesIntact
<1>3. RequestsProper /\ OriginsInner
  BY DEF Init, RequestsProper, OriginsInner
<1>4. QED
  BY <1>1, <1>2, <1>3 DEF IInv
-----------------------------------------------------------------------------
\* A step keeps the invariant if it keeps the types, what homes have and what
\* requests must not have.
TablesTyped ==
    /\ nodes \subseteq Node
    /\ trashnodes \subseteq TrashNode
    /\ shares \subseteq Share
    /\ favorites \subseteq Favorite
    /\ nextid \in Nat
    /\ disk \subseteq Entry

LEMMA StepKeepsIInv ==
    ASSUME IInv, TablesTyped', RequestsProper', OriginsInner',
           torn' \in BOOLEAN, starts' \in 0..MaxStarts, faults' \in 0..MaxFaults,
           \A n \in nodes : n.path \in Homes => n \in nodes',
           \A e \in disk : e.path \in Homes => e \in disk'
    PROVE  IInv'
<1>1. TypeOK'
  <2>1. req' \in [Requests -> {Idle} \union Request]
    BY DEF RequestsProper, Proper
  <2>2. QED
    BY <2>1 DEF TypeOK, TablesTyped
<1>2. HomesIntact'
  BY DEF IInv, HomesIntact, Homes
<1>3. QED
  BY <1>1, <1>2 DEF IInv

\* A step of a request alone.
LEMMA RequestKeepsIInv ==
    ASSUME IInv, RequestsProper', torn' \in BOOLEAN, UNCHANGED <<tables, disk, counters>>
    PROVE  IInv'
<1>1. /\ TablesTyped' /\ OriginsInner'
      /\ starts' \in 0..MaxStarts /\ faults' \in 0..MaxFaults
  BY DEF IInv, TypeOK, TablesTyped, OriginsInner, tables, counters
<1>2. nodes' = nodes /\ disk' = disk
  BY DEF tables
<1>3. QED
  BY <1>1, <1>2, StepKeepsIInv

\* A request being served is a proper one.
LEMMA Serving ==
    ASSUME IInv, NEW r \in Requests, req[r].pc # "idle"
    PROVE  req[r] \in Proper /\ req[r] \in Request
BY DEF IInv, RequestsProper, Idle, Proper

\* One that is over is none.
LEMMA Over ==
    ASSUME IInv, NEW r \in Requests, Fail(r) \/ Finish(r)
    PROVE  RequestsProper' /\ torn' \in BOOLEAN
<1>1. req' = [req EXCEPT ![r] = Idle]
  BY DEF Fail, Finish
<1>2. torn' \in BOOLEAN
  BY DEF Fail, Finish
<1>3. RequestsProper'
  BY <1>1 DEF IInv, RequestsProper
<1>4. QED
  BY <1>2, <1>3

LEMMA Becomes ==
    ASSUME IInv, NEW r \in Requests, NEW q \in Proper,
           req' = [req EXCEPT ![r] = q], UNCHANGED torn
    PROVE  RequestsProper' /\ torn' \in BOOLEAN
BY DEF IInv, RequestsProper, TypeOK

\* Where a request may be without a directory left to make.
Plain == PCs \ {"updir.mkdir", "updir.row"}

\* A request that has come further and perhaps written something stays proper.
LEMMA ProperWrites ==
    ASSUME NEW q \in Proper, NEW where \in Plain, NEW w \in BOOLEAN
    PROVE  [q EXCEPT !.pc = where, !.wrote = w] \in Proper
BY DEF Proper, Request, Plain

\* A request that only gets on stays proper.
LEMMA GetsOn ==
    ASSUME IInv, NEW r \in Requests, req[r].pc # "idle",
           NEW where \in Plain, GoTo(r, where), UNCHANGED torn
    PROVE  RequestsProper' /\ torn' \in BOOLEAN
<1>1. req[r] \in Proper /\ req[r] \in Request
  BY Serving
<1>2. [req[r] EXCEPT !.pc = where] \in Proper
  BY <1>1 DEF Proper, Request, Plain
<1>3. req' = [req EXCEPT ![r] = [req[r] EXCEPT !.pc = where]]
  BY DEF GoTo
<1>4. QED
  BY <1>2, <1>3, Becomes

\* One that has found out what its path is, too, if that is nobody's home.
LEMMA Finds ==
    ASSUME IInv, NEW r \in Requests, req[r].pc # "idle",
           NEW where \in Plain, NEW p \in Path, p.rel # <<>>,
           req' = [req EXCEPT ![r].pc = where, ![r].path = p], UNCHANGED torn
    PROVE  RequestsProper' /\ torn' \in BOOLEAN
<1>1. req[r] \in Proper /\ req[r] \in Request
  BY Serving
<1>2. [req[r] EXCEPT !.pc = where, !.path = p] \in Proper
  BY <1>1 DEF Inner, Proper, Request, Plain
<1>3. req' = [req EXCEPT ![r] = [req[r] EXCEPT !.pc = where, !.path = p]]
  OBVIOUS
<1>4. QED
  BY <1>2, <1>3, Becomes
-----------------------------------------------------------------------------
\* What a request's path can resolve to: never a root, unless the path is one.

LEMMA SharedRows ==
    ASSUME NEW u, NEW rel
    PROVE  ShareRoots(u, rel) \subseteq nodes /\ AjaxRoots(u, rel) \subseteq nodes
<1>1. \A named : SharedOf(u, named) \subseteq named
  BY DEF SharedOf
<1>2. \A names : SharedNamed(u, names) \subseteq nodes
  BY <1>1 DEF SharedNamed
<1>3. ShareRoots(u, rel) \subseteq nodes
  BY <1>2 DEF ShareRoots
<1>4. AjaxRoots(u, rel) \subseteq nodes
  BY <1>1 DEF AjaxRoots
<1>5. QED
  BY <1>3, <1>4

LEMMA NextToPath ==
    ASSUME NEW n \in Node, NEW rel \in Rel
    PROVE  NextTo(n, rel) \in Path /\ (rel # <<>> => NextTo(n, rel).rel # <<>>)
<1>1. n.path \in Path /\ n.path.rel \in Rel
  BY DEF Node, Path
<1>2. Front(n.path.rel) \in Rel
  BY <1>1, FrontRel
<1>3. /\ Front(n.path.rel) \o rel \in Rel
      /\ rel # <<>> => Front(n.path.rel) \o rel # <<>>
  BY <1>2, ConcatProperties, ConcatEqualIffEmpty DEF Rel
<1>4. QED
  BY <1>1, <1>3 DEF NextTo, Path

LEMMA Resolved ==
    ASSUME TypeOK, NEW u \in Users, NEW rel \in Rel
    PROVE  \A p \in Resolve(u, rel) \union AjaxResolve(u, rel) :
             p \in Path /\ (rel # <<>> => p.rel # <<>>)
<1>1. FilesPath(u, rel) \in Path /\ FilesPath(u, rel).rel = rel
  BY HomePaths DEF FilesPath
<1>2. \A n \in ShareRoots(u, rel) \union AjaxRoots(u, rel) :
        NextTo(n, rel) \in Path /\ (rel # <<>> => NextTo(n, rel).rel # <<>>)
  BY SharedRows, NextToPath DEF TypeOK
<1>3. QED
  BY <1>1, <1>2 DEF Resolve, AjaxResolve

\* The new path in a resolved directory.
LEMMA InResolved ==
    ASSUME TypeOK, NEW u \in Users, NEW rel \in Rel, rel # <<>>, NEW dir \in Rel,
           NEW p \in Resolve(u, dir) \union AjaxResolve(u, dir)
    PROVE  Child(p, Last(rel)) \in Path /\ Child(p, Last(rel)).rel # <<>>
BY Resolved, LastName, ChildPath
-----------------------------------------------------------------------------
LEMMA PutResolveKeeps ==
    ASSUME IInv, NEW r \in Requests, PutResolve(r)
    PROVE  IInv'
<1>1. req[r].pc # "idle" /\ req[r] \in Proper /\ req[r] \in Request
  BY Serving DEF PutResolve, At
<1>2. /\ req[r].user \in Users /\ req[r].rel \in Rel /\ req[r].rel # <<>>
      /\ Front(req[r].rel) \in Rel
  BY <1>1, FrontRel DEF Proper, Request
<1>3. RequestsProper' /\ torn' \in BOOLEAN
  <2>1. CASE Fail(r)
    BY <2>1, Over
  <2>2. ASSUME NEW p \in Resolve(req[r].user, Front(req[r].rel)),
               req' = [req EXCEPT ![r].pc = "del.shares",
                                  ![r].path = Child(p, Last(req[r].rel))],
               UNCHANGED torn
        PROVE  RequestsProper' /\ torn' \in BOOLEAN
    <3>1. Child(p, Last(req[r].rel)) \in Path /\ Child(p, Last(req[r].rel)).rel # <<>>
      BY <1>2, InResolved DEF IInv
    <3>2. QED
      BY <1>1, <2>2, <3>1, Finds DEF Plain, PCs
  <2>3. QED
    BY <2>1, <2>2 DEF PutResolve
<1>4. QED
  BY <1>3, RequestKeepsIInv DEF PutResolve

\* A row is added at whatever path.
LEMMA InsertKeeps ==
    ASSUME IInv, NEW p \in Path, NEW dir \in BOOLEAN,
           nodes' = Inserted(p, dir), nextid' = nextid + 1,
           RequestsProper', torn' \in BOOLEAN,
           UNCHANGED <<trashnodes, shares, favorites, disk, counters>>
    PROVE  IInv'
<1>1. nodes' \subseteq Node /\ nextid' \in Nat
  BY DEF IInv, TypeOK, Inserted, Node, Path
<1>2. TablesTyped' /\ OriginsInner'
  BY <1>1 DEF IInv, TypeOK, TablesTyped, OriginsInner
<1>3. starts' \in 0..MaxStarts /\ faults' \in 0..MaxFaults
  BY DEF IInv, TypeOK, counters
<1>4. nodes \subseteq nodes'
  BY DEF Inserted
<1>5. QED
  BY <1>2, <1>3, <1>4, StepKeepsIInv

LEMMA SaveNodeKeeps ==
    ASSUME IInv, NEW r \in Requests, req[r].pc # "idle", NEW p \in Path, NEW dir \in BOOLEAN,
           SaveNode(r, p, dir), UNCHANGED <<trashnodes, shares, favorites, disk, counters>>
    PROVE  IInv'
<1>1. CASE Fail(r) /\ UNCHANGED <<nodes, nextid>>
  <2>1. UNCHANGED <<tables, disk, counters>>
    BY <1>1 DEF tables
  <2>2. QED
    BY <1>1, <2>1, Over, RequestKeepsIInv
<1>2. ASSUME nodes' = Inserted(p, dir), nextid' = nextid + 1,
             req' = [req EXCEPT ![r].pc = "dav.lock", ![r].wrote = TRUE], UNCHANGED torn
      PROVE  IInv'
  <2>1. req[r] \in Proper /\ req[r] \in Request
    BY Serving
  <2>2. [req[r] EXCEPT !.pc = "dav.lock", !.wrote = TRUE] \in Proper
    <3>1. "dav.lock" \in Plain
      BY DEF Plain, PCs
    <3>2. QED
      BY <2>1, <3>1, ProperWrites
  <2>3. req' = [req EXCEPT ![r] = [req[r] EXCEPT !.pc = "dav.lock", !.wrote = TRUE]]
    BY <1>2
  <2>4. RequestsProper' /\ torn' \in BOOLEAN
    BY <1>2, <2>2, <2>3, Becomes
  <2>5. QED
    BY <1>2, <2>4, InsertKeeps
<1>3. QED
  BY <1>1, <1>2 DEF SaveNode

LEMMA PutSaveKeeps ==
    ASSUME IInv, NEW r \in Requests, PutSave(r)
    PROVE  IInv'
<1>1. req[r].pc # "idle" /\ req[r].path \in Path
  BY Serving DEF PutSave, At, Request
<1>2. QED
  BY <1>1, SaveNodeKeeps DEF PutSave
-----------------------------------------------------------------------------
\* DeleteNode.  What is like a path that is no home is no home, neither is
\* what lies beneath it.
LEMMA HomeIsNotUnder ==
    ASSUME NEW h \in Homes, NEW p \in Path, Inner(p)
    PROVE  ~LikePrefix(h, p) /\ ~Beneath(h, p)
<1>1. h \in Path /\ h.rel = <<>>
  BY EmptySeq DEF Homes, Path, Rel
<1>2. p.rel = <<>> /\ SameTree(h, p) => p \in Homes
  BY DEF Path, Homes, SameTree
<1>3. QED
  BY <1>1, <1>2, AboveRoot, LikeRoot DEF Inner

LEMMA VictimsAreNotHomes ==
    ASSUME IInv, NEW r \in Requests, req[r].pc # "idle"
    PROVE  \A n \in nodes : n.path \in Homes => n \in nodes \ Victims(r)
<1>1. req[r].path \in Path /\ Inner(req[r].path)
  BY Serving DEF Proper, Request
<1>2. QED
  BY <1>1, HomeIsNotUnder DEF Victims

\* The statements that delete rows referring to the victims.
LEMMA DropKeeps ==
    ASSUME IInv, NEW r \in Requests, req[r].pc # "idle",
           NEW where \in {"del.trash", "del.favorites", "del.rows"}, NEW gone,
           Drops(r, gone, where),
           shares' \subseteq shares, trashnodes' \subseteq trashnodes, favorites' \subseteq favorites
    PROVE  IInv'
<1>1. req[r] \in Proper /\ req[r] \in Request
  BY Serving
<1>2. \A w \in BOOLEAN : [req[r] EXCEPT !.pc = where, !.wrote = w] \in Proper
  <2>1. where \in PCs \ {"updir.mkdir", "updir.row"}
    BY DEF PCs
  <2>2. QED
    BY <1>1, <2>1 DEF Proper, Request
<1>3. req' = [req EXCEPT ![r] = [req[r] EXCEPT !.pc = where, !.wrote = @ \/ gone # {}]]
  BY DEF Drops
<1>4. (req[r].wrote \/ gone # {}) \in BOOLEAN
  OBVIOUS
<1>5. RequestsProper' /\ torn' \in BOOLEAN
  BY <1>2, <1>3, <1>4, Becomes DEF Drops
<1>6. TablesTyped' /\ OriginsInner'
  BY DEF IInv, TypeOK, TablesTyped, OriginsInner, Drops
<1>7. starts' \in 0..MaxStarts /\ faults' \in 0..MaxFaults
  BY DEF IInv, TypeOK, Drops
<1>8. nodes' = nodes /\ disk' = disk
  BY DEF Drops
<1>9. QED
  BY <1>5, <1>6, <1>7, <1>8, StepKeepsIInv

LEMMA DeleteNodeKeeps ==
    ASSUME IInv, NEW r \in Requests, DeleteNode(r)
    PROVE  IInv'
<1>1. req[r].pc # "idle"
  BY DEF DeleteNode, DeleteShares, DeleteTrashRefs, DeleteFavorites, DeleteRows, At
<1>2. CASE DeleteShares(r)
  BY <1>1, <1>2, DropKeeps DEF DeleteShares
<1>3. CASE DeleteTrashRefs(r)
  BY <1>1, <1>3, DropKeeps DEF DeleteTrashRefs
<1>4. CASE DeleteFavorites(r)
  BY <1>1, <1>4, DropKeeps DEF DeleteFavorites
<1>5. CASE DeleteRows(r)
  <2>1. nodes' \subseteq nodes /\ \A n \in nodes : n.path \in Homes => n \in nodes'
    BY <1>1, <1>5, VictimsAreNotHomes DEF DeleteRows
  <2>2. RequestsProper' /\ torn' \in BOOLEAN
    <3>1. CASE Fail(r) \/ Finish(r)
      BY <3>1, Over
    <3>2. CASE /\ req' = [req EXCEPT ![r].pc = "put.save",
                                     ![r].wrote = @ \/ Victims(r) # {}]
               /\ UNCHANGED torn
      <4>1. req[r] \in Proper /\ req[r] \in Request
        BY <1>1, Serving
      <4>2. \A w \in BOOLEAN : [req[r] EXCEPT !.pc = "put.save", !.wrote = w] \in Proper
        <5>1. "put.save" \in Plain
          BY DEF Plain, PCs
        <5>2. QED
          BY <4>1, <5>1, ProperWrites
      <4>3. req' = [req EXCEPT ![r] =
                      [req[r] EXCEPT !.pc = "put.save", !.wrote = @ \/ Victims(r) # {}]]
        BY <3>2
      <4>4. (req[r].wrote \/ Victims(r) # {}) \in BOOLEAN
        OBVIOUS
      <4>5. QED
        BY <3>2, <4>2, <4>3, <4>4, Becomes
    <3>3. QED
      BY <1>5, <3>1, <3>2 DEF DeleteRows
  <2>3. TablesTyped' /\ OriginsInner'
    BY <1>5, <2>1 DEF IInv, TypeOK, TablesTyped, OriginsInner, DeleteRows
  <2>4. starts' \in 0..MaxStarts /\ faults' \in 0..MaxFaults
    BY <1>5 DEF IInv, TypeOK, DeleteRows, counters
  <2>5. QED
    BY <1>5, <2>1, <2>2, <2>3, <2>4, StepKeepsIInv DEF DeleteRows
<1>6. QED
  BY <1>2, <1>3, <1>4, <1>5 DEF DeleteNode
-----------------------------------------------------------------------------
LEMMA MkcolResolveKeeps ==
    ASSUME IInv, NEW r \in Requests, MkcolResolve(r)
    PROVE  IInv'
<1>1. req[r].pc # "idle" /\ req[r] \in Proper /\ req[r] \in Request
  BY Serving DEF MkcolResolve, At
<1>2. /\ req[r].user \in Users /\ req[r].rel \in Rel /\ req[r].rel # <<>>
      /\ Front(req[r].rel) \in Rel
  BY <1>1, FrontRel DEF Proper, Request
<1>3. RequestsProper' /\ torn' \in BOOLEAN
  <2>1. CASE Fail(r)
    BY <2>1, Over
  <2>2. ASSUME NEW p \in Resolve(req[r].user, req[r].rel),
               req' = [req EXCEPT ![r].pc = "mkcol.check", ![r].path = p], UNCHANGED torn
        PROVE  RequestsProper' /\ torn' \in BOOLEAN
    <3>1. p \in Path /\ p.rel # <<>>
      BY <1>2, Resolved DEF IInv
    <3>2. QED
      BY <1>1, <2>2, <3>1, Finds DEF Plain, PCs
  <2>3. ASSUME NEW p \in Resolve(req[r].user, Front(req[r].rel)),
               req' = [req EXCEPT ![r].pc = "mkcol.save",
                                  ![r].path = Child(p, Last(req[r].rel))],
               UNCHANGED torn
        PROVE  RequestsProper' /\ torn' \in BOOLEAN
    <3>1. Child(p, Last(req[r].rel)) \in Path /\ Child(p, Last(req[r].rel)).rel # <<>>
      BY <1>2, InResolved DEF IInv
    <3>2. QED
      BY <1>1, <2>3, <3>1, Finds DEF Plain, PCs
  <2>4. QED
    BY <2>1, <2>2, <2>3 DEF MkcolResolve
<1>4. QED
  BY <1>3, RequestKeepsIInv DEF MkcolResolve

LEMMA MkcolCheckKeeps ==
    ASSUME IInv, NEW r \in Requests, MkcolCheck(r)
    PROVE  IInv'
<1>1. req[r].pc # "idle"
  BY DEF MkcolCheck, At
<1>2. Fail(r) \/ (GoTo(r, "mkcol.save") /\ UNCHANGED torn)
  BY DEF MkcolCheck
<1>3. RequestsProper' /\ torn' \in BOOLEAN
  BY <1>1, <1>2, Over, GetsOn DEF Plain, PCs
<1>4. QED
  BY <1>3, RequestKeepsIInv DEF MkcolCheck

LEMMA MkcolSaveKeeps ==
    ASSUME IInv, NEW r \in Requests, MkcolSave(r)
    PROVE  IInv'
<1>1. req[r].pc # "idle" /\ req[r].path \in Path
  BY Serving DEF MkcolSave, At, Request
<1>2. QED
  BY <1>1, SaveNodeKeeps DEF MkcolSave
-----------------------------------------------------------------------------
\* The walk: what it visits is listed below the path of the request, never a
\* root.

LEMMA VisitedProper ==
    ASSUME IInv, NEW r \in Requests, req[r].pc # "idle",
           NEW e \in Entry, NEW look \in Plain, NEW done \in Plain
    PROVE  Visited(r, e, look, done) \in Proper
<1> DEFINE left == (req[r].todo \ {e.path}) \union (IF e.dir THEN ListDir(e.path) ELSE {})
           where == IF left = {} THEN done ELSE look
<1>1. req[r] \in Proper /\ req[r] \in Request
  BY Serving
<1>2. \A p \in ListDir(e.path) : p \in Path /\ Inner(p)
  BY DEF Inner, IInv, TypeOK, ListDir, Entry
<1>3. left \subseteq Path /\ \A p \in left : Inner(p)
  BY <1>1, <1>2 DEF Proper, Request
<1>4. Visited(r, e, look, done) =
        [req[r] EXCEPT !.pc = where, !.todo = left, !.at = {}, !.node = {}, !.slot = {}]
  BY DEF Visited
<1>5. where \in Plain
  OBVIOUS
<1> HIDE DEF left, where
<1> DEFINE q == [req[r] EXCEPT !.pc = where, !.todo = left,
                               !.at = {}, !.node = {}, !.slot = {}]
<1>6. q \in Request
  BY <1>1, <1>3, <1>5 DEF Request, Plain
<1>7. /\ q.rel = req[r].rel /\ q.path = req[r].path /\ q.to = req[r].to /\ q.todo = left
      /\ q.at = {} /\ q.node = {} /\ q.pc = where
  BY <1>1 DEF Request
<1> HIDE DEF q
<1>8. q \in Proper
  BY <1>1, <1>3, <1>5, <1>6, <1>7 DEF Proper, Plain
<1>9. QED
  BY <1>4, <1>8 DEF q

LEMMA LookKeeps ==
    ASSUME IInv, NEW r \in Requests, req[r].pc # "idle",
           NEW look \in Plain, NEW next \in Plain, Look(r, look, next)
    PROVE  IInv'
<1>1. req[r] \in Proper /\ req[r] \in Request
  BY Serving
<1>2. RequestsProper' /\ torn' \in BOOLEAN
  <2>1. CASE Fail(r)
    BY <2>1, Over
  <2>2. ASSUME NEW p \in NextVisits(r), NEW e \in disk, e.path = p,
               req' = [req EXCEPT ![r].pc = next, ![r].at = {e}, ![r].node = Rows(p)],
               UNCHANGED torn
        PROVE  RequestsProper' /\ torn' \in BOOLEAN
    <3>1. Inner(p)
      BY <1>1, <2>2 DEF NextVisits, Proper
    <3>2. {e} \subseteq Entry /\ \A x \in {e} : Inner(x.path)
      BY <2>2, <3>1 DEF IInv, TypeOK
    <3>3. Rows(p) \subseteq Node /\ \A x \in Rows(p) : Inner(x.path)
      BY <3>1 DEF Rows, IInv, TypeOK
    <3>4. [req[r] EXCEPT !.pc = next, !.at = {e}, !.node = Rows(p)] \in Proper
      BY <1>1, <3>2, <3>3 DEF Proper, Request, Plain
    <3>5. req' = [req EXCEPT ![r] =
                    [req[r] EXCEPT !.pc = next, !.at = {e}, !.node = Rows(p)]]
      BY <2>2
    <3>6. QED
      BY <2>2, <3>4, <3>5, Becomes
  <2>3. ASSUME NEW e \in disk,
               req' = [req EXCEPT ![r] = Visited(r, e, look, "dav.lock")], UNCHANGED torn
        PROVE  RequestsProper' /\ torn' \in BOOLEAN
    <3>1. e \in Entry /\ "dav.lock" \in Plain
      BY DEF IInv, TypeOK, Plain, PCs
    <3>2. QED
      BY <2>3, <3>1, VisitedProper, Becomes
  <2>4. QED
    BY <2>1, <2>2, <2>3 DEF Look
<1>3. QED
  BY <1>2, RequestKeepsIInv DEF Look

\* A row that is not a home's gets another path.
LEMMA RowGoes ==
    ASSUME IInv, NEW from, Inner(from),
           nodes' \subseteq Node, nodes \ Rows(from) \subseteq nodes',
           RequestsProper', torn' \in BOOLEAN,
           UNCHANGED <<trashnodes, shares, favorites, nextid, disk, counters>>
    PROVE  IInv'
<1>1. \A n \in nodes : n.path \in Homes => n \in nodes'
  BY DEF Inner, Rows, Homes
<1>2. TablesTyped' /\ OriginsInner'
  BY DEF IInv, TypeOK, TablesTyped, OriginsInner
<1>3. starts' \in 0..MaxStarts /\ faults' \in 0..MaxFaults
  BY DEF IInv, TypeOK, counters
<1>4. QED
  BY <1>1, <1>2, <1>3, StepKeepsIInv

LEMMA UpdateRowKeeps ==
    ASSUME IInv, NEW r \in Requests, req[r].pc # "idle", NEW e \in Entry,
           NEW from, Inner(from), NEW to \in Path, NEW transfer \in BOOLEAN,
           NEW look \in Plain, UpdateRow(r, e, from, to, transfer, look),
           UNCHANGED <<trashnodes, shares, favorites, nextid, disk, counters>>
    PROVE  IInv'
<1>1. CASE Fail(r) /\ UNCHANGED nodes
  <2>1. UNCHANGED <<tables, disk, counters>>
    BY <1>1 DEF tables
  <2>2. QED
    BY <1>1, <2>1, Over, RequestKeepsIInv
<1>2. CASE nodes' = (nodes \ Rows(from)) \union {Moved(n, to, transfer) : n \in Rows(from)}
           /\ IF ListingFails(e)
              THEN req' = [req EXCEPT ![r] = Idle] /\ torn' = TRUE
              ELSE /\ req' = [req EXCEPT ![r] =
                                [Visited(r, e, look, "dav.lock") EXCEPT !.wrote = TRUE]]
                   /\ UNCHANGED torn
  <2>1. nodes' \subseteq Node
    <3>1. \A n \in Node : Moved(n, to, transfer) \in Node
      BY DEF Moved, Node, Path
    <3>2. Rows(from) \subseteq Node /\ nodes \subseteq Node
      BY DEF IInv, TypeOK, Rows
    <3>3. QED
      BY <1>2, <3>1, <3>2
  <2>2. nodes \ Rows(from) \subseteq nodes'
    BY <1>2
  <2>3. RequestsProper' /\ torn' \in BOOLEAN
    <3>1. CASE ListingFails(e)
      BY <1>2, <3>1 DEF IInv, RequestsProper
    <3>2. CASE ~ListingFails(e)
      <4>1. "dav.lock" \in Plain
        BY DEF Plain, PCs
      <4>2. Visited(r, e, look, "dav.lock") \in Proper
        BY <4>1, VisitedProper
      <4>3. [Visited(r, e, look, "dav.lock") EXCEPT !.wrote = TRUE] \in Proper
        BY <4>2 DEF Proper, Request
      <4>4. QED
        BY <1>2, <3>2, <4>3, Becomes
    <3>3. QED
      BY <3>1, <3>2
  <2>4. QED
    BY <2>1, <2>2, <2>3, RowGoes
<1>3. QED
  BY <1>1, <1>2 DEF UpdateRow
-----------------------------------------------------------------------------
LEMMA MoveResolveKeeps ==
    ASSUME IInv, NEW r \in Requests, MoveResolve(r)
    PROVE  IInv'
<1>1. req[r].pc # "idle" /\ req[r] \in Proper /\ req[r] \in Request
  BY Serving DEF MoveResolve, At
<1>2. /\ req[r].user \in Users /\ req[r].rel \in Rel /\ req[r].rel # <<>>
      /\ Front(req[r].dst) \in Rel
  BY <1>1, FrontRel DEF Proper, Request
<1>3. RequestsProper' /\ torn' \in BOOLEAN
  <2>1. CASE Fail(r)
    BY <2>1, Over
  <2>2. ASSUME NEW src \in Resolve(req[r].user, req[r].rel),
               NEW p \in Resolve(req[r].user, Front(req[r].dst)),
               req' = [req EXCEPT ![r].pc = "move.check", ![r].path = src,
                                  ![r].to = {Child(p, NameOf(src))}],
               UNCHANGED torn
        PROVE  RequestsProper' /\ torn' \in BOOLEAN
    <3>1. src \in Path /\ src.rel # <<>> /\ p \in Path
      BY <1>2, Resolved DEF IInv
    <3>2. NameOf(src) \in Names
      BY <3>1, LastName DEF NameOf, Path
    <3>3. Child(p, NameOf(src)) \in Path /\ Child(p, NameOf(src)).rel # <<>>
      BY <3>1, <3>2, ChildPath
    <3>4. Inner(src) /\ Inner(Child(p, NameOf(src)))
      BY <3>1, <3>3 DEF Inner
    <3>5. [req[r] EXCEPT !.pc = "move.check", !.path = src,
                         !.to = {Child(p, NameOf(src))}] \in Proper
      <4>1. "move.check" \in Plain
        BY DEF Plain, PCs
      <4>2. QED
        BY <1>1, <3>1, <3>3, <3>4, <4>1 DEF Proper, Request, Plain
    <3>6. req' = [req EXCEPT ![r] = [req[r] EXCEPT !.pc = "move.check", !.path = src,
                                                   !.to = {Child(p, NameOf(src))}]]
      BY <2>2
    <3>7. QED
      BY <2>2, <3>5, <3>6, Becomes
  <2>3. QED
    BY <2>1, <2>2 DEF MoveResolve
<1>4. QED
  BY <1>3, RequestKeepsIInv DEF MoveResolve

\* The walk of MOVE or DELETE begins at the path of the request.
LEMMA WalkBegins ==
    ASSUME IInv, NEW r \in Requests, req[r].pc # "idle", NEW look \in Plain,
           req' = [req EXCEPT ![r].pc = look, ![r].todo = {req[r].path}], UNCHANGED torn
    PROVE  RequestsProper' /\ torn' \in BOOLEAN
<1>1. req[r] \in Proper /\ req[r] \in Request
  BY Serving
<1>2. [req[r] EXCEPT !.pc = look, !.todo = {req[r].path}] \in Proper
  BY <1>1 DEF Proper, Request, Plain
<1>3. req' = [req EXCEPT ![r] = [req[r] EXCEPT !.pc = look, !.todo = {req[r].path}]]
  OBVIOUS
<1>4. QED
  BY <1>2, <1>3, Becomes

LEMMA MoveCheckKeeps ==
    ASSUME IInv, NEW r \in Requests, MoveCheck(r)
    PROVE  IInv'
<1>1. req[r].pc # "idle" /\ "move.look" \in Plain
  BY DEF MoveCheck, At, Plain, PCs
<1>2. RequestsProper' /\ torn' \in BOOLEAN
  BY <1>1, Over, WalkBegins DEF MoveCheck
<1>3. QED
  BY <1>2, RequestKeepsIInv DEF MoveCheck

LEMMA MoveLookKeeps ==
    ASSUME IInv, NEW r \in Requests, MoveLook(r)
    PROVE  IInv'
<1>1. req[r].pc # "idle" /\ {"move.look", "move.transfer"} \subseteq Plain
  BY DEF MoveLook, At, Plain, PCs
<1>2. QED
  BY <1>1, LookKeeps DEF MoveLook

LEMMA MoveTransferKeeps ==
    ASSUME IInv, NEW r \in Requests, MoveTransfer(r)
    PROVE  IInv'
<1>1. req[r].pc # "idle" /\ req[r] \in Proper /\ req[r] \in Request
  BY Serving DEF MoveTransfer, At
<1>2. PICK e \in req[r].at, n \in req[r].node, to \in req[r].to :
        UpdateRow(r, e, n.path, Rebase(n.path, req[r].path, to), TRUE, "move.look")
  BY DEF MoveTransfer
<1>3. e \in Entry /\ n.path \in Path /\ Inner(n.path) /\ to \in Path /\ req[r].path \in Path
  BY <1>1 DEF Proper, Request, Node
<1>4. Rebase(n.path, req[r].path, to) \in Path
  BY <1>3, RebasedPath
<1>5. "move.look" \in Plain
  BY DEF Plain, PCs
<1>6. QED
  BY <1>1, <1>2, <1>3, <1>4, <1>5, UpdateRowKeeps DEF MoveTransfer
-----------------------------------------------------------------------------
LEMMA DeleteResolveKeeps ==
    ASSUME IInv, NEW r \in Requests, DeleteResolve(r)
    PROVE  IInv'
<1>1. req[r].pc # "idle" /\ req[r] \in Proper /\ req[r] \in Request
  BY Serving DEF DeleteResolve, At
<1>2. RequestsProper' /\ torn' \in BOOLEAN
  <2>1. CASE Fail(r)
    BY <2>1, Over
  <2>2. ASSUME NEW p \in Resolve(req[r].user, req[r].rel),
               req' = [req EXCEPT ![r].path = p,
                         ![r].pc = IF p.user = req[r].user THEN "delete.check"
                                                           ELSE "delete.share"],
               UNCHANGED torn
        PROVE  RequestsProper' /\ torn' \in BOOLEAN
    <3> DEFINE where == IF p.user = req[r].user THEN "delete.check" ELSE "delete.share"
    <3>1. req[r].user \in Users /\ req[r].rel \in Rel /\ req[r].rel # <<>>
      BY <1>1 DEF Proper, Request
    <3>2. p \in Path /\ p.rel # <<>>
      BY <3>1, Resolved DEF IInv
    <3>3. where \in Plain
      BY DEF Plain, PCs
    <3>4. req' = [req EXCEPT ![r] = [req[r] EXCEPT !.path = p, !.pc = where]]
      BY <2>2
    <3> HIDE DEF where
    <3>5. [req[r] EXCEPT !.path = p, !.pc = where] \in Proper
      BY <1>1, <3>2, <3>3 DEF Inner, Proper, Request, Plain
    <3>6. QED
      BY <2>2, <3>4, <3>5, Becomes
  <2>3. QED
    BY <2>1, <2>2 DEF DeleteResolve
<1>3. QED
  BY <1>2, RequestKeepsIInv DEF DeleteResolve

LEMMA DeleteShareKeeps ==
    ASSUME IInv, NEW r \in Requests, DeleteShare(r)
    PROVE  IInv'
<1>1. req[r].pc # "idle"
  BY DEF DeleteShare, At
<1>2. Finish(r) \/ (GoTo(r, "delete.check") /\ UNCHANGED torn)
  BY DEF DeleteShare
<1>3. RequestsProper' /\ torn' \in BOOLEAN
  BY <1>1, <1>2, Over, GetsOn DEF Plain, PCs
<1>4. shares' \subseteq shares
  BY DEF DeleteShare
<1>5. TablesTyped' /\ OriginsInner'
  BY <1>4 DEF IInv, TypeOK, TablesTyped, OriginsInner, DeleteShare
<1>6. starts' \in 0..MaxStarts /\ faults' \in 0..MaxFaults
  BY DEF IInv, TypeOK, DeleteShare, counters
<1>7. nodes' = nodes /\ disk' = disk
  BY DEF DeleteShare
<1>8. QED
  BY <1>3, <1>5, <1>6, <1>7, StepKeepsIInv

LEMMA DeleteCheckKeeps ==
    ASSUME IInv, NEW r \in Requests, DeleteCheck(r)
    PROVE  IInv'
<1>1. req[r].pc # "idle" /\ "delete.look" \in Plain
  BY DEF DeleteCheck, At, Plain, PCs
<1>2. RequestsProper' /\ torn' \in BOOLEAN
  BY <1>1, Over, WalkBegins DEF DeleteCheck
<1>3. QED
  BY <1>2, RequestKeepsIInv DEF DeleteCheck

LEMMA DeleteLookKeeps ==
    ASSUME IInv, NEW r \in Requests, DeleteLook(r)
    PROVE  IInv'
<1>1. req[r].pc # "idle" /\ {"delete.look", "delete.mark"} \subseteq Plain
  BY DEF DeleteLook, At, Plain, PCs
<1>2. QED
  BY <1>1, LookKeeps DEF DeleteLook

LEMMA DeleteMarkKeeps ==
    ASSUME IInv, NEW r \in Requests, DeleteMark(r)
    PROVE  IInv'
<1>1. req[r].pc # "idle" /\ req[r] \in Proper /\ req[r] \in Request
  BY Serving DEF DeleteMark, At
<1>2. PICK n \in req[r].node :
        \/ Fail(r) /\ UNCHANGED trashnodes
        \/ /\ trashnodes' = Remembered(r, n)
           /\ req' = [req EXCEPT ![r].pc = "delete.slot", ![r].wrote = TRUE]
           /\ UNCHANGED torn
  BY DEF DeleteMark
<1>3. n \in Node /\ Inner(n.path)
  BY <1>1 DEF Proper, Request
<1>4. RequestsProper' /\ torn' \in BOOLEAN
  <2>1. CASE Fail(r)
    BY <2>1, Over
  <2>2. CASE /\ req' = [req EXCEPT ![r].pc = "delete.slot", ![r].wrote = TRUE]
             /\ UNCHANGED torn
    <3>1. [req[r] EXCEPT !.pc = "delete.slot", !.wrote = TRUE] \in Proper
      <4>1. "delete.slot" \in Plain
        BY DEF Plain, PCs
      <4>2. QED
        BY <1>1, <4>1, ProperWrites
    <3>2. QED
      BY <2>2, <3>1, Becomes
  <2>3. QED
    BY <1>2, <2>1, <2>2
<1>5. trashnodes' \subseteq TrashNode /\ OriginsInner'
  <2>1. CASE UNCHANGED trashnodes
    BY <2>1 DEF IInv, TypeOK, OriginsInner
  <2>2. CASE trashnodes' = Remembered(r, n)
    <3>1. [node |-> n.id, path |-> n.path] \in TrashNode
      BY <1>3 DEF Node, TrashNode
    <3>2. trashnodes' = trashnodes \union {[node |-> n.id, path |-> n.path]}
      BY <2>2 DEF Remembered
    <3>3. QED
      BY <1>3, <3>1, <3>2 DEF IInv, TypeOK, OriginsInner
  <2>3. QED
    BY <1>2, <2>1, <2>2
<1>6. TablesTyped'
  BY <1>5 DEF IInv, TypeOK, TablesTyped, DeleteMark
<1>7. starts' \in 0..MaxStarts /\ faults' \in 0..MaxFaults
  BY DEF IInv, TypeOK, DeleteMark, counters
<1>8. nodes' = nodes /\ disk' = disk
  BY DEF DeleteMark
<1>9. QED
  BY <1>4, <1>5, <1>6, <1>7, <1>8, StepKeepsIInv

\* DELETE's search for a parent in the trash does not run out of names where the
\* trash itself has a row: the last thing it tries is that.
LEMMA TrashIsTried ==
    ASSUME NEW n \in Node, n.path.rel # <<>>
    PROVE  TrashPath(n.owner, <<>>) \in TrashParents(n)
<1> DEFINE L == Len(n.path.rel)
<1>1. n.path.rel \in Rel
  BY DEF Node, Path
<1>2. L \in Nat /\ L >= 1
  BY <1>1, EmptySeq DEF Rel
<1>3. SubSeq(n.path.rel, L, L - 1) = <<>>
  BY <1>2, SubSeqEmpty
<1>4. TrashPath(n.owner, <<>>) = TrashPath(n.owner, SubSeq(n.path.rel, L, L - 1))
  BY <1>3
<1>5. L \in 1 .. L
  BY <1>2
<1> HIDE DEF L
<1>6. QED
  BY <1>4, <1>5 DEF TrashParents, L

\* What it finds is in the trash of the owner.
LEMMA SlotFound ==
    ASSUME NEW n \in Node, n.path.rel # <<>>, \E p \in TrashParents(n) : RowExists(p)
    PROVE  /\ TrashSlot(n) \in Path /\ TrashSlot(n).rel # <<>>
           /\ TrashSlot(n).user = n.owner /\ TrashSlot(n).area = "files_trash"
<1> DEFINE rel == n.path.rel
           L == Len(rel)
           par(i) == TrashPath(n.owner, SubSeq(rel, i, L - 1))
           tried == {i \in 1 .. L : RowExists(par(i))}
           there == {p \in TrashParents(n) : RowExists(p)}
<1>1. n.path \in Path /\ rel \in Rel /\ n.owner \in Users
  BY DEF Node, Path
<1>2. L \in Nat /\ L >= 1
  BY <1>1, EmptySeq DEF Rel
<1>3. \A i \in 1 .. L : par(i) \in Path /\ Len(par(i).rel) = L - i
  <2> SUFFICES ASSUME NEW i \in 1 .. L
               PROVE  par(i) \in Path /\ Len(par(i).rel) = L - i
    OBVIOUS
  <2>1. SubSeq(rel, i, L - 1) \in Rel
    BY <1>1, <1>2, SubRel
  <2>2. \A j \in i .. L - 1 : rel[j] \in Names
    BY <1>1, <1>2 DEF Rel
  <2>3. Len(SubSeq(rel, i, L - 1)) = IF i <= L - 1 THEN L - 1 - i + 1 ELSE 0
    BY <1>2, <2>2, SubSeqProperties
  <2>4. Len(SubSeq(rel, i, L - 1)) = L - i
    BY <1>2, <2>3
  <2>5. QED
    BY <1>1, <2>1, <2>4, HomePaths DEF TrashPath
<1>4. tried # {}
  BY DEF TrashParents
<1>5. PICK m \in tried : \A j \in tried : m <= j
  <2>1. tried \subseteq Nat
    BY <1>2
  <2> HIDE DEF tried
  <2>2. QED
    BY <1>4, <2>1, Smallest
<1>6. TrashParents(n) = {par(i) : i \in 1 .. L}
  BY DEF TrashParents
<1>7. par(m) \in there
  BY <1>5, <1>6
<1>8. \A q \in there : q \in Path /\ \E j \in tried : q = par(j)
  BY <1>3, <1>6
<1>9. \A q \in there : Len(q.rel) <= Len(par(m).rel)
  <2> SUFFICES ASSUME NEW j \in tried
               PROVE  Len(par(j).rel) <= Len(par(m).rel)
    BY <1>8
  <2>1. m <= j /\ m \in 1 .. L /\ j \in 1 .. L
    BY <1>5
  <2>2. Len(par(j).rel) = L - j /\ Len(par(m).rel) = L - m
    BY <1>3, <2>1
  <2>3. QED
    BY <1>2, <2>1, <2>2
<1> DEFINE deepest == CHOOSE p \in there : \A q \in there : Len(q.rel) <= Len(p.rel)
<1>10. deepest \in there
  BY <1>7, <1>9
<1>11. TrashSlot(n) = Child(deepest, NameOf(n.path))
  BY DEF TrashSlot
<1>12. NameOf(n.path) \in Names
  BY <1>1, LastName DEF NameOf
<1>13. deepest.user = n.owner /\ deepest.area = "files_trash"
  <2>1. \A i : par(i).user = n.owner /\ par(i).area = "files_trash"
    BY DEF TrashPath
  <2> HIDE DEF there, par, deepest
  <2>2. PICK j : deepest = par(j)
    BY <1>8, <1>10
  <2>3. QED
    BY <2>1, <2>2
<1> HIDE DEF there, deepest
<1>14. TrashSlot(n) \in Path /\ TrashSlot(n).rel # <<>>
  BY <1>8, <1>10, <1>11, <1>12, ChildPath
<1>15. TrashSlot(n).user = n.owner /\ TrashSlot(n).area = "files_trash"
  BY <1>8, <1>10, <1>11, <1>13 DEF Child, Path
<1>16. QED
  BY <1>14, <1>15

LEMMA DeleteSlotKeeps ==
    ASSUME IInv, NEW r \in Requests, DeleteSlot(r)
    PROVE  IInv'
<1>1. req[r].pc # "idle" /\ req[r] \in Proper /\ req[r] \in Request
  BY Serving DEF DeleteSlot, At
<1>0. CASE Fail(r)
  BY <1>0, Over, RequestKeepsIInv DEF DeleteSlot
<1> SUFFICES ASSUME ~Fail(r) PROVE IInv'
  BY <1>0
<1>2. PICK n \in req[r].node :
        /\ \E p \in TrashParents(n) : RowExists(p)
        /\ req' = [req EXCEPT ![r].pc = "delete.move", ![r].slot = {TrashSlot(n)},
                              ![r].to = IF @ = {} THEN {TrashSlot(n)} ELSE @]
        /\ UNCHANGED torn
  BY DEF DeleteSlot
<1>3. TrashSlot(n) \in Path /\ Inner(TrashSlot(n))
  BY <1>1, <1>2, SlotFound DEF Proper, Request, Inner
<1> DEFINE to == IF req[r].to = {} THEN {TrashSlot(n)} ELSE req[r].to
<1>4. to \subseteq Path /\ \A p \in to : Inner(p)
  BY <1>1, <1>3 DEF Proper, Request
<1>5. req' = [req EXCEPT ![r] = [req[r] EXCEPT !.pc = "delete.move",
                                              !.slot = {TrashSlot(n)}, !.to = to]]
  BY <1>2
<1> HIDE DEF to
<1>6. [req[r] EXCEPT !.pc = "delete.move", !.slot = {TrashSlot(n)}, !.to = to] \in Proper
  <2>1. "delete.move" \in Plain
    BY DEF Plain, PCs
  <2>2. QED
    BY <1>1, <1>3, <1>4, <2>1 DEF Proper, Request, Plain
<1>7. RequestsProper' /\ torn' \in BOOLEAN
  BY <1>2, <1>5, <1>6, Becomes DEF IInv, TypeOK
<1>8. QED
  BY <1>7, RequestKeepsIInv DEF DeleteSlot

LEMMA DeleteMoveKeeps ==
    ASSUME IInv, NEW r \in Requests, DeleteMove(r)
    PROVE  IInv'
<1>1. req[r].pc # "idle" /\ req[r] \in Proper /\ req[r] \in Request
  BY Serving DEF DeleteMove, At
<1>2. PICK e \in req[r].at, n \in req[r].node, to \in req[r].slot :
        UpdateRow(r, e, n.path, to, FALSE, "delete.look")
  BY DEF DeleteMove
<1>3. e \in Entry /\ Inner(n.path) /\ to \in Path /\ "delete.look" \in Plain
  BY <1>1 DEF Proper, Request, Plain, PCs
<1>4. QED
  BY <1>1, <1>2, <1>3, UpdateRowKeeps DEF DeleteMove
-----------------------------------------------------------------------------
\* What the disk of a home has is kept by everything that does not begin at a
\* root.

LEMMA DiskKeeps ==
    ASSUME IInv, disk' \subseteq Entry, \A e \in disk : e.path \in Homes => e \in disk',
           RequestsProper', torn' \in BOOLEAN, UNCHANGED <<tables, counters>>
    PROVE  IInv'
<1>1. /\ TablesTyped' /\ OriginsInner'
      /\ starts' \in 0..MaxStarts /\ faults' \in 0..MaxFaults
  BY DEF IInv, TypeOK, TablesTyped, OriginsInner, tables, counters
<1>2. nodes' = nodes
  BY DEF tables
<1>3. QED
  BY <1>1, <1>2, StepKeepsIInv

LEMMA AddedKeeps ==
    ASSUME IInv, NEW p \in Path, NEW dir \in BOOLEAN,
           disk' = disk \union {[path |-> p, dir |-> dir]},
           RequestsProper', torn' \in BOOLEAN, UNCHANGED <<tables, counters>>
    PROVE  IInv'
<1>1. disk' \subseteq Entry
  BY DEF IInv, TypeOK, Entry
<1>2. QED
  BY <1>1, DiskKeeps

LEMMA RemovedKeeps ==
    ASSUME IInv, NEW p \in Path, Inner(p), disk' = {e \in disk : ~Beneath(e.path, p)},
           RequestsProper', torn' \in BOOLEAN, UNCHANGED <<tables, counters>>
    PROVE  IInv'
<1>1. disk' \subseteq Entry
  BY DEF IInv, TypeOK
<1>2. \A e \in disk : e.path \in Homes => e \in disk'
  BY HomeIsNotUnder
<1>3. QED
  BY <1>1, <1>2, DiskKeeps

LEMMA RenamedKeeps ==
    ASSUME IInv, NEW from \in Path, Inner(from), NEW to \in Path, CanRename(from, to),
           disk' = Renamed(from, to),
           RequestsProper', torn' \in BOOLEAN, UNCHANGED <<tables, counters>>
    PROVE  IInv'
<1>1. disk' \subseteq Entry
  <2>1. \A e \in Entry : [e EXCEPT !.path = Rebase(e.path, from, to)] \in Entry
    <3> SUFFICES ASSUME NEW e \in Entry
                 PROVE  [e EXCEPT !.path = Rebase(e.path, from, to)] \in Entry
      OBVIOUS
    <3>1. Rebase(e.path, from, to) \in Path
      BY RebasedPath DEF Entry
    <3>2. QED
      BY <3>1 DEF Entry
  <2>2. QED
    BY <2>1 DEF IInv, TypeOK, Renamed
<1>2. \A e \in disk : e.path \in Homes => e \in disk'
  BY HomeIsNotUnder DEF CanRename, Renamed, Homes
<1>3. QED
  BY <1>1, <1>2, DiskKeeps
-----------------------------------------------------------------------------
LEMMA DavLockKeeps ==
    ASSUME IInv, NEW r \in Requests, DavLock(r)
    PROVE  IInv'
<1>1. req[r].pc # "idle"
  BY DEF DavLock, At
<1>2. \/ Fail(r)
      \/ \E where \in {"dav.target", "dav.serve"} : GoTo(r, where) /\ UNCHANGED torn
  BY DEF DavLock
<1>3. RequestsProper' /\ torn' \in BOOLEAN
  BY <1>1, <1>2, Over, GetsOn DEF Plain, PCs
<1>4. QED
  BY <1>3, RequestKeepsIInv DEF DavLock

LEMMA DavTargetKeeps ==
    ASSUME IInv, NEW r \in Requests, DavTarget(r)
    PROVE  IInv'
<1>1. req[r].pc # "idle" /\ req[r] \in Proper /\ req[r] \in Request
  BY Serving DEF DavTarget, At
<1>2. PICK to \in req[r].to :
        \/ GoTo(r, "dav.serve") /\ UNCHANGED <<disk, torn>>
        \/ /\ disk' = {e \in disk : ~Beneath(e.path, to)}
           /\ req' = [req EXCEPT ![r].pc = "dav.serve", ![r].wrote = TRUE]
           /\ UNCHANGED torn
        \/ Fail(r) /\ UNCHANGED disk
  BY DEF DavTarget
<1>3. to \in Path /\ Inner(to)
  BY <1>1 DEF Proper, Request
<1>4. UNCHANGED <<tables, counters>>
  BY DEF DavTarget
<1>5. CASE GoTo(r, "dav.serve") /\ UNCHANGED <<disk, torn>>
  <2>1. RequestsProper' /\ torn' \in BOOLEAN
    BY <1>1, <1>5, GetsOn DEF Plain, PCs
  <2>2. QED
    BY <1>4, <1>5, <2>1, RequestKeepsIInv
<1>6. CASE /\ disk' = {e \in disk : ~Beneath(e.path, to)}
           /\ req' = [req EXCEPT ![r].pc = "dav.serve", ![r].wrote = TRUE]
           /\ UNCHANGED torn
  <2>1. [req[r] EXCEPT !.pc = "dav.serve", !.wrote = TRUE] \in Proper
    <3>1. "dav.serve" \in Plain
      BY DEF Plain, PCs
    <3>2. QED
      BY <1>1, <3>1, ProperWrites
  <2>2. RequestsProper' /\ torn' \in BOOLEAN
    BY <1>6, <2>1, Becomes
  <2>3. QED
    BY <1>3, <1>4, <1>6, <2>2, RemovedKeeps
<1>7. CASE Fail(r) /\ UNCHANGED disk
  BY <1>4, <1>7, Over, RequestKeepsIInv
<1>8. QED
  BY <1>2, <1>5, <1>6, <1>7

LEMMA DavPutKeeps ==
    ASSUME IInv, NEW r \in Requests, DavPut(r)
    PROVE  IInv'
<1>1. req[r].path \in Path
  BY Serving DEF DavPut, At, Request
<1>2. RequestsProper' /\ torn' \in BOOLEAN /\ UNCHANGED <<tables, counters>>
  BY Over DEF DavPut, Serves
<1>3. disk' = disk \/ disk' = disk \union {[path |-> req[r].path, dir |-> FALSE]}
  BY DEF DavPut, Serves
<1>4. QED
  BY <1>1, <1>2, <1>3, AddedKeeps, RequestKeepsIInv

LEMMA DavMkcolKeeps ==
    ASSUME IInv, NEW r \in Requests, DavMkcol(r)
    PROVE  IInv'
<1>1. req[r].path \in Path
  BY Serving DEF DavMkcol, At, Request
<1>2. RequestsProper' /\ torn' \in BOOLEAN /\ UNCHANGED <<tables, counters>>
  BY Over DEF DavMkcol, Serves
<1>3. disk' = disk \/ disk' = disk \union {[path |-> req[r].path, dir |-> TRUE]}
  BY DEF DavMkcol, Serves
<1>4. QED
  BY <1>1, <1>2, <1>3, AddedKeeps, RequestKeepsIInv

LEMMA DavMoveKeeps ==
    ASSUME IInv, NEW r \in Requests, DavMove(r)
    PROVE  IInv'
<1>1. req[r].path \in Path /\ Inner(req[r].path) /\ req[r].to \subseteq Path
  BY Serving DEF DavMove, At, Proper, Request
<1>2. PICK to \in req[r].to :
        Serves(r, CanRename(req[r].path, to), Renamed(req[r].path, to))
  BY DEF DavMove
<1>3. RequestsProper' /\ torn' \in BOOLEAN /\ UNCHANGED <<tables, counters>>
  BY <1>2, Over DEF Serves
<1>4. \/ disk' = disk
      \/ CanRename(req[r].path, to) /\ disk' = Renamed(req[r].path, to)
  BY <1>2 DEF Serves
<1>5. QED
  BY <1>1, <1>3, <1>4, RenamedKeeps, RequestKeepsIInv
-----------------------------------------------------------------------------
LEMMA UndeleteStatKeeps ==
    ASSUME IInv, NEW r \in Requests, UndeleteStat(r)
    PROVE  IInv'
<1>1. req[r].pc # "idle"
  BY DEF UndeleteStat, At
<1>2. Fail(r) \/ (GoTo(r, "undelete.origin") /\ UNCHANGED torn)
  BY DEF UndeleteStat
<1>3. RequestsProper' /\ torn' \in BOOLEAN
  BY <1>1, <1>2, Over, GetsOn DEF Plain, PCs
<1>4. QED
  BY <1>3, RequestKeepsIInv DEF UndeleteStat

LEMMA OriginInner ==
    ASSUME IInv, NEW p
    PROVE  \A origin \in Origins(p) : origin \in Path /\ Inner(origin)
BY DEF IInv, TypeOK, OriginsInner, Origins, TrashNode

LEMMA UndeleteOriginKeeps ==
    ASSUME IInv, NEW r \in Requests, UndeleteOrigin(r)
    PROVE  IInv'
<1>1. req[r].pc # "idle" /\ req[r] \in Proper /\ req[r] \in Request
  BY Serving DEF UndeleteOrigin, At
<1>2. RequestsProper' /\ torn' \in BOOLEAN
  <2>1. CASE Fail(r)
    BY <2>1, Over
  <2>2. ASSUME NEW origin \in Origins(req[r].path),
               req' = [req EXCEPT ![r].pc = "undelete.parent", ![r].to = {origin}],
               UNCHANGED torn
        PROVE  RequestsProper' /\ torn' \in BOOLEAN
    <3>1. origin \in Path /\ Inner(origin)
      BY OriginInner
    <3>2. [req[r] EXCEPT !.pc = "undelete.parent", !.to = {origin}] \in Proper
      <4>1. "undelete.parent" \in Plain
        BY DEF Plain, PCs
      <4>2. QED
        BY <1>1, <3>1, <4>1 DEF Proper, Request, Plain
    <3>3. QED
      BY <2>2, <3>2, Becomes
  <2>3. QED
    BY <2>1, <2>2 DEF UndeleteOrigin
<1>3. QED
  BY <1>2, RequestKeepsIInv DEF UndeleteOrigin

LEMMA OriginParentPath ==
    ASSUME NEW r, NEW p \in Path
    PROVE  OriginParent(r, p) \in Path
BY ParentPath DEF OriginParent, Path

LEMMA RestoredPath ==
    ASSUME IInv, NEW r \in Requests, req[r].pc # "idle", NEW p \in Path
    PROVE  Restored(r, p) \in Path
<1> DEFINE lost == CHOOSE q \in req[r].skip : TRUE
<1>1. req[r].skip \subseteq Path
  BY Serving DEF Request
<1>2. CASE req[r].skip = {}
  BY <1>2 DEF Restored
<1>3. CASE req[r].skip # {}
  <2>1. lost \in Path
    BY <1>1, <1>3
  <2> HIDE DEF lost
  <2>2. CutFirst(p, lost.rel) \in Path
    BY <2>1, CutPath DEF Path
  <2>3. [p EXCEPT !.area = "garbled"] \in Path
    BY DEF Path
  <2>4. Restored(r, p) \in {CutFirst(p, lost.rel), [p EXCEPT !.area = "garbled"], p}
    BY <1>3 DEF Restored, lost
  <2>5. QED
    BY <2>2, <2>3, <2>4
<1>4. QED
  BY <1>2, <1>3

LEMMA UndeleteParentKeeps ==
    ASSUME IInv, NEW r \in Requests, UndeleteParent(r)
    PROVE  IInv'
<1>1. req[r].pc # "idle" /\ req[r] \in Proper /\ req[r] \in Request
  BY Serving DEF UndeleteParent, At
<1>2. PICK origin \in req[r].to :
        req' = [req EXCEPT ![r].pc = "undelete.look", ![r].todo = {req[r].path},
                           ![r].skip = IF RowExists(OriginParent(r, origin)) THEN {}
                                       ELSE {OriginParent(r, origin)}]
  BY DEF UndeleteParent
<1> DEFINE skip == IF RowExists(OriginParent(r, origin)) THEN {} ELSE {OriginParent(r, origin)}
<1>3. skip \subseteq Path
  BY <1>1, OriginParentPath DEF Request
<1>4. req' = [req EXCEPT ![r] = [req[r] EXCEPT !.pc = "undelete.look",
                                              !.todo = {req[r].path}, !.skip = skip]]
  BY <1>2
<1> HIDE DEF skip
<1>5. [req[r] EXCEPT !.pc = "undelete.look", !.todo = {req[r].path}, !.skip = skip] \in Proper
  <2>1. "undelete.look" \in Plain
    BY DEF Plain, PCs
  <2>2. QED
    BY <1>1, <1>3, <2>1 DEF Proper, Request, Plain
<1>6. RequestsProper' /\ torn' \in BOOLEAN
  BY <1>4, <1>5, Becomes DEF UndeleteParent
<1>7. QED
  BY <1>6, RequestKeepsIInv DEF UndeleteParent

LEMMA GivesUp ==
    ASSUME IInv, NEW r \in Requests, req[r].pc # "idle", NEW answered \in BOOLEAN,
           GiveUpWalk(r, answered), UNCHANGED torn
    PROVE  RequestsProper' /\ torn' \in BOOLEAN
<1>1. req[r] \in Proper /\ req[r] \in Request
  BY Serving
<1>2. \A bad \in BOOLEAN : [req[r] EXCEPT !.pc = "undelete.rename", !.bad = bad] \in Proper
  <2>1. "undelete.rename" \in Plain
    BY DEF Plain, PCs
  <2>2. QED
    BY <1>1, <2>1 DEF Proper, Request, Plain
<1>3. req' = [req EXCEPT ![r] =
                [req[r] EXCEPT !.pc = "undelete.rename", !.bad = @ \/ answered]]
  BY DEF GiveUpWalk
<1>4. (req[r].bad \/ answered) \in BOOLEAN
  OBVIOUS
<1>5. QED
  BY <1>2, <1>3, <1>4, Becomes

LEMMA UndeleteLookKeeps ==
    ASSUME IInv, NEW r \in Requests, UndeleteLook(r)
    PROVE  IInv'
<1>1. req[r].pc # "idle" /\ req[r] \in Proper /\ req[r] \in Request
  BY Serving DEF UndeleteLook, At
<1>2. RequestsProper' /\ torn' \in BOOLEAN
  <2>1. CASE GiveUpWalk(r, FALSE) /\ UNCHANGED torn
    BY <1>1, <2>1, GivesUp
  <2>2. CASE Fail(r)
    BY <2>2, Over
  <2>3. ASSUME NEW p \in NextVisits(r), NEW e \in disk, e.path = p,
               NEW origin \in Origins(p),
               req' = [req EXCEPT ![r].pc = "undelete.move", ![r].at = {e},
                                  ![r].slot = {origin}],
               UNCHANGED torn
        PROVE  RequestsProper' /\ torn' \in BOOLEAN
    <3>1. e \in Entry /\ Inner(e.path)
      BY <1>1, <2>3 DEF NextVisits, Proper, IInv, TypeOK
    <3>2. {origin} \subseteq Path
      BY OriginInner
    <3>3. {e} \subseteq Entry /\ \A x \in {e} : Inner(x.path)
      BY <3>1
    <3>4. "undelete.move" \in Plain
      BY DEF Plain, PCs
    <3>5. [req[r] EXCEPT !.pc = "undelete.move", !.at = {e}, !.slot = {origin}] \in Proper
      BY <1>1, <3>2, <3>3, <3>4 DEF Proper, Request, Plain
    <3>6. req' = [req EXCEPT ![r] =
                    [req[r] EXCEPT !.pc = "undelete.move", !.at = {e}, !.slot = {origin}]]
      BY <2>3
    <3>7. QED
      BY <2>3, <3>5, <3>6, Becomes
  <2>4. QED
    BY <2>1, <2>2, <2>3 DEF UndeleteLook
<1>3. QED
  BY <1>2, RequestKeepsIInv DEF UndeleteLook

LEMMA UndeleteMoveKeeps ==
    ASSUME IInv, NEW r \in Requests, UndeleteMove(r)
    PROVE  IInv'
<1>1. req[r].pc # "idle" /\ req[r] \in Proper /\ req[r] \in Request
  BY Serving DEF UndeleteMove, At
<1>2. PICK e \in req[r].at, origin \in req[r].slot :
        \/ /\ nodes' = (nodes \ Rows(e.path)) \union
                         {[n EXCEPT !.path = Restored(r, origin)] : n \in Rows(e.path)}
           /\ req' = [req EXCEPT ![r].pc = "undelete.forget", ![r].wrote = TRUE]
        \/ GiveUpWalk(r, TRUE) /\ UNCHANGED nodes
  BY DEF UndeleteMove
<1>3. Inner(e.path) /\ Restored(r, origin) \in Path
  BY <1>1, RestoredPath DEF Proper, Request
<1>4. CASE /\ nodes' = (nodes \ Rows(e.path)) \union
                         {[n EXCEPT !.path = Restored(r, origin)] : n \in Rows(e.path)}
           /\ req' = [req EXCEPT ![r].pc = "undelete.forget", ![r].wrote = TRUE]
  <2>1. [req[r] EXCEPT !.pc = "undelete.forget", !.wrote = TRUE] \in Proper
    <3>1. "undelete.forget" \in Plain
      BY DEF Plain, PCs
    <3>2. QED
      BY <1>1, <3>1, ProperWrites
  <2>2. RequestsProper' /\ torn' \in BOOLEAN
    BY <1>4, <2>1, Becomes DEF UndeleteMove
  <2>3. nodes' \subseteq Node
    <3>1. \A n \in Node : [n EXCEPT !.path = Restored(r, origin)] \in Node
      BY <1>3 DEF Node
    <3>2. Rows(e.path) \subseteq Node /\ nodes \subseteq Node
      BY DEF IInv, TypeOK, Rows
    <3>3. QED
      BY <1>4, <3>1, <3>2
  <2>4. nodes \ Rows(e.path) \subseteq nodes'
    BY <1>4
  <2>5. QED
    BY <1>3, <2>2, <2>3, <2>4, RowGoes DEF UndeleteMove
<1>5. CASE GiveUpWalk(r, TRUE) /\ UNCHANGED nodes
  <2>1. RequestsProper' /\ torn' \in BOOLEAN
    BY <1>1, <1>5, GivesUp DEF UndeleteMove
  <2>2. UNCHANGED <<tables, disk, counters>>
    BY <1>5 DEF UndeleteMove, tables
  <2>3. QED
    BY <2>1, <2>2, RequestKeepsIInv
<1>6. QED
  BY <1>2, <1>4, <1>5

LEMMA UndeleteForgetKeeps ==
    ASSUME IInv, NEW r \in Requests, UndeleteForget(r)
    PROVE  IInv'
<1>1. req[r].pc # "idle" /\ req[r] \in Proper /\ req[r] \in Request
  BY Serving DEF UndeleteForget, At
<1>2. PICK e \in req[r].at, origin \in req[r].slot :
        /\ trashnodes' = {t \in trashnodes : t.path # origin}
        /\ \/ GiveUpWalk(r, FALSE)
           \/ req' = [req EXCEPT ![r] = Visited(r, e, "undelete.look", "undelete.rename")]
  BY DEF UndeleteForget
<1>3. e \in Entry /\ {"undelete.look", "undelete.rename"} \subseteq Plain
  BY <1>1 DEF Request, Plain, PCs
<1>4. RequestsProper' /\ torn' \in BOOLEAN
  <2>1. CASE GiveUpWalk(r, FALSE)
    BY <1>1, <2>1, GivesUp DEF UndeleteForget
  <2>2. CASE req' = [req EXCEPT ![r] = Visited(r, e, "undelete.look", "undelete.rename")]
    BY <1>1, <1>3, <2>2, VisitedProper, Becomes DEF UndeleteForget
  <2>3. QED
    BY <1>2, <2>1, <2>2
<1>5. TablesTyped' /\ OriginsInner'
  BY <1>2 DEF IInv, TypeOK, TablesTyped, OriginsInner, UndeleteForget
<1>6. starts' \in 0..MaxStarts /\ faults' \in 0..MaxFaults
  BY DEF IInv, TypeOK, UndeleteForget, counters
<1>7. nodes' = nodes /\ disk' = disk
  BY DEF UndeleteForget
<1>8. QED
  BY <1>4, <1>5, <1>6, <1>7, StepKeepsIInv

LEMMA UndeleteRenameKeeps ==
    ASSUME IInv, NEW r \in Requests, UndeleteRename(r)
    PROVE  IInv'
<1>1. /\ req[r].pc # "idle" /\ req[r].path \in Path /\ Inner(req[r].path)
      /\ req[r].to \subseteq Path
  BY Serving DEF UndeleteRename, At, Proper, Request
<1>2. PICK origin \in req[r].to :
        \/ /\ CanRename(req[r].path, Restored(r, origin))
           /\ disk' = Renamed(req[r].path, Restored(r, origin)) /\ Finish(r)
        \/ Fail(r) /\ UNCHANGED disk
  BY DEF UndeleteRename
<1>3. Restored(r, origin) \in Path
  BY <1>1, RestoredPath
<1>4. RequestsProper' /\ torn' \in BOOLEAN /\ UNCHANGED <<tables, counters>>
  BY <1>2, Over DEF UndeleteRename
<1>5. QED
  BY <1>1, <1>2, <1>3, <1>4, RenamedKeeps, RequestKeepsIInv

LEMMA PurgeRemoveKeeps ==
    ASSUME IInv, NEW r \in Requests, PurgeRemove(r)
    PROVE  IInv'
<1>1. req[r].pc # "idle" /\ req[r] \in Proper /\ req[r] \in Request
  BY Serving DEF PurgeRemove, At
<1>2. UNCHANGED <<tables, counters>>
  BY DEF PurgeRemove
<1>3. CASE /\ disk' = {e \in disk : ~Beneath(e.path, req[r].path)}
           /\ req' = [req EXCEPT ![r].pc = "del.shares", ![r].wrote = TRUE]
           /\ UNCHANGED torn
  <2>1. [req[r] EXCEPT !.pc = "del.shares", !.wrote = TRUE] \in Proper
    <3>1. "del.shares" \in Plain
      BY DEF Plain, PCs
    <3>2. QED
      BY <1>1, <3>1, ProperWrites
  <2>2. RequestsProper' /\ torn' \in BOOLEAN
    BY <1>3, <2>1, Becomes
  <2>3. req[r].path \in Path /\ Inner(req[r].path)
    BY <1>1 DEF Proper, Request
  <2>4. QED
    BY <1>2, <1>3, <2>2, <2>3, RemovedKeeps
<1>4. CASE Fail(r) /\ UNCHANGED disk
  BY <1>2, <1>4, Over, RequestKeepsIInv
<1>5. QED
  BY <1>3, <1>4 DEF PurgeRemove
-----------------------------------------------------------------------------
\* Shares and favorites: nothing a home consists of is written.

LEMMA ReferencesKeep ==
    ASSUME IInv, shares' \subseteq Share, favorites' \subseteq Favorite, nextid' \in Nat,
           RequestsProper', torn' \in BOOLEAN,
           UNCHANGED <<nodes, trashnodes, disk, counters>>
    PROVE  IInv'
<1>1. TablesTyped' /\ OriginsInner'
  BY DEF IInv, TypeOK, TablesTyped, OriginsInner
<1>2. starts' \in 0..MaxStarts /\ faults' \in 0..MaxFaults
  BY DEF IInv, TypeOK, counters
<1>3. QED
  BY <1>1, <1>2, StepKeepsIInv

LEMMA ShareLookupKeeps ==
    ASSUME IInv, NEW r \in Requests, ShareLookup(r)
    PROVE  IInv'
<1> DEFINE p == FilesPath(req[r].user, req[r].rel)
<1>1. req[r].pc # "idle" /\ req[r] \in Proper /\ req[r] \in Request
  BY Serving DEF ShareLookup, At
<1>2. Inner(p)
  BY <1>1 DEF Proper, Inner, FilesPath
<1>3. CASE Fail(r)
  BY <1>3, Over, RequestKeepsIInv DEF ShareLookup
<1>4. CASE /\ req' = [req EXCEPT ![r].pc = "share.insert", ![r].node = Rows(p)]
           /\ UNCHANGED torn
  <2> HIDE DEF p
  <2>1. Rows(p) \subseteq Node /\ \A x \in Rows(p) : Inner(x.path)
    BY <1>2 DEF Rows, IInv, TypeOK
  <2>2. [req[r] EXCEPT !.pc = "share.insert", !.node = Rows(p)] \in Proper
    <3>1. "share.insert" \in Plain
      BY DEF Plain, PCs
    <3>2. QED
      BY <1>1, <2>1, <3>1 DEF Proper, Request, Plain
  <2>3. RequestsProper' /\ torn' \in BOOLEAN
    BY <1>4, <2>2, Becomes
  <2>4. QED
    BY <2>3, RequestKeepsIInv DEF ShareLookup
<1>5. QED
  BY <1>3, <1>4 DEF ShareLookup

LEMMA ShareInsertKeeps ==
    ASSUME IInv, NEW r \in Requests, ShareInsert(r)
    PROVE  IInv'
<1>1. req[r].pc # "idle" /\ req[r] \in Proper /\ req[r] \in Request
  BY Serving DEF ShareInsert, At
<1>2. PICK n \in req[r].node :
        \/ /\ shares' = shares \union
                          {[id |-> nextid, node |-> n.id, target |-> req[r].target]}
           /\ nextid' = nextid + 1
           /\ req' = [req EXCEPT ![r].pc = "share.read", ![r].wrote = TRUE]
           /\ UNCHANGED torn
        \/ Fail(r) /\ UNCHANGED <<shares, nextid>>
  BY DEF ShareInsert
<1>3. CASE /\ shares' = shares \union
                          {[id |-> nextid, node |-> n.id, target |-> req[r].target]}
           /\ nextid' = nextid + 1
           /\ req' = [req EXCEPT ![r].pc = "share.read", ![r].wrote = TRUE]
           /\ UNCHANGED torn
  <2>1. [req[r] EXCEPT !.pc = "share.read", !.wrote = TRUE] \in Proper
    <3>1. "share.read" \in Plain
      BY DEF Plain, PCs
    <3>2. QED
      BY <1>1, <3>1, ProperWrites
  <2>2. RequestsProper' /\ torn' \in BOOLEAN
    BY <1>3, <2>1, Becomes
  <2>3. [id |-> nextid, node |-> n.id, target |-> req[r].target] \in Share
    BY <1>1 DEF IInv, TypeOK, Request, Node, Share
  <2>4. /\ shares' \subseteq Share /\ favorites' \subseteq Favorite /\ nextid' \in Nat
        /\ UNCHANGED <<nodes, trashnodes, disk, counters>>
    BY <1>3, <2>3 DEF IInv, TypeOK, ShareInsert
  <2>5. QED
    BY <2>2, <2>4, ReferencesKeep
<1>4. CASE Fail(r) /\ UNCHANGED <<shares, nextid>>
  <2>1. UNCHANGED <<tables, disk, counters>>
    BY <1>4 DEF ShareInsert, tables
  <2>2. QED
    BY <1>4, <2>1, Over, RequestKeepsIInv
<1>5. QED
  BY <1>2, <1>3, <1>4

LEMMA ShareReadKeeps ==
    ASSUME IInv, NEW r \in Requests, ShareRead(r)
    PROVE  IInv'
<1>1. Finish(r) \/ Fail(r)
  BY DEF ShareRead
<1>2. QED
  BY <1>1, Over, RequestKeepsIInv DEF ShareRead

LEMMA UnshareDeleteKeeps ==
    ASSUME IInv, NEW r \in Requests, UnshareDelete(r)
    PROVE  IInv'
<1>1. RequestsProper' /\ torn' \in BOOLEAN
  BY Over DEF UnshareDelete
<1>2. /\ shares' \subseteq Share /\ favorites' \subseteq Favorite /\ nextid' \in Nat
      /\ UNCHANGED <<nodes, trashnodes, disk, counters>>
  BY DEF IInv, TypeOK, UnshareDelete
<1>3. QED
  BY <1>1, <1>2, ReferencesKeep

LEMMA FavoriteResolveKeeps ==
    ASSUME IInv, NEW r \in Requests, FavoriteResolve(r)
    PROVE  IInv'
<1>1. req[r].pc # "idle" /\ req[r] \in Proper /\ req[r] \in Request
  BY Serving DEF FavoriteResolve, At
<1>2. RequestsProper' /\ torn' \in BOOLEAN
  <2>1. CASE Fail(r)
    BY <2>1, Over
  <2>2. ASSUME NEW p \in AjaxResolve(req[r].user, req[r].rel),
               req' = [req EXCEPT ![r].pc = "favorite.unmark", ![r].path = p],
               UNCHANGED torn
        PROVE  RequestsProper' /\ torn' \in BOOLEAN
    <3>1. req[r].user \in Users /\ req[r].rel \in Rel /\ req[r].rel # <<>>
      BY <1>1 DEF Proper, Request
    <3>2. p \in Path /\ p.rel # <<>>
      BY <3>1, Resolved DEF IInv
    <3>3. QED
      BY <1>1, <2>2, <3>2, Finds DEF Plain, PCs
  <2>3. QED
    BY <2>1, <2>2 DEF FavoriteResolve
<1>3. QED
  BY <1>2, RequestKeepsIInv DEF FavoriteResolve

LEMMA FavoriteUnmarkKeeps ==
    ASSUME IInv, NEW r \in Requests, FavoriteUnmark(r)
    PROVE  IInv'
<1> DEFINE gone == {f \in favorites : /\ f.user = req[r].user
                                      /\ \E n \in Rows(req[r].path) : n.id = f.node}
<1>1. req[r].pc # "idle" /\ req[r] \in Proper /\ req[r] \in Request
  BY Serving DEF FavoriteUnmark, At
<1>2. /\ shares' \subseteq Share /\ favorites' \subseteq Favorite /\ nextid' \in Nat
      /\ UNCHANGED <<nodes, trashnodes, disk, counters>>
  BY DEF IInv, TypeOK, FavoriteUnmark
<1>3. \/ Finish(r)
      \/ /\ req' = [req EXCEPT ![r].pc = "favorite.mark", ![r].wrote = @ \/ gone # {}]
         /\ UNCHANGED torn
  BY DEF FavoriteUnmark
<1> HIDE DEF gone
<1>4. RequestsProper' /\ torn' \in BOOLEAN
  <2>1. CASE Finish(r)
    BY <2>1, Over
  <2>2. CASE /\ req' = [req EXCEPT ![r].pc = "favorite.mark", ![r].wrote = @ \/ gone # {}]
             /\ UNCHANGED torn
    <3>1. \A w \in BOOLEAN : [req[r] EXCEPT !.pc = "favorite.mark", !.wrote = w] \in Proper
      <4>1. "favorite.mark" \in Plain
        BY DEF Plain, PCs
      <4>2. QED
        BY <1>1, <4>1, ProperWrites
    <3>2. req' = [req EXCEPT ![r] =
                    [req[r] EXCEPT !.pc = "favorite.mark", !.wrote = @ \/ gone # {}]]
      BY <2>2
    <3>3. (req[r].wrote \/ gone # {}) \in BOOLEAN
      OBVIOUS
    <3>4. QED
      BY <2>2, <3>1, <3>2, <3>3, Becomes
  <2>3. QED
    BY <1>3, <2>1, <2>2
<1>5. QED
  BY <1>2, <1>4, ReferencesKeep

LEMMA FavoriteMarkKeeps ==
    ASSUME IInv, NEW r \in Requests, FavoriteMark(r)
    PROVE  IInv'
<1> DEFINE ids == IF RowExists(req[r].path) THEN {n.id : n \in Rows(req[r].path)} ELSE {Null}
<1>1. req[r].user \in Users
  BY Serving DEF FavoriteMark, At, Request
<1>2. ids \subseteq Nat
  BY DEF IInv, TypeOK, Rows, Node, Null
<1>3. PICK i \in ids :
        \/ Fail(r) /\ UNCHANGED favorites
        \/ Finish(r) /\ favorites' = favorites \union {[node |-> i, user |-> req[r].user]}
  BY DEF FavoriteMark
<1>4. RequestsProper' /\ torn' \in BOOLEAN
  BY <1>3, Over
<1>5. [node |-> i, user |-> req[r].user] \in Favorite
  BY <1>1, <1>2 DEF Favorite
<1>6. favorites' \subseteq Favorite
  BY <1>3, <1>5 DEF IInv, TypeOK
<1>7. /\ shares' \subseteq Share /\ nextid' \in Nat
      /\ UNCHANGED <<nodes, trashnodes, disk, counters>>
  BY DEF IInv, TypeOK, FavoriteMark
<1>8. QED
  BY <1>4, <1>6, <1>7, ReferencesKeep
-----------------------------------------------------------------------------
LEMMA UploadResolveKeeps ==
    ASSUME IInv, NEW r \in Requests, UploadResolve(r)
    PROVE  IInv'
<1>1. req[r].pc # "idle" /\ req[r] \in Proper /\ req[r] \in Request
  BY Serving DEF UploadResolve, At
<1>2. /\ req[r].user \in Users /\ req[r].rel \in Rel /\ req[r].rel # <<>>
      /\ Front(req[r].rel) \in Rel
  BY <1>1, FrontRel DEF Proper, Request
<1>3. RequestsProper' /\ torn' \in BOOLEAN
  <2>1. CASE Fail(r)
    BY <2>1, Over
  <2>2. ASSUME NEW p \in AjaxResolve(req[r].user, Front(req[r].rel)),
               req' = [req EXCEPT ![r].pc = "upload.create",
                                  ![r].path = Child(p, Last(req[r].rel))],
               UNCHANGED torn
        PROVE  RequestsProper' /\ torn' \in BOOLEAN
    <3>1. Child(p, Last(req[r].rel)) \in Path /\ Child(p, Last(req[r].rel)).rel # <<>>
      BY <1>2, InResolved DEF IInv
    <3>2. QED
      BY <1>1, <2>2, <3>1, Finds DEF Plain, PCs
  <2>3. QED
    BY <2>1, <2>2 DEF UploadResolve
<1>4. QED
  BY <1>3, RequestKeepsIInv DEF UploadResolve

LEMMA UploadCreateKeeps ==
    ASSUME IInv, NEW r \in Requests, UploadCreate(r)
    PROVE  IInv'
<1>1. req[r].pc # "idle" /\ req[r] \in Proper /\ req[r] \in Request
  BY Serving DEF UploadCreate, At
<1>2. UNCHANGED <<tables, counters>>
  BY DEF UploadCreate
<1>3. CASE /\ disk' = Created(req[r].path)
           /\ req' = [req EXCEPT ![r].pc = "upload.save", ![r].wrote = TRUE]
           /\ UNCHANGED torn
  <2>1. [req[r] EXCEPT !.pc = "upload.save", !.wrote = TRUE] \in Proper
    <3>1. "upload.save" \in Plain
      BY DEF Plain, PCs
    <3>2. QED
      BY <1>1, <3>1, ProperWrites
  <2>2. RequestsProper' /\ torn' \in BOOLEAN
    BY <1>3, <2>1, Becomes
  <2>3. req[r].path \in Path
    BY <1>1 DEF Request
  <2>4. QED
    BY <1>2, <1>3, <2>2, <2>3, AddedKeeps DEF Created
<1>4. CASE Fail(r) /\ UNCHANGED disk
  BY <1>2, <1>4, Over, RequestKeepsIInv
<1>5. QED
  BY <1>3, <1>4 DEF UploadCreate

LEMMA UploadSaveKeeps ==
    ASSUME IInv, NEW r \in Requests, UploadSave(r)
    PROVE  IInv'
<1>1. req[r].path \in Path
  BY Serving DEF UploadSave, At, Request
<1>2. RequestsProper' /\ torn' \in BOOLEAN
  BY Over DEF UploadSave
<1>3. \/ UNCHANGED <<nodes, nextid>>
      \/ nodes' = Inserted(req[r].path, FALSE) /\ nextid' = nextid + 1
  BY DEF UploadSave
<1>4. UNCHANGED <<trashnodes, shares, favorites, disk, counters>>
  BY DEF UploadSave
<1>5. CASE UNCHANGED <<nodes, nextid>>
  <2>1. UNCHANGED <<tables, disk, counters>>
    BY <1>4, <1>5 DEF tables
  <2>2. QED
    BY <1>2, <2>1, RequestKeepsIInv
<1>6. CASE nodes' = Inserted(req[r].path, FALSE) /\ nextid' = nextid + 1
  BY <1>1, <1>2, <1>4, <1>6, InsertKeeps
<1>7. QED
  BY <1>3, <1>5, <1>6

LEMMA UpdirResolveKeeps ==
    ASSUME IInv, NEW r \in Requests, UpdirResolve(r)
    PROVE  IInv'
<1> DEFINE full == Front(req[r].rel)
<1>1. req[r].pc # "idle" /\ req[r] \in Proper /\ req[r] \in Request
  BY Serving DEF UpdirResolve, At
<1>2. /\ req[r].user \in Users /\ req[r].rel \in Rel /\ req[r].rel # <<>>
      /\ full \in Rel
  BY <1>1, FrontRel DEF Proper, Request
<1> HIDE DEF full
<1>3. \A inHome : UpdirPlaces(req[r].user, full, inHome) \subseteq Path
  <2>1. AjaxRoots(req[r].user, full) \subseteq Node
    BY SharedRows DEF IInv, TypeOK
  <2>2. QED
    BY <1>2, <2>1, HomePaths, NextToPath DEF UpdirPlaces
<1>4. RequestsProper' /\ torn' \in BOOLEAN
  <2>1. CASE Fail(r)
    BY <2>1, Over
  <2>2. ASSUME NEW inHome, NEW p \in UpdirPlaces(req[r].user, full, inHome),
               req' = [req EXCEPT ![r].pc = "updir.scan", ![r].slot = {p},
                                  ![r].path = Child(p, Last(req[r].rel))],
               UNCHANGED torn
        PROVE  RequestsProper' /\ torn' \in BOOLEAN
    <3> DEFINE path == Child(p, Last(req[r].rel))
    <3>1. p \in Path
      BY <1>3
    <3>2. path \in Path /\ Inner(path)
      BY <1>2, <3>1, LastName, ChildPath DEF Inner
    <3>3. req' = [req EXCEPT ![r] =
                    [req[r] EXCEPT !.pc = "updir.scan", !.slot = {p}, !.path = path]]
      BY <2>2
    <3> HIDE DEF path
    <3>4. [req[r] EXCEPT !.pc = "updir.scan", !.slot = {p}, !.path = path] \in Proper
      <4>1. "updir.scan" \in Plain
        BY DEF Plain, PCs
      <4>2. QED
        BY <1>1, <3>1, <3>2, <4>1 DEF Proper, Request, Plain
    <3>5. QED
      BY <2>2, <3>3, <3>4, Becomes
  <2>3. QED
    BY <2>1, <2>2 DEF UpdirResolve, full
<1>5. QED
  BY <1>4, RequestKeepsIInv DEF UpdirResolve

LEMMA UpdirScanKeeps ==
    ASSUME IInv, NEW r \in Requests, UpdirScan(r)
    PROVE  IInv'
<1>1. req[r].pc # "idle" /\ req[r] \in Proper /\ req[r] \in Request
  BY Serving DEF UpdirScan, At
<1>2. PICK p \in req[r].slot :
        IF RowExists(p)
        THEN /\ req' = [req EXCEPT ![r].slot = {},
                          ![r].pc = IF req[r].todo = {} THEN "updir.save" ELSE "updir.mkdir"]
             /\ UNCHANGED torn
        ELSE IF p.rel = <<>>
        THEN Fail(r)
        ELSE /\ req' = [req EXCEPT ![r].todo = @ \union {p}, ![r].slot = {ParentOf(p)}]
             /\ UNCHANGED torn
  BY DEF UpdirScan
<1>3. p \in Path
  BY <1>1 DEF Request
<1>4. RequestsProper' /\ torn' \in BOOLEAN
  <2>1. CASE RowExists(p)
    <3> DEFINE where == IF req[r].todo = {} THEN "updir.save" ELSE "updir.mkdir"
    <3>1. where \in PCs /\ (where \in {"updir.mkdir", "updir.row"} => req[r].todo # {})
      BY DEF PCs
    <3>2. req' = [req EXCEPT ![r] = [req[r] EXCEPT !.slot = {}, !.pc = where]]
      BY <1>2, <2>1
    <3> HIDE DEF where
    <3>3. [req[r] EXCEPT !.slot = {}, !.pc = where] \in Proper
      BY <1>1, <3>1 DEF Proper, Request
    <3>4. QED
      BY <1>2, <2>1, <3>2, <3>3, Becomes
  <2>2. CASE ~RowExists(p) /\ p.rel = <<>>
    BY <1>2, <2>2, Over
  <2>3. CASE ~RowExists(p) /\ p.rel # <<>>
    <3> DEFINE todo == req[r].todo \union {p}
    <3>1. todo \subseteq Path /\ \A q \in todo : Inner(q)
      BY <1>1, <1>3, <2>3 DEF Proper, Request, Inner
    <3>2. todo # {}
      OBVIOUS
    <3>3. req' = [req EXCEPT ![r] = [req[r] EXCEPT !.todo = todo, !.slot = {ParentOf(p)}]]
      BY <1>2, <2>3
    <3>4. {ParentOf(p)} \subseteq Path
      BY <1>3, ParentPath
    <3> HIDE DEF todo
    <3>5. [req[r] EXCEPT !.todo = todo, !.slot = {ParentOf(p)}] \in Proper
      BY <1>1, <3>1, <3>2, <3>4 DEF Proper, Request
    <3>6. QED
      BY <1>2, <2>3, <3>3, <3>5, Becomes
  <2>4. QED
    BY <2>1, <2>2, <2>3
<1>5. QED
  BY <1>4, RequestKeepsIInv DEF UpdirScan

\* The highest of the directories to make is one of them.
LEMMA NextToMake ==
    ASSUME NEW r, req[r].todo \subseteq Path, req[r].todo # {}
    PROVE  /\ UpdirNext(r) \in req[r].todo
           /\ \A p \in req[r].todo : Len(UpdirNext(r).rel) <= Len(p.rel)
<1> DEFINE lens == {Len(p.rel) : p \in req[r].todo}
<1>1. \A p \in req[r].todo : Len(p.rel) \in Nat
  BY LenProperties DEF Path, Rel
<1>2. lens \subseteq Nat /\ lens # {}
  BY <1>1
<1>3. PICK n \in lens : \A m \in lens : n <= m
  <2> HIDE DEF lens
  <2>1. QED
    BY <1>2, Smallest
<1>4. PICK p \in req[r].todo : n = Len(p.rel)
  BY <1>3
<1>5. \A q \in req[r].todo : Len(p.rel) <= Len(q.rel)
  BY <1>3, <1>4
<1>6. QED
  BY <1>5 DEF UpdirNext

LEMMA UpdirMkdirKeeps ==
    ASSUME IInv, NEW r \in Requests, UpdirMkdir(r)
    PROVE  IInv'
<1>1. req[r].pc = "updir.mkdir" /\ req[r] \in Proper /\ req[r] \in Request
  BY Serving DEF UpdirMkdir, At
<1>2. UpdirNext(r) \in Path /\ req[r].todo # {}
  BY <1>1, NextToMake DEF Proper, Request
<1>3. UNCHANGED <<tables, counters>>
  BY DEF UpdirMkdir
<1>4. CASE /\ disk' = disk \union {[path |-> UpdirNext(r), dir |-> TRUE]}
           /\ req' = [req EXCEPT ![r].pc = "updir.row", ![r].wrote = TRUE]
           /\ UNCHANGED torn
  <2>1. [req[r] EXCEPT !.pc = "updir.row", !.wrote = TRUE] \in Proper
    BY <1>1, <1>2 DEF Proper, Request, PCs
  <2>2. RequestsProper' /\ torn' \in BOOLEAN
    BY <1>4, <2>1, Becomes
  <2>3. QED
    BY <1>2, <1>3, <1>4, <2>2, AddedKeeps
<1>5. CASE Fail(r) /\ UNCHANGED disk
  BY <1>3, <1>5, Over, RequestKeepsIInv
<1>6. QED
  BY <1>4, <1>5 DEF UpdirMkdir

LEMMA UpdirRowKeeps ==
    ASSUME IInv, NEW r \in Requests, UpdirRow(r)
    PROVE  IInv'
<1> DEFINE p == UpdirNext(r)
           todo == req[r].todo \ {p}
           where == IF req[r].todo = {p} THEN "updir.save" ELSE "updir.mkdir"
<1>1. req[r].pc = "updir.row" /\ req[r] \in Proper /\ req[r] \in Request
  BY Serving DEF UpdirRow, At
<1>2. p \in req[r].todo /\ p \in Path
  BY <1>1, NextToMake DEF Proper, Request
<1>3. \/ Fail(r) /\ UNCHANGED <<nodes, nextid>>
      \/ /\ nodes' = Inserted(p, TRUE) /\ nextid' = nextid + 1
         /\ req' = [req EXCEPT ![r].todo = todo, ![r].pc = where]
         /\ UNCHANGED torn
  BY DEF UpdirRow
<1>4. UNCHANGED <<trashnodes, shares, favorites, disk, counters>>
  BY DEF UpdirRow
<1>5. where \in PCs /\ (where \in {"updir.mkdir", "updir.row"} => todo # {})
  BY <1>2 DEF PCs
<1>6. todo \subseteq Path /\ \A q \in todo : Inner(q)
  BY <1>1 DEF Proper, Request
<1> HIDE DEF p, todo, where
<1>7. CASE Fail(r) /\ UNCHANGED <<nodes, nextid>>
  <2>1. UNCHANGED <<tables, disk, counters>>
    BY <1>4, <1>7 DEF tables
  <2>2. QED
    BY <1>7, <2>1, Over, RequestKeepsIInv
<1>8. CASE /\ nodes' = Inserted(p, TRUE) /\ nextid' = nextid + 1
           /\ req' = [req EXCEPT ![r].todo = todo, ![r].pc = where]
           /\ UNCHANGED torn
  <2>1. [req[r] EXCEPT !.todo = todo, !.pc = where] \in Proper
    BY <1>1, <1>5, <1>6 DEF Proper, Request
  <2>2. RequestsProper' /\ torn' \in BOOLEAN
    BY ZenonT(40), <1>8, <2>1, Becomes
  <2>3. QED
    BY <1>2, <1>4, <1>8, <2>2, InsertKeeps
<1>9. QED
  BY <1>3, <1>7, <1>8

LEMMA UpdirSaveKeeps ==
    ASSUME IInv, NEW r \in Requests, UpdirSave(r)
    PROVE  IInv'
<1>1. req[r].pc = "updir.save" /\ req[r] \in Proper /\ req[r] \in Request
  BY Serving DEF UpdirSave, At
<1>2. req[r].path \in Path
  BY <1>1 DEF Request
<1>3. UNCHANGED <<trashnodes, shares, favorites, disk, counters>>
  BY DEF UpdirSave
<1>4. CASE Fail(r) /\ UNCHANGED <<nodes, nextid>>
  <2>1. UNCHANGED <<tables, disk, counters>>
    BY <1>3, <1>4 DEF tables
  <2>2. QED
    BY <1>4, <2>1, Over, RequestKeepsIInv
<1>5. CASE /\ nodes' = Inserted(req[r].path, FALSE) /\ nextid' = nextid + 1
           /\ req' = [req EXCEPT ![r].pc = "updir.create", ![r].wrote = TRUE]
           /\ UNCHANGED torn
  <2>1. [req[r] EXCEPT !.pc = "updir.create", !.wrote = TRUE] \in Proper
    <3>1. "updir.create" \in Plain
      BY DEF Plain, PCs
    <3>2. QED
      BY <1>1, <3>1, ProperWrites
  <2>2. RequestsProper' /\ torn' \in BOOLEAN
    BY <1>5, <2>1, Becomes
  <2>3. QED
    BY <1>2, <1>3, <1>5, <2>2, InsertKeeps
<1>6. QED
  BY <1>4, <1>5 DEF UpdirSave

LEMMA UpdirCreateKeeps ==
    ASSUME IInv, NEW r \in Requests, UpdirCreate(r)
    PROVE  IInv'
<1>1. req[r].path \in Path
  BY Serving DEF UpdirCreate, At, Request
<1>2. RequestsProper' /\ torn' \in BOOLEAN /\ UNCHANGED <<tables, counters>>
  BY Over DEF UpdirCreate
<1>3. disk' = disk \/ disk' = Created(req[r].path)
  BY DEF UpdirCreate
<1>4. QED
  BY <1>1, <1>2, <1>3, AddedKeeps, RequestKeepsIInv DEF Created
-----------------------------------------------------------------------------
\* Failures.

LEMMA FaultOfProper ==
    ASSUME IInv, NEW r \in Requests, req[r].pc # "idle", FaultOf(r)
    PROVE  RequestsProper' /\ torn' \in BOOLEAN
<1>1. req[r] \in Proper /\ req[r] \in Request
  BY Serving
<1>2. CASE Fail(r)
  BY <1>2, Over
<1>3. CASE /\ \E where \in {"del.favorites", "del.rows"} : GoTo(r, where)
           /\ UNCHANGED torn
  BY <1>3, GetsOn DEF Plain, PCs
<1>4. CASE /\ req' = [req EXCEPT ![r].pc = "undelete.rename", ![r].bad = TRUE]
           /\ UNCHANGED torn
  <2>1. [req[r] EXCEPT !.pc = "undelete.rename", !.bad = TRUE] \in Proper
    <3>1. "undelete.rename" \in Plain
      BY DEF Plain, PCs
    <3>2. QED
      BY <1>1, <3>1 DEF Proper, Request, Plain
  <2>2. QED
    BY <1>4, <2>1, Becomes
<1>5. QED
  BY <1>2, <1>3, <1>4 DEF FaultOf

LEMMA FaultKeeps ==
    ASSUME IInv, NEW r \in Requests, Fault(r)
    PROVE  IInv'
<1>1. req[r].pc # "idle"
  BY DEF Fault
<1>2. RequestsProper' /\ torn' \in BOOLEAN
  BY <1>1, FaultOfProper DEF Fault
<1>3. req[r].path \in Path
  BY <1>1, Serving DEF Request
<1>4. disk' = disk \/ disk' = disk \union {[path |-> req[r].path, dir |-> FALSE]}
  BY DEF Fault, HalfPut
<1>5. disk' \subseteq Entry /\ disk \subseteq disk'
  <2>1. [path |-> req[r].path, dir |-> FALSE] \in Entry /\ disk \subseteq Entry
    BY <1>3 DEF IInv, TypeOK, Entry
  <2>2. QED
    BY <1>4, <2>1
<1>6. faults' \in 0..MaxFaults /\ starts' \in 0..MaxStarts
  BY StorageAssumption DEF Fault, IInv, TypeOK
<1>7. TablesTyped' /\ OriginsInner' /\ nodes' = nodes
  BY <1>5 DEF Fault, IInv, TypeOK, TablesTyped, OriginsInner, tables
<1>8. QED
  BY <1>2, <1>5, <1>6, <1>7, StepKeepsIInv

LEMMA CrashKeeps ==
    ASSUME IInv, Crash
    PROVE  IInv'
<1>1. RequestsProper'
  BY DEF Crash, RequestsProper
<1>2. torn' \in BOOLEAN
  BY DEF Crash
<1>3. faults' \in 0..MaxFaults /\ starts' \in 0..MaxStarts
  BY StorageAssumption DEF Crash, IInv, TypeOK
<1>4. TablesTyped' /\ OriginsInner' /\ nodes' = nodes /\ disk' = disk
  BY DEF Crash, IInv, TypeOK, TablesTyped, OriginsInner, tables
<1>5. QED
  BY <1>1, <1>2, <1>3, <1>4, StepKeepsIInv

\* A client names a path below a root.
LEMMA StartKeeps ==
    ASSUME RootsUnnamed, IInv, NEW r \in Requests, Start(r)
    PROVE  IInv'
<1>1. PICK op \in Ops, u \in Users, rel \in Rels, dst \in Rels, ow \in BOOLEAN,
           target \in Targets, share \in {Null} \union {s.id : s \in shares} :
        /\ op # "MOVE" => dst = rel /\ ~ow
        /\ op # "SHARE" => target = u
        /\ op = "UNSHARE" <=> share # Null
        /\ op = "UPDIR" => Len(rel) > 1
        /\ req' = [req EXCEPT ![r] =
             [pc |-> FirstStep(op), op |-> op, user |-> u,
              rel |-> rel, dst |-> dst, overwrite |-> ow, target |-> target, share |-> share,
              path |-> TrashPath(u, rel), to |-> {}, todo |-> {}, at |-> {},
              node |-> {}, slot |-> {}, skip |-> {}, bad |-> FALSE, wrote |-> FALSE]]
  BY Zenon DEF Start
<1> DEFINE q ==
          [pc |-> FirstStep(op), op |-> op, user |-> u,
           rel |-> rel, dst |-> dst, overwrite |-> ow, target |-> target, share |-> share,
           path |-> TrashPath(u, rel), to |-> {}, todo |-> {}, at |-> {},
           node |-> {}, slot |-> {}, skip |-> {}, bad |-> FALSE, wrote |-> FALSE]
<1>2. op \in AllOps /\ rel \in Rel /\ rel # <<>> /\ dst \in Rel
  BY StorageAssumption DEF RootsUnnamed
<1>3. share \in Nat
  BY DEF IInv, TypeOK, Share, Null
<1>4. TrashPath(u, rel) \in Path /\ TrashPath(u, rel).rel # <<>>
  BY <1>2, HomePaths DEF TrashPath
<1>5. FirstStep(op) \in Plain
  BY <1>2 DEF FirstStep, AllOps, Plain, PCs
<1>6. q \in Proper
  BY <1>2, <1>3, <1>4, <1>5 DEF Proper, Request, Plain, Inner
<1> HIDE DEF q
<1>7. req' = [req EXCEPT ![r] = q]
  BY <1>1 DEF q
<1>8. RequestsProper' /\ torn' \in BOOLEAN
  BY <1>6, <1>7, Becomes DEF Start
<1>9. faults' \in 0..MaxFaults /\ starts' \in 0..MaxStarts
  BY StorageAssumption DEF Start, IInv, TypeOK
<1>10. TablesTyped' /\ OriginsInner' /\ nodes' = nodes /\ disk' = disk
  BY DEF Start, IInv, TypeOK, TablesTyped, OriginsInner, tables
<1>11. QED
  BY <1>8, <1>9, <1>10, StepKeepsIInv
-----------------------------------------------------------------------------
\* Every step of every request keeps the invariant.

LEMMA DavStepKeeps ==
    ASSUME IInv, NEW r \in Requests, DavStep(r)
    PROVE  IInv'
<1>1. CASE Put(r)
  BY <1>1, PutResolveKeeps, PutSaveKeeps DEF Put
<1>2. CASE DeleteNode(r)
  BY <1>2, DeleteNodeKeeps
<1>3. CASE Mkcol(r)
  BY <1>3, MkcolResolveKeeps, MkcolCheckKeeps, MkcolSaveKeeps DEF Mkcol
<1>4. CASE Move(r)
  BY <1>4, MoveResolveKeeps, MoveCheckKeeps, MoveLookKeeps, MoveTransferKeeps DEF Move
<1>5. CASE Delete(r)
  BY <1>5, DeleteResolveKeeps, DeleteShareKeeps, DeleteCheckKeeps, DeleteLookKeeps,
     DeleteMarkKeeps, DeleteSlotKeeps, DeleteMoveKeeps DEF Delete
<1>6. CASE Webdav(r)
  BY <1>6, DavLockKeeps, DavTargetKeeps, DavPutKeeps, DavMkcolKeeps, DavMoveKeeps DEF Webdav
<1>7. QED
  BY <1>1, <1>2, <1>3, <1>4, <1>5, <1>6 DEF DavStep

LEMMA RequestStepKeeps ==
    ASSUME IInv, NEW r \in Requests, Step(r)
    PROVE  IInv'
<1>1. CASE DavStep(r)
  BY <1>1, DavStepKeeps
<1>2. CASE Undelete(r)
  BY <1>2, UndeleteStatKeeps, UndeleteOriginKeeps, UndeleteParentKeeps, UndeleteLookKeeps,
     UndeleteMoveKeeps, UndeleteForgetKeeps, UndeleteRenameKeeps DEF Undelete
<1>3. CASE PurgeRemove(r)
  BY <1>3, PurgeRemoveKeeps
<1>4. CASE Sharing(r)
  BY <1>4, ShareLookupKeeps, ShareInsertKeeps, ShareReadKeeps, UnshareDeleteKeeps DEF Sharing
<1>5. CASE Favoriting(r)
  BY <1>5, FavoriteResolveKeeps, FavoriteUnmarkKeeps, FavoriteMarkKeeps DEF Favoriting
<1>6. CASE Upload(r)
  BY <1>6, UploadResolveKeeps, UploadCreateKeeps, UploadSaveKeeps, UpdirResolveKeeps,
     UpdirScanKeeps, UpdirMkdirKeeps, UpdirRowKeeps, UpdirSaveKeeps, UpdirCreateKeeps
     DEF Upload
<1>7. QED
  BY <1>1, <1>2, <1>3, <1>4, <1>5, <1>6 DEF Step

LEMMA NextKeeps ==
    ASSUME RootsUnnamed, IInv, [Next]_vars
    PROVE  IInv'
<1>1. CASE Crash
  BY <1>1, CrashKeeps
<1>2. ASSUME NEW r \in Requests, Start(r)
      PROVE  IInv'
  BY <1>2, StartKeeps
<1>3. ASSUME NEW r \in Requests, Step(r)
      PROVE  IInv'
  BY <1>3, RequestStepKeeps
<1>4. ASSUME NEW r \in Requests, Fault(r)
      PROVE  IInv'
  BY <1>4, FaultKeeps
<1>5. CASE UNCHANGED vars
  BY <1>5 DEF vars, IInv, TypeOK, HomesIntact, RequestsProper, OriginsInner
<1>6. QED
  BY <1>1, <1>2, <1>3, <1>4, <1>5 DEF Next, Rest

LEMMA Invariance == RootsUnnamed => (Spec => []IInv)
<1> SUFFICES ASSUME RootsUnnamed
             PROVE  Spec => []IInv
  OBVIOUS
<1>1. Init => IInv
  BY InitIInv
<1>2. IInv /\ [Next]_vars => IInv'
  BY NextKeeps
<1>3. QED
  BY <1>1, <1>2, PTL DEF Spec

\* As long as no client names the root of a home, the tables, the disk and the
\* requests keep their types.
THEOREM TypeCorrect == RootsUnnamed => (Spec => []TypeOK)
<1> SUFFICES ASSUME RootsUnnamed
             PROVE  Spec => []TypeOK
  OBVIOUS
<1>1. IInv => TypeOK
  BY DEF IInv
<1>2. Spec => []IInv
  BY Invariance
<1>3. QED
  BY <1>1, <1>2, PTL

\* As long as no client names the root of a home: whatever else any number of
\* clients ask for at the same time, and whatever fails or crashes in between,
\* nothing there was of a home or its trash at first is moved, replaced or
\* deleted, neither a row nor a directory.  (No handler refuses the root: a MOVE
\* of it rewrites the row of the home.)
THEOREM HomesStay == RootsUnnamed => (Spec => []HomesIntact)
<1> SUFFICES ASSUME RootsUnnamed
             PROVE  Spec => []HomesIntact
  OBVIOUS
<1>1. IInv => HomesIntact
  BY DEF IInv
<1>2. Spec => []IInv
  BY Invariance
<1>3. QED
  BY <1>1, <1>2, PTL

\* DELETE's search for a parent in the trash finds one, in a home whose trash had
\* its row at first.
TrashRowed(u) == \E m \in InitNodes : m.path = TrashPath(u, <<>>)

SlotsFound ==
    \A r \in Requests : At(r, "delete.slot") =>
        \A n \in req[r].node : TrashRowed(n.owner) => \E p \in TrashParents(n) : RowExists(p)

\* As long as no client names the root of a home: DELETE's search for a parent in
\* the trash, whose loop panics when it runs out of names, finds one for every
\* node whose owner's trash had its row at first.  (A first login that was given
\* up may have left a home without that row; there the loop does panic.)
THEOREM SearchEnds == RootsUnnamed => (Spec => []SlotsFound)
<1> SUFFICES ASSUME RootsUnnamed
             PROVE  Spec => []SlotsFound
  OBVIOUS
<1>1. IInv => SlotsFound
  <2> SUFFICES ASSUME IInv, NEW r \in Requests, At(r, "delete.slot"), NEW n \in req[r].node,
                      TrashRowed(n.owner)
               PROVE  \E p \in TrashParents(n) : RowExists(p)
    BY DEF SlotsFound
  <2>1. n \in Node /\ n.path.rel # <<>> /\ n.owner \in Users
    BY Serving DEF At, Proper, Request, Inner, Node
  <2>2. TrashPath(n.owner, <<>>) \in Homes
    BY <2>1 DEF Homes, TrashPath
  <2>3. RowExists(TrashPath(n.owner, <<>>))
    BY <2>2 DEF IInv, HomesIntact, RowExists, TrashRowed
  <2>4. QED
    BY <2>1, <2>3, TrashIsTried
<1>2. Spec => []IInv
  BY Invariance
<1>3. QED
  BY <1>1, <1>2, PTL
-----------------------------------------------------------------------------
\* Whose a row is: its owner and the home its path lies in part in one place
\* only, when a node is restored.

\* What DELETE carries from step to step: the rows it has read have one path,
\* and the slot it has found is in the trash of an owner of theirs.
Reading == {"delete.mark", "delete.slot", "delete.move"}

Careful(q) ==
    /\ q.pc \in Reading => \A n, m \in q.node : n.path = m.path
    /\ q.pc = "delete.move" => \A p \in q.slot : \E n \in q.node : p.user = n.owner

AllCareful == \A r \in Requests : Careful(req[r])

\* A step of a request that is not one of DELETE's three.
Apart(r) ==
    /\ \A q \in Requests \ {r} : req'[q] = req[q]
    /\ req'[r].pc \notin Reading
    /\ \/ req'[r].pc = "idle"
       \/ req'[r].node \subseteq nodes
       \/ ~At(r, "idle") /\ req'[r].node = req[r].node

\* The rows are those that were there, or new ones of whose home they are in.
RowsOwned == \A n \in nodes' : n \in nodes \/ n.owner = n.path.user

LEMMA ApartKeepsCareful ==
    ASSUME AllCareful, NEW r \in Requests, Apart(r)
    PROVE  AllCareful'
<1> SUFFICES ASSUME NEW q \in Requests
             PROVE  Careful(req[q])'
  BY DEF AllCareful
<1>1. CASE q = r
  BY <1>1 DEF Apart, Careful, Reading
<1>2. CASE q # r
  BY <1>2 DEF Apart, AllCareful, Careful
<1>3. QED
  BY <1>1, <1>2

\* What is read is what is there.
LEMMA ReadsAreRows ==
    ASSUME NEW r \in Requests,
           \A q \in Requests \ {r} : req'[q] = req[q],
           \/ req'[r].pc = "idle"
           \/ req'[r].node \subseteq nodes
           \/ ~At(r, "idle") /\ req'[r].node = req[r].node
    PROVE  ReadRows' \subseteq nodes \union ReadRows
<1> SUFFICES ASSUME NEW q \in Requests, ~At(q, "idle")', NEW n \in req'[q].node
             PROVE  n \in nodes \union ReadRows
  BY DEF ReadRows
<1>1. CASE q = r
  BY <1>1 DEF ReadRows, At
<1>2. CASE q # r
  BY <1>2 DEF ReadRows, At
<1>3. QED
  BY <1>1, <1>2

LEMMA OwnedKeeps ==
    ASSUME OwnerIsPathHead, RowsOwned, ReadRows' \subseteq nodes \union ReadRows
    PROVE  OwnerIsPathHead'
BY DEF OwnerIsPathHead, RowsOwned
-----------------------------------------------------------------------------
LEMMA OverApart ==
    ASSUME IInv, NEW r \in Requests, Fail(r) \/ Finish(r)
    PROVE  Apart(r)
BY DEF Fail, Finish, Idle, Apart, Reading, IInv, RequestsProper

\* A request that is at another step, with the rows it had or some that are there.
LEMMA OnApart ==
    ASSUME IInv, NEW r \in Requests, NEW q,
           req' = [req EXCEPT ![r] = q], q.pc \notin Reading,
           q.node \subseteq nodes \/ (~At(r, "idle") /\ q.node = req[r].node)
    PROVE  Apart(r)
BY DEF Apart, IInv, RequestsProper

LEMMA SaveNodeApart ==
    ASSUME IInv, NEW r \in Requests, ~At(r, "idle"), NEW p, NEW dir, SaveNode(r, p, dir)
    PROVE  Apart(r)
<1>1. CASE Fail(r)
  BY <1>1, OverApart
<1>2. CASE req' = [req EXCEPT ![r].pc = "dav.lock", ![r].wrote = TRUE]
  <2>1. req[r] \in Request
    BY Serving DEF At
  <2>2. QED
    BY <1>2, <2>1 DEF Apart, Reading, Request, IInv, RequestsProper
<1>3. QED
  BY <1>1, <1>2 DEF SaveNode

\* After a visit.
LEMMA VisitedApart ==
    ASSUME IInv, NEW r \in Requests, ~At(r, "idle"), NEW e, NEW look, NEW done,
           look \notin Reading, done \notin Reading,
           req' = [req EXCEPT ![r] = Visited(r, e, look, done)]
    PROVE  Apart(r)
<1>1. req[r] \in Request
  BY Serving DEF At
<1>2. /\ Visited(r, e, look, done).pc \in {look, done}
      /\ Visited(r, e, look, done).node = {}
  BY <1>1 DEF Visited, Request
<1>3. QED
  BY <1>2, OnApart

LEMMA GivesUpApart ==
    ASSUME IInv, NEW r \in Requests, ~At(r, "idle"), NEW answered, GiveUpWalk(r, answered)
    PROVE  Apart(r)
<1>1. req[r] \in Request
  BY Serving DEF At
<1>2. QED
  BY <1>1 DEF GiveUpWalk, Apart, Reading, Request, IInv, RequestsProper
-----------------------------------------------------------------------------
LEMMA UpdateRowApart ==
    ASSUME IInv, NEW r \in Requests, ~At(r, "idle"), NEW e, NEW from, NEW to, NEW transfer,
           NEW look, look \notin Reading, UpdateRow(r, e, from, to, transfer, look)
    PROVE  Apart(r)
<1> DEFINE q == [Visited(r, e, look, "dav.lock") EXCEPT !.wrote = TRUE]
<1>1. CASE Fail(r)
  BY <1>1, OverApart
<1>2. CASE req' = [req EXCEPT ![r] = Idle]
  BY <1>2 DEF Idle, Apart, Reading, IInv, RequestsProper
<1>3. CASE req' = [req EXCEPT ![r] = q]
  <2>1. req[r] \in Request
    BY Serving DEF At
  <2>2. q.pc \in {look, "dav.lock"} /\ q.node = {}
    BY <2>1 DEF Visited, Request
  <2> HIDE DEF q
  <2>3. q.pc \notin Reading /\ q.node \subseteq nodes
    BY <2>2 DEF Reading
  <2>4. QED
    BY <1>3, <2>3, OnApart
<1>4. QED
  BY <1>1, <1>2, <1>3 DEF UpdateRow

\* PUT, MKCOL, MOVE and DELETE, but for the three steps between its look at an
\* entry and its move of the row.
LEMMA DavApart ==
    ASSUME IInv, NEW r \in Requests,
           \/ PutResolve(r) \/ PutSave(r) \/ MkcolResolve(r)
           \/ MkcolCheck(r) \/ MkcolSave(r) \/ MoveResolve(r)
           \/ MoveCheck(r) \/ MoveLook(r) \/ MoveTransfer(r)
           \/ DeleteResolve(r) \/ DeleteShare(r) \/ DeleteCheck(r)
           \/ DeleteMove(r)
    PROVE  Apart(r)
<1>1. ~At(r, "idle")
  BY DEF At, PutResolve, PutSave, MkcolResolve, MkcolCheck, MkcolSave,
     MoveResolve, MoveCheck, MoveLook, MoveTransfer, DeleteResolve,
     DeleteShare, DeleteCheck, DeleteMove
<1>2. req[r] \in Request
  BY <1>1, Serving DEF At
<1>3. CASE Fail(r) \/ Finish(r)
  BY <1>3, OverApart
<1>4. SUFFICES ASSUME ~Fail(r), ~Finish(r)
             PROVE  Apart(r)
  BY <1>3
<1>5. CASE PutResolve(r)
  BY <1>1, <1>2, <1>4, <1>5 DEF PutResolve, GoTo, Rows, Apart, Reading, Request, IInv,
     RequestsProper
<1>6. CASE PutSave(r)
  BY <1>6, <1>1, SaveNodeApart DEF PutSave
<1>7. CASE MkcolResolve(r)
  BY <1>1, <1>2, <1>4, <1>7 DEF MkcolResolve, GoTo, Rows, Apart, Reading, Request, IInv,
     RequestsProper
<1>8. CASE MkcolCheck(r)
  BY <1>1, <1>2, <1>4, <1>8 DEF MkcolCheck, GoTo, Rows, Apart, Reading, Request, IInv,
     RequestsProper
<1>9. CASE MkcolSave(r)
  BY <1>9, <1>1, SaveNodeApart DEF MkcolSave
<1>10. CASE MoveResolve(r)
  <2>1. PICK src, p :
          req' = [req EXCEPT ![r].pc = "move.check", ![r].path = src,
                             ![r].to = {Child(p, NameOf(src))}]
    BY <1>4, <1>10 DEF MoveResolve
  <2>2. QED
    BY <1>1, <1>2, <2>1 DEF Apart, Reading, Request, IInv, RequestsProper
<1>11. CASE MoveCheck(r)
  BY <1>1, <1>2, <1>4, <1>11 DEF MoveCheck, GoTo, Rows, Apart, Reading, Request, IInv,
     RequestsProper
<1>12. CASE MoveLook(r)
  <2>1. ASSUME NEW e, req' = [req EXCEPT ![r] = Visited(r, e, "move.look", "dav.lock")]
        PROVE  Apart(r)
    <3>1. "move.look" \notin Reading /\ "dav.lock" \notin Reading
      BY DEF Reading
    <3>2. QED
      BY <2>1, <3>1, <1>1, VisitedApart
  <2>2. ASSUME NEW p, NEW e,
               req' = [req EXCEPT ![r].pc = "move.transfer", ![r].at = {e}, ![r].node = Rows(p)]
        PROVE  Apart(r)
    BY <1>1, <1>2, <2>2 DEF Rows, Apart, Reading, Request, IInv, RequestsProper
  <2>3. QED
    BY <1>4, <1>12, <2>1, <2>2 DEF MoveLook, Look
<1>13. CASE MoveTransfer(r)
  <2>1. "move.look" \notin Reading
    BY DEF Reading
  <2>2. QED
    BY <1>13, <2>1, <1>1, UpdateRowApart DEF MoveTransfer
<1>14. CASE DeleteResolve(r)
  <2>1. PICK p :
          req' = [req EXCEPT ![r].path = p,
                    ![r].pc = IF p.user = req[r].user THEN "delete.check" ELSE "delete.share"]
    BY <1>4, <1>14 DEF DeleteResolve
  <2>2. QED
    BY <1>1, <1>2, <2>1 DEF Apart, Reading, Request, IInv, RequestsProper
<1>15. CASE DeleteShare(r)
  BY <1>1, <1>2, <1>4, <1>15 DEF DeleteShare, GoTo, Rows, Apart, Reading, Request, IInv,
     RequestsProper
<1>16. CASE DeleteCheck(r)
  BY <1>1, <1>2, <1>4, <1>16 DEF DeleteCheck, GoTo, Rows, Apart, Reading, Request, IInv,
     RequestsProper
<1>17. CASE DeleteMove(r)
  <2>1. "delete.look" \notin Reading
    BY DEF Reading
  <2>2. QED
    BY <1>17, <2>1, <1>1, UpdateRowApart DEF DeleteMove
<1>18. QED
  BY SMTT(30), <1>5, <1>6, <1>7, <1>8, <1>9, <1>10, <1>11, <1>12, <1>13, <1>14, <1>15, <1>16, <1>17

\* What the webdav library does, and DeleteNode.
LEMMA WebdavApart ==
    ASSUME IInv, NEW r \in Requests,
           \/ DavLock(r) \/ DavTarget(r) \/ DavPut(r) \/ DavMkcol(r)
           \/ DavMove(r) \/ DeleteShares(r) \/ DeleteTrashRefs(r)
           \/ DeleteFavorites(r) \/ DeleteRows(r)
    PROVE  Apart(r)
<1>1. ~At(r, "idle")
  BY DEF At, DavLock, DavTarget, DavPut, DavMkcol, DavMove, DeleteShares,
     DeleteTrashRefs, DeleteFavorites, DeleteRows
<1>2. req[r] \in Request
  BY <1>1, Serving DEF At
<1>3. CASE Fail(r) \/ Finish(r)
  BY <1>3, OverApart
<1>4. SUFFICES ASSUME ~Fail(r), ~Finish(r)
             PROVE  Apart(r)
  BY <1>3
<1>5. CASE DavLock(r)
  BY <1>1, <1>2, <1>4, <1>5 DEF DavLock, GoTo, Rows, Apart, Reading, Request, IInv,
     RequestsProper
<1>6. CASE DavTarget(r)
  BY <1>1, <1>2, <1>4, <1>6 DEF DavTarget, GoTo, Rows, Apart, Reading, Request, IInv,
     RequestsProper
<1>7. CASE DavPut(r)
  BY <1>1, <1>2, <1>4, <1>7 DEF DavPut, Serves, GoTo, Rows, Apart, Reading, Request, IInv,
     RequestsProper
<1>8. CASE DavMkcol(r)
  BY <1>1, <1>2, <1>4, <1>8 DEF DavMkcol, Serves, GoTo, Rows, Apart, Reading, Request,
     IInv, RequestsProper
<1>9. CASE DavMove(r)
  BY <1>1, <1>2, <1>4, <1>9 DEF DavMove, Serves, GoTo, Rows, Apart, Reading, Request,
     IInv, RequestsProper
<1>10. CASE DeleteShares(r)
  BY <1>1, <1>2, <1>4, <1>10 DEF DeleteShares, Drops, GoTo, Rows, Apart, Reading, Request,
     IInv, RequestsProper
<1>11. CASE DeleteTrashRefs(r)
  BY <1>1, <1>2, <1>4, <1>11 DEF DeleteTrashRefs, Drops, GoTo, Rows, Apart, Reading,
     Request, IInv, RequestsProper
<1>12. CASE DeleteFavorites(r)
  BY <1>1, <1>2, <1>4, <1>12 DEF DeleteFavorites, Drops, GoTo, Rows, Apart, Reading,
     Request, IInv, RequestsProper
<1>13. CASE DeleteRows(r)
  BY <1>1, <1>2, <1>4, <1>13 DEF DeleteRows, GoTo, Rows, Apart, Reading, Request, IInv,
     RequestsProper
<1>14. QED
  BY <1>5, <1>6, <1>7, <1>8, <1>9, <1>10, <1>11, <1>12, <1>13

\* The trash bin.
LEMMA TrashbinApart ==
    ASSUME IInv, NEW r \in Requests,
           \/ UndeleteStat(r) \/ UndeleteOrigin(r) \/ UndeleteParent(r)
           \/ UndeleteLook(r) \/ UndeleteMove(r) \/ UndeleteForget(r)
           \/ UndeleteRename(r) \/ PurgeRemove(r)
    PROVE  Apart(r)
<1>1. ~At(r, "idle")
  BY DEF At, UndeleteStat, UndeleteOrigin, UndeleteParent, UndeleteLook,
     UndeleteMove, UndeleteForget, UndeleteRename, PurgeRemove
<1>2. req[r] \in Request
  BY <1>1, Serving DEF At
<1>3. CASE Fail(r) \/ Finish(r)
  BY <1>3, OverApart
<1>4. SUFFICES ASSUME ~Fail(r), ~Finish(r)
             PROVE  Apart(r)
  BY <1>3
<1>5. CASE UndeleteStat(r)
  BY <1>1, <1>2, <1>4, <1>5 DEF UndeleteStat, GoTo, Rows, Apart, Reading, Request, IInv,
     RequestsProper
<1>6. CASE UndeleteOrigin(r)
  BY <1>1, <1>2, <1>4, <1>6 DEF UndeleteOrigin, GoTo, Rows, Apart, Reading, Request, IInv,
     RequestsProper
<1>7. CASE UndeleteParent(r)
  <2>1. PICK skip :
          req' = [req EXCEPT ![r].pc = "undelete.look", ![r].todo = {req[r].path},
                             ![r].skip = skip]
    BY <1>4, <1>7 DEF UndeleteParent
  <2>2. QED
    BY <1>1, <1>2, <2>1 DEF Apart, Reading, Request, IInv, RequestsProper
<1>8. CASE UndeleteLook(r)
  <2>1. CASE GiveUpWalk(r, FALSE)
    BY <2>1, <1>1, GivesUpApart
  <2>2. CASE ~GiveUpWalk(r, FALSE)
    <3>1. PICK e, origin :
            req' = [req EXCEPT ![r].pc = "undelete.move", ![r].at = {e}, ![r].slot = {origin}]
      BY <1>4, <1>8, <2>2 DEF UndeleteLook
    <3>2. QED
      BY <1>1, <1>2, <3>1 DEF Apart, Reading, Request, IInv, RequestsProper
  <2>3. QED
    BY <2>1, <2>2
<1>9. CASE UndeleteMove(r)
  <2>1. CASE GiveUpWalk(r, TRUE)
    BY <2>1, <1>1, GivesUpApart
  <2>2. CASE req' = [req EXCEPT ![r].pc = "undelete.forget", ![r].wrote = TRUE]
    BY <1>1, <1>2, <2>2 DEF Apart, Reading, Request, IInv, RequestsProper
  <2>3. QED
    BY <1>4, <1>9, <2>1, <2>2 DEF UndeleteMove
<1>10. CASE UndeleteForget(r)
  <2>1. CASE GiveUpWalk(r, FALSE)
    BY <2>1, <1>1, GivesUpApart
  <2>2. ASSUME NEW e,
               req' = [req EXCEPT ![r] = Visited(r, e, "undelete.look", "undelete.rename")]
        PROVE  Apart(r)
    <3>1. "undelete.look" \notin Reading /\ "undelete.rename" \notin Reading
      BY DEF Reading
    <3>2. QED
      BY <2>2, <3>1, <1>1, VisitedApart
  <2>3. QED
    BY <1>4, <1>10, <2>1, <2>2 DEF UndeleteForget
<1>11. CASE UndeleteRename(r)
  BY <1>1, <1>2, <1>4, <1>11 DEF UndeleteRename, GoTo, Rows, Apart, Reading, Request,
     IInv, RequestsProper
<1>12. CASE PurgeRemove(r)
  BY <1>1, <1>2, <1>4, <1>12 DEF PurgeRemove, GoTo, Rows, Apart, Reading, Request, IInv,
     RequestsProper
<1>13. QED
  BY <1>5, <1>6, <1>7, <1>8, <1>9, <1>10, <1>11, <1>12

\* Shares and favorites.
LEMMA SharingApart ==
    ASSUME IInv, NEW r \in Requests,
           \/ ShareLookup(r) \/ ShareInsert(r) \/ ShareRead(r)
           \/ UnshareDelete(r) \/ FavoriteResolve(r) \/ FavoriteUnmark(r)
           \/ FavoriteMark(r)
    PROVE  Apart(r)
<1>1. ~At(r, "idle")
  BY DEF At, ShareLookup, ShareInsert, ShareRead, UnshareDelete,
     FavoriteResolve, FavoriteUnmark, FavoriteMark
<1>2. req[r] \in Request
  BY <1>1, Serving DEF At
<1>3. CASE Fail(r) \/ Finish(r)
  BY <1>3, OverApart
<1>4. SUFFICES ASSUME ~Fail(r), ~Finish(r)
             PROVE  Apart(r)
  BY <1>3
<1>5. CASE ShareLookup(r)
  BY <1>1, <1>2, <1>4, <1>5 DEF ShareLookup, GoTo, Rows, Apart, Reading, Request, IInv,
     RequestsProper
<1>6. CASE ShareInsert(r)
  BY <1>1, <1>2, <1>4, <1>6 DEF ShareInsert, GoTo, Rows, Apart, Reading, Request, IInv,
     RequestsProper
<1>7. CASE ShareRead(r)
  BY <1>1, <1>2, <1>4, <1>7 DEF ShareRead, GoTo, Rows, Apart, Reading, Request, IInv,
     RequestsProper
<1>8. CASE UnshareDelete(r)
  BY <1>1, <1>2, <1>4, <1>8 DEF UnshareDelete, GoTo, Rows, Apart, Reading, Request, IInv,
     RequestsProper
<1>9. CASE FavoriteResolve(r)
  BY <1>1, <1>2, <1>4, <1>9 DEF FavoriteResolve, GoTo, Rows, Apart, Reading, Request,
     IInv, RequestsProper
<1>10. CASE FavoriteUnmark(r)
  BY <1>1, <1>2, <1>4, <1>10 DEF FavoriteUnmark, GoTo, Rows, Apart, Reading, Request,
     IInv, RequestsProper
<1>11. CASE FavoriteMark(r)
  BY <1>1, <1>2, <1>4, <1>11 DEF FavoriteMark, GoTo, Rows, Apart, Reading, Request, IInv,
     RequestsProper
<1>12. QED
  BY <1>5, <1>6, <1>7, <1>8, <1>9, <1>10, <1>11

\* Uploads.
LEMMA UploadApart ==
    ASSUME IInv, NEW r \in Requests,
           \/ UploadResolve(r) \/ UploadCreate(r) \/ UploadSave(r)
           \/ UpdirResolve(r) \/ UpdirScan(r) \/ UpdirMkdir(r)
           \/ UpdirRow(r) \/ UpdirSave(r) \/ UpdirCreate(r)
    PROVE  Apart(r)
<1>1. ~At(r, "idle")
  BY DEF At, UploadResolve, UploadCreate, UploadSave, UpdirResolve, UpdirScan,
     UpdirMkdir, UpdirRow, UpdirSave, UpdirCreate
<1>2. req[r] \in Request
  BY <1>1, Serving DEF At
<1>3. CASE Fail(r) \/ Finish(r)
  BY <1>3, OverApart
<1>4. SUFFICES ASSUME ~Fail(r), ~Finish(r)
             PROVE  Apart(r)
  BY <1>3
<1>5. CASE UploadResolve(r)
  BY <1>1, <1>2, <1>4, <1>5 DEF UploadResolve, GoTo, Rows, Apart, Reading, Request, IInv,
     RequestsProper
<1>6. CASE UploadCreate(r)
  BY <1>1, <1>2, <1>4, <1>6 DEF UploadCreate, GoTo, Rows, Apart, Reading, Request, IInv,
     RequestsProper
<1>7. CASE UploadSave(r)
  BY <1>1, <1>2, <1>4, <1>7 DEF UploadSave, GoTo, Rows, Apart, Reading, Request, IInv,
     RequestsProper
<1>8. CASE UpdirResolve(r)
  <2>1. PICK p :
          req' = [req EXCEPT ![r].pc = "updir.scan", ![r].slot = {p},
                             ![r].path = Child(p, Last(req[r].rel))]
    BY <1>4, <1>8 DEF UpdirResolve
  <2>2. QED
    BY <1>1, <1>2, <2>1 DEF Apart, Reading, Request, IInv, RequestsProper
<1>9. CASE UpdirScan(r)
  <2>1. PICK p \in req[r].slot :
          \/ req' = [req EXCEPT ![r].slot = {},
                       ![r].pc = IF req[r].todo = {} THEN "updir.save" ELSE "updir.mkdir"]
          \/ req' = [req EXCEPT ![r].todo = @ \union {p}, ![r].slot = {ParentOf(p)}]
    BY <1>4, <1>9 DEF UpdirScan
  <2>2. CASE req' = [req EXCEPT ![r].slot = {},
                       ![r].pc = IF req[r].todo = {} THEN "updir.save" ELSE "updir.mkdir"]
    BY <1>1, <1>2, <2>2 DEF Apart, Reading, Request, IInv, RequestsProper
  <2>3. CASE req' = [req EXCEPT ![r].todo = @ \union {p}, ![r].slot = {ParentOf(p)}]
    <3>1. req[r].pc = "updir.scan"
      BY <1>4, <1>9 DEF UpdirScan, At
    <3>2. QED
      BY <1>1, <1>2, <2>3, <3>1 DEF Apart, At, Reading, Request, IInv, RequestsProper
  <2>4. QED
    BY <2>1, <2>2, <2>3
<1>10. CASE UpdirMkdir(r)
  BY <1>1, <1>2, <1>4, <1>10 DEF UpdirMkdir, GoTo, Rows, Apart, Reading, Request, IInv,
     RequestsProper
<1>11. CASE UpdirRow(r)
  <2>1. PICK p :
          req' = [req EXCEPT ![r].todo = @ \ {p},
                    ![r].pc = IF req[r].todo = {p} THEN "updir.save" ELSE "updir.mkdir"]
    BY <1>4, <1>11 DEF UpdirRow
  <2>2. QED
    BY <1>1, <1>2, <2>1 DEF Apart, Reading, Request, IInv, RequestsProper
<1>12. CASE UpdirSave(r)
  <2>1. req' = [req EXCEPT ![r].pc = "updir.create", ![r].wrote = TRUE]
    BY <1>4, <1>12 DEF UpdirSave
  <2>2. QED
    BY <1>1, <1>2, <2>1 DEF Apart, Reading, Request, IInv, RequestsProper
<1>13. CASE UpdirCreate(r)
  BY <1>1, <1>2, <1>4, <1>13 DEF UpdirCreate, GoTo, Rows, Apart, Reading, Request, IInv,
     RequestsProper
<1>14. QED
  BY <1>5, <1>6, <1>7, <1>8, <1>9, <1>10, <1>11, <1>12, <1>13
-----------------------------------------------------------------------------
\* A request that starts has read nothing, and one of which something fails
\* reads nothing more.
LEMMA StartApart ==
    ASSUME IInv, NEW r \in Requests, Start(r)
    PROVE  Apart(r)
<1>1. PICK op \in Ops, u \in Users, rel \in Rels, dst \in Rels, ow \in BOOLEAN,
           target \in Targets, share \in {Null} \union {s.id : s \in shares} :
        /\ op # "MOVE" => dst = rel /\ ~ow
        /\ op # "SHARE" => target = u
        /\ op = "UNSHARE" <=> share # Null
        /\ op = "UPDIR" => Len(rel) > 1
        /\ req' = [req EXCEPT ![r] =
             [pc |-> FirstStep(op), op |-> op, user |-> u,
              rel |-> rel, dst |-> dst, overwrite |-> ow, target |-> target, share |-> share,
              path |-> TrashPath(u, rel), to |-> {}, todo |-> {}, at |-> {},
              node |-> {}, slot |-> {}, skip |-> {}, bad |-> FALSE, wrote |-> FALSE]]
  BY Zenon DEF Start
<1>2. op \in AllOps
  BY StorageAssumption
<1>3. req'[r].pc = FirstStep(op) /\ req'[r].node = {}
  BY <1>1 DEF IInv, RequestsProper
<1>4. \A q \in Requests \ {r} : req'[q] = req[q]
  BY <1>1 DEF IInv, RequestsProper
<1>5. FirstStep(op) \notin Reading
  BY <1>2 DEF FirstStep, AllOps, Reading
<1>6. QED
  BY <1>3, <1>4, <1>5 DEF Apart

LEMMA FaultApart ==
    ASSUME IInv, NEW r \in Requests, Fault(r)
    PROVE  Apart(r)
<1>1. ~At(r, "idle") /\ FaultOf(r)
  BY DEF Fault, At
<1>2. req[r] \in Request
  BY <1>1, Serving DEF At
<1>3. CASE Fail(r)
  BY <1>3, OverApart
<1>4. CASE \E where \in {"del.favorites", "del.rows"} : GoTo(r, where)
  BY <1>1, <1>2, <1>4 DEF GoTo, Apart, Reading, Request, IInv, RequestsProper
<1>5. CASE req' = [req EXCEPT ![r].pc = "undelete.rename", ![r].bad = TRUE]
  BY <1>1, <1>2, <1>5 DEF Apart, Reading, Request, IInv, RequestsProper
<1>6. QED
  BY <1>1, <1>3, <1>4, <1>5 DEF FaultOf
-----------------------------------------------------------------------------
\* DELETE's three steps from its look at an entry to the slot for its row.
LEMMA DeleteReads ==
    ASSUME IInv, AllCareful, NEW r \in Requests,
           DeleteLook(r) \/ DeleteMark(r) \/ DeleteSlot(r)
    PROVE  AllCareful' /\ ReadRows' \subseteq nodes \union ReadRows
<1>1. ~At(r, "idle")
  BY DEF DeleteLook, DeleteMark, DeleteSlot, At
<1>2. req[r] \in Request /\ req[r] \in Proper
  BY <1>1, Serving DEF At
<1>3. CASE Apart(r)
  BY <1>3, ApartKeepsCareful, ReadsAreRows DEF Apart
<1>4. ASSUME NEW q, req' = [req EXCEPT ![r] = q], Careful(q),
             q.node \subseteq nodes \/ q.node = req[r].node
      PROVE  AllCareful' /\ ReadRows' \subseteq nodes \union ReadRows
  <2>1. req'[r] = q /\ \A s \in Requests \ {r} : req'[s] = req[s]
    BY <1>4 DEF IInv, RequestsProper
  <2>2. AllCareful'
    BY <2>1, <1>4 DEF AllCareful, Careful
  <2>3. ReadRows' \subseteq nodes \union ReadRows
    BY <2>1, <1>1, <1>4, ReadsAreRows
  <2>4. QED
    BY <2>2, <2>3
<1>5. CASE DeleteLook(r)
  <2>1. ASSUME NEW e, req' = [req EXCEPT ![r] = Visited(r, e, "delete.look", "dav.lock")]
        PROVE  Apart(r)
    <3>1. "delete.look" \notin Reading /\ "dav.lock" \notin Reading
      BY DEF Reading
    <3>2. QED
      BY <2>1, <3>1, <1>1, VisitedApart
  <2>2. ASSUME NEW p, NEW e,
               req' = [req EXCEPT ![r].pc = "delete.mark", ![r].at = {e}, ![r].node = Rows(p)]
        PROVE  AllCareful' /\ ReadRows' \subseteq nodes \union ReadRows
    <3> DEFINE q == [req[r] EXCEPT !.pc = "delete.mark", !.at = {e}, !.node = Rows(p)]
    <3>1. req' = [req EXCEPT ![r] = q]
      BY <2>2
    <3>2. q.pc = "delete.mark" /\ q.node = Rows(p)
      BY <1>2 DEF Request
    <3> HIDE DEF q
    <3>3. Careful(q) /\ q.node \subseteq nodes
      BY <3>2 DEF Careful, Rows
    <3>4. QED
      BY <3>1, <3>3, <1>4
  <2>3. Fail(r) => Apart(r)
    BY OverApart
  <2>4. QED
    BY <1>3, <1>5, <2>1, <2>2, <2>3 DEF DeleteLook, Look
<1>6. CASE DeleteMark(r)
  <2>1. CASE req' = [req EXCEPT ![r].pc = "delete.slot", ![r].wrote = TRUE]
    <3> DEFINE q == [req[r] EXCEPT !.pc = "delete.slot", !.wrote = TRUE]
    <3>1. req' = [req EXCEPT ![r] = q]
      BY <2>1
    <3>2. q.pc = "delete.slot" /\ q.node = req[r].node
      BY <1>2 DEF Request
    <3>3. Careful(req[r]) /\ req[r].pc = "delete.mark"
      BY <1>6 DEF AllCareful, DeleteMark, At
    <3> HIDE DEF q
    <3>4. Careful(q)
      BY <3>2, <3>3 DEF Careful, Reading
    <3>5. QED
      BY <3>1, <3>2, <3>4, <1>4
  <2>2. QED
    BY <1>3, <1>6, <2>1, OverApart DEF DeleteMark
<1>7. ASSUME DeleteSlot(r), ~Fail(r)
      PROVE  AllCareful' /\ ReadRows' \subseteq nodes \union ReadRows
  <2>0. PICK n \in req[r].node :
          /\ \E p \in TrashParents(n) : RowExists(p)
          /\ \E to : req' = [req EXCEPT ![r].pc = "delete.move", ![r].slot = {TrashSlot(n)},
                                        ![r].to = to]
    BY <1>7 DEF DeleteSlot
  <2>1. PICK to :
          req' = [req EXCEPT ![r].pc = "delete.move", ![r].slot = {TrashSlot(n)}, ![r].to = to]
    BY <2>0
  <2> DEFINE q == [req[r] EXCEPT !.pc = "delete.move", !.slot = {TrashSlot(n)}, !.to = to]
  <2>2. req' = [req EXCEPT ![r] = q]
    BY <2>1
  <2>3. q.pc = "delete.move" /\ q.node = req[r].node /\ q.slot = {TrashSlot(n)}
    BY <1>2 DEF Request
  <2>4. TrashSlot(n).user = n.owner
    BY <1>2, <2>0, SlotFound DEF Proper, Request, Inner
  <2>5. Careful(req[r]) /\ req[r].pc = "delete.slot"
    BY <1>7 DEF AllCareful, DeleteSlot, At
  <2> HIDE DEF q
  <2>6. Careful(q)
    BY <2>3, <2>4, <2>5 DEF Careful, Reading
  <2>7. QED
    BY <2>2, <2>3, <2>6, <1>4
<1>8. QED
  BY <1>3, <1>5, <1>6, <1>7, OverApart

\* The rest of the invariant: whatever happens, DELETE is careful, and what is
\* held in hand has been in the table.
LEMMA NextReads ==
    ASSUME IInv, AllCareful, [Next]_vars
    PROVE  AllCareful' /\ ReadRows' \subseteq nodes \union ReadRows
<1>1. CASE \E r \in Requests : Apart(r)
  BY <1>1, ApartKeepsCareful, ReadsAreRows DEF Apart
<1>2. CASE Crash
  <2>1. \A r \in Requests : req'[r].pc = "idle"
    BY <1>2 DEF Crash, Idle
  <2>2. QED
    BY <2>1 DEF AllCareful, Careful, Reading, ReadRows, At
<1>3. CASE UNCHANGED vars
  BY <1>3 DEF vars, AllCareful, ReadRows, At, Careful
<1>4. ASSUME NEW r \in Requests, Start(r) \/ Fault(r)
      PROVE  Apart(r)
  BY <1>4, StartApart, FaultApart
<1>5. ASSUME NEW r \in Requests, Step(r)
      PROVE  DeleteLook(r) \/ DeleteMark(r) \/ DeleteSlot(r) \/ Apart(r)
  BY <1>5, DavApart, WebdavApart, TrashbinApart, SharingApart, UploadApart
     DEF Step, DavStep, Put, DeleteNode, Mkcol, Move, Delete, Webdav, Undelete, Sharing,
         Favoriting, Upload
<1>6. QED
  BY <1>1, <1>2, <1>3, <1>4, <1>5, DeleteReads DEF Next, Rest
-----------------------------------------------------------------------------
\* Rows are new, or move, in eight steps; in two of these a row may go to
\* another home and keep its owner.
LEMMA InsertOwns ==
    ASSUME NEW p, NEW dir, nodes' = Inserted(p, dir)
    PROVE  RowsOwned
BY DEF Inserted, RowsOwned

LEMMA SaveNodeOwns ==
    ASSUME NEW r, NEW p, NEW dir, SaveNode(r, p, dir)
    PROVE  RowsOwned
BY InsertOwns DEF SaveNode, RowsOwned

LEMMA MoveTransferOwns ==
    ASSUME IInv, NEW r \in Requests, MoveTransfer(r)
    PROVE  RowsOwned
<1>1. PICK e, from, to : UpdateRow(r, e, from, to, TRUE, "move.look")
  BY DEF MoveTransfer
<1>2. \A n \in nodes : Moved(n, to, TRUE).owner = Moved(n, to, TRUE).path.user
  BY DEF Moved, IInv, TypeOK, Node
<1>3. \/ nodes' = nodes
      \/ nodes' = (nodes \ Rows(from)) \union {Moved(n, to, TRUE) : n \in Rows(from)}
  BY <1>1 DEF UpdateRow
<1>4. QED
  BY <1>2, <1>3 DEF Rows, RowsOwned

LEMMA DavOwns ==
    ASSUME NEW r \in Requests,
           \/ PutResolve(r) \/ MkcolResolve(r) \/ MkcolCheck(r) \/ MoveResolve(r)
           \/ MoveCheck(r) \/ MoveLook(r) \/ DeleteResolve(r) \/ DeleteShare(r)
           \/ DeleteCheck(r) \/ DeleteLook(r) \/ DeleteMark(r) \/ DeleteSlot(r)
           \/ DavLock(r) \/ DavTarget(r) \/ DavPut(r) \/ DavMkcol(r) \/ DavMove(r)
           \/ DeleteShares(r) \/ DeleteTrashRefs(r) \/ DeleteFavorites(r) \/ DeleteRows(r)
    PROVE  RowsOwned
<1>1. CASE PutResolve(r)
  BY <1>1 DEF PutResolve, tables, RowsOwned
<1>2. CASE MkcolResolve(r)
  BY <1>2 DEF MkcolResolve, tables, RowsOwned
<1>3. CASE MkcolCheck(r)
  BY <1>3 DEF MkcolCheck, tables, RowsOwned
<1>4. CASE MoveResolve(r)
  BY <1>4 DEF MoveResolve, tables, RowsOwned
<1>5. CASE MoveCheck(r)
  BY <1>5 DEF MoveCheck, tables, RowsOwned
<1>6. CASE MoveLook(r)
  BY <1>6 DEF MoveLook, Look, tables, RowsOwned
<1>7. CASE DeleteResolve(r)
  BY <1>7 DEF DeleteResolve, tables, RowsOwned
<1>8. CASE DeleteShare(r)
  BY <1>8 DEF DeleteShare, tables, RowsOwned
<1>9. CASE DeleteCheck(r)
  BY <1>9 DEF DeleteCheck, tables, RowsOwned
<1>10. CASE DeleteLook(r)
  BY <1>10 DEF DeleteLook, Look, tables, RowsOwned
<1>11. CASE DeleteMark(r)
  BY <1>11 DEF DeleteMark, tables, RowsOwned
<1>12. CASE DeleteSlot(r)
  BY <1>12 DEF DeleteSlot, tables, RowsOwned
<1>13. CASE DavLock(r)
  BY <1>13 DEF DavLock, tables, RowsOwned
<1>14. CASE DavTarget(r)
  BY <1>14 DEF DavTarget, tables, RowsOwned
<1>15. CASE DavPut(r)
  BY <1>15 DEF DavPut, Serves, tables, RowsOwned
<1>16. CASE DavMkcol(r)
  BY <1>16 DEF DavMkcol, Serves, tables, RowsOwned
<1>17. CASE DavMove(r)
  BY <1>17 DEF DavMove, Serves, tables, RowsOwned
<1>18. CASE DeleteShares(r)
  BY <1>18 DEF DeleteShares, Drops, RowsOwned
<1>19. CASE DeleteTrashRefs(r)
  BY <1>19 DEF DeleteTrashRefs, Drops, RowsOwned
<1>20. CASE DeleteFavorites(r)
  BY <1>20 DEF DeleteFavorites, Drops, RowsOwned
<1>21. CASE DeleteRows(r)
  BY <1>21 DEF DeleteRows, RowsOwned
<1>22. QED
  BY <1>1, <1>2, <1>3, <1>4, <1>5, <1>6, <1>7, <1>8, <1>9, <1>10, <1>11, <1>12, <1>13,
     <1>14, <1>15, <1>16, <1>17, <1>18, <1>19, <1>20, <1>21

LEMMA OthersOwn ==
    ASSUME NEW r \in Requests,
           \/ UndeleteStat(r) \/ UndeleteOrigin(r) \/ UndeleteParent(r) \/ UndeleteLook(r)
           \/ UndeleteForget(r) \/ UndeleteRename(r) \/ PurgeRemove(r) \/ ShareLookup(r)
           \/ ShareInsert(r) \/ ShareRead(r) \/ UnshareDelete(r) \/ FavoriteResolve(r)
           \/ FavoriteUnmark(r) \/ FavoriteMark(r) \/ UploadResolve(r) \/ UploadCreate(r)
           \/ UpdirResolve(r) \/ UpdirScan(r) \/ UpdirMkdir(r) \/ UpdirCreate(r)
    PROVE  RowsOwned
<1>1. CASE UndeleteStat(r)
  BY <1>1 DEF UndeleteStat, tables, RowsOwned
<1>2. CASE UndeleteOrigin(r)
  BY <1>2 DEF UndeleteOrigin, tables, RowsOwned
<1>3. CASE UndeleteParent(r)
  BY <1>3 DEF UndeleteParent, tables, RowsOwned
<1>4. CASE UndeleteLook(r)
  BY <1>4 DEF UndeleteLook, tables, RowsOwned
<1>5. CASE UndeleteForget(r)
  BY <1>5 DEF UndeleteForget, tables, RowsOwned
<1>6. CASE UndeleteRename(r)
  BY <1>6 DEF UndeleteRename, tables, RowsOwned
<1>7. CASE PurgeRemove(r)
  BY <1>7 DEF PurgeRemove, tables, RowsOwned
<1>8. CASE ShareLookup(r)
  BY <1>8 DEF ShareLookup, tables, RowsOwned
<1>9. CASE ShareInsert(r)
  BY <1>9 DEF ShareInsert, tables, RowsOwned
<1>10. CASE ShareRead(r)
  BY <1>10 DEF ShareRead, tables, RowsOwned
<1>11. CASE UnshareDelete(r)
  BY <1>11 DEF UnshareDelete, tables, RowsOwned
<1>12. CASE FavoriteResolve(r)
  BY <1>12 DEF FavoriteResolve, tables, RowsOwned
<1>13. CASE FavoriteUnmark(r)
  BY <1>13 DEF FavoriteUnmark, tables, RowsOwned
<1>14. CASE FavoriteMark(r)
  BY <1>14 DEF FavoriteMark, tables, RowsOwned
<1>15. CASE UploadResolve(r)
  BY <1>15 DEF UploadResolve, tables, RowsOwned
<1>16. CASE UploadCreate(r)
  BY <1>16 DEF UploadCreate, tables, RowsOwned
<1>17. CASE UpdirResolve(r)
  BY <1>17 DEF UpdirResolve, tables, RowsOwned
<1>18. CASE UpdirScan(r)
  BY <1>18 DEF UpdirScan, tables, RowsOwned
<1>19. CASE UpdirMkdir(r)
  BY <1>19 DEF UpdirMkdir, tables, RowsOwned
<1>20. CASE UpdirCreate(r)
  BY <1>20 DEF UpdirCreate, tables, RowsOwned
<1>21. QED
  BY <1>1, <1>2, <1>3, <1>4, <1>5, <1>6, <1>7, <1>8, <1>9, <1>10, <1>11, <1>12, <1>13,
     <1>14, <1>15, <1>16, <1>17, <1>18, <1>19, <1>20

LEMMA NextOwns ==
    ASSUME IInv, [Next]_vars,
           \A r \in Requests : ~DeleteMove(r) /\ ~UndeleteMove(r)
    PROVE  RowsOwned
<1>1. CASE Crash \/ Rest \/ UNCHANGED vars
  BY <1>1 DEF Crash, Rest, vars, tables, RowsOwned
<1>2. ASSUME NEW r \in Requests, Start(r) \/ Fault(r)
      PROVE  RowsOwned
  BY <1>2 DEF Start, Fault, tables, RowsOwned
<1>3. ASSUME NEW r \in Requests,
             PutSave(r) \/ MkcolSave(r) \/ UploadSave(r) \/ UpdirRow(r) \/ UpdirSave(r)
      PROVE  RowsOwned
  <2>1. CASE PutSave(r) \/ MkcolSave(r)
    BY <2>1, SaveNodeOwns DEF PutSave, MkcolSave
  <2>2. CASE UploadSave(r) \/ UpdirRow(r) \/ UpdirSave(r)
    <3>1. nodes' = nodes \/ \E p, dir : nodes' = Inserted(p, dir)
      BY <2>2 DEF UploadSave, UpdirRow, UpdirSave
    <3>2. QED
      BY <3>1, InsertOwns DEF RowsOwned
  <2>3. QED
    BY <1>3, <2>1, <2>2
<1>4. ASSUME NEW r \in Requests, Step(r)
      PROVE  RowsOwned
  BY <1>3, <1>4, DavOwns, OthersOwn, MoveTransferOwns
     DEF Step, DavStep, Put, DeleteNode, Mkcol, Move, Delete, Webdav, Undelete, Sharing,
         Favoriting, Upload
<1>5. QED
  BY <1>1, <1>2, <1>4 DEF Next

\* DELETE moves a row to the trash of the owner it read, and that is the owner
\* of the row it moves, as both are who their path names.
LEMMA DeleteMoveOwns ==
    ASSUME IInv, AllCareful, OwnerIsPathHead, NEW r \in Requests, DeleteMove(r)
    PROVE  RowsOwned
<1>1. PICK e \in req[r].at, n \in req[r].node, to \in req[r].slot :
        UpdateRow(r, e, n.path, to, FALSE, "delete.look")
  BY DEF DeleteMove
<1>2. PICK k \in req[r].node : to.user = k.owner /\ k.path = n.path
  BY DEF AllCareful, Careful, Reading, DeleteMove, At
<1>3. k \in ReadRows
  BY DEF ReadRows, DeleteMove, At
<1>4. \A m \in Rows(n.path) : m \in Node /\ m.owner = to.user
  BY <1>2, <1>3 DEF OwnerIsPathHead, Rows, IInv, TypeOK
<1>5. \A m \in Rows(n.path) :
        Moved(m, to, FALSE).owner = to.user /\ Moved(m, to, FALSE).path = to
  BY <1>4 DEF Moved, Node
<1>6. \/ nodes' = nodes
      \/ nodes' = (nodes \ Rows(n.path)) \union {Moved(m, to, FALSE) : m \in Rows(n.path)}
  BY <1>1 DEF UpdateRow
<1>7. QED
  BY <1>5, <1>6 DEF RowsOwned

\* All that can part a row from its owner is a restore.
LEMMA OwnersStay ==
    ASSUME IInv, AllCareful, [Next]_vars, OwnerIsPathHead,
           \A r \in Requests : ~UndeleteMove(r)
    PROVE  OwnerIsPathHead'
<1>1. RowsOwned
  BY NextOwns, DeleteMoveOwns
<1>2. QED
  BY <1>1, NextReads, OwnedKeeps

\* As long as no client names the root of a home: whatever requests do at the
\* same time, and whatever fails, the owner of a row goes along with its path;
\* only a restore can part them.
THEOREM OwnersAlong == RootsUnnamed => (Spec => OwnerGoesAlong)
<1> SUFFICES ASSUME RootsUnnamed
             PROVE  Spec => OwnerGoesAlong
  OBVIOUS
<1>1. Init => AllCareful
  BY DEF Init, AllCareful, Careful, Reading, Idle
<1>2. IInv /\ AllCareful /\ [Next]_vars => AllCareful'
  BY NextReads
<1>3. IInv /\ AllCareful /\ [Next]_vars =>
        [OwnerIsPathHead /\ ~OwnerIsPathHead' => \E r \in Requests : UndeleteMove(r)]_vars
  BY OwnersStay
<1>4. Spec => []IInv
  BY Invariance
<1>5. QED
  BY <1>1, <1>2, <1>3, <1>4, PTL DEF Spec, OwnerGoesAlong
-----------------------------------------------------------------------------
\* No two rows have an id or a path in common; ids are handed out in order.
RowsUnique ==
    /\ \A m, n \in nodes : m.id = n.id \/ m.path = n.path => m = n
    /\ \A n \in nodes : n.id < nextid

\* What a step does to the rows: some go, a new one comes, or one gets a path.
SomeGo == nodes' \subseteq nodes /\ nextid' \in Nat /\ nextid' >= nextid
OneComes(p, dir) == ~RowExists(p) /\ nodes' = Inserted(p, dir) /\ nextid' = nextid + 1
OneMoves(from, to, transfer) ==
    /\ CanUpdate(from, to) /\ nextid' = nextid
    /\ nodes' = (nodes \ Rows(from)) \union {Moved(n, to, transfer) : n \in Rows(from)}

RowsChange ==
    \/ SomeGo
    \/ \E p \in Path, dir \in BOOLEAN : OneComes(p, dir)
    \/ \E from \in Path, to \in Path, transfer \in BOOLEAN : OneMoves(from, to, transfer)

LEMMA OneComesUnique ==
    ASSUME IInv, RowsUnique, NEW p \in Path, NEW dir \in BOOLEAN, OneComes(p, dir)
    PROVE  RowsUnique'
<1> DEFINE new == [id |-> nextid, owner |-> p.user, path |-> p, dir |-> dir]
<1>1. nodes' = nodes \union {new} /\ nextid' = nextid + 1 /\ \A n \in nodes : n.path # p
  BY DEF OneComes, Inserted, RowExists
<1>2. new.id = nextid /\ new.path = p
  OBVIOUS
<1> HIDE DEF new
<1>3. nextid \in Nat /\ \A n \in nodes : n.id \in Nat
  BY DEF IInv, TypeOK, Node
<1>4. QED
  BY <1>1, <1>2, <1>3 DEF RowsUnique

LEMMA MovedRow ==
    ASSUME NEW n \in Node, NEW to \in Path, NEW transfer \in BOOLEAN
    PROVE  /\ Moved(n, to, transfer) \in Node
           /\ Moved(n, to, transfer).id = n.id /\ Moved(n, to, transfer).path = to
           /\ Moved(n, to, transfer).dir = n.dir
           /\ Moved(n, to, transfer).owner = IF transfer THEN to.user ELSE n.owner
BY DEF Moved, Node, Path

LEMMA OneMovesUnique ==
    ASSUME IInv, RowsUnique, NEW from \in Path, NEW to \in Path, NEW transfer \in BOOLEAN,
           OneMoves(from, to, transfer)
    PROVE  RowsUnique'
<1>1. nodes \subseteq Node /\ nextid \in Nat
  BY DEF IInv, TypeOK
<1>2. PICK m \in nodes : m.path = from
  BY DEF OneMoves, CanUpdate, RowExists
<1>3. Rows(from) = {m}
  BY <1>2 DEF Rows, RowsUnique
<1> DEFINE new == Moved(m, to, transfer)
<1>4. new.id = m.id /\ new.path = to
  BY <1>1, <1>2, MovedRow
<1> HIDE DEF new
<1>5. nodes' = (nodes \ {m}) \union {new} /\ nextid' = nextid
  BY <1>3 DEF OneMoves, new
<1>6. \A n \in nodes \ {m} : n.path # to
  BY <1>2 DEF OneMoves, CanUpdate, RowExists, RowsUnique
<1>7. QED
  BY <1>2, <1>4, <1>5, <1>6 DEF RowsUnique

LEMMA RowsStayUnique ==
    ASSUME IInv, RowsUnique, RowsChange
    PROVE  RowsUnique'
<1>1. CASE SomeGo
  <2>1. nextid \in Nat /\ nextid' >= nextid /\ \A n \in nodes : n.id \in Nat
    BY <1>1 DEF SomeGo, IInv, TypeOK, Node
  <2>2. QED
    BY <1>1, <2>1 DEF SomeGo, RowsUnique
<1>2. QED
  BY <1>1, OneComesUnique, OneMovesUnique DEF RowsChange
-----------------------------------------------------------------------------
LEMMA DavRows ==
    ASSUME IInv, NEW r \in Requests, DavStep(r)
    PROVE  RowsChange
<1>1. CASE UNCHANGED tables
  BY <1>1 DEF tables, RowsChange, SomeGo, IInv, TypeOK
<1>2. CASE PutSave(r) \/ MkcolSave(r)
  <2>1. req[r].path \in Path
    BY <1>2, Serving DEF PutSave, MkcolSave, At, Request
  <2>2. PICK dir \in BOOLEAN : SaveNode(r, req[r].path, dir)
    BY <1>2 DEF PutSave, MkcolSave
  <2>3. CASE nodes' = nodes /\ nextid' = nextid
    BY <2>3 DEF RowsChange, SomeGo, IInv, TypeOK
  <2>4. CASE OneComes(req[r].path, dir)
    BY <2>1, <2>4 DEF RowsChange
  <2>5. QED
    BY <2>2, <2>3, <2>4 DEF SaveNode, OneComes
<1>3. CASE DeleteShares(r) \/ DeleteTrashRefs(r) \/ DeleteFavorites(r) \/ DeleteRows(r)
  <2>1. nodes' \subseteq nodes /\ nextid' = nextid
    BY <1>3 DEF DeleteShares, DeleteTrashRefs, DeleteFavorites, DeleteRows, Drops
  <2>2. QED
    BY <2>1 DEF RowsChange, SomeGo, IInv, TypeOK
<1>4. CASE MoveTransfer(r) \/ DeleteMove(r)
  <2>1. req[r] \in Request
    BY <1>4, Serving DEF MoveTransfer, DeleteMove, At
  <2>2. nextid' = nextid
    BY <1>4 DEF MoveTransfer, DeleteMove
  <2>3. ASSUME NEW e, NEW from \in Path, NEW to \in Path, NEW transfer \in BOOLEAN, NEW look,
               UpdateRow(r, e, from, to, transfer, look)
        PROVE  RowsChange
    <3>1. nodes' = nodes \/ OneMoves(from, to, transfer)
      BY <2>2, <2>3 DEF UpdateRow, OneMoves
    <3>2. QED
      BY <2>2, <3>1 DEF RowsChange, SomeGo, IInv, TypeOK
  <2>4. CASE MoveTransfer(r)
    <3>1. PICK e \in req[r].at, n \in req[r].node, to \in req[r].to :
            UpdateRow(r, e, n.path, Rebase(n.path, req[r].path, to), TRUE, "move.look")
      BY <2>4 DEF MoveTransfer
    <3>2. n.path \in Path /\ Rebase(n.path, req[r].path, to) \in Path
      BY <2>1, RebasedPath DEF Request, Node
    <3>3. QED
      BY <2>3, <3>1, <3>2
  <2>5. CASE DeleteMove(r)
    <3>1. PICK e \in req[r].at, n \in req[r].node, to \in req[r].slot :
            UpdateRow(r, e, n.path, to, FALSE, "delete.look")
      BY <2>5 DEF DeleteMove
    <3>2. n.path \in Path /\ to \in Path
      BY <2>1 DEF Request, Node
    <3>3. QED
      BY <2>3, <3>1, <3>2
  <2>6. QED
    BY <1>4, <2>4, <2>5
<1>5. CASE nodes' = nodes /\ nextid' = nextid
  BY <1>5 DEF RowsChange, SomeGo, IInv, TypeOK
<1>6. CASE Webdav(r)
  BY <1>1, <1>6 DEF Webdav, DavLock, DavTarget, DavPut, DavMkcol, DavMove, Serves
<1>7. CASE PutResolve(r) \/ MkcolResolve(r) \/ MkcolCheck(r) \/ MoveResolve(r) \/ MoveCheck(r)
  BY <1>1, <1>7 DEF PutResolve, MkcolResolve, MkcolCheck, MoveResolve, MoveCheck
<1>8. CASE MoveLook(r) \/ DeleteResolve(r) \/ DeleteCheck(r) \/ DeleteLook(r) \/ DeleteSlot(r)
  BY <1>1, <1>8 DEF MoveLook, DeleteResolve, DeleteCheck, DeleteLook, DeleteSlot, Look
<1>9. CASE DeleteShare(r) \/ DeleteMark(r)
  BY <1>5, <1>9 DEF DeleteShare, DeleteMark
<1>10. QED
  BY <1>2, <1>3, <1>4, <1>6, <1>7, <1>8, <1>9 DEF DavStep, Put, DeleteNode, Mkcol, Move, Delete

LEMMA StepRows ==
    ASSUME IInv, NEW r \in Requests, Step(r)
    PROVE  RowsChange
<1>1. CASE UNCHANGED tables
  BY <1>1 DEF tables, RowsChange, SomeGo, IInv, TypeOK
<1>2. CASE DavStep(r)
  BY <1>2, DavRows
<1>4. CASE nodes' = nodes /\ nextid' = nextid
  BY <1>4 DEF RowsChange, SomeGo, IInv, TypeOK
<1>5. CASE UndeleteMove(r)
  <2>1. req[r] \in Request
    BY <1>5, Serving DEF UndeleteMove, At
  <2>2. PICK e \in req[r].at, origin \in req[r].slot :
          \/ /\ CanUpdate(e.path, Restored(r, origin))
             /\ nodes' = (nodes \ Rows(e.path))
                         \union {[n EXCEPT !.path = Restored(r, origin)] : n \in Rows(e.path)}
          \/ nodes' = nodes
    BY <1>5 DEF UndeleteMove
  <2>3. e.path \in Path /\ Restored(r, origin) \in Path
    BY <1>5, <2>1, RestoredPath DEF UndeleteMove, At, Request, Entry
  <2>4. nextid' = nextid
    BY <1>5 DEF UndeleteMove
  <2>5. \A n \in Rows(e.path) : [n EXCEPT !.path = Restored(r, origin)] = Moved(n, Restored(r, origin), FALSE)
    <3> SUFFICES ASSUME NEW n \in Node, NEW to \in Path
                 PROVE  [n EXCEPT !.path = to] = Moved(n, to, FALSE)
      BY <2>3 DEF Rows, IInv, TypeOK
    <3>1. QED
      BY DEF Moved, Node
  <2>6. nodes' = nodes \/ OneMoves(e.path, Restored(r, origin), FALSE)
    BY <2>2, <2>4, <2>5 DEF OneMoves
  <2>7. QED
    BY <1>4, <2>3, <2>4, <2>6 DEF RowsChange
<1>6. CASE Undelete(r) \/ PurgeRemove(r)
  <2>1. CASE UndeleteForget(r)
    BY <1>4, <2>1 DEF UndeleteForget
  <2>2. CASE UndeleteLook(r) \/ UndeleteParent(r) \/ UndeleteRename(r) \/ PurgeRemove(r)
    BY <1>1, <2>2 DEF UndeleteLook, UndeleteParent, UndeleteRename, PurgeRemove
  <2>3. CASE UndeleteStat(r) \/ UndeleteOrigin(r)
    BY <1>1, <2>3 DEF UndeleteStat, UndeleteOrigin
  <2>4. QED
    BY <1>5, <1>6, <2>1, <2>2, <2>3 DEF Undelete
<1>7. CASE Sharing(r)
  <2>1. CASE ShareInsert(r)
    <3>1. nodes' = nodes /\ (nextid' = nextid + 1 \/ nextid' = nextid)
      BY <2>1 DEF ShareInsert
    <3>2. QED
      BY <3>1 DEF RowsChange, SomeGo, IInv, TypeOK
  <2>2. CASE ShareLookup(r) \/ ShareRead(r) \/ UnshareDelete(r)
    BY <1>1, <1>4, <2>2 DEF ShareLookup, ShareRead, UnshareDelete
  <2>3. QED
    BY <1>7, <2>1, <2>2 DEF Sharing
<1>8. CASE Favoriting(r)
  BY <1>1, <1>4, <1>8 DEF Favoriting, FavoriteResolve, FavoriteUnmark, FavoriteMark
<1>9. CASE Upload(r)
  <2>1. CASE UploadSave(r) \/ UpdirSave(r)
    <3>1. req[r].path \in Path
      BY <2>1, Serving DEF UploadSave, UpdirSave, At, Request
    <3>2. (nodes' = nodes /\ nextid' = nextid) \/ OneComes(req[r].path, FALSE)
      BY <2>1 DEF UploadSave, UpdirSave, OneComes
    <3>3. QED
      BY <1>4, <3>1, <3>2 DEF RowsChange
  <2>2. CASE UpdirRow(r)
    <3>1. req[r].todo \subseteq Path /\ req[r].todo # {}
      BY <2>2, Serving DEF UpdirRow, At, Request, Proper
    <3>2. UpdirNext(r) \in Path
      BY <3>1, NextToMake
    <3>3. (nodes' = nodes /\ nextid' = nextid) \/ OneComes(UpdirNext(r), TRUE)
      BY <2>2 DEF UpdirRow, OneComes
    <3>4. QED
      BY <1>4, <3>2, <3>3 DEF RowsChange
  <2>3. CASE \/ UploadResolve(r) \/ UploadCreate(r) \/ UpdirResolve(r) \/ UpdirScan(r)
             \/ UpdirMkdir(r) \/ UpdirCreate(r)
    BY <1>1, <2>3 DEF UploadResolve, UploadCreate, UpdirResolve, UpdirScan, UpdirMkdir, UpdirCreate
  <2>4. QED
    BY <1>9, <2>1, <2>2, <2>3 DEF Upload
<1>10. QED
  BY <1>2, <1>6, <1>7, <1>8, <1>9 DEF Step

LEMMA UniqueKeeps ==
    ASSUME IInv, RowsUnique, [Next]_vars
    PROVE  RowsUnique'
<1>1. CASE UNCHANGED tables
  BY <1>1 DEF tables, RowsUnique
<1>2. ASSUME NEW r \in Requests, Start(r) \/ Step(r) \/ Fault(r)
      PROVE  RowsUnique'
  BY <1>1, <1>2, StepRows, RowsStayUnique DEF Start, Fault
<1>3. QED
  BY <1>1, <1>2 DEF Next, Rest, Crash, vars, tables

LEMMA InitUnique == Init => RowsUnique
<1> SUFFICES ASSUME Init
             PROVE  RowsUnique
  OBVIOUS
<1>1. \A n \in InitNodes : n.id < InitNextId
  <2> SUFFICES ASSUME NEW n \in InitNodes
               PROVE  n.id < InitNextId
    OBVIOUS
  <2>1. n.id \in 1 .. InitNextId - 1 /\ InitNextId \in Nat
    BY InitiallySound, StorageAssumption
  <2>2. QED
    BY <2>1
<1>2. QED
  BY <1>1, InitiallySound DEF Init, RowsUnique

\* As long as no client names the root of a home: whatever requests do at the
\* same time, and whatever fails, no two nodes have an id or a path in common,
\* and every id the SERIAL hands out is new.
THEOREM RowsUniqueAlways == RootsUnnamed => (Spec => []RowsUnique)
<1> SUFFICES ASSUME RootsUnnamed
             PROVE  Spec => []RowsUnique
  OBVIOUS
<1>1. IInv /\ RowsUnique /\ [Next]_vars => RowsUnique'
  BY UniqueKeeps
<1>2. Spec => []IInv
  BY Invariance
<1>3. QED
  BY <1>1, <1>2, InitUnique, PTL DEF Spec
-----------------------------------------------------------------------------
\* Clients that only create, by PUT, MKCOL and the upload form, any number of
\* them at once: directories are made from the top down, and tables and tree
\* agree whenever all is answered, unless one was answered with an error after it
\* had written.
Creating == {"PUT", "MKCOL", "UPLOAD", "UPDIR"}

OnCourse(q) ==
    \/ q.op = "PUT" /\ q.pc \in {"put.resolve", "del.shares", "del.trash", "del.favorites",
                                 "del.rows", "put.save", "dav.lock", "dav.serve"}
    \/ q.op = "MKCOL" /\ q.pc \in {"mkcol.resolve", "mkcol.check", "mkcol.save",
                                   "dav.lock", "dav.serve"}
    \/ q.op = "UPLOAD" /\ q.pc \in {"upload.resolve", "upload.create", "upload.save"}
    \/ q.op = "UPDIR" /\ q.pc \in {"updir.resolve", "updir.scan", "updir.mkdir", "updir.row",
                                   "updir.save", "updir.create"}

\* The row is there and the file or directory is to follow.
Coming(q) == q.pc \in {"dav.lock", "dav.serve", "updir.create"}
Brought(q) == [path |-> q.path, dir |-> q.op = "MKCOL"]

\* A request knows its way, and that it has written.
Straight(q) ==
    q.pc # "idle" => /\ OnCourse(q)
                     /\ Coming(q) \/ q.pc \in {"upload.save", "updir.row"} => q.wrote

Expected(e) == \E q \in Requests : Coming(req[q]) /\ Brought(req[q]) = e
Comes(e) == e \in disk \/ Expected(e)
Stands(p) == \E dir \in BOOLEAN : Comes([path |-> p, dir |-> dir])

\* What a request makes before its row.
Shortest(todo) == CHOOSE p \in todo : \A q \in todo : Len(p.rel) <= Len(q.rel)
MadeFirst(q, e) ==
    \/ q.pc = "upload.save" /\ e = [path |-> q.path, dir |-> FALSE]
    \/ q.pc = "updir.row" /\ e = [path |-> Shortest(q.todo), dir |-> TRUE]
Made(q) == \A e : MadeFirst(q, e) => e \in disk

\* The directories to make are a ladder, whose foot is the place to look next
\* and, when all are found, stands or is about to.
Ladder(q) ==
    /\ q.pc = "updir.resolve" => q.todo = {}
    /\ q.pc = "updir.scan" => /\ \A s, t \in q.slot : s = t
                              /\ \A p \in q.todo : ParentOf(p) \in q.todo \union q.slot
    /\ q.pc \in {"updir.mkdir", "updir.row"} =>
         \A p \in q.todo : ParentOf(p) \in q.todo \/ Stands(ParentOf(p))

RowsCome == \A n \in nodes : Comes(EntryOf(n))

TopDown ==
    /\ \A r \in Requests : Straight(req[r]) /\ Made(req[r])
    /\ ~torn => RowsCome /\ \A r \in Requests : Ladder(req[r])
-----------------------------------------------------------------------------
\* What a step of a request must do for all this to stay so, for the request
\* and for those who rely on it.
Onward(r) ==
    /\ disk \subseteq disk'
    /\ torn => torn'
    /\ \A q \in Requests \ {r} : req'[q] = req[q]
    /\ Straight(req[r])' /\ Made(req[r])'
    /\ Coming(req[r]) => \/ torn'
                         \/ Brought(req[r]) \in disk'
                         \/ Coming(req'[r]) /\ Brought(req'[r]) = Brought(req[r])
    /\ \A n \in nodes' \ nodes : \/ torn'
                                 \/ EntryOf(n) \in disk'
                                 \/ Coming(req'[r]) /\ Brought(req'[r]) = EntryOf(n)
    /\ ~torn' => Ladder(req[r])'

LEMMA StillComes ==
    ASSUME NEW r \in Requests, Onward(r), ~torn', NEW e, Comes(e)
    PROVE  Comes(e)'
<1>1. CASE e \in disk
  BY <1>1 DEF Onward, Comes, Expected
<1>2. ASSUME NEW q \in Requests, Coming(req[q]), Brought(req[q]) = e
      PROVE  Comes(e)'
  <2>1. CASE q = r
    BY <1>2, <2>1 DEF Onward, Comes, Expected
  <2>2. CASE q # r
    <3>1. req'[q] = req[q]
      BY <2>2 DEF Onward
    <3>2. QED
      BY <1>2, <3>1 DEF Comes, Expected
  <2>3. QED
    BY <2>1, <2>2
<1>3. QED
  BY <1>1, <1>2 DEF Comes, Expected

LEMMA StandsStill ==
    ASSUME NEW r \in Requests, ~Coming(req[r]), disk \subseteq disk',
           \A q \in Requests \ {r} : req'[q] = req[q], NEW p, Stands(p)
    PROVE  Stands(p)'
<1> SUFFICES ASSUME NEW e, Comes(e)
             PROVE  Comes(e)'
  BY DEF Stands
<1>1. CASE e \in disk
  BY <1>1 DEF Comes, Expected
<1>2. ASSUME NEW q \in Requests, Coming(req[q]), Brought(req[q]) = e
      PROVE  Comes(e)'
  <2>1. req'[q] = req[q]
    BY <1>2
  <2>2. QED
    BY <1>2, <2>1 DEF Comes, Expected
<1>3. QED
  BY <1>1, <1>2 DEF Comes, Expected

LEMMA OnwardKeeps ==
    ASSUME TopDown, NEW r \in Requests, Onward(r)
    PROVE  TopDown'
<1>1. ASSUME NEW q \in Requests
      PROVE  Straight(req[q])' /\ Made(req[q])'
  <2>1. CASE q = r
    BY <2>1 DEF Onward
  <2>2. CASE q # r
    <3>1. req'[q] = req[q] /\ disk \subseteq disk'
      BY <2>2 DEF Onward
    <3>2. Straight(req[q]) /\ Made(req[q])
      BY DEF TopDown
    <3>3. QED
      BY <3>1, <3>2 DEF Straight, OnCourse, Coming, Made, MadeFirst
  <2>3. QED
    BY <2>1, <2>2
<1>2. ASSUME ~torn'
      PROVE  RowsCome' /\ \A q \in Requests : Ladder(req[q])'
  <2>1. ~torn /\ RowsCome
    BY <1>2 DEF Onward, TopDown
  <2>2. RowsCome'
    <3> SUFFICES ASSUME NEW n \in nodes'
                 PROVE  Comes(EntryOf(n))'
      BY DEF RowsCome
    <3>1. CASE n \in nodes
      <4>1. Comes(EntryOf(n))
        BY <2>1, <3>1 DEF RowsCome
      <4>2. Comes(EntryOf(n))'
        BY <1>2, <4>1, StillComes
      <4>3. QED
        BY <4>2
    <3>2. CASE n \notin nodes
      <4>1. \/ EntryOf(n) \in disk'
            \/ Coming(req'[r]) /\ Brought(req'[r]) = EntryOf(n)
        BY <1>2, <3>2 DEF Onward
      <4>2. QED
        BY <4>1 DEF Comes, Expected
    <3>3. QED
      BY <3>1, <3>2
  <2>3. \A p : Stands(p) => Stands(p)'
    BY <1>2, StillComes DEF Stands
  <2>4. ASSUME NEW q \in Requests
        PROVE  Ladder(req[q])'
    <3>1. CASE q = r
      BY <1>2, <3>1 DEF Onward
    <3>2. CASE q # r
      <4>1. req'[q] = req[q]
        BY <3>2 DEF Onward
      <4>2. Ladder(req[q])
        BY <2>1 DEF TopDown
      <4>3. QED
        BY <2>3, <4>1, <4>2 DEF Ladder
    <3>3. QED
      BY <3>1, <3>2
  <2>5. QED
    BY <2>2, <2>4
<1>3. QED
  BY <1>1, <1>2 DEF TopDown
-----------------------------------------------------------------------------
\* A request that is over is in nobody's way: if it had a file to bring it has
\* written, so that failing tears.
LEMMA FailsOnward ==
    ASSUME IInv, TopDown, NEW r \in Requests, Fail(r), req[r].pc # "idle",
           disk \subseteq disk', nodes' \subseteq nodes
    PROVE  Onward(r)
<1>1. req' = [req EXCEPT ![r] = Idle] /\ torn' = (torn \/ req[r].wrote)
  BY DEF Fail
<1>2. req'[r] = Idle /\ \A q \in Requests \ {r} : req'[q] = req[q]
  BY <1>1 DEF IInv, RequestsProper
<1>3. Coming(req[r]) => torn'
  BY <1>1 DEF TopDown, Straight
<1>4. Straight(req[r])' /\ Made(req[r])' /\ Ladder(req[r])'
  BY <1>2 DEF Idle, Straight, Made, MadeFirst, Ladder
<1>5. QED
  BY <1>1, <1>2, <1>3, <1>4 DEF Onward

\* Where a request has nothing half done.
Simple == {"put.resolve", "del.shares", "del.trash", "del.favorites", "del.rows", "put.save",
           "mkcol.resolve", "mkcol.check", "mkcol.save",
           "upload.resolve", "upload.create", "updir.save"}

LEMMA GoesOnward ==
    ASSUME IInv, TopDown, NEW r \in Requests, ~Coming(req[r]),
           NEW q, req' = [req EXCEPT ![r] = q], OnCourse(q), q.pc \in Simple,
           UNCHANGED torn, disk \subseteq disk', nodes' \subseteq nodes
    PROVE  Onward(r)
<1>1. req'[r] = q /\ \A p \in Requests \ {r} : req'[p] = req[p]
  BY DEF IInv, RequestsProper
<1>2. Straight(req[r])' /\ Made(req[r])' /\ Ladder(req[r])'
  BY <1>1 DEF Simple, Coming, Straight, Made, MadeFirst, Ladder
<1>3. QED
  BY <1>1, <1>2 DEF Onward

\* The same, for a request that only gets on, or has found its path.
LEMMA GoToOnward ==
    ASSUME IInv, TopDown, NEW r \in Requests, NEW where \in Simple, req[r].pc # "idle",
           ~Coming(req[r]), OnCourse([req[r] EXCEPT !.pc = where]),
           GoTo(r, where), UNCHANGED torn, disk \subseteq disk', nodes' \subseteq nodes
    PROVE  Onward(r)
<1>1. req[r] \in Request
  BY Serving
<1>2. req' = [req EXCEPT ![r] = [req[r] EXCEPT !.pc = where]]
  BY DEF GoTo
<1>3. [req[r] EXCEPT !.pc = where].pc = where
  BY <1>1 DEF Request
<1>4. QED
  BY <1>2, <1>3, GoesOnward

LEMMA FindsOnward ==
    ASSUME IInv, TopDown, NEW r \in Requests, NEW where \in Simple, NEW p, req[r].pc # "idle",
           ~Coming(req[r]), OnCourse([req[r] EXCEPT !.pc = where]),
           req' = [req EXCEPT ![r].pc = where, ![r].path = p],
           UNCHANGED torn, disk \subseteq disk', nodes' \subseteq nodes
    PROVE  Onward(r)
<1> DEFINE q == [req[r] EXCEPT !.pc = where, !.path = p]
<1>1. req[r] \in Request
  BY Serving
<1>2. req' = [req EXCEPT ![r] = q]
  OBVIOUS
<1>3. /\ q.pc = where /\ q.op = req[r].op
      /\ [req[r] EXCEPT !.pc = where].pc = where
      /\ [req[r] EXCEPT !.pc = where].op = req[r].op
  BY <1>1 DEF Request
<1> HIDE DEF q
<1>4. OnCourse(q)
  BY <1>3 DEF OnCourse
<1>5. QED
  BY <1>2, <1>3, <1>4, GoesOnward
-----------------------------------------------------------------------------
\* The operations, step by step.  A request's place tells which it is.

LEMMA OpAt ==
    ASSUME TopDown, NEW r \in Requests, req[r].pc # "idle"
    PROVE  OnCourse(req[r])
BY DEF TopDown, Straight

LEMMA NewRow ==
    ASSUME NEW p, NEW dir, NEW n \in Inserted(p, dir) \ nodes
    PROVE  EntryOf(n) = [path |-> p, dir |-> dir]
BY DEF Inserted, EntryOf

LEMMA PutResolveOnward ==
    ASSUME IInv, TopDown, NEW r \in Requests, PutResolve(r)
    PROVE  Onward(r)
<1>1. req[r].pc = "put.resolve" /\ req[r] \in Request /\ OnCourse(req[r])
  BY Serving, OpAt DEF PutResolve, At
<1>2. nodes' = nodes /\ disk' = disk
  BY DEF PutResolve, tables
<1>3. CASE Fail(r)
  BY <1>1, <1>2, <1>3, FailsOnward
<1>4. ASSUME NEW p, req' = [req EXCEPT ![r].pc = "del.shares",
                                       ![r].path = Child(p, Last(req[r].rel))],
             UNCHANGED torn
      PROVE  Onward(r)
  <2>1. OnCourse([req[r] EXCEPT !.pc = "del.shares"])
    BY <1>1 DEF OnCourse, Request
  <2>2. "del.shares" \in Simple /\ ~Coming(req[r]) /\ req[r].pc # "idle"
    BY <1>1 DEF Simple, Coming
  <2>3. QED
    BY <1>2, <1>4, <2>1, <2>2, FindsOnward
<1>5. QED
  BY <1>3, <1>4 DEF PutResolve

LEMMA DropOnward ==
    ASSUME IInv, TopDown, NEW r \in Requests, NEW gone,
           NEW where \in {"del.trash", "del.favorites", "del.rows"},
           req[r].pc \in {"del.shares", "del.trash", "del.favorites"}, Drops(r, gone, where)
    PROVE  Onward(r)
<1> DEFINE q == [req[r] EXCEPT !.pc = where, !.wrote = @ \/ gone # {}]
<1>1. req[r] \in Request /\ OnCourse(req[r]) /\ req[r].pc # "idle"
  BY Serving, OpAt
<1>2. req' = [req EXCEPT ![r] = q]
  BY DEF Drops
<1>3. q.pc = where /\ q.op = req[r].op
  BY <1>1 DEF Request
<1> HIDE DEF q
<1>4. OnCourse(q) /\ q.pc \in Simple /\ ~Coming(req[r])
  BY <1>1, <1>3 DEF OnCourse, Simple, Coming
<1>5. UNCHANGED <<nodes, disk, torn>>
  BY DEF Drops
<1>6. QED
  BY <1>2, <1>4, <1>5, GoesOnward

LEMMA DeleteRowsOnward ==
    ASSUME IInv, TopDown, NEW r \in Requests, DeleteRows(r)
    PROVE  Onward(r)
<1>1. req[r].pc = "del.rows" /\ req[r] \in Request /\ OnCourse(req[r])
  BY Serving, OpAt DEF DeleteRows, At
<1>2. req[r].op = "PUT" /\ ~Coming(req[r])
  BY <1>1 DEF OnCourse, Coming
<1>3. disk' = disk /\ nodes' \subseteq nodes
  BY DEF DeleteRows
<1>4. CASE Fail(r)
  BY <1>1, <1>3, <1>4, FailsOnward
<1>5. CASE /\ req' = [req EXCEPT ![r].pc = "put.save",
                                 ![r].wrote = @ \/ Victims(r) # {}]
           /\ UNCHANGED torn
  <2> DEFINE q == [req[r] EXCEPT !.pc = "put.save", !.wrote = @ \/ Victims(r) # {}]
  <2>1. req' = [req EXCEPT ![r] = q]
    BY <1>5
  <2>2. q.pc = "put.save" /\ q.op = "PUT"
    BY <1>1, <1>2 DEF Request
  <2> HIDE DEF q
  <2>3. OnCourse(q) /\ q.pc \in Simple
    BY <2>2 DEF OnCourse, Simple
  <2>4. QED
    BY <1>2, <1>3, <1>5, <2>1, <2>3, GoesOnward
<1>6. QED
  BY <1>2, <1>4, <1>5 DEF DeleteRows

LEMMA DeleteNodeOnward ==
    ASSUME IInv, TopDown, NEW r \in Requests, DeleteNode(r)
    PROVE  Onward(r)
<1>1. CASE DeleteShares(r)
  BY <1>1, DropOnward DEF DeleteShares, At
<1>2. CASE DeleteTrashRefs(r)
  BY <1>2, DropOnward DEF DeleteTrashRefs, At
<1>3. CASE DeleteFavorites(r)
  BY <1>3, DropOnward DEF DeleteFavorites, At
<1>4. CASE DeleteRows(r)
  BY <1>4, DeleteRowsOnward
<1>5. QED
  BY <1>1, <1>2, <1>3, <1>4 DEF DeleteNode

\* A row that comes before its file is brought by the request.
LEMMA SaveNodeOnward ==
    ASSUME IInv, TopDown, NEW r \in Requests, req[r].pc \in {"put.save", "mkcol.save"},
           SaveNode(r, req[r].path, req[r].op = "MKCOL"), UNCHANGED disk
    PROVE  Onward(r)
<1>1. req[r] \in Request /\ OnCourse(req[r]) /\ req[r].pc # "idle" /\ ~Coming(req[r])
  BY Serving, OpAt DEF Coming
<1>2. CASE Fail(r) /\ nodes' = nodes
  BY <1>1, <1>2, FailsOnward
<1>3. CASE /\ nodes' = Inserted(req[r].path, req[r].op = "MKCOL")
           /\ req' = [req EXCEPT ![r].pc = "dav.lock", ![r].wrote = TRUE]
           /\ UNCHANGED torn
  <2>1. /\ req'[r] = [req[r] EXCEPT !.pc = "dav.lock", !.wrote = TRUE]
        /\ \A q \in Requests \ {r} : req'[q] = req[q]
    BY <1>3 DEF IInv, RequestsProper
  <2>2. /\ req'[r].pc = "dav.lock" /\ req'[r].wrote
        /\ req'[r].op = req[r].op /\ req'[r].path = req[r].path
    BY <1>1, <2>1 DEF Request
  <2>3. Straight(req[r])' /\ Made(req[r])' /\ Ladder(req[r])'
    BY <1>1, <2>2 DEF Straight, OnCourse, Coming, Made, MadeFirst, Ladder
  <2>4. \A n \in nodes' \ nodes : Coming(req'[r]) /\ Brought(req'[r]) = EntryOf(n)
    <3> DEFINE dir == req[r].op = "MKCOL"
    <3>1. nodes' = Inserted(req[r].path, dir)
      BY <1>3
    <3>2. Brought(req'[r]) = [path |-> req[r].path, dir |-> dir]
      BY <2>2 DEF Brought
    <3> HIDE DEF dir
    <3>3. QED
      BY <2>2, <3>1, <3>2, NewRow DEF Coming
  <2>5. QED
    BY <1>1, <1>3, <2>1, <2>3, <2>4 DEF Onward
<1>4. QED
  BY <1>2, <1>3 DEF SaveNode

LEMMA PutSaveOnward ==
    ASSUME IInv, TopDown, NEW r \in Requests, PutSave(r)
    PROVE  Onward(r)
<1>1. req[r].pc = "put.save" /\ disk' = disk
  BY DEF PutSave, At
<1>2. (req[r].op = "MKCOL") = FALSE
  BY <1>1, OpAt DEF OnCourse
<1>3. QED
  BY <1>1, <1>2, SaveNodeOnward DEF PutSave

LEMMA MkcolSaveOnward ==
    ASSUME IInv, TopDown, NEW r \in Requests, MkcolSave(r)
    PROVE  Onward(r)
<1>1. req[r].pc = "mkcol.save" /\ disk' = disk
  BY DEF MkcolSave, At
<1>2. (req[r].op = "MKCOL") = TRUE
  BY <1>1, OpAt DEF OnCourse
<1>3. QED
  BY <1>1, <1>2, SaveNodeOnward DEF MkcolSave

LEMMA MkcolResolveOnward ==
    ASSUME IInv, TopDown, NEW r \in Requests, MkcolResolve(r)
    PROVE  Onward(r)
<1>1. req[r].pc = "mkcol.resolve" /\ req[r] \in Request /\ OnCourse(req[r])
  BY Serving, OpAt DEF MkcolResolve, At
<1>2. nodes' = nodes /\ disk' = disk
  BY DEF MkcolResolve, tables
<1>3. CASE Fail(r)
  BY <1>1, <1>2, <1>3, FailsOnward
<1>4. ASSUME NEW where \in {"mkcol.check", "mkcol.save"}, NEW p,
             req' = [req EXCEPT ![r].pc = where, ![r].path = p], UNCHANGED torn
      PROVE  Onward(r)
  <2>1. OnCourse([req[r] EXCEPT !.pc = where])
    BY <1>1 DEF OnCourse, Request
  <2>2. where \in Simple /\ ~Coming(req[r]) /\ req[r].pc # "idle"
    BY <1>1 DEF Simple, Coming
  <2>3. QED
    BY <1>2, <1>4, <2>1, <2>2, FindsOnward
<1>5. QED
  BY <1>3, <1>4 DEF MkcolResolve

LEMMA MkcolCheckOnward ==
    ASSUME IInv, TopDown, NEW r \in Requests, MkcolCheck(r)
    PROVE  Onward(r)
<1>1. req[r].pc = "mkcol.check" /\ req[r] \in Request /\ OnCourse(req[r])
  BY Serving, OpAt DEF MkcolCheck, At
<1>2. nodes' = nodes /\ disk' = disk
  BY DEF MkcolCheck, tables
<1>3. CASE Fail(r)
  BY <1>1, <1>2, <1>3, FailsOnward
<1>4. CASE GoTo(r, "mkcol.save") /\ UNCHANGED torn
  <2>1. OnCourse([req[r] EXCEPT !.pc = "mkcol.save"])
    BY <1>1 DEF OnCourse, Request
  <2>2. "mkcol.save" \in Simple /\ ~Coming(req[r]) /\ req[r].pc # "idle"
    BY <1>1 DEF Simple, Coming
  <2>3. QED
    BY <1>2, <1>4, <2>1, <2>2, GoToOnward
<1>5. QED
  BY <1>3, <1>4 DEF MkcolCheck
-----------------------------------------------------------------------------
\* The library: what was to come is there, or the request fails.

LEMMA DavLockOnward ==
    ASSUME IInv, TopDown, NEW r \in Requests, DavLock(r)
    PROVE  Onward(r)
<1>1. req[r].pc = "dav.lock" /\ req[r] \in Request /\ OnCourse(req[r]) /\ req[r].wrote
  BY Serving, OpAt DEF DavLock, At, TopDown, Straight, Coming
<1>2. nodes' = nodes /\ disk' = disk
  BY DEF DavLock, tables
<1>3. CASE Fail(r)
  BY <1>1, <1>2, <1>3, FailsOnward
<1>4. CASE GoTo(r, "dav.serve") /\ UNCHANGED torn
  <2>1. /\ req'[r] = [req[r] EXCEPT !.pc = "dav.serve"]
        /\ \A q \in Requests \ {r} : req'[q] = req[q]
    BY <1>4 DEF GoTo, IInv, RequestsProper
  <2>2. /\ req'[r].pc = "dav.serve" /\ req'[r].wrote
        /\ req'[r].op = req[r].op /\ req'[r].path = req[r].path
    BY <1>1, <2>1 DEF Request
  <2>3. Straight(req[r])' /\ Made(req[r])' /\ Ladder(req[r])'
    BY <1>1, <2>2 DEF Straight, OnCourse, Made, MadeFirst, Ladder
  <2>4. Coming(req'[r]) /\ Brought(req'[r]) = Brought(req[r])
    BY <2>2 DEF Coming, Brought
  <2>5. QED
    BY <1>2, <1>4, <2>1, <2>3, <2>4 DEF Onward
<1>5. req[r].op \notin {"MOVE", "DELETE"}
  BY <1>1 DEF OnCourse
<1>6. QED
  BY <1>3, <1>4, <1>5 DEF DavLock

\* A request that has done what it was to do.
LEMMA FinishesOnward ==
    ASSUME IInv, TopDown, NEW r \in Requests, Finish(r),
           disk \subseteq disk',
           Coming(req[r]) => Brought(req[r]) \in disk',
           \A n \in nodes' \ nodes : EntryOf(n) \in disk'
    PROVE  Onward(r)
<1>1. req' = [req EXCEPT ![r] = Idle] /\ torn' = (torn \/ req[r].bad)
  BY DEF Finish
<1>2. req'[r] = Idle /\ \A q \in Requests \ {r} : req'[q] = req[q]
  BY <1>1 DEF IInv, RequestsProper
<1>3. Straight(req[r])' /\ Made(req[r])' /\ Ladder(req[r])'
  BY <1>2 DEF Idle, Straight, Made, MadeFirst, Ladder
<1>4. QED
  BY <1>1, <1>2, <1>3 DEF Onward

LEMMA DavServeOnward ==
    ASSUME IInv, TopDown, NEW r \in Requests, DavPut(r) \/ DavMkcol(r)
    PROVE  Onward(r)
<1>1. req[r].pc = "dav.serve" /\ req[r].op \in {"PUT", "MKCOL"}
  BY DEF DavPut, DavMkcol, At
<1>2. nodes' = nodes
  BY DEF DavPut, DavMkcol, Serves, tables
<1>3. CASE Fail(r) /\ disk' = disk
  BY <1>1, <1>2, <1>3, FailsOnward
<1>4. CASE Finish(r) /\ disk' = disk \union {Brought(req[r])}
  BY <1>2, <1>4, FinishesOnward
<1>5. QED
  BY <1>1, <1>3, <1>4 DEF DavPut, DavMkcol, Serves, Brought
-----------------------------------------------------------------------------
\* The upload form.

LEMMA UploadResolveOnward ==
    ASSUME IInv, TopDown, NEW r \in Requests, UploadResolve(r)
    PROVE  Onward(r)
<1>1. req[r].pc = "upload.resolve" /\ req[r] \in Request /\ OnCourse(req[r])
  BY Serving, OpAt DEF UploadResolve, At
<1>2. nodes' = nodes /\ disk' = disk
  BY DEF UploadResolve, tables
<1>3. CASE Fail(r)
  BY <1>1, <1>2, <1>3, FailsOnward
<1>4. ASSUME NEW p, req' = [req EXCEPT ![r].pc = "upload.create",
                                       ![r].path = Child(p, Last(req[r].rel))],
             UNCHANGED torn
      PROVE  Onward(r)
  <2>1. OnCourse([req[r] EXCEPT !.pc = "upload.create"])
    BY <1>1 DEF OnCourse, Request
  <2>2. "upload.create" \in Simple /\ ~Coming(req[r]) /\ req[r].pc # "idle"
    BY <1>1 DEF Simple, Coming
  <2>3. QED
    BY <1>2, <1>4, <2>1, <2>2, FindsOnward
<1>5. QED
  BY <1>3, <1>4 DEF UploadResolve

LEMMA UploadCreateOnward ==
    ASSUME IInv, TopDown, NEW r \in Requests, UploadCreate(r)
    PROVE  Onward(r)
<1>1. req[r].pc = "upload.create" /\ req[r] \in Request /\ OnCourse(req[r])
  BY Serving, OpAt DEF UploadCreate, At
<1>2. nodes' = nodes
  BY DEF UploadCreate, tables
<1>3. CASE Fail(r) /\ disk' = disk
  BY <1>1, <1>2, <1>3, FailsOnward
<1>4. CASE /\ disk' = Created(req[r].path)
           /\ req' = [req EXCEPT ![r].pc = "upload.save", ![r].wrote = TRUE]
           /\ UNCHANGED torn
  <2>1. /\ req'[r] = [req[r] EXCEPT !.pc = "upload.save", !.wrote = TRUE]
        /\ \A q \in Requests \ {r} : req'[q] = req[q]
    BY <1>4 DEF IInv, RequestsProper
  <2>2. /\ req'[r].pc = "upload.save" /\ req'[r].wrote
        /\ req'[r].op = req[r].op /\ req'[r].path = req[r].path
    BY <1>1, <2>1 DEF Request
  <2>3. [path |-> req'[r].path, dir |-> FALSE] \in disk' /\ disk \subseteq disk'
    <3>1. [path |-> req[r].path, dir |-> FALSE] \in Created(req[r].path)
      BY Zenon DEF Created
    <3>2. QED
      BY <1>4, <2>2, <3>1 DEF Created
  <2>4. Straight(req[r])' /\ Made(req[r])' /\ Ladder(req[r])' /\ ~Coming(req[r])
    BY <1>1, <2>2, <2>3 DEF Straight, OnCourse, Coming, Made, MadeFirst, Ladder
  <2>5. QED
    BY <1>2, <1>4, <2>1, <2>3, <2>4 DEF Onward
<1>5. QED
  BY <1>3, <1>4 DEF UploadCreate

LEMMA UploadSaveOnward ==
    ASSUME IInv, TopDown, NEW r \in Requests, UploadSave(r)
    PROVE  Onward(r)
<1>1. req[r].pc = "upload.save" /\ disk' = disk
  BY DEF UploadSave, At
<1>2. CASE Fail(r) /\ nodes' = nodes
  BY <1>1, <1>2, FailsOnward
<1>3. CASE nodes' = Inserted(req[r].path, FALSE) /\ Finish(r)
  <2>1. [path |-> req[r].path, dir |-> FALSE] \in disk
    BY <1>1 DEF TopDown, Made, MadeFirst
  <2>2. \A n \in nodes' \ nodes : EntryOf(n) \in disk'
    BY <1>1, <1>3, <2>1, NewRow
  <2>3. ~Coming(req[r])
    BY <1>1 DEF Coming
  <2>4. QED
    BY <1>1, <1>3, <2>2, <2>3, FinishesOnward
<1>4. QED
  BY <1>2, <1>3 DEF UploadSave
-----------------------------------------------------------------------------
\* With directories: the ladder is empty, gets a rung, stands, loses its lowest.

LEMMA UpdirResolveOnward ==
    ASSUME IInv, TopDown, NEW r \in Requests, UpdirResolve(r)
    PROVE  Onward(r)
<1>1. req[r].pc = "updir.resolve" /\ req[r] \in Request /\ OnCourse(req[r])
  BY Serving, OpAt DEF UpdirResolve, At
<1>2. nodes' = nodes /\ disk' = disk
  BY DEF UpdirResolve, tables
<1>3. CASE Fail(r)
  BY <1>1, <1>2, <1>3, FailsOnward
<1>4. ASSUME NEW p, NEW path,
             req' = [req EXCEPT ![r].pc = "updir.scan", ![r].slot = {p}, ![r].path = path],
             UNCHANGED torn
      PROVE  Onward(r)
  <2>1. /\ req'[r] = [req[r] EXCEPT !.pc = "updir.scan", !.slot = {p}, !.path = path]
        /\ \A q \in Requests \ {r} : req'[q] = req[q]
    BY <1>4 DEF IInv, RequestsProper
  <2>2. /\ req'[r].pc = "updir.scan" /\ req'[r].op = req[r].op
        /\ req'[r].slot = {p} /\ req'[r].todo = req[r].todo
    BY <1>1, <2>1 DEF Request
  <2>3. Straight(req[r])' /\ Made(req[r])' /\ ~Coming(req[r])
    BY <1>1, <2>2 DEF Straight, OnCourse, Coming, Made, MadeFirst
  <2>4. ASSUME ~torn'
        PROVE  Ladder(req[r])'
    <3>1. req[r].todo = {}
      BY <1>1, <1>4, <2>4 DEF TopDown, Ladder
    <3>2. QED
      BY <2>2, <3>1 DEF Ladder
  <2>5. QED
    BY <1>2, <1>4, <2>1, <2>3, <2>4 DEF Onward
<1>5. PICK inHome \in BOOLEAN :
        LET places == UpdirPlaces(req[r].user, Front(req[r].rel), inHome) IN
        \/ places = {} /\ Fail(r)
        \/ \E p \in places :
             /\ req' = [req EXCEPT ![r].pc = "updir.scan", ![r].slot = {p},
                                   ![r].path = Child(p, Last(req[r].rel))]
             /\ UNCHANGED torn
  BY Zenon DEF UpdirResolve
<1>6. QED
  BY <1>3, <1>4, <1>5

LEMMA UpdirScanOnward ==
    ASSUME IInv, TopDown, NEW r \in Requests, UpdirScan(r)
    PROVE  Onward(r)
<1>1. req[r].pc = "updir.scan" /\ req[r] \in Request /\ OnCourse(req[r])
  BY Serving, OpAt DEF UpdirScan, At
<1>2. nodes' = nodes /\ disk' = disk /\ ~Coming(req[r])
  BY <1>1 DEF UpdirScan, tables, Coming
<1>3. PICK p \in req[r].slot :
        IF RowExists(p)
        THEN /\ req' = [req EXCEPT ![r].slot = {},
                          ![r].pc = IF req[r].todo = {} THEN "updir.save" ELSE "updir.mkdir"]
             /\ UNCHANGED torn
        ELSE IF p.rel = <<>>
        THEN Fail(r)
        ELSE /\ req' = [req EXCEPT ![r].todo = @ \union {p}, ![r].slot = {ParentOf(p)}]
             /\ UNCHANGED torn
  BY DEF UpdirScan
<1>4. ASSUME ~torn
      PROVE  /\ req[r].slot = {p}
             /\ \A x \in req[r].todo : ParentOf(x) \in req[r].todo \union {p}
  BY <1>1, <1>4 DEF TopDown, Ladder
<1>5. CASE RowExists(p)
  <2> DEFINE where == IF req[r].todo = {} THEN "updir.save" ELSE "updir.mkdir"
  <2>1. where \in {"updir.save", "updir.mkdir"}
    OBVIOUS
  <2>2. req' = [req EXCEPT ![r] = [req[r] EXCEPT !.slot = {}, !.pc = where]] /\ UNCHANGED torn
    BY <1>3, <1>5
  <2> HIDE DEF where
  <2>3. /\ req'[r] = [req[r] EXCEPT !.slot = {}, !.pc = where]
        /\ \A q \in Requests \ {r} : req'[q] = req[q]
    BY <2>2 DEF IInv, RequestsProper
  <2>4. /\ req'[r].pc = where /\ req'[r].op = req[r].op /\ req'[r].todo = req[r].todo
    BY <1>1, <2>3 DEF Request
  <2>5. Straight(req[r])' /\ Made(req[r])'
    BY <1>1, <2>1, <2>4 DEF Straight, OnCourse, Coming, Made, MadeFirst
  <2>6. ASSUME ~torn'
        PROVE  Ladder(req[r])'
    <3>1. ~torn /\ Stands(p)
      <4>1. ~torn /\ RowsCome
        BY <2>2, <2>6 DEF TopDown
      <4>2. PICK n \in nodes : n.path = p
        BY <1>5 DEF RowExists
      <4>3. Comes([path |-> p, dir |-> n.dir]) /\ n.dir \in BOOLEAN
        BY <4>1, <4>2 DEF RowsCome, EntryOf, IInv, TypeOK, Node
      <4>4. QED
        BY <4>1, <4>3 DEF Stands
    <3>2. Stands(p)'
      BY <1>2, <2>3, <3>1, StandsStill
    <3>3. \A x \in req'[r].todo : ParentOf(x) \in req'[r].todo \/ ParentOf(x) = p
      BY <1>4, <2>4, <3>1
    <3>4. QED
      BY <2>1, <2>4, <3>2, <3>3 DEF Ladder
  <2>7. QED
    BY <1>2, <2>2, <2>3, <2>5, <2>6 DEF Onward
<1>6. CASE ~RowExists(p) /\ p.rel = <<>>
  BY <1>1, <1>2, <1>3, <1>6, FailsOnward
<1>7. CASE ~RowExists(p) /\ p.rel # <<>>
  <2> DEFINE todo == req[r].todo \union {p}
  <2>1. /\ req' = [req EXCEPT ![r] = [req[r] EXCEPT !.todo = todo, !.slot = {ParentOf(p)}]]
        /\ UNCHANGED torn
    BY <1>3, <1>7
  <2>2. \A x \in req[r].todo \union {p} : x \in todo
    OBVIOUS
  <2>3. \A x \in todo : x \in req[r].todo \/ x = p
    OBVIOUS
  <2> HIDE DEF todo
  <2>4. /\ req'[r] = [req[r] EXCEPT !.todo = todo, !.slot = {ParentOf(p)}]
        /\ \A q \in Requests \ {r} : req'[q] = req[q]
    BY <2>1 DEF IInv, RequestsProper
  <2>5. /\ req'[r].pc = "updir.scan" /\ req'[r].op = req[r].op
        /\ req'[r].todo = todo /\ req'[r].slot = {ParentOf(p)}
    BY <1>1, <2>4 DEF Request
  <2>6. Straight(req[r])' /\ Made(req[r])'
    BY <1>1, <2>5 DEF Straight, OnCourse, Coming, Made, MadeFirst
  <2>7. ASSUME ~torn'
        PROVE  Ladder(req[r])'
    BY <1>4, <2>1, <2>2, <2>3, <2>5, <2>7 DEF Ladder
  <2>8. QED
    BY <1>2, <2>1, <2>4, <2>6, <2>7 DEF Onward
<1>8. QED
  BY <1>5, <1>6, <1>7

LEMMA UpdirMkdirOnward ==
    ASSUME IInv, TopDown, NEW r \in Requests, UpdirMkdir(r)
    PROVE  Onward(r)
<1> DEFINE p == UpdirNext(r)
<1>1. req[r].pc = "updir.mkdir" /\ req[r] \in Request /\ OnCourse(req[r]) /\ ~Coming(req[r])
  BY Serving, OpAt DEF UpdirMkdir, At, Coming
<1>2. nodes' = nodes
  BY DEF UpdirMkdir, tables
<1>3. p = Shortest(req[r].todo)
  BY DEF UpdirNext, Shortest
<1>4. \/ Fail(r) /\ disk' = disk
      \/ /\ disk' = disk \union {[path |-> p, dir |-> TRUE]}
         /\ req' = [req EXCEPT ![r].pc = "updir.row", ![r].wrote = TRUE]
         /\ UNCHANGED torn
  BY DEF UpdirMkdir
<1> HIDE DEF p
<1>5. CASE Fail(r) /\ disk' = disk
  BY <1>1, <1>2, <1>5, FailsOnward
<1>6. CASE /\ disk' = disk \union {[path |-> p, dir |-> TRUE]}
           /\ req' = [req EXCEPT ![r].pc = "updir.row", ![r].wrote = TRUE]
           /\ UNCHANGED torn
  <2>1. /\ req'[r] = [req[r] EXCEPT !.pc = "updir.row", !.wrote = TRUE]
        /\ \A q \in Requests \ {r} : req'[q] = req[q]
    BY <1>6 DEF IInv, RequestsProper
  <2>2. /\ req'[r].pc = "updir.row" /\ req'[r].wrote
        /\ req'[r].op = req[r].op /\ req'[r].todo = req[r].todo
    BY <1>1, <2>1 DEF Request
  <2>3. Straight(req[r])' /\ Made(req[r])' /\ disk \subseteq disk'
    BY <1>1, <1>3, <1>6, <2>2 DEF Straight, OnCourse, Coming, Made, MadeFirst
  <2>4. ASSUME ~torn'
        PROVE  Ladder(req[r])'
    <3>1. ~torn /\ Ladder(req[r])
      BY <1>6, <2>4 DEF TopDown
    <3>2. \A x : Stands(x) => Stands(x)'
      BY <1>1, <2>1, <2>3, StandsStill
    <3>3. QED
      BY <1>1, <2>2, <3>1, <3>2 DEF Ladder
  <2>5. QED
    BY <1>1, <1>2, <1>6, <2>1, <2>3, <2>4 DEF Onward
<1>7. QED
  BY <1>4, <1>5, <1>6

LEMMA UpdirRowOnward ==
    ASSUME IInv, TopDown, NEW r \in Requests, UpdirRow(r)
    PROVE  Onward(r)
<1> DEFINE p == UpdirNext(r)
           todo == req[r].todo \ {p}
           where == IF req[r].todo = {p} THEN "updir.save" ELSE "updir.mkdir"
<1>1. req[r].pc = "updir.row" /\ req[r] \in Request /\ OnCourse(req[r]) /\ ~Coming(req[r])
  BY Serving, OpAt DEF UpdirRow, At, Coming
<1>2. disk' = disk
  BY DEF UpdirRow
<1>3. [path |-> p, dir |-> TRUE] \in disk
  <2>1. p = Shortest(req[r].todo)
    BY DEF UpdirNext, Shortest
  <2>2. QED
    BY <1>1, <2>1 DEF TopDown, Made, MadeFirst
<1>4. \/ Fail(r) /\ nodes' = nodes
      \/ /\ nodes' = Inserted(p, TRUE)
         /\ req' = [req EXCEPT ![r].todo = todo, ![r].pc = where]
         /\ UNCHANGED torn
  BY DEF UpdirRow
<1>5. where \in {"updir.save", "updir.mkdir"}
  OBVIOUS
<1>6. \A x : x \in todo <=> x \in req[r].todo /\ x # p
  OBVIOUS
<1> HIDE DEF p, todo, where
<1>7. CASE Fail(r) /\ nodes' = nodes
  BY <1>1, <1>2, <1>7, FailsOnward
<1>8. CASE /\ nodes' = Inserted(p, TRUE)
           /\ req' = [req EXCEPT ![r].todo = todo, ![r].pc = where]
           /\ UNCHANGED torn
  <2>1. /\ req'[r] = [req[r] EXCEPT !.todo = todo, !.pc = where]
        /\ \A q \in Requests \ {r} : req'[q] = req[q]
    BY <1>8 DEF IInv, RequestsProper
  <2>2. req'[r].pc = where /\ req'[r].op = req[r].op /\ req'[r].todo = todo
    BY <1>1, <2>1 DEF Request
  <2>3. Straight(req[r])' /\ Made(req[r])'
    BY <1>1, <1>5, <2>2 DEF Straight, OnCourse, Coming, Made, MadeFirst
  <2>4. ASSUME ~torn'
        PROVE  Ladder(req[r])'
    <3>1. ~torn /\ Ladder(req[r])
      BY <1>8, <2>4 DEF TopDown
    <3>2. Stands(p)
      BY <1>3 DEF Stands, Comes, Expected
    <3>3. \A x \in todo : ParentOf(x) \in todo \/ Stands(ParentOf(x))
      BY <1>1, <1>6, <3>1, <3>2 DEF Ladder
    <3>4. \A x : Stands(x) => Stands(x)'
      BY <1>1, <1>2, <2>1, StandsStill
    <3>5. QED
      BY <1>5, <2>2, <3>3, <3>4 DEF Ladder
  <2>5. \A n \in nodes' \ nodes : EntryOf(n) \in disk'
    BY <1>2, <1>3, <1>8, NewRow
  <2>6. QED
    BY <1>1, <1>2, <1>8, <2>1, <2>3, <2>4, <2>5 DEF Onward
<1>9. QED
  BY <1>4, <1>7, <1>8

LEMMA UpdirSaveOnward ==
    ASSUME IInv, TopDown, NEW r \in Requests, UpdirSave(r)
    PROVE  Onward(r)
<1>1. req[r].pc = "updir.save" /\ req[r] \in Request /\ OnCourse(req[r]) /\ ~Coming(req[r])
  BY Serving, OpAt DEF UpdirSave, At, Coming
<1>2. disk' = disk
  BY DEF UpdirSave
<1>3. CASE Fail(r) /\ nodes' = nodes
  BY <1>1, <1>2, <1>3, FailsOnward
<1>4. CASE /\ nodes' = Inserted(req[r].path, FALSE)
           /\ req' = [req EXCEPT ![r].pc = "updir.create", ![r].wrote = TRUE]
           /\ UNCHANGED torn
  <2>1. /\ req'[r] = [req[r] EXCEPT !.pc = "updir.create", !.wrote = TRUE]
        /\ \A q \in Requests \ {r} : req'[q] = req[q]
    BY <1>4 DEF IInv, RequestsProper
  <2>2. /\ req'[r].pc = "updir.create" /\ req'[r].wrote
        /\ req'[r].op = req[r].op /\ req'[r].path = req[r].path
    BY <1>1, <2>1 DEF Request
  <2>3. Straight(req[r])' /\ Made(req[r])' /\ Ladder(req[r])'
    BY <1>1, <2>2 DEF Straight, OnCourse, Made, MadeFirst, Ladder
  <2>4. Brought(req'[r]) = [path |-> req[r].path, dir |-> FALSE]
    <3>1. (req'[r].op = "MKCOL") = FALSE
      BY <1>1, <2>2 DEF OnCourse
    <3>2. QED
      BY <2>2, <3>1 DEF Brought
  <2>5. \A n \in nodes' \ nodes : Coming(req'[r]) /\ Brought(req'[r]) = EntryOf(n)
    BY <1>4, <2>2, <2>4, NewRow DEF Coming
  <2>6. QED
    BY <1>1, <1>2, <1>4, <2>1, <2>3, <2>5 DEF Onward
<1>5. QED
  BY <1>3, <1>4 DEF UpdirSave

LEMMA UpdirCreateOnward ==
    ASSUME IInv, TopDown, NEW r \in Requests, UpdirCreate(r)
    PROVE  Onward(r)
<1>1. req[r].pc = "updir.create" /\ nodes' = nodes
  BY DEF UpdirCreate, At, tables
<1>2. CASE Fail(r) /\ disk' = disk
  BY <1>1, <1>2, FailsOnward
<1>3. CASE Finish(r) /\ disk' = Created(req[r].path)
  <2>1. (req[r].op = "MKCOL") = FALSE
    BY <1>1, OpAt DEF OnCourse
  <2>2. Brought(req[r]) = [path |-> req[r].path, dir |-> FALSE]
    BY <2>1 DEF Brought
  <2>3. disk' = disk \union {Brought(req[r])}
    BY <1>3, <2>2 DEF Created
  <2>4. QED
    BY <1>1, <1>3, <2>3, FinishesOnward
<1>4. QED
  BY <1>2, <1>3 DEF UpdirCreate
-----------------------------------------------------------------------------
\* Whatever a client that only creates does, and whatever fails.

OnlyCreating == Ops \subseteq Creating

Creation(r) == \/ Put(r) \/ DeleteNode(r) \/ Mkcol(r) \/ DavLock(r) \/ DavPut(r) \/ DavMkcol(r)
               \/ Upload(r)

LEMMA CreationOnly ==
    ASSUME TopDown, NEW r \in Requests, Step(r)
    PROVE  Creation(r)
<1>1. req[r].pc # "idle" => OnCourse(req[r])
  BY OpAt
<1>2. ~Move(r)
  BY <1>1 DEF Move, MoveResolve, MoveCheck, MoveLook, MoveTransfer, At, OnCourse
<1>3. ~Delete(r)
  BY <1>1 DEF Delete, DeleteResolve, DeleteShare, DeleteCheck, DeleteLook,
     DeleteMark, DeleteSlot, DeleteMove, At, OnCourse
<1>4. ~DavTarget(r) /\ ~DavMove(r)
  BY <1>1 DEF DavTarget, DavMove, At, OnCourse
<1>5. ~Undelete(r) /\ ~PurgeRemove(r)
  BY <1>1 DEF Undelete, UndeleteStat, UndeleteOrigin, UndeleteParent, UndeleteLook,
     UndeleteMove, UndeleteForget, UndeleteRename, PurgeRemove, At, OnCourse
<1>6. ~Sharing(r) /\ ~Favoriting(r)
  BY <1>1 DEF Sharing, ShareLookup, ShareInsert, ShareRead, UnshareDelete,
     Favoriting, FavoriteResolve, FavoriteUnmark, FavoriteMark, At, OnCourse
<1>7. QED
  BY <1>2, <1>3, <1>4, <1>5, <1>6 DEF Step, DavStep, Webdav, Creation

LEMMA CreationOnward ==
    ASSUME IInv, TopDown, NEW r \in Requests, Creation(r)
    PROVE  Onward(r)
<1>1. CASE Put(r) \/ Mkcol(r) \/ DeleteNode(r)
  BY <1>1, PutResolveOnward, PutSaveOnward, DeleteNodeOnward,
     MkcolResolveOnward, MkcolCheckOnward, MkcolSaveOnward DEF Put, Mkcol
<1>2. CASE DavLock(r) \/ DavPut(r) \/ DavMkcol(r)
  BY <1>2, DavLockOnward, DavServeOnward
<1>3. CASE Upload(r)
  BY <1>3, UploadResolveOnward, UploadCreateOnward, UploadSaveOnward, UpdirResolveOnward,
     UpdirScanOnward, UpdirMkdirOnward, UpdirRowOnward, UpdirSaveOnward, UpdirCreateOnward
     DEF Upload
<1>4. QED
  BY <1>1, <1>2, <1>3 DEF Creation

LEMMA FaultOnward ==
    ASSUME IInv, TopDown, NEW r \in Requests, Fault(r)
    PROVE  Onward(r)
<1>1. req[r].pc # "idle" /\ req[r] \in Request /\ OnCourse(req[r])
  BY Serving, OpAt DEF Fault
<1>2. nodes' = nodes /\ disk \subseteq disk'
  BY DEF Fault, tables, HalfPut
<1>3. CASE Fail(r)
  BY <1>1, <1>2, <1>3, FailsOnward
<1>4. ASSUME req[r].pc \in {"del.trash", "del.favorites"},
             NEW where \in {"del.favorites", "del.rows"}, GoTo(r, where), UNCHANGED torn
      PROVE  Onward(r)
  <2>1. OnCourse([req[r] EXCEPT !.pc = where])
    BY <1>1, <1>4 DEF OnCourse, Request
  <2>2. where \in Simple /\ ~Coming(req[r])
    BY <1>4 DEF Simple, Coming
  <2>3. QED
    BY <1>1, <1>2, <1>4, <2>1, <2>2, GoToOnward
<1>5. req[r].pc \notin {"undelete.look", "undelete.move", "undelete.forget"}
  BY <1>1 DEF OnCourse
<1>6. QED
  BY <1>3, <1>4, <1>5 DEF Fault, FaultOf

LEMMA StartOnward ==
    ASSUME IInv, TopDown, OnlyCreating, NEW r \in Requests, Start(r)
    PROVE  Onward(r)
<1>1. PICK op \in Ops, u \in Users, rel \in Rels, dst \in Rels, ow \in BOOLEAN,
           target \in Targets, share \in {Null} \union {s.id : s \in shares} :
        /\ op # "MOVE" => dst = rel /\ ~ow
        /\ op # "SHARE" => target = u
        /\ op = "UNSHARE" <=> share # Null
        /\ op = "UPDIR" => Len(rel) > 1
        /\ req' = [req EXCEPT ![r] =
             [pc |-> FirstStep(op), op |-> op, user |-> u,
              rel |-> rel, dst |-> dst, overwrite |-> ow, target |-> target, share |-> share,
              path |-> TrashPath(u, rel), to |-> {}, todo |-> {}, at |-> {},
              node |-> {}, slot |-> {}, skip |-> {}, bad |-> FALSE, wrote |-> FALSE]]
  BY Zenon DEF Start
<1> DEFINE q ==
          [pc |-> FirstStep(op), op |-> op, user |-> u,
           rel |-> rel, dst |-> dst, overwrite |-> ow, target |-> target, share |-> share,
           path |-> TrashPath(u, rel), to |-> {}, todo |-> {}, at |-> {},
           node |-> {}, slot |-> {}, skip |-> {}, bad |-> FALSE, wrote |-> FALSE]
<1>3. q.pc = FirstStep(op) /\ q.op = op /\ q.todo = {}
  OBVIOUS
<1> HIDE DEF q
<1>4. req'[r] = q /\ \A p \in Requests \ {r} : req'[p] = req[p]
  BY <1>1 DEF q, IInv, RequestsProper
<1>5. /\ OnCourse(q) /\ ~Coming(q)
      /\ q.pc \notin {"upload.save", "updir.scan", "updir.row", "updir.mkdir"}
  BY <1>3 DEF OnlyCreating, Creating, FirstStep, OnCourse, Coming
<1>6. Straight(req[r])' /\ Made(req[r])' /\ Ladder(req[r])'
  BY <1>3, <1>4, <1>5 DEF Straight, Made, MadeFirst, Ladder
<1>7. ~Coming(req[r]) /\ nodes' = nodes /\ disk' = disk /\ torn' = torn
  BY DEF Start, At, Coming, tables
<1>8. QED
  BY <1>4, <1>6, <1>7 DEF Onward

LEMMA CrashTopDown ==
    ASSUME IInv, TopDown, Crash
    PROVE  TopDown'
<1>1. \A r \in Requests : req'[r] = Idle
  BY DEF Crash
<1>2. nodes' = nodes /\ disk' = disk
  BY DEF Crash, tables
<1>3. \A r \in Requests : Straight(req[r])' /\ Made(req[r])' /\ Ladder(req[r])'
  BY <1>1 DEF Idle, Straight, Made, MadeFirst, Ladder
<1>4. ASSUME ~torn'
      PROVE  RowsCome'
  <2>1. ~torn /\ \A r \in Requests : ~Coming(req[r])
    BY <1>4 DEF Crash, At, Coming, TopDown, Straight
  <2>2. \A n \in nodes : EntryOf(n) \in disk
    BY <2>1 DEF TopDown, RowsCome, Comes, Expected
  <2>3. QED
    BY <1>2, <2>2 DEF RowsCome, Comes, Expected, EntryOf
<1>5. QED
  BY <1>3, <1>4 DEF TopDown

LEMMA TopDownKeeps ==
    ASSUME IInv, TopDown, OnlyCreating, [Next]_vars
    PROVE  TopDown'
<1>1. CASE Crash
  BY <1>1, CrashTopDown
<1>2. ASSUME NEW r \in Requests, Start(r) \/ Step(r) \/ Fault(r)
      PROVE  TopDown'
  BY <1>2, StartOnward, CreationOnly, CreationOnward, FaultOnward, OnwardKeeps
<1>3. CASE UNCHANGED vars
  <2>1. \A p : Stands(p) = Stands(p)'
    BY <1>3 DEF vars, Stands, Comes, Expected
  <2>2. QED
    BY <1>3, <2>1 DEF vars, TopDown, RowsCome, Comes, Expected, Straight, Made, Ladder
<1>4. QED
  BY <1>1, <1>2, <1>3 DEF Next, Rest

LEMMA InitTopDown == Init => TopDown
<1> SUFFICES ASSUME Init PROVE TopDown
  OBVIOUS
<1>1. \A r \in Requests : Straight(req[r]) /\ Made(req[r]) /\ Ladder(req[r])
  BY DEF Init, Idle, Straight, Made, MadeFirst, Ladder
<1>2. ~torn => RowsCome
  BY DEF Init, InitRowed, RowsCome, Comes
<1>3. QED
  BY <1>1, <1>2 DEF TopDown

LEMMA Descending == RootsUnnamed /\ OnlyCreating => (Spec => [](IInv /\ TopDown))
<1> SUFFICES ASSUME RootsUnnamed, OnlyCreating
             PROVE  Spec => [](IInv /\ TopDown)
  OBVIOUS
<1>1. Init => TopDown
  BY InitTopDown
<1>2. IInv /\ TopDown /\ [Next]_vars => TopDown'
  BY TopDownKeeps
<1>3. Init => IInv
  BY InitIInv
<1>4. IInv /\ [Next]_vars => IInv'
  BY NextKeeps
<1>5. QED
  BY <1>1, <1>2, <1>3, <1>4, PTL DEF Spec

\* If clients only create, and nowhere at the root of a home, then whatever any
\* number of them do at once and whatever fails, the parent of the directory
\* uploadDirectory makes next is there, or somebody is about to make it.
THEOREM MadeTopDownAlways == RootsUnnamed /\ OnlyCreating => (Spec => []MadeTopDown)
<1> SUFFICES ASSUME RootsUnnamed, OnlyCreating
             PROVE  Spec => []MadeTopDown
  OBVIOUS
<1>1. IInv /\ TopDown => MadeTopDown
  <2> SUFFICES ASSUME IInv, TopDown, ~torn, NEW r \in Requests, At(r, "updir.mkdir")
               PROVE  OnDisk(ParentOf(UpdirNext(r))) \/ BeingMade(ParentOf(UpdirNext(r)))
    BY Zenon DEF MadeTopDown
  <2> DEFINE p == UpdirNext(r)
  <2>1. req[r].pc = "updir.mkdir" /\ req[r].todo \subseteq Path /\ req[r].todo # {}
    BY Serving DEF At, Proper, Request
  <2>2. p \in req[r].todo /\ \A q \in req[r].todo : Len(p.rel) <= Len(q.rel)
    BY <2>1, NextToMake
  <2>3. p \in Path /\ p.rel # <<>>
    BY <2>1, <2>2, Serving DEF Proper, Inner
  <2> HIDE DEF p
  <2>4. Len(ParentOf(p).rel) < Len(p.rel)
    <3>1. p.rel \in Seq(Names) /\ Len(p.rel) \in Nat /\ Len(p.rel) > 0
      BY <2>3, EmptySeq, LenProperties DEF Path, Rel
    <3>2. Front(p.rel) = SubSeq(p.rel, 1, Len(p.rel) - 1)
      BY DEF Front
    <3>3. Len(Front(p.rel)) = Len(p.rel) - 1
      BY <3>1, <3>2, SubSeqProperties
    <3>4. ParentOf(p).rel = Front(p.rel)
      BY <2>3 DEF ParentOf, Path
    <3>5. QED
      BY <3>1, <3>3, <3>4
  <2>5. ParentOf(p) \notin req[r].todo
    <3>1. Len(p.rel) \in Nat /\ Len(ParentOf(p).rel) \in Nat
      BY <2>3, ParentPath, LenProperties DEF Path, Rel
    <3>2. QED
      BY <2>2, <2>4, <3>1
  <2>6. Stands(ParentOf(p))
    BY <2>1, <2>2, <2>5 DEF TopDown, Ladder
  <2>7. OnDisk(ParentOf(p)) \/ BeingMade(ParentOf(p))
    BY <2>6 DEF Stands, Comes, Expected, OnDisk, BeingMade, Coming, Brought, At
  <2>8. QED
    BY <2>7 DEF p
<1>2. Spec => [](IInv /\ TopDown)
  BY Descending
<1>3. QED
  BY <1>1, <1>2, PTL
-----------------------------------------------------------------------------
Cut(p, k) == [p EXCEPT !.rel = SubSeq(p.rel, 1, k)]
Above(p, q) == \E k \in 0 .. Len(q.rel) - 1 : p = Cut(q, k)
Within(p, q) == p = q \/ Above(q, p)

DiskTree ==
    /\ \A e \in disk : \A k \in 0 .. Len(e.path.rel) - 1 : IsDir(Cut(e.path, k))
    /\ \A e, f \in disk : e.path = f.path => e = f

\* A PUT takes the rows of all that lies in its place, and brings a file.
Undoes(q, e) ==
    /\ q.op = "PUT" /\ q.wrote /\ Within(e.path, q.path)
    /\ \/ q.pc = "put.save"
       \/ q.pc \in {"dav.lock", "dav.serve"} /\ (e.path = q.path => e.dir)

\* It will have a row, or who took the row will be answered with an error.
HasRow(e) == \E n \in nodes : EntryOf(n) = e
Owes(q, e) == q.pc # "idle" /\ (MadeFirst(q, e) \/ Undoes(q, e))
Accounted(e) == HasRow(e) \/ \E q \in Requests : Owes(req[q], e)

\* Something else is in its place, or a file where a directory should be.
Hopeless(e) ==
    \E f \in disk : \/ f.path = e.path /\ f.dir # e.dir
                    \/ ~f.dir /\ Above(f.path, e.path)

Together ==
    /\ \A e \in disk : Accounted(e)
    /\ \A e : Expected(e) => Accounted(e) \/ Hopeless(e)

InStep == DiskTree /\ (~torn => Together)
-----------------------------------------------------------------------------
\* What is above a path.

LEMMA CutPaths ==
    ASSUME NEW p \in Path, NEW k \in 0 .. Len(p.rel)
    PROVE  Cut(p, k) \in Path /\ Cut(p, k).rel = SubSeq(p.rel, 1, k)
<1>1. SubSeq(p.rel, 1, k) \in Rel
  BY SubRel DEF Path
<1>2. QED
  BY <1>1 DEF Cut, Path

LEMMA CutsOfParent ==
    ASSUME NEW p \in Path, p.rel # <<>>
    PROVE  /\ Len(p.rel) \in Nat \ {0} /\ Len(ParentOf(p).rel) = Len(p.rel) - 1
           /\ ParentOf(p) = Cut(p, Len(p.rel) - 1)
           /\ \A k \in 0 .. Len(p.rel) - 1 : Cut(ParentOf(p), k) = Cut(p, k)
<1> DEFINE n == Len(p.rel)
<1>1. p.rel \in Seq(Names) /\ n \in Nat \ {0}
  BY EmptySeq, LenProperties DEF Path, Rel
<1>2. Front(p.rel) = SubSeq(p.rel, 1, n - 1)
  BY DEF Front
<1>3. ParentOf(p) = Cut(p, n - 1)
  BY <1>2 DEF ParentOf, Cut
<1>4. ParentOf(p).rel = SubSeq(p.rel, 1, n - 1) /\ Len(ParentOf(p).rel) = n - 1
  BY <1>1, <1>3, CutPaths, SubSeqProperties
<1>5. ASSUME NEW k \in 0 .. n - 1
      PROVE  Cut(ParentOf(p), k) = Cut(p, k)
  <2>1. SubSeq(SubSeq(p.rel, 1, n - 1), 1, k) = SubSeq(p.rel, 1, k)
    <3> DEFINE s == SubSeq(p.rel, 1, n - 1)
    <3>1. s \in Seq(Names) /\ Len(s) = n - 1 /\ \A i \in 1 .. n - 1 : s[i] = p.rel[i]
      BY <1>1, SubSeqProperties
    <3> HIDE DEF s
    <3>2. /\ SubSeq(s, 1, k) \in Seq(Names) /\ Len(SubSeq(s, 1, k)) = k
          /\ \A i \in 1 .. k : SubSeq(s, 1, k)[i] = s[i]
      BY <1>1, <3>1, SubSeqProperties
    <3>3. /\ SubSeq(p.rel, 1, k) \in Seq(Names) /\ Len(SubSeq(p.rel, 1, k)) = k
          /\ \A i \in 1 .. k : SubSeq(p.rel, 1, k)[i] = p.rel[i]
      BY <1>1, SubSeqProperties
    <3>4. \A i \in 1 .. k : SubSeq(s, 1, k)[i] = SubSeq(p.rel, 1, k)[i]
      BY <1>1, <3>1, <3>2, <3>3
    <3>5. SubSeq(s, 1, k) = SubSeq(p.rel, 1, k)
      BY <3>2, <3>3, <3>4, SeqEqual
    <3>6. QED
      BY <3>5 DEF s
  <2>2. QED
    BY <1>4, <2>1 DEF Cut, ParentOf
<1>6. QED
  BY <1>1, <1>3, <1>4, <1>5

\* If no name is the beginning of another, what DeleteNode's LIKE finds is the
\* node and what lies within.
LEMMA LikeIsWithin ==
    ASSUME StartsWith = {}, NEW p \in Path, NEW q \in Path, q.rel # <<>>, LikePrefix(p, q)
    PROVE  Within(p, q)
<1> DEFINE n == Len(q.rel)
<1>1. p.rel \in Seq(Names) /\ q.rel \in Seq(Names) /\ n \in Nat \ {0} /\ Len(p.rel) \in Nat
  BY EmptySeq, LenProperties DEF Path, Rel
<1>2. /\ SameTree(p, q) /\ Len(p.rel) >= n
      /\ SubSeq(p.rel, 1, n - 1) = SubSeq(q.rel, 1, n - 1)
      /\ p.rel[n] = q.rel[n]
  BY DEF LikePrefix, Front, Last
<1>3. SubSeq(p.rel, 1, n) = q.rel
  <2>1. /\ SubSeq(p.rel, 1, n) \in Seq(Names) /\ Len(SubSeq(p.rel, 1, n)) = n
        /\ \A i \in 1 .. n : SubSeq(p.rel, 1, n)[i] = p.rel[i]
    BY <1>1, <1>2, SubSeqProperties
  <2>2. \A i \in 1 .. n - 1 : /\ SubSeq(p.rel, 1, n - 1)[i] = p.rel[i]
                              /\ SubSeq(q.rel, 1, n - 1)[i] = q.rel[i]
    BY <1>1, <1>2, SubSeqProperties
  <2>3. \A i \in 1 .. n : p.rel[i] = q.rel[i]
    BY <1>1, <1>2, <2>2
  <2>4. \A i \in 1 .. n : SubSeq(p.rel, 1, n)[i] = q.rel[i]
    BY <2>1, <2>3
  <2>5. QED
    BY <1>1, <2>1, <2>4, SeqEqual
<1>4. Cut(p, n) = q
  BY <1>2, <1>3 DEF Cut, Path, SameTree
<1>5. CASE Len(p.rel) = n
  <2>1. SubSeq(p.rel, 1, n) = p.rel
    BY <1>1, <1>5, SubSeqFull
  <2>2. p = q
    BY <1>4, <2>1 DEF Cut, Path
  <2>3. QED
    BY <2>2 DEF Within
<1>6. CASE Len(p.rel) # n
  <2>1. n \in 0 .. Len(p.rel) - 1
    BY <1>1, <1>2, <1>6
  <2>2. QED
    BY <1>4, <2>1 DEF Within, Above
<1>7. QED
  BY <1>5, <1>6
-----------------------------------------------------------------------------
\* The disk stays a tree.

\* Where something can be put, all above is a directory, so that nothing bars it.
LEMMA DirsAbove ==
    ASSUME DiskTree, NEW p \in Path, p.rel # <<>>, IsDir(ParentOf(p)), NEW dir,
           \A e \in disk : e.path = p => e.dir = dir
    PROVE  /\ \A k \in 0 .. Len(p.rel) - 1 : IsDir(Cut(p, k))
           /\ ~Hopeless([path |-> p, dir |-> dir])
<1> DEFINE parent == [path |-> ParentOf(p), dir |-> TRUE]
<1>1. /\ Len(p.rel) \in Nat \ {0} /\ Len(ParentOf(p).rel) = Len(p.rel) - 1
      /\ ParentOf(p) = Cut(p, Len(p.rel) - 1)
      /\ \A k \in 0 .. Len(p.rel) - 1 : Cut(ParentOf(p), k) = Cut(p, k)
  BY CutsOfParent
<1>2. \A k \in 0 .. Len(p.rel) - 2 : IsDir(Cut(ParentOf(p), k))
  <2>1. parent \in disk /\ parent.path = ParentOf(p)
    BY DEF IsDir
  <2> HIDE DEF parent
  <2>2. QED
    BY <1>1, <2>1 DEF DiskTree
<1>3. ASSUME NEW k \in 0 .. Len(p.rel) - 1
      PROVE  IsDir(Cut(p, k))
  <2>1. CASE k = Len(p.rel) - 1
    BY <1>1, <2>1
  <2>2. CASE k # Len(p.rel) - 1
    <3>1. k \in 0 .. Len(p.rel) - 2
      BY <1>1, <2>2
    <3>2. QED
      BY <1>1, <1>2, <3>1
  <2>3. QED
    BY <2>1, <2>2
<1>4. ASSUME NEW f \in disk, ~f.dir, Above(f.path, p)
      PROVE  FALSE
  <2>1. IsDir(f.path)
    BY <1>3, <1>4 DEF Above
  <2> DEFINE g == [path |-> f.path, dir |-> TRUE]
  <2>2. g \in disk /\ g.path = f.path /\ g.dir
    BY <2>1 DEF IsDir
  <2> HIDE DEF g
  <2>3. g = f
    BY <2>2 DEF DiskTree
  <2>4. QED
    BY <1>4, <2>2, <2>3
<1>5. ~Hopeless([path |-> p, dir |-> dir])
  BY <1>4 DEF Hopeless
<1>6. QED
  BY <1>3, <1>5

LEMMA TreeGrows ==
    ASSUME IInv, DiskTree, NEW p \in Path, p.rel # <<>>, IsDir(ParentOf(p)), NEW dir,
           \A e \in disk : e.path = p => e.dir = dir,
           disk' = disk \union {[path |-> p, dir |-> dir]}
    PROVE  DiskTree'
<1> DEFINE new == [path |-> p, dir |-> dir]
<1>1. new.path = p /\ new.dir = dir /\ disk' = disk \union {new}
  OBVIOUS
<1> HIDE DEF new
<1>2. \A q : IsDir(q) => IsDir(q)'
  BY <1>1 DEF IsDir
<1>3. \A k \in 0 .. Len(p.rel) - 1 : IsDir(Cut(p, k))
  BY DirsAbove
<1>4. ASSUME NEW e \in disk', NEW k \in 0 .. Len(e.path.rel) - 1
      PROVE  IsDir(Cut(e.path, k))'
  <2>1. CASE e \in disk
    BY <1>2, <2>1 DEF DiskTree
  <2>2. CASE e = new
    BY <1>1, <1>2, <1>3, <2>2
  <2>3. QED
    BY <1>1, <2>1, <2>2
<1>5. ASSUME NEW e \in disk', NEW f \in disk', e.path = f.path
      PROVE  e = f
  <2>1. \A x \in disk : x.path = p => x = new
    <3>1. \A x \in disk : x = [path |-> x.path, dir |-> x.dir]
      BY DEF IInv, TypeOK, Entry
    <3>2. QED
      BY <3>1 DEF new
  <2>2. QED
    BY <1>1, <1>5, <2>1 DEF DiskTree
<1>6. QED
  BY <1>4, <1>5 DEF DiskTree


\* What a request that only creates does to the disk.
Puts(p, dir) ==
    /\ p.rel # <<>> /\ IsDir(ParentOf(p))
    /\ \A e \in disk : e.path = p => e.dir = dir
    /\ disk' = disk \union {[path |-> p, dir |-> dir]}

LEMMA FilePuts ==
    ASSUME IInv, NEW p \in Path, p.rel # <<>>, IsDir(ParentOf(p)), ~IsDir(p),
           disk' = disk \union {[path |-> p, dir |-> FALSE]}
    PROVE  Puts(p, FALSE)
<1>1. \A e \in disk : e = [path |-> e.path, dir |-> e.dir] /\ e.dir \in BOOLEAN
  BY DEF IInv, TypeOK, Entry
<1>2. ASSUME NEW e \in disk, e.path = p
      PROVE  e.dir = FALSE
  BY <1>1, <1>2 DEF IsDir
<1>3. QED
  BY <1>2, Zenon DEF Puts

LEMMA DirPuts ==
    ASSUME IInv, NEW p \in Path, p.rel # <<>>, IsDir(ParentOf(p)), ~OnDisk(p),
           disk' = disk \union {[path |-> p, dir |-> TRUE]}
    PROVE  Puts(p, TRUE)
<1>1. \A e \in disk : e.path # p
  BY DEF OnDisk
<1>2. QED
  BY <1>1, Zenon DEF Puts

LEMMA PutsKeepsTree ==
    ASSUME IInv, DiskTree, NEW p \in Path, NEW dir, Puts(p, dir)
    PROVE  DiskTree' /\ ~Hopeless([path |-> p, dir |-> dir])
BY TreeGrows, DirsAbove DEF Puts

LEMMA SameDisk ==
    ASSUME DiskTree, disk' = disk
    PROVE  DiskTree'
BY DEF DiskTree, IsDir
-----------------------------------------------------------------------------
\* What a step of a request must do for every entry of the disk to keep its row
\* or somebody who owes it one.

Bearing(r) ==
    /\ \A n \in nodes \ nodes' : torn' \/ Owes(req'[r], EntryOf(n))
    /\ \A e \in Entry :
         Owes(req[r], e) => \/ torn' \/ HasRow(e)' \/ Owes(req'[r], e)
                            \/ e \notin disk' /\ Hopeless(e)'
    /\ \A e \in disk' \ disk : \/ torn' \/ Owes(req'[r], e)
                               \/ Coming(req[r]) /\ Brought(req[r]) = e /\ ~Hopeless(e)
    /\ \A e : Coming(req'[r]) /\ Brought(req'[r]) = e =>
         torn' \/ HasRow(e)' \/ (Coming(req[r]) /\ Brought(req[r]) = e)

LEMMA HopelessStays ==
    ASSUME disk \subseteq disk', NEW e, Hopeless(e)
    PROVE  Hopeless(e)'
BY DEF Hopeless

LEMMA BearingKeeps ==
    ASSUME IInv, IInv', ~torn => Together, NEW r \in Requests, Onward(r), Bearing(r)
    PROVE  ~torn' => Together'
<1> SUFFICES ASSUME ~torn'
             PROVE  Together'
  OBVIOUS
<1>1. /\ Together /\ disk \subseteq disk'
      /\ \A q \in Requests \ {r} : req'[q] = req[q]
  BY DEF Onward
<1>2. ASSUME NEW e \in Entry, Accounted(e)
      PROVE  Accounted(e)' \/ (e \notin disk' /\ Hopeless(e)')
  <2>1. ASSUME NEW n \in nodes, EntryOf(n) = e
        PROVE  Accounted(e)'
    <3>1. CASE n \in nodes'
      BY <2>1, <3>1 DEF Accounted, HasRow, EntryOf
    <3>2. CASE n \notin nodes'
      <4>1. Owes(req'[r], e)
        BY <2>1, <3>2 DEF Bearing
      <4>2. QED
        BY <4>1 DEF Accounted, Owes, MadeFirst, Undoes
    <3>3. QED
      BY <3>1, <3>2
  <2>2. ASSUME NEW q \in Requests, Owes(req[q], e)
        PROVE  Accounted(e)' \/ (e \notin disk' /\ Hopeless(e)')
    <3>1. CASE q = r
      <4>1. HasRow(e)' \/ Owes(req'[r], e) \/ (e \notin disk' /\ Hopeless(e)')
        BY <2>2, <3>1 DEF Bearing
      <4>2. QED
        BY <4>1 DEF Accounted, Owes, MadeFirst, Undoes
    <3>2. CASE q # r
      <4>1. Owes(req'[q], e)
        BY <1>1, <2>2, <3>2
      <4>2. QED
        BY <4>1 DEF Accounted, Owes, MadeFirst, Undoes
    <3>3. QED
      BY <3>1, <3>2
  <2>3. QED
    BY <1>2, <2>1, <2>2 DEF Accounted, HasRow
<1>3. ASSUME NEW e \in disk'
      PROVE  Accounted(e)'
  <2> e \in Entry
    BY DEF IInv, TypeOK
  <2>1. CASE e \in disk
    <3>1. Accounted(e)
      BY <1>1, <2>1 DEF Together
    <3>2. QED
      BY <1>2, <3>1
  <2>2. CASE e \notin disk /\ Owes(req'[r], e)
    BY <2>2 DEF Accounted, Owes, MadeFirst, Undoes
  <2>3. CASE Coming(req[r]) /\ Brought(req[r]) = e /\ ~Hopeless(e)
    <3>1. Accounted(e)
      BY <1>1, <2>3 DEF Together, Expected
    <3>2. QED
      BY <1>2, <3>1
  <2>4. QED
    BY <2>1, <2>2, <2>3 DEF Bearing
<1>4. ASSUME NEW e, Expected(e)'
      PROVE  Accounted(e)' \/ Hopeless(e)'
  <2>1. PICK q \in Requests : Coming(req'[q]) /\ Brought(req'[q]) = e
    BY <1>4 DEF Expected, Coming, Brought
  <2> e \in Entry
    <3>1. req'[q] \in Request
      BY <2>1 DEF Coming, Idle, IInv, TypeOK
    <3>2. req'[q].path \in Path
      BY <3>1 DEF Request
    <3>3. QED
      BY <2>1, <3>2 DEF Brought, Entry
  <2>2. CASE Coming(req[q]) /\ Brought(req[q]) = e
    <3>1. Accounted(e) \/ Hopeless(e)
      BY <1>1, <2>2 DEF Together, Expected
    <3>2. QED
      BY <1>1, <1>2, <3>1, HopelessStays
  <2>3. CASE HasRow(e)'
    BY <2>3 DEF Accounted
  <2>4. CASE q # r
    BY <1>1, <2>1, <2>2, <2>4
  <2>5. QED
    BY <2>1, <2>2, <2>3, <2>4 DEF Bearing
<1>5. QED
  BY <1>3, <1>4 DEF Together
-----------------------------------------------------------------------------
\* Requests that owe nothing before or after, and those that fail.

Owing == {"upload.save", "updir.row", "put.save", "dav.lock", "dav.serve"}

LEMMA OwesNothing ==
    ASSUME NEW q, q.pc \notin Owing, NEW e
    PROVE  ~Owes(q, e)
BY DEF Owes, MadeFirst, Undoes, Owing

LEMMA IdlyBears ==
    ASSUME NEW r \in Requests, req[r].pc \notin Owing, nodes' = nodes, disk' = disk,
           ~Coming(req'[r])
    PROVE  Bearing(r)
BY OwesNothing DEF Bearing

LEMMA FailingBears ==
    ASSUME IInv, TopDown, NEW r \in Requests, req[r].pc # "idle", Fail(r), nodes' = nodes,
           disk' = disk \/ req[r].wrote
    PROVE  Bearing(r)
<1>1. req' = [req EXCEPT ![r] = Idle] /\ torn' = (torn \/ req[r].wrote)
  BY DEF Fail
<1>2. ~Coming(req'[r])
  BY <1>1 DEF IInv, RequestsProper, Idle, Coming
<1>3. ASSUME NEW e, Owes(req[r], e)
      PROVE  torn'
  BY <1>1, <1>3 DEF Owes, MadeFirst, Undoes, TopDown, Straight
<1>4. QED
  BY <1>1, <1>2, <1>3 DEF Bearing

\* Most steps only look.
Looking(r) == \/ PutResolve(r) \/ MkcolResolve(r) \/ MkcolCheck(r)
              \/ DeleteShares(r) \/ DeleteTrashRefs(r) \/ DeleteFavorites(r)
              \/ UploadResolve(r) \/ UpdirResolve(r) \/ UpdirScan(r)

LEMMA LookingAt ==
    ASSUME IInv, NEW r \in Requests, Looking(r)
    PROVE  /\ req[r].pc \notin Owing \union {"idle"} /\ nodes' = nodes /\ disk' = disk
           /\ Fail(r) \/ ~Coming(req'[r])
<1>1. ASSUME NEW where \in Simple \union {"updir.scan"}, NEW p,
             req' = [req EXCEPT ![r].pc = where, ![r].path = p], req[r] \in Request
      PROVE  ~Coming(req'[r])
  <2>1. req'[r].pc = where
    BY <1>1 DEF IInv, RequestsProper, Request
  <2>2. QED
    BY <2>1 DEF Coming, Simple
<1>2. req[r].pc # "idle" => req[r] \in Request
  BY Serving
<1>3. CASE PutResolve(r)
  BY <1>1, <1>2, <1>3 DEF PutResolve, At, tables, Owing, Simple
<1>4. CASE MkcolResolve(r)
  BY <1>1, <1>2, <1>4 DEF MkcolResolve, At, tables, Owing, Simple
<1>5. CASE MkcolCheck(r)
  <2>1. /\ req[r].pc = "mkcol.check" /\ nodes' = nodes /\ disk' = disk
        /\ Fail(r) \/ req' = [req EXCEPT ![r].pc = "mkcol.save"]
    BY <1>5 DEF MkcolCheck, At, tables, GoTo
  <2>2. ASSUME req' = [req EXCEPT ![r].pc = "mkcol.save"]
        PROVE  ~Coming(req'[r])
    BY <1>2, <2>1, <2>2 DEF IInv, RequestsProper, Request, Coming
  <2>3. QED
    BY <2>1, <2>2 DEF Owing
<1>6. CASE DeleteShares(r) \/ DeleteTrashRefs(r) \/ DeleteFavorites(r)
  <2>1. PICK where \in {"del.trash", "del.favorites", "del.rows"} : \E gone : Drops(r, gone, where)
    BY <1>6 DEF DeleteShares, DeleteTrashRefs, DeleteFavorites
  <2>2. req[r].pc \in {"del.shares", "del.trash", "del.favorites"}
    BY <1>6 DEF DeleteShares, DeleteTrashRefs, DeleteFavorites, At
  <2>3. /\ nodes' = nodes /\ disk' = disk
        /\ \E w : req' = [req EXCEPT ![r] = [req[r] EXCEPT !.pc = where, !.wrote = w]]
    BY <2>1 DEF Drops
  <2>4. req'[r].pc = where
    BY <1>2, <2>2, <2>3 DEF IInv, RequestsProper, Request
  <2>5. QED
    BY <2>2, <2>3, <2>4 DEF Coming, Owing
<1>7. CASE UploadResolve(r)
  BY <1>1, <1>2, <1>7 DEF UploadResolve, At, tables, Owing, Simple
<1>8. CASE UpdirResolve(r)
  <2>1. req[r].pc = "updir.resolve" /\ nodes' = nodes /\ disk' = disk
    BY <1>8 DEF UpdirResolve, At, tables
  <2>2. Fail(r) \/ \E p, path : req' = [req EXCEPT ![r].pc = "updir.scan", ![r].slot = {p},
                                                   ![r].path = path]
    BY <1>8, Zenon DEF UpdirResolve
  <2>3. ASSUME NEW p, NEW path,
               req' = [req EXCEPT ![r].pc = "updir.scan", ![r].slot = {p}, ![r].path = path]
        PROVE  ~Coming(req'[r])
    <3>1. req'[r].pc = "updir.scan"
      BY SMTT(30), <1>2, <2>1, <2>3 DEF IInv, RequestsProper, Request
    <3>2. QED
      BY <3>1 DEF Coming
  <2>4. QED
    BY <2>1, <2>2, <2>3 DEF Owing
<1>9. CASE UpdirScan(r)
  <2>1. req[r].pc = "updir.scan" /\ nodes' = nodes /\ disk' = disk
    BY SMTT(30), <1>9 DEF UpdirScan, At, tables
  <2>2. \/ Fail(r)
        \/ \E where \in {"updir.save", "updir.mkdir"} : \E slot :
             req' = [req EXCEPT ![r] = [req[r] EXCEPT !.slot = slot, !.pc = where]]
        \/ \E todo, slot : req' = [req EXCEPT ![r] = [req[r] EXCEPT !.todo = todo, !.slot = slot]]
    <3> DEFINE where == IF req[r].todo = {} THEN "updir.save" ELSE "updir.mkdir"
    <3>1. where \in {"updir.save", "updir.mkdir"}
      OBVIOUS
    <3>2. PICK p \in req[r].slot :
            \/ req' = [req EXCEPT ![r].slot = {}, ![r].pc = where]
            \/ Fail(r)
            \/ req' = [req EXCEPT ![r].todo = @ \union {p}, ![r].slot = {ParentOf(p)}]
      BY <1>9 DEF UpdirScan
    <3> HIDE DEF where
    <3>3. CASE req' = [req EXCEPT ![r].slot = {}, ![r].pc = where]
      <4>1. req' = [req EXCEPT ![r] = [req[r] EXCEPT !.slot = {}, !.pc = where]]
        BY <3>3
      <4>2. QED
        BY <3>1, <4>1
    <3>4. CASE req' = [req EXCEPT ![r].todo = @ \union {p}, ![r].slot = {ParentOf(p)}]
      <4> DEFINE todo == req[r].todo \union {p}
      <4>1. req' = [req EXCEPT ![r] = [req[r] EXCEPT !.todo = todo, !.slot = {ParentOf(p)}]]
        BY <3>4
      <4> HIDE DEF todo
      <4>2. QED
        BY <4>1
    <3>5. QED
      BY <3>2, <3>3, <3>4
  <2>3. ASSUME NEW where \in {"updir.save", "updir.mkdir"}, NEW slot,
               req' = [req EXCEPT ![r] = [req[r] EXCEPT !.slot = slot, !.pc = where]]
        PROVE  ~Coming(req'[r])
    <3>1. req'[r].pc = where
      BY <1>2, <2>1, <2>3 DEF IInv, RequestsProper, Request
    <3>2. QED
      BY <3>1 DEF Coming
  <2>4. ASSUME NEW todo, NEW slot,
               req' = [req EXCEPT ![r] = [req[r] EXCEPT !.todo = todo, !.slot = slot]]
        PROVE  ~Coming(req'[r])
    <3>1. req'[r].pc = "updir.scan"
      BY <1>2, <2>1, <2>4 DEF IInv, RequestsProper, Request
    <3>2. QED
      BY <3>1 DEF Coming
  <2>5. QED
    BY <2>1, <2>2, <2>3, <2>4 DEF Owing
<1>10. QED
  BY <1>3, <1>4, <1>5, <1>6, <1>7, <1>8, <1>9 DEF Looking

LEMMA LookingBears ==
    ASSUME IInv, TopDown, NEW r \in Requests, Looking(r)
    PROVE  Bearing(r)
BY LookingAt, FailingBears, IdlyBears
-----------------------------------------------------------------------------
\* PUT: it takes rows, brings one, and is refused by the disk if those were of
\* something there.

NoPrefixes == StartsWith = {}

LEMMA DeleteRowsBears ==
    ASSUME NoPrefixes, IInv, TopDown, NEW r \in Requests, DeleteRows(r)
    PROVE  Bearing(r)
<1>1. req[r].pc = "del.rows" /\ req[r] \in Proper /\ req[r] \in Request
  BY Serving DEF DeleteRows, At
<1>2. req[r].op = "PUT" /\ disk' = disk
  BY <1>1, OpAt DEF DeleteRows, OnCourse
<1>3. CASE Fail(r) /\ nodes' = nodes
  BY <1>1, <1>2, <1>3, FailingBears
<1>4. CASE /\ nodes' = nodes \ Victims(r)
           /\ req' = [req EXCEPT ![r].pc = "put.save", ![r].wrote = @ \/ Victims(r) # {}]
  <2> DEFINE w == req[r].wrote \/ Victims(r) # {}
  <2>1. req'[r] = [req[r] EXCEPT !.pc = "put.save", !.wrote = w]
    BY <1>4 DEF IInv, RequestsProper
  <2>2. Victims(r) # {} => w
    OBVIOUS
  <2> HIDE DEF w
  <2>3. /\ req'[r].pc = "put.save" /\ req'[r].wrote = w
        /\ req'[r].op = "PUT" /\ req'[r].path = req[r].path
    BY <1>1, <1>2, <2>1 DEF Request
  <2>4. ASSUME NEW n \in nodes \ nodes'
        PROVE  Owes(req'[r], EntryOf(n))
    <3>1. n \in Victims(r)
      BY <1>4, <2>4
    <3>2. LikePrefix(n.path, req[r].path) /\ n.path \in Path
      BY <3>1 DEF Victims, IInv, TypeOK, Node
    <3>3. Within(n.path, req[r].path)
      BY <1>1, <3>2, LikeIsWithin DEF NoPrefixes, Proper, Inner, Request
    <3>4. EntryOf(n).path = n.path
      BY DEF EntryOf
    <3>5. QED
      BY <2>2, <2>3, <3>1, <3>3, <3>4 DEF Owes, Undoes
  <2>5. req[r].pc \notin Owing /\ ~Coming(req'[r])
    BY <1>1, <2>3 DEF Owing, Coming
  <2>6. QED
    BY <1>2, <2>4, <2>5, OwesNothing DEF Bearing
<1>5. QED
  BY <1>2, <1>3, <1>4 DEF DeleteRows

LEMMA SavedRow ==
    ASSUME NEW p, NEW dir, nodes' = Inserted(p, dir)
    PROVE  nodes \subseteq nodes' /\ \A e : e = [path |-> p, dir |-> dir] => HasRow(e)'
<1> DEFINE n == [id |-> nextid, owner |-> p.user, path |-> p, dir |-> dir]
<1>1. nodes' = nodes \union {n} /\ n.path = p /\ n.dir = dir
  BY DEF Inserted
<1> HIDE DEF n
<1>2. QED
  BY <1>1 DEF HasRow, EntryOf

LEMMA PutSaveBears ==
    ASSUME IInv, TopDown, NEW r \in Requests, PutSave(r)
    PROVE  Bearing(r)
<1> DEFINE file == [path |-> req[r].path, dir |-> FALSE]
<1>1. req[r].pc = "put.save" /\ req[r] \in Request /\ disk' = disk
  BY Serving DEF PutSave, At
<1>2. (req[r].op = "MKCOL") = FALSE /\ req[r].op = "PUT"
  BY <1>1, OpAt DEF OnCourse
<1>3. CASE Fail(r) /\ nodes' = nodes
  BY <1>1, <1>3, FailingBears
<1>4. CASE /\ nodes' = Inserted(req[r].path, FALSE)
           /\ req' = [req EXCEPT ![r].pc = "dav.lock", ![r].wrote = TRUE]
  <2>1. nodes \subseteq nodes' /\ \A e : e = file => HasRow(e)'
    BY <1>4, SavedRow
  <2>2. req'[r] = [req[r] EXCEPT !.pc = "dav.lock", !.wrote = TRUE]
    BY <1>4 DEF IInv, RequestsProper
  <2>3. /\ req'[r].pc = "dav.lock" /\ req'[r].wrote
        /\ req'[r].op = req[r].op /\ req'[r].path = req[r].path
    BY <1>1, <2>2 DEF Request
  <2>4. Brought(req'[r]) = file
    BY <1>2, <2>3 DEF Brought
  <2>5. ASSUME NEW e \in Entry, Owes(req[r], e)
        PROVE  e = file \/ Owes(req'[r], e)
    <3>1. CASE e.path = req[r].path /\ ~e.dir
      BY <3>1 DEF Entry
    <3>2. CASE e.path = req[r].path => e.dir
      BY <1>1, <2>3, <2>5, <3>2 DEF Owes, MadeFirst, Undoes
    <3>3. QED
      BY <3>1, <3>2
  <2> HIDE DEF file
  <2>6. QED
    BY <1>1, <2>1, <2>4, <2>5 DEF Bearing
<1>5. QED
  BY <1>3, <1>4 DEF PutSave, SaveNode

\* A row that goes before its file, by a request that has owed nothing.
LEMMA NewRowBears ==
    ASSUME NEW r \in Requests, NEW p, NEW dir, req[r].pc \notin Owing, disk' = disk,
           nodes' = Inserted(p, dir), Brought(req'[r]) = [path |-> p, dir |-> dir]
    PROVE  Bearing(r)
<1>1. nodes \subseteq nodes' /\ \A e : e = [path |-> p, dir |-> dir] => HasRow(e)'
  BY SavedRow
<1>2. QED
  BY <1>1, OwesNothing DEF Bearing

LEMMA MkcolSaveBears ==
    ASSUME IInv, TopDown, NEW r \in Requests, MkcolSave(r)
    PROVE  Bearing(r)
<1>1. req[r].pc = "mkcol.save" /\ req[r] \in Request /\ disk' = disk
  BY Serving DEF MkcolSave, At
<1>2. (req[r].op = "MKCOL") = TRUE
  BY <1>1, OpAt DEF OnCourse
<1>3. CASE Fail(r) /\ nodes' = nodes
  BY <1>1, <1>3, FailingBears
<1>4. CASE /\ nodes' = Inserted(req[r].path, TRUE)
           /\ req' = [req EXCEPT ![r].pc = "dav.lock", ![r].wrote = TRUE]
  <2>1. req'[r] = [req[r] EXCEPT !.pc = "dav.lock", !.wrote = TRUE]
    BY <1>4 DEF IInv, RequestsProper
  <2>2. req'[r].op = req[r].op /\ req'[r].path = req[r].path
    BY <1>1, <2>1 DEF Request
  <2>3. Brought(req'[r]) = [path |-> req[r].path, dir |-> TRUE]
    BY <1>2, <2>2 DEF Brought
  <2>4. req[r].pc \notin Owing
    BY <1>1 DEF Owing
  <2>5. QED
    BY <1>1, <1>4, <2>3, <2>4, NewRowBears
<1>5. QED
  BY <1>3, <1>4 DEF MkcolSave, SaveNode

LEMMA UpdirSaveBears ==
    ASSUME IInv, TopDown, NEW r \in Requests, UpdirSave(r)
    PROVE  Bearing(r)
<1>1. req[r].pc = "updir.save" /\ req[r] \in Request /\ disk' = disk
  BY Serving DEF UpdirSave, At
<1>2. (req[r].op = "MKCOL") = FALSE
  BY <1>1, OpAt DEF OnCourse
<1>3. CASE Fail(r) /\ nodes' = nodes
  BY <1>1, <1>3, FailingBears
<1>4. CASE /\ nodes' = Inserted(req[r].path, FALSE)
           /\ req' = [req EXCEPT ![r].pc = "updir.create", ![r].wrote = TRUE]
  <2>1. req'[r] = [req[r] EXCEPT !.pc = "updir.create", !.wrote = TRUE]
    BY <1>4 DEF IInv, RequestsProper
  <2>2. req'[r].op = req[r].op /\ req'[r].path = req[r].path
    BY <1>1, <2>1 DEF Request
  <2>3. Brought(req'[r]) = [path |-> req[r].path, dir |-> FALSE]
    BY <1>2, <2>2 DEF Brought
  <2>4. req[r].pc \notin Owing
    BY <1>1 DEF Owing
  <2>5. QED
    BY <1>1, <1>4, <2>3, <2>4, NewRowBears
<1>5. QED
  BY <1>3, <1>4 DEF UpdirSave

LEMMA DavLockBears ==
    ASSUME IInv, TopDown, NEW r \in Requests, DavLock(r)
    PROVE  Bearing(r)
<1>1. req[r].pc = "dav.lock" /\ req[r] \in Request /\ disk' = disk /\ nodes' = nodes
  BY Serving DEF DavLock, At, tables
<1>2. CASE Fail(r)
  BY <1>1, <1>2, FailingBears
<1>3. CASE GoTo(r, "dav.serve")
  <2>1. req'[r] = [req[r] EXCEPT !.pc = "dav.serve"]
    BY <1>3 DEF GoTo, IInv, RequestsProper
  <2>2. /\ req'[r].pc = "dav.serve" /\ req'[r].wrote = req[r].wrote
        /\ req'[r].op = req[r].op /\ req'[r].path = req[r].path
    BY <1>1, <2>1 DEF Request
  <2>3. \A e : Owes(req[r], e) => Owes(req'[r], e)
    BY <1>1, <2>2 DEF Owes, MadeFirst, Undoes
  <2>4. Coming(req[r]) /\ Brought(req'[r]) = Brought(req[r])
    BY <1>1, <2>2 DEF Coming, Brought
  <2>5. QED
    BY <1>1, <2>3, <2>4 DEF Bearing
<1>4. req[r].op \notin {"MOVE", "DELETE"}
  BY <1>1, OpAt DEF OnCourse
<1>5. QED
  BY <1>2, <1>3, <1>4 DEF DavLock

LEMMA DavPutBears ==
    ASSUME IInv, DiskTree, TopDown, NEW r \in Requests, DavPut(r)
    PROVE  Bearing(r)
<1> DEFINE p == req[r].path
           file == [path |-> p, dir |-> FALSE]
<1>1. /\ req[r].pc = "dav.serve" /\ req[r].op = "PUT" /\ req[r] \in Proper /\ req[r] \in Request
      /\ nodes' = nodes
  BY Serving DEF DavPut, Serves, At, tables
<1>2. CASE Fail(r) /\ disk' = disk
  BY <1>1, <1>2, FailingBears
<1>3. CASE IsDir(ParentOf(p)) /\ ~IsDir(p) /\ Finish(r) /\ disk' = disk \union {file}
  <2>1. p \in Path /\ p.rel # <<>>
    BY <1>1 DEF Proper, Inner, Request
  <2>2. ~Hopeless(file)
    BY <1>3, <2>1, FilePuts, PutsKeepsTree
  <2>3. Coming(req[r]) /\ Brought(req[r]) = file
    <3>1. (req[r].op = "MKCOL") = FALSE
      BY <1>1
    <3>2. QED
      BY <1>1, <3>1 DEF Coming, Brought
  <2>4. ~Coming(req'[r])
    BY <1>3 DEF Finish, IInv, RequestsProper, Idle, Coming
  <2>5. file.path = p /\ file.dir = FALSE
    OBVIOUS
  <2>6. ~IsDir(p) /\ disk' = disk \union {file}
    BY <1>3
  <2> HIDE DEF file
  <2>7. ASSUME NEW e \in Entry, Owes(req[r], e)
        PROVE  e \notin disk' /\ Hopeless(e)'
    <3>1. Within(e.path, p) /\ (e.path = p => e.dir)
      BY <1>1, <2>7 DEF Owes, MadeFirst, Undoes
    <3>2. e \in disk => IsDir(p)
      <4>1. CASE e.path = p
        <5>1. e = [path |-> p, dir |-> TRUE]
          BY <3>1, <4>1 DEF Entry
        <5>2. QED
          BY <5>1 DEF IsDir
      <4>2. CASE Above(p, e.path)
        BY <4>2 DEF Above, DiskTree
      <4>3. QED
        BY <3>1, <4>1, <4>2 DEF Within
    <3>3. e # file
      BY <2>5, <3>1
    <3>4. Hopeless(e)'
      <4>1. /\ file \in disk'
            /\ \/ file.path = e.path /\ file.dir # e.dir
               \/ ~file.dir /\ Above(file.path, e.path)
        <5>1. file \in disk' /\ file.path = p /\ ~file.dir
          BY <2>5, <2>6
        <5>2. e.path = p => file.dir # e.dir
          BY <3>1, <5>1
        <5>3. e.path = p \/ Above(p, e.path)
          BY <3>1 DEF Within
        <5>4. QED
          BY <5>1, <5>2, <5>3
      <4>2. \E f \in disk' : \/ f.path = e.path /\ f.dir # e.dir
                             \/ ~f.dir /\ Above(f.path, e.path)
        BY <4>1
      <4>3. QED
        BY <4>2 DEF Hopeless
    <3>5. QED
      BY <2>6, <3>2, <3>3, <3>4
  <2>8. QED
    BY <1>1, <2>2, <2>3, <2>4, <2>6, <2>7 DEF Bearing
<1>4. QED
  BY <1>2, <1>3 DEF DavPut, Serves

LEMMA DavMkcolBears ==
    ASSUME IInv, DiskTree, TopDown, NEW r \in Requests, DavMkcol(r)
    PROVE  Bearing(r)
<1> DEFINE p == req[r].path
           new == [path |-> p, dir |-> TRUE]
<1>1. /\ req[r].pc = "dav.serve" /\ req[r].op = "MKCOL" /\ req[r] \in Proper /\ req[r] \in Request
      /\ nodes' = nodes
  BY Serving DEF DavMkcol, Serves, At, tables
<1>2. CASE Fail(r) /\ disk' = disk
  BY <1>1, <1>2, FailingBears
<1>3. CASE IsDir(ParentOf(p)) /\ ~OnDisk(p) /\ Finish(r) /\ disk' = disk \union {new}
  <2>1. p \in Path /\ p.rel # <<>>
    BY <1>1 DEF Proper, Inner, Request
  <2>2. ~Hopeless(new)
    BY <1>3, <2>1, DirPuts, PutsKeepsTree
  <2>3. Coming(req[r]) /\ Brought(req[r]) = new
    <3>1. (req[r].op = "MKCOL") = TRUE
      BY <1>1
    <3>2. QED
      BY <1>1, <3>1 DEF Coming, Brought
  <2>4. ~Coming(req'[r])
    BY <1>3 DEF Finish, IInv, RequestsProper, Idle, Coming
  <2>5. disk' = disk \union {new}
    BY <1>3
  <2> HIDE DEF new
  <2>6. \A e : ~Owes(req[r], e)
    BY <1>1 DEF Owes, MadeFirst, Undoes
  <2>7. QED
    BY <1>1, <2>2, <2>3, <2>4, <2>5, <2>6 DEF Bearing
<1>4. QED
  BY <1>2, <1>3 DEF DavMkcol, Serves
-----------------------------------------------------------------------------
\* The upload form owes a row for what it has made.

LEMMA UploadCreateBears ==
    ASSUME IInv, TopDown, NEW r \in Requests, UploadCreate(r)
    PROVE  Bearing(r)
<1> DEFINE file == [path |-> req[r].path, dir |-> FALSE]
<1>1. req[r].pc = "upload.create" /\ req[r] \in Request /\ nodes' = nodes
  BY Serving DEF UploadCreate, At, tables
<1>2. CASE Fail(r) /\ disk' = disk
  BY <1>1, <1>2, FailingBears
<1>3. CASE /\ disk' = disk \union {file}
           /\ req' = [req EXCEPT ![r].pc = "upload.save", ![r].wrote = TRUE]
  <2>1. req'[r] = [req[r] EXCEPT !.pc = "upload.save", !.wrote = TRUE]
    BY <1>3 DEF IInv, RequestsProper
  <2>2. req'[r].pc = "upload.save" /\ req'[r].path = req[r].path
    BY <1>1, <2>1 DEF Request
  <2>3. Owes(req'[r], file)
    BY <2>2, Zenon DEF Owes, MadeFirst
  <2> HIDE DEF file
  <2>4. req[r].pc \notin Owing /\ ~Coming(req'[r])
    BY <1>1, <2>2 DEF Owing, Coming
  <2>5. QED
    BY <1>1, <1>3, <2>3, <2>4, OwesNothing DEF Bearing
<1>4. QED
  BY <1>2, <1>3 DEF UploadCreate, Created

LEMMA UploadSaveBears ==
    ASSUME IInv, TopDown, NEW r \in Requests, UploadSave(r)
    PROVE  Bearing(r)
<1>1. req[r].pc = "upload.save" /\ req[r] \in Request /\ disk' = disk
  BY Serving DEF UploadSave, At
<1>2. CASE Fail(r) /\ nodes' = nodes
  BY <1>1, <1>2, FailingBears
<1>3. CASE nodes' = Inserted(req[r].path, FALSE) /\ Finish(r)
  <2>1. /\ nodes \subseteq nodes'
        /\ \A e : e = [path |-> req[r].path, dir |-> FALSE] => HasRow(e)'
    BY <1>3, SavedRow
  <2>2. ASSUME NEW e, Owes(req[r], e)
        PROVE  HasRow(e)'
    <3>1. e = [path |-> req[r].path, dir |-> FALSE]
      BY <1>1, <2>2 DEF Owes, MadeFirst, Undoes
    <3>2. QED
      BY <2>1, <3>1
  <2>3. ~Coming(req'[r])
    BY <1>3 DEF Finish, IInv, RequestsProper, Idle, Coming
  <2>4. QED
    BY <1>1, <2>1, <2>2, <2>3 DEF Bearing
<1>4. QED
  BY <1>2, <1>3 DEF UploadSave

LEMMA UpdirMkdirBears ==
    ASSUME IInv, TopDown, NEW r \in Requests, UpdirMkdir(r)
    PROVE  Bearing(r)
<1> DEFINE p == UpdirNext(r)
           new == [path |-> p, dir |-> TRUE]
<1>1. req[r].pc = "updir.mkdir" /\ req[r] \in Request /\ nodes' = nodes
  BY Serving DEF UpdirMkdir, At, tables
<1>2. p = Shortest(req[r].todo)
  BY DEF UpdirNext, Shortest
<1>3. \/ Fail(r) /\ disk' = disk
      \/ /\ disk' = disk \union {new}
         /\ req' = [req EXCEPT ![r].pc = "updir.row", ![r].wrote = TRUE]
  BY DEF UpdirMkdir
<1> HIDE DEF p
<1>4. CASE Fail(r) /\ disk' = disk
  BY <1>1, <1>4, FailingBears
<1>5. CASE /\ disk' = disk \union {new}
           /\ req' = [req EXCEPT ![r].pc = "updir.row", ![r].wrote = TRUE]
  <2>1. req'[r] = [req[r] EXCEPT !.pc = "updir.row", !.wrote = TRUE]
    BY <1>5 DEF IInv, RequestsProper
  <2>2. req'[r].pc = "updir.row" /\ req'[r].todo = req[r].todo
    BY <1>1, <2>1 DEF Request
  <2>3. Owes(req'[r], new)
    BY <1>2, <2>2, Zenon DEF Owes, MadeFirst
  <2> HIDE DEF new
  <2>4. req[r].pc \notin Owing /\ ~Coming(req'[r])
    BY <1>1, <2>2 DEF Owing, Coming
  <2>5. QED
    BY <1>1, <1>5, <2>3, <2>4, OwesNothing DEF Bearing
<1>6. QED
  BY <1>3, <1>4, <1>5

LEMMA UpdirRowBears ==
    ASSUME IInv, TopDown, NEW r \in Requests, UpdirRow(r)
    PROVE  Bearing(r)
<1> DEFINE p == UpdirNext(r)
           where == IF req[r].todo = {p} THEN "updir.save" ELSE "updir.mkdir"
           todo == req[r].todo \ {p}
<1>1. req[r].pc = "updir.row" /\ req[r] \in Request /\ disk' = disk
  BY Serving DEF UpdirRow, At
<1>2. p = Shortest(req[r].todo)
  BY DEF UpdirNext, Shortest
<1>3. \/ Fail(r) /\ nodes' = nodes
      \/ /\ nodes' = Inserted(p, TRUE)
         /\ req' = [req EXCEPT ![r].todo = todo, ![r].pc = where]
  BY DEF UpdirRow
<1>4. where \in {"updir.save", "updir.mkdir"}
  OBVIOUS
<1> HIDE DEF p, where, todo
<1>5. CASE Fail(r) /\ nodes' = nodes
  BY <1>1, <1>5, FailingBears
<1>6. CASE /\ nodes' = Inserted(p, TRUE)
           /\ req' = [req EXCEPT ![r].todo = todo, ![r].pc = where]
  <2>1. nodes \subseteq nodes' /\ \A e : e = [path |-> p, dir |-> TRUE] => HasRow(e)'
    BY <1>6, SavedRow
  <2>2. ASSUME NEW e, Owes(req[r], e)
        PROVE  HasRow(e)'
    <3>1. e = [path |-> p, dir |-> TRUE]
      BY <1>1, <1>2, <2>2 DEF Owes, MadeFirst, Undoes
    <3>2. QED
      BY <2>1, <3>1
  <2>3. req'[r].pc = where
    BY <1>1, <1>6 DEF IInv, RequestsProper, Request
  <2>4. ~Coming(req'[r])
    BY <1>4, <2>3 DEF Coming
  <2>5. QED
    BY <1>1, <2>1, <2>2, <2>4 DEF Bearing
<1>7. QED
  BY <1>3, <1>5, <1>6

LEMMA UpdirCreateBears ==
    ASSUME IInv, DiskTree, TopDown, NEW r \in Requests, UpdirCreate(r)
    PROVE  Bearing(r)
<1> DEFINE p == req[r].path
           file == [path |-> p, dir |-> FALSE]
<1>1. req[r].pc = "updir.create" /\ req[r] \in Proper /\ req[r] \in Request /\ nodes' = nodes
  BY Serving DEF UpdirCreate, At, tables
<1>2. CASE Fail(r) /\ disk' = disk
  BY <1>1, <1>2, FailingBears
<1>3. CASE IsDir(ParentOf(p)) /\ ~IsDir(p) /\ Finish(r) /\ disk' = disk \union {file}
  <2>1. p \in Path /\ p.rel # <<>>
    BY <1>1 DEF Proper, Inner, Request
  <2>2. ~Hopeless(file)
    BY <1>3, <2>1, FilePuts, PutsKeepsTree
  <2>3. Coming(req[r]) /\ Brought(req[r]) = file
    <3>1. (req[r].op = "MKCOL") = FALSE
      BY <1>1, OpAt DEF OnCourse
    <3>2. QED
      BY <1>1, <3>1 DEF Coming, Brought
  <2>4. ~Coming(req'[r])
    BY <1>3 DEF Finish, IInv, RequestsProper, Idle, Coming
  <2>5. disk' = disk \union {file}
    BY <1>3
  <2> HIDE DEF file
  <2>6. req[r].pc \notin Owing
    BY <1>1 DEF Owing
  <2>7. QED
    BY <1>1, <2>2, <2>3, <2>4, <2>5, <2>6, OwesNothing DEF Bearing
<1>4. QED
  BY <1>2, <1>3 DEF UpdirCreate, CanCreate, Created
-----------------------------------------------------------------------------
\* Every step a client that only creates can cause.

LEMMA CreationBears ==
    ASSUME NoPrefixes, IInv, TopDown, DiskTree, NEW r \in Requests, Creation(r)
    PROVE  Bearing(r)
<1>1. CASE Put(r) \/ Mkcol(r) \/ DeleteNode(r)
  BY <1>1, LookingBears, DeleteRowsBears, PutSaveBears, MkcolSaveBears
     DEF Put, Mkcol, DeleteNode, Looking
<1>2. CASE DavLock(r) \/ DavPut(r) \/ DavMkcol(r)
  BY <1>2, DavLockBears, DavPutBears, DavMkcolBears
<1>3. CASE Upload(r)
  BY <1>3, LookingBears, UploadCreateBears, UploadSaveBears, UpdirMkdirBears, UpdirRowBears,
     UpdirSaveBears, UpdirCreateBears DEF Upload, Looking
<1>4. QED
  BY <1>1, <1>2, <1>3 DEF Creation

LEMMA FaultBears ==
    ASSUME IInv, TopDown, NEW r \in Requests, Fault(r)
    PROVE  Bearing(r)
<1>1. /\ req[r].pc # "idle" /\ req[r] \in Request /\ OnCourse(req[r])
      /\ nodes' = nodes /\ FaultOf(r)
      /\ disk' = disk \/ req[r].pc = "dav.serve"
  BY Serving, OpAt DEF Fault, HalfPut, At, tables
<1>2. req[r].pc = "dav.serve" => req[r].wrote
  BY DEF TopDown, Straight, Coming
<1>3. CASE Fail(r)
  BY <1>1, <1>2, <1>3, FailingBears
<1>4. ASSUME req[r].pc \in {"del.trash", "del.favorites"},
             NEW where \in {"del.favorites", "del.rows"}, GoTo(r, where)
      PROVE  Bearing(r)
  <2>1. req'[r].pc = where
    BY <1>1, <1>4 DEF GoTo, IInv, RequestsProper, Request
  <2>2. req[r].pc \notin Owing /\ ~Coming(req'[r])
    BY <1>4, <2>1 DEF Owing, Coming
  <2>3. QED
    BY <1>1, <1>4, <2>2, IdlyBears
<1>5. req[r].pc \notin {"undelete.look", "undelete.move", "undelete.forget"}
  BY <1>1 DEF OnCourse
<1>6. QED
  BY <1>1, <1>3, <1>4, <1>5 DEF FaultOf

LEMMA StartBears ==
    ASSUME IInv, OnlyCreating, NEW r \in Requests, Start(r)
    PROVE  Bearing(r)
<1>1. PICK op \in Ops, u \in Users, rel \in Rels, dst \in Rels, ow \in BOOLEAN,
           target \in Targets, share \in {Null} \union {s.id : s \in shares} :
        /\ op # "MOVE" => dst = rel /\ ~ow
        /\ op # "SHARE" => target = u
        /\ op = "UNSHARE" <=> share # Null
        /\ op = "UPDIR" => Len(rel) > 1
        /\ req' = [req EXCEPT ![r] =
             [pc |-> FirstStep(op), op |-> op, user |-> u,
              rel |-> rel, dst |-> dst, overwrite |-> ow, target |-> target, share |-> share,
              path |-> TrashPath(u, rel), to |-> {}, todo |-> {}, at |-> {},
              node |-> {}, slot |-> {}, skip |-> {}, bad |-> FALSE, wrote |-> FALSE]]
  BY Zenon DEF Start
<1> DEFINE q ==
          [pc |-> FirstStep(op), op |-> op, user |-> u,
           rel |-> rel, dst |-> dst, overwrite |-> ow, target |-> target, share |-> share,
           path |-> TrashPath(u, rel), to |-> {}, todo |-> {}, at |-> {},
           node |-> {}, slot |-> {}, skip |-> {}, bad |-> FALSE, wrote |-> FALSE]
<1>2. q.pc = FirstStep(op)
  OBVIOUS
<1> HIDE DEF q
<1>3. req'[r] = q
  BY <1>1 DEF q, IInv, RequestsProper
<1>4. ~Coming(req'[r])
  BY <1>2, <1>3 DEF OnlyCreating, Creating, FirstStep, Coming
<1>5. req[r].pc \notin Owing /\ nodes' = nodes /\ disk' = disk
  BY DEF Start, At, Owing, tables
<1>6. QED
  BY <1>4, <1>5, IdlyBears

\* A crash that tears nothing takes nobody who owes a row or has one to honour.
LEMMA CrashTogether ==
    ASSUME TopDown, ~torn => Together, Crash
    PROVE  ~torn' => Together'
<1> SUFFICES ASSUME ~torn'
             PROVE  Together'
  OBVIOUS
<1>1. /\ ~torn /\ nodes' = nodes /\ disk' = disk
      /\ \A q \in Requests : req'[q] = Idle /\ (req[q].pc = "idle" \/ ~req[q].wrote)
  BY DEF Crash, At, tables
<1>2. \A q \in Requests : \A e : ~Owes(req[q], e)
  BY <1>1 DEF TopDown, Straight, Owes, MadeFirst, Undoes
<1>3. \A q \in Requests : ~Coming(req'[q])
  BY <1>1 DEF Idle, Coming
<1>4. \A e \in disk : HasRow(e)
  BY <1>1, <1>2 DEF Together, Accounted
<1>5. \A e \in disk' : Accounted(e)'
  BY <1>1, <1>4 DEF Accounted, HasRow, EntryOf
<1>6. \A e : ~Expected(e)'
  BY <1>3 DEF Expected, Coming
<1>7. QED
  BY <1>5, <1>6 DEF Together

LEMMA CreationKeepsTree ==
    ASSUME IInv, TopDown, DiskTree, NEW r \in Requests, Creation(r)
    PROVE  DiskTree'
<1>1. req[r].pc # "idle" => /\ req[r] \in Request
                            /\ req[r].path \in Path /\ req[r].path.rel # <<>>
  BY Serving DEF Proper, Inner, Request
<1>2. CASE Put(r) \/ Mkcol(r) \/ DeleteNode(r) \/ DavLock(r)
  <2>1. disk' = disk
    BY <1>2 DEF Put, PutResolve, PutSave, Mkcol, MkcolResolve, MkcolCheck, MkcolSave,
       DeleteNode, DeleteShares, DeleteTrashRefs, DeleteFavorites, Drops, DeleteRows, DavLock
  <2>2. QED
    BY <2>1, SameDisk
<1>3. CASE DavPut(r)
  <2>1. disk' = disk \/ Puts(req[r].path, FALSE)
    BY <1>1, <1>3, FilePuts DEF DavPut, Serves, At
  <2>2. QED
    BY <1>1, <1>3, <2>1, SameDisk, PutsKeepsTree DEF DavPut, At
<1>4. CASE DavMkcol(r)
  <2>1. disk' = disk \/ Puts(req[r].path, TRUE)
    BY <1>1, <1>4, DirPuts DEF DavMkcol, Serves, At
  <2>2. QED
    BY <1>1, <1>4, <2>1, SameDisk, PutsKeepsTree DEF DavMkcol, At
<1>5. CASE UploadCreate(r) \/ UpdirCreate(r)
  <2>1. /\ req[r].pc # "idle"
        /\ \/ disk' = disk
           \/ CanCreate(req[r].path) /\ disk' = Created(req[r].path)
    BY <1>5 DEF UploadCreate, UpdirCreate, At
  <2>2. disk' = disk \/ Puts(req[r].path, FALSE)
    BY <1>1, <2>1, FilePuts DEF CanCreate, Created
  <2>3. QED
    BY <1>1, <2>1, <2>2, SameDisk, PutsKeepsTree
<1>6. CASE UpdirMkdir(r)
  <2> DEFINE p == UpdirNext(r)
  <2>1. /\ req[r].pc = "updir.mkdir"
        /\ \/ disk' = disk
           \/ IsDir(ParentOf(p)) /\ ~OnDisk(p) /\ disk' = disk \union {[path |-> p, dir |-> TRUE]}
    BY <1>6 DEF UpdirMkdir, At
  <2>2. p \in Path /\ p.rel # <<>>
    BY <2>1, Serving, NextToMake DEF Proper, Inner, Request
  <2> HIDE DEF p
  <2>3. disk' = disk \/ Puts(p, TRUE)
    BY <2>1, <2>2, DirPuts
  <2>4. QED
    BY <2>2, <2>3, SameDisk, PutsKeepsTree
<1>7. CASE \/ UploadResolve(r) \/ UploadSave(r) \/ UpdirResolve(r) \/ UpdirScan(r)
           \/ UpdirRow(r) \/ UpdirSave(r)
  <2>1. disk' = disk
    BY <1>7 DEF UploadResolve, UploadSave, UpdirResolve, UpdirScan, UpdirRow, UpdirSave
  <2>2. QED
    BY <2>1, SameDisk
<1>8. QED
  BY <1>2, <1>3, <1>4, <1>5, <1>6, <1>7 DEF Creation, Upload

LEMMA FaultKeepsTree ==
    ASSUME IInv, DiskTree, NEW r \in Requests, Fault(r)
    PROVE  DiskTree'
<1>1. req[r].path \in Path
  BY Serving DEF Fault, Request
<1>2. disk' = disk \/ Puts(req[r].path, FALSE)
  BY <1>1, FilePuts DEF Fault, HalfPut
<1>3. QED
  BY <1>1, <1>2, SameDisk, PutsKeepsTree

LEMMA InStepKeeps ==
    ASSUME RootsUnnamed, NoPrefixes, OnlyCreating, IInv, TopDown, InStep, [Next]_vars
    PROVE  InStep'
<1>1. IInv' /\ DiskTree /\ (~torn => Together)
  BY NextKeeps DEF InStep
<1>2. CASE Crash
  <2>1. disk' = disk
    BY <1>2 DEF Crash
  <2>2. QED
    BY <1>1, <1>2, <2>1, SameDisk, CrashTogether DEF InStep
<1>3. ASSUME NEW r \in Requests, Start(r)
      PROVE  InStep'
  <2>1. disk' = disk
    BY <1>3 DEF Start
  <2>2. QED
    BY <1>1, <1>3, <2>1, SameDisk, StartBears, StartOnward, BearingKeeps DEF InStep
<1>4. ASSUME NEW r \in Requests, Step(r)
      PROVE  InStep'
  <2>1. Creation(r)
    BY <1>4, CreationOnly
  <2>2. QED
    BY <1>1, <2>1, CreationKeepsTree, CreationBears, CreationOnward, BearingKeeps DEF InStep
<1>5. ASSUME NEW r \in Requests, Fault(r)
      PROVE  InStep'
  BY <1>1, <1>5, FaultKeepsTree, FaultBears, FaultOnward, BearingKeeps DEF InStep
<1>6. CASE UNCHANGED vars
  <2>1. disk' = disk /\ nodes' = nodes /\ req' = req /\ torn' = torn
    BY <1>6 DEF vars
  <2>2. \A e : /\ Accounted(e)' = Accounted(e) /\ Expected(e)' = Expected(e)
               /\ Hopeless(e)' = Hopeless(e)
    BY <2>1 DEF Accounted, HasRow, Expected, Hopeless
  <2>3. (~torn => Together)'
    BY <1>1, <2>1, <2>2 DEF Together
  <2>4. QED
    BY <1>1, <2>1, <2>3, SameDisk DEF InStep
<1>7. QED
  BY <1>2, <1>3, <1>4, <1>5, <1>6 DEF Next, Rest

LEMMA InitInStep == Init => InStep
<1> SUFFICES ASSUME Init PROVE InStep
  OBVIOUS
<1>1. disk = InitTree /\ nodes = InitNodes /\ \A q \in Requests : ~Coming(req[q])
  BY DEF Init, Idle, Coming
<1>2. \A e \in disk : HasRow(e)
  BY <1>1, InitiallySound DEF HasRow, InitRowed
<1>3. Together
  BY <1>1, <1>2 DEF Together, Accounted, Expected
<1>4. ASSUME NEW e \in disk, NEW k \in 0 .. Len(e.path.rel) - 1
      PROVE  IsDir(Cut(e.path, k))
  BY <1>1, <1>4, InitiallySound DEF IsDir, Cut
<1>5. ASSUME NEW e \in disk, NEW f \in disk, e.path = f.path
      PROVE  e = f
  <2>1. PICK n \in InitNodes, m \in InitNodes :
           e = EntryOf(n) /\ f = EntryOf(m)
    BY <1>1, InitiallySound DEF InitRowed
  <2>2. n.path = m.path
    BY <1>5, <2>1 DEF EntryOf
  <2>3. n = m
    BY <2>2, InitiallySound
  <2>4. QED
    BY <2>1, <2>3
<1>6. QED
  BY <1>3, <1>4, <1>5 DEF InStep, DiskTree

\* If clients only create, nowhere at the root of a home, and no name is the
\* beginning of another (DeleteNode's LIKE path || '%' of a PUT takes the rows of
\* such names as well), then, as
\* often as all requests are answered and none was answered with an error after
\* it had written, each file and directory has its row and each row its file or
\* directory: whatever was done at once, whatever failed, and whatever crashed.
THEOREM SyncWhileCreating ==
    RootsUnnamed /\ OnlyCreating /\ NoPrefixes => (Spec => []SyncUnlessTorn)
<1> SUFFICES ASSUME RootsUnnamed, OnlyCreating, NoPrefixes
             PROVE  Spec => []SyncUnlessTorn
  OBVIOUS
<1>1. TopDown /\ InStep => SyncUnlessTorn
  <2> SUFFICES ASSUME TopDown, InStep, Quiet, ~torn
               PROVE  {EntryOf(n) : n \in nodes} = disk
    BY DEF SyncUnlessTorn, InSync, EntryOf
  <2>1. \A q \in Requests : \A e : ~Coming(req[q]) /\ ~Owes(req[q], e)
    BY DEF Quiet, At, Coming, Owes
  <2>2. \A n \in nodes : EntryOf(n) \in disk
    BY <2>1 DEF TopDown, RowsCome, Comes, Expected
  <2>3. \A e \in disk : \E n \in nodes : EntryOf(n) = e
    BY <2>1 DEF InStep, Together, Accounted, HasRow
  <2>4. QED
    BY <2>2, <2>3
<1>2. Init => InStep
  BY InitInStep
<1>3. IInv /\ TopDown /\ InStep /\ [Next]_vars => InStep'
  BY InStepKeeps
<1>4. Spec => [](IInv /\ TopDown)
  BY Descending
<1>5. QED
  BY <1>1, <1>2, <1>3, <1>4, PTL DEF Spec
=============================================================================
