-------------------------------- MODULE AloneProofs --------------------------------
(***************************************************************************)
(* What holds while requests come one after the other, each of them with   *)
(* any of the faults and crashes there are: favorites and shares name the  *)
(* node they were meant for, and the trash knows what is in it.  Each of   *)
(* these is lost when requests overlap.                                    *)
(***************************************************************************)
EXTENDS StorageProofs, Listing

OneAtATime == \A q, r \in Requests : q = r

\* Where a request of each kind comes by.
OnRoute(q) ==
    \/ q.op = "PUT" /\ q.pc \in {"put.resolve", "del.shares", "del.trash", "del.favorites",
                                 "del.rows", "put.save", "dav.lock", "dav.serve"}
    \/ q.op = "MKCOL" /\ q.pc \in {"mkcol.resolve", "mkcol.check", "mkcol.save",
                                   "dav.lock", "dav.serve"}
    \/ q.op = "MOVE" /\ q.pc \in {"move.resolve", "move.check", "move.look", "move.transfer",
                                  "dav.lock", "dav.target", "dav.serve"}
    \/ q.op = "DELETE" /\ q.pc \in {"delete.resolve", "delete.share", "delete.check",
                                    "delete.look", "delete.mark", "delete.slot", "delete.move",
                                    "dav.lock", "dav.target", "dav.serve"}
    \/ q.op = "UNDELETE" /\ q.pc \in {"undelete.stat", "undelete.origin", "undelete.parent",
                                      "undelete.look", "undelete.move", "undelete.forget",
                                      "undelete.rename"}
    \/ q.op = "PURGE" /\ q.pc \in {"purge.remove", "del.shares", "del.trash", "del.favorites",
                                   "del.rows"}
    \/ q.op = "SHARE" /\ q.pc \in {"share.lookup", "share.insert", "share.read"}
    \/ q.op = "UNSHARE" /\ q.pc = "unshare.delete"
    \/ /\ q.op \in {"FAVORITE", "UNFAVORITE"}
       /\ q.pc \in {"favorite.resolve", "favorite.unmark", "favorite.mark"}
    \/ q.op = "UPLOAD" /\ q.pc \in {"upload.resolve", "upload.create", "upload.save"}
    \/ q.op = "UPDIR" /\ q.pc \in {"updir.resolve", "updir.scan", "updir.mkdir", "updir.row",
                                   "updir.save", "updir.create"}

Routes == \A r \in Requests : req[r].pc = "idle" \/ OnRoute(req[r])

\* A request stays itself and on its route.
OnWay(r) ==
    /\ \A q \in Requests \ {r} : req'[q] = req[q]
    /\ \/ req'[r] = Idle
       \/ /\ OnRoute(req'[r])
          /\ req[r].pc # "idle" => /\ req'[r].op = req[r].op /\ req'[r].user = req[r].user
                                   /\ req'[r].rel = req[r].rel

LEMMA OverWay ==
    ASSUME IInv, NEW r \in Requests, Fail(r) \/ Finish(r)
    PROVE  OnWay(r)
BY DEF Fail, Finish, Idle, OnWay, IInv, RequestsProper

LEMMA ToWay ==
    ASSUME IInv, NEW r \in Requests, NEW q, req' = [req EXCEPT ![r] = q], OnRoute(q),
           q.op = req[r].op, q.user = req[r].user, q.rel = req[r].rel
    PROVE  OnWay(r)
BY DEF OnWay, IInv, RequestsProper

LEMMA GoToWay ==
    ASSUME IInv, NEW r \in Requests, req[r] \in Request, NEW where,
           OnRoute([req[r] EXCEPT !.pc = where]), GoTo(r, where)
    PROVE  OnWay(r)
<1> DEFINE q == [req[r] EXCEPT !.pc = where]
<1>1. q.op = req[r].op /\ q.user = req[r].user /\ q.rel = req[r].rel
  BY DEF Request
<1>2. req' = [req EXCEPT ![r] = q]
  BY DEF GoTo
<1>3. QED
  BY <1>1, <1>2, ToWay

LEMMA DavWay ==
    ASSUME IInv, Routes, NEW r \in Requests,
           \/ PutResolve(r) \/ PutSave(r) \/ MkcolResolve(r) \/ MkcolCheck(r) \/ MkcolSave(r)
           \/ DeleteShares(r) \/ DeleteTrashRefs(r) \/ DeleteFavorites(r) \/ DeleteRows(r)
           \/ DavLock(r) \/ DavTarget(r) \/ DavPut(r) \/ DavMkcol(r) \/ DavMove(r)
    PROVE  OnWay(r) /\ req[r].pc # "idle"
<1>1. req[r].pc # "idle"
  BY DEF At, PutResolve, PutSave, MkcolResolve, MkcolCheck, MkcolSave, DeleteShares,
     DeleteTrashRefs, DeleteFavorites, DeleteRows, DavLock, DavTarget, DavPut, DavMkcol, DavMove
<1>2. req[r] \in Request /\ OnRoute(req[r])
  BY <1>1, Serving DEF Routes
<1>3. SUFFICES ASSUME ~Fail(r), ~Finish(r)
             PROVE  OnWay(r)
  BY <1>1, OverWay
<1> USE DEF At
<1>4. CASE PutResolve(r)
  BY <1>2, <1>3, <1>4 DEF PutResolve, OnWay, OnRoute, Request, IInv, RequestsProper
<1>5. CASE PutSave(r)
  <2>1. /\ req' = [req EXCEPT ![r].pc = "dav.lock", ![r].wrote = TRUE]
        /\ req[r].pc = "put.save"
    BY <1>3, <1>5 DEF PutSave, SaveNode
  <2>2. QED
    BY <1>2, <2>1 DEF OnWay, OnRoute, Request, IInv, RequestsProper
<1>6. CASE MkcolResolve(r)
  BY <1>2, <1>3, <1>6 DEF MkcolResolve, OnWay, OnRoute, Request, IInv, RequestsProper
<1>7. CASE MkcolCheck(r)
  BY <1>2, <1>3, <1>7 DEF MkcolCheck, GoTo, OnWay, OnRoute, Request, IInv, RequestsProper
<1>8. CASE MkcolSave(r)
  <2>1. /\ req' = [req EXCEPT ![r].pc = "dav.lock", ![r].wrote = TRUE]
        /\ req[r].pc = "mkcol.save"
    BY <1>3, <1>8 DEF MkcolSave, SaveNode
  <2>2. QED
    BY <1>2, <2>1 DEF OnWay, OnRoute, Request, IInv, RequestsProper
<1>9. CASE DeleteShares(r) \/ DeleteTrashRefs(r) \/ DeleteFavorites(r)
  <2>1. PICK where \in {"del.trash", "del.favorites", "del.rows"} : \E w :
           /\ req' = [req EXCEPT ![r].pc = where, ![r].wrote = w]
           /\ req[r].pc \in {"del.shares", "del.trash", "del.favorites"}
    BY <1>9 DEF DeleteShares, DeleteTrashRefs, DeleteFavorites, Drops
  <2>2. PICK w :
           /\ req' = [req EXCEPT ![r].pc = where, ![r].wrote = w]
           /\ req[r].pc \in {"del.shares", "del.trash", "del.favorites"}
    BY <2>1
  <2>3. QED
    BY <1>2, <2>2 DEF OnWay, OnRoute, Request, IInv, RequestsProper
<1>10. CASE DeleteRows(r)
  BY <1>2, <1>3, <1>10 DEF DeleteRows, OnWay, OnRoute, Request, IInv, RequestsProper
<1>11. CASE DavLock(r)
  BY <1>2, <1>3, <1>11 DEF DavLock, GoTo, OnWay, OnRoute, Request, IInv, RequestsProper
<1>12. CASE DavTarget(r)
  BY <1>2, <1>3, <1>12 DEF DavTarget, GoTo, OnWay, OnRoute, Request, IInv, RequestsProper
<1>13. CASE DavPut(r) \/ DavMkcol(r) \/ DavMove(r)
  BY <1>3, <1>13 DEF DavPut, DavMkcol, DavMove, Serves
<1>14. QED
  BY <1>4, <1>5, <1>6, <1>7, <1>8, <1>9, <1>10, <1>11, <1>12, <1>13

LEMMA VisitedWay ==
    ASSUME IInv, NEW r \in Requests, req[r] \in Request, OnRoute(req[r]), NEW e,
           NEW look \in {"move.look", "delete.look", "undelete.look"},
           NEW done \in {"dav.lock", "undelete.rename"}, NEW w,
           done = "dav.lock" <=> req[r].op \in {"MOVE", "DELETE"},
           OnRoute([req[r] EXCEPT !.pc = look]),
           \/ req' = [req EXCEPT ![r] = Visited(r, e, look, done)]
           \/ req' = [req EXCEPT ![r] = [Visited(r, e, look, done) EXCEPT !.wrote = w]]
    PROVE  OnWay(r)
<1>1. PICK q : /\ req' = [req EXCEPT ![r] = q]
               /\ q \in {Visited(r, e, look, done), [Visited(r, e, look, done) EXCEPT !.wrote = w]}
  OBVIOUS
<1>2. /\ q.pc \in {look, done} /\ q.op = req[r].op /\ q.user = req[r].user
      /\ q.rel = req[r].rel
  BY <1>1 DEF Visited, Request
<1>3. OnRoute(q)
  BY <1>2 DEF OnRoute, Request
<1>4. QED
  BY <1>1, <1>2, <1>3, ToWay

LEMMA LookWay ==
    ASSUME IInv, NEW r \in Requests, req[r] \in Request, OnRoute(req[r]),
           NEW look, NEW next,
           \/ look = "move.look" /\ next = "move.transfer" /\ req[r].op = "MOVE"
           \/ look = "delete.look" /\ next = "delete.mark" /\ req[r].op = "DELETE",
           Look(r, look, next)
    PROVE  OnWay(r)
<1>1. \/ Fail(r)
      \/ \E e, rows : req' = [req EXCEPT ![r].pc = next, ![r].at = {e}, ![r].node = rows]
      \/ \E e : req' = [req EXCEPT ![r] = Visited(r, e, look, "dav.lock")]
  BY DEF Look
<1>2. ASSUME NEW e, NEW rows,
             req' = [req EXCEPT ![r].pc = next, ![r].at = {e}, ![r].node = rows]
      PROVE  OnWay(r)
  BY <1>2 DEF OnWay, OnRoute, Request, IInv, RequestsProper
<1>3. ASSUME NEW e, req' = [req EXCEPT ![r] = Visited(r, e, look, "dav.lock")]
      PROVE  OnWay(r)
  <2>1. OnRoute([req[r] EXCEPT !.pc = look])
    BY DEF OnRoute, Request
  <2>2. QED
    BY <1>3, <2>1, VisitedWay
<1>4. QED
  BY <1>1, <1>2, <1>3, OverWay

LEMMA UpdateRowWay ==
    ASSUME IInv, NEW r \in Requests, req[r] \in Request, OnRoute(req[r]), NEW look,
           \/ look = "move.look" /\ req[r].op = "MOVE"
           \/ look = "delete.look" /\ req[r].op = "DELETE",
           NEW e, NEW from, NEW to, NEW transfer, UpdateRow(r, e, from, to, transfer, look)
    PROVE  OnWay(r)
<1>1. \/ Fail(r)
      \/ req' = [req EXCEPT ![r] = Idle]
      \/ req' = [req EXCEPT ![r] = [Visited(r, e, look, "dav.lock") EXCEPT !.wrote = TRUE]]
  BY DEF UpdateRow
<1>2. CASE req' = [req EXCEPT ![r] = Idle]
  BY <1>2 DEF OnWay, IInv, RequestsProper
<1>3. OnRoute([req[r] EXCEPT !.pc = look])
  BY DEF OnRoute, Request
<1>4. QED
  BY <1>1, <1>2, <1>3, OverWay, VisitedWay

LEMMA WalkWay ==
    ASSUME IInv, Routes, NEW r \in Requests,
           \/ MoveResolve(r) \/ MoveCheck(r) \/ MoveLook(r) \/ MoveTransfer(r)
           \/ DeleteResolve(r) \/ DeleteShare(r) \/ DeleteCheck(r) \/ DeleteLook(r)
           \/ DeleteMark(r) \/ DeleteSlot(r) \/ DeleteMove(r)
    PROVE  OnWay(r) /\ req[r].pc # "idle"
<1>1. req[r].pc # "idle"
  BY DEF At, MoveResolve, MoveCheck, MoveLook, MoveTransfer, DeleteResolve, DeleteShare,
     DeleteCheck, DeleteLook, DeleteMark, DeleteSlot, DeleteMove
<1>2. req[r] \in Request /\ OnRoute(req[r])
  BY <1>1, Serving DEF Routes
<1>3. SUFFICES ASSUME ~Fail(r), ~Finish(r)
             PROVE  OnWay(r)
  BY <1>1, OverWay
<1> USE DEF At
<1>4. CASE MoveResolve(r)
  <2>1. PICK src, to : req' = [req EXCEPT ![r].pc = "move.check", ![r].path = src, ![r].to = to]
    BY <1>3, <1>4 DEF MoveResolve
  <2>2. QED
    BY <1>2, <1>4, <2>1 DEF MoveResolve, OnWay, OnRoute, Request, IInv, RequestsProper
<1>5. CASE MoveCheck(r)
  BY <1>2, <1>3, <1>5 DEF MoveCheck, OnWay, OnRoute, Request, IInv, RequestsProper
<1>6. CASE MoveLook(r)
  <2>1. req[r].op = "MOVE"
    BY <1>2, <1>6 DEF MoveLook, OnRoute
  <2>2. QED
    BY <1>2, <1>6, <2>1, LookWay DEF MoveLook
<1>7. CASE MoveTransfer(r)
  <2>1. req[r].op = "MOVE"
    BY <1>2, <1>7 DEF MoveTransfer, OnRoute
  <2>2. QED
    BY <1>2, <1>7, <2>1, UpdateRowWay DEF MoveTransfer
<1>8. CASE DeleteResolve(r)
  <2>1. PICK p :
          req' = [req EXCEPT ![r].path = p,
                    ![r].pc = IF p.user = req[r].user THEN "delete.check" ELSE "delete.share"]
    BY <1>3, <1>8 DEF DeleteResolve
  <2>2. QED
    BY <1>2, <1>8, <2>1 DEF DeleteResolve, OnWay, OnRoute, Request, IInv, RequestsProper
<1>9. CASE DeleteShare(r)
  BY <1>2, <1>3, <1>9 DEF DeleteShare, GoTo, OnWay, OnRoute, Request, IInv, RequestsProper
<1>10. CASE DeleteCheck(r)
  BY <1>2, <1>3, <1>10 DEF DeleteCheck, OnWay, OnRoute, Request, IInv, RequestsProper
<1>11. CASE DeleteLook(r)
  <2>1. req[r].op = "DELETE"
    BY <1>2, <1>11 DEF DeleteLook, OnRoute
  <2>2. QED
    BY <1>2, <1>11, <2>1, LookWay DEF DeleteLook
<1>12. CASE DeleteMark(r)
  BY <1>2, <1>3, <1>12 DEF DeleteMark, OnWay, OnRoute, Request, IInv, RequestsProper
<1>13. CASE DeleteSlot(r)
  <2>1. PICK slot, to :
          req' = [req EXCEPT ![r].pc = "delete.move", ![r].slot = slot, ![r].to = to]
    BY <1>3, <1>13 DEF DeleteSlot
  <2>2. QED
    BY <1>2, <1>13, <2>1 DEF DeleteSlot, OnWay, OnRoute, Request, IInv, RequestsProper
<1>14. CASE DeleteMove(r)
  <2>1. req[r].op = "DELETE"
    BY <1>2, <1>14 DEF DeleteMove, OnRoute
  <2>2. QED
    BY <1>2, <1>14, <2>1, UpdateRowWay DEF DeleteMove
<1>15. QED
  BY <1>4, <1>5, <1>6, <1>7, <1>8, <1>9, <1>10, <1>11, <1>12, <1>13, <1>14, Zenon

LEMMA GivesUpWay ==
    ASSUME IInv, NEW r \in Requests, req[r] \in Request, req[r].op = "UNDELETE",
           NEW answered, GiveUpWalk(r, answered)
    PROVE  OnWay(r)
BY DEF GiveUpWalk, OnWay, OnRoute, Request, IInv, RequestsProper

LEMMA TrashWay ==
    ASSUME IInv, Routes, NEW r \in Requests, Undelete(r) \/ PurgeRemove(r)
    PROVE  OnWay(r) /\ req[r].pc # "idle"
<1>1. req[r].pc # "idle"
  BY DEF At, Undelete, UndeleteStat, UndeleteOrigin, UndeleteParent, UndeleteLook,
     UndeleteMove, UndeleteForget, UndeleteRename, PurgeRemove
<1>2. req[r] \in Request /\ OnRoute(req[r])
  BY <1>1, Serving DEF Routes
<1>3. SUFFICES ASSUME ~Fail(r), ~Finish(r), Undelete(r) => \A a \in BOOLEAN : ~GiveUpWalk(r, a)
             PROVE  OnWay(r)
  <2>1. Undelete(r) => req[r].op = "UNDELETE"
    BY <1>2 DEF At, Undelete, UndeleteStat, UndeleteOrigin, UndeleteParent, UndeleteLook,
       UndeleteMove, UndeleteForget, UndeleteRename, OnRoute
  <2>2. QED
    BY <1>1, <1>2, <2>1, OverWay, GivesUpWay, SMTT(30)
<1> USE DEF At
<1>4. CASE UndeleteStat(r)
  BY <1>2, <1>3, <1>4 DEF UndeleteStat, GoTo, OnWay, OnRoute, Request, IInv, RequestsProper
<1>5. CASE UndeleteOrigin(r)
  BY <1>2, <1>3, <1>5 DEF UndeleteOrigin, OnWay, OnRoute, Request, IInv, RequestsProper
<1>6. CASE UndeleteParent(r)
  <2>1. PICK skip : req' = [req EXCEPT ![r].pc = "undelete.look", ![r].todo = {req[r].path},
                                       ![r].skip = skip]
    BY <1>6 DEF UndeleteParent
  <2>2. QED
    BY <1>2, <1>6, <2>1 DEF UndeleteParent, OnWay, OnRoute, Request, IInv, RequestsProper
<1>7. CASE UndeleteLook(r)
  <2>1. PICK e, origin :
          req' = [req EXCEPT ![r].pc = "undelete.move", ![r].at = {e}, ![r].slot = {origin}]
    BY <1>3, <1>7 DEF UndeleteLook, Undelete
  <2>2. QED
    BY <1>2, <1>7, <2>1 DEF UndeleteLook, OnWay, OnRoute, Request, IInv, RequestsProper
<1>8. CASE UndeleteMove(r)
  <2>1. req' = [req EXCEPT ![r].pc = "undelete.forget", ![r].wrote = TRUE]
    BY <1>3, <1>8 DEF UndeleteMove, Undelete
  <2>2. QED
    BY <1>2, <1>8, <2>1 DEF UndeleteMove, OnWay, OnRoute, Request, IInv, RequestsProper
<1>9. CASE UndeleteForget(r)
  <2>1. PICK e : req' = [req EXCEPT ![r] = Visited(r, e, "undelete.look", "undelete.rename")]
    BY <1>3, <1>9 DEF UndeleteForget, Undelete
  <2>2. req[r].op = "UNDELETE" /\ OnRoute([req[r] EXCEPT !.pc = "undelete.look"])
    BY <1>2, <1>9 DEF UndeleteForget, OnRoute, Request
  <2>3. QED
    BY <1>2, <2>1, <2>2, VisitedWay
<1>10. CASE UndeleteRename(r)
  BY <1>3, <1>10 DEF UndeleteRename
<1>11. CASE PurgeRemove(r)
  BY <1>2, <1>3, <1>11 DEF PurgeRemove, OnWay, OnRoute, Request, IInv, RequestsProper
<1>12. QED
  BY <1>4, <1>5, <1>6, <1>7, <1>8, <1>9, <1>10, <1>11 DEF Undelete

LEMMA ShareWay ==
    ASSUME IInv, Routes, NEW r \in Requests, Sharing(r) \/ Favoriting(r)
    PROVE  OnWay(r) /\ req[r].pc # "idle"
<1>1. req[r].pc # "idle"
  BY DEF At, Sharing, ShareLookup, ShareInsert, ShareRead, UnshareDelete, Favoriting,
     FavoriteResolve, FavoriteUnmark, FavoriteMark
<1>2. req[r] \in Request /\ OnRoute(req[r])
  BY <1>1, Serving DEF Routes
<1>3. SUFFICES ASSUME ~Fail(r), ~Finish(r)
             PROVE  OnWay(r)
  BY <1>1, OverWay
<1> USE DEF At
<1>4. CASE ShareLookup(r)
  BY <1>2, <1>3, <1>4 DEF ShareLookup, OnWay, OnRoute, Request, IInv, RequestsProper
<1>5. CASE ShareInsert(r)
  BY <1>2, <1>3, <1>5 DEF ShareInsert, OnWay, OnRoute, Request, IInv, RequestsProper
<1>6. CASE ShareRead(r) \/ UnshareDelete(r) \/ FavoriteMark(r)
  BY <1>3, <1>6 DEF ShareRead, UnshareDelete, FavoriteMark
<1>7. CASE FavoriteResolve(r)
  BY <1>2, <1>3, <1>7 DEF FavoriteResolve, OnWay, OnRoute, Request, IInv, RequestsProper
<1>8. CASE FavoriteUnmark(r)
  BY <1>2, <1>3, <1>8 DEF FavoriteUnmark, OnWay, OnRoute, Request, IInv, RequestsProper
<1>9. QED
  BY <1>4, <1>5, <1>6, <1>7, <1>8 DEF Sharing, Favoriting

LEMMA UploadWay ==
    ASSUME IInv, Routes, NEW r \in Requests, Upload(r)
    PROVE  OnWay(r) /\ req[r].pc # "idle"
<1>1. req[r].pc # "idle"
  BY DEF At, Upload, UploadResolve, UploadCreate, UploadSave, UpdirResolve, UpdirScan,
     UpdirMkdir, UpdirRow, UpdirSave, UpdirCreate
<1>2. req[r] \in Request /\ OnRoute(req[r])
  BY <1>1, Serving DEF Routes
<1>3. SUFFICES ASSUME ~Fail(r), ~Finish(r)
             PROVE  OnWay(r)
  BY <1>1, OverWay
<1> USE DEF At
<1>4. CASE UploadResolve(r)
  BY <1>2, <1>3, <1>4 DEF UploadResolve, OnWay, OnRoute, Request, IInv, RequestsProper
<1>5. CASE UploadCreate(r)
  BY <1>2, <1>3, <1>5 DEF UploadCreate, OnWay, OnRoute, Request, IInv, RequestsProper
<1>6. CASE UploadSave(r) \/ UpdirCreate(r)
  BY <1>3, <1>6 DEF UploadSave, UpdirCreate
<1>7. CASE UpdirResolve(r)
  <2>1. PICK slot, path :
          req' = [req EXCEPT ![r].pc = "updir.scan", ![r].slot = slot, ![r].path = path]
    BY <1>3, <1>7 DEF UpdirResolve
  <2>2. QED
    BY <1>2, <1>7, <2>1 DEF UpdirResolve, OnWay, OnRoute, Request, IInv, RequestsProper
<1>8. CASE UpdirScan(r)
  <2>1. \/ \E slot, where : /\ where \in {"updir.save", "updir.mkdir"}
                            /\ req' = [req EXCEPT ![r].slot = slot, ![r].pc = where]
        \/ \E todo, slot : req' = [req EXCEPT ![r].todo = todo, ![r].slot = slot]
    BY <1>3, <1>8 DEF UpdirScan
  <2>2. req[r].pc = "updir.scan" /\ req[r].op = "UPDIR"
    BY <1>2, <1>8 DEF UpdirScan, OnRoute
  <2>3. ASSUME NEW slot, NEW where \in {"updir.save", "updir.mkdir"},
               req' = [req EXCEPT ![r].slot = slot, ![r].pc = where]
        PROVE  OnWay(r)
    BY <1>2, <2>2, <2>3 DEF OnWay, OnRoute, Request, IInv, RequestsProper
  <2>4. ASSUME NEW todo, NEW slot, req' = [req EXCEPT ![r].todo = todo, ![r].slot = slot]
        PROVE  OnWay(r)
    BY <1>2, <2>2, <2>4 DEF OnWay, OnRoute, Request, IInv, RequestsProper
  <2>5. QED
    BY <2>1, <2>3, <2>4
<1>9. CASE UpdirMkdir(r)
  BY <1>2, <1>3, <1>9 DEF UpdirMkdir, OnWay, OnRoute, Request, IInv, RequestsProper
<1>10. CASE UpdirRow(r)
  <2>1. \E todo, where : /\ where \in {"updir.save", "updir.mkdir"}
                         /\ req' = [req EXCEPT ![r].todo = todo, ![r].pc = where]
    BY <1>3, <1>10 DEF UpdirRow
  <2>2. req[r].op = "UPDIR"
    BY <1>2, <1>10 DEF UpdirRow, OnRoute
  <2>3. QED
    BY <1>2, <2>1, <2>2 DEF OnWay, OnRoute, Request, IInv, RequestsProper
<1>11. CASE UpdirSave(r)
  <2>1. /\ req' = [req EXCEPT ![r].pc = "updir.create", ![r].wrote = TRUE]
        /\ req[r].pc = "updir.save"
    BY <1>3, <1>11 DEF UpdirSave
  <2>2. QED
    BY <1>2, <2>1 DEF OnWay, OnRoute, Request, IInv, RequestsProper
<1>12. QED
  BY <1>4, <1>5, <1>6, <1>7, <1>8, <1>9, <1>10, <1>11, Zenon DEF Upload

LEMMA StepWay ==
    ASSUME IInv, Routes, NEW r \in Requests, Step(r)
    PROVE  OnWay(r) /\ req[r].pc # "idle"
<1>1. CASE DavStep(r)
  BY <1>1, DavWay, WalkWay DEF DavStep, Put, DeleteNode, Mkcol, Move, Delete, Webdav
<1>2. QED
  BY <1>1, TrashWay, ShareWay, UploadWay DEF Step

LEMMA FaultWay ==
    ASSUME IInv, Routes, NEW r \in Requests, Fault(r)
    PROVE  OnWay(r) /\ req[r].pc # "idle"
<1>1. req[r].pc # "idle"
  BY DEF Fault
<1>2. req[r] \in Request /\ OnRoute(req[r])
  BY <1>1, Serving DEF Routes
<1>3. CASE Fail(r)
  BY <1>1, <1>3, OverWay
<1>4. ASSUME req[r].pc \in {"del.trash", "del.favorites"},
             NEW where \in {"del.favorites", "del.rows"}, GoTo(r, where)
      PROVE  OnWay(r)
  BY <1>2, <1>4 DEF GoTo, OnWay, OnRoute, Request, IInv, RequestsProper
<1>5. ASSUME req[r].pc \in {"undelete.look", "undelete.move", "undelete.forget"},
             req' = [req EXCEPT ![r].pc = "undelete.rename", ![r].bad = TRUE]
      PROVE  OnWay(r)
  BY <1>2, <1>5 DEF OnWay, OnRoute, Request, IInv, RequestsProper
<1>6. QED
  BY <1>1, <1>3, <1>4, <1>5 DEF Fault, FaultOf

\* A request starts.
LEMMA Starts ==
    ASSUME IInv, NEW r \in Requests, Start(r)
    PROVE  /\ At(r, "idle") /\ UNCHANGED <<tables, disk, torn>>
           /\ \A q \in Requests \ {r} : req'[q] = req[q]
           /\ req'[r] \in Request /\ OnRoute(req'[r])
           /\ req'[r].op \in Ops /\ req'[r].rel \in Rels
           /\ req'[r].pc = FirstStep(req'[r].op)
           /\ req'[r].path = TrashPath(req'[r].user, req'[r].rel)
           /\ req'[r].to = {} /\ req'[r].todo = {} /\ req'[r].node = {} /\ req'[r].slot = {}
           /\ req'[r].wrote = FALSE
<1>1. PICK op \in Ops, u \in Users, rel \in Rels, dst \in Rels, ow \in BOOLEAN,
           target \in Targets, share \in {Null} \union {s.id : s \in shares} :
        /\ op # "MOVE" => dst = rel /\ ~ow
        /\ op # "SHARE" => target = u
        /\ op = "UNSHARE" <=> share # Null
        /\ op = "UPDIR" => Len(rel) > 1
        /\ req' = [req EXCEPT ![r] =
             [pc |-> FirstStep(op), op |-> op, user |-> u,
              rel |-> rel, dst |-> dst, overwrite |-> ow, target |-> target, share |-> share,
              path |-> TrashPath(u, rel), to |-> {}, todo |-> {}, at |-> {},
              node |-> {}, slot |-> {}, skip |-> {}, bad |-> FALSE, wrote |-> FALSE]]
  BY Zenon DEF Start
<1> DEFINE q ==
          [pc |-> FirstStep(op), op |-> op, user |-> u,
           rel |-> rel, dst |-> dst, overwrite |-> ow, target |-> target, share |-> share,
           path |-> TrashPath(u, rel), to |-> {}, todo |-> {}, at |-> {},
           node |-> {}, slot |-> {}, skip |-> {}, bad |-> FALSE, wrote |-> FALSE]
<1>2. /\ q.pc = FirstStep(op) /\ q.op = op /\ q.user = u /\ q.rel = rel
      /\ q.path = TrashPath(u, rel) /\ q.to = {} /\ q.todo = {} /\ q.node = {} /\ q.slot = {}
      /\ q.wrote = FALSE
  OBVIOUS
<1> HIDE DEF q
<1>3. req'[r] = q /\ \A p \in Requests \ {r} : req'[p] = req[p]
  BY <1>1 DEF q, IInv, RequestsProper
<1>4. op \in AllOps /\ rel \in Rel /\ dst \in Rel
  BY StorageAssumption
<1>5. OnRoute(q)
  BY <1>2, <1>4 DEF OnRoute, AllOps, FirstStep
<1>6. FirstStep(op) \in PCs
  BY <1>4 DEF FirstStep, AllOps, PCs
<1>7. share \in Nat /\ TrashPath(u, rel) \in Path
  BY <1>4, HomePaths DEF IInv, TypeOK, Share, Null, TrashPath
<1>8. q \in Request
  BY <1>4, <1>6, <1>7 DEF q, Request
<1>9. At(r, "idle") /\ UNCHANGED <<tables, disk, torn>>
  BY DEF Start
<1>10. QED
  BY <1>2, <1>3, <1>5, <1>8, <1>9

LEMMA RoutesKeep ==
    ASSUME IInv, Routes, [Next]_vars
    PROVE  Routes'
<1>1. CASE Crash
  BY <1>1 DEF Crash, Idle, Routes
<1>2. ASSUME NEW r \in Requests, Step(r) \/ Fault(r)
      PROVE  Routes'
  <2>1. OnWay(r)
    BY <1>2, StepWay, FaultWay
  <2>2. QED
    BY <2>1 DEF OnWay, Routes, Idle
<1>3. ASSUME NEW r \in Requests, Start(r)
      PROVE  Routes'
  BY <1>3, Starts DEF Routes
<1>4. CASE UNCHANGED vars
  BY <1>4 DEF vars, Routes
<1>5. QED
  BY <1>1, <1>2, <1>3, <1>4 DEF Next, Rest

LEMMA InitRoutes == Init => Routes
BY DEF Init, Idle, Routes
-----------------------------------------------------------------------------
\* Which steps a request of a kind takes.
LEMMA FavoritesOnly ==
    ASSUME Routes, NEW r \in Requests, Step(r), req[r].pc # "idle",
           req[r].op \in {"FAVORITE", "UNFAVORITE"}
    PROVE  Favoriting(r)
<1>1. req[r].pc \in {"favorite.resolve", "favorite.unmark", "favorite.mark"}
  BY DEF Routes, OnRoute
<1>2. ~DavStep(r)
  BY <1>1 DEF DavStep, Put, PutResolve, PutSave, DeleteNode, DeleteShares, DeleteTrashRefs,
     DeleteFavorites, DeleteRows, Mkcol, MkcolResolve, MkcolCheck, MkcolSave, Move,
     MoveResolve, MoveCheck, MoveLook, MoveTransfer, Delete, DeleteResolve, DeleteShare,
     DeleteCheck, DeleteLook, DeleteMark, DeleteSlot, DeleteMove, Webdav, DavLock,
     DavTarget, DavPut, DavMkcol, DavMove, At
<1>3. ~Undelete(r) /\ ~PurgeRemove(r)
  BY <1>1 DEF At, Undelete, UndeleteStat, UndeleteOrigin, UndeleteParent, UndeleteLook,
     UndeleteMove, UndeleteForget, UndeleteRename, PurgeRemove
<1>4. ~Sharing(r) /\ ~Upload(r)
  BY <1>1 DEF At, Sharing, ShareLookup, ShareInsert, ShareRead, UnshareDelete, Upload,
     UploadResolve, UploadCreate, UploadSave, UpdirResolve, UpdirScan, UpdirMkdir, UpdirRow,
     UpdirSave, UpdirCreate
<1>5. QED
  BY <1>2, <1>3, <1>4 DEF Step

LEMMA DeletesOnly ==
    ASSUME Routes, NEW r \in Requests, Step(r), req[r].pc # "idle", req[r].op = "DELETE"
    PROVE  Delete(r) \/ DavLock(r) \/ DavTarget(r) \/ DavMove(r)
<1>1. req[r].pc \in {"delete.resolve", "delete.share", "delete.check",
                     "delete.look", "delete.mark", "delete.slot", "delete.move",
                     "dav.lock", "dav.target", "dav.serve"}
  BY DEF Routes, OnRoute
<1>2. ~Put(r) /\ ~DeleteNode(r) /\ ~Mkcol(r) /\ ~Move(r) /\ ~DavPut(r) /\ ~DavMkcol(r)
  BY <1>1 DEF Put, PutResolve, PutSave, DeleteNode, DeleteShares, DeleteTrashRefs,
     DeleteFavorites, DeleteRows, Mkcol, MkcolResolve, MkcolCheck, MkcolSave, Move,
     MoveResolve, MoveCheck, MoveLook, MoveTransfer, DavPut, DavMkcol, At
<1>3. ~Undelete(r) /\ ~PurgeRemove(r)
  BY <1>1 DEF At, Undelete, UndeleteStat, UndeleteOrigin, UndeleteParent, UndeleteLook,
     UndeleteMove, UndeleteForget, UndeleteRename, PurgeRemove
<1>4. ~Sharing(r) /\ ~Favoriting(r) /\ ~Upload(r)
  BY <1>1 DEF At, Sharing, ShareLookup, ShareInsert, ShareRead, UnshareDelete, Favoriting,
     FavoriteResolve, FavoriteUnmark, FavoriteMark, Upload, UploadResolve, UploadCreate,
     UploadSave, UpdirResolve, UpdirScan, UpdirMkdir, UpdirRow, UpdirSave, UpdirCreate
<1>5. QED
  BY <1>2, <1>3, <1>4 DEF Step, DavStep, Webdav
-----------------------------------------------------------------------------
\* What a path resolves to depends on rows and shares alone.
LEMMA SameResolved ==
    ASSUME nodes' = nodes, shares' = shares, NEW u, NEW rel
    PROVE  Resolve(u, rel)' = Resolve(u, rel)
BY DEF Resolve, ShareRoots, SharedNamed, SharedOf, RowExists

LEMMA SameExempt ==
    ASSUME nodes' = nodes, shares' = shares, NEW u, NEW rel
    PROVE  OnlyWebdavFinds(u, rel)' = OnlyWebdavFinds(u, rel)
BY DEF OnlyWebdavFinds, SharedNamed, SharedOf

\* favorite.go trims the path: names of which nothing is trimmed.
NamesKept == TrimmedAway = {} /\ EndsTrimmed = EndsWith

LEMMA TrimsNothing ==
    ASSUME TrimmedAway = {}, NEW rel \in Rel
    PROVE  TrimLeft(rel) = rel
<1> DEFINE kept == {i \in 1 .. Len(rel) : rel[i] \notin TrimmedAway}
<1>1. Len(rel) \in Nat
  BY LenProperties DEF Rel
<1>2. kept = 1 .. Len(rel)
  OBVIOUS
<1>3. CASE rel = <<>>
  BY <1>2, <1>3 DEF TrimLeft
<1>4. CASE rel # <<>>
  <2>1. Len(rel) >= 1 /\ rel = SubSeq(rel, 1, Len(rel))
    BY <1>1, <1>4, EmptySeq, SubSeqFull, LenProperties DEF Rel
  <2>2. Min(kept) = 1
    BY <1>1, <1>2, <2>1 DEF Min
  <2>3. kept # {}
    BY <1>1, <1>2, <2>1
  <2>4. QED
    BY <2>1, <2>2, <2>3 DEF TrimLeft
<1>5. QED
  BY <1>3, <1>4

LEMMA OneTwoMore ==
    ASSUME NEW l \in Nat, l # 0
    PROVE  l <= 1 \/ l = 2 \/ l > 2
OBVIOUS

\* Both try the whole path first and its first name last; webdav tries the parent
\* in between.
LEMMA SameRoots ==
    ASSUME NamesKept, NEW u, NEW rel \in Rel, rel # <<>>, ~OnlyWebdavFinds(u, rel)
    PROVE  AjaxRoots(u, rel) = ShareRoots(u, rel)
<1>1. Len(rel) <= 1 \/ Len(rel) = 2 \/ Len(rel) > 2
  <2>1. Len(rel) \in Nat /\ Len(rel) # 0
    BY EmptySeq, LenProperties DEF Rel
  <2>2. QED
    BY <2>1, OneTwoMore, Zenon
<1>2. TrimLeft(rel) = rel
  BY TrimsNothing DEF NamesKept
<1>3. ASSUME NEW names, names # <<>>
      PROVE  {n \in nodes : LikeTrimmed(n.path, names)} = {n \in nodes : LikeSuffix(n.path, names)}
  BY <1>3 DEF LikeTrimmed, LikeSuffix, NamesKept
<1>4. SharedOf(u, {n \in nodes : LikeTrimmed(n.path, rel)}) = SharedNamed(u, rel)
  BY <1>3 DEF SharedNamed
<1>5. SharedOf(u, {n \in nodes : LikeTrimmed(n.path, <<Head(rel)>>)}) = SharedNamed(u, <<Head(rel)>>)
  <2>1. <<Head(rel)>> # <<>>
    OBVIOUS
  <2>2. QED
    BY <2>1, <1>3 DEF SharedNamed
<1>6. Len(rel) = 2 => Front(rel) = <<Head(rel)>>
  <2>1. ASSUME Len(rel) = 2
        PROVE  Front(rel) = <<Head(rel)>>
    <3>1. Front(rel) = SubSeq(rel, 1, 1)
      BY <2>1 DEF Front
    <3>2. rel \in Seq(Names) /\ Head(rel) = rel[1] /\ rel[1] \in Names
      BY <2>1, ElementOfSeq DEF Rel
    <3>3. /\ SubSeq(rel, 1, 1) \in Seq(Names) /\ Len(SubSeq(rel, 1, 1)) = 1
          /\ SubSeq(rel, 1, 1)[1] = rel[1]
      BY <2>1, <3>2, SubSeqProperties
    <3>4. <<Head(rel)>> \in Seq(Names) /\ Len(<<Head(rel)>>) = 1 /\ <<Head(rel)>>[1] = rel[1]
      BY <3>2
    <3>5. \A i \in 1 .. 1 : SubSeq(rel, 1, 1)[i] = <<Head(rel)>>[i]
      BY <3>3, <3>4
    <3>6. QED
      BY <3>1, <3>3, <3>4, <3>5, SeqEqual
  <2>2. QED
    BY <2>1
<1>7. AjaxRoots(u, rel) =
          IF SharedNamed(u, rel) # {} \/ Len(rel) <= 1 THEN SharedNamed(u, rel)
          ELSE SharedNamed(u, <<Head(rel)>>)
  BY <1>2, <1>4, <1>5 DEF AjaxRoots
<1>8. \/ Len(rel) <= 1
      \/ SharedNamed(u, Front(rel)) = SharedNamed(u, <<Head(rel)>>)
      \/ SharedNamed(u, Front(rel)) = {}
  BY <1>1, <1>6, Zenon DEF OnlyWebdavFinds
<1>9. QED
  BY <1>7, <1>8 DEF ShareRoots

\* Clients keep to the operations they use and the paths they name.
Named == \A r \in Requests : req[r].pc # "idle" => req[r].rel \in Rels /\ req[r].op \in Ops

LEMMA NamedKeeps ==
    ASSUME IInv, Routes, Named, [Next]_vars
    PROVE  Named'
<1>1. CASE Crash
  BY <1>1 DEF Crash, Idle, Named
<1>2. ASSUME NEW r \in Requests, Step(r) \/ Fault(r)
      PROVE  Named'
  <2>1. OnWay(r) /\ req[r].pc # "idle"
    BY <1>2, StepWay, FaultWay
  <2>2. QED
    BY <2>1 DEF OnWay, Named, Idle
<1>3. ASSUME NEW r \in Requests, Start(r)
      PROVE  Named'
  BY <1>3, Starts DEF Named
<1>4. CASE UNCHANGED vars
  BY <1>4 DEF vars, Named
<1>5. QED
  BY <1>1, <1>2, <1>3, <1>4 DEF Next, Rest

\* A request a fault does not end has nothing but these before it.
LEMMA FaultLeads ==
    ASSUME IInv, NEW r \in Requests, Fault(r)
    PROVE  req'[r].pc \in {"idle", "del.favorites", "del.rows", "undelete.rename"}
<1> FaultOf(r)
  BY DEF Fault
<1>1. CASE Fail(r)
  BY <1>1 DEF Fail, Idle, IInv, RequestsProper
<1>2. ASSUME NEW where \in {"del.favorites", "del.rows"}, GoTo(r, where),
             req[r].pc \in {"del.trash", "del.favorites"}
      PROVE  req'[r].pc \in {"del.favorites", "del.rows"}
  <2>1. req[r] \in Request
    BY <1>2, Serving
  <2>2. QED
    BY <1>2, <2>1 DEF GoTo, IInv, RequestsProper, Request
<1>3. ASSUME req' = [req EXCEPT ![r].pc = "undelete.rename", ![r].bad = TRUE],
             req[r].pc \in {"undelete.look", "undelete.move", "undelete.forget"}
      PROVE  req'[r].pc = "undelete.rename"
  <2>1. req[r] \in Request
    BY <1>3, Serving
  <2>2. QED
    BY <1>3, <2>1 DEF IInv, RequestsProper, Request
<1>4. QED
  BY <1>1, <1>2, <1>3 DEF FaultOf

LEMMA IdentifiesKeeps ==
    ASSUME OneAtATime, NamesKept, IInv, Routes, FavoriteIdentifies, [Next]_vars
    PROVE  FavoriteIdentifies'
<1>1. CASE Crash
  BY <1>1 DEF Crash, Idle, FavoriteIdentifies, At
<1>2. ASSUME NEW r \in Requests, Step(r) \/ Fault(r) \/ Start(r), At(r, "favorite.unmark")'
      PROVE  /\ Step(r) /\ Favoriting(r) /\ req[r].pc # "idle"
             /\ req'[r].user = req[r].user /\ req'[r].rel = req[r].rel
  <2>1. ~Start(r)
    BY <1>2, Starts DEF At, FirstStep, OnRoute
  <2>2. ~Fault(r)
    BY <1>2, FaultLeads DEF At
  <2>3. Step(r) /\ OnWay(r) /\ req[r].pc # "idle"
    BY <1>2, <2>1, <2>2, StepWay
  <2>4. req'[r].op \in {"FAVORITE", "UNFAVORITE"} /\ req'[r] # Idle
    BY <1>2, <2>3 DEF At, OnWay, OnRoute, Idle
  <2>5. QED
    BY <2>3, <2>4, FavoritesOnly DEF OnWay
<1>3. ASSUME NEW r \in Requests, Step(r) \/ Fault(r) \/ Start(r), At(r, "favorite.unmark")'
      PROVE  (\/ req[r].path \in Resolve(req[r].user, req[r].rel)
              \/ OnlyWebdavFinds(req[r].user, req[r].rel))'
  <2>1. Favoriting(r) /\ req[r] \in Request /\ req[r].rel \in Rel /\ req[r].rel # <<>>
    BY <1>2, <1>3, Serving DEF Proper, Request
  <2>2. FavoriteResolve(r)
    <3>1. ASSUME Fail(r) \/ Finish(r)
          PROVE  FALSE
      BY <1>3, <3>1 DEF Finish, Fail, Idle, At, IInv, RequestsProper
    <3>2. ASSUME NEW w, req' = [req EXCEPT ![r].pc = "favorite.mark", ![r].wrote = w]
          PROVE  FALSE
      BY <1>3, <2>1, <3>2 DEF At, Request, IInv, RequestsProper
    <3>3. QED
      BY <2>1, <3>1, <3>2 DEF Favoriting, FavoriteUnmark, FavoriteMark
  <2>3. /\ nodes' = nodes /\ shares' = shares
        /\ req'[r].path \in AjaxResolve(req[r].user, req[r].rel)
    <3>1. ~Fail(r)
      BY <1>3 DEF Fail, Idle, At, IInv, RequestsProper
    <3>2. PICK p \in AjaxResolve(req[r].user, req[r].rel) :
            req' = [req EXCEPT ![r].pc = "favorite.unmark", ![r].path = p]
      BY <2>2, <3>1 DEF FavoriteResolve
    <3>3. req'[r].path = p
      BY <2>1, <3>2 DEF Request, IInv, RequestsProper
    <3>4. QED
      BY <2>2, <3>2, <3>3 DEF FavoriteResolve, tables
  <2>4. \/ OnlyWebdavFinds(req[r].user, req[r].rel)
        \/ AjaxResolve(req[r].user, req[r].rel) = Resolve(req[r].user, req[r].rel)
    BY <2>1, SameRoots DEF AjaxResolve, Resolve
  <2>5. /\ Resolve(req[r].user, req[r].rel)' = Resolve(req[r].user, req[r].rel)
        /\ OnlyWebdavFinds(req[r].user, req[r].rel)' = OnlyWebdavFinds(req[r].user, req[r].rel)
    <3>1. req'[r].user = req[r].user /\ req'[r].rel = req[r].rel
      BY <1>2, <1>3
    <3>2. \A u, rel : /\ Resolve(u, rel)' = Resolve(u, rel)
                     /\ OnlyWebdavFinds(u, rel)' = OnlyWebdavFinds(u, rel)
      BY <2>3, SameResolved, SameExempt
    <3>3. QED
      BY <3>1, <3>2
  <2>6. QED
    BY <2>3, <2>4, <2>5
<1>4. CASE UNCHANGED vars
  <2>1. nodes' = nodes /\ shares' = shares /\ req' = req
    BY <1>4 DEF vars
  <2>2. ASSUME NEW r \in Requests, At(r, "favorite.unmark")'
        PROVE  (\/ req[r].path \in Resolve(req[r].user, req[r].rel)
                \/ OnlyWebdavFinds(req[r].user, req[r].rel))'
    <3>1. \/ req[r].path \in Resolve(req[r].user, req[r].rel)
          \/ OnlyWebdavFinds(req[r].user, req[r].rel)
      BY <2>1, <2>2 DEF FavoriteIdentifies, At
    <3>2. \A u, rel : /\ Resolve(u, rel)' = Resolve(u, rel)
                     /\ OnlyWebdavFinds(u, rel)' = OnlyWebdavFinds(u, rel)
      BY <2>1, SameResolved, SameExempt
    <3>3. /\ Resolve(req[r].user, req[r].rel)' = Resolve(req[r].user, req[r].rel)
          /\ OnlyWebdavFinds(req[r].user, req[r].rel)' = OnlyWebdavFinds(req[r].user, req[r].rel)
      BY <2>1, <3>2
    <3>4. QED
      BY <2>1, <3>1, <3>3
  <2>3. QED
    BY <2>2 DEF FavoriteIdentifies
<1>5. ASSUME NEW r \in Requests, Step(r) \/ Fault(r) \/ Start(r)
      PROVE  FavoriteIdentifies'
  <2>1. ASSUME NEW q \in Requests, At(q, "favorite.unmark")'
        PROVE  (\/ req[q].path \in Resolve(req[q].user, req[q].rel)
                \/ OnlyWebdavFinds(req[q].user, req[q].rel))'
    <3>1. q = r
      BY DEF OneAtATime
    <3>2. QED
      BY <1>3, <1>5, <2>1, <3>1
  <2>2. QED
    BY <2>1 DEF FavoriteIdentifies
<1>6. QED
  BY <1>1, <1>4, <1>5 DEF Next, Rest

\* One request at a time, none at the root of a home, and names of which nothing
\* is trimmed: the file favorite.go is about to mark is the one webdav serves at
\* the path in the URL, however deep that is, but for paths of three names and
\* more whose parent webdav finds in a share.
THEOREM FavoriteIdentifiesAlways ==
    RootsUnnamed /\ OneAtATime /\ NamesKept => (Spec => []FavoriteIdentifies)
<1> SUFFICES ASSUME RootsUnnamed, OneAtATime, NamesKept
             PROVE  Spec => []FavoriteIdentifies
  OBVIOUS
<1>1. Init => IInv /\ Routes /\ FavoriteIdentifies
  BY InitIInv, InitRoutes DEF Init, Idle, FavoriteIdentifies, At
<1>2. IInv /\ Routes /\ FavoriteIdentifies /\ [Next]_vars
        => (IInv /\ Routes /\ FavoriteIdentifies)'
  BY NextKeeps, RoutesKeep, IdentifiesKeeps
<1>3. QED
  BY <1>1, <1>2, PTL DEF Spec
-----------------------------------------------------------------------------
\* At most one node that ends in a name is shared to a user.
NamesApart ==
    \A u \in Users, x \in Names : \A m, n \in SharedNamed(u, <<x>>) : m = n

\* A DELETE of one name that got past the test is in the user's own home.
Tested(q) ==
    Len(q.rel) = 1 =>
        /\ q.pc = "delete.share" => \E n \in ShareRoots(q.user, q.rel) : n.path = q.path
        /\ q.pc \in {"delete.check", "delete.look", "delete.mark", "delete.slot", "delete.move"} =>
             q.path.user = q.user
AllTested == \A r \in Requests : req[r].pc # "idle" => Tested(req[r])

LEMMA SharedRootsAre ==
    ASSUME TypeOK, EndsWith = {}, NEW u, NEW rel \in Rel, Len(rel) = 1, NEW n \in ShareRoots(u, rel)
    PROVE  n \in SharedNamed(u, rel) /\ NextTo(n, rel) = n.path
<1>1. ShareRoots(u, rel) = SharedNamed(u, rel)
  BY DEF ShareRoots
<1>2. n \in nodes /\ LikeSuffix(n.path, rel)
  BY <1>1 DEF SharedNamed, SharedOf
<1>3. n.path \in Path /\ n.path.rel \in Seq(Names)
  BY <1>2 DEF TypeOK, Node, Path, Rel
<1> DEFINE names == n.path.rel
<1>4. names \in Seq(Names) /\ rel \in Seq(Names) /\ Len(names) \in Nat
  BY <1>3, LenProperties DEF Rel
<1>5. Len(names) >= 1 /\ names[Len(names)] = rel[1]
  BY <1>2, <1>4 DEF LikeSuffix, EndsLike
<1>6. Front(names) \o rel = names
  <2> HIDE DEF names
  <2>1. Front(names) = SubSeq(names, 1, Len(names) - 1)
    BY DEF Front
  <2>2. \A i \in 1 .. Len(names) - 1 : names[i] \in Names
    BY <1>4, ElementOfSeq
  <2>3. /\ Front(names) \in Seq(Names) /\ Len(Front(names)) = Len(names) - 1
        /\ \A i \in 1 .. Len(names) - 1 : Front(names)[i] = names[i]
    BY <1>4, <1>5, <2>1, <2>2, SubSeqProperties
  <2>4. /\ Front(names) \o rel \in Seq(Names) /\ Len(Front(names) \o rel) = Len(names)
        /\ \A i \in 1 .. Len(names) : (Front(names) \o rel)[i] = names[i]
    <3>1. /\ Front(names) \o rel \in Seq(Names)
          /\ Len(Front(names) \o rel) = Len(Front(names)) + Len(rel)
          /\ \A i \in 1 .. Len(Front(names)) + Len(rel) : (Front(names) \o rel)[i] =
               IF i <= Len(Front(names)) THEN Front(names)[i] ELSE rel[i - Len(Front(names))]
      BY <1>4, <2>3, ConcatProperties
    <3>2. Len(Front(names)) + Len(rel) = Len(names)
      BY <1>4, <2>3
    <3>3. ASSUME NEW i \in 1 .. Len(names)
          PROVE  (Front(names) \o rel)[i] = names[i]
      <4>1. CASE i = Len(names)
        BY <1>4, <1>5, <2>3, <3>1, <3>2, <4>1
      <4>2. CASE i # Len(names)
        BY <1>4, <1>5, <2>3, <3>1, <3>2, <4>2
      <4>3. QED
        BY <4>1, <4>2
    <3>4. QED
      BY <3>1, <3>2, <3>3
  <2>5. QED
    BY <1>4, <2>4, SeqEqual
<1>7. QED
  BY <1>1, <1>3, <1>6 DEF NextTo, Path

\* A step of the walk keeps what the request was for.
LEMMA DeleteKeepsPath ==
    ASSUME IInv, NEW r \in Requests, req'[r] # Idle,
           \/ DeleteShare(r) \/ DeleteCheck(r) \/ DeleteLook(r) \/ DeleteMark(r) \/ DeleteSlot(r)
           \/ DeleteMove(r)
    PROVE  req'[r].path = req[r].path /\ (~DeleteShare(r) => req[r].pc # "delete.share")
<1>1. req[r].pc # "idle" /\ (~DeleteShare(r) => req[r].pc # "delete.share")
  BY DEF At, DeleteShare, DeleteCheck, DeleteLook, DeleteMark, DeleteSlot, DeleteMove
<1>2. req[r] \in Request
  BY <1>1, Serving
<1>3. ~Fail(r) /\ ~Finish(r)
  BY DEF Fail, Finish, IInv, RequestsProper
<1>4. CASE DeleteShare(r) \/ DeleteCheck(r) \/ DeleteMark(r) \/ DeleteSlot(r)
  <2>1. CASE DeleteShare(r)
    <3>1. req' = [req EXCEPT ![r].pc = "delete.check"]
      BY <1>3, <2>1 DEF DeleteShare, GoTo
    <3>2. QED
      BY <1>1, <1>2, <3>1 DEF Request, IInv, RequestsProper
  <2>2. CASE DeleteCheck(r)
    <3>1. PICK todo : req' = [req EXCEPT ![r].pc = "delete.look", ![r].todo = todo]
      BY <1>3, <2>2 DEF DeleteCheck
    <3>2. QED
      BY <1>1, <1>2, <3>1 DEF Request, IInv, RequestsProper
  <2>3. CASE DeleteMark(r)
    <3>1. req' = [req EXCEPT ![r].pc = "delete.slot", ![r].wrote = TRUE]
      BY <1>3, <2>3 DEF DeleteMark
    <3>2. QED
      BY <1>1, <1>2, <3>1 DEF Request, IInv, RequestsProper
  <2>4. CASE DeleteSlot(r)
    <3>1. PICK slot, to :
            req' = [req EXCEPT ![r].pc = "delete.move", ![r].slot = slot, ![r].to = to]
      BY <1>3, <2>4 DEF DeleteSlot
    <3>2. QED
      BY <1>1, <1>2, <3>1 DEF Request, IInv, RequestsProper
  <2>5. QED
    BY <1>4, <2>1, <2>2, <2>3, <2>4
<1>5. ASSUME NEW e, NEW w, NEW q \in {Visited(r, e, "delete.look", "dav.lock"),
                                      [Visited(r, e, "delete.look", "dav.lock") EXCEPT !.wrote = w]},
             req' = [req EXCEPT ![r] = q]
      PROVE  req'[r].path = req[r].path
  <2>1. q.path = req[r].path
    BY <1>2 DEF Visited, Request
  <2>2. QED
    BY <1>5, <2>1 DEF IInv, RequestsProper
<1>6. CASE DeleteLook(r)
  <2>1. \/ \E e, rows : req' = [req EXCEPT ![r].pc = "delete.mark", ![r].at = {e}, ![r].node = rows]
        \/ \E e : req' = [req EXCEPT ![r] = Visited(r, e, "delete.look", "dav.lock")]
    BY <1>3, <1>6 DEF DeleteLook, Look
  <2>2. ASSUME NEW e, NEW rows,
               req' = [req EXCEPT ![r].pc = "delete.mark", ![r].at = {e}, ![r].node = rows]
        PROVE  req'[r].path = req[r].path
    BY <1>2, <2>2 DEF Request, IInv, RequestsProper
  <2>3. QED
    BY <1>1, <1>5, <2>1, <2>2
<1>7. CASE DeleteMove(r)
  <2>1. PICK e : req' = [req EXCEPT ![r] = [Visited(r, e, "delete.look", "dav.lock") EXCEPT !.wrote = TRUE]]
    <3>1. req' # [req EXCEPT ![r] = Idle]
      BY DEF IInv, RequestsProper
    <3>2. QED
      BY <1>3, <1>7, <3>1 DEF DeleteMove, UpdateRow
  <2>2. QED
    BY <1>1, <1>5, <2>1
<1>8. QED
  BY <1>1, <1>4, <1>6, <1>7

LEMMA DeleteTests ==
    ASSUME EndsWith = {}, NamesApart, IInv, Routes, Named, AllTested,
           NEW r \in Requests, Delete(r), req'[r] # Idle
    PROVE  Tested(req[r])'
<1>1. req[r].pc # "idle" /\ OnWay(r)
  BY WalkWay DEF Delete
<1>2. /\ req[r] \in Request /\ req'[r].user = req[r].user /\ req'[r].rel = req[r].rel
      /\ req[r].rel \in Rel /\ req[r].user \in Users /\ Tested(req[r])
  BY <1>1, Serving DEF OnWay, AllTested, Request
<1> SUFFICES ASSUME Len(req[r].rel) = 1
             PROVE  /\ req'[r].pc = "delete.share" =>
                         \E n \in ShareRoots(req[r].user, req[r].rel)' : n.path = req'[r].path
                    /\ req'[r].pc \in {"delete.check", "delete.look", "delete.mark", "delete.slot",
                                       "delete.move"} => req'[r].path.user = req'[r].user
  BY <1>2 DEF Tested
<1>3. CASE DeleteResolve(r)
  <2>1. ~Fail(r) /\ nodes' = nodes /\ shares' = shares
    BY <1>3 DEF DeleteResolve, Fail, tables, IInv, RequestsProper
  <2>2. PICK p \in Resolve(req[r].user, req[r].rel) :
          req' = [req EXCEPT ![r].path = p,
                    ![r].pc = IF p.user = req[r].user THEN "delete.check" ELSE "delete.share"]
    BY <1>3, <2>1 DEF DeleteResolve
  <2>3. /\ req'[r].path = p
        /\ req'[r].pc = IF p.user = req[r].user THEN "delete.check" ELSE "delete.share"
    BY <1>2, <2>2 DEF Request, IInv, RequestsProper
  <2>4. CASE p.user = req[r].user
    BY <1>2, <2>3, <2>4
  <2>5. CASE p.user # req[r].user
    <3>1. p # FilesPath(req[r].user, req[r].rel)
      BY <2>5 DEF FilesPath
    <3>2. PICK n \in ShareRoots(req[r].user, req[r].rel) : p = NextTo(n, req[r].rel)
      BY <3>1 DEF Resolve
    <3>3. n.path = p
      BY <1>2, <3>2, SharedRootsAre DEF IInv
    <3>4. \A u, rel : ShareRoots(u, rel)' = ShareRoots(u, rel)
      BY <2>1 DEF ShareRoots, SharedNamed, SharedOf
    <3>5. ShareRoots(req[r].user, req[r].rel)' = ShareRoots(req[r].user, req[r].rel)
      BY <1>2, <3>4
    <3>6. QED
      BY <2>3, <2>5, <3>2, <3>3, <3>5
  <2>6. QED
    BY <2>4, <2>5
<1>4. CASE DeleteShare(r)
  <2>1. req[r].pc = "delete.share" /\ ~Finish(r)
    BY <1>4 DEF DeleteShare, At, Finish, IInv, RequestsProper
  <2>2. PICK m \in ShareRoots(req[r].user, req[r].rel) : m.path = req[r].path
    BY <1>2, <2>1 DEF Tested
  <2>3. PICK n \in ShareRoots(req[r].user, req[r].rel) : n.path # req[r].path
    BY <1>4, <2>1, <2>2 DEF DeleteShare
  <2>4. m \in SharedNamed(req[r].user, req[r].rel) /\ n \in SharedNamed(req[r].user, req[r].rel)
    BY <1>2, <2>2, <2>3, SharedRootsAre DEF IInv
  <2>5. PICK x \in Names : req[r].rel = <<x>>
    <3>1. req[r].rel = <<req[r].rel[1]>> /\ req[r].rel[1] \in Names
      BY <1>2 DEF Rel
    <3>2. QED
      BY <3>1
  <2>6. QED
    BY <1>2, <2>2, <2>3, <2>4, <2>5 DEF NamesApart
<1>5. CASE DeleteCheck(r) \/ DeleteLook(r) \/ DeleteMark(r) \/ DeleteSlot(r) \/ DeleteMove(r)
  <2>1. req'[r].path = req[r].path
    BY <1>5, DeleteKeepsPath
  <2>2. req[r].pc \in {"delete.check", "delete.look", "delete.mark", "delete.slot", "delete.move"}
    BY <1>5 DEF At, DeleteCheck, DeleteLook, DeleteMark, DeleteSlot, DeleteMove
  <2>3. req[r].path.user = req[r].user
    BY <1>2, <2>2 DEF Tested
  <2>4. req'[r].pc # "delete.share"
    <3>1. ASSUME NEW e, NEW w, NEW q \in {Visited(r, e, "delete.look", "dav.lock"),
                                      [Visited(r, e, "delete.look", "dav.lock") EXCEPT !.wrote = w]},
                 req' = [req EXCEPT ![r] = q]
          PROVE  req'[r].pc # "delete.share"
      <4>1. q.pc \in {"delete.look", "dav.lock"}
        BY <1>2, <3>1 DEF Visited, Request
      <4>2. QED
        BY <3>1, <4>1 DEF IInv, RequestsProper
    <3>2. ASSUME NEW where \in {"delete.look", "delete.mark", "delete.slot", "delete.move"},
                 req'[r].pc = where
          PROVE  req'[r].pc # "delete.share"
      BY <3>2
    <3>3. ~Fail(r) /\ req' # [req EXCEPT ![r] = Idle]
      BY DEF Fail, IInv, RequestsProper
    <3>4. CASE DeleteCheck(r)
      BY <1>2, <3>3, <3>4 DEF DeleteCheck, Request, IInv, RequestsProper
    <3>5. CASE DeleteLook(r)
      <4>1. \/ \E e, rows : req' = [req EXCEPT ![r].pc = "delete.mark", ![r].at = {e}, ![r].node = rows]
            \/ \E e : req' = [req EXCEPT ![r] = Visited(r, e, "delete.look", "dav.lock")]
        BY <3>3, <3>5 DEF DeleteLook, Look
      <4>2. ASSUME NEW e, NEW rows,
                   req' = [req EXCEPT ![r].pc = "delete.mark", ![r].at = {e}, ![r].node = rows]
            PROVE  req'[r].pc # "delete.share"
        BY <1>2, <4>2 DEF Request, IInv, RequestsProper
      <4>3. QED
        BY <3>1, <4>1, <4>2
    <3>6. CASE DeleteMark(r)
      BY <1>2, <3>3, <3>6 DEF DeleteMark, Request, IInv, RequestsProper
    <3>7. CASE DeleteSlot(r)
      <4>1. PICK slot, to :
              req' = [req EXCEPT ![r].pc = "delete.move", ![r].slot = slot, ![r].to = to]
        BY <3>3, <3>7 DEF DeleteSlot
      <4>2. QED
        BY <1>2, <4>1 DEF Request, IInv, RequestsProper
    <3>8. CASE DeleteMove(r)
      <4>1. PICK e : req' = [req EXCEPT ![r] = [Visited(r, e, "delete.look", "dav.lock") EXCEPT !.wrote = TRUE]]
        BY <3>3, <3>8 DEF DeleteMove, UpdateRow
      <4>2. QED
        BY <3>1, <4>1
    <3>9. QED
      BY <1>5, <3>4, <3>5, <3>6, <3>7, <3>8
  <2>5. QED
    BY <1>2, <2>1, <2>3, <2>4
<1>6. QED
  BY <1>3, <1>4, <1>5 DEF Delete

LEMMA WebdavGoesOn ==
    ASSUME IInv, NEW r \in Requests, DavLock(r) \/ DavTarget(r) \/ DavMove(r)
    PROVE  req'[r].pc \in {"idle", "dav.target", "dav.serve"}
<1>1. req[r] \in Request
  BY Serving DEF At, DavLock, DavTarget, DavMove
<1>2. CASE Fail(r) \/ Finish(r)
  BY <1>2 DEF Fail, Finish, Idle, IInv, RequestsProper
<1>3. ASSUME NEW where \in {"dav.target", "dav.serve"}, GoTo(r, where)
      PROVE  req'[r].pc = where
  BY <1>1, <1>3 DEF GoTo, Request, IInv, RequestsProper
<1>4. ASSUME req' = [req EXCEPT ![r].pc = "dav.serve", ![r].wrote = TRUE]
      PROVE  req'[r].pc = "dav.serve"
  BY <1>1, <1>4 DEF Request, IInv, RequestsProper
<1>5. QED
  BY <1>2, <1>3, <1>4 DEF DavLock, DavTarget, DavMove, Serves

Testing == {"delete.share", "delete.check", "delete.look", "delete.mark", "delete.slot",
            "delete.move"}

LEMMA TestsKeep ==
    ASSUME OneAtATime, EndsWith = {}, NamesApart, IInv, Routes, Named, AllTested, [Next]_vars
    PROVE  AllTested'
<1>1. CASE Crash
  BY <1>1 DEF Crash, Idle, AllTested
<1>2. ASSUME NEW r \in Requests, Step(r) \/ Fault(r) \/ Start(r), req'[r].pc \in Testing
      PROVE  Tested(req[r])'
  <2>1. ~Fault(r)
    BY <1>2, FaultLeads DEF Testing
  <2>2. ~Start(r)
    BY <1>2, Starts DEF Testing, FirstStep, OnRoute
  <2>3. Step(r) /\ OnWay(r) /\ req[r].pc # "idle"
    BY <1>2, <2>1, <2>2, StepWay
  <2>4. req'[r] # Idle
    BY <1>2 DEF Idle, Testing
  <2>5. req[r].op = "DELETE"
    BY <1>2, <2>3, <2>4 DEF OnWay, OnRoute, Testing
  <2>6. Delete(r)
    BY <1>2, <2>3, <2>5, DeletesOnly, WebdavGoesOn DEF Testing
  <2>7. QED
    BY <2>4, <2>6, DeleteTests
<1>3. ASSUME NEW r \in Requests, Step(r) \/ Fault(r) \/ Start(r)
      PROVE  AllTested'
  <2>1. Tested(req[r])'
    <3>1. CASE req'[r].pc \in Testing
      BY <1>2, <1>3, <3>1
    <3>2. CASE req'[r].pc \notin Testing
      BY <3>2 DEF Tested, Testing
    <3>3. QED
      BY <3>1, <3>2
  <2>2. \A q \in Requests : q = r
    BY DEF OneAtATime
  <2>3. QED
    BY <2>1, <2>2 DEF AllTested
<1>4. CASE UNCHANGED vars
  <2>1. nodes' = nodes /\ shares' = shares /\ req' = req
    BY <1>4 DEF vars
  <2>2. \A u, rel : ShareRoots(u, rel)' = ShareRoots(u, rel)
    BY <2>1 DEF ShareRoots, SharedNamed, SharedOf
  <2>3. ASSUME NEW r \in Requests, Tested(req[r])
        PROVE  Tested(req[r])'
    <3>1. ShareRoots(req[r].user, req[r].rel)' = ShareRoots(req[r].user, req[r].rel)
      BY <2>1, <2>2
    <3>2. QED
      BY <2>1, <2>3, <3>1 DEF Tested
  <2>4. QED
    BY <2>1, <2>3 DEF AllTested
<1>5. QED
  BY <1>1, <1>3, <1>4 DEF Next, Rest

\* One request at a time, none at the root of a home, and while no two nodes whose
\* names end alike are shared to a user: a DELETE by name never moves the root of
\* a share to the trash of its owner.
THEOREM JustUnsharedAlone ==
    RootsUnnamed /\ OneAtATime /\ EndsWith = {} => (Spec /\ []NamesApart => JustUnshared)
<1> SUFFICES ASSUME RootsUnnamed, OneAtATime, EndsWith = {}
             PROVE  Spec /\ []NamesApart => JustUnshared
  OBVIOUS
<1> DEFINE Inv == IInv /\ Routes /\ Named /\ AllTested
           Just == \A r \in Requests : DeleteMove(r) =>
                     req[r].path.user = req[r].user \/ Len(req[r].rel) > 1
<1>1. Init => Inv
  BY InitIInv, InitRoutes DEF Init, Idle, Named, AllTested
<1>2. Inv /\ NamesApart /\ [Next]_vars => Inv'
  BY NextKeeps, RoutesKeep, NamedKeeps, TestsKeep
<1>3. Inv => [Just]_vars
  <2> SUFFICES ASSUME Inv, NEW r \in Requests, DeleteMove(r)
               PROVE  req[r].path.user = req[r].user \/ Len(req[r].rel) > 1
    OBVIOUS
  <2>1. req[r].pc = "delete.move" /\ req[r].rel \in Rels
    BY DEF DeleteMove, At, Named
  <2>2. Tested(req[r])
    BY <2>1 DEF AllTested
  <2>3. req[r].rel \in Rel /\ req[r].rel # <<>>
    BY <2>1, StorageAssumption DEF RootsUnnamed
  <2>4. Len(req[r].rel) \in Nat /\ Len(req[r].rel) # 0
    BY <2>3, EmptySeq, LenProperties DEF Rel
  <2>5. \A l \in Nat : l # 0 => l = 1 \/ l > 1
    OBVIOUS
  <2>6. Len(req[r].rel) = 1 \/ Len(req[r].rel) > 1
    BY <2>4, <2>5
  <2>7. QED
    BY <2>1, <2>2, <2>6 DEF Tested
<1>4. QED
  BY <1>1, <1>2, <1>3, PTL DEF Spec, JustUnshared
-----------------------------------------------------------------------------
Trashed == {n \in nodes : n.path.area = "files_trash" /\ n.path.rel # <<>>}
Ids(rows) == {n.id : n \in rows}
Known(origins) == {t.node : t \in origins}

\* PURGE deletes the trash rows of what it removes before their nodes.
PurgesRows(q) == q.op = "PURGE" /\ q.pc \in {"del.favorites", "del.rows"}
LeftOver(q) == {n \in Trashed : ~LikePrefix(n.path, q.path)}

\* Where trash rows and trash are apart for a step or two.
Between == {"delete.slot", "delete.move", "undelete.forget", "undelete.rename"}

TrashBooks(q) ==
    /\ q.pc = "idle" \/ ~q.wrote => TrashKnown
    /\ q.pc # "idle" =>
        /\ q.pc \in {"delete.slot", "delete.move"} =>
             q.wrote /\ Known(trashnodes) = Ids(Trashed \union q.node)
        /\ q.pc = "undelete.move" =>
             \A e \in q.at, o \in q.slot :
               \E n \in Rows(e.path), t \in trashnodes : t.node = n.id /\ t.path = o
        /\ q.pc = "undelete.forget" =>
             q.wrote /\ \A o \in q.slot : Known({t \in trashnodes : t.path # o}) = Ids(Trashed)
        /\ q.pc = "undelete.rename" => TrashKnown \/ (q.bad /\ q.wrote)
        /\ PurgesRows(q) =>
             TrashKnown \/ (q.wrote /\ Known(trashnodes) = Ids(LeftOver(q)))
        /\ q.pc \in Between \/ PurgesRows(q) \/ TrashKnown

\* While nobody shares, what a request has in its hands lies in the trash for
\* UNDELETE and PURGE, in the files for all others.
Side(q) == IF q.op \in {"UNDELETE", "PURGE"} THEN "files_trash" ELSE "files"
Unplaced == {"put.resolve", "mkcol.resolve", "move.resolve", "delete.resolve", "upload.resolve",
             "updir.resolve", "favorite.resolve", "unshare.delete"}
WithRow == {"move.transfer", "delete.mark", "delete.slot", "delete.move"}

InPlace(q) ==
    q.pc # "idle" =>
        /\ q.pc \notin Unplaced => q.path.area = Side(q)
        /\ \A p \in q.todo : p.area = Side(q)
        /\ q.pc \in {"updir.scan", "undelete.move", "undelete.forget"} =>
             \A p \in q.slot : p.area = "files"
        /\ q.pc \in {"undelete.move", "undelete.forget"} => \A o, p \in q.slot : o = p
        /\ q.pc = "delete.move" => \A p \in q.slot : p.area = "files_trash" /\ p.rel # <<>>
        /\ q.pc \in WithRow \union {"undelete.move", "undelete.forget"} =>
             \A e \in q.at : e.path.area = Side(q)
        /\ q.op = "MOVE" => \A p \in q.to : p.area = "files"

Reads(q, rows) ==
    q.pc \in WithRow =>
        \E n \in rows : n.path.area = "files" /\ q.node = {m \in rows : m.path = n.path}
HasRead(q) == Reads(q, nodes)

OneTrashRow == \A s, t \in trashnodes : s.node = t.node \/ s.path = t.path => s = t
FromFiles == \A t \in trashnodes : t.path.area = "files"

TrashGood ==
    /\ \A r \in Requests : InPlace(req[r]) /\ HasRead(req[r])
    /\ FromFiles
    /\ ~torn => OneTrashRow /\ \A r \in Requests : TrashBooks(req[r])

\* What a step of the only request has to see to.
TrashRight(r) ==
    /\ InPlace(req[r])' /\ HasRead(req[r])'
    /\ FromFiles'
    /\ ~torn' => OneTrashRow' /\ TrashBooks(req[r])'
-----------------------------------------------------------------------------
LEMMA TrashKnownIs == TrashKnown <=> Known(trashnodes) = Ids(Trashed)
BY DEF TrashKnown, Known, Ids, Trashed

LEMMA ComesOutside ==
    ASSUME NEW p \in Path, NEW dir, OneComes(p, dir), p.area # "files_trash"
    PROVE  Trashed' = Trashed
BY DEF OneComes, Inserted, Trashed

LEMMA MovesOutside ==
    ASSUME IInv, NEW from \in Path, NEW to \in Path, NEW transfer \in BOOLEAN,
           OneMoves(from, to, transfer), to.area # "files_trash"
    PROVE  Trashed' = Trashed \ Rows(from)
<1>1. nodes' = (nodes \ Rows(from)) \union {Moved(n, to, transfer) : n \in Rows(from)}
  BY DEF OneMoves
<1>2. \A n \in Rows(from) : Moved(n, to, transfer).path = to
  BY MovedRow DEF Rows, IInv, TypeOK
<1>3. QED
  BY <1>1, <1>2 DEF Trashed

LEMMA MovesIntoTrash ==
    ASSUME IInv, NEW from \in Path, NEW to \in Path, NEW transfer \in BOOLEAN,
           OneMoves(from, to, transfer), from.area = "files",
           to.area = "files_trash", to.rel # <<>>
    PROVE  Ids(Trashed)' = Ids(Trashed \union Rows(from))
<1> DEFINE new == {Moved(n, to, transfer) : n \in Rows(from)}
<1>1. nodes' = (nodes \ Rows(from)) \union new
  BY DEF OneMoves
<1>2. \A n \in Rows(from) : /\ Moved(n, to, transfer).path = to
                            /\ Moved(n, to, transfer).id = n.id
                            /\ n.path = from
  BY MovedRow DEF Rows, IInv, TypeOK
<1>3. Ids(new) = Ids(Rows(from))
  BY <1>2 DEF Ids
<1>4. \A n \in new : n.path = to
  BY <1>2
<1> HIDE DEF new
<1>5. Trashed' = Trashed \union new
  <2>1. \A n \in nodes \ Rows(from) : n.path # from
    BY DEF Rows
  <2>2. \A n \in Trashed : n \notin Rows(from)
    BY <1>2 DEF Trashed
  <2>3. ASSUME NEW n
        PROVE  n \in Trashed' <=> n \in Trashed \union new
    BY <1>1, <1>4, <2>2 DEF Trashed
  <2>4. QED
    BY <2>3
<1>6. \A S, T : Ids(S \union T) = Ids(S) \union Ids(T)
  BY DEF Ids
<1>7. Ids(Trashed)' = Ids(Trashed \union new)
  BY <1>5 DEF Ids
<1>8. /\ Ids(Trashed \union new) = Ids(Trashed) \union Ids(new)
      /\ Ids(Trashed \union Rows(from)) = Ids(Trashed) \union Ids(Rows(from))
  BY <1>6
<1>9. QED
  BY <1>3, <1>7, <1>8

\* Nothing of it changes.
LEMMA SameTrash ==
    ASSUME Trashed' = Trashed, trashnodes' = trashnodes
    PROVE  /\ TrashKnown' = TrashKnown
           /\ FromFiles' = FromFiles /\ OneTrashRow' = OneTrashRow
BY DEF TrashKnown, Trashed, FromFiles, OneTrashRow

LEMMA KnownHere ==
    ASSUME TrashGood, ~torn, NEW r \in Requests,
           \/ req[r].pc = "idle" \/ ~req[r].wrote
           \/ req[r].pc \notin Between /\ ~PurgesRows(req[r])
    PROVE  TrashKnown
BY DEF TrashGood, TrashBooks

LEMMA IdleIsRight ==
    ASSUME TrashGood, NEW r \in Requests, req'[r] = Idle, FromFiles',
           ~torn' => OneTrashRow' /\ TrashKnown'
    PROVE  TrashRight(r)
BY DEF TrashRight, Idle, InPlace, HasRead, Reads, WithRow, TrashBooks

LEMMA FailIsRight ==
    ASSUME IInv, TrashGood, NEW r \in Requests, Fail(r), nodes' = nodes, trashnodes' = trashnodes
    PROVE  TrashRight(r)
<1>1. req'[r] = Idle /\ (~torn' => ~torn /\ ~req[r].wrote)
  BY DEF Fail, IInv, RequestsProper
<1>2. Trashed' = Trashed
  BY DEF Trashed
<1>3. ~torn => OneTrashRow
  BY DEF TrashGood
<1>4. QED
  BY <1>1, <1>2, <1>3, KnownHere, SameTrash, IdleIsRight DEF TrashGood

LEMMA FinishIsRight ==
    ASSUME IInv, TrashGood, NEW r \in Requests, Finish(r),
           req[r].pc \notin Between, ~PurgesRows(req[r]),
           Trashed' = Trashed, trashnodes' = trashnodes
    PROVE  TrashRight(r)
<1>1. req'[r] = Idle /\ (~torn' => ~torn)
  BY DEF Finish, IInv, RequestsProper
<1>2. ~torn => OneTrashRow
  BY DEF TrashGood
<1>3. QED
  BY <1>1, <1>2, KnownHere, SameTrash, IdleIsRight DEF TrashGood

\* A step within the files, or one that only looks.
Ordinary(q) ==
    /\ q.pc \notin Between \union {"undelete.move"} /\ ~PurgesRows(q)
    /\ InPlace(q)

LEMMA OnIsRight ==
    ASSUME IInv, TrashGood, NEW r \in Requests, NEW q, req' = [req EXCEPT ![r] = q],
           req[r].pc \notin Between, ~PurgesRows(req[r]),
           Ordinary(q), Reads(q, nodes'), UNCHANGED torn,
           Trashed' = Trashed, trashnodes' = trashnodes
    PROVE  TrashRight(r)
<1>1. req'[r] = q
  BY DEF IInv, RequestsProper
<1>2. ~torn => OneTrashRow
  BY DEF TrashGood
<1>3. ~torn' => TrashKnown'
  BY KnownHere, SameTrash
<1>4. FromFiles' /\ (~torn' => OneTrashRow')
  BY <1>2, SameTrash DEF TrashGood
<1>5. InPlace(req[r])' /\ HasRead(req[r])'
  BY <1>1 DEF Ordinary, HasRead, InPlace
<1>6. ~torn' => TrashBooks(req[r])'
  BY <1>1, <1>3 DEF Ordinary, TrashBooks, Between, PurgesRows
<1>7. QED
  BY <1>4, <1>5, <1>6 DEF TrashRight
-----------------------------------------------------------------------------
LEMMA Holding ==
    ASSUME IInv, Routes, TrashGood, NEW r \in Requests, req[r].pc # "idle"
    PROVE  /\ req[r] \in Request /\ req[r] \in Proper /\ OnRoute(req[r])
           /\ InPlace(req[r]) /\ HasRead(req[r])
BY Serving DEF Routes, TrashGood

\* Without shares a path is that in the user's own files.
LEMMA OwnResolved ==
    ASSUME shares = {}, NEW u, NEW rel, NEW p \in Resolve(u, rel) \union AjaxResolve(u, rel)
    PROVE  p = FilesPath(u, rel) /\ p.area = "files" /\ p.user = u
<1>1. \A S : SharedOf(u, S) = {}
  BY DEF SharedOf
<1>2. ShareRoots(u, rel) = {} /\ AjaxRoots(u, rel) = {}
  BY <1>1 DEF ShareRoots, AjaxRoots, SharedNamed
<1>3. p = FilesPath(u, rel)
  BY <1>2 DEF Resolve, AjaxResolve
<1>4. QED
  BY <1>3 DEF FilesPath

LEMMA ChildArea ==
    ASSUME NEW p \in Path, NEW n
    PROVE  Child(p, n).area = p.area
BY DEF Child, Path

LEMMA ParentArea ==
    ASSUME NEW p \in Path
    PROVE  ParentOf(p).area = p.area
BY DEF ParentOf, Path

\* Where a request has nothing but its path and its list to lie in place.
Merely == PCs \ (WithRow \union Between \union Unplaced \union {"updir.scan", "undelete.move"})

LEMMA MerelyInPlace ==
    ASSUME NEW q \in Request, InPlace(q),
           NEW next, next.pc \in Merely, next.op = q.op, next.todo = q.todo, next.to = q.to,
           next.path.area = Side(q), ~PurgesRows(next)
    PROVE  Ordinary(next) /\ Reads(next, nodes')
<1>1. /\ next.pc \notin WithRow \union Between \union Unplaced
      /\ next.pc \notin {"updir.scan", "undelete.move"} /\ q.pc # "idle"
  BY DEF Merely, Request, PCs
<1>2. Side(next) = Side(q)
  BY DEF Side
<1>3. \A p \in next.todo : p.area = Side(next)
  BY <1>1, <1>2 DEF InPlace
<1>4. next.op = "MOVE" => \A p \in next.to : p.area = "files"
  BY <1>1 DEF InPlace
<1>5. InPlace(next)
  BY <1>1, <1>2, <1>3, <1>4 DEF InPlace, Between
<1>6. QED
  BY <1>1, <1>5 DEF Ordinary, Reads

\* A request has found its path.
LEMMA FoundIsRight ==
    ASSUME IInv, TrashGood, NEW r \in Requests, req[r] \in Request, InPlace(req[r]),
           Side(req[r]) = "files", req[r].pc \notin Between, NEW where \in Merely,
           NEW p, p.area = "files",
           req' = [req EXCEPT ![r].pc = where, ![r].path = p], UNCHANGED torn,
           nodes' = nodes, trashnodes' = trashnodes
    PROVE  TrashRight(r)
<1> DEFINE q == [req[r] EXCEPT !.pc = where, !.path = p]
<1>1. /\ req' = [req EXCEPT ![r] = q]
      /\ q.pc = where /\ q.op = req[r].op /\ q.todo = req[r].todo /\ q.to = req[r].to
      /\ q.path = p
  BY DEF Request
<1> HIDE DEF q
<1>2. ~PurgesRows(q) /\ ~PurgesRows(req[r])
  BY <1>1 DEF PurgesRows, Side
<1>3. Ordinary(q) /\ Reads(q, nodes')
  BY <1>1, <1>2, MerelyInPlace
<1>4. Trashed' = Trashed
  BY DEF Trashed
<1>5. QED
  BY <1>1, <1>2, <1>3, <1>4, OnIsRight

LEMMA ResolvesRight ==
    ASSUME IInv, Routes, TrashGood, shares = {}, NEW r \in Requests,
           \/ PutResolve(r) \/ MkcolResolve(r) \/ UploadResolve(r) \/ FavoriteResolve(r)
           \/ DeleteResolve(r)
    PROVE  TrashRight(r)
<1>1. /\ req[r].pc \in {"put.resolve", "mkcol.resolve", "upload.resolve", "favorite.resolve",
                        "delete.resolve"}
      /\ nodes' = nodes /\ trashnodes' = trashnodes
  BY DEF PutResolve, MkcolResolve, UploadResolve, FavoriteResolve, DeleteResolve, At, tables
<1>2. /\ req[r] \in Request /\ req[r] \in Proper /\ InPlace(req[r]) /\ OnRoute(req[r])
      /\ req[r].user \in Users /\ req[r].rel \in Rel
  BY <1>1, Holding DEF Request
<1>3. Side(req[r]) = "files" /\ req[r].pc \notin Between
  BY <1>1, <1>2 DEF OnRoute, Side, Between
<1>4. CASE Fail(r)
  BY <1>1, <1>4, FailIsRight
<1>5. \A rel \in Rel : \A p \in Resolve(req[r].user, rel) \union AjaxResolve(req[r].user, rel) :
        p \in Path /\ p.area = "files" /\ p.user = req[r].user
  BY <1>2, Resolved, OwnResolved DEF IInv
<1>6. Front(req[r].rel) \in Rel
  BY <1>2, FrontRel
<1>7. ASSUME NEW where \in Merely, NEW p, p.area = "files",
             req' = [req EXCEPT ![r].pc = where, ![r].path = p], UNCHANGED torn
      PROVE  TrashRight(r)
  BY <1>1, <1>2, <1>3, <1>7, FoundIsRight
<1>8. {"del.shares", "mkcol.check", "mkcol.save", "upload.create", "favorite.unmark",
       "delete.check", "delete.share"} \subseteq Merely
  BY DEF Merely, PCs, WithRow, Between, Unplaced
<1>9. CASE PutResolve(r)
  <2>1. CASE ~Fail(r)
    <3>1. PICK p \in Resolve(req[r].user, Front(req[r].rel)) :
            /\ req' = [req EXCEPT ![r].pc = "del.shares", ![r].path = Child(p, Last(req[r].rel))]
            /\ UNCHANGED torn
      BY <1>9, <2>1 DEF PutResolve
    <3>2. Child(p, Last(req[r].rel)).area = "files"
      BY <1>5, <1>6, <3>1, ChildArea
    <3>3. QED
      BY <1>7, <1>8, <3>1, <3>2
  <2>2. QED
    BY <1>4, <2>1
<1>10. CASE MkcolResolve(r)
  <2>1. CASE ~Fail(r)
    <3>1. \/ \E p \in Resolve(req[r].user, req[r].rel) :
               /\ req' = [req EXCEPT ![r].pc = "mkcol.check", ![r].path = p]
               /\ UNCHANGED torn
          \/ \E p \in Resolve(req[r].user, Front(req[r].rel)) :
               /\ req' = [req EXCEPT ![r].pc = "mkcol.save", ![r].path = Child(p, Last(req[r].rel))]
               /\ UNCHANGED torn
      BY <1>10, <2>1 DEF MkcolResolve
    <3>2. \A p \in Resolve(req[r].user, Front(req[r].rel)) : Child(p, Last(req[r].rel)).area = "files"
      BY <1>5, <1>6, ChildArea
    <3>3. \A p \in Resolve(req[r].user, req[r].rel) : p.area = "files"
      BY <1>2, <1>5
    <3>4. QED
      BY <1>7, <1>8, <3>1, <3>2, <3>3
  <2>2. QED
    BY <1>4, <2>1
<1>11. CASE UploadResolve(r)
  <2>1. CASE ~Fail(r)
    <3>1. PICK p \in AjaxResolve(req[r].user, Front(req[r].rel)) :
            /\ req' = [req EXCEPT ![r].pc = "upload.create", ![r].path = Child(p, Last(req[r].rel))]
            /\ UNCHANGED torn
      BY <1>11, <2>1 DEF UploadResolve
    <3>2. Child(p, Last(req[r].rel)).area = "files"
      BY <1>5, <1>6, <3>1, ChildArea
    <3>3. QED
      BY <1>7, <1>8, <3>1, <3>2
  <2>2. QED
    BY <1>4, <2>1
<1>12. CASE FavoriteResolve(r)
  <2>1. CASE ~Fail(r)
    <3>1. PICK p \in AjaxResolve(req[r].user, req[r].rel) :
            /\ req' = [req EXCEPT ![r].pc = "favorite.unmark", ![r].path = p]
            /\ UNCHANGED torn
      BY <1>12, <2>1 DEF FavoriteResolve
    <3>2. p.area = "files"
      BY <1>2, <1>5, <3>1
    <3>3. QED
      BY <1>7, <1>8, <3>1, <3>2
  <2>2. QED
    BY <1>4, <2>1
<1>13. CASE DeleteResolve(r)
  <2>1. CASE ~Fail(r)
    <3>1. PICK p \in Resolve(req[r].user, req[r].rel) :
            /\ req' = [req EXCEPT ![r].path = p,
                 ![r].pc = IF p.user = req[r].user THEN "delete.check" ELSE "delete.share"]
            /\ UNCHANGED torn
      BY <1>13, <2>1 DEF DeleteResolve
    <3>2. p.area = "files" /\ p.user = req[r].user
      BY <1>2, <1>5, <3>1
    <3>3. req' = [req EXCEPT ![r].pc = "delete.check", ![r].path = p]
      BY <1>2, <3>1, <3>2 DEF Request
    <3>4. QED
      BY <1>7, <1>8, <3>1, <3>2, <3>3
  <2>2. QED
    BY <1>4, <2>1
<1>14. QED
  BY <1>9, <1>10, <1>11, <1>12, <1>13

LEMMA MoveResolveRight ==
    ASSUME IInv, Routes, TrashGood, shares = {}, NEW r \in Requests, MoveResolve(r)
    PROVE  TrashRight(r)
<1>1. req[r].pc = "move.resolve" /\ nodes' = nodes /\ trashnodes' = trashnodes
  BY DEF MoveResolve, At, tables
<1>2. /\ req[r] \in Request /\ InPlace(req[r]) /\ req[r].op = "MOVE"
      /\ req[r].user \in Users /\ req[r].rel \in Rel /\ Front(req[r].dst) \in Rel
  BY <1>1, Holding, FrontRel DEF Request, OnRoute
<1>3. CASE Fail(r)
  BY <1>1, <1>3, FailIsRight
<1>4. CASE ~Fail(r)
  <2>1. PICK src \in Resolve(req[r].user, req[r].rel), p \in Resolve(req[r].user, Front(req[r].dst)) :
          /\ req' = [req EXCEPT ![r].pc = "move.check", ![r].path = src,
                                ![r].to = {Child(p, NameOf(src))}]
          /\ UNCHANGED torn
    BY <1>4 DEF MoveResolve
  <2>2. src.area = "files" /\ Child(p, NameOf(src)).area = "files"
    BY <1>2, <2>1, Resolved, OwnResolved, ChildArea DEF IInv
  <2> DEFINE q == [req[r] EXCEPT !.pc = "move.check", !.path = src, !.to = {Child(p, NameOf(src))}]
  <2>3. /\ req' = [req EXCEPT ![r] = q]
        /\ q.pc = "move.check" /\ q.op = "MOVE" /\ q.todo = req[r].todo
        /\ q.to = {Child(p, NameOf(src))} /\ q.path = src
    BY <1>2, <2>1 DEF Request
  <2> HIDE DEF q
  <2>4. Ordinary(q) /\ Reads(q, nodes') /\ ~PurgesRows(req[r]) /\ req[r].pc \notin Between
    BY <1>1, <1>2, <2>2, <2>3 DEF Ordinary, InPlace, Reads, Side, WithRow, Between, PurgesRows
  <2>5. Trashed' = Trashed
    BY <1>1 DEF Trashed
  <2>6. QED
    BY <1>1, <2>1, <2>3, <2>4, <2>5, OnIsRight
<1>5. QED
  BY <1>3, <1>4

LEMMA UpdirResolveRight ==
    ASSUME IInv, Routes, TrashGood, shares = {}, NEW r \in Requests, UpdirResolve(r)
    PROVE  TrashRight(r)
<1>1. req[r].pc = "updir.resolve" /\ nodes' = nodes /\ trashnodes' = trashnodes
  BY DEF UpdirResolve, At, tables
<1>2. /\ req[r] \in Request /\ InPlace(req[r]) /\ req[r].op = "UPDIR"
      /\ req[r].user \in Users /\ req[r].rel \in Rel /\ Front(req[r].rel) \in Rel
  BY <1>1, Holding, FrontRel DEF Request, OnRoute
<1>3. CASE Fail(r)
  BY <1>1, <1>3, FailIsRight
<1>4. CASE ~Fail(r)
  <2>1. PICK inHome \in BOOLEAN : \E p \in UpdirPlaces(req[r].user, Front(req[r].rel), inHome) :
          /\ req' = [req EXCEPT ![r].pc = "updir.scan", ![r].slot = {p},
                                ![r].path = Child(p, Last(req[r].rel))]
          /\ UNCHANGED torn
    BY <1>4 DEF UpdirResolve
  <2>10. PICK p \in UpdirPlaces(req[r].user, Front(req[r].rel), inHome) :
          /\ req' = [req EXCEPT ![r].pc = "updir.scan", ![r].slot = {p},
                                ![r].path = Child(p, Last(req[r].rel))]
          /\ UNCHANGED torn
    BY <2>1
  <2>2. AjaxRoots(req[r].user, Front(req[r].rel)) = {}
    <3>1. \A S : SharedOf(req[r].user, S) = {}
      BY DEF SharedOf
    <3>2. QED
      BY <3>1 DEF AjaxRoots
  <2>3. p = FilesPath(req[r].user, Front(req[r].rel))
    BY <2>10, <2>2 DEF UpdirPlaces
  <2>4. p.area = "files" /\ Child(p, Last(req[r].rel)).area = "files"
    BY <1>2, <2>3, HomePaths, ChildArea DEF FilesPath
  <2> DEFINE q == [req[r] EXCEPT !.pc = "updir.scan", !.slot = {p}, !.path = Child(p, Last(req[r].rel))]
  <2>5. /\ req' = [req EXCEPT ![r] = q]
        /\ q.pc = "updir.scan" /\ q.op = "UPDIR" /\ q.todo = req[r].todo
        /\ q.slot = {p} /\ q.path = Child(p, Last(req[r].rel))
    BY <1>2, <2>10 DEF Request
  <2> HIDE DEF q
  <2>6. Ordinary(q) /\ Reads(q, nodes') /\ ~PurgesRows(req[r]) /\ req[r].pc \notin Between
    BY <1>1, <1>2, <2>4, <2>5 DEF Ordinary, InPlace, Reads, Side, WithRow, Between, PurgesRows
  <2>7. Trashed' = Trashed
    BY <1>1 DEF Trashed
  <2>8. QED
    BY <1>1, <2>10, <2>5, <2>6, <2>7, OnIsRight
<1>5. QED
  BY <1>3, <1>4

\* A request that has its path goes on.
LEMMA MerelyRight ==
    ASSUME IInv, TrashGood, NEW r \in Requests, req[r] \in Request, InPlace(req[r]),
           req[r].pc \notin Between, ~PurgesRows(req[r]), req[r].path.area = Side(req[r]),
           NEW next, req' = [req EXCEPT ![r] = next],
           next.pc \in Merely, next.op = req[r].op, next.todo = req[r].todo,
           next.to = req[r].to, next.path = req[r].path,
           req[r].op = "PURGE" => next.pc \notin {"del.favorites", "del.rows"},
           UNCHANGED torn, Trashed' = Trashed, trashnodes' = trashnodes
    PROVE  TrashRight(r)
<1>1. ~PurgesRows(next) /\ next.path.area = Side(req[r])
  BY DEF PurgesRows
<1>2. Ordinary(next) /\ Reads(next, nodes')
  BY <1>1, MerelyInPlace
<1>3. QED
  BY <1>1, <1>2, OnIsRight

\* What it merely has to know is where it stands and whether it wrote.
LEMMA PassesRight ==
    ASSUME IInv, Routes, TrashGood, NEW r \in Requests,
           req[r].pc \notin Between \union Unplaced \union {"idle"}, ~PurgesRows(req[r]),
           NEW where \in Merely,
           req[r].op = "PURGE" => where \notin {"del.favorites", "del.rows"},
           \/ req' = [req EXCEPT ![r].pc = where]
           \/ \E w : req' = [req EXCEPT ![r].pc = where, ![r].wrote = w],
           UNCHANGED torn, Trashed' = Trashed, trashnodes' = trashnodes
    PROVE  TrashRight(r)
<1>1. req[r] \in Request /\ InPlace(req[r]) /\ req[r].path.area = Side(req[r])
  BY Holding DEF InPlace
<1>2. CASE req' = [req EXCEPT ![r].pc = where]
  <2> DEFINE q == [req[r] EXCEPT !.pc = where]
  <2>1. /\ req' = [req EXCEPT ![r] = q]
        /\ q.pc = where /\ q.op = req[r].op /\ q.todo = req[r].todo /\ q.to = req[r].to
        /\ q.path = req[r].path
    BY <1>1, <1>2 DEF Request
  <2> HIDE DEF q
  <2>2. QED
    BY <1>1, <2>1, MerelyRight
<1>3. ASSUME NEW w, req' = [req EXCEPT ![r].pc = where, ![r].wrote = w]
      PROVE  TrashRight(r)
  <2> DEFINE q == [req[r] EXCEPT !.pc = where, !.wrote = w]
  <2>1. /\ req' = [req EXCEPT ![r] = q]
        /\ q.pc = where /\ q.op = req[r].op /\ q.todo = req[r].todo /\ q.to = req[r].to
        /\ q.path = req[r].path
    BY <1>1, <1>3 DEF Request
  <2> HIDE DEF q
  <2>2. QED
    BY <1>1, <2>1, MerelyRight
<1>4. QED
  BY <1>2, <1>3

LEMMA PassingRight ==
    ASSUME IInv, Routes, TrashGood, NEW r \in Requests,
           \/ MkcolCheck(r) \/ DavLock(r) \/ DavTarget(r) \/ UndeleteStat(r)
           \/ UploadCreate(r) \/ FavoriteUnmark(r) \/ PurgeRemove(r) \/ DeleteShares(r)
           \/ DeleteShare(r)
    PROVE  TrashRight(r)
<1>1. /\ req[r].pc \in {"mkcol.check", "dav.lock", "dav.target", "undelete.stat",
                        "upload.create", "favorite.unmark", "purge.remove", "del.shares",
                        "delete.share"}
      /\ nodes' = nodes /\ trashnodes' = trashnodes
  BY DEF MkcolCheck, DavLock, DavTarget, UndeleteStat, UploadCreate, FavoriteUnmark,
     PurgeRemove, DeleteShares, Drops, DeleteShare, At, tables
<1>2. Trashed' = Trashed
  BY <1>1 DEF Trashed
<1>3. ~PurgesRows(req[r]) /\ req[r].pc \notin Between \union Unplaced \union {"idle"}
  BY <1>1 DEF PurgesRows, Between, Unplaced
<1>4. CASE Fail(r) \/ Finish(r)
  BY <1>1, <1>2, <1>3, <1>4, FailIsRight, FinishIsRight
<1>5. ASSUME NEW where \in {"mkcol.save", "dav.target", "dav.serve", "undelete.origin",
                            "upload.save", "favorite.mark", "del.shares", "del.trash",
                            "delete.check"},
             \/ req' = [req EXCEPT ![r].pc = where]
             \/ \E w : req' = [req EXCEPT ![r].pc = where, ![r].wrote = w],
             UNCHANGED torn
      PROVE  TrashRight(r)
  <2>1. where \in Merely /\ where \notin {"del.favorites", "del.rows"}
    BY DEF Merely, PCs, WithRow, Between, Unplaced
  <2>2. QED
    BY <1>1, <1>2, <1>3, <1>5, <2>1, PassesRight
<1>6. CASE MkcolCheck(r)
  BY <1>4, <1>5, <1>6 DEF MkcolCheck, GoTo
<1>7. CASE DavLock(r)
  BY <1>4, <1>5, <1>7 DEF DavLock, GoTo
<1>8. CASE DavTarget(r)
  BY <1>4, <1>5, <1>8 DEF DavTarget, GoTo
<1>9. CASE UndeleteStat(r)
  BY <1>4, <1>5, <1>9 DEF UndeleteStat, GoTo
<1>10. CASE UploadCreate(r)
  BY <1>4, <1>5, <1>10 DEF UploadCreate
<1>11. CASE FavoriteUnmark(r)
  BY <1>4, <1>5, <1>11 DEF FavoriteUnmark
<1>12. CASE PurgeRemove(r)
  BY <1>4, <1>5, <1>12 DEF PurgeRemove
<1>13. CASE DeleteShares(r)
  BY <1>5, <1>13 DEF DeleteShares, Drops
<1>14. CASE DeleteShare(r)
  BY <1>4, <1>5, <1>14 DEF DeleteShare, GoTo
<1>15. QED
  BY <1>6, <1>7, <1>8, <1>9, <1>10, <1>11, <1>12, <1>13, <1>14

LEMMA EndingRight ==
    ASSUME IInv, Routes, TrashGood, NEW r \in Requests,
           \/ FavoriteMark(r) \/ UnshareDelete(r) \/ DavPut(r) \/ DavMkcol(r) \/ DavMove(r)
           \/ UpdirCreate(r)
    PROVE  TrashRight(r)
<1>1. /\ req[r].pc \in {"favorite.mark", "unshare.delete", "dav.serve", "updir.create"}
      /\ nodes' = nodes /\ trashnodes' = trashnodes /\ (Fail(r) \/ Finish(r))
  BY DEF FavoriteMark, UnshareDelete, DavPut, DavMkcol, DavMove, Serves, UpdirCreate, At, tables
<1>2. Trashed' = Trashed
  BY <1>1 DEF Trashed
<1>3. ~PurgesRows(req[r]) /\ req[r].pc \notin Between
  BY <1>1 DEF PurgesRows, Between
<1>4. QED
  BY <1>1, <1>2, <1>3, FailIsRight, FinishIsRight
-----------------------------------------------------------------------------
\* A step with its own books.
LEMMA BooksRight ==
    ASSUME IInv, NEW r \in Requests, NEW q, req' = [req EXCEPT ![r] = q],
           InPlace(q), Reads(q, nodes'), FromFiles',
           ~torn' => OneTrashRow' /\ TrashBooks(q)'
    PROVE  TrashRight(r)
<1>1. req'[r] = q
  BY DEF IInv, RequestsProper
<1>2. InPlace(req[r])' /\ HasRead(req[r])'
  BY <1>1 DEF HasRead, InPlace, Side
<1>3. TrashBooks(req[r])' <=> TrashBooks(q)'
  BY <1>1
<1>4. QED
  BY <1>2, <1>3 DEF TrashRight

\* What a PUT replaces is not in the trash, what a PURGE removes is.
LEMMA VictimsSide ==
    ASSUME IInv, Routes, TrashGood, NEW r \in Requests,
           req[r].pc \in {"del.trash", "del.favorites", "del.rows"}
    PROVE  \/ req[r].op = "PUT" /\ Victims(r) \intersect Trashed = {}
           \/ /\ req[r].op = "PURGE" /\ Victims(r) \subseteq Trashed
              /\ LeftOver(req[r]) = Trashed \ Victims(r)
<1>1. /\ req[r] \in Request /\ req[r] \in Proper /\ OnRoute(req[r])
      /\ req[r].path.area = Side(req[r])
  BY Holding DEF InPlace, Unplaced
<1>2. req[r].op \in {"PUT", "PURGE"}
  BY <1>1 DEF OnRoute
<1>3. \A n \in Victims(r) : n.path.area = Side(req[r])
  BY <1>1 DEF Victims, LikePrefix, SameTree
<1>4. ASSUME NEW n \in Victims(r)
      PROVE  n.path.rel # <<>>
  <2>1. n.path \in Path /\ req[r].path \in Path /\ LikePrefix(n.path, req[r].path)
    BY <1>1 DEF Victims, IInv, TypeOK, Node, Request
  <2>2. req[r].path.rel # <<>>
    BY <1>1 DEF Proper, Inner
  <2>3. QED
    BY <2>1, <2>2, LikeRoot
<1>5. QED
  BY <1>2, <1>3, <1>4 DEF Side, Trashed, LeftOver, Victims

LEMMA DeleteTrashRefsRight ==
    ASSUME IInv, Routes, RowsUnique, TrashGood, NEW r \in Requests, DeleteTrashRefs(r)
    PROVE  TrashRight(r)
<1> DEFINE gone == {t \in trashnodes : \E n \in Victims(r) : n.id = t.node}
<1>1. /\ req[r].pc = "del.trash" /\ trashnodes' = trashnodes \ gone
      /\ req' = [req EXCEPT ![r].pc = "del.favorites", ![r].wrote = @ \/ gone # {}]
      /\ nodes' = nodes /\ torn' = torn
  BY DEF DeleteTrashRefs, At, Drops
<1>2. req[r] \in Request /\ InPlace(req[r])
  BY <1>1, Holding
<1>3. PICK q : q = [req[r] EXCEPT !.pc = "del.favorites", !.wrote = @ \/ gone # {}]
  OBVIOUS
<1>4. /\ req' = [req EXCEPT ![r] = q]
      /\ q.pc = "del.favorites" /\ q.op = req[r].op /\ q.todo = req[r].todo /\ q.to = req[r].to
      /\ q.path = req[r].path /\ q.wrote = (req[r].wrote \/ gone # {})
  BY <1>1, <1>2, <1>3 DEF Request
<1> HIDE DEF gone
<1>5. InPlace(q) /\ Reads(q, nodes')
  BY <1>1, <1>2, <1>4 DEF InPlace, Reads, Side, WithRow, Unplaced
<1>6. FromFiles' /\ (OneTrashRow => OneTrashRow')
  BY <1>1 DEF FromFiles, OneTrashRow, TrashGood, gone
<1>7. ASSUME ~torn'
      PROVE  OneTrashRow' /\ TrashBooks(q)'
  <2>1. ~torn /\ OneTrashRow /\ TrashKnown
    BY <1>1, <1>7, KnownHere DEF TrashGood, Between, PurgesRows
  <2>2. Trashed' = Trashed
    BY <1>1 DEF Trashed
  <2>3. CASE gone = {}
    <3>1. TrashKnown'
      BY <1>1, <2>1, <2>2, <2>3, SameTrash
    <3>2. QED
      BY <1>4, <1>6, <2>1, <3>1 DEF TrashBooks, Between, PurgesRows
  <2>4. CASE gone # {}
    <3>1. PICK t \in trashnodes, n \in Victims(r) : n.id = t.node
      BY <2>4 DEF gone
    <3>2. \A m \in nodes : m \in Victims(r) \/ \A v \in Victims(r) : m.id # v.id
      BY DEF RowsUnique, Victims
    <3>3. t.node \in Ids(Trashed)
      BY <2>1, <3>1, TrashKnownIs DEF Known
    <3>4. n \in Trashed
      BY <3>1, <3>3 DEF Ids, Trashed, RowsUnique, Victims
    <3>5. req[r].op = "PURGE" /\ LeftOver(req[r]) = Trashed \ Victims(r)
      BY <1>1, <3>1, <3>4, VictimsSide
    <3>6. Known(trashnodes') = Ids(Trashed \ Victims(r))
      <4>1. Known(trashnodes) = Ids(Trashed)
        BY <2>1, TrashKnownIs
      <4>2. \A i : i \in Known(trashnodes') <=> i \in Known(trashnodes) /\ i \notin Ids(Victims(r))
        BY <1>1 DEF Known, Ids, gone
      <4>3. \A i : i \in Ids(Trashed \ Victims(r)) <=> i \in Ids(Trashed) /\ i \notin Ids(Victims(r))
        BY <3>2 DEF Ids, Trashed
      <4>4. QED
        BY <4>1, <4>2, <4>3
    <3>7. LeftOver(q)' = LeftOver(req[r])
      BY <1>4, <2>2 DEF LeftOver
    <3>8. q.wrote /\ PurgesRows(q)
      BY <1>4, <2>4, <3>5 DEF PurgesRows
    <3>9. Known(trashnodes)' = Ids(LeftOver(q))'
      BY <3>5, <3>6, <3>7
    <3>10. QED
      BY <1>4, <1>6, <2>1, <3>8, <3>9 DEF TrashBooks, Between
  <2>5. QED
    BY <2>3, <2>4
<1>8. QED
  BY <1>4, <1>5, <1>6, <1>7, BooksRight

LEMMA DeleteFavoritesRight ==
    ASSUME IInv, Routes, TrashGood, NEW r \in Requests, DeleteFavorites(r)
    PROVE  TrashRight(r)
<1>1. PICK w \in BOOLEAN :
        /\ req[r].pc = "del.favorites" /\ (req[r].wrote => w)
        /\ req' = [req EXCEPT ![r].pc = "del.rows", ![r].wrote = w]
        /\ nodes' = nodes /\ trashnodes' = trashnodes /\ torn' = torn
  <2> DEFINE gone == {f \in favorites : \E n \in Victims(r) : n.id = f.node}
  <2>1. /\ req[r].pc = "del.favorites"
        /\ req' = [req EXCEPT ![r].pc = "del.rows", ![r].wrote = @ \/ gone # {}]
        /\ nodes' = nodes /\ trashnodes' = trashnodes /\ torn' = torn
    BY DEF DeleteFavorites, At, Drops
  <2>2. req[r] \in Request
    BY <2>1, Holding
  <2>3. PICK w \in BOOLEAN : w = (req[r].wrote \/ gone # {})
    BY <2>2 DEF Request
  <2>4. req' = [req EXCEPT ![r].pc = "del.rows", ![r].wrote = w]
    BY <2>1, <2>2, <2>3 DEF IInv, RequestsProper, Request
  <2>5. QED
    BY <2>1, <2>3, <2>4
<1>2. Trashed' = Trashed
  BY <1>1 DEF Trashed
<1>3. CASE req[r].op # "PURGE"
  <2>1. "del.rows" \in Merely /\ req[r].pc \notin Between \union Unplaced \union {"idle"}
    BY <1>1 DEF Merely, PCs, WithRow, Between, Unplaced
  <2>2. QED
    BY <1>1, <1>2, <1>3, <2>1, PassesRight DEF PurgesRows
<1>4. CASE req[r].op = "PURGE"
  <2>1. req[r] \in Request /\ InPlace(req[r])
    BY <1>1, Holding
  <2>2. PICK q : q = [req[r] EXCEPT !.pc = "del.rows", !.wrote = w]
    OBVIOUS
  <2>3. /\ req' = [req EXCEPT ![r] = q]
        /\ q.pc = "del.rows" /\ q.op = req[r].op /\ q.todo = req[r].todo /\ q.to = req[r].to
        /\ q.path = req[r].path /\ q.wrote = w
    BY <1>1, <2>1, <2>2 DEF Request
  <2>4. InPlace(q) /\ Reads(q, nodes')
    BY <1>1, <2>1, <2>3 DEF InPlace, Reads, Side, WithRow, Unplaced
  <2>5. FromFiles' /\ OneTrashRow' = OneTrashRow /\ TrashKnown' = TrashKnown
    BY <1>1, <1>2, SameTrash DEF TrashGood
  <2>6. ASSUME ~torn'
        PROVE  OneTrashRow' /\ TrashBooks(q)'
    <3>1. OneTrashRow /\ TrashBooks(req[r]) /\ PurgesRows(req[r])
      BY <1>1, <1>4, <2>6 DEF TrashGood, PurgesRows
    <3>2. LeftOver(q)' = LeftOver(req[r])
      BY <1>2, <2>3 DEF LeftOver
    <3>3. TrashKnown \/ (req[r].wrote /\ Known(trashnodes) = Ids(LeftOver(req[r])))
      BY <1>1, <3>1 DEF TrashBooks
    <3>4. TrashKnown' \/ (q.wrote /\ Known(trashnodes)' = Ids(LeftOver(q))')
      BY <1>1, <2>3, <2>5, <3>2, <3>3
    <3>5. ~q.wrote => TrashKnown'
      BY <1>1, <2>3, <2>5, <3>1 DEF TrashBooks
    <3>6. PurgesRows(q)
      BY <1>4, <2>3 DEF PurgesRows
    <3>7. QED
      BY <2>3, <2>5, <3>1, <3>4, <3>5, <3>6 DEF TrashBooks, Between
  <2>7. QED
    BY <2>3, <2>4, <2>5, <2>6, BooksRight
<1>5. QED
  BY <1>3, <1>4

LEMMA DeleteRowsRight ==
    ASSUME IInv, Routes, TrashGood, NEW r \in Requests, DeleteRows(r)
    PROVE  TrashRight(r)
<1>1. /\ req[r].pc = "del.rows" /\ trashnodes' = trashnodes
      /\ \/ Fail(r) /\ nodes' = nodes
         \/ /\ \A n \in Victims(r) : ~Referenced(n)
            /\ nodes' = nodes \ Victims(r)
            /\ \/ /\ req[r].op = "PUT"
                  /\ \E w : req' = [req EXCEPT ![r].pc = "put.save", ![r].wrote = w]
                  /\ torn' = torn
               \/ req[r].op # "PUT" /\ Finish(r)
  BY DEF DeleteRows, At
<1>2. CASE Fail(r) /\ nodes' = nodes
  BY <1>1, <1>2, FailIsRight
<1>3. CASE /\ \A n \in Victims(r) : ~Referenced(n)
           /\ nodes' = nodes \ Victims(r)
           /\ \/ /\ req[r].op = "PUT"
                 /\ \E w : req' = [req EXCEPT ![r].pc = "put.save", ![r].wrote = w]
                 /\ torn' = torn
              \/ req[r].op # "PUT" /\ Finish(r)
  <2>1. nodes' = nodes \ Victims(r) /\ \A n \in Victims(r) : ~Referenced(n)
    BY <1>3
  <2>2. Trashed' = Trashed \ Victims(r)
    BY <2>1 DEF Trashed
  <2>3. CASE req[r].op = "PUT"
    <3>1. Trashed' = Trashed
      BY <1>1, <2>2, <2>3, VictimsSide
    <3>2. "put.save" \in Merely /\ req[r].pc \notin Between \union Unplaced \union {"idle"}
      BY <1>1 DEF Merely, PCs, WithRow, Between, Unplaced
    <3>3. QED
      BY <1>1, <1>3, <2>3, <3>1, <3>2, PassesRight DEF PurgesRows
  <2>4. CASE req[r].op # "PUT"
    <3>1. req[r].op = "PURGE" /\ LeftOver(req[r]) = Trashed \ Victims(r)
      BY <1>1, <2>4, VictimsSide
    <3>2. req'[r] = Idle /\ (~torn' => ~torn)
      BY <1>1, <1>3, <2>4 DEF Finish, IInv, RequestsProper
    <3>3. FromFiles' /\ (OneTrashRow => OneTrashRow')
      BY <1>1 DEF FromFiles, OneTrashRow, TrashGood
    <3>4. ASSUME ~torn'
          PROVE  OneTrashRow' /\ TrashKnown'
      <4>1. ~torn /\ OneTrashRow /\ TrashBooks(req[r])
        BY <3>2, <3>4 DEF TrashGood
      <4>2. TrashKnown \/ Known(trashnodes) = Ids(LeftOver(req[r]))
        BY <1>1, <3>1, <4>1 DEF TrashBooks, PurgesRows
      <4>3. CASE TrashKnown
        <5>1. \A n \in Victims(r) : n \notin Trashed
          BY <2>1, <4>3 DEF TrashKnown, Referenced, Trashed
        <5>2. Trashed' = Trashed
          BY <2>2, <5>1
        <5>3. QED
          BY <1>1, <3>3, <4>1, <4>3, <5>2, SameTrash
      <4>4. CASE Known(trashnodes) = Ids(LeftOver(req[r]))
        <5>1. Known(trashnodes') = Ids(Trashed')
          BY <1>1, <2>2, <3>1, <4>4
        <5>2. TrashKnown'
          BY <5>1 DEF TrashKnown, Known, Ids, Trashed
        <5>3. QED
          BY <3>3, <4>1, <5>2
      <4>5. QED
        BY <4>2, <4>3, <4>4
    <3>5. QED
      BY <3>2, <3>3, <3>4, IdleIsRight
  <2>5. QED
    BY <2>3, <2>4
<1>4. QED
  BY <1>1, <1>2, <1>3
-----------------------------------------------------------------------------
\* A walk stays on the side it started on.
LEMMA VisitedSide ==
    ASSUME IInv, NEW r, req[r] \in Request, InPlace(req[r]), req[r].pc \notin Unplaced,
           NEW e \in Entry, e.path.area = Side(req[r]),
           NEW look \in {"move.look", "delete.look", "undelete.look"},
           NEW done \in {"dav.lock", "undelete.rename"},
           NEW q, \/ q = Visited(r, e, look, done)
                  \/ \E w : q = [Visited(r, e, look, done) EXCEPT !.wrote = w]
    PROVE  /\ InPlace(q) /\ q.pc \in {look, done} /\ Reads(q, nodes')
           /\ q.op = req[r].op /\ q.bad = req[r].bad
           /\ q = Visited(r, e, look, done) => q.wrote = req[r].wrote
<1> DEFINE left == (req[r].todo \ {e.path}) \union (IF e.dir THEN ListDir(e.path) ELSE {})
<1>1. /\ q.pc \in {look, done} /\ q.todo = left /\ q.op = req[r].op /\ q.path = req[r].path
      /\ q.to = req[r].to /\ q.bad = req[r].bad
      /\ q = Visited(r, e, look, done) => q.wrote = req[r].wrote
  BY DEF Visited, Request
<1>2. \A p \in ListDir(e.path) : p.area = e.path.area
  <2>1. \A x \in disk : x.path \in Path
    BY DEF IInv, TypeOK, Entry
  <2>2. QED
    BY <2>1, ParentArea DEF ListDir
<1>3. req[r].pc # "idle"
  BY DEF Request, PCs
<1>4. req[r].path.area = Side(req[r]) /\ \A p \in req[r].todo : p.area = Side(req[r])
  BY <1>3 DEF InPlace
<1>5. \A p \in left : p.area = Side(req[r])
  BY <1>2, <1>4
<1>6. Side(q) = Side(req[r]) /\ (q.op = "MOVE" => \A p \in q.to : p.area = "files")
  BY <1>1, <1>3 DEF Side, InPlace
<1> HIDE DEF left
<1>7. InPlace(q)
  BY <1>1, <1>4, <1>5, <1>6 DEF InPlace, WithRow
<1>8. QED
  BY <1>1, <1>7 DEF Reads, WithRow

LEMMA WalkBeginsRight ==
    ASSUME IInv, Routes, TrashGood, NEW r \in Requests, MoveCheck(r) \/ DeleteCheck(r)
    PROVE  TrashRight(r)
<1>1. /\ req[r].pc \in {"move.check", "delete.check"}
      /\ nodes' = nodes /\ trashnodes' = trashnodes
      /\ \/ Fail(r)
         \/ \E look \in {"move.look", "delete.look"} :
              /\ req' = [req EXCEPT ![r].pc = look, ![r].todo = {req[r].path}]
              /\ UNCHANGED torn
  BY DEF MoveCheck, DeleteCheck, At, tables
<1>2. Trashed' = Trashed
  BY <1>1 DEF Trashed
<1>3. req[r] \in Request /\ InPlace(req[r])
  BY <1>1, Holding
<1>4. ASSUME NEW look \in {"move.look", "delete.look"},
             req' = [req EXCEPT ![r].pc = look, ![r].todo = {req[r].path}], UNCHANGED torn
      PROVE  TrashRight(r)
  <2>1. PICK q : q = [req[r] EXCEPT !.pc = look, !.todo = {req[r].path}]
    OBVIOUS
  <2>2. /\ req' = [req EXCEPT ![r] = q]
        /\ q.pc = look /\ q.op = req[r].op /\ q.todo = {req[r].path} /\ q.to = req[r].to
        /\ q.path = req[r].path
    BY <1>3, <1>4, <2>1 DEF Request
  <2>3. Side(q) = Side(req[r]) /\ req[r].path.area = Side(req[r])
    BY <1>1, <1>3, <2>2 DEF Side, InPlace, Unplaced
  <2>4. Ordinary(q) /\ Reads(q, nodes')
    BY <1>1, <1>3, <2>2, <2>3 DEF Ordinary, InPlace, Reads, WithRow, Between, PurgesRows
  <2>5. ~PurgesRows(req[r]) /\ req[r].pc \notin Between
    BY <1>1 DEF PurgesRows, Between
  <2>6. QED
    BY <1>1, <1>2, <1>4, <2>2, <2>4, <2>5, OnIsRight
<1>5. QED
  BY <1>1, <1>4, FailIsRight

LEMMA LookRight ==
    ASSUME IInv, Routes, TrashGood, NEW r \in Requests, MoveLook(r) \/ DeleteLook(r)
    PROVE  TrashRight(r)
<1>1. PICK look \in {"move.look", "delete.look"} : \E next \in {"move.transfer", "delete.mark"} :
        req[r].pc = look /\ Look(r, look, next)
  BY DEF MoveLook, DeleteLook, At
<1>2. PICK next \in {"move.transfer", "delete.mark"} : Look(r, look, next)
  BY <1>1
<1>3. /\ req[r] \in Request /\ InPlace(req[r]) /\ Side(req[r]) = "files"
      /\ req[r].pc \notin Unplaced /\ ~PurgesRows(req[r]) /\ req[r].pc \notin Between
      /\ req[r].path.area = Side(req[r])
  <2>1. req[r] \in Request /\ InPlace(req[r]) /\ OnRoute(req[r])
    BY <1>1, Holding
  <2>2. req[r].op \in {"MOVE", "DELETE"} /\ req[r].pc \in {"move.look", "delete.look"}
    BY <1>1, <2>1 DEF OnRoute
  <2>3. req[r].pc \notin Unplaced /\ ~PurgesRows(req[r]) /\ req[r].pc \notin Between
    BY <2>2 DEF Unplaced, PurgesRows, Between
  <2>4. Side(req[r]) = "files"
    BY <2>2 DEF Side
  <2>5. QED
    BY <2>1, <2>2, <2>3, <2>4 DEF InPlace
<1>4. nodes' = nodes /\ trashnodes' = trashnodes /\ Trashed' = Trashed
  BY <1>2 DEF Look, tables, Trashed
<1>5. CASE Fail(r)
  BY <1>4, <1>5, FailIsRight
<1>6. CASE ~Fail(r)
  <2>1. PICK p \in NextVisits(r), e \in disk :
          /\ e.path = p /\ UNCHANGED torn
          /\ \/ /\ RowExists(p)
                /\ req' = [req EXCEPT ![r].pc = next, ![r].at = {e}, ![r].node = Rows(p)]
             \/ req' = [req EXCEPT ![r] = Visited(r, e, look, "dav.lock")]
    BY <1>2, <1>6 DEF Look
  <2>2. e \in Entry /\ p.area = "files"
    BY <1>1, <1>3, <2>1 DEF NextVisits, InPlace, IInv, TypeOK
  <2>3. CASE req' = [req EXCEPT ![r] = Visited(r, e, look, "dav.lock")]
    <3>1. PICK q : q = Visited(r, e, look, "dav.lock")
      OBVIOUS
    <3>2. InPlace(q) /\ q.pc \in {look, "dav.lock"} /\ Reads(q, nodes')
      BY <1>3, <2>1, <2>2, <3>1, VisitedSide
    <3>3. Ordinary(q)
      BY <3>2 DEF Ordinary, Between, PurgesRows
    <3>4. QED
      BY <1>3, <1>4, <2>1, <2>3, <3>1, <3>2, <3>3, OnIsRight
  <2>4. CASE /\ RowExists(p)
             /\ req' = [req EXCEPT ![r].pc = next, ![r].at = {e}, ![r].node = Rows(p)]
    <3>1. PICK q : q = [req[r] EXCEPT !.pc = next, !.at = {e}, !.node = Rows(p)]
      OBVIOUS
    <3>2. /\ req' = [req EXCEPT ![r] = q]
          /\ q.pc = next /\ q.op = req[r].op /\ q.todo = req[r].todo /\ q.to = req[r].to
          /\ q.path = req[r].path /\ q.node = Rows(p)
      BY <1>3, <2>4, <3>1 DEF Request
    <3>3. \E n \in nodes' : n.path.area = "files" /\ Rows(p) = {m \in nodes' : m.path = n.path}
      BY <1>4, <2>2, <2>4 DEF RowExists, Rows
    <3>4. Side(q) = Side(req[r])
      BY <3>2 DEF Side
    <3>5. Reads(q, nodes')
      BY <3>2, <3>3 DEF Reads
    <3>6. q.at = {e} /\ \A x \in q.at : x.path.area = "files"
      BY <1>3, <2>1, <2>2, <3>1 DEF Request
    <3>7. InPlace(q)
      BY <1>1, <1>3, <3>2, <3>4, <3>6 DEF InPlace, WithRow
    <3>8. Ordinary(q)
      BY <3>2, <3>7 DEF Ordinary, Between, PurgesRows
    <3>9. QED
      BY <1>3, <1>4, <2>1, <3>2, <3>5, <3>8, OnIsRight
  <2>5. QED
    BY <2>1, <2>3, <2>4
<1>7. QED
  BY <1>5, <1>6

LEMMA MoveTransferRight ==
    ASSUME IInv, Routes, TrashGood, NEW r \in Requests, MoveTransfer(r)
    PROVE  TrashRight(r)
<1>1. req[r].pc = "move.transfer" /\ trashnodes' = trashnodes
  BY DEF MoveTransfer, At
<1>2. /\ req[r] \in Request /\ InPlace(req[r]) /\ HasRead(req[r]) /\ req[r].op = "MOVE"
      /\ req[r].pc \notin Unplaced /\ ~PurgesRows(req[r]) /\ req[r].pc \notin Between
  BY <1>1, Holding DEF OnRoute, Unplaced, PurgesRows, Between
<1>3. PICK e \in req[r].at, n \in req[r].node, to \in req[r].to :
        UpdateRow(r, e, n.path, Rebase(n.path, req[r].path, to), TRUE, "move.look")
  BY DEF MoveTransfer
<1>4. PICK dst : dst = Rebase(n.path, req[r].path, to)
  OBVIOUS
<1>5. n.path \in Path /\ e \in Entry /\ dst \in Path /\ dst.area = "files"
  <2>1. n.path \in Path /\ e \in Entry /\ to \in Path /\ req[r].path \in Path
    BY <1>2 DEF Request, Node
  <2>2. to.area = "files"
    BY <1>1, <1>2 DEF InPlace
  <2>3. QED
    BY <1>4, <2>1, <2>2, RebasedPath DEF Rebase, Path
<1>6. n.path.area = "files"
  BY <1>1, <1>2 DEF HasRead, Reads, WithRow
<1>7. e.path.area = Side(req[r]) /\ Side(req[r]) = "files"
  BY <1>1, <1>2 DEF InPlace, WithRow, Side
<1>8. CASE Fail(r) /\ nodes' = nodes
  BY <1>1, <1>8, FailIsRight
<1>9. CASE OneMoves(n.path, dst, TRUE)
  <2>1. Trashed' = Trashed
    BY <1>5, <1>6, <1>9, MovesOutside DEF Trashed, Rows
  <2>2. CASE req' = [req EXCEPT ![r] = Idle] /\ torn' = TRUE
    <3>1. req'[r] = Idle /\ FromFiles'
      BY <1>1, <2>1, <2>2, SameTrash DEF IInv, RequestsProper, TrashGood
    <3>2. QED
      BY <2>2, <3>1, IdleIsRight
  <2>3. CASE /\ req' = [req EXCEPT ![r] =
                           [Visited(r, e, "move.look", "dav.lock") EXCEPT !.wrote = TRUE]]
             /\ UNCHANGED torn
    <3>1. PICK q : q = [Visited(r, e, "move.look", "dav.lock") EXCEPT !.wrote = TRUE]
      OBVIOUS
    <3>10. \E w : q = [Visited(r, e, "move.look", "dav.lock") EXCEPT !.wrote = w]
      BY <3>1
    <3>2. InPlace(q) /\ q.pc \in {"move.look", "dav.lock"} /\ Reads(q, nodes')
      BY <1>2, <1>5, <1>7, <3>10, VisitedSide, SMTT(30)
    <3>3. Ordinary(q)
      BY <3>2 DEF Ordinary, Between, PurgesRows
    <3>4. QED
      BY <1>1, <1>2, <2>1, <2>3, <3>1, <3>2, <3>3, OnIsRight
  <2>4. QED
    BY <1>3, <1>4, <1>8, <2>2, <2>3 DEF UpdateRow
<1>10. QED
  <2>1. nextid' = nextid
    BY DEF MoveTransfer
  <2>2. (Fail(r) /\ nodes' = nodes) \/ OneMoves(n.path, dst, TRUE)
    BY <1>3, <1>4, <2>1 DEF UpdateRow, OneMoves
  <2>3. QED
    BY <1>8, <1>9, <2>2
-----------------------------------------------------------------------------
\* DELETE on its way with a row in its hands.
LEMMA Taking ==
    ASSUME IInv, Routes, TrashGood, NEW r \in Requests,
           req[r].pc \in {"delete.mark", "delete.slot", "delete.move"}
    PROVE  /\ req[r] \in Request /\ InPlace(req[r]) /\ HasRead(req[r])
           /\ req[r].op = "DELETE" /\ Side(req[r]) = "files" /\ req[r].pc \notin Unplaced
           /\ \A n \in req[r].node : /\ n \in nodes /\ n.path.area = "files"
                                     /\ req[r].node = Rows(n.path) /\ n.path.rel # <<>>
           /\ \A e \in req[r].at : e \in Entry /\ e.path.area = "files"
<1>1. /\ req[r] \in Request /\ req[r] \in Proper /\ OnRoute(req[r])
      /\ InPlace(req[r]) /\ HasRead(req[r])
  BY Holding
<1>2. req[r].op = "DELETE" /\ Side(req[r]) = "files" /\ req[r].pc \notin Unplaced
  BY <1>1 DEF OnRoute, Side, Unplaced
<1>3. \A e \in req[r].at : e \in Entry /\ e.path.area = "files"
  BY <1>1, <1>2 DEF InPlace, WithRow, Request
<1>4. \A n \in req[r].node : n \in nodes /\ n.path.area = "files" /\ req[r].node = Rows(n.path)
  BY <1>1 DEF HasRead, Reads, WithRow, Rows
<1>5. \A n \in req[r].node : n.path.rel # <<>>
  BY <1>1 DEF Proper, Inner
<1>6. QED
  BY <1>1, <1>2, <1>3, <1>4, <1>5

LEMMA DeleteMarkRight ==
    ASSUME IInv, Routes, RowsUnique, TrashGood, NEW r \in Requests, DeleteMark(r)
    PROVE  TrashRight(r)
<1>1. req[r].pc = "delete.mark" /\ nodes' = nodes
  BY DEF DeleteMark, At
<1>2. PICK n \in req[r].node :
        \/ Fail(r) /\ trashnodes' = trashnodes
        \/ /\ \A t \in trashnodes : t.path # n.path
           /\ trashnodes' = Remembered(r, n)
           /\ req' = [req EXCEPT ![r].pc = "delete.slot", ![r].wrote = TRUE]
           /\ UNCHANGED torn
  BY DEF DeleteMark
<1>3. CASE Fail(r) /\ trashnodes' = trashnodes
  BY <1>1, <1>3, FailIsRight
<1>4. CASE /\ \A t \in trashnodes : t.path # n.path
           /\ trashnodes' = Remembered(r, n)
           /\ req' = [req EXCEPT ![r].pc = "delete.slot", ![r].wrote = TRUE]
           /\ UNCHANGED torn
  <2> DEFINE new == [node |-> n.id, path |-> n.path]
  <2>1. /\ req[r] \in Request /\ InPlace(req[r]) /\ HasRead(req[r]) /\ req[r].pc \notin Unplaced
        /\ n \in nodes /\ n.path.area = "files" /\ req[r].node = Rows(n.path)
    BY <1>1, Taking
  <2>2. new.node = n.id /\ new.path = n.path /\ trashnodes' = trashnodes \union {new}
    BY <1>4 DEF Remembered
  <2> HIDE DEF new
  <2>3. PICK q : q = [req[r] EXCEPT !.pc = "delete.slot", !.wrote = TRUE]
    OBVIOUS
  <2>4. /\ req' = [req EXCEPT ![r] = q]
        /\ q.pc = "delete.slot" /\ q.op = req[r].op /\ q.todo = req[r].todo /\ q.to = req[r].to
        /\ q.path = req[r].path /\ q.node = req[r].node /\ q.at = req[r].at /\ q.wrote
    BY <1>4, <2>1, <2>3 DEF Request
  <2>5. Side(q) = Side(req[r])
    BY <2>4 DEF Side
  <2>6. InPlace(q)
    BY <1>1, <2>1, <2>4, <2>5 DEF InPlace, WithRow, Unplaced
  <2>7. Reads(q, nodes')
    BY <1>1, <2>1, <2>4 DEF HasRead, Reads, WithRow
  <2>8. FromFiles'
    BY <2>1, <2>2 DEF FromFiles, TrashGood
  <2>9. ASSUME ~torn'
        PROVE  OneTrashRow' /\ TrashBooks(q)'
    <3>1. OneTrashRow /\ TrashKnown
      BY <1>1, <1>4, <2>9, KnownHere DEF TrashGood, Between, PurgesRows
    <3>2. Rows(n.path) = {n}
      BY <2>1 DEF Rows, RowsUnique
    <3>3. n \notin Trashed
      BY <2>1 DEF Trashed
    <3>4. \A t \in trashnodes : t.node # n.id
      <4>1. \A t \in trashnodes : \E m \in Trashed : m.id = t.node
        BY <3>1 DEF TrashKnown, Trashed
      <4>2. \A m \in Trashed : m.id # n.id
        BY <2>1, <3>3 DEF Trashed, RowsUnique
      <4>3. QED
        BY <4>1, <4>2
    <3>5. OneTrashRow'
      BY <1>4, <2>2, <3>1, <3>4 DEF OneTrashRow
    <3>6. Known(trashnodes') = Ids(Trashed \union {n})
      <4>1. Known(trashnodes) = Ids(Trashed)
        BY <3>1, TrashKnownIs
      <4>2. Known(trashnodes') = Known(trashnodes) \union {n.id}
        BY <2>2 DEF Known
      <4>3. Ids(Trashed \union {n}) = Ids(Trashed) \union {n.id}
        BY DEF Ids
      <4>4. QED
        BY <4>1, <4>2, <4>3
    <3>7. Trashed' = Trashed /\ q.node = {n}
      BY <1>1, <2>1, <2>4, <3>2 DEF Trashed
    <3>8. Known(trashnodes)' = Ids(Trashed \union q.node)'
      BY <3>6, <3>7
    <3>9. ~PurgesRows(q)
      BY <2>4 DEF PurgesRows
    <3>10. QED
      BY <2>4, <3>5, <3>8, <3>9 DEF TrashBooks, Between, PurgesRows
  <2>10. QED
    BY <2>4, <2>6, <2>7, <2>8, <2>9, BooksRight
<1>5. QED
  BY <1>2, <1>3, <1>4

LEMMA DeleteSlotRight ==
    ASSUME IInv, Routes, RowsUnique, TrashGood, NEW r \in Requests, DeleteSlot(r)
    PROVE  TrashRight(r)
<1>0. CASE Fail(r)
  BY <1>0, FailIsRight DEF DeleteSlot, tables
<1> SUFFICES ASSUME ~Fail(r) PROVE TrashRight(r)
  BY <1>0
<1>1. /\ req[r].pc = "delete.slot" /\ nodes' = nodes /\ trashnodes' = trashnodes
      /\ UNCHANGED torn
  BY DEF DeleteSlot, At, tables
<1>20. PICK n \in req[r].node :
        /\ \E p \in TrashParents(n) : RowExists(p)
        /\ \E to : req' = [req EXCEPT ![r].pc = "delete.move", ![r].slot = {TrashSlot(n)},
                                      ![r].to = to]
  BY DEF DeleteSlot
<1>2. PICK to :
        req' = [req EXCEPT ![r].pc = "delete.move", ![r].slot = {TrashSlot(n)}, ![r].to = to]
  BY <1>20
<1>3. /\ req[r] \in Request /\ InPlace(req[r]) /\ HasRead(req[r]) /\ req[r].pc \notin Unplaced
      /\ req[r].op = "DELETE" /\ n \in nodes /\ n.path.rel # <<>>
  BY <1>1, Taking
<1>4. TrashSlot(n).area = "files_trash" /\ TrashSlot(n).rel # <<>>
  BY <1>3, <1>20, SlotFound DEF IInv, TypeOK
<1>5. PICK q : q = [req[r] EXCEPT !.pc = "delete.move", !.slot = {TrashSlot(n)}, !.to = to]
  OBVIOUS
<1>6. /\ req' = [req EXCEPT ![r] = q]
      /\ q.pc = "delete.move" /\ q.op = req[r].op /\ q.todo = req[r].todo
      /\ q.path = req[r].path /\ q.node = req[r].node /\ q.at = req[r].at
      /\ q.wrote = req[r].wrote /\ q.slot = {TrashSlot(n)}
  BY <1>2, <1>3, <1>5 DEF Request
<1>7. Side(q) = Side(req[r])
  BY <1>6 DEF Side
<1>8. InPlace(q)
  BY <1>1, <1>3, <1>4, <1>6, <1>7 DEF InPlace, WithRow, Unplaced
<1>9. Reads(q, nodes')
  BY <1>1, <1>3, <1>6 DEF HasRead, Reads, WithRow
<1>10. Trashed' = Trashed
  BY <1>1 DEF Trashed
<1>11. FromFiles' /\ OneTrashRow' = OneTrashRow
  BY <1>1, <1>10, SameTrash DEF TrashGood
<1>12. ASSUME ~torn'
       PROVE  OneTrashRow' /\ TrashBooks(q)'
  <2>1. OneTrashRow /\ TrashBooks(req[r])
    BY <1>1, <1>12 DEF TrashGood
  <2>2. req[r].wrote /\ Known(trashnodes) = Ids(Trashed \union req[r].node)
    BY <1>1, <2>1 DEF TrashBooks
  <2>3. Known(trashnodes)' = Ids(Trashed \union q.node)'
    BY <1>1, <1>6, <1>10, <2>2
  <2>4. ~PurgesRows(q)
    BY <1>6 DEF PurgesRows
  <2>5. QED
    BY <1>6, <1>11, <2>1, <2>2, <2>3, <2>4 DEF TrashBooks, Between
<1>13. QED
  BY <1>6, <1>8, <1>9, <1>11, <1>12, BooksRight

LEMMA DeleteMoveRight ==
    ASSUME IInv, Routes, TrashGood, NEW r \in Requests, DeleteMove(r)
    PROVE  TrashRight(r)
<1>1. req[r].pc = "delete.move" /\ trashnodes' = trashnodes /\ nextid' = nextid
  BY DEF DeleteMove, At
<1>2. PICK e \in req[r].at, n \in req[r].node, to \in req[r].slot :
        UpdateRow(r, e, n.path, to, FALSE, "delete.look")
  BY DEF DeleteMove
<1>3. /\ req[r] \in Request /\ InPlace(req[r]) /\ req[r].pc \notin Unplaced
      /\ req[r].op = "DELETE" /\ n \in nodes /\ n.path.rel # <<>> /\ n.path.area = "files"
      /\ req[r].node = Rows(n.path) /\ Side(req[r]) = "files"
      /\ e \in Entry /\ e.path.area = "files"
  BY <1>1, Taking
<1>4. /\ n.path \in Path /\ to \in Path /\ to.area = "files_trash" /\ to.rel # <<>>
  BY <1>1, <1>3 DEF Request, IInv, TypeOK, Node, InPlace
<1>5. CASE Fail(r) /\ nodes' = nodes
  BY <1>1, <1>5, FailIsRight
<1>6. CASE OneMoves(n.path, to, FALSE)
  <2>1. FromFiles' /\ OneTrashRow' = OneTrashRow
    BY <1>1 DEF FromFiles, OneTrashRow, TrashGood
  <2>2. CASE req' = [req EXCEPT ![r] = Idle] /\ torn' = TRUE
    <3>1. req'[r] = Idle
      BY <2>2 DEF IInv, RequestsProper
    <3>2. QED
      BY <2>1, <2>2, <3>1, IdleIsRight
  <2>3. CASE /\ req' = [req EXCEPT ![r] =
                           [Visited(r, e, "delete.look", "dav.lock") EXCEPT !.wrote = TRUE]]
             /\ UNCHANGED torn
    <3>1. PICK q : q = [Visited(r, e, "delete.look", "dav.lock") EXCEPT !.wrote = TRUE]
      OBVIOUS
    <3>2. \E w : q = [Visited(r, e, "delete.look", "dav.lock") EXCEPT !.wrote = w]
      BY <3>1
    <3>3. InPlace(q) /\ q.pc \in {"delete.look", "dav.lock"} /\ Reads(q, nodes')
      BY <1>3, <3>2, VisitedSide, SMTT(30)
    <3>4. ASSUME ~torn'
          PROVE  OneTrashRow' /\ TrashBooks(q)'
      <4>1. OneTrashRow /\ Known(trashnodes) = Ids(Trashed \union req[r].node)
        BY <1>1, <2>3, <3>4 DEF TrashGood, TrashBooks
      <4>2. Ids(Trashed)' = Ids(Trashed \union Rows(n.path))
        BY <1>3, <1>4, <1>6, MovesIntoTrash
      <4>3. Known(trashnodes)' = Ids(Trashed)'
        BY <1>1, <1>3, <4>1, <4>2
      <4>4. TrashKnown'
        BY <4>3 DEF TrashKnown, Known, Ids, Trashed
      <4>5. QED
        BY <2>1, <3>3, <4>1, <4>4 DEF TrashBooks, Between, PurgesRows
    <3>5. QED
      BY <2>1, <2>3, <3>1, <3>3, <3>4, BooksRight
  <2>4. QED
    BY <1>2, <1>5, <2>2, <2>3 DEF UpdateRow
<1>7. QED
  BY <1>1, <1>2, <1>5, <1>6 DEF UpdateRow, OneMoves
-----------------------------------------------------------------------------
\* UNDELETE on its way.
LEMMA Restoring ==
    ASSUME IInv, Routes, TrashGood, NEW r \in Requests,
           req[r].pc \in {"undelete.origin", "undelete.parent", "undelete.look",
                          "undelete.move", "undelete.forget", "undelete.rename"}
    PROVE  /\ req[r] \in Request /\ req[r] \in Proper /\ InPlace(req[r])
           /\ req[r].op = "UNDELETE" /\ Side(req[r]) = "files_trash"
           /\ req[r].pc \notin Unplaced /\ ~PurgesRows(req[r])
           /\ req[r].path.area = "files_trash"
           /\ \A p \in req[r].todo : p.area = "files_trash"
<1>1. req[r] \in Request /\ req[r] \in Proper /\ OnRoute(req[r]) /\ InPlace(req[r])
  BY Holding
<1>2. req[r].op = "UNDELETE" /\ req[r].pc \notin Unplaced /\ ~PurgesRows(req[r])
  BY <1>1 DEF OnRoute, Unplaced, PurgesRows
<1>3. Side(req[r]) = "files_trash"
  BY <1>2 DEF Side
<1>4. QED
  BY <1>1, <1>2, <1>3 DEF InPlace

\* The walk is over, and its rename comes.
LEMMA GivesUpRight ==
    ASSUME IInv, Routes, TrashGood, NEW r \in Requests,
           req[r].pc \in {"undelete.look", "undelete.move", "undelete.forget"},
           \E answered : GiveUpWalk(r, answered), UNCHANGED torn, FromFiles',
           ~torn' => OneTrashRow' /\ TrashKnown'
    PROVE  TrashRight(r)
<1>1. req[r] \in Request /\ InPlace(req[r]) /\ req[r].op = "UNDELETE" /\ req[r].pc \notin Unplaced
  BY Restoring
<1>10. PICK bad : req' = [req EXCEPT ![r].pc = "undelete.rename", ![r].bad = bad]
  BY DEF GiveUpWalk
<1>2. PICK q : q = [req[r] EXCEPT !.pc = "undelete.rename", !.bad = bad]
  OBVIOUS
<1>3. /\ req' = [req EXCEPT ![r] = q]
      /\ q.pc = "undelete.rename" /\ q.op = req[r].op /\ q.todo = req[r].todo
      /\ q.path = req[r].path
  BY <1>1, <1>2, <1>10 DEF Request
<1>4. Side(q) = Side(req[r])
  BY <1>3 DEF Side
<1>5. InPlace(q) /\ Reads(q, nodes')
  BY <1>1, <1>3, <1>4 DEF InPlace, Reads, WithRow
<1>6. ~torn' => TrashBooks(q)'
  BY <1>3 DEF TrashBooks, PurgesRows, Between
<1>7. QED
  BY <1>3, <1>5, <1>6, BooksRight

LEMMA OriginFromFiles ==
    ASSUME TrashGood, NEW p, NEW origin \in Origins(p)
    PROVE  /\ origin.area = "files"
           /\ \E n \in Rows(p), t \in trashnodes : t.node = n.id /\ t.path = origin
BY DEF Origins, TrashGood, FromFiles

LEMMA UndeleteBeginsRight ==
    ASSUME IInv, Routes, TrashGood, NEW r \in Requests, UndeleteOrigin(r) \/ UndeleteParent(r)
    PROVE  TrashRight(r)
<1>1. /\ req[r].pc \in {"undelete.origin", "undelete.parent"}
      /\ nodes' = nodes /\ trashnodes' = trashnodes
      /\ \/ Fail(r)
         \/ UNCHANGED torn
  BY DEF UndeleteOrigin, UndeleteParent, At, tables
<1>2. /\ req[r] \in Request /\ InPlace(req[r]) /\ req[r].op = "UNDELETE"
      /\ req[r].pc \notin Unplaced /\ ~PurgesRows(req[r]) /\ req[r].pc \notin Between
      /\ req[r].path.area = Side(req[r])
  BY <1>1, Restoring DEF Between
<1>3. Trashed' = Trashed
  BY <1>1 DEF Trashed
<1>4. CASE Fail(r)
  BY <1>1, <1>4, FailIsRight
<1>5. CASE ~Fail(r) /\ UndeleteOrigin(r)
  <2>1. PICK origin :
          req' = [req EXCEPT ![r].pc = "undelete.parent", ![r].to = {origin}]
    BY <1>5 DEF UndeleteOrigin
  <2>2. PICK q : q = [req[r] EXCEPT !.pc = "undelete.parent", !.to = {origin}]
    OBVIOUS
  <2>3. /\ req' = [req EXCEPT ![r] = q]
        /\ q.pc = "undelete.parent" /\ q.op = req[r].op /\ q.todo = req[r].todo
        /\ q.path = req[r].path
    BY <1>2, <2>1, <2>2 DEF Request
  <2>4. Side(q) = Side(req[r])
    BY <2>3 DEF Side
  <2>5. Ordinary(q) /\ Reads(q, nodes')
    BY <1>1, <1>2, <2>3, <2>4 DEF Ordinary, InPlace, Reads, WithRow, Between, PurgesRows
  <2>6. QED
    BY <1>1, <1>2, <1>3, <1>5, <2>3, <2>5, OnIsRight
<1>6. CASE UndeleteParent(r)
  <2>1. PICK skip :
          req' = [req EXCEPT ![r].pc = "undelete.look", ![r].todo = {req[r].path}, ![r].skip = skip]
    BY <1>6 DEF UndeleteParent
  <2>2. PICK q : q = [req[r] EXCEPT !.pc = "undelete.look", !.todo = {req[r].path}, !.skip = skip]
    OBVIOUS
  <2>3. /\ req' = [req EXCEPT ![r] = q]
        /\ q.pc = "undelete.look" /\ q.op = req[r].op /\ q.todo = {req[r].path}
        /\ q.path = req[r].path
    BY <1>2, <2>1, <2>2 DEF Request
  <2>4. Side(q) = Side(req[r])
    BY <2>3 DEF Side
  <2>5. Ordinary(q) /\ Reads(q, nodes')
    BY <1>1, <1>2, <2>3, <2>4 DEF Ordinary, InPlace, Reads, WithRow, Between, PurgesRows
  <2>6. UNCHANGED torn
    BY <1>6 DEF UndeleteParent
  <2>7. QED
    BY <1>1, <1>2, <1>3, <2>3, <2>5, <2>6, OnIsRight
<1>7. QED
  BY <1>4, <1>5, <1>6

LEMMA UndeleteLookRight ==
    ASSUME IInv, Routes, TrashGood, NEW r \in Requests, UndeleteLook(r)
    PROVE  TrashRight(r)
<1>1. req[r].pc = "undelete.look" /\ nodes' = nodes /\ trashnodes' = trashnodes
  BY DEF UndeleteLook, At, tables
<1>2. /\ req[r] \in Request /\ InPlace(req[r]) /\ req[r].op = "UNDELETE"
      /\ req[r].pc \notin Unplaced /\ ~PurgesRows(req[r])
      /\ req[r].path.area = "files_trash" /\ \A p \in req[r].todo : p.area = "files_trash"
  BY <1>1, Restoring
<1>3. Trashed' = Trashed
  BY <1>1 DEF Trashed
<1>4. /\ FromFiles' /\ (~torn => OneTrashRow' /\ TrashKnown')
      /\ (~torn => OneTrashRow /\ TrashKnown)
  BY <1>1, <1>2, <1>3, KnownHere, SameTrash DEF TrashGood, Between
<1>5. CASE Fail(r)
  BY <1>1, <1>5, FailIsRight
<1>6. CASE GiveUpWalk(r, FALSE) /\ UNCHANGED torn
  <2>1. \E answered : GiveUpWalk(r, answered)
    BY <1>6
  <2>2. QED
    BY <1>1, <1>4, <1>6, <2>1, GivesUpRight
<1>7. ASSUME NEW p \in NextVisits(r), NEW e, e.path = p, NEW origin \in Origins(p),
             req' = [req EXCEPT ![r].pc = "undelete.move", ![r].at = {e}, ![r].slot = {origin}],
             UNCHANGED torn
      PROVE  TrashRight(r)
  <2>1. PICK q : q = [req[r] EXCEPT !.pc = "undelete.move", !.at = {e}, !.slot = {origin}]
    OBVIOUS
  <2>2. /\ req' = [req EXCEPT ![r] = q]
        /\ q.pc = "undelete.move" /\ q.op = req[r].op /\ q.todo = req[r].todo
        /\ q.path = req[r].path /\ q.at = {e} /\ q.slot = {origin} /\ q.wrote = req[r].wrote
    BY <1>2, <1>7, <2>1 DEF Request
  <2>3. Side(q) = "files_trash"
    BY <1>2, <2>2 DEF Side
  <2>4. e.path.area = "files_trash" /\ origin.area = "files"
    BY <1>2, <1>7, OriginFromFiles DEF NextVisits
  <2>5. InPlace(q) /\ Reads(q, nodes')
    BY <1>2, <2>2, <2>3, <2>4 DEF InPlace, Reads, WithRow
  <2>6. \E n \in Rows(e.path), t \in trashnodes : t.node = n.id /\ t.path = origin
    BY <1>7, OriginFromFiles
  <2>7. \E n \in Rows(e.path)', t \in trashnodes' : t.node = n.id /\ t.path = origin
    BY <1>1, <2>6 DEF Rows
  <2>8. ~torn' => TrashBooks(q)'
    BY <1>4, <1>7, <2>2, <2>7 DEF TrashBooks, PurgesRows, Between
  <2>9. QED
    BY <1>4, <1>7, <2>2, <2>5, <2>8, BooksRight
<1>8. QED
  BY <1>5, <1>6, <1>7 DEF UndeleteLook

\* What leaves the trash does not go back there.
LEMMA RestoredOutside ==
    ASSUME IInv, NEW r \in Requests, req[r].pc # "idle", NEW p \in Path, p.area = "files"
    PROVE  Restored(r, p) \in Path /\ Restored(r, p).area # "files_trash"
<1>1. Restored(r, p) \in Path
  BY RestoredPath
<1>2. \A cut : CutFirst(p, cut).area \in {"files", "garbled"}
  BY DEF CutFirst, Path
<1>3. QED
  BY <1>1, <1>2 DEF Restored, Path

LEMMA UndeleteMoveRight ==
    ASSUME IInv, Routes, RowsUnique, TrashGood, NEW r \in Requests, UndeleteMove(r)
    PROVE  TrashRight(r)
<1>1. req[r].pc = "undelete.move" /\ trashnodes' = trashnodes /\ nextid' = nextid /\ torn' = torn
  BY DEF UndeleteMove, At
<1>2. /\ req[r] \in Request /\ req[r] \in Proper /\ InPlace(req[r]) /\ req[r].op = "UNDELETE"
      /\ req[r].pc \notin Unplaced /\ ~PurgesRows(req[r])
      /\ Side(req[r]) = "files_trash"
  BY <1>1, Restoring
<1>3. PICK e \in req[r].at, origin \in req[r].slot :
        LET to == Restored(r, origin) IN
        IF CanUpdate(e.path, to)
        THEN /\ nodes' = (nodes \ Rows(e.path))
                         \union {[n EXCEPT !.path = to] : n \in Rows(e.path)}
             /\ req' = [req EXCEPT ![r].pc = "undelete.forget", ![r].wrote = TRUE]
        ELSE GiveUpWalk(r, TRUE) /\ UNCHANGED nodes
  BY DEF UndeleteMove
<1>4. PICK to : to = Restored(r, origin)
  OBVIOUS
<1>5. /\ e.path \in Path /\ e.path.area = "files_trash" /\ e.path.rel # <<>>
      /\ origin \in Path /\ origin.area = "files"
      /\ to \in Path /\ to.area # "files_trash"
  <2>1. e.path \in Path /\ e.path.rel # <<>> /\ origin \in Path
    BY <1>2 DEF Request, Entry, Proper, Inner
  <2>2. e.path.area = "files_trash" /\ origin.area = "files"
    BY <1>1, <1>2 DEF InPlace
  <2>3. QED
    BY <1>1, <1>4, <2>1, <2>2, RestoredOutside
<1>6. FromFiles' /\ OneTrashRow' = OneTrashRow
  BY <1>1 DEF FromFiles, OneTrashRow, TrashGood
<1>7. ~torn => OneTrashRow /\ TrashKnown
  BY <1>1, <1>2, KnownHere DEF TrashGood, Between
<1>8. CASE ~CanUpdate(e.path, to)
  <2>1. nodes' = nodes /\ GiveUpWalk(r, TRUE)
    BY <1>3, <1>4, <1>8
  <2>2. \E answered : GiveUpWalk(r, answered)
    BY <2>1
  <2>3. Trashed' = Trashed
    BY <2>1 DEF Trashed
  <2>4. TrashKnown' = TrashKnown
    BY <1>1, <2>3, SameTrash
  <2>5. ~torn' => OneTrashRow' /\ TrashKnown'
    BY <1>1, <1>6, <1>7, <2>4
  <2>6. QED
    BY <1>1, <1>6, <2>2, <2>5, GivesUpRight
<1>9. CASE CanUpdate(e.path, to)
  <2>1. /\ nodes' = (nodes \ Rows(e.path))
                    \union {[n EXCEPT !.path = to] : n \in Rows(e.path)}
        /\ req' = [req EXCEPT ![r].pc = "undelete.forget", ![r].wrote = TRUE]
    BY <1>3, <1>4, <1>9
  <2>2. \A n \in Rows(e.path) : [n EXCEPT !.path = to] = Moved(n, to, FALSE)
    <3> SUFFICES ASSUME NEW n \in Node
                 PROVE  [n EXCEPT !.path = to] = Moved(n, to, FALSE)
      BY DEF Rows, IInv, TypeOK
    <3>1. QED
      BY <1>5 DEF Moved, Node
  <2>3. OneMoves(e.path, to, FALSE)
    BY <1>1, <1>9, <2>1, <2>2 DEF OneMoves
  <2>4. Trashed' = Trashed \ Rows(e.path)
    BY <1>5, <2>3, MovesOutside
  <2>5. PICK q : q = [req[r] EXCEPT !.pc = "undelete.forget", !.wrote = TRUE]
    OBVIOUS
  <2>6. /\ req' = [req EXCEPT ![r] = q]
        /\ q.pc = "undelete.forget" /\ q.op = req[r].op /\ q.todo = req[r].todo
        /\ q.path = req[r].path /\ q.at = req[r].at /\ q.slot = req[r].slot /\ q.wrote
    BY <1>2, <2>1, <2>5 DEF Request
  <2>7. Side(q) = Side(req[r])
    BY <2>6 DEF Side
  <2>8. InPlace(q) /\ Reads(q, nodes')
    BY <1>1, <1>2, <2>6, <2>7 DEF InPlace, Reads, WithRow
  <2>9. ASSUME ~torn'
        PROVE  OneTrashRow' /\ TrashBooks(q)'
    <3>1. OneTrashRow /\ TrashKnown /\ TrashBooks(req[r])
      BY <1>1, <1>7, <2>9 DEF TrashGood
    <3>2. PICK m \in Rows(e.path), t0 \in trashnodes : t0.node = m.id /\ t0.path = origin
      BY <1>1, <3>1 DEF TrashBooks
    <3>3. Rows(e.path) = {m} /\ m \in Trashed
      BY <1>5, <3>2 DEF Rows, RowsUnique, Trashed
    <3>4. Ids(Trashed)' = Ids(Trashed) \ {m.id}
      BY <2>4, <3>3 DEF Ids, Trashed, RowsUnique
    <3>5. Known({t \in trashnodes : t.path # origin}) = Known(trashnodes) \ {m.id}
      BY <3>1, <3>2 DEF Known, OneTrashRow
    <3>6. Known(trashnodes) = Ids(Trashed)
      BY <3>1, TrashKnownIs
    <3>7. Known({t \in trashnodes : t.path # origin})' = Ids(Trashed)'
      BY <1>1, <3>4, <3>5, <3>6
    <3>8. \A o \in q.slot : o = origin
      BY <1>1, <1>2, <2>6 DEF InPlace
    <3>9. QED
      BY <1>6, <2>6, <3>1, <3>7, <3>8 DEF TrashBooks, PurgesRows, Between
  <2>10. QED
    BY <1>6, <2>6, <2>8, <2>9, BooksRight
<1>10. QED
  BY <1>8, <1>9

LEMMA UndeleteForgetRight ==
    ASSUME IInv, Routes, TrashGood, NEW r \in Requests, UndeleteForget(r)
    PROVE  TrashRight(r)
<1>1. req[r].pc = "undelete.forget" /\ nodes' = nodes /\ torn' = torn
  BY DEF UndeleteForget, At
<1>2. /\ req[r] \in Request /\ InPlace(req[r]) /\ req[r].op = "UNDELETE"
      /\ req[r].pc \notin Unplaced /\ ~PurgesRows(req[r])
      /\ Side(req[r]) = "files_trash"
  BY <1>1, Restoring
<1>3. PICK e \in req[r].at, origin \in req[r].slot :
        /\ trashnodes' = {t \in trashnodes : t.path # origin}
        /\ \/ GiveUpWalk(r, FALSE)
           \/ req' = [req EXCEPT ![r] = Visited(r, e, "undelete.look", "undelete.rename")]
  BY DEF UndeleteForget
<1>4. e \in Entry /\ e.path.area = Side(req[r])
  BY <1>1, <1>2 DEF InPlace, Request
<1>5. FromFiles' /\ (OneTrashRow => OneTrashRow')
  BY <1>3 DEF FromFiles, OneTrashRow, TrashGood
<1>6. ASSUME ~torn'
      PROVE  OneTrashRow' /\ TrashKnown'
  <2>1. ~torn /\ OneTrashRow /\ TrashBooks(req[r])
    BY <1>1, <1>6 DEF TrashGood
  <2>2. Known(trashnodes') = Ids(Trashed)
    BY <1>1, <1>3, <2>1 DEF TrashBooks
  <2>3. TrashKnown'
    BY <1>1, <2>2 DEF TrashKnown, Known, Ids, Trashed
  <2>4. QED
    BY <1>5, <2>1, <2>3
<1>7. CASE GiveUpWalk(r, FALSE)
  <2>1. \E answered : GiveUpWalk(r, answered)
    BY <1>7
  <2>2. QED
    BY <1>1, <1>5, <1>6, <2>1, GivesUpRight
<1>8. CASE req' = [req EXCEPT ![r] = Visited(r, e, "undelete.look", "undelete.rename")]
  <2>1. PICK q : q = Visited(r, e, "undelete.look", "undelete.rename")
    OBVIOUS
  <2>2. /\ InPlace(q) /\ q.pc \in {"undelete.look", "undelete.rename"} /\ Reads(q, nodes')
        /\ q.op = req[r].op
    BY <1>2, <1>4, <2>1, VisitedSide
  <2>3. ~torn' => TrashBooks(q)'
    BY <1>2, <1>6, <2>2 DEF TrashBooks, PurgesRows, Between
  <2>4. QED
    BY <1>5, <1>6, <1>8, <2>1, <2>2, <2>3, BooksRight
<1>9. QED
  BY <1>3, <1>7, <1>8

LEMMA UndeleteRenameRight ==
    ASSUME IInv, Routes, TrashGood, NEW r \in Requests, UndeleteRename(r)
    PROVE  TrashRight(r)
<1>1. /\ req[r].pc = "undelete.rename" /\ nodes' = nodes /\ trashnodes' = trashnodes
      /\ (Fail(r) \/ Finish(r))
  BY DEF UndeleteRename, At, tables
<1>2. req'[r] = Idle /\ (~torn' => ~torn)
  BY <1>1 DEF Fail, Finish, IInv, RequestsProper
<1>3. Trashed' = Trashed
  BY <1>1 DEF Trashed
<1>4. FromFiles' /\ OneTrashRow' = OneTrashRow /\ TrashKnown' = TrashKnown
  BY <1>1, <1>3, SameTrash DEF TrashGood
<1>5. ASSUME ~torn'
      PROVE  OneTrashRow' /\ TrashKnown'
  <2>1. OneTrashRow /\ TrashBooks(req[r])
    BY <1>2, <1>5 DEF TrashGood
  <2>2. TrashKnown \/ (req[r].bad /\ req[r].wrote)
    BY <1>1, <2>1 DEF TrashBooks
  <2>3. ~(req[r].bad /\ req[r].wrote)
    BY <1>1, <1>5 DEF Fail, Finish
  <2>4. QED
    BY <1>4, <2>1, <2>2, <2>3
<1>6. QED
  BY <1>2, <1>4, <1>5, IdleIsRight
-----------------------------------------------------------------------------
\* New rows, in the files.
LEMMA SavingRight ==
    ASSUME IInv, Routes, TrashGood, NEW r \in Requests,
           \/ PutSave(r) \/ MkcolSave(r) \/ UploadSave(r) \/ UpdirSave(r)
    PROVE  TrashRight(r)
<1>1. /\ req[r].pc \in {"put.save", "mkcol.save", "upload.save", "updir.save"}
      /\ trashnodes' = trashnodes
  BY DEF PutSave, MkcolSave, UploadSave, UpdirSave, At
<1>2. /\ req[r] \in Request /\ InPlace(req[r]) /\ Side(req[r]) = "files"
      /\ req[r].path \in Path /\ req[r].path.area = "files"
      /\ req[r].pc \notin Between \union Unplaced \union {"idle"} /\ ~PurgesRows(req[r])
  <2>1. req[r] \in Request /\ InPlace(req[r]) /\ OnRoute(req[r])
    BY <1>1, Holding
  <2>2. req[r].op \in {"PUT", "MKCOL", "UPLOAD", "UPDIR"}
    BY <1>1, <2>1 DEF OnRoute
  <2>3. req[r].pc \notin Between \union Unplaced \union {"idle"} /\ ~PurgesRows(req[r])
    BY <1>1 DEF Between, Unplaced, PurgesRows
  <2>4. Side(req[r]) = "files"
    BY <2>2 DEF Side
  <2>5. QED
    BY <2>1, <2>3, <2>4 DEF InPlace, Request
<1>3. \/ Fail(r) /\ nodes' = nodes
      \/ /\ \E dir \in BOOLEAN : OneComes(req[r].path, dir)
         /\ \/ Finish(r)
            \/ /\ UNCHANGED torn
               /\ \E where \in {"dav.lock", "updir.create"} :
                    req' = [req EXCEPT ![r].pc = where, ![r].wrote = TRUE]
  BY DEF PutSave, MkcolSave, UploadSave, UpdirSave, SaveNode, OneComes
<1>4. CASE Fail(r) /\ nodes' = nodes
  BY <1>1, <1>4, FailIsRight
<1>5. ASSUME NEW dir \in BOOLEAN, OneComes(req[r].path, dir),
             \/ Finish(r)
             \/ /\ UNCHANGED torn
                /\ \E where \in {"dav.lock", "updir.create"} :
                     req' = [req EXCEPT ![r].pc = where, ![r].wrote = TRUE]
      PROVE  TrashRight(r)
  <2>1. Trashed' = Trashed
    BY <1>2, <1>5, ComesOutside
  <2>2. CASE Finish(r)
    BY <1>1, <1>2, <2>1, <2>2, FinishIsRight
  <2>3. ASSUME NEW where \in {"dav.lock", "updir.create"}, UNCHANGED torn,
               req' = [req EXCEPT ![r].pc = where, ![r].wrote = TRUE]
        PROVE  TrashRight(r)
    <3>1. where \in Merely /\ where \notin {"del.favorites", "del.rows"}
      BY DEF Merely, PCs, WithRow, Between, Unplaced
    <3>2. QED
      BY <1>1, <1>2, <2>1, <2>3, <3>1, PassesRight
  <2>4. QED
    BY <1>5, <2>2, <2>3
<1>6. QED
  BY <1>3, <1>4, <1>5

\* Directories made above an upload.
LEMMA Making ==
    ASSUME IInv, Routes, TrashGood, NEW r \in Requests,
           req[r].pc \in {"updir.scan", "updir.mkdir", "updir.row"}
    PROVE  /\ req[r] \in Request /\ req[r] \in Proper /\ InPlace(req[r]) /\ req[r].op = "UPDIR"
           /\ req[r].pc \notin Between \union Unplaced \union {"idle"} /\ ~PurgesRows(req[r])
           /\ req[r].path.area = "files" /\ Side(req[r]) = "files"
           /\ \A p \in req[r].todo : p.area = "files"
<1>1. req[r] \in Request /\ req[r] \in Proper /\ OnRoute(req[r]) /\ InPlace(req[r])
  BY Holding
<1>2. /\ req[r].op = "UPDIR" /\ req[r].pc \notin Between \union Unplaced \union {"idle"}
      /\ ~PurgesRows(req[r])
  BY <1>1 DEF OnRoute, Between, Unplaced, PurgesRows
<1>3. Side(req[r]) = "files"
  BY <1>2 DEF Side
<1>4. QED
  BY <1>1, <1>2, <1>3 DEF InPlace

LEMMA UpdirScanRight ==
    ASSUME IInv, Routes, TrashGood, NEW r \in Requests, UpdirScan(r)
    PROVE  TrashRight(r)
<1>1. req[r].pc = "updir.scan" /\ nodes' = nodes /\ trashnodes' = trashnodes
  BY DEF UpdirScan, At, tables
<1>2. /\ req[r] \in Request /\ InPlace(req[r]) /\ req[r].op = "UPDIR"
      /\ req[r].pc \notin Between /\ ~PurgesRows(req[r])
      /\ req[r].path.area = "files" /\ \A p \in req[r].todo : p.area = "files"
  BY <1>1, Making
<1>3. Trashed' = Trashed
  BY <1>1 DEF Trashed
<1>4. PICK p \in req[r].slot :
        \/ Fail(r)
        \/ /\ UNCHANGED torn
           /\ \E where \in {"updir.save", "updir.mkdir"} :
                req' = [req EXCEPT ![r].slot = {}, ![r].pc = where]
        \/ /\ UNCHANGED torn
           /\ req' = [req EXCEPT ![r].todo = @ \union {p}, ![r].slot = {ParentOf(p)}]
  BY DEF UpdirScan
<1>5. p \in Path /\ p.area = "files"
  BY <1>1, <1>2 DEF InPlace, Request
<1>6. CASE Fail(r)
  BY <1>1, <1>6, FailIsRight
<1>7. ASSUME NEW where \in {"updir.save", "updir.mkdir"}, UNCHANGED torn,
             req' = [req EXCEPT ![r].slot = {}, ![r].pc = where]
      PROVE  TrashRight(r)
  <2>1. PICK q : q = [req[r] EXCEPT !.slot = {}, !.pc = where]
    OBVIOUS
  <2>2. /\ req' = [req EXCEPT ![r] = q]
        /\ q.pc = where /\ q.op = req[r].op /\ q.todo = req[r].todo /\ q.path = req[r].path
    BY <1>2, <1>7, <2>1 DEF Request
  <2>3. Side(q) = "files"
    BY <1>2, <2>2 DEF Side
  <2>4. Ordinary(q) /\ Reads(q, nodes')
    BY <1>2, <2>2, <2>3 DEF Ordinary, InPlace, Reads, WithRow, Between, PurgesRows
  <2>5. QED
    BY <1>1, <1>2, <1>3, <1>7, <2>2, <2>4, OnIsRight
<1>8. CASE /\ UNCHANGED torn
           /\ req' = [req EXCEPT ![r].todo = @ \union {p}, ![r].slot = {ParentOf(p)}]
  <2>1. PICK q : q = [req[r] EXCEPT !.todo = @ \union {p}, !.slot = {ParentOf(p)}]
    OBVIOUS
  <2>2. /\ req' = [req EXCEPT ![r] = q]
        /\ q.pc = req[r].pc /\ q.op = req[r].op /\ q.todo = req[r].todo \union {p}
        /\ q.path = req[r].path /\ q.slot = {ParentOf(p)}
    BY <1>2, <1>8, <2>1 DEF Request
  <2>3. Side(q) = "files" /\ ParentOf(p).area = "files"
    BY <1>2, <1>5, <2>2, ParentArea DEF Side
  <2>4. Ordinary(q) /\ Reads(q, nodes')
    BY <1>1, <1>2, <1>5, <2>2, <2>3 DEF Ordinary, InPlace, Reads, WithRow, Between, PurgesRows
  <2>5. QED
    BY <1>1, <1>2, <1>3, <1>8, <2>2, <2>4, OnIsRight
<1>9. QED
  BY <1>4, <1>6, <1>7, <1>8

LEMMA UpdirMkdirRight ==
    ASSUME IInv, Routes, TrashGood, NEW r \in Requests, UpdirMkdir(r)
    PROVE  TrashRight(r)
<1>1. /\ req[r].pc = "updir.mkdir" /\ nodes' = nodes /\ trashnodes' = trashnodes
      /\ \/ Fail(r)
         \/ UNCHANGED torn /\ req' = [req EXCEPT ![r].pc = "updir.row", ![r].wrote = TRUE]
  BY DEF UpdirMkdir, At, tables
<1>2. Trashed' = Trashed
  BY <1>1 DEF Trashed
<1>3. "updir.row" \in Merely /\ "updir.row" \notin {"del.favorites", "del.rows"}
  BY DEF Merely, PCs, WithRow, Between, Unplaced
<1>4. req[r].pc \notin Between \union Unplaced \union {"idle"} /\ ~PurgesRows(req[r])
  BY <1>1, Making
<1>5. CASE UNCHANGED torn /\ req' = [req EXCEPT ![r].pc = "updir.row", ![r].wrote = TRUE]
  <2>1. \E w : req' = [req EXCEPT ![r].pc = "updir.row", ![r].wrote = w]
    BY <1>5
  <2>2. QED
    BY <1>1, <1>2, <1>3, <1>4, <1>5, <2>1, PassesRight
<1>6. QED
  BY <1>1, <1>5, FailIsRight

LEMMA UpdirRowRight ==
    ASSUME IInv, Routes, TrashGood, NEW r \in Requests, UpdirRow(r)
    PROVE  TrashRight(r)
<1>1. req[r].pc = "updir.row" /\ trashnodes' = trashnodes
  BY DEF UpdirRow, At
<1>2. /\ req[r] \in Request /\ req[r] \in Proper /\ InPlace(req[r]) /\ req[r].op = "UPDIR"
      /\ req[r].pc \notin Between /\ ~PurgesRows(req[r])
      /\ req[r].path.area = "files" /\ \A p \in req[r].todo : p.area = "files"
  BY <1>1, Making
<1>3. PICK p : p = UpdirNext(r)
  OBVIOUS
<1>4. p \in Path /\ p.area = "files"
  BY <1>1, <1>2, <1>3, NextToMake DEF Proper, Request
<1>5. CASE Fail(r) /\ nodes' = nodes
  BY <1>1, <1>5, FailIsRight
<1>6. ASSUME OneComes(p, TRUE), UNCHANGED torn, NEW where \in {"updir.save", "updir.mkdir"},
             req' = [req EXCEPT ![r].todo = @ \ {p}, ![r].pc = where]
      PROVE  TrashRight(r)
  <2>1. PICK q : q = [req[r] EXCEPT !.todo = @ \ {p}, !.pc = where]
    OBVIOUS
  <2>2. /\ req' = [req EXCEPT ![r] = q]
        /\ q.pc = where /\ q.op = req[r].op /\ q.todo = req[r].todo \ {p}
        /\ q.path = req[r].path
    BY <1>2, <1>6, <2>1 DEF Request
  <2>3. Side(q) = "files"
    BY <1>2, <2>2 DEF Side
  <2>4. Ordinary(q) /\ Reads(q, nodes')
    BY <1>2, <2>2, <2>3 DEF Ordinary, InPlace, Reads, WithRow, Between, PurgesRows
  <2>5. Trashed' = Trashed
    BY <1>4, <1>6, ComesOutside
  <2>6. QED
    BY <1>1, <1>2, <1>6, <2>2, <2>4, <2>5, OnIsRight
<1>7. \/ Fail(r) /\ nodes' = nodes
      \/ /\ OneComes(p, TRUE) /\ UNCHANGED torn
         /\ \E where \in {"updir.save", "updir.mkdir"} :
              req' = [req EXCEPT ![r].todo = @ \ {p}, ![r].pc = where]
  BY <1>3 DEF UpdirRow, OneComes
<1>8. QED
  BY <1>5, <1>6, <1>7
-----------------------------------------------------------------------------
\* A statement that fails leaves the books as they are.
LEMMA FaultIsRight ==
    ASSUME IInv, Routes, TrashGood, NEW r \in Requests, Fault(r)
    PROVE  TrashRight(r)
<1>1. FaultOf(r) /\ nodes' = nodes /\ trashnodes' = trashnodes /\ req[r].pc # "idle"
  BY DEF Fault, tables
<1>2. Trashed' = Trashed
  BY <1>1 DEF Trashed
<1>3. FromFiles' /\ OneTrashRow' = OneTrashRow /\ TrashKnown' = TrashKnown
  BY <1>1, <1>2, SameTrash DEF TrashGood
<1>4. req[r] \in Request /\ InPlace(req[r])
  BY <1>1, Holding
<1>5. CASE Fail(r)
  BY <1>1, <1>5, FailIsRight
<1>6. ASSUME req[r].pc \in {"del.trash", "del.favorites"}, UNCHANGED torn,
             GoTo(r, IF req[r].pc = "del.trash" THEN "del.favorites" ELSE "del.rows")
      PROVE  TrashRight(r)
  <2>1. PICK where \in {"del.favorites", "del.rows"} :
          /\ req' = [req EXCEPT ![r].pc = where]
          /\ req[r].pc = IF where = "del.rows" THEN "del.favorites" ELSE "del.trash"
    BY <1>6 DEF GoTo
  <2>2. PICK q : q = [req[r] EXCEPT !.pc = where]
    OBVIOUS
  <2>3. /\ req' = [req EXCEPT ![r] = q]
        /\ q.pc = where /\ q.op = req[r].op /\ q.todo = req[r].todo /\ q.to = req[r].to
        /\ q.path = req[r].path /\ q.wrote = req[r].wrote
    BY <1>4, <2>1, <2>2 DEF Request
  <2>4. Side(q) = Side(req[r])
    BY <2>3 DEF Side
  <2>5. InPlace(q) /\ Reads(q, nodes')
    BY <1>1, <1>4, <1>6, <2>3, <2>4 DEF InPlace, Reads, WithRow, Unplaced
  <2>6. ASSUME ~torn'
        PROVE  OneTrashRow' /\ TrashBooks(q)'
    <3>1. OneTrashRow /\ TrashBooks(req[r])
      BY <1>6, <2>6 DEF TrashGood
    <3>2. LeftOver(q)' = LeftOver(req[r])
      BY <1>2, <2>3 DEF LeftOver
    <3>3. PurgesRows(req[r]) \/ TrashKnown
      BY <1>6, <3>1 DEF TrashBooks, Between
    <3>4. TrashKnown \/ (PurgesRows(req[r]) /\ req[r].wrote /\ Known(trashnodes) = Ids(LeftOver(req[r])))
      BY <1>6, <3>1, <3>3 DEF TrashBooks
    <3>5. TrashKnown' \/ (q.op = "PURGE" /\ q.wrote /\ Known(trashnodes)' = Ids(LeftOver(q))')
      BY <1>1, <1>3, <2>3, <3>2, <3>4 DEF PurgesRows
    <3>6. PurgesRows(q) <=> q.op = "PURGE"
      BY <2>3 DEF PurgesRows
    <3>7. QED
      BY <1>3, <2>3, <3>1, <3>5, <3>6 DEF TrashBooks, Between
  <2>7. QED
    BY <1>3, <2>3, <2>5, <2>6, BooksRight
<1>7. ASSUME req[r].pc \in {"undelete.look", "undelete.move", "undelete.forget"}, UNCHANGED torn,
             req' = [req EXCEPT ![r].pc = "undelete.rename", ![r].bad = TRUE]
      PROVE  TrashRight(r)
  <2>1. PICK q : q = [req[r] EXCEPT !.pc = "undelete.rename", !.bad = TRUE]
    OBVIOUS
  <2>2. /\ req' = [req EXCEPT ![r] = q]
        /\ q.pc = "undelete.rename" /\ q.op = req[r].op /\ q.todo = req[r].todo
        /\ q.path = req[r].path /\ q.wrote = req[r].wrote /\ q.bad
    BY <1>4, <1>7, <2>1 DEF Request
  <2>3. Side(q) = Side(req[r]) /\ req[r].op = "UNDELETE" /\ req[r].pc \notin Unplaced
    BY <1>7, <2>2, Restoring DEF Side
  <2>4. InPlace(q) /\ Reads(q, nodes')
    BY <1>1, <1>4, <2>2, <2>3 DEF InPlace, Reads, WithRow
  <2>5. ASSUME ~torn'
        PROVE  OneTrashRow' /\ TrashBooks(q)'
    <3>1. OneTrashRow /\ TrashBooks(req[r])
      BY <1>7, <2>5 DEF TrashGood
    <3>2. TrashKnown \/ req[r].wrote
      BY <1>7, <3>1 DEF TrashBooks
    <3>3. ~q.wrote => TrashKnown'
      BY <1>3, <2>2, <3>2
    <3>4. TrashKnown' \/ (q.bad /\ q.wrote)
      BY <2>2, <3>3
    <3>5. QED
      BY <1>3, <2>2, <3>1, <3>3, <3>4 DEF TrashBooks, PurgesRows, Between
  <2>6. QED
    BY <1>3, <2>2, <2>4, <2>5, BooksRight
<1>8. QED
  BY <1>1, <1>5, <1>6, <1>7 DEF FaultOf

LEMMA CrashIsRight ==
    ASSUME IInv, TrashGood, NEW r \in Requests, \A q \in Requests : q = r, Crash
    PROVE  TrashRight(r)
<1>1. /\ nodes' = nodes /\ trashnodes' = trashnodes /\ req'[r] = Idle
      /\ (~torn' => ~torn /\ (At(r, "idle") \/ ~req[r].wrote))
  BY DEF Crash, tables
<1>2. Trashed' = Trashed
  BY <1>1 DEF Trashed
<1>3. FromFiles' /\ OneTrashRow' = OneTrashRow /\ TrashKnown' = TrashKnown
  BY <1>1, <1>2, SameTrash DEF TrashGood
<1>4. ~torn' => OneTrashRow' /\ TrashKnown'
  BY <1>1, <1>3, KnownHere DEF TrashGood, At
<1>5. QED
  BY <1>1, <1>3, <1>4, IdleIsRight

LEMMA StartIsRight ==
    ASSUME IInv, TrashGood, "SHARE" \notin Ops, NEW r \in Requests, Start(r)
    PROVE  TrashRight(r)
<1>1. /\ req[r].pc = "idle" /\ nodes' = nodes /\ trashnodes' = trashnodes /\ torn' = torn
      /\ req'[r] \in Request /\ req'[r].op \in AllOps \ {"SHARE"}
      /\ req'[r].pc = FirstStep(req'[r].op)
      /\ req'[r].path.area = "files_trash" /\ req'[r].todo = {} /\ req'[r].to = {}
      /\ req'[r].slot = {}
  <2>1. \A u, rel : TrashPath(u, rel).area = "files_trash"
    BY DEF TrashPath
  <2>2. /\ At(r, "idle") /\ UNCHANGED <<tables, disk, torn>>
        /\ req'[r] \in Request /\ req'[r].op \in Ops
        /\ req'[r].pc = FirstStep(req'[r].op)
        /\ req'[r].path = TrashPath(req'[r].user, req'[r].rel)
        /\ req'[r].to = {} /\ req'[r].todo = {} /\ req'[r].slot = {}
    BY Starts
  <2>3. req'[r].op \in AllOps \ {"SHARE"}
    BY <2>2, StorageAssumption
  <2>4. QED
    BY <2>1, <2>2, <2>3 DEF At, tables
<1>2. PICK q : q = req'[r]
  OBVIOUS
<1>3. req' = [req EXCEPT ![r] = q]
  BY <1>2 DEF Start, IInv, RequestsProper
<1>4. \/ q.pc \in Unplaced /\ q.op \notin {"UNDELETE", "PURGE"}
      \/ q.pc \in {"undelete.stat", "purge.remove"} /\ q.op \in {"UNDELETE", "PURGE"}
  BY <1>1, <1>2 DEF FirstStep, AllOps, Unplaced
<1>5. Ordinary(q) /\ Reads(q, nodes')
  BY <1>1, <1>2, <1>4 DEF Ordinary, InPlace, Side, Reads, WithRow, Between, PurgesRows, Unplaced
<1>6. Trashed' = Trashed
  BY <1>1 DEF Trashed
<1>7. QED
  BY <1>1, <1>3, <1>5, <1>6, OnIsRight DEF Between, PurgesRows
-----------------------------------------------------------------------------
\* Every step of the only request.
LEMMA StepIsRight ==
    ASSUME IInv, Routes, Named, RowsUnique, TrashGood, shares = {}, "SHARE" \notin Ops,
           NEW r \in Requests, Step(r)
    PROVE  TrashRight(r)
<1>1. CASE Put(r)
  BY <1>1, ResolvesRight, SavingRight DEF Put
<1>2. CASE DeleteNode(r)
  BY <1>2, PassingRight, DeleteTrashRefsRight, DeleteFavoritesRight, DeleteRowsRight
     DEF DeleteNode
<1>3. CASE Mkcol(r)
  BY <1>3, ResolvesRight, PassingRight, SavingRight DEF Mkcol
<1>4. CASE Move(r)
  BY <1>4, MoveResolveRight, WalkBeginsRight, LookRight, MoveTransferRight DEF Move
<1>5. CASE Delete(r)
  BY <1>5, ResolvesRight, PassingRight, WalkBeginsRight, LookRight, DeleteMarkRight,
     DeleteSlotRight, DeleteMoveRight DEF Delete
<1>6. CASE Webdav(r)
  BY <1>6, PassingRight, EndingRight DEF Webdav
<1>7. CASE Undelete(r)
  BY <1>7, PassingRight, UndeleteBeginsRight, UndeleteLookRight, UndeleteMoveRight,
     UndeleteForgetRight, UndeleteRenameRight DEF Undelete
<1>8. CASE PurgeRemove(r)
  BY <1>8, PassingRight
<1>9. CASE Sharing(r)
  <2>1. CASE ShareLookup(r) \/ ShareInsert(r) \/ ShareRead(r)
    <3>1. req[r].pc \in {"share.lookup", "share.insert", "share.read"}
      BY <2>1 DEF ShareLookup, ShareInsert, ShareRead, At
    <3>2. req[r].op = "SHARE" /\ req[r].op \in Ops
      BY <3>1 DEF Routes, OnRoute, Named
    <3>3. QED
      BY <3>2
  <2>2. QED
    BY <1>9, <2>1, EndingRight DEF Sharing
<1>10. CASE Favoriting(r)
  BY <1>10, ResolvesRight, PassingRight, EndingRight DEF Favoriting
<1>11. CASE Upload(r)
  BY <1>11, ResolvesRight, PassingRight, SavingRight, EndingRight, UpdirResolveRight,
     UpdirScanRight, UpdirMkdirRight, UpdirRowRight DEF Upload
<1>12. QED
  BY <1>1, <1>2, <1>3, <1>4, <1>5, <1>6, <1>7, <1>8, <1>9, <1>10, <1>11 DEF Step, DavStep

\* Nobody shares.
LEMMA NoShares ==
    ASSUME Routes, Named, shares = {}, "SHARE" \notin Ops, [Next]_vars
    PROVE  shares' = {}
<1>1. ASSUME NEW r \in Requests, DavStep(r)
      PROVE  shares' = {}
  <2>1. CASE Put(r) \/ Mkcol(r)
    BY <2>1 DEF Put, PutResolve, PutSave, Mkcol, MkcolResolve, MkcolCheck, MkcolSave, tables
  <2>2. CASE DeleteNode(r)
    BY <2>2 DEF DeleteNode, DeleteShares, DeleteTrashRefs, DeleteFavorites, DeleteRows
  <2>3. CASE Move(r)
    BY <2>3 DEF Move, MoveResolve, MoveCheck, MoveLook, Look, MoveTransfer, tables
  <2>4. CASE Delete(r)
    BY <2>4 DEF Delete, DeleteResolve, DeleteShare, DeleteCheck, DeleteLook, Look, DeleteMark,
       DeleteSlot, DeleteMove, tables
  <2>5. CASE Webdav(r)
    BY <2>5 DEF Webdav, DavLock, DavTarget, DavPut, DavMkcol, DavMove, Serves, tables
  <2>6. QED
    BY <1>1, <2>1, <2>2, <2>3, <2>4, <2>5 DEF DavStep
<1>2. ASSUME NEW r \in Requests, Undelete(r) \/ PurgeRemove(r) \/ Favoriting(r)
      PROVE  shares' = {}
  <2>1. CASE Undelete(r)
    BY <2>1 DEF Undelete, UndeleteStat, UndeleteOrigin, UndeleteParent, UndeleteLook,
       UndeleteMove, UndeleteForget, UndeleteRename, tables
  <2>2. QED
    BY <1>2, <2>1 DEF PurgeRemove, Favoriting, FavoriteResolve, FavoriteUnmark, FavoriteMark, tables
<1>3. ASSUME NEW r \in Requests, Upload(r)
      PROVE  shares' = {}
  BY <1>3 DEF Upload, UploadResolve, UploadCreate, UploadSave, UpdirResolve, UpdirScan,
     UpdirMkdir, UpdirRow, UpdirSave, UpdirCreate, tables
<1>4. ASSUME NEW r \in Requests, Sharing(r)
      PROVE  shares' = {}
  <2>1. ~ShareInsert(r)
    BY DEF ShareInsert, At, Routes, OnRoute, Named
  <2>2. QED
    BY <1>4, <2>1 DEF Sharing, ShareLookup, ShareRead, UnshareDelete, tables
<1>5. ASSUME NEW r \in Requests, Start(r) \/ Fault(r)
      PROVE  shares' = {}
  BY <1>5 DEF Start, Fault, tables
<1>6. QED
  BY <1>1, <1>2, <1>3, <1>4, <1>5 DEF Next, Crash, Rest, Step, vars, tables

\* One request at a time and nobody who shares.
AloneAtFirst ==
    /\ OneAtATime
    /\ InitShares = {} /\ "SHARE" \notin Ops
    /\ \A n \in InitNodes : n.path.area = "files_trash" => n.path.rel = <<>>

TrashInv == TrashGood /\ TrashRestorable /\ shares = {}

LEMMA TrashKeeps ==
    ASSUME AloneAtFirst, IInv, Routes, Named, RowsUnique, TrashInv, [Next]_vars
    PROVE  TrashInv'
<1>1. shares' = {}
  BY NoShares DEF AloneAtFirst, TrashInv
<1>2. ASSUME NEW r \in Requests, TrashRight(r)
      PROVE  TrashInv'
  <2>1. \A q \in Requests : q = r
    BY DEF AloneAtFirst, OneAtATime
  <2>2. TrashGood'
    <3>1. \A q \in Requests : (InPlace(req[q]) /\ HasRead(req[q]))'
      BY <1>2, <2>1 DEF TrashRight
    <3>2. ~torn' => \A q \in Requests : TrashBooks(req[q])'
      BY <1>2, <2>1 DEF TrashRight
    <3>3. QED
      BY <1>2, <3>1, <3>2 DEF TrashRight, TrashGood
  <2>3. TrashRestorable'
    <3>1. (TrashBooks(req[r]) /\ req[r].pc = "idle" => TrashKnown)'
      BY DEF TrashBooks
    <3>2. QED
      BY <1>2, <3>1 DEF TrashRight, TrashRestorable, Quiet, At
  <2>4. QED
    BY <1>1, <2>2, <2>3 DEF TrashInv
<1>3. CASE UNCHANGED vars
  <2>1. UNCHANGED <<nodes, trashnodes, req, torn>>
    BY <1>3 DEF vars
  <2>4. Trashed' = Trashed /\ TrashKnown' = TrashKnown
    BY <2>1 DEF Trashed, TrashKnown
  <2>5. ASSUME NEW q
        PROVE  (TrashBooks(q) => TrashBooks(q)') /\ (HasRead(q) => HasRead(q)') /\ (InPlace(q) => InPlace(q)')
    <3>1. PurgesRows(q)' = PurgesRows(q) /\ LeftOver(q)' = LeftOver(q)
      BY <2>4 DEF PurgesRows, LeftOver
    <3>2. \A p : Rows(p)' = Rows(p)
      BY <2>1 DEF Rows
    <3>3. TrashBooks(q) => TrashBooks(q)'
      BY <2>1, <2>4, <3>1, <3>2 DEF TrashBooks
    <3>4. QED
      BY <2>1, <3>3 DEF HasRead, Reads, InPlace, Side
  <2>6. ASSUME NEW r \in Requests
        PROVE  (TrashBooks(req[r]) => TrashBooks(req[r])') /\ (HasRead(req[r]) /\ InPlace(req[r]) => (HasRead(req[r]) /\ InPlace(req[r]))')
    <3>1. PICK q : q = req[r] /\ q = req'[r]
      BY <2>1
    <3>2. (TrashBooks(req[r])' <=> TrashBooks(q)') /\ (HasRead(req[r])' <=> HasRead(q)')
          /\ (InPlace(req[r])' <=> InPlace(q)')
      BY <3>1
    <3>3. QED
      BY <2>5, <3>1, <3>2
  <2>7. TrashGood'
    BY <2>1, <2>6 DEF TrashInv, TrashGood, FromFiles, OneTrashRow
  <2>2. TrashGood' /\ TrashRestorable'
    BY <2>1, <2>4, <2>7 DEF TrashInv, TrashRestorable, Quiet, At
  <2>3. QED
    BY <1>1, <2>2 DEF TrashInv
<1>4. CASE Crash
  <2>1. PICK r \in Requests : TRUE
    BY <1>4 DEF Crash
  <2>2. \A q \in Requests : q = r
    BY DEF AloneAtFirst, OneAtATime
  <2>3. QED
    BY <1>2, <1>4, <2>2, CrashIsRight DEF TrashInv
<1>5. ASSUME NEW r \in Requests, Start(r) \/ Step(r) \/ Fault(r)
      PROVE  TrashInv'
  BY <1>2, <1>5, StartIsRight, StepIsRight, FaultIsRight DEF AloneAtFirst, TrashInv
<1>6. QED
  BY <1>3, <1>4, <1>5 DEF Next, Rest

\* One request at a time, none at the root of a home, nobody who shares and trashes
\* empty at first: between requests, unless one failed half way, what is in the trash has a trash row and
\* nothing else has one, however DELETE, restore and purge follow one another.
THEOREM TrashRestorableAlone == RootsUnnamed /\ AloneAtFirst => (Spec => []TrashRestorable)
<1> SUFFICES ASSUME RootsUnnamed, AloneAtFirst
             PROVE  Spec => []TrashRestorable
  OBVIOUS
<1>1. Init => TrashInv
  <2> SUFFICES ASSUME Init
               PROVE  TrashInv
    OBVIOUS
  <2>1. trashnodes = {} /\ Trashed = {} /\ shares = {} /\ \A r \in Requests : req[r] = Idle
    BY DEF Init, Trashed, AloneAtFirst
  <2>2. TrashKnown /\ OneTrashRow /\ FromFiles
    BY <2>1 DEF TrashKnown, Trashed, OneTrashRow, FromFiles
  <2>3. \A r \in Requests : InPlace(req[r]) /\ HasRead(req[r]) /\ TrashBooks(req[r])
    BY <2>1, <2>2 DEF Idle, InPlace, HasRead, Reads, WithRow, TrashBooks
  <2>4. QED
    BY <2>1, <2>2, <2>3 DEF TrashInv, TrashGood, TrashRestorable
<1>2. Init => IInv /\ Routes /\ Named /\ RowsUnique /\ TrashInv
  BY <1>1, InitIInv, InitRoutes, InitUnique DEF Init, Idle, Named
<1>3. IInv /\ Routes /\ Named /\ RowsUnique /\ TrashInv /\ [Next]_vars
        => (IInv /\ Routes /\ Named /\ RowsUnique /\ TrashInv)'
  BY NextKeeps, RoutesKeep, NamedKeeps, UniqueKeeps, TrashKeeps
<1>4. TrashInv => TrashRestorable
  BY DEF TrashInv
<1>5. QED
  BY <1>2, <1>3, <1>4, PTL DEF Spec
====================================================================================
