-------------------------------- MODULE Gowncloud --------------------------------
(***************************************************************************)
(* The file store as its clients use it: the WebDAV operations, the trash  *)
(* bin, shares, favorites and uploads over one database and one disk, with *)
(* any number of requests in progress, failing statements and crashes.     *)
(***************************************************************************)
EXTENDS Dav, Trashbin, Sharing, Upload

Step(r) == \/ DavStep(r) \/ Undelete(r) \/ PurgeRemove(r)
           \/ Sharing(r) \/ Favoriting(r) \/ Upload(r)

Next == Crash \/ Rest \/ \E r \in Requests : Start(r) \/ Step(r) \/ Fault(r)

Fairness == \A r \in Requests : WF_vars(Step(r))

Spec == Init /\ [][Next]_vars /\ Fairness
-----------------------------------------------------------------------------
\* Every request is answered, whatever the others do.
Answered == \A r \in Requests : []<>At(r, "idle")

\* The owner of a row goes along with its path, also between two homes: PUT,
\* MKCOL and uploads take it from the path, MOVE transfers it, DELETE goes to
\* the owner's trash.  Only a restore can part them: it knows where a node was
\* trashed, not whose it has become in between.
OwnerGoesAlong ==
    [][OwnerIsPathHead /\ ~OwnerIsPathHead' => \E r \in Requests : UndeleteMove(r)]_vars
-----------------------------------------------------------------------------
\* undeletetrash.go: "Failed to restore node structure" is to end the request
\* when the walk fails.  The walk's error is dropped and the rename goes on,
\* over whatever has taken the place since.
FailedWalkStops ==
    [][\A r \in Requests : UndeleteRename(r) /\ disk' # disk => ~req[r].bad]_vars
=============================================================================
