----------------------------------- MODULE Upload -----------------------------------
(***************************************************************************)
(* The upload form (apps/files/ajax/upload.go): one file (Upload), or a    *)
(* file with the directories above it (uploadDirectory).  Both write disk  *)
(* and tables themselves, without the locks of the webdav library, and     *)
(* neither removes what it made when it fails.  A form of several files is *)
(* modelled file by file.                                                  *)
(***************************************************************************)
EXTENDS Storage

UploadResolve(r) ==
    LET dirs == AjaxResolve(req[r].user, Front(req[r].rel)) IN
    /\ At(r, "upload.resolve")
    /\ \/ dirs = {} /\ Fail(r)
       \/ \E d \in dirs :
            /\ req' = [req EXCEPT ![r].pc = "upload.create",
                                  ![r].path = Child(d, Last(req[r].rel))]
            /\ UNCHANGED torn
    /\ UNCHANGED <<tables, disk, counters>>

\* os.Create makes the file or empties the one that is there.
CanCreate(p) == IsDir(ParentOf(p)) /\ ~IsDir(p)
Created(p) == disk \union {[path |-> p, dir |-> FALSE]}

UploadCreate(r) ==
    /\ At(r, "upload.create")
    /\ IF CanCreate(req[r].path)
       THEN /\ disk' = Created(req[r].path)
            /\ req' = [req EXCEPT ![r].pc = "upload.save", ![r].wrote = TRUE]
            /\ UNCHANGED torn
       ELSE Fail(r) /\ UNCHANGED disk
    /\ UNCHANGED <<tables, counters>>

\* SaveNode, and what the handler does when the path has a row already: a
\* second upload of a file replaces its content and is answered 500.
UploadSave(r) ==
    /\ At(r, "upload.save")
    /\ IF RowExists(req[r].path)
       THEN Fail(r) /\ UNCHANGED <<nodes, nextid>>
       ELSE /\ nodes' = Inserted(req[r].path, FALSE)
            /\ nextid' = nextid + 1
            /\ Finish(r)
    /\ UNCHANGED <<trashnodes, shares, favorites, disk, counters>>
-----------------------------------------------------------------------------
\* The directory of the file, which is the form's dir and what the client
\* adds to it.  In one's home it is always found; below another dir some
\* directory above it must have a row, or it is looked for in a share.

Ancestors(rel) == {SubSeq(rel, 1, i) : i \in 1 .. Len(rel)}
SomeAncestor(u, rel) == \E anc \in Ancestors(rel) : RowExists(FilesPath(u, anc))

UpdirPlaces(u, rel, inHome) ==
    IF inHome \/ SomeAncestor(u, rel) THEN {FilesPath(u, rel)}
    ELSE {NextTo(n, rel) : n \in AjaxRoots(u, rel)}

UpdirResolve(r) ==
    LET full == Front(req[r].rel) IN
    /\ At(r, "updir.resolve")
    /\ \E inHome \in BOOLEAN :
         LET places == UpdirPlaces(req[r].user, full, inHome) IN
         /\ Len(full) = 1 => inHome
         /\ \/ places = {} /\ Fail(r)
            \/ \E p \in places :
                 /\ req' = [req EXCEPT ![r].pc = "updir.scan", ![r].slot = {p},
                                       ![r].path = Child(p, Last(req[r].rel))]
                 /\ UNCHANGED torn
    /\ UNCHANGED <<tables, disk, counters>>

\* From the directory upwards to the first one that has a row.  A garbled
\* path has none: the search runs out of names and panics.
UpdirScan(r) ==
    /\ At(r, "updir.scan")
    /\ \E p \in req[r].slot :
         IF RowExists(p)
         THEN /\ req' = [req EXCEPT ![r].slot = {},
                           ![r].pc = IF req[r].todo = {} THEN "updir.save" ELSE "updir.mkdir"]
              /\ UNCHANGED torn
         ELSE IF p.rel = <<>>
         THEN Fail(r)
         ELSE /\ req' = [req EXCEPT ![r].todo = @ \union {p}, ![r].slot = {ParentOf(p)}]
              /\ UNCHANGED torn
    /\ UNCHANGED <<tables, disk, counters>>

\* Mutant: the directories are made deepest first, as they were found.
UpdirNextDeepest(r) ==
    CHOOSE p \in req[r].todo : \A q \in req[r].todo : Len(q.rel) <= Len(p.rel)

UpdirNext(r) == CHOOSE p \in req[r].todo : \A q \in req[r].todo : Len(p.rel) <= Len(q.rel)

UpdirMkdir(r) ==
    LET p == UpdirNext(r) IN
    /\ At(r, "updir.mkdir")
    /\ IF IsDir(ParentOf(p)) /\ ~OnDisk(p)
       THEN /\ disk' = disk \union {[path |-> p, dir |-> TRUE]}
            /\ req' = [req EXCEPT ![r].pc = "updir.row", ![r].wrote = TRUE]
            /\ UNCHANGED torn
       ELSE Fail(r) /\ UNCHANGED disk
    /\ UNCHANGED <<tables, counters>>

UpdirRow(r) ==
    LET p == UpdirNext(r) IN
    /\ At(r, "updir.row")
    /\ IF RowExists(p)
       THEN Fail(r) /\ UNCHANGED <<nodes, nextid>>
       ELSE /\ nodes' = Inserted(p, TRUE)
            /\ nextid' = nextid + 1
            /\ req' = [req EXCEPT ![r].todo = @ \ {p},
                         ![r].pc = IF req[r].todo = {p} THEN "updir.save" ELSE "updir.mkdir"]
            /\ UNCHANGED torn
    /\ UNCHANGED <<trashnodes, shares, favorites, disk, counters>>

\* Here the row comes before the file.
UpdirSave(r) ==
    /\ At(r, "updir.save")
    /\ IF RowExists(req[r].path)
       THEN Fail(r) /\ UNCHANGED <<nodes, nextid>>
       ELSE /\ nodes' = Inserted(req[r].path, FALSE)
            /\ nextid' = nextid + 1
            /\ req' = [req EXCEPT ![r].pc = "updir.create", ![r].wrote = TRUE]
            /\ UNCHANGED torn
    /\ UNCHANGED <<trashnodes, shares, favorites, disk, counters>>

UpdirCreate(r) ==
    /\ At(r, "updir.create")
    /\ IF CanCreate(req[r].path)
       THEN disk' = Created(req[r].path) /\ Finish(r)
       ELSE Fail(r) /\ UNCHANGED disk
    /\ UNCHANGED <<tables, counters>>
-----------------------------------------------------------------------------
Upload(r) == \/ UploadResolve(r) \/ UploadCreate(r) \/ UploadSave(r)
             \/ UpdirResolve(r) \/ UpdirScan(r) \/ UpdirMkdir(r) \/ UpdirRow(r)
             \/ UpdirSave(r) \/ UpdirCreate(r)
-----------------------------------------------------------------------------
\* The directories missing above an upload are found from the bottom up by
\* their rows, and made from the top down on the disk.  The parent of the next
\* one is there, as os.Mkdir requires, unless whoever creates it has only got
\* as far as its row, or failed there.
BeingMade(p) == \E q \in Requests : ~At(q, "idle") /\ req[q].path = p

MadeTopDown ==
    ~torn => \A r \in Requests : At(r, "updir.mkdir") =>
        LET parent == ParentOf(UpdirNext(r)) IN OnDisk(parent) \/ BeingMade(parent)
=============================================================================
