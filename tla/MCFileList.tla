----------------------------- MODULE MCFileList -----------------------------
EXTENDS FileList, TLC
CONSTANTS root, sub, bad
SomeDirs == {root, sub, bad}
Few == root :> {[id |-> 1, name |-> 1], [id |-> 2, name |-> 2]} @@ sub :> {[id |-> 3, name |-> 1]} @@ bad :> {}
=============================================================================
