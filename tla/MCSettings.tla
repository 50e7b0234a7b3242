--------------------------------- MODULE MCSettings ---------------------------------
(***************************************************************************)
(* The default directory and another one, each with and without a slash.   *)
(***************************************************************************)
EXTENDS Settings

Slashes == [d \in Dirs |->
    CASE d = "gowncloud-data" -> "gowncloud-data/" [] d = "data" -> "data/" [] OTHER -> d]
=============================================================================
