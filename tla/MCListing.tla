-------------------------------- MODULE MCListing --------------------------------
(***************************************************************************)
(* The same small homes, and what their owners see of them.                *)
(***************************************************************************)
EXTENDS MCGowncloud, Listing

\* And one path of three names: webdav looks for its second in the shares too.
DeepRels == FewRels \union {<<a, b, b>>}

\* Everyone is in org itself, or in an organization below it.
ListsGroup == [x \in Users |-> {org}]
=============================================================================
