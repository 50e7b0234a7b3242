-------------------------------- MODULE MCEditorWindow --------------------------------
\* The editor window on a few files, which nothing but their names tells apart.
EXTENDS EditorWindow, TLC

SameFiles == Permutations(Files)
=============================================================================
