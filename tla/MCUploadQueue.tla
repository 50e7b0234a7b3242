---------------------------- MODULE MCUploadQueue ----------------------------
EXTENDS UploadQueue
CONSTANTS home, sub, a, b
Some == [d \in {home, sub} |-> IF d = home THEN {a} ELSE {}]
OneOrTwo == {<<a>>, <<b, a>>}
=============================================================================
