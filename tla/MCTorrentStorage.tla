-------------------------- MODULE MCTorrentStorage --------------------------
(* Two files and two pieces: piece 1 has bytes in both files, so it is a    *)
(* boundary piece when one of them is skipped; piece 2 is all in file 2.    *)
EXTENDS TorrentStorage

MCLayout == [p \in Pieces |-> IF p = 1 THEN {1, 2} ELSE {2}]
MCSelections == {{1}, {1, 2}}
MCUserFiles == {{}, {2}}

=============================================================================
