--------------------------- MODULE MCFileTransfer ---------------------------
(***************************************************************************)
(* Instance of FileTransfer for TLC.                                       *)
(***************************************************************************)
EXTENDS FileTransfer, TLC

CONSTANTS o1, o2

\* The path holds two blocks or an empty file; a client uploads another block, and
\* its body arrives as declared, altered or cut short.
Before == <<1, 1>>
Empty == <<>>
After == {<<2>>}
Arriving == {<<2>>, <<1>>, <<>>}

Symmetry == Permutations({o1, o2})
=============================================================================
