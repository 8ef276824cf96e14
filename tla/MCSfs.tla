-------------------------------- MODULE MCSfs --------------------------------
EXTENDS Sfs

CONSTANTS f, g, h1, h2

\* The end of the first block and on into the indirect ones, a whole block, and past the largest file.
MCWrites == {<<0, 1>>, <<1, 4>>, <<4, 2>>, <<5, 2>>}

Symmetry == Permutations({f, g}) \union Permutations({h1, h2})
=============================================================================
