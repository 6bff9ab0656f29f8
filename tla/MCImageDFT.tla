------------------------------ MODULE MCImageDFT ------------------------------
EXTENDS ImageDFT, TLC

\* Levels chosen so that neither extreme is in the first or the last row and
\* two rows tie.
LevelOfRow == [r \in Row |-> <<3, 1, 5, 3, 2>>[r + 1]]

\* Cores are interchangeable until they take their ids.
CoreSymmetry == Permutations(Procs)
=============================================================================
