----------------------------- MODULE MCSecKeyShm -----------------------------
\* Model-checking instance of SecKeyShm.
EXTENDS SecKeyShm, TLC

Symmetry == Permutations(Writers)

\* Readers write nothing that a writer sees, and the property of writers that
\* overlap says nothing of readers: there TLC leaves them out.
NoReaderInRaces == overlap => \A r \in Readers : At(r, "construct")
==============================================================================
