------------------------------ MODULE MCBackup ------------------------------
EXTENDS Backup, TLC

CONSTANTS k1, v1, h1, h2, w1, w2, r1, i1, i2

MCKeys == {k1}
MCVals == {v1}
MCVersions == {1}
MCHashes == {h1, h2}
MCReaders == {r1}
MCInodes == {i1, i2}

OneWriter == {w1}
TwoWriters == {w1, w2}

MCSymmetry == Permutations(MCHashes) \cup Permutations(MCInodes)
=============================================================================
