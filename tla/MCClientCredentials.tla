------------------------ MODULE MCClientCredentials ------------------------
\* Small instances of ClientCredentials for TLC.
EXTENDS ClientCredentials, TLC

ThreadSymmetry == Permutations(Threads)
=============================================================================
