------------------------------ MODULE MCDestroyKey ------------------------------
(* Instantiation of DestroyKey for TLC.                                    *)
EXTENDS DestroyKey

MCIndexes == -1..3
=============================================================================
