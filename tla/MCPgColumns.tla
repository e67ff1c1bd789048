------------------------------ MODULE MCPgColumns ------------------------------
(* Instantiation of PgColumns, and of the packet operators of PgError, for *)
(* TLC: the error packet is checked in every state of the column loops.    *)
EXTENDS PgColumns, PgError, SequencesExt

\* Messages of up to 3 bytes over two non-NUL byte values, one of them the
\* field code 'M'.
MCMessages == BoundedSeq({65, M}, 3)
=============================================================================
