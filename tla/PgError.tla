-------------------------------- MODULE PgError --------------------------------
(***************************************************************************)
(* The error packet the proxy writes to the client after a censored query  *)
(* or a decryption error: NewPgError in                                    *)
(* decryptor/postgresql/pg_decryptor.go, as an operator on byte sequences  *)
(* (bytes are their values 0..255), and the constant ReadyForQuery packet  *)
(* that follows it.  They are checked against a decoder written from the   *)
(* PostgreSQL ErrorResponse format: Byte1('E'), Int32 length counting      *)
(* itself, then fields, each a code byte and a NUL-terminated string, and  *)
(* a final NUL.                                                            *)
(***************************************************************************)
EXTENDS Integers, Sequences

CONSTANT Messages   \* the messages sendClientError is called with

\* Byte values of the ASCII letters and digits used below.
E == 69
S == 83
R == 82
O == 79
C == 67
M == 77
Z == 90
I == 73
D0 == 48
D2 == 50
D4 == 52

\* binary.BigEndian.PutUint32: the four bytes of n, most significant first.
\* The uint32 conversion before it wraps only for a packet of 4 GiB, far
\* beyond any message sendClientError is given, so n < 2^31 here.
PutUint32(n) ==
    <<(n \div 2^24) % 256, (n \div 2^16) % 256, (n \div 2^8) % 256, n % 256>>

\* Mutant: the length field counts the message type byte as well.
NewPgErrorCountsType(message) ==
    LET body == <<S, E, R, R, O, R, 0>> \o <<C, D4, D2, D0, D0, D0>> \o <<0>>
                \o (<<M>> \o message) \o <<0, 0>>
        output == <<E, 0, 0, 0, 0>> \o body
    IN  <<E>> \o PutUint32(Len(output)) \o body

\* NewPgError: 'E', room for the length, the severity field "SERROR\0", the
\* SQLSTATE field "C42000" and its NUL, 'M' with the message, two NULs (the
\* message's terminator and the packet's), then the length of everything
\* after the type byte written into bytes 1..4.
NewPgError(message) ==
    LET body == <<S, E, R, R, O, R, 0>> \o <<C, D4, D2, D0, D0, D0>> \o <<0>>
                \o (<<M>> \o message) \o <<0, 0>>
        output == <<E, 0, 0, 0, 0>> \o body
    IN  <<E>> \o PutUint32(Len(output) - 1) \o body

\* The package variable ReadyForQuery: 'Z', length 5, status 'I'.
ReadyForQuery == <<Z, 0, 0, 0, 5, I>>

-----------------------------------------------------------------------------
(* The decoder: what a PostgreSQL client reads from the bytes.             *)

Uint32(b) == ((b[1] * 256 + b[2]) * 256 + b[3]) * 256 + b[4]

\* The prefix of s before its first NUL, or s when it has none.
RECURSIVE CString(_)
CString(s) ==
    IF s = <<>> \/ Head(s) = 0 THEN <<>> ELSE <<Head(s)>> \o CString(Tail(s))

\* The fields of an ErrorResponse body: a set holding the sequence of
\* [code, value] records, or the empty set when a value has no terminating
\* NUL or the body does not end with exactly one terminating NUL.
RECURSIVE Fields(_)
Fields(b) ==
    IF b = <<>> THEN {}
    ELSE IF Head(b) = 0 THEN (IF Len(b) = 1 THEN {<<>>} ELSE {})
    ELSE LET v == CString(Tail(b))
         IN  IF Len(v) + 1 = Len(b) THEN {}
             ELSE {<<[code |-> Head(b), value |-> v]>> \o f :
                     f \in Fields(SubSeq(b, Len(v) + 3, Len(b)))}

\* A message a client reads: its type, its length field, its total size.
Framed(p) == Len(p) >= 5 /\ Uint32(SubSeq(p, 2, 5)) = Len(p) - 1

-----------------------------------------------------------------------------

\* Every error packet the proxy builds is one PostgreSQL ErrorResponse whose
\* length field covers exactly its bytes and whose fields are S=ERROR,
\* C=42000 and M=the message, and the ReadyForQuery written after it is a
\* framed message of its own with status 'I' (spec, "Synthesized error
\* packet"); this is what lets the client read the censor's answer and
\* resynchronise on the next message.
ErrorPacketAsSpecified ==
    /\ \A msg \in Messages :
         LET p == NewPgError(msg)
         IN  /\ Head(p) = E /\ Framed(p)
             /\ Fields(SubSeq(p, 6, Len(p)))
                  = {<< [code |-> S, value |-> <<E, R, R, O, R>>],
                       [code |-> C, value |-> <<D4, D2, D0, D0, D0>>],
                       [code |-> M, value |-> msg] >>}
    /\ Head(ReadyForQuery) = Z /\ Framed(ReadyForQuery)
    /\ ReadyForQuery[6] = I

=============================================================================
