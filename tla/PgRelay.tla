-------------------------------- MODULE PgRelay --------------------------------
(***************************************************************************)
(* What the proxy promises a PostgreSQL client and server once the session *)
(* is established (spec section 5: "forwarded byte streams in each         *)
(* direction preserve packet boundaries and order"): it is a pair of FIFO  *)
(* channels.  req holds what the client wrote and the server has not yet   *)
(* read; resp holds what the server (or the proxy on its behalf) answered  *)
(* and the client has not yet read.  The one liberty the proxy takes is    *)
(* Cut: when a response cannot be decrypted it replaces the rest of that   *)
(* unit's response by an ErrorResponse and a ReadyForQuery (spec section   *)
(* 4.2, "EncodingError").  A packet is [type, src, status]: its message    *)
(* type, the unit it answers, and a ReadyForQuery's status.                *)
(***************************************************************************)
EXTENDS Sequences, SequencesExt

VARIABLES req, resp

ErrorResponse(r) == [type |-> "Err", src |-> r, status |-> "-"]
ReadyForQueryIdle(r) == [type |-> "Z", src |-> r, status |-> "I"]

Init == req = <<>> /\ resp = <<>>

\* The client writes packets after those it wrote before.
Send == IsPrefix(req, req') /\ req' # req /\ UNCHANGED resp

\* The server reads the oldest request and appends its answers, if any.
Serve == req # <<>> /\ req' = Tail(req) /\ IsPrefix(resp, resp')

\* The client reads the oldest answer.
Read == resp # <<>> /\ resp' = Tail(resp) /\ UNCHANGED req

\* The proxy cuts the response after the first k answers, at an answer to
\* unit r: the rest of r's answers are replaced by ErrorResponse and
\* ReadyForQuery, and the answers to later units follow unchanged.
Cut(r, k) ==
    /\ k < Len(resp) /\ resp[k + 1].src = r
    /\ resp' = SubSeq(resp, 1, k) \o << ErrorResponse(r), ReadyForQueryIdle(r) >>
               \o SelectSeq(SubSeq(resp, k + 1, Len(resp)), LAMBDA m : m.src # r)
    /\ UNCHANGED req

Next == Send \/ Serve \/ Read
        \/ \E k \in 0..Len(resp) - 1 : Cut(resp[k + 1].src, k)

Spec == Init /\ [][Next]_<<req, resp>>

=============================================================================
