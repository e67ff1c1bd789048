------------------------------ MODULE PgStartup ------------------------------
(***************************************************************************)
(* The startup exchange of decryptor/postgresql/pg_decryptor.go: the       *)
(* server reader (ProxyDatabaseConnection) in stateFirstPacket, the        *)
(* SSLRequest answer, stopProxyClientConnection (stop flag, deadline "now", *)
(* unbuffered ClientStopResponse channel, ClientStopTimeout), the TLS      *)
(* wrapping of both connections and the re-spawn of the client reader      *)
(* goroutine (ProxyClientConnection).  The PostgreSQL client and server    *)
(* are the environment; the session continues in PgProxy once startup is  *)
(* answered.                                                               *)
(***************************************************************************)
EXTENDS Naturals, Sequences

CONSTANTS
    ClientSSLChoices,   \* subset of BOOLEAN: does the client send SSLRequest
    DbSSLAnswers,       \* subset of {"S", "N", "E"}: the database's answer byte
    TLSConfigured,      \* setting.TLSConnectionWrapper() # nil
    TLSVerdicts,        \* subset of BOOLEAN: TRUE = a TLS handshake succeeds
    TimeoutCanFire      \* may the ClientStopTimeout timer win the select

ASSUME /\ ClientSSLChoices \subseteq BOOLEAN /\ ClientSSLChoices # {}
       /\ DbSSLAnswers \subseteq {"S", "N", "E"} /\ DbSSLAnswers # {}
       /\ TLSConfigured \in BOOLEAN /\ TimeoutCanFire \in BOOLEAN
       /\ TLSVerdicts \subseteq BOOLEAN /\ TRUE \in TLSVerdicts

\* ProxyClientConnection runs at most twice: at accept and after the answer.
MaxReaders == 2

VARIABLES
    srPc,          \* where the server reader goroutine is
    srBranch,      \* the answer byte being handled: "S" or "N"
    stopClient,    \* PgProxy.stopClient
    deadlineNow,   \* the client connection's deadline is in the past
    readers,       \* client reader goroutines, in spawn order
    clientConn,    \* PgProxy.clientConnection: "plain" or "tls"
    dbConn,        \* PgProxy.dbConnection
    session,       \* "open" or "failed" (an error reached errCh)
    c2p, p2d, d2p, p2c,   \* the four socket directions
    cPc            \* the PostgreSQL client

vars == <<srPc, srBranch, stopClient, deadlineNow, readers, clientConn, dbConn,
          session, c2p, p2d, d2p, p2c, cPc>>

Layer == {"plain", "tls"}
ClientMsg == [msg : {"SSLRequest", "Startup"}, layer : Layer]
Reader == [st : {"read", "forward", "ack", "exited"}, conn : Layer,
           msg : ClientMsg \cup {<<>>}]

TypeOK ==
    /\ srPc \in {"first", "stop", "wait", "resetDeadline", "spawnN", "sendN",
                 "sendS", "wrapClient", "wrapDb", "spawnS", "serve", "exited"}
    /\ srBranch \in {"-", "S", "N"}
    /\ stopClient \in BOOLEAN /\ deadlineNow \in BOOLEAN
    /\ readers \in Seq(Reader) /\ Len(readers) <= MaxReaders
    /\ clientConn \in Layer /\ dbConn \in Layer
    /\ session \in {"open", "failed"}
    /\ c2p \in Seq(ClientMsg) /\ p2d \in Seq(ClientMsg)
    /\ d2p \in Seq({"S", "N", "E", "R"}) /\ p2c \in Seq({"S", "N", "E", "R"})
    /\ cPc \in {"start", "waitSSL", "handshake", "tlsReady", "waitAuth", "done",
                "closed"}

NewReader(conn) == [st |-> "read", conn |-> conn, msg |-> <<>>]

Init ==
    /\ srPc = "first" /\ srBranch = "-"
    /\ stopClient = FALSE /\ deadlineNow = FALSE
    /\ readers = << NewReader("plain") >>
    /\ clientConn = "plain" /\ dbConn = "plain"
    /\ session = "open"
    /\ c2p = <<>> /\ p2d = <<>> /\ d2p = <<>> /\ p2c = <<>>
    /\ cPc = "start"

-----------------------------------------------------------------------------
(* The PostgreSQL client and server (environment).                         *)

ClientStart ==
    /\ session = "open" /\ cPc = "start"
    /\ \E ssl \in ClientSSLChoices :
         IF ssl THEN c2p' = Append(c2p, [msg |-> "SSLRequest", layer |-> "plain"])
                     /\ cPc' = "waitSSL"
                ELSE c2p' = Append(c2p, [msg |-> "Startup", layer |-> "plain"])
                     /\ cPc' = "waitAuth"
    /\ UNCHANGED <<srPc, srBranch, stopClient, deadlineNow, readers, clientConn,
                   dbConn, session, p2d, d2p, p2c>>

\* 'S': start the TLS handshake; 'N': send a plain startup message; an
\* error byte: give up and close.
ClientAnswer ==
    /\ session = "open" /\ cPc = "waitSSL" /\ p2c # <<>>
    /\ CASE Head(p2c) = "S" -> cPc' = "handshake" /\ UNCHANGED c2p
         [] Head(p2c) = "N" ->
              /\ c2p' = Append(c2p, [msg |-> "Startup", layer |-> "plain"])
              /\ cPc' = "waitAuth"
         [] OTHER -> cPc' = "closed" /\ UNCHANGED c2p
    /\ p2c' = Tail(p2c)
    /\ UNCHANGED <<srPc, srBranch, stopClient, deadlineNow, readers, clientConn,
                   dbConn, session, p2d, d2p>>

ClientTLSStartup ==
    /\ session = "open" /\ cPc = "tlsReady"
    /\ c2p' = Append(c2p, [msg |-> "Startup", layer |-> "tls"])
    /\ cPc' = "waitAuth"
    /\ UNCHANGED <<srPc, srBranch, stopClient, deadlineNow, readers, clientConn,
                   dbConn, session, p2d, d2p, p2c>>

ClientAuth ==
    /\ session = "open" /\ cPc = "waitAuth" /\ p2c # <<>> /\ Head(p2c) = "R"
    /\ p2c' = Tail(p2c)
    /\ cPc' = "done"
    /\ UNCHANGED <<srPc, srBranch, stopClient, deadlineNow, readers, clientConn,
                   dbConn, session, c2p, p2d, d2p>>

\* The client may close its socket at any point of the startup.
ClientClose ==
    /\ session = "open" /\ cPc \notin {"done", "closed"}
    /\ cPc' = "closed"
    /\ UNCHANGED <<srPc, srBranch, stopClient, deadlineNow, readers, clientConn,
                   dbConn, session, c2p, p2d, d2p, p2c>>

\* The database answers an SSLRequest with one byte and a startup message
\* with an authentication request.
DbReceive ==
    /\ session = "open" /\ p2d # <<>>
    /\ IF Head(p2d).msg = "SSLRequest"
       THEN \E b \in DbSSLAnswers : d2p' = Append(d2p, b)
       ELSE d2p' = Append(d2p, "R")
    /\ p2d' = Tail(p2d)
    /\ UNCHANGED <<srPc, srBranch, stopClient, deadlineNow, readers, clientConn,
                   dbConn, session, c2p, p2c, cPc>>

-----------------------------------------------------------------------------
(* Client reader goroutines: ProxyClientConnection.                        *)

\* ReadClientPacket returns a packet: no deadline has passed and the client
\* has written one.
ReaderRead(i) ==
    /\ session = "open" /\ readers[i].st = "read" /\ ~deadlineNow /\ c2p # <<>>
    /\ readers' = [readers EXCEPT ![i].st = "forward", ![i].msg = Head(c2p)]
    /\ c2p' = Tail(c2p)
    /\ UNCHANGED <<srPc, srBranch, stopClient, deadlineNow, clientConn, dbConn,
                   session, p2d, d2p, p2c, cPc>>

\* handleClientPacket passes startup packets through; sendPacket; loop.
ReaderForward(i) ==
    /\ readers[i].st = "forward"
    /\ IF session = "open"
       THEN p2d' = Append(p2d, readers[i].msg)
            /\ readers' = [readers EXCEPT ![i].st = "read", ![i].msg = <<>>]
       ELSE readers' = [readers EXCEPT ![i].st = "exited"] /\ UNCHANGED p2d
    /\ UNCHANGED <<srPc, srBranch, stopClient, deadlineNow, clientConn, dbConn,
                   session, c2p, d2p, p2c, cPc>>

ClientGone == cPc = "closed" /\ c2p = <<>>

\* ReadClientPacket fails (deadline passed or connection closed).  With
\* stopClient set the reader clears it and acknowledges on the channel;
\* otherwise the error goes to errCh and the reader returns.
ReaderReadFails(i) ==
    /\ readers[i].st = "read" /\ (deadlineNow \/ session = "failed" \/ ClientGone)
    /\ IF stopClient
       THEN /\ stopClient' = FALSE
            /\ readers' = [readers EXCEPT ![i].st = "ack"]
            /\ UNCHANGED session
       ELSE /\ readers' = [readers EXCEPT ![i].st = "exited"]
            /\ session' = "failed"
            /\ UNCHANGED stopClient
    /\ UNCHANGED <<srPc, srBranch, deadlineNow, clientConn, dbConn, c2p, p2d,
                   d2p, p2c, cPc>>

ClientReaderStep ==
    \E i \in DOMAIN readers : ReaderRead(i) \/ ReaderForward(i) \/ ReaderReadFails(i)

-----------------------------------------------------------------------------
(* Server reader: ProxyDatabaseConnection, stateFirstPacket.               *)

\* An error reaches errCh and the server reader returns.
SrFails == session' = "failed" /\ srPc' = "exited"

SrGoto(pc) == srPc' = pc /\ UNCHANGED session

\* Mutant: an 'S' is answered without stopping the client reader.
SrFirstPacketNoStop ==
    /\ session = "open" /\ srPc = "first" /\ d2p # <<>>
    /\ LET b == Head(d2p) IN
         CASE b = "N" -> SrGoto("stop") /\ srBranch' = "N" /\ UNCHANGED p2c
           [] b = "S" /\ ~TLSConfigured -> SrFails /\ UNCHANGED <<srBranch, p2c>>
           [] b = "S" -> SrGoto("sendS") /\ srBranch' = "S" /\ UNCHANGED p2c
           [] OTHER -> SrGoto("serve") /\ p2c' = Append(p2c, b)
                       /\ UNCHANGED srBranch
    /\ d2p' = Tail(d2p)
    /\ UNCHANGED <<stopClient, deadlineNow, readers, clientConn, dbConn, c2p,
                   p2d, cPc>>

\* readMessageType reads only the first byte, then branches on it.
SrFirstPacket ==
    /\ session = "open" /\ srPc = "first" /\ d2p # <<>>
    /\ LET b == Head(d2p) IN
         CASE b = "N" -> SrGoto("stop") /\ srBranch' = "N" /\ UNCHANGED p2c
           [] b = "S" /\ ~TLSConfigured -> SrFails /\ UNCHANGED <<srBranch, p2c>>
           [] b = "S" -> SrGoto("stop") /\ srBranch' = "S" /\ UNCHANGED p2c
           [] OTHER -> SrGoto("serve") /\ p2c' = Append(p2c, b)
                       /\ UNCHANGED srBranch
    /\ d2p' = Tail(d2p)
    /\ UNCHANGED <<stopClient, deadlineNow, readers, clientConn, dbConn, c2p,
                   p2d, cPc>>

\* stopProxyClientConnection: set the flag, then the deadline to now.
SrStopClient ==
    /\ session = "open" /\ srPc = "stop"
    /\ stopClient' = TRUE
    /\ deadlineNow' = TRUE
    /\ SrGoto("wait")
    /\ UNCHANGED <<srBranch, readers, clientConn, dbConn, c2p, p2d, d2p, p2c, cPc>>

\* Mutant: the reader acknowledges and goes on reading instead of returning.
SrReceiveAckReaderContinues ==
    /\ session = "open" /\ srPc = "wait"
    /\ \E i \in DOMAIN readers :
         /\ readers[i].st = "ack"
         /\ readers' = [readers EXCEPT ![i].st = "read"]
    /\ SrGoto("resetDeadline")
    /\ UNCHANGED <<srBranch, stopClient, deadlineNow, clientConn, dbConn, c2p,
                   p2d, d2p, p2c, cPc>>

\* The select receives the reader's acknowledgement: ClientStopResponse is
\* unbuffered, so sender and receiver meet; the reader then returns.
SrReceiveAck ==
    /\ session = "open" /\ srPc = "wait"
    /\ \E i \in DOMAIN readers :
         /\ readers[i].st = "ack"
         /\ readers' = [readers EXCEPT ![i].st = "exited"]
    /\ SrGoto("resetDeadline")
    /\ UNCHANGED <<srBranch, stopClient, deadlineNow, clientConn, dbConn, c2p,
                   p2d, d2p, p2c, cPc>>

\* The ClientStopTimeout timer wins the select: the error is returned,
\* stopClient stays set and the deadline stays in the past.
SrStopTimeout ==
    /\ session = "open" /\ srPc = "wait" /\ TimeoutCanFire
    /\ SrFails
    /\ UNCHANGED <<srBranch, stopClient, deadlineNow, readers, clientConn, dbConn,
                   c2p, p2d, d2p, p2c, cPc>>

SrResetDeadline ==
    /\ session = "open" /\ srPc = "resetDeadline"
    /\ deadlineNow' = FALSE
    /\ SrGoto(IF srBranch = "N" THEN "spawnN" ELSE "sendS")
    /\ UNCHANGED <<srBranch, stopClient, readers, clientConn, dbConn, c2p, p2d,
                   d2p, p2c, cPc>>

\* Deny: the client reader is restarted before the 'N' is forwarded.
SrSpawnAfterDeny ==
    /\ session = "open" /\ srPc = "spawnN"
    /\ readers' = Append(readers, NewReader(clientConn))
    /\ SrGoto("sendN")
    /\ UNCHANGED <<srBranch, stopClient, deadlineNow, clientConn, dbConn, c2p,
                   p2d, d2p, p2c, cPc>>

\* Mutant: ProxyClientConnection is started again after the 'N' is sent.
SrSendDenySpawnsAgain ==
    /\ session = "open" /\ srPc = "sendN"
    /\ p2c' = Append(p2c, "N")
    /\ readers' = Append(readers, NewReader(clientConn))
    /\ SrGoto("serve")
    /\ UNCHANGED <<srBranch, stopClient, deadlineNow, clientConn, dbConn,
                   c2p, p2d, d2p, cPc>>

SrSendDeny ==
    /\ session = "open" /\ srPc = "sendN"
    /\ p2c' = Append(p2c, "N")
    /\ SrGoto("serve")
    /\ UNCHANGED <<srBranch, stopClient, deadlineNow, readers, clientConn, dbConn,
                   c2p, p2d, d2p, cPc>>

\* Mutant: the buffered writer is never flushed, the 'S' never leaves.
SrSendAllowUnflushed ==
    /\ session = "open" /\ srPc = "sendS"
    /\ SrGoto("wrapClient")
    /\ UNCHANGED <<srBranch, stopClient, deadlineNow, readers, clientConn, dbConn,
                   c2p, p2d, d2p, p2c, cPc>>

\* handleSSLRequest: the 'S' is forwarded only after the reader stopped.
SrSendAllow ==
    /\ session = "open" /\ srPc = "sendS"
    /\ p2c' = Append(p2c, "S")
    /\ SrGoto("wrapClient")
    /\ UNCHANGED <<srBranch, stopClient, deadlineNow, readers, clientConn, dbConn,
                   c2p, p2d, d2p, cPc>>

\* WrapClientConnection: the TLS handshake with the client.
SrWrapClient ==
    /\ session = "open" /\ srPc = "wrapClient" /\ cPc \in {"handshake", "closed"}
    /\ \E ok \in TLSVerdicts :
         IF ok /\ cPc = "handshake" THEN SrGoto("wrapDb") /\ cPc' = "tlsReady"
                                   ELSE SrFails /\ UNCHANGED cPc
    /\ UNCHANGED <<srBranch, stopClient, deadlineNow, readers, clientConn, dbConn,
                   c2p, p2d, d2p, p2c>>

\* WrapDBConnection: the TLS handshake with the database.
SrWrapDb ==
    /\ session = "open" /\ srPc = "wrapDb"
    /\ \E ok \in TLSVerdicts :
         IF ok THEN SrGoto("spawnS") ELSE SrFails
    /\ UNCHANGED <<srBranch, stopClient, deadlineNow, readers, clientConn, dbConn,
                   c2p, p2d, d2p, p2c, cPc>>

\* The wrapped connections replace the session's, then the client reader
\* is restarted on them.
SrSpawnAfterTLS ==
    /\ session = "open" /\ srPc = "spawnS"
    /\ clientConn' = "tls" /\ dbConn' = "tls"
    /\ readers' = Append(readers, NewReader(clientConn'))
    /\ SrGoto("serve")
    /\ UNCHANGED <<srBranch, stopClient, deadlineNow, c2p, p2d, d2p, p2c, cPc>>

\* stateServe: the authentication request is forwarded (PgProxy goes on).
SrServe ==
    /\ session = "open" /\ srPc = "serve" /\ d2p # <<>>
    /\ p2c' = Append(p2c, Head(d2p))
    /\ d2p' = Tail(d2p)
    /\ UNCHANGED <<srPc, srBranch, stopClient, deadlineNow, readers, clientConn,
                   dbConn, session, c2p, p2d, cPc>>

ServerReaderStep ==
    \/ SrFirstPacket \/ SrStopClient \/ SrReceiveAck \/ SrStopTimeout
    \/ SrResetDeadline \/ SrSpawnAfterDeny \/ SrSendDeny \/ SrSendAllow
    \/ SrWrapClient \/ SrWrapDb \/ SrSpawnAfterTLS \/ SrServe

\* Startup is over: the client is authenticating (PgProxy takes over), or
\* the session failed.
StartupOver == (cPc = "done" \/ session = "failed") /\ UNCHANGED vars

Next ==
    \/ ClientStart \/ ClientAnswer \/ ClientTLSStartup \/ ClientAuth \/ ClientClose
    \/ DbReceive
    \/ ClientReaderStep \/ ServerReaderStep \/ StartupOver

\* The goroutines run when they can; the database and the client answer.
Spec == Init /\ [][Next]_vars
        /\ WF_vars(ServerReaderStep /\ ~SrStopTimeout)
        /\ \A i \in 1..MaxReaders :
              WF_vars(i \in DOMAIN readers /\ (ReaderRead(i) \/ ReaderForward(i)
                                              \/ ReaderReadFails(i)))
        /\ WF_vars(ClientStart \/ ClientAnswer \/ ClientTLSStartup \/ ClientAuth)
        /\ WF_vars(DbReceive)

-----------------------------------------------------------------------------
(* Properties.                                                             *)

Live(r) == r.st \in {"read", "forward"}

\* While the server reader forwards 'S' and runs the client TLS handshake,
\* no client reader goroutine can read the client socket: the stop
\* rendezvous hands the socket over before the handshake touches it.
HandshakeOwnsClientSocket ==
    srPc \in {"sendS", "wrapClient"} =>
        \A i \in DOMAIN readers : ~Live(readers[i])

\* At most one client reader goroutine is alive at any time, across the
\* deny and the TLS restarts of ProxyClientConnection.
OneClientReader ==
    \A i, j \in DOMAIN readers : Live(readers[i]) /\ Live(readers[j]) => i = j

\* When a session fails, every client reader goroutine eventually returns:
\* none is left blocked on ClientStopResponse.
ReadersReleasedOnFailure ==
    session = "failed" ~> \A i \in DOMAIN readers : readers[i].st = "exited"

\* Startup always ends: the client gets to authentication or the session
\* fails; the stop rendezvous never deadlocks.
StartupTerminates == <>(cPc = "done" \/ session = "failed")

=============================================================================
