------------------------------- MODULE PgProxy -------------------------------
(***************************************************************************)
(* The PostgreSQL proxy of decryptor/postgresql/pg_decryptor.go after the  *)
(* startup exchange: the goroutine ProxyClientConnection (the client       *)
(* reader, "cr") and the goroutine ProxyDatabaseConnection in its states   *)
(* stateServe and stateSkipResponse (the server reader, "sr"), the shared  *)
(* PgProtocolState (pending query queue, prepared statement and cursor     *)
(* registries) and the session's two sockets.  The PostgreSQL client and   *)
(* the PostgreSQL server are the environment.                              *)
(*                                                                         *)
(* A request is a "unit" the client writes at once: a simple Query, or an  *)
(* extended-protocol block ending in Sync.  Every packet carries the rid   *)
(* of its unit; a query text is identified by the rid of the Query or      *)
(* Parse packet that carried it.  Packet bytes, SQL text, column values    *)
(* and the collaborators (Censor, QueryObserver, ColumnCryptor) are        *)
(* abstracted to the verdicts the code branches on.                        *)
(***************************************************************************)
EXTENDS Naturals, Sequences, SequencesExt

CONSTANTS
    Stmts,          \* statement names the client uses
    Portals,        \* portal names the client uses
    Unnamed,        \* the unnamed statement / portal "" (always replaceable)
    MaxUnits,       \* bound on the number of units the client sends
    MaxInFlight,    \* how many units the client pipelines before waiting
    UnitKinds,      \* the kinds of unit the client may send
    CensorVerdicts, \* subset of BOOLEAN: TRUE = the censor allows the query
    DecryptVerdicts,\* subset of BOOLEAN: TRUE = column decryption succeeds
    RowCounts,      \* how many DataRows one query returns
    TxnStatuses,    \* the transaction statuses a simple query may leave
    KeyReads,       \* subset of BOOLEAN: TRUE = the keystore read succeeds
    ParserVerdicts  \* subset of BOOLEAN: TRUE = the proxy's SQL parser accepts
                    \* the query text of a Parse

ASSUME /\ Unnamed \in Stmts /\ Unnamed \in Portals
       /\ MaxUnits \in Nat \ {0} /\ MaxInFlight \in Nat \ {0}
       /\ UnitKinds \subseteq {"Simple", "Ext", "Batch", "Prepare", "Describe", "Exec",
                            "Stray", "Close"}
       /\ CensorVerdicts \subseteq BOOLEAN /\ TRUE \in CensorVerdicts
       /\ DecryptVerdicts \subseteq BOOLEAN /\ TRUE \in DecryptVerdicts
       /\ RowCounts \subseteq 0..2
       /\ "I" \in TxnStatuses /\ TxnStatuses \subseteq {"I", "T"}
       /\ KeyReads \subseteq BOOLEAN /\ TRUE \in KeyReads
       /\ ParserVerdicts \subseteq BOOLEAN /\ TRUE \in ParserVerdicts

Rid == 1..MaxUnits
NoSql == 0                 \* "not registered" in a registry
NoName == "-"              \* the statement/portal field of packets without one

VARIABLES
    c2p, p2d, d2p, p2c,    \* client->proxy, proxy->db, db->proxy, proxy->client
    crPc, crErrFor,        \* client reader: where it is, whom its error answers
    srState, srPc, srErrFor, lastRow,  \* server reader
    queryItems,            \* whose QueryDataItems the client session holds
    lastItems,             \* last RowDescription/DataRow: its query, the items used
    placeholders,          \* whose placeholder settings the client session holds
    lastParams,            \* last ParameterDescription: its statement's query, the settings used
    pending,               \* PgProtocolState.pendingQueryPackets
    statements, cursors,   \* PreparedStatementRegistry: name -> query text
    session,               \* "open", "closed" (Terminate), "failed" (errCh) or
                           \* "keyError" (errCh, a KeyReadError)
    sent, awaiting, clientPrepared, quit,    \* the PostgreSQL client
    clientTxn,             \* the transaction status the client last read
    dbStmts, dbPortals, dbSkip,              \* the PostgreSQL server
    dbTxn                  \* the server's transaction status

proxyVars == <<crPc, crErrFor, srState, srPc, srErrFor, lastRow, queryItems, lastItems, placeholders, lastParams, pending,
               statements, cursors, session>>
clientVars == <<sent, awaiting, clientPrepared, quit, clientTxn>>
dbVars == <<dbStmts, dbPortals, dbSkip, dbTxn>>
vars == <<c2p, p2d, d2p, p2c, proxyVars, clientVars, dbVars>>

CPkt(t, r, s, p) == [type |-> t, rid |-> r, stmt |-> s, portal |-> p]
DPkt(t, r, q) == [type |-> t, src |-> r, sql |-> q, status |-> "-"]
\* the server's ReadyForQuery carries its transaction status
ZPkt(r, st) == [type |-> "Z", src |-> r, sql |-> NoSql, status |-> st]
\* what reaches the client: the packet type, the unit it answers, the status
Out(t, r) == [type |-> t, src |-> r, status |-> "-"]
Relay(m) == [type |-> m.type, src |-> m.src, status |-> m.status]
\* the constant ReadyForQuery packet {'Z', 0, 0, 0, 5, 'I'}: status idle
ReadyForQuery(r) == [type |-> "Z", src |-> r, status |-> "I"]

ClientPacket == [type : {"Q", "P", "B", "D", "E", "S", "C", "X"}, rid : Rid \cup {0},
                 stmt : Stmts \cup {NoName}, portal : Portals \cup {NoName}]
Statuses == {"-", "I", "T"}
DbPacket == [type : {"T", "t", "D", "Z", "1", "2", "3", "C", "Err"}, src : Rid,
             sql : Rid \cup {NoSql}, status : Statuses]
PendingQuery == [rid : Rid, sql : Rid \cup {NoSql}]

TypeOK ==
    /\ c2p \in Seq(ClientPacket) /\ p2d \in Seq(ClientPacket)
    /\ d2p \in Seq(DbPacket)
    /\ p2c \in Seq([type : {"T", "t", "D", "Z", "1", "2", "3", "C", "Err"}, src : Rid,
                     status : Statuses])
    /\ crPc \in {"read", "errE", "errZ", "done"} /\ crErrFor \in Rid \cup {0}
    /\ srState \in {"Serve", "SkipResponse"}
    /\ srPc \in {"read", "errE", "errZ"} /\ srErrFor \in Rid \cup {0}
    /\ lastRow \in [sql : Rid \cup {NoSql}, used : Rid \cup {NoSql}]
    /\ queryItems \in Rid \cup {NoSql}
    /\ lastItems \in [sql : Rid \cup {NoSql}, used : Rid \cup {NoSql}]
    /\ placeholders \in Rid \cup {NoSql}
    /\ lastParams \in [sql : Rid \cup {NoSql}, used : Rid \cup {NoSql}]
    /\ clientTxn \in {"I", "T"} /\ dbTxn \in {"I", "T"}
    /\ pending \in Seq(PendingQuery)
    /\ statements \in [Stmts -> Rid \cup {NoSql}]
    /\ cursors \in [Portals -> Rid \cup {NoSql}]
    /\ session \in {"open", "closed", "failed", "keyError"}
    /\ sent \in 0..MaxUnits /\ awaiting \in Seq(Rid)
    /\ clientPrepared \subseteq Stmts /\ quit \in BOOLEAN
    /\ dbStmts \in [Stmts -> Rid \cup {NoSql}]
    /\ dbPortals \in [Portals -> Rid \cup {NoSql}] /\ dbSkip \in BOOLEAN

\* A new connection's session has no registry and no protocol state yet:
\* NewPgProxy gives it an empty PreparedStatementRegistry and a
\* PgProtocolState with an empty pending queue.
Init ==
    /\ c2p = <<>> /\ p2d = <<>> /\ d2p = <<>> /\ p2c = <<>>
    /\ crPc = "read" /\ crErrFor = 0
    /\ srState = "Serve" /\ srPc = "read" /\ srErrFor = 0
    /\ lastRow = [sql |-> NoSql, used |-> NoSql]
    /\ queryItems = NoSql
    /\ lastItems = [sql |-> NoSql, used |-> NoSql]
    /\ placeholders = NoSql
    /\ lastParams = [sql |-> NoSql, used |-> NoSql]
    /\ clientTxn = "I" /\ dbTxn = "I"
    /\ pending = <<>>
    /\ statements = [s \in Stmts |-> NoSql]
    /\ cursors = [p \in Portals |-> NoSql]
    /\ session = "open"
    /\ sent = 0 /\ awaiting = <<>> /\ clientPrepared = {} /\ quit = FALSE
    /\ dbStmts = [s \in Stmts |-> NoSql]
    /\ dbPortals = [p \in Portals |-> NoSql] /\ dbSkip = FALSE

-----------------------------------------------------------------------------
(* The PostgreSQL client (environment).                                    *)

UnitPackets(k, r, s, p) ==
    CASE k = "Simple"  -> << CPkt("Q", r, NoName, NoName) >>
      [] k = "Ext"     -> << CPkt("P", r, s, NoName), CPkt("B", r, s, p),
                             CPkt("E", r, NoName, p), CPkt("S", r, NoName, NoName) >>
      [] k = "Batch"   -> << CPkt("P", r, s, NoName), CPkt("B", r, s, p),
                             CPkt("E", r, NoName, p), CPkt("B", r, s, p),
                             CPkt("E", r, NoName, p), CPkt("S", r, NoName, NoName) >>
      [] k = "Prepare" -> << CPkt("P", r, s, NoName), CPkt("S", r, NoName, NoName) >>
      [] k = "Describe" -> << CPkt("P", r, s, NoName), CPkt("D", r, s, NoName),
                              CPkt("S", r, NoName, NoName) >>
      [] k \in {"Exec", "Stray"} ->
                          << CPkt("B", r, s, p), CPkt("E", r, NoName, p),
                             CPkt("S", r, NoName, NoName) >>
      [] k = "Close"   -> << CPkt("C", r, s, NoName), CPkt("S", r, NoName, NoName) >>

\* A client parses a named statement only while it is not prepared, and
\* executes or closes only statements it has prepared; a "Stray" unit is a
\* client mistake: it executes any statement, and the database rejects it.
\* A "Batch" runs one statement twice before Sync (a JDBC executeBatch),
\* binding the unnamed portal each time.
UnitAllowed(k, s, p) ==
    /\ k \in {"Ext", "Batch", "Prepare", "Describe"} => (s = Unnamed \/ s \notin clientPrepared)
    /\ k = "Batch" => p = Unnamed
    /\ k \in {"Exec", "Close"} => s \in clientPrepared

ClientSend ==
    /\ session = "open" /\ ~quit
    /\ sent < MaxUnits /\ Len(awaiting) < MaxInFlight
    /\ \E k \in UnitKinds, s \in Stmts, p \in Portals :
         /\ UnitAllowed(k, s, p)
         /\ c2p' = c2p \o UnitPackets(k, sent + 1, s, p)
         /\ clientPrepared' = CASE k \in {"Ext", "Batch", "Prepare", "Describe"} -> clientPrepared \cup {s}
                                [] k = "Close" -> clientPrepared \ {s}
                                [] OTHER -> clientPrepared
    /\ sent' = sent + 1
    /\ awaiting' = Append(awaiting, sent + 1)
    /\ UNCHANGED <<p2d, d2p, p2c, proxyVars, quit, clientTxn, dbVars>>

\* The client reads one packet; ReadyForQuery completes its oldest unit and
\* tells the client the transaction status.
ClientReceive ==
    /\ session = "open" /\ p2c # <<>>
    /\ p2c' = Tail(p2c)
    /\ awaiting' = IF Head(p2c).type = "Z" /\ awaiting # <<>>
                   THEN Tail(awaiting) ELSE awaiting
    /\ clientTxn' = IF Head(p2c).type = "Z" THEN Head(p2c).status ELSE clientTxn
    /\ UNCHANGED <<c2p, p2d, d2p, proxyVars, sent, clientPrepared, quit, dbVars>>

\* Once every unit is answered the client sends Terminate.
ClientQuit ==
    /\ session = "open" /\ ~quit /\ sent = MaxUnits /\ awaiting = <<>>
    /\ c2p' = Append(c2p, CPkt("X", 0, NoName, NoName))
    /\ quit' = TRUE
    /\ UNCHANGED <<p2d, d2p, p2c, proxyVars, sent, awaiting, clientPrepared, clientTxn,
                   dbVars>>

-----------------------------------------------------------------------------
(* The PostgreSQL server (environment).  After an error it discards        *)
(* extended-protocol messages until Sync; Sync ends the implicit           *)
(* transaction, which closes the portals, and answers ReadyForQuery.       *)

DbReads(t) == session = "open" /\ p2d # <<>> /\ Head(p2d).type = t

DbDiscard ==
    /\ session = "open" /\ p2d # <<>> /\ dbSkip /\ Head(p2d).type # "S"
    /\ p2d' = Tail(p2d)
    /\ UNCHANGED <<c2p, d2p, p2c, proxyVars, clientVars, dbVars>>

\* Replies Err and starts discarding until Sync.
DbError(r) == d2p' = Append(d2p, DPkt("Err", r, NoSql)) /\ dbSkip' = TRUE

\* A simple query may open or end a transaction (BEGIN, COMMIT, ...).
DbQuery ==
    /\ DbReads("Q") /\ ~dbSkip
    /\ LET r == Head(p2d).rid IN
         \E n \in RowCounts, st \in TxnStatuses :
            /\ dbTxn' = st
            /\ d2p' = d2p \o << DPkt("T", r, r) >> \o [i \in 1..n |-> DPkt("D", r, r)]
                          \o << ZPkt(r, st) >>
    /\ p2d' = Tail(p2d)
    /\ UNCHANGED <<c2p, p2c, proxyVars, clientVars, dbStmts, dbPortals, dbSkip>>

DbParse ==
    /\ DbReads("P") /\ ~dbSkip
    /\ LET m == Head(p2d) IN
         IF m.stmt # Unnamed /\ dbStmts[m.stmt] # NoSql
         THEN DbError(m.rid) /\ UNCHANGED dbStmts
         ELSE /\ dbStmts' = [dbStmts EXCEPT ![m.stmt] = m.rid]
              /\ d2p' = Append(d2p, DPkt("1", m.rid, NoSql))
              /\ UNCHANGED dbSkip
    /\ p2d' = Tail(p2d)
    /\ UNCHANGED <<c2p, p2c, proxyVars, clientVars, dbPortals, dbTxn>>

DbBind ==
    /\ DbReads("B") /\ ~dbSkip
    /\ LET m == Head(p2d) IN
         IF dbStmts[m.stmt] = NoSql
         THEN DbError(m.rid) /\ UNCHANGED dbPortals
         ELSE /\ dbPortals' = [dbPortals EXCEPT ![m.portal] = dbStmts[m.stmt]]
              /\ d2p' = Append(d2p, DPkt("2", m.rid, NoSql))
              /\ UNCHANGED dbSkip
    /\ p2d' = Tail(p2d)
    /\ UNCHANGED <<c2p, p2c, proxyVars, clientVars, dbStmts, dbTxn>>

DbExecute ==
    /\ DbReads("E") /\ ~dbSkip
    /\ LET m == Head(p2d)
           q == dbPortals[m.portal] IN
         IF q = NoSql
         THEN DbError(m.rid)
         ELSE /\ \E n \in RowCounts :
                   d2p' = d2p \o [i \in 1..n |-> DPkt("D", m.rid, q)]
                              \o << DPkt("C", m.rid, NoSql) >>
              /\ UNCHANGED dbSkip
    /\ p2d' = Tail(p2d)
    /\ UNCHANGED <<c2p, p2c, proxyVars, clientVars, dbStmts, dbPortals, dbTxn>>

DbClose ==
    /\ DbReads("C") /\ ~dbSkip
    /\ dbStmts' = [dbStmts EXCEPT ![Head(p2d).stmt] = NoSql]
    /\ d2p' = Append(d2p, DPkt("3", Head(p2d).rid, NoSql))
    /\ p2d' = Tail(p2d)
    /\ UNCHANGED <<c2p, p2c, proxyVars, clientVars, dbPortals, dbSkip, dbTxn>>

\* Describe of a statement answers its ParameterDescription (the
\* RowDescription or NoData that follows is left out).
DbDescribe ==
    /\ DbReads("D") /\ ~dbSkip
    /\ LET m == Head(p2d) IN
         IF dbStmts[m.stmt] = NoSql
         THEN DbError(m.rid)
         ELSE d2p' = Append(d2p, DPkt("t", m.rid, dbStmts[m.stmt])) /\ UNCHANGED dbSkip
    /\ p2d' = Tail(p2d)
    /\ UNCHANGED <<c2p, p2c, proxyVars, clientVars, dbStmts, dbPortals, dbTxn>>

DbSync ==
    /\ DbReads("S")
    /\ d2p' = Append(d2p, ZPkt(Head(p2d).rid, dbTxn))
    /\ dbSkip' = FALSE
    /\ dbPortals' = [p \in Portals |-> NoSql]
    /\ p2d' = Tail(p2d)
    /\ UNCHANGED <<c2p, p2c, proxyVars, clientVars, dbStmts, dbTxn>>

-----------------------------------------------------------------------------
(* PgProtocolState and PreparedStatementRegistry (outside the sources: as  *)
(* the spec describes them).                                               *)

\* Mutant: the unnamed statement / portal is not exempt.
AddFailsEvenUnnamed(name, registry) == registry[name] # NoSql

\* AddStatement / AddCursor fail on a name that is present and not unnamed.
AddFails(name, registry) == name # Unnamed /\ registry[name] # NoSql

\* registerPreparedStatement: parser.Parse of the query text must succeed
\* (the code assumes it does, "since the database filters invalid queries",
\* but the database has not seen the Parse yet), then AddStatement refuses
\* a name already present.  Either error is returned.
RegisterPreparedStatementFails(m, parsed) == ~parsed \/ AddFails(m.stmt, statements)

\* registerCursor: StatementByName must find the statement, then AddCursor
\* refuses a portal name already present.
RegisterCursorFails(m) == statements[m.stmt] = NoSql \/ AddFails(m.portal, cursors)

\* Mutant: ReadyForQuery leaves the queue as it is.
DequeueNever(q) == q

\* HandleDatabasePacket on ReadyForQuery discards the queue head, if any.
DequeueOnReady(q) == IF q = <<>> THEN q ELSE Tail(q)

-----------------------------------------------------------------------------
(* Client reader: ProxyClientConnection and handleClientPacket.  Every     *)
(* error returned by the handler goes to errCh and the session is torn     *)
(* down: the model stops every actor.                                      *)

CrReads(t) == session = "open" /\ crPc = "read" /\ c2p # <<>> /\ Head(c2p).type = t

Forward(m) == p2d' = Append(p2d, m)

\* The handler returned censored: nothing reaches the database and the
\* reader goes on to sendClientError.
Censored(m) == crPc' = "errE" /\ crErrFor' = m.rid /\ UNCHANGED p2d

Fail == session' = "failed"

\* A KeyReadError from the query observers (handleQueryPacket,
\* handleBindPacket) is returned to the loop and goes to errCh; any other
\* observer error is logged and the packet forwarded as it is, which in the
\* model is the same step as a successful observation.  For the column
\* decryptor (onColumnDecryption) a FALSE verdict of KeyReads stands for
\* any error that is not an EncodingError, a KeyReadError among them: all
\* of them go to errCh.
KeyReadFail == session' = "keyError"

\* OnQuery of the query observers stores the query's data items and its
\* placeholder settings in the client session (outside the sources: as the
\* spec describes it).
OnQuery(m) == queryItems' = m.rid /\ placeholders' = m.rid

\* SimpleQueryPacket: the query is queued before the censor sees it; an
\* allowed query goes through OnQuery, whose KeyReadError ends the session.
ClientSimpleQuery ==
    /\ CrReads("Q")
    /\ LET m == Head(c2p) IN
         /\ pending' = Append(pending, [rid |-> m.rid, sql |-> m.rid])
         /\ \E allowed \in CensorVerdicts, keyRead \in KeyReads :
               CASE ~allowed ->
                       Censored(m) /\ UNCHANGED <<queryItems, placeholders, session>>
                 [] ~keyRead ->
                       KeyReadFail /\ UNCHANGED <<p2d, crPc, crErrFor, queryItems, placeholders>>
                 [] OTHER ->
                       Forward(m) /\ OnQuery(m) /\ UNCHANGED <<crPc, crErrFor, session>>
    /\ c2p' = Tail(c2p)
    /\ UNCHANGED <<d2p, p2c, srState, srPc, srErrFor, lastRow, lastItems, lastParams, statements,
                   cursors, clientVars, dbVars>>

\* ParseStatementPacket: censor and OnQuery (a KeyReadError ends the
\* session), then registerPreparedStatement (the
\* statement is registered before the database accepts it), then the
\* parameter OIDs are rewritten in place.
ClientParse ==
    /\ CrReads("P")
    /\ LET m == Head(c2p) IN
         \E allowed \in CensorVerdicts, keyRead \in KeyReads, parsed \in ParserVerdicts :
            CASE ~allowed ->
                    Censored(m) /\ UNCHANGED <<statements, session, queryItems, placeholders>>
              [] ~keyRead ->
                    KeyReadFail /\ UNCHANGED <<p2d, statements, crPc, crErrFor, queryItems,
                                               placeholders>>
              [] RegisterPreparedStatementFails(m, parsed) ->
                    OnQuery(m) /\ Fail /\ UNCHANGED <<p2d, statements, crPc, crErrFor>>
              [] OTHER ->
                    /\ OnQuery(m)
                    /\ statements' = [statements EXCEPT ![m.stmt] = m.rid]
                    /\ Forward(m)
                    /\ UNCHANGED <<session, crPc, crErrFor>>
    /\ c2p' = Tail(c2p)
    /\ UNCHANGED <<d2p, p2c, srState, srPc, srErrFor, lastRow, lastItems, lastParams, pending, cursors,
                   clientVars, dbVars>>

\* BindStatementPacket: registerCursor looks the statement up and adds the
\* portal; a failure of either is returned to the loop.  Then OnBind: a
\* KeyReadError ends the session with the portal already registered.
ClientBind ==
    /\ CrReads("B")
    /\ LET m == Head(c2p) IN
         IF RegisterCursorFails(m)
         THEN Fail /\ UNCHANGED <<p2d, cursors>>
         ELSE /\ cursors' = [cursors EXCEPT ![m.portal] = statements[m.stmt]]
              /\ \E keyRead \in KeyReads :
                    IF keyRead THEN Forward(m) /\ UNCHANGED session
                               ELSE KeyReadFail /\ UNCHANGED p2d
    /\ c2p' = Tail(c2p)
    /\ UNCHANGED <<d2p, p2c, crPc, crErrFor, srState, srPc, srErrFor, lastRow, queryItems, lastItems, placeholders, lastParams,
                   pending, statements, clientVars, dbVars>>

\* ExecutePacketType: the portal's statement becomes an extended query on
\* the pending queue.
ClientExecute ==
    /\ CrReads("E")
    /\ LET m == Head(c2p) IN
         IF cursors[m.portal] = NoSql
         THEN Fail /\ UNCHANGED <<p2d, pending>>
         ELSE /\ pending' = Append(pending, [rid |-> m.rid, sql |-> cursors[m.portal]])
              /\ Forward(m)
              /\ UNCHANGED session
    /\ c2p' = Tail(c2p)
    /\ UNCHANGED <<d2p, p2c, crPc, crErrFor, srState, srPc, srErrFor, lastRow, queryItems, lastItems, placeholders, lastParams,
                   statements, cursors, clientVars, dbVars>>

\* Sync, Close, Describe and every other packet are forwarded untouched.
ClientOther ==
    /\ session = "open" /\ crPc = "read" /\ c2p # <<>>
    /\ Head(c2p).type \in {"S", "C", "D"}
    /\ Forward(Head(c2p))
    /\ c2p' = Tail(c2p)
    /\ UNCHANGED <<d2p, p2c, proxyVars, clientVars, dbVars>>

\* Terminate is forwarded, then the loop reports EOF and the session ends.
ClientTerminate ==
    /\ CrReads("X")
    /\ Forward(Head(c2p))
    /\ c2p' = Tail(c2p)
    /\ session' = "closed"
    /\ crPc' = "done"
    /\ UNCHANGED <<d2p, p2c, crErrFor, srState, srPc, srErrFor, lastRow, queryItems, lastItems, placeholders, lastParams, pending,
                   statements, cursors, clientVars, dbVars>>

\* sendClientError writes the ErrorResponse and the ReadyForQuery with two
\* separate Write calls on the client connection.
ClientWriteError ==
    /\ session = "open" /\ crPc = "errE"
    /\ p2c' = Append(p2c, Out("Err", crErrFor))
    /\ crPc' = "errZ"
    /\ UNCHANGED <<c2p, p2d, d2p, crErrFor, srState, srPc, srErrFor, lastRow, queryItems, lastItems, placeholders, lastParams,
                   pending, statements, cursors, session, clientVars, dbVars>>

\* Mutant: sendClientError writes only the ErrorResponse.
ClientWriteReadyMissing ==
    /\ session = "open" /\ crPc = "errZ"
    /\ crPc' = "read"
    /\ UNCHANGED <<c2p, p2d, d2p, p2c, crErrFor, srState, srPc, srErrFor, lastRow, queryItems, lastItems, placeholders, lastParams,
                   pending, statements, cursors, session, clientVars, dbVars>>

ClientWriteReady ==
    /\ session = "open" /\ crPc = "errZ"
    /\ p2c' = Append(p2c, ReadyForQuery(crErrFor))
    /\ crPc' = "read"
    /\ UNCHANGED <<c2p, p2d, d2p, crErrFor, srState, srPc, srErrFor, lastRow, queryItems, lastItems, placeholders, lastParams,
                   pending, statements, cursors, session, clientVars, dbVars>>

-----------------------------------------------------------------------------
(* Server reader: ProxyDatabaseConnection in stateServe and               *)
(* stateSkipResponse, and handleDatabasePacket.                            *)

SrReads(st) == session = "open" /\ srPc = "read" /\ srState = st /\ d2p # <<>>

\* Mutant: the failed row's request is not remembered for the error.
ServerDataRowLostRid ==
    /\ SrReads("Serve") /\ Head(d2p).type = "D"
    /\ LET m == Head(d2p) IN
         IF pending = <<>>
         THEN Fail /\ UNCHANGED <<p2c, srPc, srErrFor, lastRow, lastItems>>
         ELSE /\ lastRow' = [sql |-> m.sql, used |-> Head(pending).sql]
              /\ \E decrypted \in DecryptVerdicts, keyRead \in KeyReads :
                    CASE ~keyRead ->
                            KeyReadFail /\ UNCHANGED <<p2c, srPc, srErrFor, lastItems>>
                      [] decrypted ->
                            /\ p2c' = Append(p2c, Out("D", m.src))
                            /\ lastItems' = [sql |-> m.sql, used |-> queryItems]
                            /\ UNCHANGED <<srPc, srErrFor, session>>
                      [] OTHER ->
                            /\ srPc' = "errE" /\ srErrFor' = 0
                            /\ UNCHANGED <<p2c, lastItems, session>>
    /\ d2p' = Tail(d2p)
    /\ UNCHANGED <<c2p, p2d, crPc, crErrFor, srState, queryItems, placeholders, lastParams, pending, statements,
                   cursors, clientVars, dbVars>>

\* handleQueryDataPacket: the queue head names the query the row belongs
\* to; its columns are decrypted with that query's settings.  A failed
\* decryption is an EncodingError: the row is dropped and an error sent;
\* any other error of the decryptor (a KeyReadError) goes to errCh.
\* A decrypted row is re-encoded (updateDataFromColumns) with the data
\* items the session holds.
ServerDataRow ==
    /\ SrReads("Serve") /\ Head(d2p).type = "D"
    /\ LET m == Head(d2p) IN
         IF pending = <<>>
         THEN Fail /\ UNCHANGED <<p2c, srPc, srErrFor, lastRow, lastItems>>
         ELSE /\ lastRow' = [sql |-> m.sql, used |-> Head(pending).sql]
              /\ \E decrypted \in DecryptVerdicts, keyRead \in KeyReads :
                    CASE ~keyRead ->
                            KeyReadFail /\ UNCHANGED <<p2c, srPc, srErrFor, lastItems>>
                      [] decrypted ->
                            /\ p2c' = Append(p2c, Out("D", m.src))
                            /\ lastItems' = [sql |-> m.sql, used |-> queryItems]
                            /\ UNCHANGED <<srPc, srErrFor, session>>
                      [] OTHER ->
                            /\ srPc' = "errE" /\ srErrFor' = m.src
                            /\ UNCHANGED <<p2c, lastItems, session>>
    /\ d2p' = Tail(d2p)
    /\ UNCHANGED <<c2p, p2d, crPc, crErrFor, srState, queryItems, placeholders, lastParams, pending, statements,
                   cursors, clientVars, dbVars>>

\* Mutant: the ReadyForQuery is handled but not forwarded.
ServerReadyForQuerySwallowed ==
    /\ SrReads("Serve") /\ Head(d2p).type = "Z"
    /\ pending' = DequeueOnReady(pending)
    /\ placeholders' = NoSql
    /\ d2p' = Tail(d2p)
    /\ UNCHANGED <<c2p, p2d, p2c, crPc, crErrFor, srState, srPc, srErrFor, lastRow,
                   queryItems, lastItems, lastParams, statements, cursors, session,
                   clientVars, dbVars>>

\* ReadyForQuery: the protocol state drops the queue head, the placeholder
\* settings are deleted, and the packet is forwarded.
ServerReadyForQuery ==
    /\ SrReads("Serve") /\ Head(d2p).type = "Z"
    /\ pending' = DequeueOnReady(pending)
    /\ placeholders' = NoSql
    /\ p2c' = Append(p2c, Relay(Head(d2p)))
    /\ d2p' = Tail(d2p)
    /\ UNCHANGED <<c2p, p2d, crPc, crErrFor, srState, srPc, srErrFor, lastRow,
                   queryItems, lastItems, lastParams, statements, cursors, session,
                   clientVars, dbVars>>

\* handleRowDescription: the field OIDs are rewritten from the data items
\* the session holds (PgColumns models the loop), and the packet forwarded.
ServerRowDescription ==
    /\ SrReads("Serve") /\ Head(d2p).type = "T"
    /\ lastItems' = [sql |-> Head(d2p).sql, used |-> queryItems]
    /\ p2c' = Append(p2c, Out("T", Head(d2p).src))
    /\ d2p' = Tail(d2p)
    /\ UNCHANGED <<c2p, p2d, crPc, crErrFor, srState, srPc, srErrFor, lastRow, queryItems,
                   placeholders, lastParams, pending, statements, cursors, session,
                   clientVars, dbVars>>

\* handleParameterDescription: the parameter OIDs are rewritten from the
\* placeholder settings the session holds (PgColumns models the loop).
ServerParameterDescription ==
    /\ SrReads("Serve") /\ Head(d2p).type = "t"
    /\ lastParams' = [sql |-> Head(d2p).sql, used |-> placeholders]
    /\ p2c' = Append(p2c, Out("t", Head(d2p).src))
    /\ d2p' = Tail(d2p)
    /\ UNCHANGED <<c2p, p2d, crPc, crErrFor, srState, srPc, srErrFor, lastRow, queryItems,
                   lastItems, placeholders, pending, statements, cursors, session,
                   clientVars, dbVars>>

\* Every other packet is forwarded untouched.
ServerOther ==
    /\ SrReads("Serve") /\ Head(d2p).type \notin {"T", "t", "D", "Z"}
    /\ p2c' = Append(p2c, Out(Head(d2p).type, Head(d2p).src))
    /\ d2p' = Tail(d2p)
    /\ UNCHANGED <<c2p, p2d, proxyVars, clientVars, dbVars>>

\* sendClientError after an EncodingError, then stateSkipResponse.
ServerWriteError ==
    /\ session = "open" /\ srPc = "errE"
    /\ p2c' = Append(p2c, Out("Err", srErrFor))
    /\ srPc' = "errZ"
    /\ UNCHANGED <<c2p, p2d, d2p, crPc, crErrFor, srState, srErrFor, lastRow, queryItems, lastItems, placeholders, lastParams,
                   pending, statements, cursors, session, clientVars, dbVars>>

\* Mutant: after the ErrorResponse no ReadyForQuery is sent.
ServerWriteReadyMissing ==
    /\ session = "open" /\ srPc = "errZ"
    /\ srPc' = "read"
    /\ srState' = "SkipResponse"
    /\ UNCHANGED <<c2p, p2d, d2p, p2c, crPc, crErrFor, srErrFor, lastRow, queryItems, lastItems, placeholders, lastParams,
                   pending, statements, cursors, session, clientVars, dbVars>>

ServerWriteReady ==
    /\ session = "open" /\ srPc = "errZ"
    /\ p2c' = Append(p2c, ReadyForQuery(srErrFor))
    /\ srPc' = "read"
    /\ srState' = "SkipResponse"
    /\ UNCHANGED <<c2p, p2d, d2p, crPc, crErrFor, srErrFor, lastRow, queryItems, lastItems, placeholders, lastParams,
                   pending, statements, cursors, session, clientVars, dbVars>>

\* stateSkipResponse drops everything up to the database's ReadyForQuery,
\* which is handled (the queue head dropped, the placeholder settings
\* deleted) but not forwarded.
ServerSkip ==
    /\ SrReads("SkipResponse") /\ Head(d2p).type # "Z"
    /\ d2p' = Tail(d2p)
    /\ UNCHANGED <<c2p, p2d, p2c, proxyVars, clientVars, dbVars>>

\* Mutant: the database's ReadyForQuery is forwarded after the proxy's own.
ServerSkipReadyForwards ==
    /\ SrReads("SkipResponse") /\ Head(d2p).type = "Z"
    /\ srState' = "Serve"
    /\ pending' = DequeueOnReady(pending)
    /\ placeholders' = NoSql
    /\ p2c' = Append(p2c, Relay(Head(d2p)))
    /\ d2p' = Tail(d2p)
    /\ UNCHANGED <<c2p, p2d, crPc, crErrFor, srPc, srErrFor, lastRow, queryItems,
                   lastItems, lastParams, statements, cursors, session, clientVars, dbVars>>

ServerSkipReady ==
    /\ SrReads("SkipResponse") /\ Head(d2p).type = "Z"
    /\ srState' = "Serve"
    /\ pending' = DequeueOnReady(pending)
    /\ placeholders' = NoSql
    /\ d2p' = Tail(d2p)
    /\ UNCHANGED <<c2p, p2d, p2c, crPc, crErrFor, srPc, srErrFor, lastRow, queryItems,
                   lastItems, lastParams, statements, cursors, session, clientVars, dbVars>>

-----------------------------------------------------------------------------

\* A torn-down or terminated session does nothing more.
SessionEnded == session # "open" /\ UNCHANGED vars

ClientReader ==
    \/ ClientSimpleQuery \/ ClientParse \/ ClientBind \/ ClientExecute
    \/ ClientOther \/ ClientTerminate \/ ClientWriteError \/ ClientWriteReady

ServerReader ==
    \/ ServerRowDescription \/ ServerParameterDescription \/ ServerDataRow \/ ServerReadyForQuery \/ ServerOther
    \/ ServerWriteError \/ ServerWriteReady \/ ServerSkip \/ ServerSkipReady

Database ==
    \/ DbQuery \/ DbParse \/ DbBind \/ DbDescribe \/ DbExecute \/ DbClose \/ DbSync
    \/ DbDiscard

Next ==
    \/ ClientSend \/ ClientReceive \/ ClientQuit
    \/ ClientReader \/ ServerReader \/ Database
    \/ SessionEnded

\* Both goroutines run whenever their socket has data; the database
\* answers; the client reads its socket.  The client need not send.
Spec == Init /\ [][Next]_vars
        /\ WF_vars(ClientReader) /\ WF_vars(ServerReader) /\ WF_vars(Database)
        /\ WF_vars(ClientReceive)

-----------------------------------------------------------------------------
(* Properties.                                                             *)

\* Every DataRow the server reader processes is decrypted with the query
\* the database actually ran for it: the head of the pending queue
\* (handleQueryDataPacket) is the query that produced the row.
RowsAttributedToTheirQuery == lastRow.used = lastRow.sql

\* The next packet the client reads answers its oldest unanswered unit:
\* both goroutines that write to the client socket keep responses in
\* request order.
ResponsesInRequestOrder ==
    p2c # <<>> => awaiting # <<>> /\ Head(p2c).src = Head(awaiting)

\* A client that follows the protocol never has its session torn down by
\* the registries: registerPreparedStatement and registerCursor accept
\* every Parse and Bind it sends (re-parsing the unnamed statement, binding
\* the unnamed portal again, executing a statement prepared by an earlier
\* pipelined unit).  The other ways into errCh are left out by the runs
\* that check this: a KeyReadError, which the spec makes fatal
\* ("keyError"), and a query text the proxy's parser rejects (the
\* teardown run shows that one).
SessionNotTornDown == session # "failed"

\* The settings the session holds when the server reader handles a
\* response are those of the query that produced it: the data items used
\* for a RowDescription or to re-encode a DataRow (handleRowDescription,
\* updateDataFromColumns), and the placeholder settings used for a
\* ParameterDescription (handleParameterDescription), which ReadyForQuery
\* deletes.  The spec: "the active query's" settings.
SessionSettingsMatchResponse ==
    /\ lastItems.used = lastItems.sql
    /\ lastParams.used = lastParams.sql

\* Whenever the client has read every answer and the server is idle, the
\* transaction status the client last read in a ReadyForQuery is the
\* server's: the proxy's own ReadyForQuery (sendClientError with the
\* constant packet) reports the real status.
ClientSeesTxnStatus ==
    (awaiting = <<>> /\ p2c = <<>> /\ p2d = <<>> /\ d2p = <<>>) => clientTxn = dbTxn

(* The refinement mapping to PgRelay.  Requests in flight are those on    *)
(* the database socket followed by those the client reader has not read.  *)
(* Answers are those on the client socket, then the error the server       *)
(* reader owes while in sendClientError, then what it will forward from    *)
(* the database socket: after a decryption error, nothing up to and        *)
(* including the database's ReadyForQuery of the failed unit.              *)
Relayed(s) == [j \in 1..Len(s) |-> Relay(s[j])]
AfterReady(s) ==
    LET z == {j \in 1..Len(s) : s[j].type = "Z"}
    IN  IF z = {} THEN <<>> ELSE SubSeq(s, Min(z) + 1, Len(s))
ErrorOwed ==
    CASE srPc = "errE" -> << Out("Err", srErrFor), ReadyForQuery(srErrFor) >>
      [] srPc = "errZ" -> << ReadyForQuery(srErrFor) >>
      [] OTHER -> <<>>
Skipping == srPc # "read" \/ srState = "SkipResponse"
ToDatabase == p2d \o c2p
ToClient == p2c \o ErrorOwed \o Relayed(IF Skipping THEN AfterReady(d2p) ELSE d2p)

Wire == INSTANCE PgRelay WITH req <- ToDatabase, resp <- ToClient

\* With a censor that allows every query, the proxy implements PgRelay: it
\* never drops, duplicates, injects or reorders a packet in either
\* direction, except that a DataRow it cannot decrypt cuts that unit's
\* response into ErrorResponse and ReadyForQuery (handleQueryDataPacket,
\* sendClientError, stateSkipResponse).
ImplementsPgRelay == Wire!Spec

\* Every unit the client sends is eventually answered with ReadyForQuery.
EveryRequestAnswered ==
    \A r \in Rid : Contains(awaiting, r) ~> ~Contains(awaiting, r)

\* Whatever the client, the censor and the decryption do, a unit is answered
\* or the session ends: the proxy never leaves a client waiting on an open
\* connection (skipping never swallows the last ReadyForQuery, no goroutine
\* waits on the other).
ClientNeverHangs ==
    \A r \in Rid : Contains(awaiting, r) ~> (~Contains(awaiting, r) \/ session # "open")

=============================================================================
