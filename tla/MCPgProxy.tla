------------------------------ MODULE MCPgProxy ------------------------------
(* Instantiation of PgProxy for TLC: the unnamed statement/portal "" and  *)
(* one named statement.                                                    *)
EXTENDS PgProxy

MCStmts == {"u", "s1"}
MCPortals == {"u"}
MCUnnamed == "u"
\* The portals with one named portal besides the unnamed one.
MCPortalsNamed == {"u", "p1"}

\* The state without the record of which settings the last response used
\* (lastRow, lastItems, lastParams) and of whose settings the session
\* holds (queryItems, placeholders): no guard reads them, so runs whose
\* properties do not mention them may identify states that differ only
\* there.
ProtocolView == <<c2p, p2d, d2p, p2c, crPc, crErrFor, srState, srPc, srErrFor,
                  pending, statements, cursors, session, clientVars, dbVars>>
=============================================================================
