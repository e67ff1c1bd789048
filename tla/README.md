# TLA+ models of the acra PostgreSQL proxy

This directory models the PostgreSQL side of the acra decryptor
(`src/decryptor/postgresql/pg_decryptor.go`) and the `acra-keys destroy`
command (`src/cmd/acra-keys/keys/destroy-key.go`). Each client connection is
served by two goroutines that share state and sockets. The modules model
that concurrency, the protocol state the two goroutines share, and the TLS
upgrade that hands the client socket from one goroutine to another. TLC
checks all three.

## 1. Inventory

### The system's parts

| Part | Code | State | Operations |
|---|---|---|---|
| Client reader | `ProxyClientConnection`, `handleClientPacket`, `handleQueryPacket`, `handleBindPacket`, `sendClientError` (pg_decryptor.go 253-552) | its loop position; a bufio reader on `proxy.clientConnection` | read a client packet; Query (enqueue, censor, OnQuery); Parse (censor, registerPreparedStatement, OID rewrite); Bind (registerCursor, OnBind); Execute (enqueue the portal's query); forward; Terminate; when censored, write ErrorResponse and then ReadyForQuery on the client socket |
| Server reader | `ProxyDatabaseConnection` with `stateFirstPacket`, `stateServe` and `stateSkipResponse`, plus `handleDatabasePacket` and `handleQueryDataPacket` (662-1016) | handler state; a bufio reader and writer | first byte ('S', 'N' or other); read a packet; decrypt a DataRow with the queue head's settings; rewrite RowDescription and ParameterDescription OIDs; on ReadyForQuery, dequeue and delete placeholder settings; after an EncodingError, send an error and skip to ReadyForQuery |
| TLS upgrader | `stopProxyClientConnection`, `handleSSLRequest` and the `'S'`/`'N'` branches (556-659, 752-787) | `stopClient`, the client socket deadline, the unbuffered `ClientStopResponse` channel, the 2 s `ClientStopTimeout` | stop the client reader; send 'S' or 'N'; wrap the client and database connections; re-seat them; respawn the client reader |
| Protocol state and registry | `PgProtocolState`, `PreparedStatementRegistry` (not under src/; modelled from the spec) | the pending query queue; statements and portals by name | enqueue; dequeue on ReadyForQuery; AddStatement; AddCursor; look up by name |
| Session settings | `encryptor.*FromClientSession` | placeholder settings and query data items | written by OnQuery in the client reader; read and deleted by the server reader |
| Key encryptor registry | `keystore/keyloader/key_encryptor.go` | a map under a mutex | register; look up |
| destroy-key CLI | `cmd/acra-keys/keys/destroy-key.go` | the parsed flags: the key kind, the client ID, `--index` | parse and validate; open the keystore; call the one destroy method for the kind and index |

### How the parts interact

The client reader and the server reader run at the same time. They share:

- the pending query queue, which the client reader writes and the server reader reads and pops;
- the registry;
- the session settings;
- the client socket, which both of them write: the server reader forwards responses, and the client reader writes its synthetic censor errors.

During startup the server reader takes over the client socket. It sets `stopClient`, moves the deadline into the past, and waits for an acknowledgement on `ClientStopResponse`. Then it answers the SSLRequest, wraps both sockets, and starts a new client reader.

### What makes the system hard

- Pipelined requests interleave with the responses, and both goroutines write the client socket.
- The censor answers a query without the database ever seeing it.
- A decryption failure drops the rest of a response.
- The stop rendezvous can lose its race against a timer.
- Registry entries outlive what the database remembers.

## 2. Modules

### `PgProxy`: the session after startup

The PostgreSQL client and server are the environment.

- The client sends *units*: a simple Query, or an extended block ending in Sync. The kinds are `Ext` = Parse/Bind/Execute/Sync, `Prepare`, `Batch` = Parse/Bind/Execute/Bind/Execute/Sync on the unnamed portal (a JDBC batch), `Describe` = Parse/Describe/Sync, `Exec`, `Close`, and `Stray` (a Bind of a statement that was never prepared).
- Every packet carries the id (`rid`) of its unit.
- A query text is identified by the rid of the packet that carried it.
- A simple query's response is RowDescription, the DataRows, then ReadyForQuery. An Execute's response has no RowDescription. A Describe of a statement is answered with a ParameterDescription. Every ReadyForQuery carries the transaction status, drawn from the constant `TxnStatuses` (`I` idle, `T` in a transaction) when the database answers a simple query. The database follows the PostgreSQL rules: after an error it discards messages until Sync, Sync closes the portals, and a named statement cannot be parsed twice.

| Variables | Code |
|---|---|
| `pending` | `pendingQueryPackets` |
| `statements`, `cursors` | the registry |
| `crPc`, `crErrFor` | the client reader's position inside `sendClientError` |
| `srState`, `srPc`, `srErrFor` | the server reader's handler state and its `sendClientError` |
| `session` | `"failed"` once an error reaches `errCh`, `"keyError"` when that error is a KeyReadError (or another decryptor error that is not an EncodingError) |
| `lastRow` | the query a DataRow came from, and the query whose settings decrypted it |
| `queryItems` | the query whose data items OnQuery last stored in the client session |
| `lastItems` | the query a RowDescription or decrypted DataRow came from, and the query whose session data items were used for it |
| `placeholders` | the query whose placeholder settings the client session holds; deleted at every ReadyForQuery (847) |
| `lastParams` | the query a ParameterDescription came from, and the query whose placeholder settings rewrote it |
| `clientTxn`, `dbTxn` | the transaction status the client last read, and the database's |

Actions, one per handler branch:

| Action | Code |
|---|---|
| `ClientSimpleQuery` | 386-399 (enqueue), with `OnQuery` for an allowed query (459-478; what OnQuery stores in the session is done by the encryptor, outside src, and modelled from the spec) |
| `ClientParse` | 364-385, with `OnQuery` |
| `ClientBind` | 482-534, registerCursor then OnBind |
| `ClientExecute` | 340-363 |
| `ClientOther`, `ClientTerminate` | other packets and Terminate |
| `ClientWriteError`, `ClientWriteReady` | the two `Write`s at 543 and 547 |
| `ServerRowDescription` | 838-839 and 898-908 (the field loop is in `PgColumns`) |
| `ServerDataRow` | 944-1016, including the re-encoding with the session's data items (1009-1014) |
| `ServerReadyForQuery` | 845-848, including the deletion of the placeholder settings |
| `ServerParameterDescription` | 856-866 (the OID loop is in `PgColumns`) |
| `ServerOther` | other server packets |
| `ServerWriteError`, `ServerWriteReady` | 705-715 |
| `ServerSkip`, `ServerSkipReady` | 804-823 |

`ReadyForQuery(r)` is the constant packet of line 46, whose status is always `I`; both `sendClientError`s write it.

Collaborators appear only as the verdict the code branches on, each drawn from a constant set:

- `CensorVerdicts`: the censor's verdict;
- `DecryptVerdicts`: whether decryption succeeds;
- `ParserVerdicts`: whether the proxy's own SQL parser accepts a Parse's query text in `registerPreparedStatement` (1022-1027). A rejection is returned and ends the session, although the comment at 1021 assumes the database already filtered the query;
- `KeyReads`: whether the keystore read inside OnQuery, OnBind or the column decryptor succeeds. A KeyReadError is returned to the loop and ends the session (`KeyReadFail`, 466-470, and 716-719 for the decryptor, where a FALSE verdict stands for any error that is not an EncodingError). Any other observer error is logged and the packet forwarded as it is (471-473, 515-520), which in the model is the same step as a successful observation;
- `RowCounts`: how many rows the database returns.

### `PgRelay`: what the session promises

This is the abstract specification of the session after startup, written from spec section 5 ("forwarded byte streams in each direction preserve packet boundaries and order") and section 4.2. `req` and `resp` are two FIFO channels. The client appends to `req` (`Send`), and the server reads `req`'s head and appends answers to `resp` (`Serve`). The client reads `resp`'s head (`Read`). The proxy's one liberty is `Cut`: from an answer to unit r on, the rest of r's answers are replaced by ErrorResponse and ReadyForQuery(I).

`PgProxy` implements it under this refinement mapping:

- `req <- ToDatabase`, the database socket followed by the client socket's unread packets;
- `resp <- ToClient`, which is:
  - the client socket;
  - then the error the server reader still owes while in `sendClientError` (`ErrorOwed`);
  - then what it will forward from the database socket, which is nothing up to the failed unit's ReadyForQuery while it skips.

`ImplementsPgRelay` is the property `Wire!Spec`. The censor's answer is not a `Cut`: the client reader injects it at the end of the client socket, ahead of earlier answers still in flight. So the refinement is checked in `core`, whose censor allows everything, and the `censor` run shows what breaks. `core` also keeps every keystore read successful: a KeyReadError consumes the packet being handled and ends the session, so the request disappears from `ToDatabase` without being served. That is a fatal error, not a relay step, and `robust` checks that it still never leaves the client waiting.

### `PgStartup`: startup and TLS upgrade

`readers` is the sequence of `ProxyClientConnection` goroutines. Each has a state: `read`, `forward`, `ack` (blocked sending on `ClientStopResponse`) or `exited`.

| `srPc` step | Code |
|---|---|
| `stop`, `wait`, `resetDeadline` | `stopProxyClientConnection` |
| `sendS`, `wrapClient`, `wrapDb` | `handleSSLRequest` |
| `spawnN`/`sendN`, `spawnS` | the deny branch and the allow branch |

Other state:

- `stopClient`: the bool the two goroutines share.
- `deadlineNow`: the client socket deadline is in the past.
- `clientConn`: whether `proxy.clientConnection` is the plain or the TLS socket.

The client may close its socket at any point. The database may answer 'S', 'N' or an error byte. Either TLS handshake may fail. The `ClientStopTimeout` timer may win the `select`; the constant `TimeoutCanFire` says whether it can.

### `PgColumns`: the per-column loops

This module covers four loops:

- the DataRow column loop of `handleQueryDataPacket` (977-1007);
- the ParameterDescription loop of `handleParameterDescription` (875-895);
- the RowDescription loop of `handleRowDescription` (921-942);
- the parameter-type loop of the client reader's `replaceOIDsInParsePackets` (1058-1073), packet `P`.

Each loop also has its early returns.

Init draws every packet of up to `MaxCols` columns, the NULL columns of a DataRow, and every settings slice. The slice may be nil or non-nil, and each slot is `nil`, `plain` (no type-aware support), `aware` (type-aware, but no encrypted-type OID for its type) or `typed`. RowDescription and ParameterDescription rewrite only `typed`; a Parse makes every type-aware parameter BYTEA. When `ShortSettings` is FALSE, a slice is never shorter than the columns.

Each step runs one loop iteration and records what the iteration chose for its column. An index at or past the slice's length is a Go panic, state `panic`. When the loop finishes, the result is compared with `Expected`, the spec's column-by-column reading (section 4.2).

### `PgError`: the synthesized error packet

`NewPgError` (52-75) is an operator on byte sequences, and `ReadyForQuery` is the constant packet of line 46. The reference is `Fields`, a recursive decoder written from the PostgreSQL ErrorResponse format: a code byte and a NUL-terminated string per field, then a final NUL. `ErrorPacketAsSpecified` checks every message of up to 3 bytes: the packet is framed by its length field and decodes to S=ERROR, C=42000, M=the message. It also checks that ReadyForQuery is framed. Messages hold no NUL byte: they are the censor's fixed text and Go error strings. The uint32 length is not wrapped: TLC's integers stop at 2^31, and only a 4 GiB message would wrap it.

### `DestroyKey`: the `acra-keys destroy` command

A sequential process with a `phase`: `parse`, `execute`, `exit`.

- `Init` is any command line of up to two key IDs, each abstracted to what `ParseKeyKind` makes of it (a kind, or `invalid`) and a client ID, and any `--index` in `Indexes`.
- `Parse` (destroy-key.go 78-115): a flag error, a count other than one key ID, `--index <= 0` or a kind destroy does not support exits with usage; otherwise it remembers the kind and, for the client kinds, the client ID.
- `Execute` (117-147): opening the keystore and the destroy call may each fail (`log.Fatal`); on success `DestroyKeyCall` (150-240) picks the current-key method for index 1 and the rotated-key method at that index otherwise.

`DestroysRequestedKey` says a successful run destroyed exactly the key the usage text of `--index` describes: that kind, that client, current or rotated.

### `MCPgProxy`, `MCPgStartup`, `MCPgColumns`, `MCDestroyKey`

`MCPgColumns` extends both `PgColumns` and `PgError`, so the `loops` run checks the error packet as an invariant alongside the column loops.


Model values for statement and portal names, the negative and positive `--index` values, and the configurations. `MCPgProxy` also defines `ProtocolView`, the state without the history variables (`lastRow`, `lastItems`, `lastParams`, `queryItems`, `placeholders`, `clientTxn`, ...). `robust` uses it as its `VIEW`: no guard reads those variables and `ClientNeverHangs` does not mention them, so states that differ only in them behave alike.

## 3. Runs

| Run | Expect | What it shows |
|---|---|---|
| `core` | pass | A client pipelining two units, with Query, Ext and Exec, and failing decryptions. Checks `RowsAttributedToTheirQuery` (every DataRow is decrypted with the query that produced it), `ResponsesInRequestOrder`, `SessionNotTornDown` (with keystore reads and the SQL parser succeeding, the registries never tear down a well-behaved client), `EveryRequestAnswered` (liveness), and the refinement `ImplementsPgRelay`. |
| `robust` | pass | All unit kinds including client mistakes, with censorship, failing decryptions, keystore read errors and SQL parser rejections; one unit in flight. Checks `ClientNeverHangs`: every unit is answered or the session ends. |
| `queue_leak` | violation | The pending queue falls out of step with ReadyForQuery. A censored Query stays on the queue, and the next query's rows are decrypted with its settings. With `CensorVerdicts = {TRUE}`, a `Batch` unit (two Executes before one Sync) leaves an entry behind, with the same effect. |
| `censor` | violation | The censor's error, written by the client reader, overtakes the responses to earlier pipelined queries. With one unit in flight and `Ext`/`Exec` units, a censored Parse is answered mid-block and the rest of the block runs the previous statement. |
| `teardown` | violation | A Bind of an unknown statement tears the session down, although the code's comment and the spec say it passes through. With `Prepare`/`Close` units: Close does not unregister a statement, so preparing the same name again tears the session down. With `Ext` units: a named portal the database closed at Sync stays registered, so binding it in the next transaction tears the session down. This run uses `MCPortalsNamed`, the unnamed portal and `p1`. With `ParserVerdicts = {TRUE, FALSE}`: a Parse whose query text the proxy's parser rejects tears the session down at 1022, before the database has seen it. |
| `txn_status` | violation | Inside a transaction a censored query is answered with the constant ReadyForQuery of line 46, status `I`. `ClientSeesTxnStatus` fails: when everything is quiet, the client's idea of the transaction status differs from the database's. |
| `stale_items` | violation | A pipelined query overwrites the session's data items, or a statement prepared before a simple query is executed again; its rows are handled with another query's items. With `Simple`/`Describe` units, a ParameterDescription is rewritten with another query's placeholder settings, or none after a ReadyForQuery deleted them. `SessionSettingsMatchResponse` fails. |
| `handshake` | pass | Every SSLRequest answer, TLS outcome and client close, and the stop timer may win the `select`. Checks `HandshakeOwnsClientSocket`, `OneClientReader`, and `StartupTerminates`. |
| `stop_timeout_leak` | violation | After the timer fires, the stopped reader blocks forever on the unbuffered `ClientStopResponse`. The spec says the channel has capacity 1. |
| `loops` | pass | Every packet (DataRow, ParameterDescription, RowDescription, Parse) and every settings slice at least as long as the columns, up to 3 columns. `ColumnsHandledAsSpecified` checks that each column is paired with its own slot. `ErrorPacketAsSpecified` checks `NewPgError` and `ReadyForQuery` against the decoder. |
| `destroy_key` | pass | Every `acra-keys destroy` command line of up to two key IDs of every kind, `--index` from -1 to 3, and every keystore failure. Checks `DestroysRequestedKey`. |
| `columns_short` | violation | A settings slice shorter than the columns. The DataRow guard `i <= len` admits `i == len` and panics at 996. With `Packets = {"t"}`, the ParameterDescription loop panics at 876. With `Packets = {"P"}`, the client reader's Parse loop panics at 1060 when a Parse has more parameter types than the session has placeholder settings. |

`PROJECT.json` records what each violation means under `findings`.

Every property of a passing run has a mutant in `PROJECT.json`: a plausible bug in the modelled code, which TLC must then catch. Examples:

- the 'S' sent before the stop;
- the reader restarted on the old socket;
- the writer not flushed;
- the queue not popped.

## 4. Bounds and why they suffice

**`core`:** 3 units, 2 in flight, two statement names (unnamed and `s1`), one portal (unnamed), 0 or 1 rows per query. This is enough for a censored or failing unit to be followed by a pipelined one, and for an `Exec` to re-run a statement prepared by an earlier `Ext`.

**`robust`:** only 1 unit in flight, and `Describe` in place of `Prepare` (a `Describe` unit starts with the same Parse). With 2 units in flight (and keystore read errors) it also passes, but takes almost 10 minutes for 1.44 million distinct states, too long for a routine run; pipelining is covered by `core`.

**`txn_status`:** 2 simple queries, either status: the first opens a transaction, the second is censored.

**Violation runs:** the smallest bounds that reach the bug, 1 to 3 units. Only `teardown` has a named portal; elsewhere the named portal only multiplies states.

**`loops`:** 3 columns is enough for a NULL between two set columns and for every slot kind at every position. The off-by-one mutants need at least 2.

**`stale_items`:** 3 units, 2 in flight. Two pipelined units are the shortest way for one query's settings to be read with another's response; 3 units let an `Exec` re-run a statement across a simple query.

**`destroy_key`:** `--index` -1..3 covers the negative, zero, current (1) and rotated (2, 3) cases; two key IDs covers the wrong argument count; one unsupported kind (`master`) and `invalid` cover both rejections.

**`PgStartup`:** finite. At most two reader goroutines can exist, because the code respawns once per startup.

## 5. Fairness

Weak fairness is assumed for:

- each goroutine: it runs whenever its socket has data;
- the database: it answers what it reads;
- the client reading its socket.

`DestroyKey` has weak fairness on `Parse` and `Execute`: a sequential command runs to its end.

The client is not required to send, and the `ClientStopTimeout` timer has no fairness: `StartupTerminates` must hold without relying on it. `PgColumns` has no fairness and no liveness property, because each run handles one packet.

## 6. Not modelled, and the plan for later

- **The packet codec** (`PacketHandler`, `ParsePacket`, `BindPacket`). It is not under src/. Packets are abstracted to their type, the request they answer, and their column count.
- **The keyloader registry and the keystore tests.** The registry is filled at init and only read afterwards; the tests are test code. `PROJECT.json` gives the reasons.
- **The keystore behind `acra-keys destroy`.** Its destroy methods are abstracted to success or failure; what they do on disk is another component.
