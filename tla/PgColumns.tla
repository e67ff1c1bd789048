------------------------------- MODULE PgColumns -------------------------------
(***************************************************************************)
(* The per-column loops of the server reader in                            *)
(* decryptor/postgresql/pg_decryptor.go: handleQueryDataPacket (a DataRow,  *)
(* "D"), handleParameterDescription ("t") and handleRowDescription ("T"),  *)
(* and the parameter loop of the client reader's replaceOIDsInParsePackets *)
(* (a Parse, "P").                                                         *)
(* Each loop pairs column (or parameter) i with slot i of a settings slice *)
(* held by the session.  The model runs one iteration per step over every  *)
(* packet and slice up to MaxCols entries, and compares what the loop did  *)
(* with what the spec says it does.                                        *)
(*                                                                         *)
(* A slot is "nil" (no setting), "plain" (a setting without type-aware     *)
(* support), "aware" (type-aware, but mapEncryptedTypeToOID knows no OID   *)
(* for its type) or "typed" (type-aware, mapped).                          *)
(* Column bytes and OIDs are abstracted to what the loop chose for them.   *)
(***************************************************************************)
EXTENDS Naturals, Sequences

CONSTANTS
    MaxCols,        \* most columns in a row, fields or parameters
    Packets,        \* subset of {"D", "t", "T", "P"}
    ShortSettings   \* may the settings slice be shorter than the columns

ASSUME /\ MaxCols \in Nat /\ Packets \subseteq {"D", "t", "T", "P"}
       /\ ShortSettings \in BOOLEAN

Slots == {"nil", "plain", "aware", "typed"}
TypeAware == {"aware", "typed"}
SlotSeqs == UNION {[1..k -> Slots] : k \in 0..MaxCols}

VARIABLES
    pkt,       \* the packet being handled
    n,         \* columnCount, len(ParameterOIDs), len(Fields) or len(params)
    nulls,     \* the (0-based) columns of a DataRow that are NULL
    isNil,     \* the settings slice is nil
    items,     \* the settings slice (empty when nil)
    i,         \* the loop index
    out,       \* per column: the setting used, or the OID written
    st         \* "start", "loop", "done" or "panic" (index out of range)

vars == <<pkt, n, nulls, isNil, items, i, out, st>>

TypeOK ==
    /\ pkt \in Packets /\ n \in 0..MaxCols /\ nulls \subseteq 0..MaxCols
    /\ isNil \in BOOLEAN /\ items \in SlotSeqs /\ i \in 0..MaxCols
    /\ out \in Seq({"null", "none", "orig", "enc", "bytea"} \cup Slots)
    /\ st \in {"start", "loop", "done", "panic"}

\* Any packet the database can send with any settings the session holds.
Init ==
    /\ pkt \in Packets /\ n \in 0..MaxCols
    /\ nulls \in IF pkt = "D" THEN SUBSET (0..n-1) ELSE {{}}
    /\ isNil \in BOOLEAN
    /\ items \in IF isNil THEN {<<>>} ELSE SlotSeqs
    /\ ShortSettings \/ isNil \/ Len(items) >= n
    /\ i = 0 /\ out = <<>> /\ st = "start"

Untouched == [j \in 1..n |-> "orig"]

\* handleQueryDataPacket returns early on a row without columns.
DataRowStart ==
    /\ st = "start" /\ pkt = "D"
    /\ st' = IF n = 0 THEN "done" ELSE "loop"
    /\ UNCHANGED <<pkt, n, nulls, isNil, items, i, out>>

\* handleParameterDescription returns early, the packet untouched, when the
\* session has no placeholder settings.
ParameterDescriptionStart ==
    /\ st = "start" /\ pkt = "t"
    /\ st' = IF isNil THEN "done" ELSE "loop"
    /\ out' = IF isNil THEN Untouched ELSE out
    /\ UNCHANGED <<pkt, n, nulls, isNil, items, i>>

\* handleRowDescription returns early, the packet untouched, when the
\* session has no data items or their count differs from the fields'.
RowDescriptionStart ==
    /\ st = "start" /\ pkt = "T"
    /\ st' = IF isNil \/ Len(items) # n THEN "done" ELSE "loop"
    /\ out' = IF st' = "done" THEN Untouched ELSE out
    /\ UNCHANGED <<pkt, n, nulls, isNil, items, i>>

\* replaceOIDsInParsePackets returns early, the Parse untouched, when it
\* specifies no parameter types or the session has no placeholder settings.
ParseStart ==
    /\ st = "start" /\ pkt = "P"
    /\ st' = IF n = 0 \/ isNil THEN "done" ELSE "loop"
    /\ out' = IF st' = "done" THEN Untouched ELSE out
    /\ UNCHANGED <<pkt, n, nulls, isNil, items, i>>

\* Go panics on a slice index at or past its length.
Panic == st' = "panic" /\ UNCHANGED <<out, i>>

Next1(v) == out' = Append(out, v) /\ i' = i + 1 /\ UNCHANGED st

\* Mutant: the setting of the previous column is used.
DataRowColumnShifted ==
    /\ st = "loop" /\ pkt = "D" /\ i < n
    /\ IF i \in nulls
       THEN Next1("null")
       ELSE IF ~isNil /\ i <= Len(items)
            THEN IF i >= Len(items) THEN Panic
                 ELSE Next1(IF i = 0 \/ items[i] = "nil" THEN "none" ELSE items[i])
            ELSE Next1("none")
    /\ UNCHANGED <<pkt, n, nulls, isNil, items>>

\* Mutant: the loop runs while i <= columnCount.
DataRowColumnPastEnd ==
    /\ st = "loop" /\ pkt = "D" /\ i <= n
    /\ IF i \in nulls
       THEN Next1("null")
       ELSE IF ~isNil /\ i <= Len(items)
            THEN IF i >= Len(items) THEN Panic
                 ELSE Next1(IF items[i + 1] = "nil" THEN "none" ELSE items[i + 1])
            ELSE Next1("none")
    /\ UNCHANGED <<pkt, n, nulls, isNil, items>>

\* One iteration of the column loop of handleQueryDataPacket: NULL columns
\* are skipped; the setting is taken when encryptionSettings != nil and
\* i <= len(encryptionSettings) and the slot is not nil.
DataRowColumn ==
    /\ st = "loop" /\ pkt = "D" /\ i < n
    /\ IF i \in nulls
       THEN Next1("null")
       ELSE IF ~isNil /\ i <= Len(items)
            THEN IF i >= Len(items) THEN Panic
                 ELSE Next1(IF items[i + 1] = "nil" THEN "none" ELSE items[i + 1])
            ELSE Next1("none")
    /\ UNCHANGED <<pkt, n, nulls, isNil, items>>

\* One iteration of handleParameterDescription: items[i] with no length check.
ParameterOID ==
    /\ st = "loop" /\ pkt = "t" /\ i < n
    /\ IF i >= Len(items) THEN Panic
       ELSE Next1(IF items[i + 1] = "typed" THEN "enc" ELSE "orig")
    /\ UNCHANGED <<pkt, n, nulls, isNil, items>>

\* One iteration of handleRowDescription (lengths already checked equal).
RowField ==
    /\ st = "loop" /\ pkt = "T" /\ i < n
    /\ IF i >= Len(items) THEN Panic
       ELSE Next1(IF items[i + 1] = "typed" THEN "enc" ELSE "orig")
    /\ UNCHANGED <<pkt, n, nulls, isNil, items>>

\* One iteration of replaceOIDsInParsePackets: items[i] with no length
\* check; a type-aware setting makes the parameter's type BYTEA, whether
\* or not an encrypted-type OID exists for it.
ParseParam ==
    /\ st = "loop" /\ pkt = "P" /\ i < n
    /\ IF i >= Len(items) THEN Panic
       ELSE Next1(IF items[i + 1] \in TypeAware THEN "bytea" ELSE "orig")
    /\ UNCHANGED <<pkt, n, nulls, isNil, items>>

LoopEnd ==
    /\ st = "loop" /\ i = n
    /\ st' = "done"
    /\ UNCHANGED <<pkt, n, nulls, isNil, items, i, out>>

Finished == st \in {"done", "panic"} /\ UNCHANGED vars

Next == DataRowStart \/ ParameterDescriptionStart \/ RowDescriptionStart
        \/ ParseStart \/ DataRowColumn \/ ParameterOID \/ RowField
        \/ ParseParam \/ LoopEnd
        \/ Finished

Spec == Init /\ [][Next]_vars

-----------------------------------------------------------------------------
(* The spec's reading of each packet (section 4.2): a DataRow column is    *)
(* decrypted with its own column's setting, or none if it has none; a      *)
(* RowDescription field or a parameter gets the cryptor's OID when its     *)
(* setting is type-aware; a RowDescription whose settings do not match its *)
(* fields passes through; a ParameterDescription with a count mismatch     *)
(* "silently proceeds" (section 9); a Parse parameter whose column is      *)
(* type-aware gets the BYTEA OID.                                          *)

SlotAt(j) == IF isNil \/ j > Len(items) THEN "nil" ELSE items[j]

Expected ==
    CASE pkt = "D" ->
           [j \in 1..n |-> IF j - 1 \in nulls THEN "null"
                           ELSE IF SlotAt(j) = "nil" THEN "none" ELSE SlotAt(j)]
      [] pkt = "T" /\ Len(items) # n -> Untouched
      [] pkt = "P" ->
           [j \in 1..n |-> IF SlotAt(j) \in TypeAware THEN "bytea" ELSE "orig"]
      [] OTHER ->
           [j \in 1..n |-> IF SlotAt(j) = "typed" THEN "enc" ELSE "orig"]

\* Whenever a column loop finishes, every column was paired with its own
\* setting slot, NULL columns were left alone and only type-aware fields
\* or parameters got a new OID.
ColumnsHandledAsSpecified == st = "done" => out = Expected

\* No column loop indexes a settings slice past its end (a Go panic that
\* kills the proxy goroutine).
NoIndexOutOfRange == st # "panic"

=============================================================================
