------------------------------ MODULE DestroyKey ------------------------------
(***************************************************************************)
(* The "acra-keys destroy" subcommand of cmd/acra-keys/keys/destroy-key.go: *)
(* Parse validates the arguments and remembers the key to destroy;         *)
(* Execute opens the keystore and DestroyKey calls the one keystore method *)
(* that destroys that key, the current one (index 1) or a rotated one      *)
(* (index 2..n).  Any error of Execute is log.Fatal: the process exits.    *)
(*                                                                         *)
(* A key ID on the command line is abstracted to what ParseKeyKind makes   *)
(* of it: a key kind (or "invalid" when ParseKeyKind fails) and a client   *)
(* ID.  The keystore is abstracted to whether each call succeeds.          *)
(***************************************************************************)
EXTENDS Integers, Sequences

CONSTANTS
    ClientIDs,      \* client (context) IDs named on the command line
    Indexes,        \* values of --index
    OtherKinds      \* kinds ParseKeyKind knows that destroy does not support

\* keystore.KeyPoisonKeypair, KeyPoisonSymmetric, KeySymmetric,
\* KeyStorageKeypair, KeySearch
PoisonKinds == {"poison-keypair", "poison-symmetric"}
ClientKinds == {"symmetric", "storage-keypair", "search"}
DestroyKinds == PoisonKinds \cup ClientKinds

KeyIDs == [kind : DestroyKinds \cup OtherKinds \cup {"invalid"}, id : ClientIDs]
NoID == "none"

\* A keystore destroy call: the kind, the client ID (NoID for the poison
\* methods, which take none) and the key: Current (DestroyPoisonKeyPair,
\* DestroyClientIDSymmetricKey, ...) or Rotated(i), the index given to the
\* rotated method (DestroyRotatedPoisonKeyPair, ...).
Current == <<>>
Rotated(i) == <<i>>
Call(kind, id, key) ==
    [kind |-> kind, id |-> IF kind \in PoisonKinds THEN NoID ELSE id, key |-> key]

VARIABLES
    args,            \* p.FlagSet.Args(): the key IDs after the flags
    index,           \* p.index (--index, default 1)
    phase,           \* "parse", "execute" or "exit"
    destroyKeyKind,  \* p.destroyKeyKind ("" until Parse sets it)
    contextID,       \* p.contextID (NoID until Parse sets it)
    destroyed,       \* the keystore calls that destroyed a key
    exit             \* "none", "usage" (Parse error), "fatal" or "ok"

vars == <<args, index, phase, destroyKeyKind, contextID, destroyed, exit>>

TypeOK ==
    /\ args \in Seq(KeyIDs) /\ index \in Indexes
    /\ phase \in {"parse", "execute", "exit"}
    /\ destroyKeyKind \in DestroyKinds \cup {""}
    /\ contextID \in ClientIDs \cup {NoID}
    /\ destroyed \subseteq [kind : DestroyKinds, id : ClientIDs \cup {NoID},
                            key : {Current} \cup {Rotated(i) : i \in Indexes}]
    /\ exit \in {"none", "usage", "fatal", "ok"}

\* Any command line with up to two key IDs and any --index.
Init ==
    /\ args \in UNION {[1..k -> KeyIDs] : k \in 0..2}
    /\ index \in Indexes
    /\ phase = "parse" /\ destroyKeyKind = "" /\ contextID = NoID
    /\ destroyed = {} /\ exit = "none"

\* Mutant: an unsupported kind is remembered as if it were supported.
ParseAcceptsAny ==
    /\ phase = "parse"
    /\ \E flagsOk \in BOOLEAN :
         IF ~flagsOk \/ Len(args) # 1 \/ index <= 0 \/ args[1].kind = "invalid"
         THEN phase' = "exit" /\ exit' = "usage" /\ UNCHANGED <<destroyKeyKind, contextID>>
         ELSE /\ destroyKeyKind' = args[1].kind
              /\ contextID' = IF args[1].kind \in ClientKinds THEN args[1].id ELSE contextID
              /\ phase' = "execute" /\ UNCHANGED exit
    /\ UNCHANGED <<args, index, destroyed>>

\* Parse: the flags (ParseFlagsWithConfig may fail), exactly one key ID, a
\* positive --index, a key ID ParseKeyKind accepts, and a kind destroy
\* supports; the client ID is kept for the client kinds only.
Parse ==
    /\ phase = "parse"
    /\ \E flagsOk \in BOOLEAN :
         IF \/ ~flagsOk \/ Len(args) # 1 \/ index <= 0
            \/ args[1].kind \notin DestroyKinds
         THEN phase' = "exit" /\ exit' = "usage" /\ UNCHANGED <<destroyKeyKind, contextID>>
         ELSE /\ destroyKeyKind' = args[1].kind
              /\ contextID' = IF args[1].kind \in ClientKinds THEN args[1].id ELSE contextID
              /\ phase' = "execute" /\ UNCHANGED exit
    /\ UNCHANGED <<args, index, destroyed>>

\* Mutant: the rotated method is used from index 1 on.
DestroyKeyCallFromOne(kind, id, idx) ==
    Call(kind, id, IF idx >= 1 THEN Rotated(idx) ELSE Current)

\* DestroyKey for a supported kind: index > 1 selects the rotated key at
\* that index, any other the current key.
DestroyKeyCall(kind, id, idx) ==
    Call(kind, id, IF idx > 1 THEN Rotated(idx) ELSE Current)

\* Execute: OpenKeyStoreForWriting, then DestroyKeyCommand; a failure of
\* either, or DestroyKey's ErrUnknownKeyKind, is log.Fatal.
Execute ==
    /\ phase = "execute"
    /\ \E opened, done \in BOOLEAN :
         IF opened /\ done /\ destroyKeyKind \in DestroyKinds
         THEN /\ destroyed' = destroyed \cup
                               {DestroyKeyCall(destroyKeyKind, contextID, index)}
              /\ exit' = "ok"
         ELSE exit' = "fatal" /\ UNCHANGED destroyed
    /\ phase' = "exit"
    /\ UNCHANGED <<args, index, destroyKeyKind, contextID>>

Exited == phase = "exit" /\ UNCHANGED vars

Next == Parse \/ Execute \/ Exited

Spec == Init /\ [][Next]_vars /\ WF_vars(Parse \/ Execute)

-----------------------------------------------------------------------------

\* The key the user named, as the --index usage text states it: "1 -
\* represents current key, 2..n - rotated key".
Requested == Call(args[1].kind, args[1].id, IF index = 1 THEN Current ELSE Rotated(index))

\* Whenever the command exits successfully, exactly the key named on the
\* command line (its kind, its client, current or the rotated one at that
\* index) was destroyed: Parse's validation and DestroyKey's choice of
\* keystore method agree with the usage text.
DestroysRequestedKey == exit = "ok" => destroyed = {Requested}

=============================================================================
