-------------------------- MODULE CredentialStore ---------------------------
(***************************************************************************)
(* The broker credential store of services/paper-engine/adapters/           *)
(* credentials.py and the migration of legacy rows.  The store and the      *)
(* migration are separate processes on one database file.  The migration    *)
(* copies the file, reads the rows, and encrypts them in a transaction that *)
(* SQLite begins at the first update; a failure restores the copy, and      *)
(* either process may die at any step.  A secret is a value and the keys it *)
(* is wrapped in, innermost first: none for a legacy plaintext.             *)
(***************************************************************************)
EXTENDS Integers, Sequences, FiniteSets, SequencesExt

CONSTANTS
    Ids,          \* connection ids
    Values,       \* secrets
    Legacy,       \* [Ids -> row or None]: what an older version left in the file
    Online,       \* may connections change while a migration runs?
    MaxSaves, MaxBackups, MaxKeys, \* bounds: saves, migrations, ephemeral keys
    None

\* The key of BROKER_CREDENTIAL_ENCRYPTION_KEY; ephemeral keys are 1, 2, ...
ConfiguredKey == 0

ASSUME StoreAssumption ==
    /\ Online \in BOOLEAN /\ MaxSaves \in Nat /\ MaxBackups \in Nat /\ MaxKeys \in Nat
    /\ None \notin Values /\ None \notin Nat

Cells == [val : Values, wraps : Seq(Nat)]
Rows == [secret : Cells, extra : Cells]

\* What an older version left are plaintexts and cells under the configured key, in any
\* mixture; the parameters of a connection stand for the same value as its secret.
ASSUME LegacyAssumption ==
    /\ None \notin Rows /\ Legacy \in [Ids -> Rows \cup {None}]
    /\ \A id \in Ids : Legacy[id] # None =>
          /\ Legacy[id].secret.val = Legacy[id].extra.val
          /\ {Legacy[id].secret.wraps, Legacy[id].extra.wraps} \subseteq {<<>>, <<ConfiguredKey>>}

VARIABLES
    configured, \* is the key set in the environment?
    production, \* ENVIRONMENT is production or staging
    key,        \* cipher of the running store, None when it is down
    keys,       \* ephemeral keys generated so far
    rows,       \* broker_connections: [Ids -> [secret, extra] or None]
    intact,     \* FALSE while a restore has overwritten part of the file
    backups,    \* the verified copies, oldest first
    mig,        \* the migration: [pc, cipher, seen, done]
    saves,      \* bound: saves so far
    held,       \* history: the value each connection should have, or None
    migrated    \* history: a migration has committed

vars == <<configured, production, key, keys, rows, intact, backups, mig, saves, held, migrated>>

NoMigration == [pc |-> "idle", cipher |-> None, seen |-> None, done |-> {}]

Plain(v) == [val |-> v, wraps |-> <<>>]
Encrypted(cell) == cell.wraps # <<>>

Init ==
    /\ configured \in BOOLEAN /\ production \in BOOLEAN
    /\ key = None /\ keys = 0
    /\ rows = Legacy /\ intact = TRUE /\ backups = <<>> /\ mig = NoMigration
    /\ saves = 0 /\ migrated = FALSE
    /\ held = [id \in Ids |-> IF Legacy[id] = None THEN None ELSE Legacy[id].secret.val]

-----------------------------------------------------------------------------
(* Keys and cells.                                                         *)

\* _resolve_fernet_key: a production process without the key does not start.
Resolvable == configured \/ (~production /\ keys < MaxKeys)
Resolved == IF configured THEN ConfiguredKey ELSE keys + 1
KeysAfter == IF configured THEN keys ELSE keys + 1

\* _decrypt: None stands for DecryptionError, of a plaintext too.
Decrypt(cell, k) == IF cell.wraps = <<k>> THEN cell.val ELSE None

\* Mutant: what is encrypted already is encrypted again.
EncryptAgain(cell, k) == [cell EXCEPT !.wraps = Append(@, k)]

\* The migration leaves an encrypted cell alone.
EncryptLegacy(cell, k) == IF Encrypted(cell) THEN cell ELSE [cell EXCEPT !.wraps = <<k>>]

-----------------------------------------------------------------------------
(* The store.                                                              *)

StartStore ==
    /\ key = None /\ Resolvable
    /\ key' = Resolved /\ keys' = KeysAfter
    /\ UNCHANGED <<configured, production, rows, intact, backups, mig, saves, held, migrated>>

StopStore ==
    /\ key # None
    /\ key' = None
    /\ UNCHANGED <<configured, production, keys, rows, intact, backups, mig, saves, held, migrated>>

\* The file can be written: it is whole, no transaction of the migration is open,
\* and connections are left alone during a migration unless it is run online.
Writable == key # None /\ intact /\ mig.done = {} /\ (mig.pc = "idle" \/ Online)

\* save_connection, for an environment other than LIVE and permitted parameters.
SaveConnection(id, v) ==
    /\ Writable /\ saves < MaxSaves
    /\ LET cell == [val |-> v, wraps |-> <<key>>]
       IN rows' = [rows EXCEPT ![id] = [secret |-> cell, extra |-> cell]]
    /\ saves' = saves + 1 /\ held' = [held EXCEPT ![id] = v]
    /\ UNCHANGED <<configured, production, key, keys, intact, backups, mig, migrated>>

DeleteConnection(id) ==
    /\ Writable /\ rows[id] # None
    /\ rows' = [rows EXCEPT ![id] = None]
    /\ held' = [held EXCEPT ![id] = None]
    /\ UNCHANGED <<configured, production, key, keys, intact, backups, mig, saves, migrated>>

\* The reads of the store and of the broker routes, while the store is up and the
\* file is whole.  _row_to_config decrypts every cell of a row or raises.
Unreadable(id) ==
    rows[id] # None /\ None \in {Decrypt(rows[id].secret, key), Decrypt(rows[id].extra, key)}

GetConnection(id) ==
    IF rows[id] = None THEN "not found"
    ELSE IF Unreadable(id) THEN "decryption failed" ELSE "found"

\* One unreadable row fails the whole list.
ListConnections ==
    IF \E id \in Ids : Unreadable(id) THEN None
    ELSE [id \in {i \in Ids : rows[i] # None} |-> Decrypt(rows[id].secret, key)]

-----------------------------------------------------------------------------
(* migrate_plaintext_credentials.                                          *)

\* The copy, verified before anything is changed.
Backup ==
    /\ mig.pc = "idle" /\ intact /\ Resolvable /\ Len(backups) < MaxBackups
    /\ backups' = Append(backups, rows)
    /\ mig' = [NoMigration EXCEPT !.pc = "read", !.cipher = Resolved]
    /\ keys' = KeysAfter
    /\ UNCHANGED <<configured, production, key, rows, intact, saves, held, migrated>>

\* The SELECT, which begins no transaction.
ReadRows ==
    /\ mig.pc = "read"
    /\ mig' = [mig EXCEPT !.pc = "update", !.seen = rows]
    /\ UNCHANGED <<configured, production, key, keys, rows, intact, backups, saves, held, migrated>>

NeedsUpdate(id) ==
    mig.seen[id] # None /\ ~(Encrypted(mig.seen[id].secret) /\ Encrypted(mig.seen[id].extra))

\* One UPDATE, made of the row as it was read.
UpdateRow(id) ==
    /\ mig.pc = "update" /\ id \notin mig.done /\ NeedsUpdate(id)
    /\ mig' = [mig EXCEPT !.done = @ \cup {id}]
    /\ UNCHANGED <<configured, production, key, keys, rows, intact, backups, saves, held, migrated>>

Migrated(id) ==
    IF id \notin mig.done \/ rows[id] = None THEN rows[id]
    ELSE [secret |-> EncryptLegacy(mig.seen[id].secret, mig.cipher),
          extra  |-> EncryptLegacy(mig.seen[id].extra, mig.cipher)]

CommitMigration ==
    /\ mig.pc = "update" /\ \A id \in Ids : NeedsUpdate(id) => id \in mig.done
    /\ rows' = [id \in Ids |-> Migrated(id)]
    /\ mig' = NoMigration /\ migrated' = TRUE
    /\ UNCHANGED <<configured, production, key, keys, intact, backups, saves, held>>

\* A step of the transaction raises: it is rolled back and the restore begins.
MigrationFails ==
    /\ mig.pc \in {"read", "update"}
    /\ mig' = [mig EXCEPT !.pc = "restore", !.done = {}]
    /\ intact' = FALSE
    /\ UNCHANGED <<configured, production, key, keys, rows, backups, saves, held, migrated>>

\* Mutant: the restored file is the first backup ever made.
RestoredFirst == backups[1]

\* The file that is copied back.
Restored == Last(backups)

\* The copy over the database, by the migration or, after a death in the middle of
\* it, by an operator.
RestoreBackup ==
    /\ ~intact /\ mig.pc \in {"restore", "idle"}
    /\ rows' = Restored /\ intact' = TRUE /\ mig' = NoMigration
    /\ UNCHANGED <<configured, production, key, keys, backups, saves, held, migrated>>

\* The process dies: SQLite rolls an open transaction back.
MigrationDies ==
    /\ mig.pc # "idle"
    /\ mig' = NoMigration
    /\ UNCHANGED <<configured, production, key, keys, rows, intact, backups, saves, held, migrated>>

Next ==
    \/ StartStore \/ StopStore
    \/ \E id \in Ids, v \in Values : SaveConnection(id, v)
    \/ \E id \in Ids : DeleteConnection(id)
    \/ Backup \/ ReadRows \/ CommitMigration \/ MigrationFails \/ RestoreBackup \/ MigrationDies
    \/ \E id \in Ids : UpdateRow(id)

Spec == Init /\ [][Next]_vars

-----------------------------------------------------------------------------
(* Properties.                                                             *)

\* With the key set in the environment, every connection keeps the value it was
\* given, through restarts, migrations that commit, fail or die, and migrations of
\* rows migrated before: it is in the file as a plaintext or under one layer of the
\* key, and in the last backup while the file is half restored.
SecretsRecoverable ==
    configured =>
        LET file == IF intact THEN rows ELSE Last(backups)
        IN \A id \in Ids : held[id] # None =>
              /\ file[id] # None
              /\ \A cell \in {file[id].secret, file[id].extra} :
                    /\ cell.val = held[id]
                    /\ Encrypted(cell) => Decrypt(cell, ConfiguredKey) = held[id]

\* Once a migration has committed no plaintext is left in the file and, with the key
\* set in the environment, a running store lists every connection with the value it
\* was given, whatever is saved, deleted, migrated again or restored later.
MigratedStaysReadable ==
    migrated /\ intact =>
        /\ \A id \in Ids : rows[id] # None => Encrypted(rows[id].secret) /\ Encrypted(rows[id].extra)
        /\ configured /\ key # None =>
              /\ ListConnections = [id \in {i \in Ids : held[i] # None} |-> held[id]]
              /\ \A id \in Ids : GetConnection(id) # "decryption failed"

=============================================================================
