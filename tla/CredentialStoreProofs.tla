------------------------ MODULE CredentialStoreProofs -----------------------
(***************************************************************************)
(* Proofs about the credential store and its migration, for any             *)
(* connections, secrets and legacy file, when no connection changes while a *)
(* migration runs.  With Online = TRUE a save between the backup and the    *)
(* restore is lost, and the first theorem does not hold.                    *)
(***************************************************************************)
EXTENDS CredentialStore, TLAPS

Files == [Ids -> Rows \cup {None}]

Migrations ==
    [pc : {"idle", "read", "update", "restore"}, cipher : Nat \cup {None},
     seen : Files \cup {None}, done : SUBSET Ids]

-----------------------------------------------------------------------------
(***************************************************************************)
(* The inductive invariant.                                                 *)
(***************************************************************************)

TypeInv ==
    /\ configured \in BOOLEAN /\ migrated \in BOOLEAN /\ intact \in BOOLEAN
    /\ key \in Nat \cup {None} /\ keys \in Nat
    /\ rows \in Files /\ backups \in Seq(Files) /\ mig \in Migrations
    /\ held \in [Ids -> Values \cup {None}]

\* With the key in the environment, the store and the migration use that one.
KeyInv ==
    /\ mig.pc # "idle" => mig.cipher \in Nat
    /\ configured => key \in {ConfiguredKey, None} /\ mig.cipher \in {ConfiguredKey, None}

\* Every cell of a connection has the value it was given.
ValueInv ==
    \A id \in Ids :
        /\ held[id] = None <=> rows[id] = None
        /\ rows[id] # None => rows[id].secret.val = held[id] /\ rows[id].extra.val = held[id]

\* With the key in the environment, nothing is encrypted under another.
Unlocked(cell) == cell.wraps \in {<<>>, <<ConfiguredKey>>}

WrapInv ==
    configured => \A id \in Ids : rows[id] # None =>
                     Unlocked(rows[id].secret) /\ Unlocked(rows[id].extra)

\* A committed migration leaves no plaintext.
CipherInv ==
    migrated => \A id \in Ids : rows[id] # None =>
                   Encrypted(rows[id].secret) /\ Encrypted(rows[id].extra)

\* While a migration runs, and while the file is half restored, the last backup is the
\* file as it was when the migration began; the transaction works on that.
BackupInv ==
    /\ mig.pc # "idle" \/ ~intact => backups # <<>> /\ Last(backups) = rows
    /\ mig.pc = "update" => mig.seen = rows
    /\ mig.pc \in {"read", "update"} => intact
    /\ mig.pc # "update" => mig.done = {}

StoreInv == TypeInv /\ KeyInv /\ ValueInv /\ WrapInv /\ CipherInv /\ BackupInv

-----------------------------------------------------------------------------
(***************************************************************************)
(* Rows and backups.                                                        *)
(***************************************************************************)

\* The last backup is the one just made.
LEMMA LastOfAppend ==
    ASSUME NEW S, NEW s \in Seq(S), NEW e \in S
    PROVE  Last(Append(s, e)) = e /\ Append(s, e) # <<>> /\ Append(s, e) \in Seq(S)
  BY DEF Last

\* The migration changes neither the value of a cell nor a layer that it has.
LEMMA EncryptLegacyCell ==
    ASSUME NEW c \in Cells, NEW k \in Nat
    PROVE  /\ EncryptLegacy(c, k) \in Cells
           /\ EncryptLegacy(c, k).val = c.val
           /\ Encrypted(EncryptLegacy(c, k))
           /\ Unlocked(c) /\ k = ConfiguredKey => Unlocked(EncryptLegacy(c, k))
<1>1. CASE Encrypted(c)
  BY <1>1 DEF EncryptLegacy
<1>2. CASE ~Encrypted(c)
  <2>1. EncryptLegacy(c, k) = [c EXCEPT !.wraps = <<k>>]
    BY <1>2 DEF EncryptLegacy
  <2>2. <<k>> \in Seq(Nat) /\ <<k>> # <<>>
    OBVIOUS
  <2> QED
    BY <2>1, <2>2 DEF Cells, Encrypted, Unlocked
<1> QED
  BY <1>1, <1>2

\* A start and a migration take a natural number for a key, and the configured one if
\* there is one.
LEMMA ResolvedKey ==
    ASSUME configured \in BOOLEAN, keys \in Nat
    PROVE  Resolved \in Nat /\ KeysAfter \in Nat /\ (configured => Resolved = ConfiguredKey)
  BY DEF Resolved, KeysAfter, ConfiguredKey

\* The migration that does not run is one.
LEMMA NoMigrationType == NoMigration \in Migrations
  BY DEF NoMigration, Migrations

\* What a commit makes of a row: its cells are all encrypted, with their values.
LEMMA MigratedRow ==
    ASSUME StoreInv, CommitMigration, NEW id \in Ids
    PROVE  /\ rows[id] = None => rows'[id] = None
           /\ rows[id] # None =>
                /\ rows'[id] \in Rows
                /\ rows'[id].secret.val = rows[id].secret.val /\ rows'[id].extra.val = rows[id].extra.val
                /\ Encrypted(rows'[id].secret) /\ Encrypted(rows'[id].extra)
                /\ configured /\ Unlocked(rows[id].secret) => Unlocked(rows'[id].secret)
                /\ configured /\ Unlocked(rows[id].extra) => Unlocked(rows'[id].extra)
<1>1. /\ rows'[id] = Migrated(id) /\ (NeedsUpdate(id) => id \in mig.done)
      /\ mig.pc = "update" /\ mig.seen = rows /\ rows[id] \in Rows \cup {None}
  BY DEF CommitMigration, StoreInv, TypeInv, BackupInv, Files
<1>2. mig.cipher \in Nat /\ (configured => mig.cipher = ConfiguredKey)
  BY <1>1, LegacyAssumption, StoreAssumption DEF StoreInv, KeyInv
<1>3. CASE rows[id] = None
  BY <1>1, <1>3 DEF Migrated
<1>4. CASE rows[id] # None
  <2>1. rows[id] \in Rows /\ rows[id].secret \in Cells /\ rows[id].extra \in Cells
    BY <1>1, <1>4 DEF Rows
  <2>2. CASE id \in mig.done
    <3> DEFINE a == EncryptLegacy(rows[id].secret, mig.cipher)
               b == EncryptLegacy(rows[id].extra, mig.cipher)
    <3>1. rows'[id] = [secret |-> a, extra |-> b]
      BY <1>1, <1>4, <2>2 DEF Migrated
    <3>2. /\ a \in Cells /\ a.val = rows[id].secret.val /\ Encrypted(a)
          /\ configured /\ Unlocked(rows[id].secret) => Unlocked(a)
      BY <1>2, <2>1, EncryptLegacyCell
    <3>3. /\ b \in Cells /\ b.val = rows[id].extra.val /\ Encrypted(b)
          /\ configured /\ Unlocked(rows[id].extra) => Unlocked(b)
      BY <1>2, <2>1, EncryptLegacyCell
    <3> HIDE DEF a, b
    <3> QED
      BY <1>4, <3>1, <3>2, <3>3 DEF Rows
  <2>3. CASE id \notin mig.done
    <3>1. rows'[id] = rows[id] /\ ~NeedsUpdate(id)
      BY <1>1, <2>3 DEF Migrated
    <3>2. Encrypted(rows[id].secret) /\ Encrypted(rows[id].extra)
      BY <1>1, <1>4, <3>1 DEF NeedsUpdate
    <3> QED
      BY <1>4, <2>1, <3>1, <3>2
  <2> QED
    BY <2>2, <2>3
<1> QED
  BY <1>3, <1>4

\* A restore puts back the rows as they are: nothing has changed since the backup.
LEMMA RestoreKeepsRows ==
    ASSUME StoreInv, RestoreBackup
    PROVE  UNCHANGED rows
  BY DEF StoreInv, BackupInv, RestoreBackup, Restored

\* The cells that a save writes.
LEMMA SavedCell ==
    ASSUME NEW v \in Values, NEW k \in Nat
    PROVE  LET c == [val |-> v, wraps |-> <<k>>]
           IN /\ c \in Cells /\ Encrypted(c) /\ (k = ConfiguredKey => Unlocked(c))
              /\ [secret |-> c, extra |-> c] \in Rows
  BY DEF Cells, Encrypted, Unlocked, Rows

-----------------------------------------------------------------------------
(***************************************************************************)
(* Every step keeps the invariant.                                          *)
(***************************************************************************)

\* The file that an older version left has the invariant,
LEMMA InitialInv == Init => StoreInv
<1> SUFFICES ASSUME Init PROVE StoreInv
  OBVIOUS
<1>1. rows \in Files /\ rows = Legacy
  BY LegacyAssumption DEF Init, Files
<1>2. TypeInv
  <2>1. \A id \in Ids : rows[id] # None => rows[id].secret.val \in Values
    BY <1>1 DEF Files, Rows, Cells
  <2>2. held \in [Ids -> Values \cup {None}]
    BY <1>1, <2>1 DEF Init
  <2>3. mig \in Migrations
    BY DEF Init, NoMigration, Migrations
  <2>4. backups \in Seq(Files)
    BY DEF Init
  <2> QED
    BY <1>1, <2>2, <2>3, <2>4 DEF Init, TypeInv
<1>3. KeyInv /\ CipherInv /\ BackupInv
  BY DEF Init, NoMigration, KeyInv, CipherInv, BackupInv
<1>4. ValueInv /\ WrapInv
  <2>1. ASSUME NEW id \in Ids, rows[id] # None
        PROVE  /\ rows[id].secret.val \in Values /\ held[id] = rows[id].secret.val
               /\ rows[id].extra.val = held[id]
               /\ Unlocked(rows[id].secret) /\ Unlocked(rows[id].extra)
    BY <1>1, <2>1, LegacyAssumption DEF Init, Files, Rows, Cells, Unlocked
  <2>2. \A id \in Ids : rows[id] = None => held[id] = None
    BY <1>1 DEF Init
  <2> QED
    BY <2>1, <2>2, StoreAssumption DEF ValueInv, WrapInv
<1> QED
  BY <1>2, <1>3, <1>4 DEF StoreInv

\* Every step keeps every type: a save, a commit and a restore put rows where rows were.
LEMMA NextTypes ==
    ASSUME ~Online, StoreInv, [Next]_vars
    PROVE  TypeInv'
<1> USE DEF StoreInv, TypeInv
<1>1. CASE StartStore
  BY <1>1, ResolvedKey DEF StartStore
<1>2. CASE StopStore
  BY <1>2 DEF StopStore
<1>3. ASSUME NEW id \in Ids, NEW v \in Values, SaveConnection(id, v) PROVE TypeInv'
  <2>1. key \in Nat
    BY <1>3 DEF SaveConnection, Writable
  <2>2. PICK r \in Rows : rows' = [rows EXCEPT ![id] = r]
    BY <1>3, <2>1, SavedCell DEF SaveConnection
  <2>3. rows' \in Files /\ held' \in [Ids -> Values \cup {None}]
    BY <1>3, <2>2 DEF SaveConnection, Files
  <2> QED
    BY <1>3, <2>3 DEF SaveConnection
<1>4. ASSUME NEW id \in Ids, DeleteConnection(id) PROVE TypeInv'
  <2>1. rows' \in Files /\ held' \in [Ids -> Values \cup {None}]
    BY <1>4 DEF DeleteConnection, Files
  <2> QED
    BY <1>4, <2>1 DEF DeleteConnection
<1>5. CASE Backup
  <2>1. backups' \in Seq(Files) /\ keys' \in Nat
    BY <1>5, LastOfAppend, ResolvedKey DEF Backup
  <2>2. mig' \in Migrations
    BY <1>5, ResolvedKey DEF Backup, NoMigration, Migrations
  <2> QED
    BY <1>5, <2>1, <2>2 DEF Backup
<1>6. CASE ReadRows
  <2>1. mig' \in Migrations
    BY <1>6 DEF ReadRows, Migrations
  <2> QED
    BY <1>6, <2>1 DEF ReadRows
<1>7. CASE CommitMigration
  <2>1. DOMAIN rows' = Ids /\ rows' = [id \in Ids |-> rows'[id]]
    BY <1>7 DEF CommitMigration
  <2>2. \A id \in Ids : rows'[id] \in Rows \cup {None}
    BY <1>7, MigratedRow
  <2>3. rows' \in Files /\ mig' \in Migrations
    BY <1>7, <2>1, <2>2, NoMigrationType DEF CommitMigration, Files
  <2> QED
    BY <1>7, <2>3 DEF CommitMigration
<1>8. CASE MigrationFails
  <2>1. mig' \in Migrations
    BY <1>8 DEF MigrationFails, Migrations
  <2> QED
    BY <1>8, <2>1 DEF MigrationFails
<1>9. CASE RestoreBackup
  BY <1>9, RestoreKeepsRows, NoMigrationType DEF RestoreBackup
<1>10. CASE MigrationDies
  BY <1>10, NoMigrationType DEF MigrationDies
<1>11. ASSUME NEW id \in Ids, UpdateRow(id) PROVE TypeInv'
  <2>1. mig' \in Migrations
    BY <1>11 DEF UpdateRow, Migrations
  <2> QED
    BY <1>11, <2>1 DEF UpdateRow
<1>12. CASE UNCHANGED vars
  BY <1>12 DEF vars
<1> QED
  BY <1>1, <1>2, <1>3, <1>4, <1>5, <1>6, <1>7, <1>8, <1>9, <1>10, <1>11, <1>12 DEF Next

\* A start and a migration resolve the one key that the environment has.
LEMMA NextKeys ==
    ASSUME ~Online, StoreInv, [Next]_vars
    PROVE  KeyInv'
<1> USE DEF StoreInv, TypeInv, KeyInv, NoMigration, Migrations
<1>1. CASE StartStore
  BY <1>1, ResolvedKey DEF StartStore
<1>2. CASE StopStore
  BY <1>2 DEF StopStore
<1>3. ASSUME NEW id \in Ids, NEW v \in Values, SaveConnection(id, v) PROVE KeyInv'
  BY <1>3 DEF SaveConnection
<1>4. ASSUME NEW id \in Ids, DeleteConnection(id) PROVE KeyInv'
  BY <1>4 DEF DeleteConnection
<1>5. CASE Backup
  BY <1>5, ResolvedKey DEF Backup
<1>6. CASE ReadRows
  BY <1>6 DEF ReadRows
<1>7. CASE CommitMigration
  BY <1>7 DEF CommitMigration
<1>8. CASE MigrationFails
  BY <1>8 DEF MigrationFails
<1>9. CASE RestoreBackup
  BY <1>9 DEF RestoreBackup
<1>10. CASE MigrationDies
  BY <1>10 DEF MigrationDies
<1>11. ASSUME NEW id \in Ids, UpdateRow(id) PROVE KeyInv'
  BY <1>11 DEF UpdateRow
<1>12. CASE UNCHANGED vars
  BY <1>12 DEF vars
<1> QED
  BY <1>1, <1>2, <1>3, <1>4, <1>5, <1>6, <1>7, <1>8, <1>9, <1>10, <1>11, <1>12 DEF Next

\* A save wraps its value once, a commit adds a layer where there was none, and a restore
\* changes nothing.
LEMMA NextRows ==
    ASSUME ~Online, StoreInv, [Next]_vars
    PROVE  (ValueInv /\ WrapInv /\ CipherInv)'
<1> USE DEF StoreInv, TypeInv, ValueInv, WrapInv, CipherInv
<1>1. CASE StartStore
  BY <1>1 DEF StartStore
<1>2. CASE StopStore
  BY <1>2 DEF StopStore
<1>3. ASSUME NEW id \in Ids, NEW v \in Values, SaveConnection(id, v) PROVE (ValueInv /\ WrapInv /\ CipherInv)'
  <2>1. key \in Nat /\ (configured => key = ConfiguredKey)
    BY <1>3, StoreAssumption DEF SaveConnection, Writable, KeyInv
  <2> DEFINE c == [val |-> v, wraps |-> <<key>>]
  <2>2. /\ rows' = [rows EXCEPT ![id] = [secret |-> c, extra |-> c]]
        /\ held' = [held EXCEPT ![id] = v]
    BY <1>3 DEF SaveConnection
  <2>3. /\ c.val = v /\ Encrypted(c) /\ (configured => Unlocked(c))
        /\ [secret |-> c, extra |-> c] \in Rows
    BY <2>1, SavedCell
  <2> HIDE DEF c
  <2> QED
    BY <1>3, <2>2, <2>3, StoreAssumption, LegacyAssumption DEF SaveConnection, Files
<1>4. ASSUME NEW id \in Ids, DeleteConnection(id) PROVE (ValueInv /\ WrapInv /\ CipherInv)'
  BY <1>4 DEF DeleteConnection, Files
<1>5. CASE Backup
  BY <1>5 DEF Backup
<1>6. CASE ReadRows
  BY <1>6 DEF ReadRows
<1>7. CASE CommitMigration
  BY <1>7, MigratedRow, LegacyAssumption DEF CommitMigration
<1>8. CASE MigrationFails
  BY <1>8 DEF MigrationFails
<1>9. CASE RestoreBackup
  BY <1>9, RestoreKeepsRows DEF RestoreBackup
<1>10. CASE MigrationDies
  BY <1>10 DEF MigrationDies
<1>11. ASSUME NEW id \in Ids, UpdateRow(id) PROVE (ValueInv /\ WrapInv /\ CipherInv)'
  BY <1>11 DEF UpdateRow
<1>12. CASE UNCHANGED vars
  BY <1>12 DEF vars
<1> QED
  BY <1>1, <1>2, <1>3, <1>4, <1>5, <1>6, <1>7, <1>8, <1>9, <1>10, <1>11, <1>12 DEF Next

\* Nothing but the migration writes between its backup and its end.
LEMMA NextBackup ==
    ASSUME ~Online, StoreInv, [Next]_vars
    PROVE  BackupInv'
<1> USE DEF StoreInv, TypeInv, BackupInv, NoMigration, Migrations, Writable
<1>1. CASE StartStore
  BY <1>1 DEF StartStore
<1>2. CASE StopStore
  BY <1>2 DEF StopStore
<1>3. ASSUME NEW id \in Ids, NEW v \in Values, SaveConnection(id, v) PROVE BackupInv'
  BY <1>3 DEF SaveConnection
<1>4. ASSUME NEW id \in Ids, DeleteConnection(id) PROVE BackupInv'
  BY <1>4 DEF DeleteConnection
<1>5. CASE Backup
  BY <1>5, LastOfAppend DEF Backup
<1>6. CASE ReadRows
  BY <1>6 DEF ReadRows
<1>7. CASE CommitMigration
  BY <1>7 DEF CommitMigration
<1>8. CASE MigrationFails
  BY <1>8 DEF MigrationFails
<1>9. CASE RestoreBackup
  BY <1>9, RestoreKeepsRows DEF RestoreBackup
<1>10. CASE MigrationDies
  BY <1>10 DEF MigrationDies
<1>11. ASSUME NEW id \in Ids, UpdateRow(id) PROVE BackupInv'
  BY <1>11 DEF UpdateRow
<1>12. CASE UNCHANGED vars
  BY <1>12 DEF vars
<1> QED
  BY <1>1, <1>2, <1>3, <1>4, <1>5, <1>6, <1>7, <1>8, <1>9, <1>10, <1>11, <1>12 DEF Next

\* and so every reachable state has it.
LEMMA StoreInvariant ==
    ASSUME ~Online
    PROVE  Spec => []StoreInv
<1>1. StoreInv /\ [Next]_vars => StoreInv'
  BY NextTypes, NextKeys, NextRows, NextBackup DEF StoreInv
<1> QED
  BY <1>1, InitialInv, PTL DEF Spec

-----------------------------------------------------------------------------
(***************************************************************************)
(* The theorems.                                                            *)
(***************************************************************************)

\* With the key in the environment every connection keeps the value it was given, in the
\* file or, while that is half restored, in the last backup, through every restart and
\* every migration that commits, fails or dies (credentials.py).
THEOREM SecretsStayRecoverable ==
    ASSUME ~Online
    PROVE  Spec => []SecretsRecoverable
<1>1. ASSUME StoreInv PROVE SecretsRecoverable
  <2> DEFINE file == IF intact THEN rows ELSE Last(backups)
  <2>1. file = rows
    BY <1>1 DEF StoreInv, TypeInv, BackupInv
  <2>2. ASSUME configured, NEW id \in Ids, held[id] # None,
               NEW cell \in {rows[id].secret, rows[id].extra}
        PROVE  cell.val = held[id] /\ (Encrypted(cell) => Decrypt(cell, ConfiguredKey) = held[id])
    BY <1>1, <2>2 DEF StoreInv, ValueInv, WrapInv, Unlocked, Encrypted, Decrypt
  <2>3. ASSUME configured, NEW id \in Ids, held[id] # None PROVE rows[id] # None
    BY <1>1, <2>3 DEF StoreInv, ValueInv
  <2> QED
    BY <2>1, <2>2, <2>3 DEF SecretsRecoverable
<1> QED
  BY <1>1, StoreInvariant, PTL

\* After a committed migration no plaintext is in the file, ever again, and a running store
\* with the configured key reads every connection.
THEOREM MigratedRowsStayReadable ==
    ASSUME ~Online
    PROVE  Spec => []MigratedStaysReadable
<1>1. ASSUME StoreInv PROVE MigratedStaysReadable
  <2>1. ASSUME migrated, NEW id \in Ids, rows[id] # None
        PROVE  Encrypted(rows[id].secret) /\ Encrypted(rows[id].extra)
    BY <1>1, <2>1 DEF StoreInv, CipherInv
  <2>2. ASSUME migrated, configured, key # None
        PROVE  /\ ListConnections = [id \in {i \in Ids : held[i] # None} |-> held[id]]
               /\ \A id \in Ids : GetConnection(id) # "decryption failed"
    <3>1. key = ConfiguredKey
      BY <1>1, <2>2 DEF StoreInv, KeyInv
    <3>2. ASSUME NEW id \in Ids, rows[id] # None
          PROVE  /\ held[id] # None
                 /\ Decrypt(rows[id].secret, key) = held[id] /\ Decrypt(rows[id].extra, key) = held[id]
      BY <1>1, <2>1, <2>2, <3>1, <3>2
         DEF StoreInv, ValueInv, WrapInv, Unlocked, Encrypted, Decrypt
    <3>3. \A id \in Ids : ~Unreadable(id)
      BY <3>2 DEF Unreadable
    <3>4. {i \in Ids : rows[i] # None} = {i \in Ids : held[i] # None}
      BY <1>1 DEF StoreInv, ValueInv
    <3>5. ListConnections = [id \in {i \in Ids : held[i] # None} |-> held[id]]
      BY <3>2, <3>3, <3>4 DEF ListConnections
    <3> QED
      BY <3>3, <3>5 DEF GetConnection
  <2> QED
    BY <2>1, <2>2 DEF MigratedStaysReadable
<1> QED
  BY <1>1, StoreInvariant, PTL

====
