------------------------------- MODULE Backup -------------------------------
(***************************************************************************)
(* Backup files, restores and the migration ledger.                        *)
(*                                                                         *)
(* A backup lists every entry in one read transaction, writes them to      *)
(* <path>.tmp, syncs it and renames it over <path>. A restore reads the    *)
(* file at <path> to its checksum and only then replaces the contents of   *)
(* the database in one write transaction. The ledger of the migration      *)
(* runner is an entry of the database like any other, so a backup carries  *)
(* it and a restore brings it back.                                        *)
(*                                                                         *)
(* Every call is a task on a thread of its own. Commits, list and replace  *)
(* transactions are atomic and survive a crash (redb); files do not: what  *)
(* was not synced may be cut short, and a renaming may be undone.          *)
(*                                                                         *)
(* A file is a sequence of frames. CRC32 is taken to tell apart any two    *)
(* contents, so the checksum of a frame sequence is the sequence itself.   *)
(***************************************************************************)
EXTENDS Naturals, Sequences, SequencesExt

CONSTANTS
    Keys,       \* composite keys of documents
    Vals,       \* stored bytes of a document
    Versions,   \* migration versions
    Hashes,     \* schema hashes
    Writers,    \* calls of backup in progress at a time
    Readers,    \* calls of restore in progress at a time
    Inodes,     \* files the disk has room for
    MaxDamage,  \* files changed from outside at a time, each once
    Ledger,     \* the entry _meta\0applied_versions
    NoValue,    \* no entry
    NoHash,     \* no schema registered
    NoFile      \* no file of that name

ASSUME BackupAssumption ==
    /\ IsFiniteSet(Keys)
    /\ Ledger \notin Keys
    /\ NoValue \notin Vals
    /\ NoHash \notin Hashes
    /\ NoFile \notin Inodes
    /\ MaxDamage \in Nat

VARIABLES
    schema,   \* hash of the schema the database is open with
    db,       \* committed contents: the documents and the applied versions
    dir,      \* the directory: which file <path> and <path>.tmp name
    pastDirs, \* directories a crash may bring back
    data,     \* contents of each file
    synced,   \* files whose contents are on stable storage
    wr,       \* each backup
    rd,       \* each restore
    origin,   \* history: what the last backup written into a file listed
    damaged   \* history: files changed from outside

fileVars == <<dir, pastDirs, data, synced, origin, damaged>>
vars == <<schema, db, fileVars, wr, rd>>

Path == "path"
Tmp  == "tmp"

Databases == [rows : [Keys -> Vals \cup {NoValue}], ledger : SUBSET Versions]

Empty == [rows |-> [k \in Keys |-> NoValue], ledger |-> {}]
-----------------------------------------------------------------------------
(* The format.                                                             *)

Header(hash)    == [is |-> "header", hash |-> hash]
Entry(key, val) == [is |-> "entry", key |-> key, val |-> val]
Sentinel        == [is |-> "sentinel"]
Crc(frames)     == [is |-> "crc", sum |-> frames]
Junk            == [is |-> "junk"]

\* Every entry once, in an order nothing depends on; an empty ledger is absent.
Entries(d) == {Entry(k, d.rows[k]) : k \in {k \in Keys : d.rows[k] # NoValue}}
              \cup IF d.ledger = {} THEN {} ELSE {Entry(Ledger, d.ledger)}
ListEntriesRaw(d) == SetToSeq(Entries(d))

Body(d, hash)  == <<Header(hash)>> \o ListEntriesRaw(d) \o <<Sentinel>>
Image(d, hash) == Append(Body(d, hash), Crc(Body(d, hash)))

\* The sentinel that ends the entries, or 0: what comes before it must read
\* as a header and entries.
EndOfEntries(f) ==
    LET ends == {n \in 2..Len(f) : /\ f[1].is = "header"
                                   /\ f[n].is = "sentinel"
                                   /\ \A m \in 2..(n - 1) : f[m].is = "entry"}
    IN  IF ends = {} THEN 0 ELSE CHOOSE n \in ends : TRUE

\* MUTANT: the entries are used without waiting for the footer.
IntactUnchecked(f) == EndOfEntries(f) > 0

\* What follows the footer is not looked at.
Intact(f) ==
    LET n == EndOfEntries(f)
    IN  n > 0 /\ n < Len(f) /\ f[n + 1] = Crc(SubSeq(f, 1, n))

SchemaAgrees(f, skip) ==
    skip \/ NoHash \in {f[1].hash, schema} \/ f[1].hash = schema

\* MUTANT: the key of an entry is not looked at.
RebuildKeyless(f) ==
    LET all == 2..(EndOfEntries(f) - 1)
    IN  [rows |-> [k \in Keys |-> IF all = {} THEN NoValue ELSE f[CHOOSE n \in all : TRUE].val],
         ledger |-> {}]

\* put_raw of each entry. No key is listed twice in an intact file.
Rebuild(f) ==
    LET Of(key) == {n \in 2..(EndOfEntries(f) - 1) : f[n].key = key}
        Value(key, absent) ==
            IF Of(key) = {} THEN absent ELSE f[CHOOSE n \in Of(key) : TRUE].val
    IN  [rows |-> [k \in Keys |-> Value(k, NoValue)], ledger |-> Value(Ledger, {})]
-----------------------------------------------------------------------------
Writing(w) == wr[w].at # "idle"
Reading(r) == rd[r].at # "idle"

NoBackup  == [at |-> "idle", ino |-> NoFile, todo |-> <<>>, pos |-> 0]
NoRestore == [at |-> "idle", ino |-> NoFile, overwrite |-> FALSE, skip |-> FALSE, got |-> Empty]
NoOrigin  == [db |-> Empty, hash |-> NoHash]

Init ==
    /\ schema \in Hashes \cup {NoHash}
    /\ db = Empty
    /\ dir = [n \in {Path, Tmp} |-> NoFile]
    /\ pastDirs = {dir}
    /\ data = [i \in Inodes |-> <<>>]
    /\ synced = Inodes
    /\ wr = [w \in Writers |-> NoBackup]
    /\ rd = [r \in Readers |-> NoRestore]
    /\ origin = [i \in Inodes |-> NoOrigin]
    /\ damaged = {}

\* A file nobody can reach any more.
Free(i) ==
    /\ \A d \in pastDirs : i \notin {d[Path], d[Tmp]}
    /\ \A w \in Writers : wr[w].ino # i
    /\ \A r \in Readers : rd[r].ino # i
-----------------------------------------------------------------------------
(* backup_to_path.                                                         *)

\* File::create: an existing temporary file is emptied and written again.
CreateTmp(w, i) ==
    /\ ~Writing(w)
    /\ IF dir[Tmp] = NoFile THEN Free(i) ELSE i = dir[Tmp]
    /\ wr' = [wr EXCEPT ![w] = [NoBackup EXCEPT !.at = "created", !.ino = i]]
    /\ dir' = [dir EXCEPT ![Tmp] = i]
    /\ pastDirs' = pastDirs \cup {dir'}
    /\ data' = [data EXCEPT ![i] = <<>>]
    /\ synced' = synced \ {i}
    /\ damaged' = damaged \ {i}
    /\ origin' = [origin EXCEPT ![i] = NoOrigin]
    /\ UNCHANGED <<schema, db, rd>>

\* One read transaction lists every entry; the header has the hash of the
\* schema the database is open with.
ListEntries(w) ==
    /\ wr[w].at = "created"
    /\ wr' = [wr EXCEPT ![w].at = "writing", ![w].todo = Image(db, schema)]
    /\ origin' = [origin EXCEPT ![wr[w].ino] = [db |-> db, hash |-> schema]]
    /\ UNCHANGED <<schema, db, dir, pastDirs, data, synced, rd, damaged>>

\* A write at an offset beyond the end leaves a hole.
WriteAt(f, pos, frame) ==
    [n \in 1..(IF pos > Len(f) THEN pos ELSE Len(f)) |->
        IF n = pos THEN frame ELSE IF n <= Len(f) THEN f[n] ELSE Junk]

WriteFrame(w) ==
    /\ wr[w].at = "writing" /\ wr[w].pos < Len(wr[w].todo)
    /\ LET pos == wr[w].pos + 1 IN
           /\ data' = [data EXCEPT ![wr[w].ino] = WriteAt(@, pos, wr[w].todo[pos])]
           /\ wr' = [wr EXCEPT ![w].pos = pos]
    /\ synced' = synced \ {wr[w].ino}
    /\ UNCHANGED <<schema, db, dir, pastDirs, rd, origin, damaged>>

Written(w) == wr[w].at = "writing" /\ wr[w].pos = Len(wr[w].todo)

\* MUTANT: the file is renamed without being synced.
SyncNotAwaited(w) ==
    /\ Written(w)
    /\ wr' = [wr EXCEPT ![w].at = "synced"]
    /\ UNCHANGED <<schema, db, fileVars, rd>>

Sync(w) ==
    /\ Written(w)
    /\ wr' = [wr EXCEPT ![w].at = "synced"]
    /\ synced' = synced \cup {wr[w].ino}
    /\ UNCHANGED <<schema, db, dir, pastDirs, data, rd, origin, damaged>>

\* rename takes whatever file has the temporary name by now; without one it
\* fails.
Rename(w) ==
    /\ wr[w].at = "synced"
    /\ dir' = IF dir[Tmp] = NoFile THEN dir ELSE [n \in {Path, Tmp} |->
                  IF n = Path THEN dir[Tmp] ELSE NoFile]
    /\ pastDirs' = pastDirs \cup {dir'}
    /\ wr' = [wr EXCEPT ![w] = NoBackup]
    /\ UNCHANGED <<schema, db, data, synced, rd, origin, damaged>>

\* An I/O error at any step: the temporary file stays.
FailBackup(w) ==
    /\ Writing(w)
    /\ wr' = [wr EXCEPT ![w] = NoBackup]
    /\ UNCHANGED <<schema, db, fileVars, rd>>
-----------------------------------------------------------------------------
(* restore_from_path.                                                      *)

\* The whole file is read into memory and checked before anything is written.
\* A file once open is read as it was at the open: backups replace the name.
ReadBackup(r, overwrite, skip) ==
    /\ ~Reading(r)
    /\ dir[Path] # NoFile
    /\ LET f == data[dir[Path]] IN
           /\ Intact(f) /\ SchemaAgrees(f, skip)
           /\ rd' = [rd EXCEPT ![r] = [at |-> "checked", ino |-> dir[Path], got |-> Rebuild(f),
                                       overwrite |-> overwrite, skip |-> skip]]
    /\ UNCHANGED <<schema, db, fileVars, wr>>

\* One write transaction: a database with entries is refused, or cleared.
ApplyBackup(r) ==
    /\ rd[r].at = "checked"
    /\ rd' = [rd EXCEPT ![r] = NoRestore]
    /\ db' = IF rd[r].overwrite \/ db = Empty THEN rd[r].got ELSE db
    /\ UNCHANGED <<schema, fileVars, wr>>
-----------------------------------------------------------------------------
(* Users of the database.                                                  *)

Commit(k, v) ==
    /\ db' = [db EXCEPT !.rows[k] = v]
    /\ UNCHANGED <<schema, fileVars, wr, rd>>

\* What list_pending returns: it reads the ledger in a transaction of its own.
Pending(all) == all \ db.ledger

\* MUTANT: run writes the versions it was given over those applied before.
MigrateReplaces(all) ==
    /\ db' = [db EXCEPT !.ledger = all]
    /\ UNCHANGED <<schema, fileVars, wr, rd>>

\* run: read, merge and write in one transaction; the ledger is kept sorted
\* and without duplicates, so it is a set.
Migrate(all) ==
    /\ Pending(all) # {}
    /\ db' = [db EXCEPT !.ledger = @ \cup all]
    /\ UNCHANGED <<schema, fileVars, wr, rd>>
-----------------------------------------------------------------------------
(* The disk.                                                               *)

\* A file that no directory names and nobody has open is gone.
Reclaim(named) ==
    /\ origin' = [i \in Inodes |-> IF i \in named THEN origin[i] ELSE NoOrigin]
    /\ damaged' = damaged \cap named

\* The directory reaches stable storage.
FlushDirectory ==
    /\ pastDirs' = {dir}
    /\ LET named == {dir[Path], dir[Tmp]} \cup {rd[r].ino : r \in Readers}
                     \cup {wr[w].ino : w \in Writers} IN
           /\ Reclaim(named)
           /\ data' = [i \in Inodes |-> IF i \in named THEN data[i] ELSE <<>>]
           /\ synced' = synced \cup (Inodes \ named)
    /\ UNCHANGED <<schema, db, dir, wr, rd>>

\* A file cut short at a frame, or with another frame in its place.
Spoiled(f, n) ==
    LET others == IF n = 1 THEN {Header(NoHash)}
                  ELSE {Sentinel} \cup {Entry(k, v) : k \in Keys, v \in Vals}
    IN  {SubSeq(f, 1, n - 1)} \cup {[f EXCEPT ![n] = x] : x \in others}

\* The backup at <path> is cut short or changed by someone else.
Damage(n) ==
    /\ Cardinality(damaged) < MaxDamage
    /\ dir[Path] \notin damaged \cup {NoFile}
    /\ n \in DOMAIN data[dir[Path]]
    /\ \E g \in Spoiled(data[dir[Path]], n) : data' = [data EXCEPT ![dir[Path]] = g]
    /\ damaged' = damaged \cup {dir[Path]}
    /\ UNCHANGED <<schema, db, dir, pastDirs, synced, wr, rd, origin>>

Prefix(f, n) == SubSeq(f, 1, IF n < Len(f) THEN n ELSE Len(f))

\* The machine stops: every call is gone, what was not synced is cut short,
\* and the directory is one it has been since it was last flushed. The program
\* that opens the database next may bring another schema.
Crash ==
    /\ dir' \in pastDirs
    /\ pastDirs' = {dir'}
    /\ LET named == {dir'[Path], dir'[Tmp]} IN
           /\ Reclaim(named)
           /\ \E cut \in [(Inodes \cap named) \ synced -> 0..(Cardinality(Keys) + 4)] :
                  data' = [i \in Inodes |->
                              IF i \notin named THEN <<>>
                              ELSE IF i \in synced THEN data[i] ELSE Prefix(data[i], cut[i])]
    /\ synced' = Inodes
    /\ wr' = [w \in Writers |-> NoBackup]
    /\ rd' = [r \in Readers |-> NoRestore]
    /\ schema' \in Hashes \cup {NoHash}
    /\ UNCHANGED <<db>>
-----------------------------------------------------------------------------
Next ==
    \/ \E w \in Writers :
           \/ \E i \in Inodes : CreateTmp(w, i)
           \/ ListEntries(w) \/ WriteFrame(w) \/ Sync(w) \/ Rename(w) \/ FailBackup(w)
    \/ \E r \in Readers :
           \/ \E overwrite, skip \in BOOLEAN : ReadBackup(r, overwrite, skip)
           \/ ApplyBackup(r)
    \/ \E k \in Keys, v \in Vals \cup {NoValue} : Commit(k, v)
    \/ \E all \in SUBSET Versions : Migrate(all)
    \/ FlushDirectory
    \/ \E n \in 1..(Cardinality(Keys) + 4) : Damage(n)
    \/ Crash

Spec == Init /\ [][Next]_vars
-----------------------------------------------------------------------------
\* Every variable has its type.
TypeOK ==
    /\ schema \in Hashes \cup {NoHash}
    /\ db \in Databases
    /\ dir \in [{Path, Tmp} -> Inodes \cup {NoFile}]
    /\ dir \in pastDirs
    /\ pastDirs \subseteq [{Path, Tmp} -> Inodes \cup {NoFile}]
    /\ DOMAIN data = Inodes
    /\ synced \subseteq Inodes
    /\ \A w \in Writers :
           /\ wr[w].at \in {"idle", "created", "writing", "synced"}
           /\ wr[w].ino \in Inodes \cup {NoFile}
           /\ wr[w].pos \in 0..Len(wr[w].todo)
    /\ rd \in [Readers -> [at : {"idle", "checked"}, ino : Inodes \cup {NoFile},
                           overwrite : BOOLEAN, skip : BOOLEAN, got : Databases]]
    /\ origin \in [Inodes -> [db : Databases, hash : Hashes \cup {NoHash}]]
    /\ damaged \subseteq Inodes

\* The file at <path>, unless somebody else changed it, is the complete image
\* of one snapshot of the database: through every failure and crash, in
\* whatever step it comes, the old backup stays until the new one is complete.
WholeBackups ==
    dir[Path] \notin damaged \cup {NoFile} =>
        LET o == origin[dir[Path]] IN data[dir[Path]] = Image(o.db, o.hash)

Restores(r) == rd[r].at = "checked" /\ rd'[r] = NoRestore /\ db' # db

\* A restore brings back exactly one backup, never a part of one or one that
\* was tampered with; it replaces documents only when told to overwrite, and
\* the schema of the backup is the database's unless one of them is unknown
\* or the check was waived.
RestoreIsWhole ==
    [][\A r \in Readers : Restores(r) =>
           LET o == origin[rd[r].ino] IN
               /\ db' = o.db
               /\ rd[r].overwrite \/ db = Empty
               /\ rd[r].skip \/ NoHash \in {o.hash, schema} \/ o.hash = schema]_vars

\* The ledger forgets an applied version only when a backup is restored,
\* whatever other runners and readers of the ledger do meanwhile and whenever
\* the machine stops.
LedgerKeepsRuns ==
    [][db.ledger \subseteq db'.ledger \/ \E r \in Readers : Restores(r)]_vars
=============================================================================
