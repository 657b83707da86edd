----------------------------- MODULE SqliteStore -----------------------------
(***************************************************************************)
(* Stage 4 of run_pipeline: DhSqliteBatchWriter and the schema script over *)
(* a SQLite file opened with journal_mode = OFF, synchronous = OFF, a      *)
(* bounded page cache and an exclusive lock.                               *)
(*                                                                         *)
(* One run of mca2lod opens the file, executes the schema statements, each *)
(* a transaction of its own, encodes all sections, inserts the FullData    *)
(* rows and then the ChunkHash rows in one transaction, commits, and       *)
(* closes.  Any step may fail, the process may be killed between any two   *)
(* steps, and mca2lod may be run again on what is left.                    *)
(*                                                                         *)
(* SQLite itself is modelled by what the writer asks of it: rows changed   *)
(* by the transaction are dirty in the cache; a full cache writes some of  *)
(* them to the file early; COMMIT writes the rest one after the other; and *)
(* without a journal nothing that was written is ever taken back.          *)
(***************************************************************************)
EXTENDS Integers, Sequences, FiniteSets

CONSTANTS
  Keys,         \* primary keys of FullData and ChunkHash
  Batches,      \* the batches of a run: a sequence of keys, sections first
  NoBatch,      \* no run in progress
  Missing,      \* the value of a key without a row
  Script,       \* the statements of init_dh_database_schema, in order
  RowColumns,   \* the tables and columns the two INSERTs name
  Catalogs,     \* the schemas the file may come with
  CacheRows,    \* dirty rows the page cache holds before it writes early
  MaxRuns       \* bound on the runs of mca2lod

ASSUME StoreAssumption ==
  /\ Batches \subseteq Seq(Keys)
  /\ NoBatch \notin Batches
  /\ Script \in Seq([creates : STRING, with : SUBSET STRING, needs : SUBSET STRING, claims : SUBSET STRING])
  /\ Catalogs \subseteq SUBSET STRING /\ RowColumns \subseteq STRING
  /\ CacheRows \in Nat \ {0}
  /\ MaxRuns \in Nat
  /\ Missing \notin [run : Nat, place : Nat]

(***************************************************************************)
(* A statement of the script is CREATE ... IF NOT EXISTS or, for a         *)
(* migration record, INSERT OR IGNORE:                                     *)
(*   creates   the table, index or record                                  *)
(*   with      the columns of the table                                    *)
(*   needs     the columns an index is on                                  *)
(*   claims    what the recorded migration of Distant Horizons brings      *)
(***************************************************************************)
Statements == DOMAIN Script

(* Statements create different things, and a column is of one table. *)
Separate ==
  \A m, n \in Statements :
    /\ Script[m].creates \notin Script[n].with
    /\ Script[m].creates = Script[n].creates => m = n
    /\ Script[m].with \cap Script[n].with # {} => m = n

(* A recorded migration brings what statements before it have created.     *)
Backed(n) == \A x \in Script[n].claims : \E m \in 1 .. n - 1 : x \in Script[m].with \cup {Script[m].creates}

(* The table that column x belongs to is in schema c, from before x was    *)
(* added to it.                                                            *)
LeftOut(c, x) == \E m \in Statements : Script[m].creates \in c /\ x \in Script[m].with /\ x \notin c

(* A column the INSERTs name is a table, is in an index, or has been in    *)
(* every version of its table.                                             *)
Provided(x) ==
  \E n \in Statements :
    \/ x = Script[n].creates
    \/ x \in Script[n].needs
    \/ x \in Script[n].with /\ \A c \in Catalogs : Script[n].creates \in c => x \in c

ASSUME SchemaAssumption ==
  /\ Separate
  /\ \A n \in Statements : Backed(n)
  /\ \A x \in RowColumns : Provided(x)
  /\ \A c \in Catalogs : \A n \in Statements : Script[n].creates \in c =>
       /\ Script[n].needs \subseteq c
       /\ \A x \in Script[n].claims : x \in c \/ LeftOut(c, x)

VARIABLES
  file,     \* rows in the database file
  catalog,  \* tables, columns, indexes and migration records in the file
  origin,   \* history: the catalog the file came with
  phase,    \* where the run is
  batch,    \* its rows, by key
  next,     \* the next row to insert
  dirty,    \* rows changed in the cache and not in the file
  runs,     \* runs begun
  before    \* history: file when the run began

vars == <<file, catalog, origin, phase, batch, next, dirty, runs, before>>
connection == <<next, dirty>>

Row == [run : Nat, place : Nat]
Clean == [k \in {} |-> Missing]
DirtyKeys == DOMAIN dirty

Init ==
  /\ catalog \in Catalogs
  /\ origin = catalog
  /\ file \in {[k \in Keys |-> Missing]} \cup
               (IF RowColumns \subseteq catalog THEN {[k \in Keys |-> [run |-> 0, place |-> 0]]} ELSE {})
  /\ phase = "idle"
  /\ batch = NoBatch
  /\ next = 1
  /\ dirty = Clean
  /\ runs = 0
  /\ before = file
-----------------------------------------------------------------------------
(* The end of a run: the connection is dropped and with it the cache. *)
EndRun(outcome) ==
  /\ phase' = outcome
  /\ batch' = NoBatch
  /\ next' = 1
  /\ dirty' = Clean
  /\ UNCHANGED <<catalog, origin, runs, before>>

Idle == phase \in {"idle", "ok", "failed", "killed"}

(* run_pipeline reaches stage 4 with the sections and hashes it has baked. *)
Start ==
  /\ Idle
  /\ runs < MaxRuns
  /\ batch' \in Batches
  /\ phase' = "open"
  /\ runs' = runs + 1
  /\ before' = file
  /\ UNCHANGED <<file, catalog, origin, connection>>

(* The directory, the file or the exclusive lock is refused, or the file   *)
(* is malformed.                                                           *)
OpenFails ==
  /\ phase = "open"
  /\ EndRun("failed")
  /\ UNCHANGED file

OpenOrCreate ==
  /\ phase = "open"
  /\ phase' = "schema"
  /\ UNCHANGED <<file, catalog, origin, batch, connection, runs, before>>

(* What exists is left as it is, a table with fewer columns too; an index  *)
(* on a column that is not there is refused.                               *)
ExecutableAnyway(st) == TRUE
Executable(st) == st.creates \in catalog \/ st.needs \subseteq catalog
(* The statement as DROP TABLE and CREATE: a dropped table takes its        *)
(* indexes with it.                                                        *)
ExecutedAfresh(st) ==
  (catalog \ {Script[n].creates : n \in {m \in Statements : Script[m].needs \cap st.with # {}}})
    \cup {st.creates} \cup st.with
Executed(st) == IF st.creates \in catalog THEN catalog ELSE catalog \cup {st.creates} \cup st.with

InScript == phase = "schema" /\ next <= Len(Script)

ExecuteSchema ==
  /\ InScript
  /\ Executable(Script[next])
  /\ catalog' = Executed(Script[next])
  /\ next' = next + 1
  /\ UNCHANGED <<file, origin, phase, batch, dirty, runs, before>>

SchemaRefused ==
  /\ InScript
  /\ ~Executable(Script[next])
  /\ EndRun("failed")
  /\ UNCHANGED file

SchemaFails ==
  /\ InScript
  /\ EndRun("failed")
  /\ UNCHANGED file

SchemaDone ==
  /\ phase = "schema"
  /\ next > Len(Script)
  /\ phase' = "encode"
  /\ next' = 1
  /\ UNCHANGED <<file, catalog, origin, batch, dirty, runs, before>>

(* All sections are encoded before the transaction begins. *)
EncodeFails ==
  /\ phase = "encode"
  /\ EndRun("failed")
  /\ UNCHANGED file

EncodeAll ==
  /\ phase = "encode"
  /\ phase' = "insert"
  /\ UNCHANGED <<file, catalog, origin, batch, connection, runs, before>>

(* INSERT OR REPLACE: the row is changed in the cache only. *)
InsertedOrIgnored(k, row) ==
  IF k \in DirtyKeys THEN dirty ELSE [d \in DirtyKeys \cup {k} |-> IF d = k THEN row ELSE dirty[d]]
Inserted(k, row) == [d \in DirtyKeys \cup {k} |-> IF d = k THEN row ELSE dirty[d]]

InsertRow ==
  /\ phase = "insert"
  /\ next \in DOMAIN batch
  /\ dirty' = Inserted(batch[next], [run |-> runs, place |-> next])
  /\ next' = next + 1
  /\ UNCHANGED <<file, catalog, origin, phase, batch, runs, before>>

(* One dirty row goes to the file. *)
FlushedClobbering(k) == [j \in Keys |-> dirty[k]]
Flushed(k) == [file EXCEPT ![k] = dirty[k]]
WriteBack(k) ==
  /\ file' = Flushed(k)
  /\ dirty' = [d \in DirtyKeys \ {k} |-> dirty[d]]

(* The cache is full: the pager writes a dirty page inside the transaction. *)
CacheFullOfInserts == next > CacheRows
CacheFull == Cardinality(DirtyKeys) >= CacheRows

Spill ==
  /\ phase = "insert"
  /\ CacheFull
  /\ \E k \in DirtyKeys : WriteBack(k)
  /\ UNCHANGED <<catalog, origin, phase, batch, next, runs, before>>

(* A statement of the transaction fails and the transaction is dropped.    *)
(* Its rollback has no journal to restore from: the cache is discarded,    *)
(* what has been written stays.                                            *)
InsertFails ==
  /\ phase = "insert"
  /\ next \in DOMAIN batch
  /\ EndRun("failed")
  /\ UNCHANGED file

AnyInserted == next > 1
AllInsertedNever == next > Len(batch) + 1
AllInserted == next > Len(batch)

Commit ==
  /\ phase = "insert"
  /\ AllInserted
  /\ phase' = "commit"
  /\ UNCHANGED <<file, catalog, origin, batch, connection, runs, before>>

FlushPage ==
  /\ phase = "commit"
  /\ \E k \in DirtyKeys : WriteBack(k)
  /\ UNCHANGED <<catalog, origin, phase, batch, next, runs, before>>

(* The device is full or fails while COMMIT writes. *)
FlushFails ==
  /\ phase = "commit"
  /\ dirty # Clean
  /\ EndRun("failed")
  /\ UNCHANGED file

(* COMMIT returns, finish() ignores what PRAGMA optimize returns. *)
NothingDirty == dirty = Clean
Finish ==
  /\ phase = "commit"
  /\ NothingDirty
  /\ EndRun("ok")
  /\ UNCHANGED file

(* The process is killed: the file keeps what was written. *)
Kill ==
  /\ ~Idle
  /\ EndRun("killed")
  /\ UNCHANGED file

Stopped == Idle /\ runs = MaxRuns /\ UNCHANGED vars

Proceed ==
  \/ OpenOrCreate
  \/ ExecuteSchema \/ SchemaRefused \/ SchemaDone
  \/ EncodeAll
  \/ InsertRow \/ Spill
  \/ Commit \/ FlushPage \/ Finish
Fail == OpenFails \/ SchemaFails \/ EncodeFails \/ InsertFails \/ FlushFails

Next == Start \/ Proceed \/ Fail \/ Kill \/ Stopped

Spec == Init /\ [][Next]_vars
(* The process of a run is scheduled; nothing has to fail, and nobody has  *)
(* to start another run.                                                   *)
FairSpec == Spec /\ WF_vars(Proceed)
-----------------------------------------------------------------------------
Rows == Row \cup {Missing}
TypeOK ==
  /\ file \in [Keys -> Rows] /\ before \in [Keys -> Rows]
  /\ origin \subseteq catalog   \* nothing of the schema the file came with is lost
  /\ phase \in {"idle", "open", "schema", "encode", "insert", "commit", "ok", "failed", "killed"}
  /\ batch \in Batches \cup {NoBatch}
  /\ next \in 1 .. CASE phase = "schema" -> Len(Script) + 1
                     [] phase \in {"insert", "commit"} -> Len(batch) + 1
                     [] OTHER -> 1
  /\ DirtyKeys \subseteq Keys /\ \A k \in DirtyKeys : dirty[k] \in Row
  /\ runs \in 0 .. MaxRuns

(* The rows the batch writes, row after row. *)
LastPlace(b, k) == {n \in DOMAIN b : b[n] = k /\ \A m \in DOMAIN b : b[m] = k => m <= n}
Applied(rows, b, run) ==
  [k \in Keys |-> IF LastPlace(b, k) = {} THEN rows[k]
                  ELSE [run |-> run, place |-> CHOOSE n \in LastPlace(b, k) : TRUE]]

(* A commit that is about to return success has the whole batch in the     *)
(* file, the last row of every key, whatever was written early, whatever a *)
(* killed or failed run left behind, and no other row has been touched.    *)
SuccessIsComplete ==
  phase = "commit" /\ dirty = Clean => file = Applied(before, batch, runs)

(* A run has rows in the file only when every column it writes is there;   *)
(* and what a migration on record brings is there, all but the columns a   *)
(* table the file came with lacks, which the script takes for migrated and *)
(* never adds: at every point a run may be killed, and for the runs that   *)
(* go on from there.                                                       *)
SchemaSound ==
  /\ (\E k \in Keys : file[k] # Missing /\ file[k].run > 0) => RowColumns \subseteq catalog
  /\ \A n \in Statements : Script[n].creates \in catalog =>
       \A x \in Script[n].claims : x \in catalog <=> ~LeftOut(origin, x)

(* A row of the file changes only to a row of the running batch that has   *)
(* been inserted: no row of another key, of another run, or of the future. *)
OnlyBatchRows ==
  [][\A k \in Keys : file'[k] # file[k] =>
       \E n \in DOMAIN batch : n < next /\ batch[n] = k /\ file'[k] = [run |-> runs, place |-> n]]_vars

(* A run that fails or is killed before COMMIT leaves every row as it was, *)
(* if the keys of its batch do not fill the cache.                         *)
FailureKeepsRows ==
  [][~Idle /\ phase # "commit" /\ phase' \in {"failed", "killed"}
       /\ Cardinality({batch[n] : n \in DOMAIN batch}) < CacheRows
     => file' = before]_vars

(* Every run ends, by success, failure or a kill. *)
RunEnds == phase = "open" ~> Idle

(* The doc comment of write_batch: "in a single atomic transaction".  A    *)
(* run that is over has written its whole batch or nothing.                *)
AllOrNothing == [][Idle' /\ ~Idle => file' \in {before, Applied(before, batch, runs)}]_vars

(* The abstract store: while a run holds the exclusive lock its rows are   *)
(* not seen; a run that reports success has replaced all of its rows and   *)
(* no other, any other run some of them.                                   *)
Outcome ==
  CASE phase = "idle" -> "none" [] phase = "ok" -> "ok"
    [] phase \in {"failed", "killed"} -> "failed" [] OTHER -> "running"
Abstract == INSTANCE BatchStore WITH
  store <- IF Idle THEN file ELSE before,
  pending <- batch,
  outcome <- Outcome
RefinesBatchStore == Abstract!Spec
==============================================================================
