-------------------------- MODULE SqliteStoreProofs --------------------------
(***************************************************************************)
(* Theorems about stage 4, for every batch, schema script, size of the     *)
(* page cache and number of runs: what is in the file at any point of a    *)
(* run without a journal, and that the writer implements BatchStore.       *)
(***************************************************************************)
EXTENDS SqliteStore, FiniteSetTheorems, SequenceTheorems, TLAPS

Writing == phase \in {"insert", "commit"}

(* A process holds a batch, and holds rows in a cache only in stage 4. *)
Locals ==
  /\ Idle <=> batch = NoBatch
  /\ ~Writing => dirty = Clean
  /\ phase = "commit" => next > Len(batch)

(* n is the last of the rows inserted so far that has key k. *)
InsertedAt(k, n) == n \in DOMAIN batch /\ n < next /\ batch[n] = k
LastInserted(k, row) ==
  /\ row.run = runs
  /\ InsertedAt(k, row.place)
  /\ \A m \in DOMAIN batch : InsertedAt(k, m) => m <= row.place

(* Where the rows of a run are: the last row of a key is in the cache or   *)
(* in the file; below a cached row the file has the row from before the    *)
(* run or an earlier row of the run.                                       *)
Tracked(k) ==
  /\ k \in DirtyKeys => LastInserted(k, dirty[k])
  /\ k \notin DirtyKeys => \/ file[k] = before[k] /\ \A n \in DOMAIN batch : ~InsertedAt(k, n)
                           \/ file[k] \in Row /\ LastInserted(k, file[k])
  /\ file[k] = before[k] \/ \E n \in DOMAIN batch : InsertedAt(k, n) /\ file[k] = [run |-> runs, place |-> n]
Rowwise ==
  /\ Writing => \A k \in Keys : Tracked(k)
  /\ ~Writing /\ ~Idle => file = before

(* Rows are numbered by runs in their order. *)
Numbered ==
  \A k \in Keys :
    /\ file[k] # Missing => file[k].run <= runs
    /\ ~Idle /\ before[k] # Missing => before[k].run < runs

(* What has become of the schema. *)
Executing == phase = "schema"
Schemed ==
  /\ origin \in Catalogs
  /\ catalog \subseteq STRING
  /\ \A n \in Statements : Script[n].creates \in catalog =>
       /\ Script[n].needs \subseteq catalog
       /\ \A x \in Script[n].with : x \in catalog <=> ~LeftOut(origin, x)
  /\ Executing => \A n \in Statements : n < next => Script[n].creates \in catalog
  /\ phase = "encode" \/ Writing => \A n \in Statements : Script[n].creates \in catalog

(* A cache that is not full writes nothing early. *)
SmallBatch == Cardinality({batch[n] : n \in DOMAIN batch}) < CacheRows
NothingSpilled == phase = "insert" /\ SmallBatch => file = before

IInv ==
  TypeOK /\ Locals /\ Rowwise /\ Numbered /\ Schemed /\ NothingSpilled /\ SchemaSound
-----------------------------------------------------------------------------
LEMMA InitIInv == Init => IInv
<1> SUFFICES ASSUME Init PROVE IInv
  OBVIOUS
<1> USE DEF Init, Idle, Writing, Row
<1>1. file \in [Keys -> Rows] /\ before = file /\ \A k \in Keys : file[k] # Missing => file[k].run = 0
  BY StoreAssumption DEF Rows
<1>2. TypeOK
  BY <1>1, StoreAssumption DEF TypeOK, Clean, DirtyKeys
<1>3. Locals /\ Rowwise /\ Numbered /\ NothingSpilled
  BY <1>1 DEF Locals, Rowwise, Numbered, NothingSpilled
<1>4. Schemed
  BY SchemaAssumption, StoreAssumption DEF Schemed, Executing, LeftOut
<1>5. SchemaSound
  BY <1>1, SchemaAssumption DEF SchemaSound, LeftOut
<1> QED
  BY <1>2, <1>3, <1>4, <1>5 DEF IInv

(* A run that ends leaves the file as it is, and with it everything said   *)
(* about it.                                                               *)
LEMMA EndStep ==
  ASSUME IInv, NEW outcome \in {"ok", "failed", "killed"}, EndRun(outcome), file' = file
  PROVE  IInv'
<1> USE DEF IInv, EndRun, Idle, Writing
<1>1. TypeOK'
  BY DEF TypeOK, Clean, DirtyKeys
<1>2. Locals' /\ Rowwise' /\ NothingSpilled'
  BY DEF Locals, Rowwise, NothingSpilled
<1>3. Numbered'
  BY DEF Numbered
<1>4. Schemed' /\ SchemaSound'
  BY DEF Schemed, SchemaSound, Executing
<1> QED
  BY <1>1, <1>2, <1>3, <1>4

LEMMA StartStep == IInv /\ Start => IInv'
<1> SUFFICES ASSUME IInv, Start PROVE IInv'
  OBVIOUS
<1> USE DEF IInv, Start, Idle, Writing, connection
<1>1. TypeOK'
  BY StoreAssumption DEF TypeOK, DirtyKeys
<1>2. Locals' /\ Rowwise' /\ NothingSpilled'
  BY StoreAssumption DEF Locals, Rowwise, NothingSpilled
<1>3. Numbered'
  BY DEF Numbered, TypeOK, Rows, Row
<1>4. Schemed' /\ SchemaSound'
  BY DEF Schemed, SchemaSound, Executing
<1> QED
  BY <1>1, <1>2, <1>3, <1>4

LEMMA OpenStep == IInv /\ OpenOrCreate => IInv'
<1> SUFFICES ASSUME IInv, OpenOrCreate PROVE IInv'
  OBVIOUS
<1> USE DEF IInv, OpenOrCreate, Idle, Writing, connection
<1>1. TypeOK'
  BY StoreAssumption DEF TypeOK, DirtyKeys
<1>2. Locals' /\ Rowwise' /\ NothingSpilled' /\ Numbered'
  BY DEF Locals, Rowwise, NothingSpilled, Numbered
<1>3. Schemed' /\ SchemaSound'
  BY StoreAssumption DEF TypeOK, Schemed, SchemaSound, Executing, Statements
<1> QED
  BY <1>1, <1>2, <1>3

(* What a statement of the script makes of the catalog. *)
LEMMA ExecuteStep == IInv /\ ExecuteSchema => IInv'
<1> SUFFICES ASSUME IInv, ExecuteSchema PROVE IInv'
  OBVIOUS
<1> USE DEF IInv, ExecuteSchema, InScript, Idle, Writing
<1> DEFINE st == Script[next]
<1>1. next \in Statements /\ next \in Nat /\ st.creates \in STRING /\ st.with \subseteq STRING
  <2>1. Len(Script) \in Nat /\ Statements = 1 .. Len(Script)
    BY StoreAssumption DEF Statements
  <2>2. next \in 1 .. Len(Script)
    BY <2>1 DEF TypeOK
  <2>3. st \in [creates : STRING, with : SUBSET STRING, needs : SUBSET STRING, claims : SUBSET STRING]
    BY <2>2, ElementOfSeq, StoreAssumption, Zenon
  <2> QED
    BY <2>1, <2>2, <2>3
<1>2. catalog \subseteq catalog' /\ st.creates \in catalog' /\ catalog' \subseteq STRING
  BY <1>1 DEF Executed, Schemed
<1>3. st.creates \notin catalog => st.with \subseteq catalog' /\ st.needs \subseteq catalog'
  BY <1>1 DEF Executed, Executable
<1>4. \A n \in Statements : n # next /\ Script[n].creates \in catalog' => Script[n].creates \in catalog
  BY <1>1, SchemaAssumption DEF Executed, Separate
(* What the file came without is not what a new table brings. *)
<1>5. \A x : (x \in catalog' /\ x \notin catalog) => ~LeftOut(origin, x)
  <2> SUFFICES ASSUME NEW x, x \in catalog', x \notin catalog, LeftOut(origin, x) PROVE FALSE
    OBVIOUS
  <2>1. PICK m \in Statements : Script[m].creates \in origin /\ x \in Script[m].with
    BY DEF LeftOut
  <2>2. st.creates \notin catalog /\ (x = st.creates \/ x \in st.with)
    BY DEF Executed
  <2>3. m = next
    BY <1>1, <2>1, <2>2, SchemaAssumption DEF Separate
  <2> QED
    BY <2>1, <2>2, <2>3 DEF TypeOK
<1>6. TypeOK'
  BY <1>1, <1>2, StoreAssumption DEF TypeOK, DirtyKeys, Statements
<1>7. Locals' /\ Rowwise' /\ NothingSpilled' /\ Numbered'
  BY DEF Locals, Rowwise, NothingSpilled, Numbered
<1>8. Schemed'
  <2>1. \A n \in Statements : Script[n].creates \in catalog' =>
          /\ Script[n].needs \subseteq catalog'
          /\ \A x \in Script[n].with : x \in catalog' <=> ~LeftOut(origin, x)
    <3> SUFFICES ASSUME NEW n \in Statements, Script[n].creates \in catalog'
                 PROVE  /\ Script[n].needs \subseteq catalog'
                        /\ \A x \in Script[n].with : x \in catalog' <=> ~LeftOut(origin, x)
      OBVIOUS
    <3>1. CASE Script[n].creates \in catalog
      BY <1>2, <1>5, <3>1 DEF Schemed
    <3>2. CASE Script[n].creates \notin catalog
      <4>1. n = next
        BY <1>4, <3>2
      <4>2. \A x \in st.with : ~LeftOut(origin, x)
        BY <1>1, <3>2, <4>1, SchemaAssumption DEF LeftOut, Separate, TypeOK
      <4> QED
        BY <1>3, <3>2, <4>1, <4>2
    <3> QED
      BY <3>1, <3>2
  <2>2. \A n \in Statements : n < next + 1 => Script[n].creates \in catalog'
    <3> TAKE n \in Statements
    <3>1. n \in Nat
      BY StoreAssumption DEF Statements
    <3>2. n < next + 1 => n < next \/ n = next
      BY <1>1, <3>1
    <3> QED
      BY <1>2, <3>2 DEF Schemed, Executing
  <2> QED
    BY <1>2, <2>1, <2>2 DEF Schemed, Executing
<1>9. SchemaSound'
  <2>1. (\E k \in Keys : file'[k] # Missing /\ file'[k].run > 0) => RowColumns \subseteq catalog'
    BY <1>2 DEF SchemaSound
  <2>2. ASSUME st.creates \notin catalog, NEW x \in st.claims
        PROVE  x \in catalog <=> ~LeftOut(origin, x)
    <3>1. PICK m \in 1 .. next - 1 : x \in Script[m].with \cup {Script[m].creates}
      BY <1>1, SchemaAssumption DEF Backed
    <3>2. m \in Statements /\ m < next
      BY <1>1, <3>1, StoreAssumption DEF Statements
    <3>3. Script[m].creates \in catalog
      BY <3>2 DEF Schemed, Executing
    <3>4. x = Script[m].creates => ~LeftOut(origin, x)
      BY <3>2, SchemaAssumption DEF LeftOut, Separate
    <3> QED
      BY <3>1, <3>2, <3>3, <3>4 DEF Schemed
  <2>3. ASSUME NEW n \in Statements, Script[n].creates \in catalog', NEW x \in Script[n].claims
        PROVE  x \in catalog' <=> ~LeftOut(origin, x)
    <3>1. x \in catalog <=> ~LeftOut(origin, x)
      BY <1>4, <2>2, <2>3 DEF SchemaSound
    <3> QED
      BY <1>2, <1>5, <3>1
  <2> QED
    BY <2>1, <2>3 DEF SchemaSound
<1> QED
  BY <1>6, <1>7, <1>8, <1>9

LEMMA SchemaDoneStep == IInv /\ SchemaDone => IInv'
<1> SUFFICES ASSUME IInv, SchemaDone PROVE IInv'
  OBVIOUS
<1> USE DEF IInv, SchemaDone, Idle, Writing
<1>1. TypeOK'
  BY DEF TypeOK, DirtyKeys
<1>2. Locals' /\ Rowwise' /\ NothingSpilled' /\ Numbered'
  BY DEF Locals, Rowwise, NothingSpilled, Numbered
<1>3. \A n \in Statements : n < next
  BY StoreAssumption DEF Statements, TypeOK
<1>4. Schemed' /\ SchemaSound'
  BY <1>3 DEF Schemed, SchemaSound, Executing
<1> QED
  BY <1>1, <1>2, <1>4

LEMMA EncodeStep == IInv /\ EncodeAll => IInv'
<1> SUFFICES ASSUME IInv, EncodeAll PROVE IInv'
  OBVIOUS
<1> USE DEF IInv, EncodeAll, Idle, Writing, connection
<1>1. next = 1 /\ batch \in Seq(Keys) /\ dirty = Clean
  BY StoreAssumption DEF TypeOK, Locals
<1>2. TypeOK'
  BY <1>1 DEF TypeOK, DirtyKeys
<1>3. Locals' /\ NothingSpilled' /\ Numbered'
  BY DEF Locals, Rowwise, NothingSpilled, Numbered
<1>4. Rowwise'
  BY <1>1 DEF Rowwise, Tracked, InsertedAt, Clean, DirtyKeys
<1>5. Schemed' /\ SchemaSound'
  BY DEF Schemed, SchemaSound, Executing
<1> QED
  BY <1>2, <1>3, <1>4, <1>5

LEMMA InsertStep == IInv /\ InsertRow => IInv'
<1> SUFFICES ASSUME IInv, InsertRow PROVE IInv'
  OBVIOUS
<1> USE DEF IInv, InsertRow, Idle, Writing
<1> DEFINE key == batch[next]
           row == [run |-> runs, place |-> next]
<1>1. batch \in Seq(Keys) /\ next \in Nat /\ next <= Len(batch) /\ runs \in Nat /\ key \in Keys
  BY StoreAssumption DEF TypeOK, Locals
<1>2. /\ DirtyKeys' = DirtyKeys \cup {key}
      /\ dirty'[key] = row
      /\ \A k \in DirtyKeys : k # key => dirty'[k] = dirty[k]
  BY DEF Inserted, DirtyKeys
<1>3. TypeOK'
  BY <1>1, <1>2 DEF TypeOK, Row
<1>4. Locals' /\ NothingSpilled' /\ Numbered'
  BY DEF Locals, NothingSpilled, SmallBatch, Numbered
<1>5. Rowwise'
  <2> SUFFICES ASSUME NEW k \in Keys PROVE Tracked(k)'
    BY DEF Rowwise
  <2>1. Tracked(k)
    BY DEF Rowwise
  <2>2. \A n : InsertedAt(k, n)' <=> InsertedAt(k, n) \/ (n = next /\ k = key)
    BY <1>1 DEF InsertedAt
  <2>3. CASE k = key
    <3>1. LastInserted(k, dirty[k])'
      BY <1>1, <1>2, <2>2, <2>3 DEF LastInserted, InsertedAt
    <3> QED
      BY <1>2, <2>1, <2>2, <2>3, <3>1 DEF Tracked
  <2>4. CASE k # key
    <3>1. \A r : LastInserted(k, r)' <=> LastInserted(k, r)
      BY <2>2, <2>4 DEF LastInserted
    <3> QED
      BY <1>2, <2>1, <2>2, <2>4, <3>1 DEF Tracked
  <2> QED
    BY <2>3, <2>4
<1>6. Schemed' /\ SchemaSound'
  BY DEF Schemed, SchemaSound, Executing
<1> QED
  BY <1>3, <1>4, <1>5, <1>6

LEMMA CommitStep == IInv /\ Commit => IInv'
<1> SUFFICES ASSUME IInv, Commit PROVE IInv'
  OBVIOUS
<1> USE DEF IInv, Commit, AllInserted, Idle, Writing, connection
<1>1. TypeOK' /\ Locals' /\ NothingSpilled' /\ Numbered'
  BY DEF TypeOK, DirtyKeys, Locals, NothingSpilled, Numbered
<1>2. Schemed' /\ SchemaSound'
  BY DEF Schemed, SchemaSound, Executing
<1>3. Rowwise'
  <2>1. \A k, n : InsertedAt(k, n)' <=> InsertedAt(k, n)
    BY DEF InsertedAt
  <2>2. \A k, r : LastInserted(k, r)' <=> LastInserted(k, r)
    BY <2>1 DEF LastInserted
  <2>3. \A k : Tracked(k)' <=> Tracked(k)
    BY <2>1, <2>2 DEF Tracked, DirtyKeys
  <2> QED
    BY <2>3 DEF Rowwise
<1> QED
  BY <1>1, <1>2, <1>3

(* Once the script is through, every column of the INSERTs is there.       *)
LEMMA Provision ==
  ASSUME Schemed, origin \subseteq catalog, phase = "encode" \/ Writing
  PROVE  RowColumns \subseteq catalog
<1> SUFFICES ASSUME NEW x \in RowColumns PROVE x \in catalog
  OBVIOUS
<1>1. PICK n \in Statements :
        \/ x = Script[n].creates
        \/ x \in Script[n].needs
        \/ x \in Script[n].with /\ \A c \in Catalogs : Script[n].creates \in c => x \in c
  BY SchemaAssumption DEF Provided
<1>2. Script[n].creates \in catalog
  BY DEF Schemed
<1>3. ASSUME x \in Script[n].with, \A c \in Catalogs : Script[n].creates \in c => x \in c
      PROVE  x \in catalog
  <2>1. CASE Script[n].creates \in origin
    BY <1>3, <2>1 DEF Schemed
  <2>2. CASE Script[n].creates \notin origin
    BY <1>2, <1>3, <2>2, SchemaAssumption DEF Schemed, LeftOut, Separate
  <2> QED
    BY <2>1, <2>2
<1> QED
  BY <1>1, <1>2, <1>3 DEF Schemed

(* A row that is written back is the last one of its key so far.           *)
LEMMA FlushStep ==
  ASSUME IInv, NEW k \in DirtyKeys, WriteBack(k),
         (Spill /\ phase = "insert") \/ (FlushPage /\ phase = "commit")
  PROVE  IInv'
<1> USE DEF IInv, WriteBack, Flushed, Idle, Writing
<1>a. UNCHANGED <<catalog, origin, phase, batch, next, runs, before>>
  BY DEF Spill, FlushPage
<1>1. /\ k \in Keys /\ dirty[k] \in Row /\ runs \in Nat /\ Writing
      /\ file' = [file EXCEPT ![k] = dirty[k]]
      /\ DirtyKeys' = DirtyKeys \ {k} /\ \A d \in DirtyKeys' : dirty'[d] = dirty[d]
  BY DEF TypeOK, DirtyKeys
<1>2. LastInserted(k, dirty[k])
  BY <1>1 DEF Rowwise, Tracked
<1>3. TypeOK'
  BY <1>a, <1>1 DEF TypeOK, Rows
<1>4. Locals'
  BY <1>a DEF Locals
<1>5. Rowwise'
  <2>1. \A j, n : InsertedAt(j, n)' <=> InsertedAt(j, n)
    BY <1>a DEF InsertedAt
  <2>2. \A j, r : LastInserted(j, r)' <=> LastInserted(j, r)
    BY <1>a, <2>1 DEF LastInserted
  <2>3. ASSUME NEW j \in Keys PROVE Tracked(j)'
    <3>1. Tracked(j)
      BY <1>1, <2>3 DEF Rowwise
    <3>2. CASE j = k
      <4>1. file'[k] = dirty[k]
        BY <1>1 DEF TypeOK
      <4>2. dirty[k] = [run |-> runs, place |-> dirty[k].place]
        BY <1>1, <1>2 DEF Row, LastInserted
      <4> QED
        BY <1>1, <1>2, <1>a, <2>1, <2>2, <3>2, <4>1, <4>2 DEF Tracked, LastInserted, InsertedAt
    <3>3. CASE j # k
      <4>1. file'[j] = file[j]
        BY <1>1, <3>3 DEF TypeOK
      <4> QED
        BY <1>1, <1>a, <2>1, <2>2, <3>1, <3>3, <4>1 DEF Tracked
    <3> QED
      BY <3>2, <3>3
  <2> QED
    BY <1>a, <1>1, <2>3 DEF Rowwise
<1>6. Numbered'
  BY <1>a, <1>1, <1>2 DEF Numbered, LastInserted, TypeOK, Row
<1>7. NothingSpilled'
  <2> SUFFICES ASSUME phase = "insert", SmallBatch PROVE FALSE
    BY <1>a DEF NothingSpilled, SmallBatch
  <2> DEFINE B == {batch[n] : n \in DOMAIN batch}
  <2>1. batch \in Seq(Keys)
    BY StoreAssumption DEF TypeOK, Locals
  <2>2. DirtyKeys \subseteq B
    BY <1>1 DEF Rowwise, Tracked, LastInserted, InsertedAt, TypeOK
  <2>3. IsFiniteSet(B)
    <3>1. IsFiniteSet(DOMAIN batch)
      BY <2>1, FS_Interval
    <3>2. batch \in Surjection(DOMAIN batch, B)
      BY <2>1 DEF Surjection
    <3> QED
      BY <3>1, <3>2, FS_Surjection
  <2>4. Cardinality(DirtyKeys) <= Cardinality(B) /\ Cardinality(B) \in Nat /\ Cardinality(DirtyKeys) \in Nat
    BY <2>2, <2>3, FS_Subset, FS_CardinalityType
  <2> QED
    BY <2>4, StoreAssumption DEF SmallBatch, Spill, CacheFull
<1>8. Schemed' /\ SchemaSound'
  <2>1. RowColumns \subseteq catalog
    BY <1>1, Provision DEF TypeOK
  <2> QED
    BY <1>a, <2>1 DEF Schemed, SchemaSound, Executing
<1> QED
  BY <1>3, <1>4, <1>5, <1>6, <1>7, <1>8

(* A statement, the encoding or a page fails, a run is over or is killed.  *)
LEMMA Ends ==
  ASSUME IInv, Fail \/ SchemaRefused \/ Finish \/ Kill
  PROVE  ~Idle /\ file' = file /\ \E outcome \in {"ok", "failed", "killed"} : EndRun(outcome)
  BY DEF Fail, OpenFails, SchemaFails, SchemaRefused, EncodeFails, InsertFails, FlushFails, Finish, Kill,
         InScript, Idle

LEMMA StepIInv == IInv /\ [Next]_vars => IInv'
<1> SUFFICES ASSUME IInv, [Next]_vars PROVE IInv'
  OBVIOUS
<1>1. CASE Start
  BY <1>1, StartStep
<1>2. CASE Proceed
  <2>1. CASE OpenOrCreate
    BY <2>1, OpenStep
  <2>2. CASE ExecuteSchema
    BY <2>2, ExecuteStep
  <2>3. CASE SchemaRefused \/ Finish
    BY <2>3, Ends, EndStep
  <2>4. CASE SchemaDone
    BY <2>4, SchemaDoneStep
  <2>5. CASE EncodeAll
    BY <2>5, EncodeStep
  <2>6. CASE InsertRow
    BY <2>6, InsertStep
  <2>7. CASE Spill \/ FlushPage
    <3>1. PICK k \in DirtyKeys : WriteBack(k)
      BY <2>7 DEF Spill, FlushPage
    <3>2. (Spill /\ phase = "insert") \/ (FlushPage /\ phase = "commit")
      BY <2>7 DEF Spill, FlushPage
    <3> QED
      BY <3>1, <3>2, FlushStep
  <2>8. CASE Commit
    BY <2>8, CommitStep
  <2> QED
    BY <1>2, <2>1, <2>2, <2>3, <2>4, <2>5, <2>6, <2>7, <2>8 DEF Proceed
<1>3. CASE Fail \/ Kill
  BY <1>3, Ends, EndStep
<1>4. CASE UNCHANGED vars
  <2>1. \A k, n : InsertedAt(k, n)' <=> InsertedAt(k, n)
    BY <1>4 DEF InsertedAt, vars
  <2>2. \A k, r : LastInserted(k, r)' <=> LastInserted(k, r)
    BY <1>4, <2>1 DEF LastInserted, vars
  <2>3. \A k : Tracked(k)' <=> Tracked(k)
    BY <1>4, <2>1, <2>2 DEF Tracked, DirtyKeys, vars
  <2>4. TypeOK' /\ Locals' /\ Numbered' /\ Schemed' /\ NothingSpilled' /\ SchemaSound'
    BY <1>4 DEF vars, IInv, TypeOK, Locals, Numbered, Schemed, NothingSpilled, SmallBatch, SchemaSound, Idle,
                Writing, Executing, DirtyKeys
  <2>5. Rowwise'
    BY <1>4, <2>3 DEF IInv, Rowwise, Writing, Idle, vars
  <2> QED
    BY <2>4, <2>5 DEF IInv
<1> QED
  BY <1>1, <1>2, <1>3, <1>4 DEF Next, Stopped

LEMMA SpecIInv == Spec => []IInv
  BY InitIInv, StepIInv, PTL DEF Spec
-----------------------------------------------------------------------------
(* Every variable of stage 4 holds a value of its type: no statement and   *)
(* no row beyond the last is ever taken, and no table is ever dropped.     *)
THEOREM SpecTypeOK == Spec => []TypeOK
<1>1. IInv => TypeOK
  BY DEF IInv
<1> QED
  BY <1>1, SpecIInv, PTL

(* A run has rows in the file only when every column it writes is there,   *)
(* and a migration on record brings all but the columns that a table the   *)
(* file came with lacks.                                                   *)
THEOREM SpecSchemaSound == Spec => []SchemaSound
<1>1. IInv => SchemaSound
  BY DEF IInv
<1> QED
  BY <1>1, SpecIInv, PTL

(* The rows of a batch, once all are inserted and none is dirty.           *)
LEMMA CompleteRow ==
  ASSUME IInv, phase = "commit", dirty = Clean, NEW k \in Keys
  PROVE  file[k] = Applied(before, batch, runs)[k]
<1>1. Tracked(k) /\ k \notin DirtyKeys /\ batch \in Seq(Keys) /\ next \in Nat /\ next > Len(batch)
  BY StoreAssumption DEF IInv, Rowwise, Writing, Locals, Idle, TypeOK, Clean, DirtyKeys
<1>2. \A n : InsertedAt(k, n) <=> n \in DOMAIN batch /\ batch[n] = k
  BY <1>1 DEF InsertedAt
<1>3. CASE \A n \in DOMAIN batch : batch[n] # k
  BY <1>1, <1>2, <1>3 DEF Tracked, LastInserted, LastPlace, Applied
<1>4. CASE \E n \in DOMAIN batch : batch[n] = k
  <2>1. file[k] \in Row /\ LastInserted(k, file[k])
    BY <1>1, <1>2, <1>4 DEF Tracked
  <2>2. file[k].place \in LastPlace(batch, k) /\ file[k].run = runs
    BY <1>2, <2>1 DEF LastInserted, LastPlace
  <2>3. \A n \in LastPlace(batch, k) : n = file[k].place
    BY <1>1, <2>2 DEF LastPlace
  <2> QED
    BY <2>1, <2>2, <2>3 DEF Applied, Row
<1> QED
  BY <1>3, <1>4

(* A commit that is about to return success has the last row of each key   *)
(* of the batch in the file, and no other row of the file is touched,      *)
(* whatever was written early and whatever earlier runs left behind.       *)
THEOREM SpecSuccessIsComplete == Spec => []SuccessIsComplete
<1>1. IInv => SuccessIsComplete
  BY CompleteRow DEF SuccessIsComplete, Applied, IInv, TypeOK
<1> QED
  BY <1>1, SpecIInv, PTL

(* A row of the file is only ever replaced by an inserted row of the batch *)
(* that is running.                                                        *)
THEOREM SpecOnlyBatchRows == Spec => OnlyBatchRows
<1> DEFINE Replaced ==
      \A k \in Keys : file'[k] # file[k] =>
        \E n \in DOMAIN batch : n < next /\ batch[n] = k /\ file'[k] = [run |-> runs, place |-> n]
<1>1. IInv /\ [Next]_vars => [Replaced]_vars
  <2> SUFFICES ASSUME IInv, Next PROVE Replaced
    OBVIOUS
  <2>1. CASE Spill \/ FlushPage
    <3>1. PICK k \in DirtyKeys : WriteBack(k)
      BY <2>1 DEF Spill, FlushPage
    <3>2. k \in Keys /\ dirty[k] \in Row /\ Tracked(k) /\ \A j \in Keys : file'[j] # file[j] => j = k /\ file'[k] = dirty[k]
      BY <2>1, <3>1 DEF IInv, TypeOK, Rowwise, Writing, Spill, FlushPage, WriteBack, Flushed
    <3>3. dirty[k] = [run |-> runs, place |-> dirty[k].place] /\ InsertedAt(k, dirty[k].place)
      BY <3>1, <3>2 DEF Tracked, LastInserted, Row
    <3> QED
      BY <3>2, <3>3 DEF InsertedAt
  <2>2. CASE ~(Spill \/ FlushPage)
    BY <2>2, Ends DEF Next, Start, Proceed, OpenOrCreate, ExecuteSchema, SchemaDone, EncodeAll, InsertRow, Commit,
                      Stopped, vars
  <2> QED
    BY <2>1, <2>2
<1> QED
  BY <1>1, SpecIInv, PTL DEF Spec, OnlyBatchRows

(* A run that fails or is killed before COMMIT leaves the file as it found *)
(* it, if the keys of its batch do not fill the cache.                     *)
THEOREM SpecFailureKeepsRows == Spec => FailureKeepsRows
<1> DEFINE Kept ==
      ~Idle /\ phase # "commit" /\ phase' \in {"failed", "killed"} /\ SmallBatch => file' = before
<1>1. IInv /\ [Next]_vars => [Kept]_vars
  <2> SUFFICES ASSUME IInv, Next, ~Idle, phase # "commit", phase' \in {"failed", "killed"}, SmallBatch
               PROVE  file' = before
    OBVIOUS
  <2>1. file' = file
    BY Ends DEF Next, Start, Proceed, OpenOrCreate, ExecuteSchema, SchemaDone, EncodeAll, InsertRow, Spill,
                Commit, FlushPage, Stopped, Idle, vars
  <2> QED
    BY <2>1 DEF IInv, TypeOK, Rowwise, NothingSpilled, Writing, Idle
<1> QED
  BY <1>1, SpecIInv, PTL DEF Spec, FailureKeepsRows, SmallBatch
-----------------------------------------------------------------------------
(* The refinement.  While a run is under way its rows are not seen, so all *)
(* of its steps but the first and the last are no steps of the abstract    *)
(* store.                                                                  *)
shown == IF Idle THEN file ELSE before

LEMMA ImplementsInit == Init => Abstract!Init
  BY DEF Init, Abstract!Init, Outcome

LEMMA ImplementsBegin ==
  ASSUME IInv, Start
  PROVE  Abstract!Begin
<1>1. Outcome # "running" /\ Outcome' = "running"
  BY DEF Start, Idle, Outcome
<1>2. UNCHANGED shown
  BY DEF Start, Idle, shown
<1> QED
  BY <1>1, <1>2 DEF Abstract!Begin, Start, shown

LEMMA ImplementsSucceed ==
  ASSUME IInv, Finish
  PROVE  Abstract!Succeed
<1>1. Outcome = "running" /\ Outcome' = "ok" /\ ~Idle /\ Idle' /\ file' = file /\ batch' = NoBatch /\ runs' = runs
  BY DEF Finish, EndRun, Idle, Outcome
<1>2. batch \in Seq(Keys) /\ file \in [Keys -> Rows] /\ before \in [Keys -> Rows]
  BY <1>1, StoreAssumption DEF IInv, TypeOK, Locals
<1>3. ASSUME NEW k \in Keys
      PROVE  file[k] = Abstract!Kept(before[k], DOMAIN batch, k)
  <2> DEFINE mine == {n \in DOMAIN batch : batch[n] = k}
  <2>1. /\ Tracked(k) /\ k \notin DirtyKeys
        /\ \A n : InsertedAt(k, n) <=> n \in mine
    BY <1>2, <1>3 DEF IInv, Finish, NothingDirty, Rowwise, Writing, Locals, TypeOK, InsertedAt, Clean, DirtyKeys
  <2>2. CASE mine = {}
    BY <2>1, <2>2 DEF Tracked, LastInserted, Abstract!Kept
  <2>3. CASE mine # {}
    <3>1. file[k] \in Row /\ LastInserted(k, file[k])
      BY <2>1, <2>3 DEF Tracked
    <3>2. file[k].place \in mine /\ (\A m \in mine : m <= file[k].place) /\ mine \subseteq Nat
      BY <1>2, <2>1, <3>1 DEF LastInserted
    <3>3. Abstract!Max(mine) = file[k].place
      BY <3>2 DEF Abstract!Max
    <3> QED
      BY <2>3, <3>1, <3>3 DEF LastInserted, Row, Abstract!Kept
  <2> QED
    BY <2>2, <2>3
<1>4. file = Abstract!After(DOMAIN batch)
  BY <1>1, <1>2, <1>3 DEF Abstract!After
<1> QED
  BY <1>1, <1>4 DEF Abstract!Succeed, Abstract!End

(* The rows of the run that are in the file when it is cut short. *)
Written == {n \in DOMAIN batch : file[batch[n]] = [run |-> runs, place |-> n]}

LEMMA ImplementsAbandon ==
  ASSUME IInv, ~Idle, file' = file, NEW outcome \in {"failed", "killed"}, EndRun(outcome)
  PROVE  Abstract!Abandon
<1>1. Outcome = "running" /\ Outcome' = "failed" /\ Idle' /\ batch' = NoBatch /\ runs' = runs
  BY DEF EndRun, Idle, Outcome, IInv, TypeOK
<1>2. batch \in Seq(Keys) /\ file \in [Keys -> Rows] /\ before \in [Keys -> Rows] /\ runs \in Nat
  BY StoreAssumption DEF IInv, TypeOK, Locals
<1>3. ASSUME NEW k \in Keys
      PROVE  file[k] = Abstract!Kept(before[k], Written, k)
  <2> DEFINE mine == {n \in Written : batch[n] = k}
  <2>1. file[k] = before[k] \/ \E n \in DOMAIN batch : batch[n] = k /\ file[k] = [run |-> runs, place |-> n]
    BY <1>3 DEF IInv, Rowwise, Tracked, InsertedAt
  <2>2. ASSUME NEW n \in mine
        PROVE  file[k] = [run |-> runs, place |-> n]
    BY DEF Written
  <2>3. CASE mine = {}
    <3>1. file[k] = before[k]
      BY <1>3, <2>1, <2>3 DEF Written
    <3> QED
      BY <2>3, <3>1 DEF Abstract!Kept
  <2>4. CASE mine # {}
    <3>1. PICK n \in mine : TRUE
      BY <2>4
    <3>2. mine = {n} /\ n \in Nat
      BY <1>2, <2>2, <3>1 DEF Written
    <3>3. Abstract!Max(mine) = n
      BY <3>2 DEF Abstract!Max
    <3> QED
      BY <2>2, <2>4, <3>1, <3>3 DEF Abstract!Kept
  <2> QED
    BY <2>3, <2>4
<1>4. file = Abstract!After(Written)
  BY <1>2, <1>3 DEF Abstract!After
<1>5. Written \in SUBSET DOMAIN batch
  BY DEF Written
<1> QED
  BY <1>1, <1>4, <1>5 DEF Abstract!Abandon, Abstract!End

(* Any other step is no step of the abstract store.                        *)
LEMMA ImplementsStutter ==
  ASSUME Proceed, ~SchemaRefused, ~Finish
  PROVE  UNCHANGED Abstract!vars
<1>1. ~Idle /\ ~Idle' /\ Outcome = "running" /\ Outcome' = "running" /\ UNCHANGED <<before, batch, runs>>
  BY DEF Proceed, OpenOrCreate, ExecuteSchema, InScript, SchemaDone, EncodeAll, InsertRow, Spill, Commit, FlushPage,
         Idle, Outcome
<1> QED
  BY <1>1 DEF Abstract!vars

LEMMA Implements == IInv /\ [Next]_vars => [Abstract!Next]_(Abstract!vars)
<1> SUFFICES ASSUME IInv, [Next]_vars PROVE Abstract!Next \/ UNCHANGED Abstract!vars
  OBVIOUS
<1>1. CASE Start
  BY <1>1, ImplementsBegin DEF Abstract!Next
<1>2. CASE Finish
  BY <1>2, ImplementsSucceed DEF Abstract!Next
<1>3. CASE Fail \/ SchemaRefused \/ Kill
  <2>1. ~Idle /\ file' = file /\ \E outcome \in {"failed", "killed"} : EndRun(outcome)
    BY <1>3 DEF Fail, OpenFails, SchemaFails, SchemaRefused, EncodeFails, InsertFails, FlushFails, Kill,
         InScript, Idle
  <2> QED
    BY <2>1, ImplementsAbandon DEF Abstract!Next
<1>4. CASE Proceed /\ ~SchemaRefused /\ ~Finish
  BY <1>4, ImplementsStutter
<1>5. CASE UNCHANGED vars
  BY <1>5 DEF vars, Abstract!vars, Idle, Outcome
<1> QED
  BY <1>1, <1>2, <1>3, <1>4, <1>5 DEF Next, Proceed, Stopped

(* The writer implements the abstract store: a run that reports success    *)
(* has replaced the rows of its whole batch at once, any other run some of *)
(* them, and no run anything else.                                         *)
THEOREM SpecRefinesBatchStore == Spec => RefinesBatchStore
  BY ImplementsInit, Implements, SpecIInv, PTL DEF Spec, Abstract!Spec, RefinesBatchStore
==============================================================================
