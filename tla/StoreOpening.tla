---------------------------- MODULE StoreOpening ----------------------------
(***************************************************************************)
(* Opening a SQL store (src/store/sqlite-open.ts, sqlite-schema.ts,        *)
(* mysql-schema.ts, mysql-instance.ts, mysql-subject-schema.ts): the       *)
(* schema of whatever version is brought up to date and the store gets its *)
(* identity, once.  SQLite does it in one write transaction on a file that *)
(* may be just being created; MySQL in statements that commit one by one,  *)
(* among those of other replicas.                                          *)
(*                                                                         *)
(* A schema is the set of its features.  The checks that refuse a drifted  *)
(* one (types, collations, engine, indexes, constraints) never meet one.   *)
(***************************************************************************)
EXTENDS Integers, Sequences

CONSTANTS
  Openers,
  Ids,       \* store instance ids
  Unset

ASSUME OpeningAssumption == Ids # {} /\ Unset \notin Ids

VARIABLES
  db,        \* the database
  openers    \* opener -> how far it is

openingVars == <<db, openers>>

Tables == {"codes", "families", "tokens", "jtis", "metadata"}
Columns == {<<"metadata", "swept_through">>, <<"codes", "grant_generation">>,
            <<"families", "grant_generation">>, <<"tokens", "grant_generation">>,
            <<"families", "resource">>, <<"tokens", "resource">>}
WideSubjects == {<<"codes", "subject">>, <<"tokens", "subject">>}

Table(t) == <<t, "table">>
Features == {Table(t) : t \in Tables} \cup Columns \cup WideSubjects
FeaturesOf(t) == {f \in Features : f[1] = t}

\* Deployed schemas: nothing, before the metadata table, before the watermark.
Old == {Table(t) : t \in Tables \ {"metadata"}}
Deployed == {{}, Old, (Features \ {<<"metadata", "swept_through">>}) \ WideSubjects}

\* migrateMysqlStore, statement by statement.
Do(what, on) == [what |-> what, on |-> on]
Plan ==
  <<Do("create", Table("metadata")), Do("column", <<"metadata", "swept_through">>),
    Do("shape", Table("metadata")), Do("insert", Table("metadata")), Do("row", Table("metadata")),
    Do("create", Table("codes")), Do("create", Table("families")),
    Do("create", Table("tokens")), Do("create", Table("jtis")),
    Do("column", <<"codes", "grant_generation">>), Do("column", <<"families", "grant_generation">>),
    Do("column", <<"tokens", "grant_generation">>), Do("column", <<"families", "resource">>),
    Do("column", <<"tokens", "resource">>), Do("widths", Table("codes")),
    Do("widen", <<"codes", "subject">>), Do("widen", <<"tokens", "subject">>)>>

\* step: in Plan.  missing: the column was not there.  narrow: the subjects
\* found too narrow.
Closed == [pc |-> "closed", step |-> 1, missing |-> FALSE, narrow |-> {}]

OpenerAt(p, pc) == openers[p].pc = pc
OpenerGoes(p, pc) == openers' = [openers EXCEPT ![p].pc = pc]

\* A slip: the identity is written anew at every boot.
MutEnsured(id) == id

\* INSERT IGNORE: the row that is there stays.
Ensured(id) == IF db.instance = Unset THEN id ELSE db.instance

-----------------------------------------------------------------------------
(* openSqliteStore *)

\* Found, or created exclusively; a sibling that was first in between is
\* admitted like a file that was found.
AdmitFile(p) ==
  /\ OpenerAt(p, "admit")
  /\ db' = [db EXCEPT !.file = TRUE]
  /\ OpenerGoes(p, "begin")

\* BEGIN IMMEDIATE waits for the writer; a wait of five seconds is a fault.
BeginImmediate(p) ==
  /\ OpenerAt(p, "begin") /\ db.writer = Unset
  /\ db' = [db EXCEPT !.writer = p]
  /\ OpenerGoes(p, "migrate")

\* A slip: the transaction is left open.
MutAfterMigration(p) == p

AfterMigration(p) == Unset

\* migrateSqliteStoreLocked and COMMIT.  A metadata table without the watermark
\* is replaced and keeps its row; TEXT subjects count as wide.
MigrateSqlite(p) ==
  /\ OpenerAt(p, "migrate")
  /\ \E id \in Ids : db' = [db EXCEPT !.schema = Features, !.instance = Ensured(id),
                                      !.writer = AfterMigration(p)]
  /\ OpenerGoes(p, "open")

-----------------------------------------------------------------------------
(* MysqlStore.migrate *)

AtStep(p, what) == OpenerAt(p, "plan") /\ Plan[openers[p].step].what = what
On(p) == Plan[openers[p].step].on

NextStep(p) ==
  LET opener == openers[p] IN
  openers' = [openers EXCEPT
    ![p] = IF opener.step = Len(Plan) THEN [Closed EXCEPT !.pc = "open"]
           ELSE [opener EXCEPT !.step = opener.step + 1, !.missing = FALSE]]

\* CREATE TABLE IF NOT EXISTS.
CreateTable(p) ==
  /\ AtStep(p, "create")
  /\ db' = [db EXCEPT !.schema = IF On(p) \in @ THEN @ ELSE @ \cup FeaturesOf(On(p)[1])]
  /\ NextStep(p)

\* ensureColumn: is it missing?
LookColumn(p) ==
  /\ AtStep(p, "column") /\ ~openers[p].missing
  /\ IF On(p) \in db.schema THEN NextStep(p)
     ELSE openers' = [openers EXCEPT ![p].missing = TRUE]
  /\ UNCHANGED db

\* A slip: the duplicate is an error like any other.
MutTolerates(feature) == FALSE

\* ER_DUP_FIELDNAME, and the column is there.
Tolerates(feature) == feature \in db.schema

AddColumn(p) ==
  /\ AtStep(p, "column") /\ openers[p].missing
  /\ IF On(p) \in db.schema
     THEN (IF Tolerates(On(p)) THEN NextStep(p) ELSE OpenerGoes(p, "refused")) /\ UNCHANGED db
     ELSE db' = [db EXCEPT !.schema = @ \cup {On(p)}] /\ NextStep(p)

\* The strict shape, with the watermark.
AssertShape(p) ==
  /\ AtStep(p, "shape")
  /\ IF FeaturesOf("metadata") \subseteq db.schema THEN NextStep(p) ELSE OpenerGoes(p, "refused")
  /\ UNCHANGED db

InsertInstance(p) ==
  /\ AtStep(p, "insert")
  /\ \E id \in Ids : db' = [db EXCEPT !.instance = Ensured(id)]
  /\ NextStep(p)

AssertRow(p) ==
  /\ AtStep(p, "row")
  /\ IF db.instance # Unset THEN NextStep(p) ELSE OpenerGoes(p, "refused")
  /\ UNCHANGED db

\* Both widths are read before either is changed.
LookWidths(p) ==
  /\ AtStep(p, "widths")
  /\ IF {Table(f[1]) : f \in WideSubjects} \subseteq db.schema
     THEN openers' = [openers EXCEPT ![p].step = @ + 1, ![p].narrow = WideSubjects \ db.schema]
     ELSE OpenerGoes(p, "refused")
  /\ UNCHANGED db

WidenSubject(p) ==
  /\ AtStep(p, "widen")
  /\ db' = IF On(p) \in openers[p].narrow THEN [db EXCEPT !.schema = @ \cup {On(p)}] ELSE db
  /\ NextStep(p)

-----------------------------------------------------------------------------
\* An operator rotates the identity of a running store.
RotateIdentity(p) ==
  /\ OpenerAt(p, "open") /\ db.writer = Unset
  /\ \E id \in Ids : db' = [db EXCEPT !.instance = id]
  /\ UNCHANGED openers

\* The process ends: a transaction rolls back, a statement has happened or not.
LoseOpener(p) ==
  /\ openers' = [openers EXCEPT ![p] = Closed]
  /\ db' = IF db.writer = p THEN [db EXCEPT !.writer = Unset] ELSE db

OpeningInit ==
  /\ openers = [p \in Openers |-> Closed]
  /\ \E schema \in Deployed :
       db = [file |-> schema # {}, schema |-> schema, writer |-> Unset,
             instance |-> IF Table("metadata") \in schema THEN CHOOSE id \in Ids : TRUE ELSE Unset]

SqliteStep(p) == AdmitFile(p) \/ BeginImmediate(p) \/ MigrateSqlite(p)

MysqlStep(p) ==
  \/ CreateTable(p) \/ LookColumn(p) \/ AddColumn(p) \/ AssertShape(p) \/ InsertInstance(p)
  \/ AssertRow(p) \/ LookWidths(p) \/ WidenSubject(p)

OpeningStep(p) == SqliteStep(p) \/ MysqlStep(p)

-----------------------------------------------------------------------------
\* Replicas open one database at the same time, whatever version it is of and
\* wherever an earlier boot broke off: none is refused because of another, and
\* one that has opened it finds every table, every column and an identity.
OpensTogether ==
  \A p \in Openers :
    /\ ~OpenerAt(p, "refused")
    /\ OpenerAt(p, "open") => db.schema = Features /\ db.instance # Unset

\* Boots never change the identity consent tokens are bound to: once set, it
\* is another only after an operator's rotation.
InstanceKept ==
  [][db.instance # Unset =>
       db'.instance = db.instance \/ \E p \in Openers : RotateIdentity(p)]_openingVars
=============================================================================
