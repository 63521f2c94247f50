----------------------------- MODULE WorldFiles -----------------------------
(***************************************************************************)
(* The directory and the database file of one durable world: in which      *)
(* steps they come to be (core/src/world.rs, core/src/world_schema.rs),    *)
(* and what each way of opening them makes of a file that is not finished. *)
(* No state; DataRoot drives them.                                         *)
(*                                                                         *)
(* How far a creation got is a number: 0 nothing, 1 the directory, 2 an    *)
(* empty universe.db, 2 + k the first k statements of world_schema::create.*)
(* SQLite commits each of them on its own: nothing wraps them in a         *)
(* transaction.                                                            *)
(***************************************************************************)
EXTENDS Naturals, Sequences

Absent == 0
Directory == 1
EmptyDb == 2

CreateStatements ==
    <<"stage_meta", "world_format", "world_format row", "cas_bodies", "cas_state",
      "cas_state row", "stage_meta row", "meta_headers", "events", "event_headers",
      "event_headers index">>

Complete == EmptyDb + Len(CreateStatements)
Has(n, what) == \E i \in DOMAIN CreateStatements : i + EmptyDb <= n /\ CreateStatements[i] = what

\* path.exists() on universe.db.
DbExists(n) == n >= EmptyDb

\* world_schema::new_world: create refuses a file that holds a table.
NewWorld(n) == \A what \in {CreateStatements[i] : i \in DOMAIN CreateStatements} : ~Has(n, what)

RequireTable(n, table) == Has(n, table)
\* The text of a table is the one create wrote, so it is there or it is not.
VerifyExactTable(n, table) == Has(n, table)
VerifyExactIndex(n) == Has(n, "event_headers index")
\* Exactly one row, of the right type and version.
Generation(n) == Has(n, "stage_meta row")
VerifyCasStateRow(n) == Has(n, "cas_state row")
VerifyWorldFormatRow(n) == Has(n, "world_format row")

\* What every open of an existing file checks.  The index is not part of it.
VerifyOpenShape(n) ==
    /\ \A table \in {"stage_meta", "meta_headers", "events", "event_headers"} : RequireTable(n, table)
    /\ Generation(n)
    /\ \A table \in {"cas_bodies", "cas_state", "world_format"} : VerifyExactTable(n, table)
    /\ VerifyCasStateRow(n)
    /\ VerifyWorldFormatRow(n)

\* A writer that opens an existing file adds the index if it is missing.
EnsureWriteIndexes(n) == IF VerifyExactIndex(n) THEN n ELSE Complete

\* open_existing_path, the read-only open of reads, reports and quota checks:
\* no file is None, also when it vanishes on the way, and nothing is created.
OpenExistingPath(n) ==
    CASE ~DbExists(n) -> "none"
      [] DbExists(n) /\ VerifyOpenShape(n) -> "open"
      [] OTHER -> "error"

\* open_existing_writer_path, the open of a writer: the file afterwards, if it
\* opens.
OpenExistingWriterPath(n) == IF OpenExistingPath(n) = "open" THEN {EnsureWriteIndexes(n)} ELSE {}
=============================================================================
