------------------------------ MODULE Migrations -----------------------------
(***************************************************************************)
(* The migration scripts.  Each names the script it follows and creates    *)
(* tables; columns and indexes are left out.  An image of the application  *)
(* holds the scripts that were there when it was built.                    *)
(***************************************************************************)
CONSTANT NONE         \* no revision: the empty database

trades ==
  [revision |-> "40fb4096fd3f", down_revision |-> NONE, tables |-> {"trades"}]

chart_analyses ==
  [revision |-> "37cbf7b705a0", down_revision |-> "40fb4096fd3f",
   tables |-> {"chart_analyses"}]

memory_tables ==
  [revision |-> "b9f1a2e3c4d5", down_revision |-> "37cbf7b705a0",
   tables |-> {"context_sessions", "memory_records"}]

performance_reports ==
  [revision |-> "c2d3e4f5a6b7", down_revision |-> "b9f1a2e3c4d5",
   tables |-> {"performance_reports"}]

replay_sessions ==
  [revision |-> "d4e5f6a7b8c9", down_revision |-> "c2d3e4f5a6b7",
   tables |-> {"replay_sessions"}]

Scripts == {trades, chart_analyses, memory_tables, performance_reports, replay_sessions}

ASSUME NoneAssumption == \A s \in Scripts : s.revision # NONE

Tables(scripts) == UNION {s.tables : s \in scripts}

(* A schema is what alembic_version says and the tables there are.         *)
Schema == [version : {NONE} \cup {s.revision : s \in Scripts}, tables : SUBSET Tables(Scripts)]

Empty == [version |-> NONE, tables |-> {}]

Known(scripts, version) == version \in {NONE} \cup {s.revision : s \in scripts}

Head(scripts) ==
  CHOOSE v \in {s.revision : s \in scripts} : \A s \in scripts : s.down_revision # v

(* The script that leads on from a version (none, at the head).            *)
Following(scripts, version) == {s \in scripts : s.down_revision = version}

Upgrade(schema, s) ==
  [version |-> s.revision, tables |-> schema.tables \cup s.tables]

Downgrade(schema, s) ==
  [version |-> s.down_revision, tables |-> schema.tables \ s.tables]

(* The scripts up to a version are those whose tables exist.               *)
Consistent(schema) ==
  \A s \in Scripts :
    /\ s.tables \subseteq schema.tables \/ s.tables \cap schema.tables = {}
    /\ s.tables \subseteq schema.tables =>
         \/ schema.version = s.revision
         \/ \E t \in Following(Scripts, s.revision) : t.tables \subseteq schema.tables
    /\ schema.version = s.revision => s.tables \subseteq schema.tables
=============================================================================
