----------------------------- MODULE MC_Migrator -----------------------------
(* The migrations of the repository (services/*/migrations): what fails on a    *)
(* schema that has it already, and what each refers to.                         *)
EXTENDS Migrator

MCTop == [booking |-> 6, client |-> 1, staff |-> 5, analytics |-> 2]

\* CREATE INDEX, RENAME COLUMN and ADD COLUMN without IF NOT EXISTS.
MCOnce == [booking |-> {1, 2, 6}, client |-> {}, staff |-> {4}, analytics |-> {}]

MCNeeds ==
  [booking   |-> <<{}, {1}, {1}, {1}, {}, {5}>>,
   client    |-> <<{}>>,
   staff     |-> <<{}, {1}, {1}, {3}, {2}>>,
   analytics |-> <<{}, {}>>]

\* DROP ... IF EXISTS refers to nothing but the table it alters.
MCUndoes ==
  [booking   |-> <<{}, {2}, {}, {1}, {}, {6}>>,
   client    |-> <<{}>>,
   staff     |-> <<{}, {}, {}, {4}, {2}>>,
   analytics |-> <<{}, {}>>]
=============================================================================
