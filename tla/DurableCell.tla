----------------------------- MODULE DurableCell -----------------------------
(***************************************************************************)
(* What the two-slot update journal promises its users: one cell that      *)
(* holds a numbered record.  A write either takes effect completely, and   *)
(* is then the next number, or has no effect.  Nothing else ever changes   *)
(* the cell: not a crash, not a torn sector, not a failed read.            *)
(***************************************************************************)
EXTENDS Naturals

CONSTANT MaxGen            \* the largest generation number, maxInt(u64)

VARIABLES generation,      \* 0 while nothing was ever written
          open             \* the record's phase is not terminal

CellInit == /\ generation = 0
            /\ open = FALSE

Write == /\ generation < MaxGen
         /\ generation' = generation + 1
         /\ open' \in BOOLEAN

CellSpec == CellInit /\ [][Write]_<<generation, open>>
=============================================================================
