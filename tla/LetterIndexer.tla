---------------------------- MODULE LetterIndexer ----------------------------
(***************************************************************************)
(* The alphabet, twice: the array letters of linux_program/src/handlers.c  *)
(* (its order is the order of the code table) and the combinational        *)
(* entity hw/hdl/letter_indexer.vhd that maps a character to its place in  *)
(* that table.                                                             *)
(***************************************************************************)
EXTENDS Integers, Sequences

\* handlers.c: 'A'..'Z', 'a'..'z', space, comma, full stop, newline.
letters ==
    [i \in 1 .. 26 |-> 64 + i] \o [i \in 1 .. 26 |-> 96 + i]
      \o <<32, 44, 46, 10>>

\* letter_indexer.vhd: index_o, 0 for every character not in the alphabet.
Index(c) ==
    CASE c \in 65 .. 90  -> c - 65
      [] c \in 97 .. 122 -> c - 71
      [] c = 32 -> 52
      [] c = 44 -> 53
      [] c = 46 -> 54
      [] c = 10 -> 55
      [] OTHER  -> 0
=============================================================================
