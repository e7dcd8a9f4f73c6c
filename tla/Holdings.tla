------------------------------ MODULE Holdings ------------------------------
(***************************************************************************)
(* Property: the players, the items, and the letters that carry items and  *)
(* money from one player to another.                                       *)
(***************************************************************************)
CONSTANTS Players, Items, None

Row(kind, from, to, item, money, cod) ==
    [kind |-> kind, from |-> from, to |-> to, item |-> item, money |-> money, cod |-> cod]

\* isDeleted = 1, or never inserted
Gone == Row("gone", None, None, None, 0, 0)
=============================================================================
