------------------------------ MODULE MCRoster ------------------------------
(***************************************************************************)
(* Roster with what may happen in one run.  The lists of what happens are  *)
(* short on trouble where they are long on orders: three of them fill a    *)
(* queue of mechs with a kick behind it.                                   *)
(***************************************************************************)
EXTENDS Roster

Budget(joins, leaves, faults, orders) ==
  [joins |-> joins, leaves |-> leaves, faults |-> faults, orders |-> orders]

MCBudgets == {Budget(2, 1, 1, 0), Budget(2, 1, 0, 1), Budget(2, 0, 1, 1),
              Budget(1, 1, 1, 1), Budget(2, 0, 0, 3)}

\* For the runs that find a violation.
KickBudgets   == {Budget(2, 1, 0, 1)}
ForgetBudgets == {Budget(3, 1, 0, 1)}
=============================================================================
