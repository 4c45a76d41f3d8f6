---------------------------- MODULE MCOperations ----------------------------
(***************************************************************************)
(* Small instances of what the store's staff work with: the stock           *)
(* positions, the open orders with the reorder queue, and the accounts, all *)
(* extended, so that their invariants are the ones that are proved. They    *)
(* share no state, so a behaviour is about one of them, its subject; the    *)
(* others stay as they begin.                                               *)
(***************************************************************************)
EXTENDS WorkAccounts, ReorderQueue, InventoryPositions, TLC

CONSTANTS o1, o2, w1, r1, r2

\* The stock: two first counts of one bin, a count of another, a sale that needs both.
TwoBins == {0, 1}
Move(type, bin, units) == [type |-> type, location |-> "floor", bin |-> bin, units |-> units]
CountsAndSale ==
    [first |-> Move("stock_update", 0, 3), recount |-> Move("stock_update", 0, 1),
     shelf |-> Move("stock_update", 1, 2), sold |-> Move("sale", 0, 4)]
FloorToBack == [from |-> "floor", to |-> "back", units |-> 2]

\* The order: a partial receipt without an eta, then an event that only moves the eta.
DockAndMove == [dock |-> [ts |-> 1, ordered |-> 3, received |-> 1, eta |-> Nothing],
                moved |-> [ts |-> 2, ordered |-> 3, received |-> 0, eta |-> 1]]
OneOrTwo == {[units |-> 1, monitoring |-> TRUE], [units |-> 2, monitoring |-> FALSE]}

\* The requests are interchangeable, and only safety is checked.
RequestSymmetry == Permutations(Requests)

VARIABLES subject

ASSUME OperationAssumptions == InventoryAssumption /\ QueueAssumption /\ AccountAssumption

allVars == <<subject, stockVars, queueVars, vars>>

MCInit == Init /\ QueueInit /\ StockInit /\ subject \in {"stock", "queue", "accounts"}

MCNext ==
    /\ UNCHANGED subject
    /\ \/ subject = "stock" /\ StockNext /\ UNCHANGED <<queueVars, vars>>
       \/ subject = "queue" /\ QueueNext /\ UNCHANGED <<stockVars, vars>>
       \/ subject = "accounts" /\ Next /\ UNCHANGED <<stockVars, queueVars>>

MCSpec == MCInit /\ [][MCNext]_allVars
=============================================================================
