------------------------ MODULE InventoryPositions ------------------------
(***************************************************************************)
(* Stock positions of one product: a quantity for each bin of a location.   *)
(* Counts and sales are projected from events, each in one transaction with *)
(* its replay receipt; the manual route and the completion of a relocation  *)
(* overwrite single positions without reading them.                         *)
(*                                                                          *)
(* SELECT ... FOR UPDATE sees the rows that were there when it began, waits *)
(* for the transactions that hold them, and then reads their new values. It *)
(* locks nothing that is not there yet. Two projections of one event go one *)
(* after the other (advisory lock), and the second finds the receipt.       *)
(***************************************************************************)
EXTENDS Integers, FiniteSets, FiniteSetsExt, Functions

CONSTANTS Locations, Bins,  \* Bins \subseteq Nat: the order of bin_id
          Movements,        \* events: sets of ids, with
          MovementOf,       \*   their type, location, bin and units
          Relocation,       \* the approved relocation: from, to and units
          Unassigned,       \* the bin of a position without one
          Absent,
          MaxWrites,        \* bound: writes by hand and completions
          MaxQuantity       \* bound: quantities written by hand

\* An open project_event, and what its commit leaves behind.
Transaction == [rows : SUBSET Bins, locked : BOOLEAN]
Receipt == [before : Nat, after : Nat, unfulfilled : Nat]

InventoryAssumption ==
    /\ Unassigned \in Bins /\ Bins \subseteq Nat /\ IsFiniteSet(Bins)
    /\ {Relocation.from, Relocation.to} \subseteq Locations /\ Relocation.units \in Nat
    /\ IsFiniteSet(Movements)
    /\ \A e \in Movements : /\ MovementOf[e].type \in {"stock_update", "sale"}
                            /\ MovementOf[e].location \in Locations
                            /\ MovementOf[e].bin \in Bins /\ MovementOf[e].units \in Nat
    /\ MaxWrites \in Nat /\ MaxQuantity \in Nat
    /\ Absent \notin Nat \cup Transaction \cup Receipt

VARIABLES
    quantity,  \* of every position; Absent: no row
    receipts,  \* projection receipts
    txn,       \* open project_event transactions: rows seen, rows locked
    moving,    \* a completion has emptied the source and not filled the target
    written,   \* units that overwriting has put at a location (history)
    raced,     \* counts whose row appeared after they looked for it (history)
    writes

stockVars == <<quantity, receipts, txn, moving, written, raced, writes>>

At(e) == MovementOf[e].location

StockInit ==
    /\ quantity = [l \in Locations |-> [b \in Bins |-> Absent]]
    /\ receipts = [e \in Movements |-> Absent]
    /\ txn = [e \in Movements |-> Absent]
    /\ moving = FALSE /\ writes = 0
    /\ written = [l \in Locations |-> 0] /\ raced = {}

Positions(l)   == {b \in Bins : quantity[l][b] # Absent}
Units(l, b)    == IF quantity[l][b] = Absent THEN 0 ELSE quantity[l][b]
Stock(l)       == [b \in Bins |-> Units(l, b)]
Total(l)       == SumFunctionOnSet(Stock(l), Positions(l))
Holds(e, l, b) == txn[e] # Absent /\ At(e) = l /\ txn[e].locked /\ b \in txn[e].rows
Locked(l, b)   == \E e \in Movements : Holds(e, l, b)

\* Mistake: the receipt is not looked up.
SelectAgain(e) ==
    /\ txn[e] = Absent
    /\ txn' = [txn EXCEPT ![e] = [rows |-> Positions(At(e)), locked |-> FALSE]]
    /\ UNCHANGED <<quantity, receipts, moving, written, raced, writes>>

\* project_event up to its SELECT: no receipt yet, these rows are visible.
Select(e) ==
    /\ receipts[e] = Absent /\ txn[e] = Absent
    /\ txn' = [txn EXCEPT ![e] = [rows |-> Positions(At(e)), locked |-> FALSE]]
    /\ UNCHANGED <<quantity, receipts, moving, written, raced, writes>>

\* FOR UPDATE has them all.
LockRows(e) ==
    /\ txn[e] # Absent /\ ~txn[e].locked
    /\ \A b \in txn[e].rows : ~Locked(At(e), b)
    /\ txn' = [txn EXCEPT ![e].locked = TRUE]
    /\ UNCHANGED <<quantity, receipts, moving, written, raced, writes>>

\* Units in the locked rows that come before bin b.
Before(e, b) == SumFunctionOnSet(Stock(At(e)), {c \in txn[e].rows : c < b})
Seen(e)      == SumFunctionOnSet(Stock(At(e)), txn[e].rows)

\* _apply_sale_projection: bin after bin, until the units are found.
Taken(e, b) ==
    Min({Units(At(e), b), Max({0, MovementOf[e].units - Before(e, b)})})

\* _apply_stock_projection: the count replaces what its bin had, when seen.
Previous(e) ==
    IF MovementOf[e].bin \in txn[e].rows THEN Units(At(e), MovementOf[e].bin) ELSE 0

CommitStock(e) ==
    /\ txn[e] # Absent /\ txn[e].locked /\ MovementOf[e].type = "stock_update"
    /\ LET bin == MovementOf[e].bin IN
       /\ ~\E f \in Movements \ {e} : Holds(f, At(e), bin)
       /\ quantity' = [quantity EXCEPT ![At(e)][bin] = MovementOf[e].units]
       /\ raced' = IF bin \notin txn[e].rows /\ quantity[At(e)][bin] # Absent
                   THEN raced \cup {e} ELSE raced
    /\ receipts' = [receipts EXCEPT ![e] =
          [before |-> Seen(e), after |-> Seen(e) - Previous(e) + MovementOf[e].units,
           unfulfilled |-> 0]]
    /\ txn' = [txn EXCEPT ![e] = Absent]
    /\ UNCHANGED <<moving, written, writes>>

\* Mistake: a shortfall is not reported.
CommitSaleSilently(e) ==
    /\ txn[e] # Absent /\ txn[e].locked /\ MovementOf[e].type = "sale"
    /\ quantity' = [quantity EXCEPT ![At(e)] =
          [b \in Bins |-> IF b \in txn[e].rows THEN @[b] - Taken(e, b) ELSE @[b]]]
    /\ LET sold == Min({Seen(e), MovementOf[e].units}) IN
       receipts' = [receipts EXCEPT ![e] =
          [before |-> Seen(e), after |-> Seen(e) - sold, unfulfilled |-> 0]]
    /\ txn' = [txn EXCEPT ![e] = Absent]
    /\ UNCHANGED <<moving, written, raced, writes>>

CommitSale(e) ==
    /\ txn[e] # Absent /\ txn[e].locked /\ MovementOf[e].type = "sale"
    /\ quantity' = [quantity EXCEPT ![At(e)] =
          [b \in Bins |-> IF b \in txn[e].rows THEN @[b] - Taken(e, b) ELSE @[b]]]
    /\ LET sold == Min({Seen(e), MovementOf[e].units}) IN
       receipts' = [receipts EXCEPT ![e] =
          [before |-> Seen(e), after |-> Seen(e) - sold,
           unfulfilled |-> MovementOf[e].units - sold]]
    /\ txn' = [txn EXCEPT ![e] = Absent]
    /\ UNCHANGED <<moving, written, raced, writes>>

----------------------------------------------------------------------------
\* upsert: waits for the row's lock and overwrites it.
Overwrite(l, b, units) ==
    /\ writes < MaxWrites /\ writes' = writes + 1
    /\ ~Locked(l, b)
    /\ quantity' = [quantity EXCEPT ![l][b] = units]
    /\ written' = [written EXCEPT ![l] = @ + units - Units(l, b)]
    /\ UNCHANGED <<receipts, txn, raced>>

\* POST /inventory/positions
UpsertPosition(l, b, units) == Overwrite(l, b, units) /\ UNCHANGED moving

\* _record_completed_inventory_movement: two upserts, each committed.
EmptySource ==
    /\ ~moving
    /\ Overwrite(Relocation.from, Unassigned, 0)
    /\ moving' = TRUE

FillTarget ==
    /\ moving
    /\ Overwrite(Relocation.to, Unassigned, Relocation.units)
    /\ moving' = FALSE

\* The backend is killed: open transactions roll back, a movement stays half done.
Crash ==
    /\ moving \/ \E e \in Movements : txn[e] # Absent
    /\ txn' = [e \in Movements |-> Absent]
    /\ moving' = FALSE
    /\ UNCHANGED <<quantity, receipts, written, raced, writes>>

StockNext ==
    \/ \E e \in Movements : Select(e) \/ LockRows(e) \/ CommitStock(e) \/ CommitSale(e)
    \/ \E l \in Locations, b \in Bins, units \in 0 .. MaxQuantity : UpsertPosition(l, b, units)
    \/ EmptySource \/ FillTarget \/ Crash

----------------------------------------------------------------------------
StockSpec == StockInit /\ [][StockNext]_stockVars

StockTypeOK ==
    /\ quantity \in [Locations -> [Bins -> Nat \cup {Absent}]]
    /\ receipts \in [Movements -> Receipt \cup {Absent}]
    /\ txn \in [Movements -> Transaction \cup {Absent}]
    /\ moving \in BOOLEAN /\ raced \subseteq Movements
    /\ written \in [Locations -> Int]
    /\ writes \in 0 .. MaxWrites

Receipted(l) == {e \in Movements : At(e) = l /\ receipts[e] # Absent}
Differences(l) == [e \in Receipted(l) |-> receipts[e].after - receipts[e].before]

\* The receipts account for the stock: what a location holds is what was written
\* there by hand plus the differences its receipts state, whatever counts, sales,
\* writes, relocations and crashes came between, except for a count whose row
\* another transaction inserted after it had looked (it had nothing to lock).
ReceiptsBalance ==
    \A l \in Locations : Receipted(l) \cap raced = {} =>
        Total(l) = written[l] + SumFunction(Differences(l))

\* A sale takes no more than its units and reports the rest, and it reports a
\* shortfall only when it has emptied every bin it saw.
SaleIsAccounted ==
    \A e \in Movements : (receipts[e] # Absent /\ MovementOf[e].type = "sale") =>
        /\ receipts[e].before - receipts[e].after + receipts[e].unfulfilled
              = MovementOf[e].units
        /\ receipts[e].unfulfilled > 0 => receipts[e].after = 0

\* (InventoryPositions) Receipts explain the stock, and each sale is accounted for.
StockIsAccounted == StockTypeOK /\ ReceiptsBalance /\ SaleIsAccounted
=============================================================================
