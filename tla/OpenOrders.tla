---------------------------- MODULE OpenOrders ----------------------------
(***************************************************************************)
(* The receiving state of one purchase order, merged from shipment events.  *)
(* observe_event reads the order, merges the event with what it read and    *)
(* writes the result in a later transaction, guarded by the event time only.*)
(* An order's units received only ever grow in the merge; an event older    *)
(* than the order as read changes nothing, but what was read is written     *)
(* back.                                                                    *)
(***************************************************************************)
EXTENDS Naturals, FiniteSets, FiniteSetsExt

CONSTANTS Shipments,   \* events of the order, with
          ShipmentOf,  \*   their time, ordered and received units and eta
          Nothing

\* What an event says, and a row of the orders: times are whole numbers.
Order == [ts : Nat, ordered : Nat \ {0}, received : Nat, eta : Nat \cup {Nothing}]

ShipmentAssumption ==
    /\ \A e \in Shipments : ShipmentOf[e] \in Order
    /\ Nothing \notin Order \cup Nat

VARIABLES
    order,     \* the row, Nothing before the first event
    merging,   \* what each observe_event in progress will write
    observed   \* events whose observe_event has returned

orderVars == <<order, merging, observed>>

OrderInit ==
    /\ order = Nothing /\ observed = {}
    /\ merging = [e \in Shipments |-> Nothing]

\* Mistake: the units of every event are added up.
MergedSum(e, existing) ==
    LET s == ShipmentOf[e]
    IN  IF existing # Nothing /\ s.ts < existing.ts THEN existing
        ELSE [ts |-> s.ts, ordered |-> s.ordered, eta |-> s.eta,
              received |-> IF existing = Nothing THEN s.received
                           ELSE (s.received + existing.received) % 100]

\* _order_record
Merged(e, existing) ==
    LET s == ShipmentOf[e]
        received == IF existing = Nothing THEN s.received
                    ELSE Max({s.received, existing.received})
    IN  IF existing # Nothing /\ s.ts < existing.ts THEN existing
        ELSE [ts |-> s.ts, ordered |-> s.ordered, received |-> received, eta |-> s.eta]

\* coverage: the units still to come, and the order's status.
Remaining(o) == IF o = Nothing \/ o.received >= o.ordered THEN 0 ELSE o.ordered - o.received

\* observe_event: _get and the merge; an event may be observed again.
ReadOrder(e) ==
    /\ merging[e] = Nothing
    /\ merging' = [merging EXCEPT ![e] = Merged(e, order)]
    /\ UNCHANGED <<order, observed>>

\* Mistake: the upsert has no guard.
WriteOrderAnyway(e) ==
    /\ merging[e] # Nothing
    /\ order' = merging[e]
    /\ merging' = [merging EXCEPT ![e] = Nothing]
    /\ observed' = observed \cup {e}

\* insert ... on conflict do update ... where updated_at <= excluded.updated_at
WriteOrder(e) ==
    /\ merging[e] # Nothing
    /\ order' = IF order = Nothing \/ order.ts <= merging[e].ts THEN merging[e] ELSE order
    /\ merging' = [merging EXCEPT ![e] = Nothing]
    /\ observed' = observed \cup {e}

OrderStep(e) == ReadOrder(e) \/ WriteOrder(e)

----------------------------------------------------------------------------
OrderTypeOK ==
    /\ order \in Order \cup {Nothing}
    /\ merging \in [Shipments -> Order \cup {Nothing}]
    /\ observed \subseteq Shipments

\* Late events do not overwrite newer state: an order is never older than an
\* event that was observed, however the observations overlap.
NewestOrderShown == \A e \in observed : order # Nothing /\ order.ts >= ShipmentOf[e].ts

\* What an order shows was reported: its ordered units and its eta by the event of
\* its time, its received units by some event up to then.
OrderIsReported ==
    order # Nothing =>
        /\ \E e \in Shipments : /\ ShipmentOf[e].ts = order.ts
                                /\ ShipmentOf[e].ordered = order.ordered
                                /\ ShipmentOf[e].eta = order.eta
        /\ \E e \in Shipments : /\ ShipmentOf[e].ts <= order.ts
                                /\ ShipmentOf[e].received = order.received
====
