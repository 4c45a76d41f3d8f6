--------------------------- MODULE RecordMapping ---------------------------
(***************************************************************************)
(* What each source system's mapper makes of a payload (connectors/systems): *)
(* a sequence of inbound records, or an exception, as a value of its own. A  *)
(* record that fails validation is kept with its payload; an exception ends  *)
(* the whole payload. Then what _process_inbound_record does with a record.  *)
(*                                                                          *)
(* A payload is [order, time, lines, metadata, status]; the row of a polled  *)
(* system is a payload of one line. A missing field is None, an unreadable   *)
(* one Bad, a number that is not finite NaN. Quantities count half units, so *)
(* that fractions exist; amounts are in minor units.                         *)
(***************************************************************************)
EXTENDS Integers, Sequences, FiniteSets, SequencesExt

CONSTANTS None, Bad, NaN,
          NotDict       \* a line that is no JSON object

Or(a, b) == IF a # None THEN a ELSE b

\* Exceptions: "invalid" is answered 422 (ValueError, KeyError, TypeError), "error" 500.
Raise(how) == [raised |-> how, records |-> <<>>]
Return(records) == [raised |-> None, records |-> records]

-----------------------------------------------------------------------------
(* Canonical values and their validation. *)

Readable(n) == n = None \/ n \in Int
parse_quantity(q) == IF q = None THEN 0 ELSE q
Whole(q) == q % 2 = 0

validate_sales(sku, quantity, price) == sku # None /\ quantity > 0 /\ price >= 0
validate_inventory(sku, location, quantity) ==
    sku # None /\ location # None /\ quantity >= 0

wrap(system, type, object, raw, ok, content) ==
    [system |-> system, type |-> type, object |-> object, raw |-> raw, ok |-> ok,
     content |-> content]

NoContent == [sku |-> None, quantity |-> None, price |-> None]
Content(sku, quantity, price) == [sku |-> sku, quantity |-> quantity, price |-> price]
Failed(system, type, object, raw) == wrap(system, type, object, raw, FALSE, NoContent)

Sale(system, object, raw, sku, quantity, price) ==
    wrap(system, "sales_line", object, raw, validate_sales(sku, quantity, price),
         Content(sku, quantity, price))
Stock(system, object, raw, sku, location, quantity) ==
    wrap(system, "inventory_state", object, raw,
         validate_inventory(sku, location, quantity), Content(sku, quantity, None))

-----------------------------------------------------------------------------
(* The systems that deliver webhooks. *)

\* A line of an order: malformed numbers quarantine the line, not the order.
OrderLine(system, p, line, id, sku) ==
    LET object == <<p.order, Or(id, "unknown")>>
        price  == Or(line.price, 0)
    IN IF Readable(line.quantity) /\ Readable(price)
       THEN Sale(system, object, p, sku, parse_quantity(line.quantity), price)
       ELSE Failed(system, "sales_line", object, p)

\* Mistake: only the first line of the order.
map_shopify_first_line(p) ==
    IF p.time = Bad THEN Raise("invalid")
    ELSE IF p.lines = <<>>
    THEN Return(<<Failed("shopify", "sales_line", <<p.order>>, p)>>)
    ELSE IF NotDict \in ToSet(p.lines) THEN Raise("error")
    ELSE LET l == p.lines[1]
         IN Return(<<OrderLine("shopify", p, l, l.id, Or(l.sku, l.product))>>)

map_shopify_order(p) ==
    IF p.time = Bad THEN Raise("invalid")
    ELSE IF p.lines = <<>>
    THEN Return(<<Failed("shopify", "sales_line", <<p.order>>, p)>>)
    ELSE IF NotDict \in ToSet(p.lines) THEN Raise("error")
    ELSE Return([i \in DOMAIN p.lines |->
            LET l == p.lines[i] IN OrderLine("shopify", p, l, l.id, Or(l.sku, l.product))])

map_lightspeed_sale(p) ==
    IF p.time = Bad THEN Raise("invalid")
    ELSE IF p.lines = <<>>
    THEN Return(<<Failed("lightspeed", "sales_line", <<p.order>>, p)>>)
    ELSE IF NotDict \in ToSet(p.lines) THEN Raise("error")
    ELSE Return([i \in DOMAIN p.lines |->
            LET l == p.lines[i]
            IN OrderLine("lightspeed", p, l, Or(l.id, l.product), Or(l.sku, l.product))])

\* A count without a catalogue id is a count of "unknown".
map_square_inventory(p) ==
    IF p.lines = <<>>
    THEN Return(<<Failed("square", "inventory_state", <<Or(p.order, "unknown")>>, p)>>)
    ELSE IF NotDict \in ToSet(p.lines) THEN Raise("error")
    ELSE Return([i \in DOMAIN p.lines |->
            LET l == p.lines[i]
                sku == Or(l.sku, "unknown")
                location == Or(l.location, "unknown")
            IN IF Readable(l.quantity)
               THEN Stock("square", <<sku, location>>, p, sku, location,
                          parse_quantity(l.quantity))
               ELSE Failed("square", "inventory_state", <<sku, location>>, p)])

\* The amount is that of the whole checkout and must be an exact multiple.
ExactUnitPrice(amount, quantity) == (2 * amount) % quantity = 0

map_yoco_checkout(p) ==
    LET l == p.lines[1]
        quantity == IF l.quantity = None THEN 2 ELSE l.quantity
        mapped ==
            /\ p.time # Bad /\ p.metadata /\ p.status = "succeeded" /\ l.sku # None
            /\ l.price \notin {None, Bad, NaN} /\ l.price >= 0
            /\ Readable(quantity) /\ quantity > 0
            /\ ExactUnitPrice(l.price, quantity)
        object == <<Or(p.order, "unknown")>>
    IN Return(<<IF mapped
                THEN Sale("yoco", object, p, l.sku, quantity, (2 * l.price) \div quantity)
                ELSE Failed("yoco", "sales_line", object, p)>>)

-----------------------------------------------------------------------------
(* The systems that are polled: one row at a time. *)

map_odoo_product(p) ==
    LET l == p.lines[1]
    IN IF l.id = None THEN Raise("invalid")
       ELSE Return(<<wrap("odoo", "product", <<l.id>>, p, TRUE,
                          Content(Or(l.sku, l.id), None, None))>>)

map_sap_inventory(p) ==
    LET l == p.lines[1]
    IN IF l.sku = None \/ l.location = None THEN Raise("invalid")
       ELSE IF ~Readable(l.quantity) THEN Raise("error")
       ELSE Return(<<Stock("sap", <<l.sku, l.location>>, p, l.sku, l.location,
                           parse_quantity(l.quantity))>>)

map_syspro_inventory(p) ==
    LET l == p.lines[1]
    IN IF l.sku = None \/ l.location = None
       THEN Return(<<Failed("syspro", "inventory_state",
                            <<Or(l.id, Or(l.sku, "unknown"))>>, p)>>)
       ELSE IF ~Readable(l.quantity) THEN Raise("error")
       ELSE Return(<<Stock("syspro", <<l.sku, l.location>>, p, l.sku, l.location,
                           parse_quantity(l.quantity))>>)

\* A number that is not finite passes the constructor and fails the validation.
map_dynamics_inventory(p) ==
    LET l == p.lines[1]
        item == Or(l.id, Or(l.sku, "unknown"))
    IN IF p.time = Bad \/ l.sku = None \/ l.quantity = Bad
       THEN Return(<<Failed("dynamics", "inventory_state", <<item>>, p)>>)
       ELSE IF l.quantity = NaN THEN Raise("error")
       ELSE Return(<<Stock("dynamics", <<item, l.location>>, p, l.sku, l.location,
                           parse_quantity(l.quantity))>>)

map_for(system, p) ==
    CASE system = "shopify"    -> map_shopify_order(p)
      [] system = "lightspeed" -> map_lightspeed_sale(p)
      [] system = "square"     -> map_square_inventory(p)
      [] system = "yoco"       -> map_yoco_checkout(p)
      [] system = "odoo"       -> map_odoo_product(p)
      [] system = "sap"        -> map_sap_inventory(p)
      [] system = "syspro"     -> map_syspro_inventory(p)
      [] system = "dynamics"   -> map_dynamics_inventory(p)
      [] OTHER                 -> Raise("invalid")

-----------------------------------------------------------------------------
(* From record to event, and through the stores. *)

\* The event names system, type and object; its payload carries the raw hash.
event_id(r) == <<r.system, r.type, r.object>>
record_to_event(r) ==
    IF r.ok /\ r.type \in {"inventory_state", "sales_line", "expiry_entry"}
    THEN [raw |-> r.raw, content |-> r.content] ELSE None

inbound_key(r) == [system |-> r.system, raw |-> r.raw, object |-> r.object]

\* One record, unless an earlier one raised. The spine refuses a used event id with
\* another payload (409), and fails when one of its stores does.
process_inbound_record(s, r, fails) ==
    LET key == inbound_key(r)
        event == record_to_event(r)
        Answer(status) == [s EXCEPT !.statuses = Append(@, status),
                                    !.inbound = @ \cup {key}]
    IN IF s.raised # None THEN s
       ELSE IF key \in s.inbound THEN Answer("duplicate")
       ELSE IF ~r.ok THEN Answer("invalid")
       ELSE IF event = None THEN Answer("recorded")
       ELSE IF fails \/ event_id(r) \in DOMAIN s.spine
       THEN [s EXCEPT !.inbound = @ \cup {key}, !.failed = @ \cup {key},
                      !.raised = IF fails THEN "error" ELSE "conflict"]
       ELSE [Answer("accepted") EXCEPT
                !.spine = [e \in DOMAIN @ \cup {event_id(r)} |->
                              IF e = event_id(r) THEN event ELSE @[e]]]
=============================================================================
