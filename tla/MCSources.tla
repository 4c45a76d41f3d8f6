----------------------------- MODULE MCSources -----------------------------
(***************************************************************************)
(* Small instances of what brings data into the store: the intake of polled *)
(* and delivered records, the schedule of the polls and the cold-chain       *)
(* drill (SourceSystem, extended, so that its invariants are the ones that   *)
(* are proved), and the mapping of the systems' payloads and of CSV files.   *)
(* They share no state here, so a behaviour is about one of them, its        *)
(* subject; the others stay as they begin. The mapping is explored one       *)
(* system or kind of file at a time: their records and events never meet.    *)
(***************************************************************************)
EXTENDS SourceSystem, Integers, TLC

CONSTANTS e1, e2, c1, c2, bad, r1, r2,
          skuA, skuB, ordA, lineA, lineB, siteA, dayA

VARIABLE subject

-----------------------------------------------------------------------------
(* Records. Two pages; the listing shifts while it is read, so e2 is on both. A webhook *)
(* of two lines, the second of which is invalid.                                        *)

Rec(e, c) == [event |-> e, content |-> c]
TwoPages == << <<e1, e2>>, <<e2>> >>
TwoLines == { <<Rec(e1, c1), Rec(e2, bad)>> }
AllFirst == [e \in Events |-> c1]

\* The assumption of the spine the records end in, and of the others.
ASSUME SourcesAreSound == Ingest!IngestAssumption /\ SourceAssumption

\* Two polled systems, only one of them configured by the environment; a drill of one asset.
OdooAndSap == <<"odoo", "sap">>
OneFridge == <<skuA>>

-----------------------------------------------------------------------------
(* Payloads: an order whose first line is good and whose second may be short of an id, *)
(* a number or its form; counts and rows likewise; checkouts that divide exactly or    *)
(* not. Quantities are in half units.                                                  *)

Line(id, sku, product, q, price) ==
    [id |-> id, sku |-> sku, product |-> product, quantity |-> q, price |-> price,
     location |-> None]
Count(id, sku, location, q) ==
    [id |-> id, sku |-> sku, product |-> None, quantity |-> q, price |-> None,
     location |-> location]
Payload(time, lines) ==
    [order |-> ordA, time |-> time, lines |-> lines, metadata |-> TRUE, status |-> "succeeded"]
Good == Line(lineA, skuA, None, 4, 5)
SecondLines ==
    {Line(lineB, None, skuB, 3, None), Line(lineB, skuA, None, Unread, 5), Line(lineB, skuA, None, 0, 5),
     Line(None, skuA, skuB, 2, 5), Line(lineB, skuA, None, 2, -5), NotDict}
Orders == {Payload(dayA, <<>>), Payload(Unread, <<Good>>), Payload(dayA, <<Good>>)}
            \cup {Payload(dayA, <<Good, l>>) : l \in SecondLines}
Counts == {Count(lineA, skuA, siteA, 4), Count(None, skuA, None, None), Count(lineA, None, siteA, 2),
           Count(lineB, skuA, siteA, Unread), Count(lineB, skuB, siteA, NaN), Count(lineB, skuB, siteA, 2), Count(lineB, skuA, siteA, -2)}
SquareCounts == {Payload(dayA, <<Count(lineA, skuA, siteA, 4), c>>) : c \in Counts} \cup {Payload(dayA, <<>>)}
PolledRows == {Payload(dayA, <<c>>) : c \in Counts} \cup {Payload(Unread, <<Count(lineA, skuA, siteA, 4)>>)}
Checkouts ==
    {Payload(dayA, <<Line(None, skuA, None, q, m)>>) : q \in {None, 4, 3, 0}, m \in {6, 5, Unread}}
        \cup {[Payload(dayA, <<Good>>) EXCEPT !.metadata = FALSE],
              [Payload(dayA, <<Good>>) EXCEPT !.status = "failed"]}

Sources ==
    [s \in {"shopify", "lightspeed"} |-> Orders] @@ "square" :> SquareCounts
    @@ [s \in {"odoo", "sap", "syspro", "dynamics"} |-> PolledRows] @@ "yoco" :> Checkouts
    @@ "csv" :> {Payload(dayA, <<>>)}
PostedPayloads == UNION {[system: {s}, payload: Sources[s]] : s \in DOMAIN Sources}

-----------------------------------------------------------------------------
(* Files of two rows, and of three, which is more than a commit takes. *)

NormalHeaders ==
    [h \in {"Item_Code", "store", "price", "date", "name", "ean", "receipt", "expiry"} |->
                CASE h = "Item_Code" -> "code" [] OTHER -> h]
            @@ [h \in {"qty", "QTY"} |-> "qty"]
AcceptedAliases == "sku" :> <<"sku", "code">> @@ "name" :> <<"name">> @@ "barcode" :> <<"ean">>
    @@ "location_id" :> <<"store">> @@ "quantity" :> <<"quantity", "qty">>
    @@ "event_time" :> <<"as of">> @@ "expiry_date" :> <<"expiry">>
    @@ "unit_price" :> <<"price">> @@ "sold_at" :> <<"date">>
    @@ "order_id" :> <<"receipt">> @@ "line_id" :> <<"line">>

File(kind, headers, overrides, rows) ==
    [kind |-> kind, headers |-> headers, overrides |-> overrides, rows |-> rows]
StockRow(s, l, q) == "Item_Code" :> s @@ "store" :> l @@ "qty" :> q @@ "QTY" :> None
ExpiryRow(s, q, e) == StockRow(s, siteA, q) @@ "expiry" :> e
SaleRow(s, q, p) == "Item_Code" :> s @@ "qty" :> q @@ "price" :> p @@ "date" :> dayA
ProductRow(n, s, e) == "name" :> n @@ "Item_Code" :> s @@ "ean" :> e

StockFiles ==
    {File("stock", h, <<>>, <<StockRow(skuA, siteA, 4), r>>) :
        h \in {<<"Item_Code", "store", "qty">>},
        r \in {StockRow(skuA, siteA, 2), StockRow(skuB, None, None), StockRow(skuB, siteA, -2),
               StockRow(None, siteA, 2), StockRow(skuB, siteA, Unread)}}
    \cup {File("stock", <<"Item_Code", "store", "qty">>, <<>>,
               <<StockRow(skuA, siteA, 4), StockRow(skuB, siteA, 4), StockRow(skuB, siteA, 4)>>),
          File("stock", <<"Item_Code", "store", "qty", "QTY">>, <<>>, <<StockRow(skuA, siteA, 4)>>),
          File("stock", <<"Item_Code", "qty">>, <<>>, <<StockRow(skuA, siteA, 4)>>)}
ExpiryFiles ==
    {File("expiry", <<"Item_Code", "store", "qty", "expiry">>, <<>>, <<ExpiryRow(skuA, 4, dayA), r>>) :
        r \in {ExpiryRow(skuA, 4, Unread), ExpiryRow(skuB, 3, dayA), ExpiryRow(skuA, 2, dayA)}}
SalesFiles ==
    {File("sales", <<"Item_Code", "qty", "price", "date">>, o, <<SaleRow(skuA, 4, 5), r>>) :
        r \in {SaleRow(skuA, 4, 5), SaleRow(skuB, 3, 5), SaleRow(skuB, 2, None)},
        o \in {<<>>, "unit_price" :> "date", "nope" :> "date"}}
ProductFiles ==
    {File("products", <<"name", "Item_Code", "ean">>, <<>>, <<r>>) :
        r \in {ProductRow(ordA, skuA, skuB), ProductRow(ordA, skuB, None), ProductRow(lineA, skuA, None),
               ProductRow(None, skuB, skuA), ProductRow(lineA, None, None)}}
Kinds == "stock" :> StockFiles @@ "expiry" :> ExpiryFiles @@ "sales" :> SalesFiles
            @@ "products" :> ProductFiles
PostedFiles == UNION {Kinds[k] : k \in DOMAIN Kinds}

-----------------------------------------------------------------------------
\* The drill that stands still: an outage with a generator that works.
Still == scenario = [outage |-> 1, restore |-> 2, generator |-> TRUE]

Mapped == DOMAIN Sources \cup DOMAIN Kinds
allVars == <<subject, vars, mappingVars, scheduleVars, drillVars>>

SourcesInit ==
    /\ Init /\ Schedule!Init /\ Drill!Init /\ Mapping!Init
    /\ \/ subject \in {"intake", "schedule"} \cup Mapped /\ Still
       \/ subject = "drill"

IntakeOnly == subject = "intake" /\ UNCHANGED <<subject, mappingVars, scheduleVars, drillVars>>
ScheduleOnly == subject = "schedule" /\ UNCHANGED <<subject, vars, mappingVars, drillVars>>

MappingNext ==
    /\ \/ /\ subject \in DOMAIN Sources
          /\ \E p \in Sources[subject] :
                Mapping!intake_connector_payload([system |-> subject, payload |-> p])
       \/ /\ subject \in DOMAIN Kinds
          /\ \E file \in Kinds[subject] :
                Mapping!preview_csv_intake(file) \/ Mapping!commit_csv_intake(file)
       \/ subject \in Mapped /\ requests = MaxRequests /\ UNCHANGED mappingVars
    /\ UNCHANGED <<subject, vars, scheduleVars, drillVars>>
DrillNext ==
    /\ subject = "drill"
    /\ Drill!Next \/ (drills = 2 /\ UNCHANGED drillVars)
    /\ UNCHANGED <<subject, vars, mappingVars, scheduleVars>>

SourcesNext ==
    \/ (IntakeOnly /\ Next) \/ MappingNext \/ (ScheduleOnly /\ Schedule!Next) \/ DrillNext

\* A poll loop runs for ever and a handler that started runs on.
SourcesSpec ==
    /\ SourcesInit /\ [][SourcesNext]_allVars
    /\ \A r \in Requests : WF_allVars(IntakeOnly /\ Process(r))
    /\ WF_allVars(ScheduleOnly /\ Schedule!Poll)

-----------------------------------------------------------------------------
\* What a source's payload or a shop's file states reaches the stores once, unaltered
\* (map_for, csv_intake.py, _commit_product_record).
SourcesAreCarried == subject \in Mapped => Mapping!SourcesAreCarried

\* Time and again the inbound store knows the present value of every listed object, and
\* a system is pulled again and again once it and those before it stay up.
SourcesKeepUp ==
    /\ \A e \in Listed :
            []<>(subject = "intake" => [event |-> e, content |-> source[e]] \in inbound)
    /\ \A i \in 1..2 :
            <>[](subject = "schedule" /\ Schedule!Reachable(i))
                => []<>(subject = "schedule" => Order[i] \in polled)
=============================================================================
