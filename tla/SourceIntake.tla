---------------------------- MODULE SourceIntake ----------------------------
(***************************************************************************)
(* The intake routes that turn a source's own form into records: a payload  *)
(* of a connector (POST /connectors/{system}/intake) and a shop's CSV export *)
(* (POST /intake/csv/preview and /commit, csv_intake.py), with the product   *)
(* catalogue that product rows are written to. One request at a time: what   *)
(* concurrent requests do to one record is ConnectorIntake's subject.        *)
(*                                                                          *)
(* A file is [kind, headers, rows, overrides]; a row gives each header a     *)
(* cell. Which spellings stand for which field is a constant.                *)
(***************************************************************************)
EXTENDS RecordMapping

CONSTANTS
    Submissions,      \* [system, payload] pairs that may be posted
    Files,            \* CSV files that may be posted
    Normal,           \* header |-> its normalised spelling
    Aliases,          \* field |-> the sequence of spellings accepted for it
    DefaultLocation,  \* the location_id of the request
    MAX_CSV_ROWS, MAX_CSV_COMMIT_ROWS,
    MaxRequests       \* bound: requests

\* A file of another kind is refused before it is read (_kind_fields).
MappingAssumption ==
    /\ \A sub \in Submissions :
          /\ sub.payload.lines \in Seq(ToSet(sub.payload.lines))
          /\ sub.system = "yoco" => sub.payload.lines[1].price \in Int \cup {None, Bad, NaN}
    /\ \A file \in Files :
          /\ file.rows \in Seq(ToSet(file.rows))
          /\ file.kind \in {"products", "stock", "expiry", "sales"}

VARIABLES
    inbound,      \* shelfwise_inbound_records: keys seen
    spine,        \* the event store: event id |-> what the event says
    failed,       \* history: records whose event raised
    products, variants,   \* the catalogue
    identifiers,  \* [kind, value] |-> variant
    done,         \* history: [system, payload] or files answered 200
    previews,     \* history: [file, valid] for every preview without a problem
    requests

vars == <<inbound, spine, failed, products, variants, identifiers, done, previews,
          requests>>

Init ==
    /\ inbound = {} /\ spine = <<>> /\ failed = {}
    /\ products = {} /\ variants = {} /\ identifiers = <<>>
    /\ done = {} /\ previews = {} /\ requests = 0

-----------------------------------------------------------------------------
(* The columns of a file. *)

Required(kind) ==
    CASE kind = "products" -> <<"name", "sku">>
      [] kind = "stock"    -> <<"sku", "location_id", "quantity">>
      [] kind = "expiry"   -> <<"sku", "location_id", "quantity", "expiry_date">>
      [] kind = "sales"    -> <<"sku", "quantity", "unit_price", "sold_at">>
Optional(kind) ==
    CASE kind = "products" -> <<"barcode">>
      [] kind = "stock"    -> <<"barcode", "event_time">>
      [] kind = "expiry"   -> <<>>
      [] kind = "sales"    -> <<"location_id", "order_id", "line_id">>
KnownFields(kind) == Required(kind) \o Optional(kind)

\* Of two headers with one normalised spelling the later is kept.
HeaderFor(headers, spelling) ==
    LET at == {i \in DOMAIN headers : Normal[headers[i]] = spelling}
    IN IF at = {} THEN None ELSE headers[CHOOSE i \in at : \A j \in at : j <= i]

\* Mistake: a header may serve two fields.
TakeAnyHeader(headers, mapping, f) ==
    LET there == SelectSeq(Aliases[f], LAMBDA a : HeaderFor(headers, a) # None)
    IN IF f \in DOMAIN mapping \/ there = <<>> THEN mapping
       ELSE [g \in DOMAIN mapping \cup {f} |->
                IF g = f THEN HeaderFor(headers, there[1]) ELSE mapping[g]]

\* A field takes the first of its spellings whose header no field has taken.
TakeHeader(headers, mapping, f) ==
    LET free == SelectSeq(Aliases[f], LAMBDA a :
                    HeaderFor(headers, a) \notin {None} \cup {mapping[g] : g \in DOMAIN mapping})
    IN IF f \in DOMAIN mapping \/ free = <<>> THEN mapping
       ELSE [g \in DOMAIN mapping \cup {f} |->
                IF g = f THEN HeaderFor(headers, free[1]) ELSE mapping[g]]

infer_mapping(file) ==
    FoldLeft(LAMBDA m, f : TakeHeader(file.headers, m, f),
             file.overrides, KnownFields(file.kind))

Missing(file) == ToSet(Required(file.kind)) \ DOMAIN infer_mapping(file)

\* A mapping of unknown fields or absent columns, or a file of too many rows.
FileError(file) ==
    \/ ~(DOMAIN file.overrides \subseteq ToSet(KnownFields(file.kind)))
    \/ \E f \in DOMAIN file.overrides : file.overrides[f] \notin ToSet(file.headers)
    \/ Len(file.rows) > MAX_CSV_ROWS

-----------------------------------------------------------------------------
(* The rows of a file. *)

\* A cell that starts like a formula, a minus sign included, is quoted: no number.
neutralise_formula(cell) == IF cell \in Int /\ cell < 0 THEN Bad ELSE cell

\* The cells of the mapped fields; an empty cell and an unmapped field read alike.
Fields(file, i) ==
    LET m == infer_mapping(file)
    IN [f \in DOMAIN Aliases |->
            IF f \in DOMAIN m THEN neutralise_formula(file.rows[i][m[f]]) ELSE None]

RowLocation(f) == Or(f.location_id, DefaultLocation)
Raw(file, i) == [line |-> i, values |-> file.rows[i]]

\* A row that cannot be built is kept, under the identity its raw cells give it.
build_stock(f, raw) ==
    IF Readable(f.quantity) /\ f.event_time # Bad
    THEN [Stock("csv", <<f.sku, RowLocation(f)>>, raw, Or(f.sku, f.barcode),
                RowLocation(f), parse_quantity(f.quantity))
          EXCEPT !.content.sku = f.sku]
    ELSE Failed("csv", "inventory_state", <<f.sku, f.location_id>>, raw)

build_expiry(f, raw) ==
    IF Readable(f.quantity) /\ f.expiry_date \notin {None, Bad}
    THEN [Stock("csv", <<f.sku, RowLocation(f), f.expiry_date>>, raw, f.sku,
                RowLocation(f), parse_quantity(f.quantity))
          EXCEPT !.type = "expiry_entry"]
    ELSE Failed("csv", "expiry_entry", <<f.sku, f.location_id, f.expiry_date>>, raw)

\* Without an order a sale is known by the content of its fields.
build_sale(f, raw) ==
    IF /\ Readable(f.quantity) /\ Whole(parse_quantity(f.quantity))
       /\ Readable(f.unit_price) /\ f.sold_at \notin {None, Bad}
    THEN Sale("csv", <<Or(f.order_id, f), Or(f.line_id, f)>>, raw, f.sku,
              parse_quantity(f.quantity), Or(f.unit_price, 0))
    ELSE Failed("csv", "sales_line", <<f.order_id, f.line_id>>, raw)

\* A product without a name is only warned about.
build_product(f, raw) ==
    LET code == Or(f.sku, f.barcode)
    IN wrap("csv", "product_master", <<Or(code, raw.line)>>, raw, code # None,
            [sku |-> f.sku, barcode |-> f.barcode, code |-> code, name |-> f.name])

build_record(file, i) ==
    LET f == Fields(file, i)
    IN CASE file.kind = "products" -> build_product(f, Raw(file, i))
         [] file.kind = "stock"    -> build_stock(f, Raw(file, i))
         [] file.kind = "expiry"   -> build_expiry(f, Raw(file, i))
         [] file.kind = "sales"    -> build_sale(f, Raw(file, i))

build_records(file) == [i \in DOMAIN file.rows |-> build_record(file, i)]

-----------------------------------------------------------------------------
(* The catalogue. A code keeps its variant; another one's claim is a conflict. *)

\* Mistake: the later claim wins.
upsert_identifier_always(cat, kind, value, variant) ==
    LET key == [kind |-> kind, value |-> value]
    IN IF value = None THEN cat
       ELSE [cat EXCEPT !.identifiers =
                [k \in DOMAIN @ \cup {key} |-> IF k = key THEN variant ELSE @[k]]]

upsert_identifier(cat, kind, value, variant) ==
    LET key == [kind |-> kind, value |-> value]
    IN IF value = None \/ key \in DOMAIN cat.identifiers THEN cat
       ELSE [cat EXCEPT !.identifiers =
                [k \in DOMAIN @ \cup {key} |-> IF k = key THEN variant ELSE @[k]]]

\* A nameless product was recorded and is then refused by the catalogue.
commit_product_record(s, r, fails) ==
    LET t == process_inbound_record(s, r, FALSE)
        c == r.content
        product == [name |-> c.name]
        variant == [code |-> c.code, name |-> c.name]
    IN IF t.statuses = s.statuses \/ Last(t.statuses) # "recorded" THEN t
       ELSE IF fails
       THEN [t EXCEPT !.raised = "error", !.failed = @ \cup {inbound_key(r)}]
       ELSE IF c.name = None THEN t
       ELSE upsert_identifier(
                upsert_identifier([t EXCEPT !.products = @ \cup {product},
                                            !.variants = @ \cup {variant}],
                                  "sku", c.sku, variant),
                "barcode", c.barcode, variant)

-----------------------------------------------------------------------------
(* The routes. In each, a store may fail at one record, or at none (0). *)

State == [inbound |-> inbound, spine |-> spine, failed |-> failed, products |-> products,
          variants |-> variants, identifiers |-> identifiers, statuses |-> <<>>,
          raised |-> None]

Store(s, what) ==
    /\ inbound' = s.inbound /\ spine' = s.spine /\ failed' = s.failed
    /\ products' = s.products /\ variants' = s.variants /\ identifiers' = s.identifiers
    /\ done' = IF s.raised = None THEN done \cup {what} ELSE done
    /\ requests' = requests + 1

\* The records of one request, one after the other.
Process(records, fault, products_too) ==
    LET One(s, n) == IF products_too THEN commit_product_record(s, records[n], n = fault)
                     ELSE process_inbound_record(s, records[n], n = fault)
        after[n \in 0 .. Len(records)] == IF n = 0 THEN State ELSE One(after[n - 1], n)
    IN after[Len(records)]

intake_connector_payload(sub) ==
    LET mapped == map_for(sub.system, sub.payload)
    IN /\ requests < MaxRequests
       /\ \E fault \in 0 .. Len(mapped.records) :
            IF mapped.raised # None
            THEN requests' = requests + 1
                 /\ UNCHANGED <<inbound, spine, failed, products, variants, identifiers, done>>
            ELSE Store(Process(mapped.records, fault, FALSE), sub)
       /\ UNCHANGED previews

\* Writes nothing; a file whose columns are not all mapped reports no row as valid.
preview_csv_intake(file) ==
    /\ requests < MaxRequests
    /\ requests' = requests + 1
    /\ previews' = IF FileError(file) THEN previews
                   ELSE previews \cup {[file |-> file,
                            valid |-> IF Missing(file) # {} THEN {}
                                      ELSE {i \in DOMAIN file.rows : build_record(file, i).ok}]}
    /\ UNCHANGED <<inbound, spine, failed, products, variants, identifiers, done>>

commit_csv_intake(file) ==
    /\ requests < MaxRequests
    /\ IF FileError(file) \/ Missing(file) # {} \/ Len(file.rows) > MAX_CSV_COMMIT_ROWS
       THEN requests' = requests + 1
            /\ UNCHANGED <<inbound, spine, failed, products, variants, identifiers, done>>
       ELSE \E fault \in 0 .. Len(file.rows) :
                Store(Process(build_records(file), fault, file.kind = "products"), file)
    /\ UNCHANGED previews

Next ==
    \/ \E sub \in Submissions : intake_connector_payload(sub)
    \/ \E file \in Files : preview_csv_intake(file) \/ commit_csv_intake(file)

Spec == Init /\ [][Next]_vars

-----------------------------------------------------------------------------
(* Properties. *)

Answered == {d \in done : "payload" \in DOMAIN d}
Committed == {d \in done : "rows" \in DOMAIN d}

\* What a line states, as its source would read it, if it states a sale or a count.
StatesSale(l) ==
    /\ Or(l.sku, l.product) # None
    /\ l.quantity \in Int /\ l.quantity > 0
    /\ l.price \in {None} \cup Nat
StatesCount(l) == l.sku # None /\ l.location # None /\ l.quantity \in {None} \cup Nat

\* The lines of an order that have an id of their own.
Identified(p) ==
    {i \in DOMAIN p.lines : p.lines[i] # NotDict /\ p.lines[i].id # None
        /\ \A j \in DOMAIN p.lines \ {i} : p.lines[j].id # p.lines[i].id}

Raised(raw, id) == \E k \in failed : k.raw = raw /\ id \in ToSet(k.object)
Reported(raw, content) == \E e \in DOMAIN spine : spine[e] = [raw |-> raw, content |-> content]

\* A payload answered 200 has sold every line of it that states a sale, for its own
\* quantity and price, and counted every count, unless the spine raised on that very
\* line (map_shopify_order, map_lightspeed_sale, map_square_inventory: "collapsing to
\* a single record would silently undercount every line after the first").
LinesAreCarried ==
    \A d \in Answered :
        /\ d.system \in {"shopify", "lightspeed"} =>
            \A i \in Identified(d.payload) :
                LET l == d.payload.lines[i]
                IN StatesSale(l) =>
                    \/ Reported(d.payload, Content(Or(l.sku, l.product), l.quantity, Or(l.price, 0)))
                    \/ Raised(d.payload, l.id)
        /\ d.system \in {"square", "sap", "syspro", "dynamics"} =>
            \A i \in DOMAIN d.payload.lines :
                LET l == d.payload.lines[i]
                IN StatesCount(l) /\ d.payload.time # Bad =>
                    \/ \E e \in DOMAIN spine : spine[e].content.sku = l.sku
                                            /\ spine[e].raw = d.payload
                    \/ Raised(d.payload, l.location)

\* Nothing is sold that no line states, and a checkout's amount is neither rounded up
\* nor down (_exact_unit_price_minor: "instead of rounding and corrupting revenue").
NothingIsInvented ==
    \A e \in DOMAIN spine :
        LET c == spine[e].content
        IN /\ c.quantity >= 0
           /\ e[2] = "sales_line" => c.sku # None /\ c.quantity > 0 /\ c.price >= 0
           /\ e[1] = "yoco" => 2 * spine[e].raw.lines[1].price = c.price * c.quantity

\* Every row of a committed file is kept, and the rows that become events are those the
\* preview called valid, unless the spine raised on the row (preview_csv_intake: "a
\* clean preview is a true guarantee about commit").
RowsAreKept ==
    \A f \in Committed : \A i \in DOMAIN f.rows :
        /\ \E k \in inbound : k.raw = Raw(f, i)
        /\ f.kind # "products" => \A pv \in previews : pv.file = f =>
             (i \in pv.valid <=> \/ \E e \in DOMAIN spine : spine[e].raw = Raw(f, i)
                                \/ \E k \in failed : k.raw = Raw(f, i))

\* A column is read for one field only, unless the request maps it to two itself.
ColumnsAreDistinct ==
    \A f \in Committed : LET m == infer_mapping(f) IN
        \A a, b \in DOMAIN m : a # b /\ m[a] = m[b] =>
            {a, b} \subseteq DOMAIN f.overrides

\* A code of the catalogue leads to a variant and a product that exist, and to the one
\* that carries it (_commit_product_record).
CodesAreBacked ==
    \A k \in DOMAIN identifiers :
        /\ identifiers[k] \in variants
        /\ [name |-> identifiers[k].name] \in products

\* The intake as a whole: what a source states reaches the event store and the
\* catalogue once, unaltered.
SourcesAreCarried ==
    /\ LinesAreCarried /\ NothingIsInvented
    /\ RowsAreKept /\ ColumnsAreDistinct /\ CodesAreBacked

\* A request that brings no new record changes nothing, and no request moves a code to
\* another variant (commit_csv_intake: "Re-committing the same file is idempotent";
\* _commit_product_record: "never a silent overwrite").
ImportsConverge ==
    [][/\ inbound' = inbound => UNCHANGED <<spine, products, variants, identifiers>>
       /\ \A k \in DOMAIN identifiers :
            k \in DOMAIN identifiers' /\ identifiers'[k] = identifiers[k]]_vars
=============================================================================
