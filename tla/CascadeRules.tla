---------------------------- MODULE CascadeRules ----------------------------
(***************************************************************************)
(* What the deterministic cascades decide: CascadeDispatcher routes one    *)
(* event to one of eight builders of cascade.py, each of which computes a  *)
(* verdict from the event and the measured facts and turns it into a       *)
(* decision, or into none.                                                 *)
(*                                                                         *)
(* A payload field is missing (None), falsy ("zero": 0 or an empty text),  *)
(* unreadable ("bad", which an empty text is where a number is read) or a  *)
(* proper value ("some"). Of a sale's fields an empty text is "zero" and 0 *)
(* a value like any other. The numbers the decision science returns are    *)
(* arbitrary; the cascades only compare them.                              *)
(***************************************************************************)
EXTENDS Integers, FiniteSets

CONSTANTS
    Numbers,     \* integers the facts and payloads take
    Prices,      \* till and catalogue prices in cents
    Percents,    \* supplier coverages, in percent
    None

VARIABLES event, result
vars == <<event, result>>

Values == {None, "zero", "bad", "some"}
Domains == {"operational_twin", "world_simulation", "other"}

\* The fields a builder replaces by a value of the demonstration story.
ScanFields == {"payday_multiplier", "area", "outage_hours", "average_temp"}
AlertFields == {"temp", "diagnosis", "severity", "minutes", "measured_hours"}

\* The fields a builder replaces by a fact: of the simulated world, or measured.
SaleFields == {"sku", "location", "quantity", "unit_price"}

Abs(n) == IF n < 0 THEN - n ELSE n

-----------------------------------------------------------------------------
(* The events. Fields that no cascade decides on are left out. *)

With(type, rest) == [type : {type}, domain : Domains, body : rest]

Events ==
    With("scan", [field : [ScanFields -> Values], profit : Numbers])
    \union With("cold_chain_alert", [field : [AlertFields -> Values],
                                     severity : Numbers, at_risk : Numbers])
    \union With("supplier_update", [reorder : BOOLEAN, coverage : Percents])
    \union With("sale", [prices : {"both", "one"}, unit : Prices, catalog : Prices])
    \union With("sale", [prices : {"none"}, field : [SaleFields -> Values],
                         unit : Prices, catalog : Prices])
    \union With("expiry_entry", [days : Numbers \union {None}])
    \union With("recall_notice", [complete : BOOLEAN, units : Numbers])
    \union With("inventory_exception",
            [kind : {"return", "damage", "shrink", "misplaced_stock"},
             complete : BOOLEAN, units : Numbers, expected : Numbers])
    \union With("stock_update", {None})

-----------------------------------------------------------------------------
(* The parts of a result. *)

NoDecision(status) == [status |-> status, decision |-> None, used |-> {}]

\* _enforce_critic_verdict: the action and whether the gate overrode it.
Enforced(passed, go, safe) == IF passed \/ go = safe THEN go ELSE safe

Decide(status, action, verdict, review, used) ==
    [status |-> "decided", used |-> used,
     decision |-> [status |-> status, action |-> action, verdict |-> verdict,
                   review |-> review]]

\* A builder with a critic: evidence, action and status pass through one gate.
Gated(passed, go, safe, used) ==
    Decide(IF passed THEN "pending" ELSE "rejected", Enforced(passed, go, safe),
           IF passed THEN "approved" ELSE "rejected", passed, used)

\* A builder that always asks a manager.
Review(action, verdict) == Decide("pending", action, verdict, TRUE, {})

-----------------------------------------------------------------------------
(* The builders. *)

\* The story's values stand in for what is missing or falsy.
ScanStory(e) == {f \in ScanFields : e.body.field[f] \in {None, "zero"}}

\* Mistake: the builder ships the escalating action on a failed verdict.
golden_cascade_ungated(e) ==
    Decide(IF e.body.profit > 0 THEN "pending" ELSE "rejected", "apply_markdown",
           IF e.body.profit > 0 THEN "approved" ELSE "rejected", e.body.profit > 0,
           ScanStory(e))

run_golden_cascade(e) ==
    IF \E f \in ScanFields \ {"area"} : e.body.field[f] = "bad"
    THEN NoDecision("error")        \* Decimal raises
    ELSE Gated(e.body.profit > 0, "apply_markdown", "monitor", ScanStory(e))

run_procurement_cascade(e) ==
    Gated(e.body.reorder /\ e.body.coverage >= 60, "reorder", "monitor", {})

\* What a sale lacks is filled in from the product's facts (_payload_value).
SaleFacts(e) == {f \in SaleFields : e.body.field[f] \in {None, "zero"}}

\* A sale without its price is one at the catalogue's.
PriceMatches(e) == "unit_price" \in SaleFacts(e) \/ e.body.unit = e.body.catalog

\* A sale without prices in cents; unit is its own price, catalog the fact's.
run_sales_cascade(e) ==
    IF "bad" \in {e.body.field["quantity"], e.body.field["unit_price"]}
    THEN NoDecision("error")        \* Decimal raises
    ELSE IF PriceMatches(e)
    THEN Decide("approved", "record_sale", "approved", FALSE, SaleFacts(e))
    ELSE Decide("pending", "review_price_exception", "review_required", TRUE, SaleFacts(e))

\* Only a price more than 15 percent off the catalogue's needs a manager.
run_catalog_price_check(e) ==
    IF e.body.catalog <= 0 \/ e.body.unit < 0
       \/ Abs(e.body.unit - e.body.catalog) * 100 <= 15 * e.body.catalog
    THEN NoDecision("none")
    ELSE Review("review_price_exception", "review_required")

EXPIRY_REVIEW_MAX_DAYS == 2

run_expiry_risk_check(e) ==
    IF e.body.days = None THEN NoDecision("none")
    ELSE IF e.body.days > EXPIRY_REVIEW_MAX_DAYS THEN NoDecision("none")
    ELSE Review("review_expiry_markdown", "review_required")

\* A text is replaced when it is empty, a number when it cannot be read.
AlertStory(e) ==
    {f \in AlertFields : e.body.field[f] \in
        (IF f = "diagnosis" THEN {None, "zero"} ELSE {None, "bad"})}

\* The severity counted with: zero is kept, an unreadable one becomes 2.
Severity(e) == CASE e.body.field["severity"] = "some" -> e.body.severity
                 [] e.body.field["severity"] = "zero" -> 0
                 [] OTHER -> 2

run_cold_chain_cascade(e) ==
    Gated(Severity(e) >= 1 /\ e.body.at_risk > 0, "dispatch_facilities_check",
          "monitor_cold_chain", AlertStory(e))

\* validate_recall_notice raises on an incomplete notice.
run_recall_cascade(e) ==
    IF ~ e.body.complete \/ e.body.units <= 0 THEN NoDecision("error")
    ELSE Review("quarantine_lot", "approved")

\* validate_inventory_exception: what each kind of exception must carry.
ValidException(b) ==
    /\ b.complete
    /\ IF b.kind = "shrink" THEN 0 <= b.units /\ b.units < b.expected ELSE b.units > 0

\* One governed action for each kind.
ExceptionAction(b) ==
    CASE b.kind = "shrink" -> "investigate_shrink"
      [] b.kind = "misplaced_stock" -> "relocate_stock"
      [] b.kind = "damage" -> "quarantine_damaged_stock"
      [] OTHER -> "process_return"

run_inventory_exception_cascade(e) ==
    IF ValidException(e.body) THEN Review(ExceptionAction(e.body), "approved")
    ELSE NoDecision("error")

-----------------------------------------------------------------------------
(* CascadeDispatcher. *)

\* Mistake: of an alert only the temperature is required.
RequiredTempOnly(e) == IF e.type = "scan" THEN ScanFields
                       ELSE IF e.type = "cold_chain_alert" THEN {"temp"} ELSE {}

\* _require_operational_context: the fields a live event must carry.
Required(e) == CASE e.type = "scan" -> ScanFields
                 [] e.type = "cold_chain_alert" -> AlertFields
                 [] OTHER -> {}

MissingContext(e) ==
    /\ e.domain = "operational_twin"
    /\ \E f \in Required(e) : e.body.field[f] = None

\* CascadeDispatcher._run, in the order of its tests. An event that fails the
\* context check, or whose twin lacks a fact, gets a receipt without decision.
Dispatch(e) ==
    CASE e.domain = "other"               -> NoDecision("ignored_data_domain")
      [] e.domain # "other" /\ e.type = "recall_notice" -> run_recall_cascade(e)
      [] e.domain # "other" /\ e.type = "inventory_exception" ->
            run_inventory_exception_cascade(e)
      [] e.domain # "other" /\ e.type = "expiry_entry" -> run_expiry_risk_check(e)
      [] e.domain # "other" /\ e.type = "sale" ->
            (CASE e.body.prices = "both" -> run_catalog_price_check(e)
               [] e.body.prices = "one"  -> NoDecision("none")
               [] OTHER -> run_sales_cascade(e))
      [] e.domain # "other" /\ e.type \in {"scan", "cold_chain_alert"} ->
            (IF MissingContext(e) THEN NoDecision("insufficient_operational_facts")
             ELSE IF e.type = "scan" THEN run_golden_cascade(e)
             ELSE run_cold_chain_cascade(e))
      [] e.domain # "other" /\ e.type = "supplier_update" -> run_procurement_cascade(e)
      [] OTHER -> NoDecision("none")

\* The live twin may lack a fact (MissingOperationalFacts from its provider).
NeedsFacts(e) == e.domain = "operational_twin"
                 /\ (e.type \in {"scan", "cold_chain_alert", "supplier_update"}
                     \/ (e.type = "sale" /\ e.body.prices = "none"))

\* run: the handler of the intake and, through run_worker, of the worker.
Run ==
    /\ result = None
    /\ \/ result' = Dispatch(event)
       \/ NeedsFacts(event) /\ result' = NoDecision("insufficient_operational_facts")
    /\ UNCHANGED event

Init == event \in Events /\ result = None

Next == Run

Spec == Init /\ [][Next]_vars

-----------------------------------------------------------------------------
(* Properties. *)

Escalating == {"apply_markdown", "reorder", "dispatch_facilities_check"}
Holding == {"monitor", "monitor_cold_chain", "record_sale"}

\* The event and the result have their types.
TypeOK ==
    /\ event \in Events
    /\ result # None =>
        /\ result.used \subseteq ScanFields \union AlertFields \union SaleFields
        /\ result.status # "decided" => result.decision = None

\* Status, action, verdict and review flag of a decision always tell one story,
\* whichever builder made it: a rejected decision holds and asks nobody, a
\* pending one asks a manager for an action that changes something, and only a
\* clean sale is approved without one (_enforce_critic_verdict's docstring: one
\* gate for evidence, action and status).
VerdictIsConsistent ==
    (result # None /\ result.decision # None) =>
        LET d == result.decision
        IN  /\ d.status = "rejected" => d.action \in Holding /\ ~ d.review
                                        /\ d.verdict = "rejected"
            /\ d.status = "pending" => d.action \notin Holding /\ d.review
                                       /\ d.verdict # "rejected"
            /\ d.status = "approved" <=> d.action = "record_sale"
            /\ d.action \in Escalating => d.verdict = "approved"

\* A decision about the live twin never rests on the demonstration story for a field the
\* event lacks (_require_operational_context). Only a sale's own fields are filled in, from
\* what the twin and the catalogue say of the product: a live sale without a price is
\* recorded as one at the catalogue's, without a manager (run_sales_cascade).
LiveFieldsArePresent ==
    (result # None /\ result.decision # None /\ event.domain = "operational_twin")
        => \A f \in result.used \ SaleFields : event.body.field[f] # None
=============================================================================
