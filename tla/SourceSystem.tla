---------------------------- MODULE SourceSystem ----------------------------
(***************************************************************************)
(* What brings data into the store: the intake of polled                    *)
(* and delivered records (ConnectorIntake, extended), the schedule of the    *)
(* polls with the credentials and webhook endpoints (PollSchedule), and the  *)
(* replayed telemetry of the cold-chain drill (ColdChainFeed), and the       *)
(* mapping of payloads and of CSV files into records, events and the         *)
(* catalogue (SourceIntake). Each works on tables of its own.                *)
(***************************************************************************)
EXTENDS ConnectorIntake

CONSTANTS
    Order, Env, Rows, PageLimit, Endpoints, Tenants, MaxTime, MaxEdits, MaxOutages,
    Assets, Minutes, TREND_LEN, MAX_EVENTS, GEN_START_DELAY, MaxDrills,
    SafeMax, UnsafeAbove, Ambient,
    Unread, NaN, NotDict, Submissions, Files, Normal, Aliases, DefaultLocation,
    MAX_CSV_ROWS, MAX_CSV_COMMIT_ROWS, MaxRequests

VARIABLES
    creds, up, date, now, watermark, marks, delivered, run, status, polled, used, edited,
    endpoint, accepted, edits, outages,
    scenario, running, minute, at, temps, power, generator, energy, window, last_alert,
    events, drills, calm,
    records, spine, refused, products, variants, identifiers, done, previews, requests

Schedule == INSTANCE PollSchedule
                WITH cursor <- watermark, changes <- edits, MaxChanges <- MaxEdits
Drill == INSTANCE ColdChainFeed
Mapping == INSTANCE SourceIntake WITH Bad <- Unread, inbound <- records, failed <- refused

scheduleVars ==
    <<creds, up, date, now, watermark, marks, delivered, run, status, polled, used, edited,
      endpoint, accepted, edits, outages>>
drillVars ==
    <<scenario, running, minute, at, temps, power, generator, energy, window, last_alert,
      events, drills, calm>>
mappingVars ==
    <<records, spine, refused, products, variants, identifiers, done, previews, requests>>

SourceAssumption ==
    Schedule!ScheduleAssumption /\ Drill!FeedAssumption /\ Mapping!MappingAssumption

-----------------------------------------------------------------------------
\* (PollSchedule) Polls use the fields their tenant has stored now, skip nothing but ties
\* at a page's end, and call a run good only when it was complete; a webhook endpoint
\* stays its tenant's (connector_poll_service.py, webhook_endpoints.py).
PollsAreCurrent == Schedule!PollsAreCurrent

\* (ColdChainFeed) The drill's alerts are the changes of what it diagnoses, and no danger
\* goes unsaid (ColdChainFeed._publish_alert, diagnose).
FeedIsHonest == Drill!FeedIsHonest

\* (SourceIntake) A request without a new record changes nothing, and a product code never
\* changes its variant (commit_csv_intake, upsert_identifier).
ImportsConverge == Mapping!ImportsConverge
=============================================================================
