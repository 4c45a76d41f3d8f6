--------------------------- MODULE ColdChainFeed ---------------------------
(***************************************************************************)
(* The cold-chain drill (shelfwise_resilience, cold_chain_feed.py): a replay *)
(* of a site's telemetry, reading by reading, through a feed that keeps the  *)
(* last power, generator and energy states and a window of temperatures per  *)
(* asset, and publishes a tile for every temperature and an alert whenever   *)
(* the diagnosis changes, into a buffer of bounded length.                   *)
(*                                                                          *)
(* Temperatures are in twentieths of a degree, so that the slope which       *)
(* counts as rising is one per minute; an asset moves one unit a minute      *)
(* towards its set point or towards the room. Doors are never read, so that  *)
(* diagnosis does not occur. The value of the stock at risk is left out.     *)
(***************************************************************************)
EXTENDS Integers, Sequences, FiniteSets, FiniteSetsExt, SequencesExt

CONSTANTS
    Assets,         \* a sequence: the fridges of the drill
    None,
    Minutes,        \* length of the drill
    TREND_LEN, MAX_EVENTS,
    GEN_START_DELAY,
    MaxDrills,      \* bound: replays begun
    SafeMax, UnsafeAbove, Ambient    \* the profile; the set point is 0

INFO == 0
WARNING == 1
CRITICAL == 2

VARIABLES
    scenario,     \* [outage, restore, generator]: the drill that is replayed
    running,      \* the service's task is alive
    minute, at,   \* position in the replay: the minute, and the reading in it
    temps,        \* asset |-> the simulated temperature
    power, generator, energy,   \* the feed: last readings
    window,       \* asset |-> its last temperatures, with their minutes
    last_alert,   \* asset |-> None or the alert state
    events,       \* the service's buffer
    drills,       \* replays begun
    calm          \* history: asset |-> how often it was back to normal

vars == <<scenario, running, minute, at, temps, power, generator, energy, window,
          last_alert, events, drills, calm>>
feedVars == <<power, generator, energy, window, last_alert>>

Names == {Assets[i] : i \in DOMAIN Assets}
\* What is diagnosed, and how bad it is.
Alerts == [diagnosis : {"generator_failed", "compressor_failure", "unit_not_cooling", "warming",
                        "on_generator", "normal"},
           severity : {INFO, WARNING, CRITICAL}]

FeedAssumption ==
    /\ Assets \in Seq(Names) /\ None \notin Alerts
    /\ Minutes \in Nat \ {0} /\ TREND_LEN \in Nat \ {0, 1} /\ MAX_EVENTS \in Nat \ {0}
    /\ SafeMax < UnsafeAbove /\ GEN_START_DELAY \in Nat

Scenarios == {s \in [outage: 0..Minutes, restore: 0..Minutes, generator: BOOLEAN] :
                s.outage < s.restore}

EmptyFeed ==
    /\ power' = "mains" /\ generator' = "off" /\ energy' = [a \in Names |-> 180]
    /\ window' = [a \in Names |-> <<>>] /\ last_alert' = [a \in Names |-> None]

Init ==
    /\ scenario \in Scenarios /\ running = FALSE /\ minute = 0 /\ at = 1
    /\ temps = [a \in Names |-> 0]
    /\ power = "mains" /\ generator = "off" /\ energy = [a \in Names |-> 180]
    /\ window = [a \in Names |-> <<>>] /\ last_alert = [a \in Names |-> None]
    /\ events = <<>> /\ drills = 0 /\ calm = [a \in Names |-> 0]

-----------------------------------------------------------------------------
(* The drill: per minute the mains, the generator, and each asset's temperature *)
(* and, after it, its energy.                                                   *)

Mains == ~(scenario.outage <= minute /\ minute < scenario.restore)
Generator ==
    IF Mains THEN "off"
    ELSE IF ~scenario.generator THEN "failed"
    ELSE IF minute - scenario.outage < GEN_START_DELAY THEN "starting" ELSE "running"
Cooling == Mains \/ Generator = "running"
Towards(temp) == IF Cooling THEN IF temp > 0 THEN temp - 1 ELSE temp
                 ELSE IF temp < Ambient THEN temp + 1 ELSE temp

Last_at == 2 + 2 * Len(Assets)
AssetAt == Assets[(at - 1) \div 2]

-----------------------------------------------------------------------------
(* The trend of a window, by least squares over minutes and temperatures. *)

Total(n, f(_)) == MapThenSumSet(f, 1..n)
SlopeOver(w) == Len(w) * Total(Len(w), LAMBDA i : w[i].minute * w[i].temp)
                  - Total(Len(w), LAMBDA i : w[i].minute) * Total(Len(w), LAMBDA i : w[i].temp)
SlopeUnder(w) == Len(w) * Total(Len(w), LAMBDA i : w[i].minute * w[i].minute)
                   - Total(Len(w), LAMBDA i : w[i].minute) * Total(Len(w), LAMBDA i : w[i].minute)

\* A forecast exists for a rising trend of at least two minutes.
predict_time_to_unsafe(w) == Len(w) >= 2 /\ SlopeOver(w) > 0
Rising(w) == predict_time_to_unsafe(w) /\ SlopeOver(w) >= SlopeUnder(w)

Result(diagnosis, severity) == [diagnosis |-> diagnosis, severity |-> severity]

\* Mistake: the fuel is looked at before the trend, and an outage without a generator last.
diagnose_fuel_first(p, g, rising, watts) ==
    LET cooling == p = "mains" \/ g = "running"
    IN IF g = "low_fuel" THEN Result("on_generator", WARNING)
       ELSE IF cooling /\ rising /\ watts <= 20 THEN Result("compressor_failure", CRITICAL)
       ELSE IF rising THEN Result("warming", WARNING)
       ELSE IF p = "outage" /\ g # "running" THEN Result("generator_failed", CRITICAL)
       ELSE Result("normal", INFO)

diagnose(p, g, rising, watts) ==
    LET cooling == p = "mains" \/ g = "running"
    IN IF p = "outage" /\ g \in {"failed", "off", "tripped", "starting"}
       THEN Result("generator_failed", CRITICAL)
       ELSE IF cooling /\ rising /\ watts <= 20
       THEN Result("compressor_failure", CRITICAL)
       ELSE IF cooling /\ rising THEN Result("unit_not_cooling", WARNING)
       ELSE IF rising THEN Result("warming", WARNING)
       ELSE IF g = "low_fuel" THEN Result("on_generator", WARNING)
       ELSE IF p = "outage" /\ g = "running" THEN Result("on_generator", INFO)
       ELSE Result("normal", INFO)

Status(temp, predicted) ==
    IF temp > UnsafeAbove THEN "unsafe"
    ELSE IF predicted \/ temp > SafeMax THEN "at_risk" ELSE "safe"

-----------------------------------------------------------------------------
(* The feed. *)

Keep(s, n) == IF Len(s) > n THEN SubSeq(s, Len(s) - n + 1, Len(s)) ELSE s
publish(more) == events' = Keep(events \o more, MAX_EVENTS)

ReadPower ==
    /\ at = 1 /\ power' = IF Mains THEN "mains" ELSE "outage"
    /\ UNCHANGED <<temps, generator, energy, window, last_alert, events, calm>>
ReadGenerator ==
    /\ at = 2 /\ generator' = Generator
    /\ UNCHANGED <<temps, power, energy, window, last_alert, events, calm>>
ReadEnergy ==
    /\ at > 2 /\ at % 2 = 0
    /\ energy' = [energy EXCEPT ![Assets[(at - 2) \div 2]] = IF Cooling THEN 180 ELSE 0]
    /\ UNCHANGED <<temps, power, generator, window, last_alert, events, calm>>

Tile(a, temp, w) == [kind |-> "fridge", asset |-> a, of |-> Status(temp, predict_time_to_unsafe(w)),
                     predicted |-> predict_time_to_unsafe(w), epoch |-> calm[a]]
Alert(a, d) == [kind |-> "cold_chain", asset |-> a, of |-> d, predicted |-> FALSE,
                epoch |-> calm[a]]

\* Mistake: what is announced is not remembered.
AlertStateForgotten(a, d) ==
    /\ UNCHANGED last_alert
    /\ calm' = [calm EXCEPT ![a] = IF d.severity = INFO /\ last_alert[a] # None THEN @ + 1 ELSE @]

\* _publish_alert: what is announced is remembered until the asset is back to normal.
AlertState(a, d) ==
    /\ last_alert' = [last_alert EXCEPT ![a] = IF d.severity >= WARNING THEN d ELSE None]
    /\ calm' = [calm EXCEPT ![a] = IF d.severity = INFO /\ last_alert[a] # None THEN @ + 1 ELSE @]

\* A temperature: the window, the tile, and the alert if the diagnosis is a new one.
ReadTemperature ==
    LET a == AssetAt
        temp == Towards(temps[a])
        w == Keep(Append(window[a], [minute |-> minute, temp |-> temp]), TREND_LEN)
        d == diagnose(power, generator, Rising(w), energy[a])
    IN /\ at > 2 /\ at % 2 = 1
       /\ temps' = [temps EXCEPT ![a] = temp]
       /\ window' = [window EXCEPT ![a] = w]
       /\ AlertState(a, d)
       /\ publish(IF d.severity >= WARNING /\ last_alert[a] # d
                  THEN <<Tile(a, temp, w), Alert(a, d)>> ELSE <<Tile(a, temp, w)>>)
       /\ UNCHANGED <<power, generator, energy>>

\* The replay takes the next reading, and after the last minute starts over with a new
\* feed and new temperatures.
Replay ==
    /\ running /\ minute < Minutes
    /\ ReadPower \/ ReadGenerator \/ ReadTemperature \/ ReadEnergy
    /\ at' = IF at = Last_at THEN 1 ELSE at + 1
    /\ minute' = IF at = Last_at THEN minute + 1 ELSE minute
    /\ UNCHANGED <<scenario, running, drills>>

NewDrill ==
    /\ drills < MaxDrills /\ drills' = drills + 1
    /\ minute' = 0 /\ at' = 1 /\ temps' = [a \in Names |-> 0]
    /\ EmptyFeed /\ calm' = [a \in Names |-> calm[a] + 1]

StartOver ==
    /\ running /\ minute = Minutes
    /\ NewDrill
    /\ UNCHANGED <<scenario, running, events>>

\* The service is stopped at any await and may be started again; its buffer stays.
Start ==
    /\ ~running /\ running' = TRUE /\ NewDrill
    /\ UNCHANGED <<scenario, events>>
Stop ==
    /\ running /\ running' = FALSE
    /\ UNCHANGED <<scenario, minute, at, temps, feedVars, events, drills, calm>>

Next == Replay \/ StartOver \/ Start \/ Stop

Spec == Init /\ [][Next]_vars

-----------------------------------------------------------------------------
(* Properties. *)

\* The i-th message of the buffer is an alert of the asset; it is the newest one.
IsAlert(a, i) == events[i].kind = "cold_chain" /\ events[i].asset = a
IsNewest(a, i) == IsAlert(a, i) /\ \A j \in i + 1 .. Len(events) : ~IsAlert(a, j)
Uncarried == power = "outage" /\ generator # "running"

\* While the site is without power and no generator carries it, every asset that has
\* been read since is under a critical alert; and a rising trend is never called normal
\* (diagnose: "Ordering low-fuel first silently dropped the warming signal").
DangerIsAnnounced ==
    /\ \A a \in Names : Uncarried /\ window[a] # <<>> /\ Last(window[a]).minute = minute
                          /\ at > 2 =>
            last_alert[a] = Result("generator_failed", CRITICAL)
    /\ \A p \in {"mains", "outage"}, g \in {"off", "starting", "running", "failed", "low_fuel",
                                            "tripped"}, watts \in {0, 180} :
            /\ diagnose(p, g, TRUE, watts).severity >= WARNING
            /\ diagnose(p, g, TRUE, watts).diagnosis \notin {"normal", "on_generator"}
            /\ p = "outage" /\ g \notin {"running", "low_fuel"} =>
                    diagnose(p, g, TRUE, watts).severity = CRITICAL

\* An alert is published when the diagnosis changes and only then: the alert in force is
\* the last one in the buffer, unless later messages have pushed it out, and the buffer
\* shows no alert twice in a row unless the asset was back to normal in between
\* (_publish_alert: "only when the alert state changes").
AlertsAreChanges ==
    \A a \in Names :
        /\ last_alert[a] # None =>
              \/ Len(events) = MAX_EVENTS
              \/ \E i \in DOMAIN events : IsNewest(a, i) /\ events[i].of = last_alert[a]
        /\ \A i, j \in DOMAIN events :
              i < j /\ IsAlert(a, i) /\ IsAlert(a, j) /\ (\A k \in i + 1 .. j - 1 : ~IsAlert(a, k))
                => events[i].of # events[j].of \/ events[i].epoch # events[j].epoch

\* A tile is never shown safe while a forecast or a temperature says otherwise.
FeedIsHonest ==
    /\ DangerIsAnnounced /\ AlertsAreChanges
    /\ \A i \in 1..Len(events) : events[i].kind = "fridge" /\ events[i].of = "safe"
                                    => ~events[i].predicted
=============================================================================
