--------------------------- MODULE HealthChecker ----------------------------
(***************************************************************************)
(* The health checker (internal/proxy/health.go): one goroutine goes       *)
(* through all endpoints one after the other, stores what it finds, logs   *)
(* changes, asks the first app endpoint for the head height, and waits for *)
(* its ticker.  Endpoints come and go at any time, in the middle of a      *)
(* round too.  Addresses, latencies and the kinds of probe (HTTP, JSON-RPC *)
(* or TCP dial) are left out: a probe finds an endpoint healthy or not.    *)
(* The admin API reads the statuses at any time and sums them up per       *)
(* backend (internal/admin/backend_handlers.go).                           *)
(***************************************************************************)
EXTENDS Integers, Sequences, SequencesExt

CONSTANTS
  Backends,   \* the backends in the order of checkAll, celestia-app-rpc first
  Total,      \* how many endpoints each has
  Enabled,    \* is height-aware routing on?
  MaxHeight,  \* bound on the height of the chain
  MaxChanges  \* bound on how often endpoints go up or down or First stops or
              \* starts to answer

ASSUME HealthAssumption ==
  /\ MaxHeight \in Nat /\ MaxChanges \in Nat /\ Enabled \in BOOLEAN
  /\ IsInjective(Backends) /\ Total \in [Range(Backends) -> Nat]
  /\ Backends # << >> /\ Total[Backends[1]] > 0

VARIABLES
  up,        \* the endpoints that are healthy in fact
  answers,   \* does First answer the method status, whatever its /health says?
  latest,    \* the height of the chain at First, 0 for a node without blocks
  statuses,  \* name -> "none" (never checked), "up" or "down"
  check,     \* the check of checkAll that is next
  found,     \* what the latest probe found, "none" once that is done with
  prev,      \* the status that it replaced, "unset" until it is stored
  phase,     \* the goroutine: "new" until it runs, "round", "wait", "ended"
  tick,      \* the ticker's channel: "off" before there is one, "empty", "full"
  stopped,   \* was the context cancelled?
  headHeight, \* HeightTracker's
  events,    \* history: per name, the changes logged
  changes

healthNodes == <<up, answers, latest, changes>>
healthRound == <<check, found, prev, phase>>
healthKnown == <<statuses, headHeight, events>>
healthVars == <<healthNodes, healthRound, healthKnown, tick, stopped>>

\* The name of an endpoint, its parts apart: the backend's name alone if the
\* backend has no other endpoint.
endpointName(base, idx, total) == IF total <= 1 THEN <<base>> ELSE <<base, idx>>

\* The names in the order of checkAll.
Checks ==
  FlattenSeq([k \in DOMAIN Backends |->
    [j \in 1 .. Total[Backends[k]] |->
       endpointName(Backends[k], j - 1, Total[Backends[k]])]])

\* The first celestia-app endpoint, which is asked for the head.
First == Checks[1]

Name == Range(Checks)

HealthInit ==
  /\ up \in SUBSET Name /\ answers \in BOOLEAN /\ latest \in 0 .. 1 /\ changes = 0
  /\ statuses = [n \in Name |-> "none"] /\ headHeight = 0
  /\ events = [n \in Name |-> << >>]
  /\ check = 1 /\ found = "none" /\ prev = "unset" /\ phase = "new"
  /\ tick = "off" /\ stopped = FALSE

-----------------------------------------------------------------------------
\* An endpoint goes down or comes back.
Change(n) ==
  /\ changes < MaxChanges
  /\ changes' = changes + 1
  /\ up' = IF n \in up THEN up \ {n} ELSE up \cup {n}
  /\ UNCHANGED <<answers, latest, healthRound, healthKnown, tick, stopped>>

\* First stops answering the method status with a height, or starts again.
ChangeAnswers ==
  /\ changes < MaxChanges
  /\ changes' = changes + 1 /\ answers' = ~answers
  /\ UNCHANGED <<up, latest, healthRound, healthKnown, tick, stopped>>

\* The chain grows.
Advance ==
  /\ latest < MaxHeight
  /\ latest' = latest + 1
  /\ UNCHANGED <<up, answers, changes, healthRound, healthKnown, tick, stopped>>

\* The ticker fires; a tick that nobody has taken is not doubled.
TickerFires ==
  /\ tick = "empty" /\ tick' = "full"
  /\ UNCHANGED <<healthNodes, healthRound, healthKnown, stopped>>

\* main cancels the context.
Cancel ==
  /\ ~stopped /\ stopped' = TRUE
  /\ UNCHANGED <<healthNodes, healthRound, healthKnown, tick>>

-----------------------------------------------------------------------------
\* The goroutine runs; the first round does not wait for a tick.
StartChecker ==
  /\ phase = "new" /\ phase' = "round"
  /\ UNCHANGED <<check, found, prev, healthNodes, healthKnown, tick, stopped>>

\* One check of the round.
Probe ==
  /\ phase = "round" /\ check <= Len(Checks) /\ found = "none"
  /\ found' = IF Checks[check] \in up THEN "up" ELSE "down"
  /\ UNCHANGED <<check, prev, phase, healthNodes, healthKnown, tick, stopped>>

\* Mutant of Store: the previous status is read after it was replaced.
StoreThenRead ==
  /\ found # "none" /\ prev = "unset"
  /\ prev' = found
  /\ statuses' = [statuses EXCEPT ![Checks[check]] = found]
  /\ UNCHANGED <<check, found, phase, healthNodes, headHeight, events, tick, stopped>>

\* Under the mutex the status before is read and the result is stored.
Store ==
  /\ found # "none" /\ prev = "unset"
  /\ prev' = statuses[Checks[check]]
  /\ statuses' = [statuses EXCEPT ![Checks[check]] = found]
  /\ UNCHANGED <<check, found, phase, healthNodes, headHeight, events, tick, stopped>>

\* What is logged for the result.
Event ==
  IF prev = "none" THEN (IF found = "down" THEN <<"unreachable">> ELSE << >>)
  ELSE IF prev = found THEN << >>
  ELSE IF found = "up" THEN <<"recovered">> ELSE <<"down">>

\* After the mutex was released a change is logged.
Log ==
  /\ prev # "unset"
  /\ events' = [events EXCEPT ![Checks[check]] = @ \o Event]
  /\ check' = check + 1 /\ found' = "none" /\ prev' = "unset"
  /\ UNCHANGED <<phase, healthNodes, statuses, headHeight, tick, stopped>>

\* Mutant of PollHead: the height is polled until it is known.
PollHeadOnce ==
  /\ phase = "round" /\ check > Len(Checks) /\ found = "none"
  /\ phase' = "wait" /\ tick' = IF tick = "off" THEN "empty" ELSE tick
  /\ headHeight' = IF Enabled /\ answers /\ headHeight = 0 THEN latest ELSE headHeight
  /\ UNCHANGED <<check, found, prev, healthNodes, statuses, events, stopped>>

\* The end of the round: with height routing on, First is asked for its
\* status.  An error, an answer without a height, and the height 0 leave the
\* head as it is.  After the first round the ticker is made.
PollHead ==
  /\ phase = "round" /\ check > Len(Checks) /\ found = "none"
  /\ phase' = "wait" /\ tick' = IF tick = "off" THEN "empty" ELSE tick
  /\ headHeight' = IF Enabled /\ answers /\ latest > 0 THEN latest ELSE headHeight
  /\ UNCHANGED <<check, found, prev, healthNodes, statuses, events, stopped>>

\* The goroutine takes a tick and starts the next round ...
Wake ==
  /\ phase = "wait" /\ tick = "full"
  /\ tick' = "empty" /\ check' = 1 /\ phase' = "round"
  /\ UNCHANGED <<found, prev, healthNodes, healthKnown, stopped>>

\* ... or sees that the context is done, between rounds only.
End ==
  /\ phase = "wait" /\ stopped
  /\ phase' = "ended"
  /\ UNCHANGED <<check, found, prev, healthNodes, healthKnown, tick, stopped>>

Check == Probe \/ Store \/ Log \/ PollHead \/ Wake

HealthNext ==
  \/ (\E n \in Name : Change(n)) \/ ChangeAnswers \/ Advance \/ TickerFires \/ Cancel
  \/ StartChecker \/ Check \/ End

\* Probes end (each has a timeout of 5 seconds) and the ticker fires.  Of a
\* tick and the end of the context that are both there, select may take
\* either, but not the tick for ever.
HealthFairness ==
  WF_healthVars(Check) /\ WF_healthVars(TickerFires) /\ SF_healthVars(End)

HealthSpec == HealthInit /\ [][HealthNext]_healthVars /\ HealthFairness

-----------------------------------------------------------------------------
(* handleBackends: what the admin API shows of one copy of the statuses.   *)

\* Mutant of endpointHealthKey: endpoints are counted from one.
endpointHealthKeyFromOne(base, idx, total) ==
  IF total <= 1 THEN <<base>> ELSE <<base, idx + 1>>

\* The admin API's own idea of an endpoint's name.
endpointHealthKey(base, idx, total) == IF total <= 1 THEN <<base>> ELSE <<base, idx>>

\* Endpoint idx of backend b: "none" while its key is not in the map.
EndpointHealth(b, idx) ==
  LET key == endpointHealthKey(b, idx, Total[b])
  IN  IF key \in Name THEN statuses[key] ELSE "none"

\* The backend: all endpoints that the map knows of under its name, with or
\* without an index, must be healthy.
BackendHealth(b) ==
  LET shown == {statuses[n] : n \in {m \in Name : m[1] = b}} \ {"none"}
  IN  CASE shown = {} -> "none" [] "down" \in shown -> "down" [] OTHER -> "up"

-----------------------------------------------------------------------------
\* The status of n that the log should tell: the line about a status that has
\* just been stored is still to come.
ToldStatus(n) ==
  IF prev # "unset" /\ n = Checks[check] THEN prev ELSE statuses[n]

\* A reader of the log knows the statuses: of every endpoint that was checked
\* the last event says how it is, or was until the check that is just being
\* logged, and an outage and its end alternate.
LogTellsStatus ==
  \A n \in Name :
    /\ ToldStatus(n) = "down" <=> events[n] # << >> /\ Last(events[n]) # "recovered"
    /\ \A k \in 1 .. Len(events[n]) - 1 :
         events[n][k] = "recovered" <=> events[n][k + 1] # "recovered"

\* When endpoints stop coming and going, the admin API comes to show every
\* endpoint as it is, and a backend as healthy just when all its endpoints
\* are, whatever changed in the middle of which round; a checker that is
\* stopped ends instead.
BackendsConverge ==
  <>[](\/ phase \in {"new", "ended"}
       \/ \A b \in Range(Backends) :
            LET isUp(idx) == endpointName(b, idx, Total[b]) \in up
                Idx == 0 .. Total[b] - 1
            IN  /\ \A idx \in Idx :
                     EndpointHealth(b, idx) = IF isUp(idx) THEN "up" ELSE "down"
                /\ BackendHealth(b) = CASE Idx = {} -> "none"
                                       [] \A idx \in Idx : isUp(idx) -> "up"
                                       [] OTHER -> "down")

\* Then, too, the head comes to be the height of the chain at First, if that
\* has blocks and answers the poll, be it healthy or not; a First that does not
\* answer leaves the head where it was, however healthy it is.
HeadConverges ==
  <>[](\/ phase \in {"new", "ended"}
       \/ Enabled /\ answers /\ latest > 0 => headHeight = latest)
=============================================================================
