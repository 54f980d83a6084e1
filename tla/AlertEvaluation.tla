-------------------------- MODULE AlertEvaluation --------------------------
(***************************************************************************)
(* The alert engine: the sessions that evaluate telemetry into Alert rows  *)
(* (AlertEvaluationService.evaluate_all, run by the alert_evaluation job   *)
(* and by POST /alerts/evaluate), the sessions that mirror pending         *)
(* recommendations into an alert (OptimizationService), the fan-out to the *)
(* owners' inboxes (notifications.dispatcher.dispatch) and the operators   *)
(* who acknowledge or resolve alerts (AlertService.update_status).         *)
(*                                                                         *)
(* Every session is a MySQL REPEATABLE READ transaction: it reads the      *)
(* snapshot taken at its first query, keeps what it flushes to itself      *)
(* until it commits, and an UPDATE overwrites whatever has been committed  *)
(* since (no version column, no SELECT ... FOR UPDATE).                    *)
(***************************************************************************)
EXTENDS Naturals, FiniteSets

CONSTANTS
  Deployment, Project, User,  \* what an alert can belong to
  Platform,                   \* the owner of an alert with no foreign key set
  Signal,        \* the <<scope, category>> pairs that are measured
  Recipients,    \* Recipients[s]: the active users an alert of scope s notifies
  AlertId,       \* primary keys of the alerts table, in AUTO_INCREMENT order
  Evaluator,     \* sessions that run AlertEvaluationService
  Optimizer,     \* sessions that run OptimizationService's alert sync
  Operator,      \* sessions of users who PATCH an alert
  InitSettings,  \* users whose notification_settings row exists from the start
  MaxEvents      \* bound: changes of a level, operator updates, failed runs
                 \* and optimizer runs, taken together

Scope == Deployment \cup Project \cup User \cup {Platform}
Session == Evaluator \cup Optimizer

ASSUME RecipientsAssumption == Recipients \in [Scope -> SUBSET User]
ASSUME AlertIdAssumption == AlertId \subseteq Nat
ASSUME SettingsAssumption == InitSettings \subseteq User
ASSUME BoundAssumption == MaxEvents \in Nat

-----------------------------------------------------------------------------
(* Categories of conditions and the alert types they produce.              *)

DeploymentCategory ==
  {"cpu", "memory", "disk", "network", "storage", "cloud_usage",
   "pod_restart", "anomaly_detected", "failure_risk"}

\* Categories whose alert type names the tier: <category>_elevated, _high,
\* _saturated.  The others have one alert type whatever the level.
Tiered ==
  {"cpu", "memory", "disk", "network", "storage", "cloud_usage", "pod_restart",
   "cost", "security", "api_latency", "error_rate"}

ClusterCategory == {"node_failure", "container_failure"}

Category ==
  DeploymentCategory \cup Tiered \cup ClusterCategory \cup {"resource_optimization"}

ASSUME SignalAssumption == Signal \subseteq Scope \X Category

\* The cluster is nobody's: its alerts have no foreign key set.
ASSUME ClusterAssumption ==
  /\ Platform \notin Deployment \cup Project \cup User
  /\ \A sig \in Signal : sig[2] \in ClusterCategory => sig[1] = Platform

\* What an evaluation finds of a signal: "unknown" is a lookup that returned
\* None, "below" a failed-login count that is not zero yet under every tier.
Level == {"clear", "below", "unknown", "warning", "critical", "saturated"}
Firing == {"warning", "critical", "saturated"}

LevelsOf(c) ==
  CASE c \in {"api_latency", "error_rate"}         -> Level \ {"below"}
    [] c = "security"                              -> Level \ {"unknown"}
    [] c \in Tiered \ {"api_latency", "error_rate", "security"}
                                                   -> Firing \cup {"clear"}
    [] c = "failure_risk"                          -> {"clear", "warning", "critical"}
    [] c \in ClusterCategory                       -> {"clear", "unknown", "critical"}
    [] OTHER                                       -> {"clear", "warning"}

AlertType(c, level) == <<c, IF c \in Tiered THEN level ELSE "any">>
\* Mutant of Severity: the tier is stored as the severity.
SeverityIsTier(level) == level

Severity(level) == IF level = "warning" THEN "warning" ELSE "critical"

-----------------------------------------------------------------------------
(* A run evaluates units in this order; each unit is one transaction.      *)

Kind == <<"deployment", "project", "security", "platform",
          "node_failure", "container_failure", "optimization">>

Unit ==
  ({"deployment", "optimization"} \X Deployment) \cup ({"project"} \X Project)
    \cup ({"security", "platform", "node_failure", "container_failure"} \X {Platform})

Rank(u) == CHOOSE i \in 1..7 : Kind[i] = u[1]

\* The units a session runs: everything for the alert engine, the
\* resource_optimization sync of each deployment for the optimizer.
Units(e) == {u \in Unit : (u[1] = "optimization") = (e \in Optimizer)}

FirstOf(us) == {u \in us : \A v \in us : Rank(u) <= Rank(v)}

\* Categories a unit raises alerts for.
Raises(kind) ==
  CASE kind = "deployment"   -> DeploymentCategory
    [] kind = "project"      -> {"cost"}
    [] kind = "security"     -> {"security"}
    [] kind = "platform"     -> {"api_latency", "error_rate"}
    [] kind = "optimization" -> {"resource_optimization"}
    [] OTHER                 -> {kind}

\* Categories whose active alerts the unit resolves when it does not want
\* them.  The deployment, project and security loops look at every active
\* alert of the scope; the others filter on the alert type.
Clears(kind) ==
  IF kind \in {"deployment", "project", "security"} THEN Category ELSE Raises(kind)

\* The units that list the active alerts (list_active_for_...) rather than
\* ask for the first one of the type (get_active...).
Lists == {"deployment", "project", "security", "platform"}

-----------------------------------------------------------------------------
VARIABLES
  reading,   \* reading[sig]: the level an evaluation would find now
  alert,     \* the alerts table: AlertId -> row
  notes,     \* <<alert, user>> pairs with a dashboard Notification row
  settings,  \* users with a notification_settings row
  todo,      \* todo[e]: units the run of e has still to evaluate
  unit,      \* unit[e]: the unit being evaluated, or Idle
  open,      \* open[e]: e has a transaction open, seen[e] is its snapshot
  seen,      \* seen[e]: the alerts table as e's snapshot shows it
  known,     \* known[e]: settings rows as e's snapshot shows them
  sample,    \* sample[e]: the levels e has read for its unit
  left,      \* left[e]: scopes of the unit not yet swept
  plan,      \* plan[e]: conditions of the swept scope not yet handled
  adding,    \* adding[e]: alert rows flushed and not committed
  resolving, \* resolving[e]: alerts set to resolved and not committed
  ping,      \* ping[e]: <<alert, user>> deliveries dispatch() has still to do
  noting,    \* noting[e]: Notification rows added and not committed
  cut,       \* history: alerts committed in the middle of their dispatch by a
             \* run that failed before it committed their Notification rows
  request,   \* request[o]: the update operator o has read for and not written
  events     \* events so far, bounded by MaxEvents

table   == <<alert, notes, settings>>
buffers == <<adding, resolving, noting>>
local   == <<todo, unit, open, seen, known, sample, left, plan, ping>>
vars    == <<reading, table, local, buffers, cut, request, events>>

NoRow == [status |-> "absent"]
Row == [scope : Scope, type : Category \X (Level \cup {"any"}),
        sev : {"warning", "critical"},
        status : {"active", "acknowledged", "resolved"}, stamped : BOOLEAN]
Idle == <<"idle", Platform>>
NoRequest == [alert |-> Platform, to |-> "none"]
Condition == [scope : Scope, cat : Category, level : Firing]

\* One type invariant: every variable has the shape the tables and the
\* session objects of the services give it.
TypeOK ==
  /\ reading \in [Signal -> Level]
  /\ alert \in [AlertId -> Row \cup {NoRow}]
  /\ notes \in SUBSET (AlertId \X User)
  /\ settings \in SUBSET User
  /\ todo \in [Session -> SUBSET Unit]
  /\ unit \in [Session -> Unit \cup {Idle}]
  /\ open \in [Session -> BOOLEAN]
  /\ seen \in [Session -> [AlertId -> Row \cup {NoRow}]]
  /\ known \in [Session -> SUBSET User]
  /\ sample \in [Session -> [Signal -> Level]]
  /\ left \in [Session -> SUBSET Scope]
  /\ plan \in [Session -> SUBSET Condition]
  /\ adding \in [Session -> [AlertId -> Row \cup {NoRow}]]
  /\ resolving \in [Session -> SUBSET AlertId]
  /\ ping \in [Session -> SUBSET (AlertId \X User)]
  /\ noting \in [Session -> SUBSET (AlertId \X User)]
  /\ cut \subseteq AlertId
  /\ request \in [Operator -> {NoRequest} \cup
                    [alert : AlertId, to : {"acknowledged", "resolved"}]]
  /\ events \in 0..MaxEvents

-----------------------------------------------------------------------------
(* What a session sees and what its commit writes.                          *)

NoRows == [a \in AlertId |-> NoRow]

\* UPDATE alerts SET status = 'resolved', resolved_at = now
Resolved(row) ==
  IF row.status = "absent" THEN row
  ELSE [row EXCEPT !.status = "resolved", !.stamped = TRUE]

\* Mutant of Over: the session writes back every row it has read.
OverWithWhatWasRead(table_, e) ==
  [a \in AlertId |->
     LET row == IF adding[e][a] # NoRow THEN adding[e][a]
                ELSE IF seen[e][a] # NoRow THEN seen[e][a] ELSE table_[a]
     IN  IF a \in resolving[e] THEN Resolved(row) ELSE row]

\* A table with the pending writes of e over it.
Over(table_, e) ==
  [a \in AlertId |->
     LET row == IF adding[e][a] # NoRow THEN adding[e][a] ELSE table_[a]
     IN  IF a \in resolving[e] THEN Resolved(row) ELSE row]

View(e) == Over(seen[e], e)

\* The active alerts of a scope in a table: what get_active and list_active
\* select.  Acknowledged rows are not among them.
ActiveIn(table_, s) ==
  {a \in AlertId : table_[a].status = "active" /\ table_[a].scope = s}

\* What the evaluation of scope s wants: the conditions of its sampled levels.
Desired(e, s) ==
  {[scope |-> s, cat |-> c, level |-> sample[e][<<s, c>>]] :
     c \in {c \in Raises(unit[e][1]) :
              <<s, c>> \in Signal /\ sample[e][<<s, c>>] \in Firing}}

TypeOf(cond) == AlertType(cond.cat, cond.level)

\* Mutant of Scopes: a lookup that returned None counts as no failure.
ScopesOfUnknownToo(u, levels, table_) ==
  CASE u[1] = "security" ->
         {s \in User : \/ /\ <<s, "security">> \in Signal
                          /\ levels[<<s, "security">>] # "clear"
                       \/ \E a \in ActiveIn(table_, s) :
                             table_[a].type[1] = "security"}
    [] OTHER -> {u[2]}

\* The scopes a unit evaluates.  Security visits the users with a failed login
\* in the window and those with an active security alert; a cluster lookup
\* that returned None skips the unit.
Scopes(u, levels, table_) ==
  CASE u[1] = "security" ->
         {s \in User : \/ /\ <<s, "security">> \in Signal
                          /\ levels[<<s, "security">>] # "clear"
                       \/ \E a \in ActiveIn(table_, s) :
                             table_[a].type[1] = "security"}
    [] u[1] \in ClusterCategory ->
         IF /\ <<Platform, u[1]>> \in Signal
            /\ levels[<<Platform, u[1]>>] # "unknown"
         THEN {Platform} ELSE {}
    [] OTHER -> {u[2]}

Spend == events < MaxEvents /\ events' = events + 1

-----------------------------------------------------------------------------
Init ==
  /\ reading = [sig \in Signal |-> "clear"]
  /\ alert = NoRows
  /\ notes = {}
  /\ settings = InitSettings
  /\ todo = [e \in Session |-> {}]
  /\ unit = [e \in Session |-> Idle]
  /\ open = [e \in Session |-> FALSE]
  /\ seen = [e \in Session |-> NoRows]
  /\ known = [e \in Session |-> {}]
  /\ sample = [e \in Session |-> [sig \in Signal |-> "clear"]]
  /\ left = [e \in Session |-> {}]
  /\ plan = [e \in Session |-> {}]
  /\ adding = [e \in Session |-> NoRows]
  /\ resolving = [e \in Session |-> {}]
  /\ ping = [e \in Session |-> {}]
  /\ noting = [e \in Session |-> {}]
  /\ cut = {}
  /\ request = [o \in Operator |-> NoRequest]
  /\ events = 0

\* The measured system moves: usage, forecasts, spend, logins, cluster state.
Change(sig) ==
  /\ Spend
  /\ \E level \in LevelsOf(sig[2]) \ {reading[sig]} :
       reading' = [reading EXCEPT ![sig] = level]
  /\ UNCHANGED <<table, local, buffers, cut, request>>

-----------------------------------------------------------------------------
(* One evaluation run.                                                      *)

\* A cluster unit whose lookup returned None reads and writes no table.
Queries(u, levels) ==
  u[1] \in ClusterCategory => Scopes(u, levels, NoRows) # {}

\* The next unit of the run of e (a new run when none is left): its first
\* query opens the transaction, and the levels are read.
Begin(e, u) ==
  LET queue == IF todo[e] = {} THEN Units(e) ELSE todo[e] IN
  /\ unit[e] = Idle
  /\ u \in FirstOf(queue)
  /\ todo' = [todo EXCEPT ![e] = queue \ {u}]
  /\ unit' = [unit EXCEPT ![e] = u]
  /\ open' = [open EXCEPT ![e] = open[e] \/ Queries(u, reading)]
  /\ seen' = [seen EXCEPT ![e] = IF open[e] THEN seen[e] ELSE alert]
  /\ known' = [known EXCEPT ![e] = IF open[e] THEN known[e] ELSE settings]
  /\ sample' = [sample EXCEPT ![e] = reading]
  /\ left' = [left EXCEPT ![e] = Scopes(u, reading, seen'[e])]
  /\ IF e \in Optimizer THEN Spend ELSE UNCHANGED events
  /\ UNCHANGED <<reading, table, plan, ping, buffers, cut, request>>

\* Mutant of Stale: an alert counts as wanted when its category still is,
\* whatever the tier.
StaleByCategory(e, s) ==
  {a \in ActiveIn(View(e), s) :
     /\ View(e)[a].type[1] \in Clears(unit[e][1])
     /\ View(e)[a].type[1] \notin {cond.cat : cond \in Desired(e, s)}}

\* The active alerts of scope s whose condition has cleared.
Stale(e, s) ==
  {a \in ActiveIn(View(e), s) :
     /\ View(e)[a].type[1] \in Clears(unit[e][1])
     /\ View(e)[a].type \notin {TypeOf(cond) : cond \in Desired(e, s)}}

\* "Resolve alerts whose triggering condition has cleared": all of them where
\* the code lists the active alerts, one where it asks for the first.
Sweep(e, s) ==
  /\ s \in left[e] /\ plan[e] = {} /\ ping[e] = {}
  /\ left' = [left EXCEPT ![e] = @ \ {s}]
  /\ plan' = [plan EXCEPT ![e] = Desired(e, s)]
  /\ \/ /\ unit[e][1] \in Lists \/ Stale(e, s) = {}
        /\ resolving' = [resolving EXCEPT ![e] = @ \cup Stale(e, s)]
     \/ /\ unit[e][1] \notin Lists
        /\ \E a \in Stale(e, s) :
             resolving' = [resolving EXCEPT ![e] = @ \cup {a}]
  /\ UNCHANGED <<reading, table, todo, unit, open, seen, known, sample,
                 adding, ping, noting, cut, request, events>>

\* Mutant of Existing: the lookup of the active alert is dropped.
NothingExisting(e, cond) == {}

\* The active alerts of the type a condition wants, in e's view.
Existing(e, cond) ==
  {a \in ActiveIn(View(e), cond.scope) : View(e)[a].type = TypeOf(cond)}

\* "Already alerting at the same severity - no-op."
Keep(e, cond) ==
  /\ cond \in plan[e] /\ ping[e] = {}
  /\ \E a \in Existing(e, cond) : View(e)[a].sev = Severity(cond.level)
  /\ plan' = [plan EXCEPT ![e] = @ \ {cond}]
  /\ UNCHANGED <<reading, table, todo, unit, open, seen, known, sample, left,
                 ping, buffers, cut, request, events>>

Unused(a) == alert[a] = NoRow /\ \A e \in Session : adding[e][a] = NoRow

\* The id of the next row.  The key of a row that was rolled back may be given
\* again, when no row and no session refers to it any more.
NextId(a) == Unused(a) /\ \A b \in AlertId : b < a => ~Unused(b)

\* No alert of the type yet, or one of another severity, which is resolved:
\* add a row, flush it (it gets its id) and dispatch it to its recipients.
Raise(e, cond, a) ==
  /\ cond \in plan[e] /\ ping[e] = {}
  /\ NextId(a)
  /\ \/ /\ Existing(e, cond) = {}
        /\ UNCHANGED resolving
     \/ \E old \in Existing(e, cond) :
          /\ View(e)[old].sev # Severity(cond.level)
          /\ resolving' = [resolving EXCEPT ![e] = @ \cup {old}]
  /\ plan' = [plan EXCEPT ![e] = @ \ {cond}]
  /\ adding' = [adding EXCEPT ![e][a] =
                  [scope |-> cond.scope, type |-> TypeOf(cond),
                   sev |-> Severity(cond.level),
                   status |-> "active", stamped |-> FALSE]]
  /\ ping' = [ping EXCEPT ![e] = {a} \X Recipients[cond.scope]]
  /\ UNCHANGED <<reading, table, todo, unit, open, seen, known, sample, left,
                 noting, cut, request, events>>

\* dispatch() for a recipient whose settings row the session sees: the
\* dashboard row is added to the transaction.
Deliver(e, p) ==
  /\ p \in ping[e] /\ p[2] \in known[e]
  /\ ping' = [ping EXCEPT ![e] = @ \ {p}]
  /\ noting' = [noting EXCEPT ![e] = @ \cup {p}]
  /\ UNCHANGED <<reading, table, todo, unit, open, seen, known, sample, left,
                 plan, adding, resolving, cut, request, events>>

\* Mutant of Flushed: the dashboard rows are left to a later commit.
FlushedWithoutNotes(e) ==
  /\ alert' = Over(alert, e)
  /\ notes' = notes
  /\ adding' = [adding EXCEPT ![e] = NoRows]
  /\ resolving' = [resolving EXCEPT ![e] = {}]

\* The writes of e reach the tables.
Flushed(e) ==
  /\ alert' = Over(alert, e)
  /\ notes' = notes \cup noting[e]
  /\ adding' = [adding EXCEPT ![e] = NoRows]
  /\ resolving' = [resolving EXCEPT ![e] = {}]

\* dispatch() for a recipient without one: get_or_create() inserts the row
\* through BaseRepository.create, which commits the whole session, and only
\* then is the dashboard row added.
DeliverFirst(e, p) ==
  /\ p \in ping[e] /\ p[2] \notin known[e] /\ p[2] \notin settings
  /\ Flushed(e)
  /\ settings' = settings \cup {p[2]}
  /\ noting' = [noting EXCEPT ![e] = {p}]
  /\ ping' = [ping EXCEPT ![e] = @ \ {p}]
  /\ seen' = [seen EXCEPT ![e] = alert']
  /\ known' = [known EXCEPT ![e] = settings']
  /\ UNCHANGED <<reading, todo, unit, open, sample, left, plan, cut, request, events>>

\* The unit is done: self.db.commit().  A cluster unit that wrote nothing does
\* not commit, and its snapshot stands for the next unit of the run; so does
\* the optimization unit, unless the recommendations of the next deployment,
\* which are evaluated before its own unit, commit.
Commit(e) ==
  LET silent == /\ unit[e][1] \in ClusterCategory \cup {"optimization"}
                /\ adding[e] = NoRows /\ resolving[e] = {} /\ noting[e] = {}
  IN
  /\ unit[e] # Idle /\ left[e] = {} /\ plan[e] = {} /\ ping[e] = {}
  /\ Flushed(e)
  /\ noting' = [noting EXCEPT ![e] = {}]
  /\ unit' = [unit EXCEPT ![e] = Idle]
  /\ \/ open' = [open EXCEPT ![e] = open[e] /\ silent /\ todo[e] # {}]
     \/ unit[e][1] = "optimization" /\ open' = [open EXCEPT ![e] = FALSE]
  /\ UNCHANGED <<reading, settings, todo, seen, known, sample, left, plan, ping,
                 cut, request, events>>

\* Mutant of Fail: the session is used again without a rollback, and what it
\* had added is written by its next commit.
FailWithoutRollback(e) ==
  /\ todo' = [todo EXCEPT ![e] = {}]
  /\ unit' = [unit EXCEPT ![e] = Idle]
  /\ open' = [open EXCEPT ![e] = FALSE]
  /\ left' = [left EXCEPT ![e] = {}]
  /\ plan' = [plan EXCEPT ![e] = {}]
  /\ ping' = [ping EXCEPT ![e] = {}]
  /\ UNCHANGED <<reading, table, seen, known, sample, cut, request, adding,
                 resolving, noting>>

\* The recipients of alert a that e has still to write a Notification row for.
Owed(e, a) == {u \in User : <<a, u>> \in ping[e] \cup noting[e]}

\* The run ends early and its open transaction is rolled back.
Fail(e) ==
  /\ todo' = [todo EXCEPT ![e] = {}]
  /\ unit' = [unit EXCEPT ![e] = Idle]
  /\ open' = [open EXCEPT ![e] = FALSE]
  /\ left' = [left EXCEPT ![e] = {}]
  /\ plan' = [plan EXCEPT ![e] = {}]
  /\ adding' = [adding EXCEPT ![e] = NoRows]
  /\ resolving' = [resolving EXCEPT ![e] = {}]
  /\ ping' = [ping EXCEPT ![e] = {}]
  /\ noting' = [noting EXCEPT ![e] = {}]
  /\ cut' = cut \cup {a \in AlertId : alert[a] # NoRow /\ Owed(e, a) # {}}
  /\ UNCHANGED <<reading, table, seen, known, sample, request>>

\* Another session inserted the recipient's settings row after e's snapshot:
\* the INSERT violates unique(user_id) and the exception ends the run.
DeliverConflict(e, p) ==
  /\ p \in ping[e] /\ p[2] \notin known[e] /\ p[2] \in settings
  /\ Fail(e)
  /\ UNCHANGED events

\* A user opens the notification settings page for the first time.
OpenSettings(u) ==
  /\ u \notin settings
  /\ settings' = settings \cup {u}
  /\ UNCHANGED <<reading, alert, notes, local, buffers, cut, request, events>>

\* An exception or the end of the process in the middle of a unit.
Abort(e) ==
  /\ unit[e] # Idle
  /\ Spend
  /\ Fail(e)

-----------------------------------------------------------------------------
(* AlertService.update_status: the read with its check, then the write.     *)

Allowed(status) ==
  CASE status = "active"       -> {"acknowledged", "resolved"}
    [] status = "acknowledged" -> {"resolved"}
    [] OTHER                   -> {}

RequestUpdate(o, a, to) ==
  /\ request[o] = NoRequest
  /\ to \in Allowed(alert[a].status)
  /\ Spend
  /\ request' = [request EXCEPT ![o] = [alert |-> a, to |-> to]]
  /\ UNCHANGED <<reading, table, local, buffers, cut>>

WriteUpdate(o) ==
  LET a == request[o].alert
      to == request[o].to
  IN
  /\ request[o] # NoRequest
  /\ alert' = [alert EXCEPT ![a].status = to,
                            ![a].stamped = @ \/ (to = "resolved")]
  /\ request' = [request EXCEPT ![o] = NoRequest]
  /\ UNCHANGED <<reading, notes, settings, local, buffers, cut, events>>

-----------------------------------------------------------------------------
Step(e) ==
  \/ \E u \in Unit : Begin(e, u)
  \/ \E s \in Scope : Sweep(e, s)
  \/ \E cond \in plan[e] : Keep(e, cond)
  \/ \E cond \in plan[e], a \in AlertId : Raise(e, cond, a)
  \/ \E p \in ping[e] : Deliver(e, p)
  \/ \E p \in ping[e] : DeliverFirst(e, p)
  \/ \E p \in ping[e] : DeliverConflict(e, p)
  \/ Commit(e)

Next ==
  \/ \E sig \in Signal : Change(sig)
  \/ \E e \in Session : Step(e)
  \/ \E e \in Session : Abort(e)
  \/ \E u \in User : OpenSettings(u)
  \/ \E o \in Operator, a \in AlertId, to \in {"acknowledged", "resolved"} :
       RequestUpdate(o, a, to)
  \/ \E o \in Operator : WriteUpdate(o)

Spec == Init /\ [][Next]_vars

\* The scheduler runs its jobs for ever and a request that was accepted is
\* answered; nothing obliges telemetry to move, a run to fail or an operator
\* to act.
Fairness ==
  /\ \A e \in Session : WF_vars(Step(e))
  /\ \A o \in Operator : WF_vars(WriteUpdate(o))

FairSpec == Spec /\ Fairness

-----------------------------------------------------------------------------
(* Properties.                                                              *)

\* A scope never shows two active alerts of one category: neither the same
\* alert twice ("no duplicate alerts while a condition persists") nor two
\* tiers at once (cpu_high and cpu_saturated), however evaluation, dispatch,
\* operators and failed runs interleave.
OneAlertPerCategory ==
  \A a, b \in AlertId :
    /\ alert[a].status = "active" /\ alert[b].status = "active"
    /\ alert[a].scope = alert[b].scope
    /\ alert[a].type[1] = alert[b].type[1]
    => a = b

\* An alert in the table has a dashboard row for each of its recipients, or the
\* session that raised it is still to write that row: whoever has a settings
\* row or not, and whichever commit writes what.  The one exception are the
\* alerts that get_or_create committed in the middle of their dispatch and
\* whose run failed before it ended the unit.
InboxComplete ==
  \A a \in AlertId : alert[a] # NoRow /\ a \notin cut =>
    \A u \in Recipients[alert[a].scope] :
      <<a, u>> \in notes \/ \E e \in Session : u \in Owed(e, a)

\* "Dashboard notifications are always recorded regardless of any preference
\* below": when no session is at work, every alert in the table is in the inbox
\* of every recipient.
AlwaysRecorded ==
  (\A e \in Session : unit[e] = Idle) =>
    \A a \in AlertId : alert[a] # NoRow =>
      \A u \in Recipients[alert[a].scope] : <<a, u>> \in notes

\* A dashboard row never refers to an alert that is not in the table, though
\* get_or_create commits in the middle of a dispatch and runs may fail there.
NoOrphanNotification == \A n \in notes : alert[n[1]] # NoRow

\* Whatever overwrites whatever, an alert that stopped being active never
\* becomes active again, no alert row disappears, and what it was raised for
\* does not change.
NeverReactivated ==
  [][\A a \in AlertId : alert[a] # NoRow =>
       /\ alert'[a].status = "active" => alert[a].status = "active"
       /\ alert'[a] = [alert[a] EXCEPT !.status = alert'[a].status,
                                       !.stamped = alert'[a].stamped]]_vars

\* A resolved alert has its resolved_at, whichever of the evaluator and the
\* operator wrote the row last.
ResolvedIsStamped ==
  \A a \in AlertId : alert[a].status = "resolved" => alert[a].stamped

\* A cluster lookup that returned None is never treated as healthy: no session
\* is about to resolve a node or container failure it could not look up.  (The
\* lookups of Prometheus are not skipped, and their alerts do get resolved.)
UnknownIsSkipped ==
  \A e \in Session : \A a \in resolving[e] :
    LET sig == <<View(e)[a].scope, View(e)[a].type[1]>> IN
    sig \in Signal /\ sig[2] \in ClusterCategory => sample[e][sig] # "unknown"

\* What the alerts of a signal show, and what its level asks for.
Shown(sig) ==
  {<<alert[a].type, alert[a].sev>> :
     a \in {a \in ActiveIn(alert, sig[1]) : alert[a].type[1] = sig[2]}}
Wanted(sig) ==
  IF reading[sig] \in Firing
  THEN {<<AlertType(sig[2], reading[sig]), Severity(reading[sig])>>} ELSE {}

\* When levels and operators come to rest, the active alerts come to be
\* exactly what the levels ask for, and stay so: nothing missed, nothing left
\* over from a failed run, a lost race or a premature resolve.  A cluster that
\* cannot be read keeps whatever alert it has; a latency or an error rate that
\* Prometheus does not answer for comes to show no alert, as if it were clear.
Converges ==
  <>[](\A sig \in Signal :
         \/ sig[2] \in ClusterCategory /\ reading[sig] = "unknown"
         \/ Shown(sig) = Wanted(sig))
=============================================================================
