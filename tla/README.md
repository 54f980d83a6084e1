# A TLA+ verification project for the cloud AI platform

The platform is a FastAPI backend over MySQL with a React client, a browser
extension and five background jobs. Most of its handlers are short, and a unit
test exercises each of them alone. What tests hardly reach is what happens when
the jobs, the on-demand requests and the users meet in the database, when a
cloud provider answers late, twice or not at all, and when the awaits of a
JavaScript client run through each other. This project models that part of the
code, checks it with TLC and proves the most important results with TLAPS.

## 1. The system

### Components

| Component | State it keeps | Operations | Hard behaviour | Modelled in |
|---|---|---|---|---|
| Alert evaluation (`alert_evaluation_service.py`) | `alerts` rows; `notifications` through dispatch | `evaluate_all`: one unit per deployment and project, then security, platform and cluster | two sessions at once, snapshots, failures between units, the commit inside dispatch | `AlertEvaluation` |
| Alert lifecycle (`alert_service.py`) | the status of an alert | `update_status` | check and write are apart | `AlertEvaluation` |
| Notification dispatch (`notifications/dispatcher.py`) | `notifications`, `notification_settings` | `dispatch`, `get_or_create` | commits its caller's transaction | `AlertEvaluation` (the inbox) |
| Optimization (`optimization_service.py`, `recommendation_engine.py`) | `optimization_recommendations`, the replicas and limits it applies | `evaluate_all`, `update_status` | cooldown, auto-apply, users acting during a run | `OptimizationRecommendations` |
| Cloud accounts (`cloud_provider_account_service.py`) | credentials, region, `credentials_validated`, `connection_status` | create, update, delete, validate, select region | a live call between a read and a write | `CloudAccounts` |
| Region sync (`cloud_region_sync_service.py`) | `available_regions` | `sync_account`, `sync_all_regions` | a sweep over accounts, an alert after the commit | `CloudAccounts` |
| Resource discovery (`cloud_resource_discovery_service.py`) | `cloud_resources`, `cloud_resource_metrics` | `discover_account`, `discover_all` | passes of many commits beside each other | `ResourceDiscovery` |
| Provider adapters (`integrations/providers/*`) | none | list, test, regions, deploy, destroy | retries, lost answers, pages, exceptions that escape | `ProviderAdapters`, `ProviderCalls` |
| Inventory and provisioning (`cloud_resource_inventory_service.py`, `cloud_provisioning_service.py`) | the provider's resources, `audit_logs` | list, deploy, destroy | a failed region, a crash before the audit row | `ProviderCalls` |
| Metrics sync and links (`cloud_sync_service.py`, `deployment_service.py`, `cloud_account_timezone_service.py`) | `resource_usage`, the links of `deployments` | `sync_deployment`, `sync_all`, create, update, delete | rows that go while they are synced, updates of one row at once | `MonitoringAdapters`, `MetricsSync` |
| Cloud costs (`cloud_cost_service.py`) | `cloud_costs` | `ingest`, `sync_cloud_costs` | check then insert, a commit for each row | `CostSync` |
| Browser extension (`service-worker.ts`, `auth.ts`) | tokens, ids already announced, badge | `poll`, log-in, log-out, settings | overlapping polls, suspension at any await | `ExtensionWorker` |
| Web client session (`httpClient.ts`, `AuthContext.tsx`) | two tokens that all tabs share | request, refresh, log-in, log-out | requests that share a refresh, tabs that do not | `ClientSession` |
| Authentication (`auth_service.py`) | users, token hashes | log-in, refresh, (de)activation | | as the server of the two clients |
| Scheduler (`scheduler.py` and the `register_*` modules) | five jobs | start, shutdown | a job never overlaps itself, but meets every request | as fairness and as sessions |

The jobs: `alert_evaluation` (5 min), `optimization_evaluation` (60 min),
`cloud_metrics_sync` (15 min), `cloud_region_sync` (24 h),
`cloud_resource_discovery` (60 s). Each is registered with `max_instances=1`
and `coalesce=True`, opens its own session, and logs whatever exception ends
its run.

### Interactions

* All components meet in one MySQL database. `SessionLocal` has
  `autocommit=False, autoflush=False`; InnoDB's default isolation is REPEATABLE
  READ. A session reads the snapshot of its first query until it commits. An
  UPDATE applies to the current row and writes only the columns whose value
  changed. `BaseRepository.create` and `delete` commit whatever the session
  holds.
* The alert engine, the optimization engine and the region sync all call
  `dispatch`, which may commit their transaction.
* The alert engine resolves alerts that the optimization engine created.
* Discovery, region sync and metrics sync read the account row that users
  update, and call the provider in between.
* Metrics and cost sync, provisioning and inventory call the provider through the
  adapters and write one row at a time.
* The tabs of the web client share local storage and nothing else; the worker
  and the popup of the extension share `chrome.storage.local`. Both clients meet
  the backend through access and refresh tokens only.

### What makes each part correct

* Alerts: at most one alert for each condition of each owner; a cleared
  condition's alert is resolved in the end; a cluster lookup that failed changes
  nothing; an alert's inbox rows are as durable as the alert, but for the commit
  inside dispatch; status only moves forward.
* Optimization: a run recommends no type while one of it is pending or cooling
  down, however old its reads are; what has cleared is dismissed; what is applied
  comes to rest.
* Cloud accounts: no region appears in silence; credentials are trusted only
  after a live call with them; sweeps repair what overlapping sessions leave
  behind.
* Discovery: the rows that are active are the resources that exist; a failed
  listing removes nothing; one failing account does not stop the others.
* Providers: what is on record is true, nothing is created twice, and a listing
  is complete in spite of pages and retries.
* Metrics: only an owner's consent lends credentials to a deployment; one
  failure does not end the sweep.
* Costs: no charge is billed twice, what is stored is final, and what was read
  is stored.
* Clients: who logs out stays logged out, who does not stays logged in; no
  alert is taken for seen that was not announced.

## 2. Modules

| Module | Kind | Contents |
|---|---|---|
| `AlertEvaluation` | component | the alert engine, dispatch's inbox part, the optimization job's alert, operators |
| `AlertBoard` | abstract | what the alert engine promises a dashboard |
| `AlertBoardRefinement` | composition | the refinement mapping |
| `CloudInventory` | names | the regions, resource types and resources that the next three are about |
| `ResourceDiscovery` | component | discovery passes, the account rows they read, the provider |
| `OptimizationRecommendations` | component | the engine's arithmetic, runs, operators, auto-apply |
| `CloudAccounts` | component | owners, validation, region sync |
| `ProviderAdapters` | tables | seven adapters: what each needs, retries, catches, lists |
| `ProviderCalls` | component | requests through an adapter, provisioning and its audit log |
| `MonitoringAdapters` | tables | the four metric fetchers |
| `MetricsSync` | component | linked deployments, the sync job and its requests |
| `CostSync` | component | billing rows, cost fetchers, syncs month by month |
| `ExtensionWorker` | component | the polls of the extension, await by await |
| `ClientSession` | component | tabs, requests, the refresh they share |
| `MC...` | model checking | instances of each |
| `AlertEvaluationProofs`, `ResourceDiscoveryProofs`, `OptimizationProofs`, `CloudAccountsProofs`, `MetricsSyncProofs`, `CostSyncProofs`, `ExtensionWorkerProofs`, `ClientSessionProofs` | proofs | section 4 |

In the modules a definition that is introduced "as a mutant" or "mutant of" is
the definition below it with a plausible bug in it. None is part of a
specification: each exists so that replacing the original by it can be seen to
violate a property.

All database components share one model of a session: a transaction reads the
snapshot its first query took, an UPDATE writes the columns that differ from the
row *as read*, a foreign or unique key may refuse a write, and a commit opens a
new snapshot. `view`, `seen` or `plan` hold what a session has read.

### AlertEvaluation

A *session* is one SQLAlchemy session: the scheduled job, a request to
`POST /alerts/evaluate` (a second `Evaluator`) or a run of the optimization
service's alert sync (an `Optimizer`). Its snapshot is `seen`, what it has
flushed and not committed is `adding`, `resolving` and `noting`, and `View` is
the one over the other. A run is a queue of *units* in the order of
`evaluate_all`; a unit is one transaction.

| Action | Code |
|---|---|
| `Begin` | the first query of a unit opens the transaction (`Queries`: a cluster unit whose lookup returned `None` asks nothing); the levels are measured |
| `Sweep` | the loop that resolves the alerts whose condition has cleared |
| `Keep`, `Raise` | the loop over the desired conditions: already alerting, or resolve the one of another severity, add, flush, `dispatch` |
| `Deliver` | `dispatch` for one recipient: the dashboard row |
| `DeliverFirst` | the same when `get_or_create` inserts the settings row, and so commits everything |
| `DeliverConflict` | the insert violates the unique key of a row another session created |
| `Commit` | `self.db.commit()`, with the cluster and optimization units that need not commit when they wrote nothing |
| `Abort` | an exception, or the end of the process; the job logs it and the transaction is rolled back |
| `RequestUpdate`, `WriteUpdate` | `AlertService.update_status`: the read with its check, the write |
| `OpenSettings` | a user's first visit to the settings page |
| `Change` | external: what usage, forecasts, spend, logins and the cluster say |

What is measured is abstracted to a *level* of a signal (an owner and a
category). The categories keep what differs in the code: which are tiered (the
tier is part of the alert type), which may be unknown, which units resolve
alerts of categories they do not raise (`Clears`), and which unit lists the
active alerts and which asks for the first one (`Lists`). Unknown may be what the
cluster says, which is then skipped, and what Prometheus says, which the code
takes for a cleared condition. `cut` is a history variable: the alerts that
`get_or_create` had committed when the run that raised them failed.

The model is looser than the code in two places: the conditions of a unit are
handled in any order (the code has a fixed one), and an operator's write may
come while the evaluator holds the row lock (InnoDB would let it wait until the
commit; the final rows are those of the other order). It is coarser in two: a
unit's levels and its snapshot are taken in one step, where the code has the
queries of one unit between them, and an alert takes the lowest id that is free
in the table and in all buffers, where MySQL's counter leaves gaps.

### AlertBoard and the refinement

`AlertBoard` has one place for each signal, blank or showing one alert. What is
put there is the level found when the signal was last looked at; anybody may
take an alert down, nobody may invent one. `AlertBoardRefinement` maps `look`
to the sample of the session that raises the signal's alerts and `board` to
what the table shows.

### ResourceDiscovery

A *pass* is one `discover_account`: for each region and category, the live
call, an upsert and a commit for each resource it listed, then the flip of the
rows it did not list. The job's session sweeps over all accounts, a request
makes one pass. `view` is the session's snapshot, opened anew by every commit
(rows are expired and refreshed), so a pass reads other passes' rows in its
middle. `meanwhile` is a history variable: what other sessions have upserted in
the scope of a pass since its listing.

| Action | Code |
|---|---|
| `StartSweep`, `Visit` | `discover_all`: the query, the loop over accounts |
| `StartRequest` | `discover_account` from `POST .../discover` or after a validation |
| `List`, `ListFails` | the live call of one scope (region and category) |
| `Upsert` | `CloudResourceRepository.upsert`: INSERT or UPDATE, commit, refresh |
| `Collect` | `_collect_ec2_metrics` |
| `Flip` | `mark_inactive_except` |
| `Finish` | the outcome written to the account |
| `Stumble` | any other exception of a live call |
| `Broken`, `NotThere` | a write the database refuses, an account that was deleted: the handler of `discover_all` raises as well, and the sweep ends |
| `Select`, `Switch`, `Delete` | what owners do to the account |
| `Evolve` | external: resources are created and terminated in the provider |

Accounts start connected and validated, with all regions selected, which is what
`create` and a validation leave; `Select` and `Switch` lead to the other states.
A resource is running or gone: a terminated instance the provider still lists
for a while counts as running until it is not listed any more. Scopes are
listed in any order (the code has a fixed one). A change of an account's
provider during a pass is left out, and with it ids that mean something else
in another provider.

### OptimizationRecommendations

One deployment: what is recommended for one does not depend on another. A run
reads everything in one snapshot and writes everything at its commit, so it has
two steps. Sessions may overlap: `Job` are those of the scheduler, and `meanwhile`
is a history variable that says which types another run has created since a run
read. Status by status a recommendation is a row of a type and a slot; a
row whose cooldown is over is no different from none.

| Action | Code |
|---|---|
| `Evaluate` | `_evaluate_deployment`: the rules of `recommendation_engine.evaluate`, what to dismiss, to create, and to apply |
| `Skip` | no usage rows in the window |
| `Commit`, `Fail` | the commit, or the exception the job logs |
| `Ask`, `Answer` | `update_status`: the check, the write |
| `CoolDown` | time, past `OPTIMIZATION_RECOMMENDATION_COOLDOWN_MINUTES` |
| `Resize`, `Measure` | the owner's update of the replicas; new usage and forecasts |

The rules keep their numbers (thresholds, ceilings, rounding), as the question
whether auto-apply comes to rest depends on them. Usage is in whole per cents and
megabytes, limits in tenths of a megabyte, to which the engine rounds.

### CloudAccounts

A *session* is a run of the region job, or a request that validates or
refreshes one account. What the provider answers is fixed at `Visit` or
`StartValidation`: nothing the call depends on comes between the read and the
call. An edit is a request that may give any of the fields at once (`Change`). A
provider lists its regions for accepted credentials; AWS is asked at the endpoint
of the selected region, which has to exist (`Regional`).

| Action | Code |
|---|---|
| `Create`, `Delete` | the owner's requests |
| `BeginEdit`, `EndEdit` | `update`, `update_selected_region`: read and check, write |
| `StartValidation`, `CommitValidation` | `validate_credentials` around its live call, and the sync that follows |
| `StartSweep`, `StartRefresh`, `Visit`, `CallFails` | `sync_all_regions`, `sync_account` up to the answer |
| `CommitListing`, `Reload`, `Announce` | the new baseline, `db.refresh`, `_notify_new_regions` |
| `Finish`, `Crash` | the end of a session |
| `Evolve` | external: regions open and close, credentials are issued and revoked |

Validation with a refused answer raises and changes nothing, and is no step.

### ProviderAdapters and ProviderCalls

`ProviderAdapters` is the registry as a table. For every adapter it says which
credentials it wants, which failures of a call it tries again, which it turns
into an application error (all others escape as the SDK's own exception), how
each category is listed (all pages or the first, one region or the whole
account, tried again or not) and what a deployment must specify. `ProviderCalls`
serves a request with one of them.

| Action | Code |
|---|---|
| `Serve` | the service's checks, then the first call; a listing of all regions goes on region by region |
| `Fetch` | a page of a listing |
| `Reply` | the answer to a regions or test request, which AWS precedes with an STS call and most follow with an identity lookup |
| `Fail` | a call fails: another attempt from the first page, a skipped region, an error, or an exception that escapes |
| `Create`, `Destroy` | the provider acts; its response may be lost; Azure creates an interface before the machine |
| `Audit` | `_audit`, in a transaction of its own |
| `Return`, `Crash` | the answer; the death of the process |
| `Elsewhere` | external: somebody creates or destroys a resource at the console, or another request does |

Retries inside the SDKs (boto3, azure-core) are outside the model. The
definitions of a specification that other modules have as well (`CallsSpec`,
`CallsTypeOK`) have names of their own here, so that one module can extend
`ResourceDiscovery` and `ProviderCalls` and prove about both.

### MonitoringAdapters and MetricsSync

`MonitoringAdapters` says which queries a fetcher sends one after the other,
which failures it repeats, which series decide whether there is a sample and
which columns a sample measures. `MetricsSync` has the deployments with their
three links (account, resource, time zone), their editors, and the sessions of
the sync.

| Action | Code |
|---|---|
| `StartSweep`, `StartRequest` | `list_cloud_linked`; `POST /deployments/{id}/sync-cloud-metrics` |
| `Visit` | `sync_deployment` up to the call, on rows as the transaction shows them |
| `Answer`, `Retry`, `QueryFails` | one query of the fetcher |
| `Record`, `Confirm` | the `resource_usage` row and its commit; `refresh` |
| `Finish`, `Crash` | the end of the session |
| `Ask`, `Write` | `DeploymentService.create`, `update`: ownership and time zone checks, then the write |
| `Delete`, `DeleteAccount`, `RemoveZone`, `Validate` | rows that go, with their cascades; validation |
| `Report` | external: which series have datapoints |

`crashed` is a history variable: the sessions whose last run ended in a crash, so that a
sweep cut short by one can be told from a sweep that a failed call ended.

### CostSync

An amount is the set of charges it adds up, so that "billed twice" and "left
out" can be told. Months are numbered, one of them is open. Each fetcher reads
the first page of an answer only: for AWS and Azure any part of the entries, for
DigitalOcean the items of an invoice that its first page lists (`listed`).

| Action | Code |
|---|---|
| `StartSync`, `Answer`, `CallFails` | `sync_cloud_costs` up to the fetcher's result; each fetcher's plan of calls (IBM's window is that of the day its account is found) |
| `Store` | the loop: `get_existing`, `create`, its commit and refresh |
| `Finish`, `Crash` | the end of the request |
| `Ingest`, `DeleteProject`, `ChangeAccount` | rows by hand, and what owners do meanwhile |
| `Spend`, `NextMonth`, `Issue` | external: charges, the calendar, DigitalOcean's invoices and what their first page lists |

### ExtensionWorker

One step for each `await` of `poll` and of what it calls; the polls of the
alarm, of the start of the browser and of the popup's message run through each
other. `Suspend` ends all of them and leaves what is in storage. An access token
is the number of the period in which it is valid. The popup's own requests are
not a process of their own: it stores and removes tokens (`Login`, `Logout`) and
settings.

### ClientSession

JavaScript runs to completion between two answers, so the reaction of a tab to
an answer, with all promises it resolves, is one step. A token pair is the time
it was issued. `Refused` is the interceptor's reaction to a 401 (once for each
request): it joins the refresh in flight or starts one (`Join`). `Renewed`
stores the pair and sends all who wait again; `NotRenewed` ends the session of
the tab. `Open` is a reload, `Outage` any failure that is no 401 or 403. There
is one user for each browser. `Expire` spares a token that a refresh has just
brought until the request it was brought for is answered: a token lives 30
minutes.

## 3. Runs

| Run | Instance | What it shows |
|---|---|---|
| `AlertJob` | one deployment with a tiered and an untiered category, a project's budget, the error rate that Prometheus may not answer for, one fair job, one operator, failed runs; settings rows come with the first dispatch | no alert misses its inbox rows but those `get_or_create` committed before its run failed; no reactivation; in the end the active alerts are what the levels ask for |
| `AlertShared` | a cluster signal that two users hear of, a user's logins, a deployment the optimization job also alerts about; alert job, optimization job, operator; no settings rows yet | no category shows twice although both jobs resolve what the other raised and dispatch commits half a unit; a cluster that does not answer is skipped; `AlertEvaluation` implements `AlertBoard` |
| `AlertDuplicate` | the job and an on-demand run | finding: duplicates |
| `AlertInbox` | one cluster alert for two superusers without settings rows | finding: an alert that is in nobody's inbox |
| `Discovery` | the job and a request that may overlap it, two accounts of which an owner changes and deletes one, two resources, two regions of which the region syncs have found one | what is flipped is gone or was upserted by the other pass meanwhile; a sweep is cut short by a deletion or a lost INSERT race and by nothing else; nothing is written for a deleted account; the table mirrors the provider in the end |
| `Optimization` | the job, a run on demand, an operator, no usage or one of two loads, two types that may be applied | no nagging but by a run that was overtaken; what has cleared is dismissed; auto-apply comes to rest |
| `Accounts` | one account that does not exist yet, two regions, two sets of credentials, the job, a request and an editor whose edits change several fields | regions are announced; nothing unproved is trusted but in the three cases of section 5; sweeps converge |
| `Providers` | all seven adapters, two regions, two categories, three resources, pages of one | every answered deploy or destroy has its audit row, and none of them is false; nothing is created twice; listings are exact |
| `MetricsSync` | two deployments, two accounts of different owners and providers, one time zone, the job, a request, an editor | consent; a sweep that goes on but for a deletion or a crash; exact samples in the end |
| `CostSync` | one account that may move between AWS, IBM and DigitalOcean, one service, two parts, two syncs, first pages that are not all | no double billing, final amounts, all that was read is stored |
| `Extension` | two alerts, pages of one, two polls | nothing is taken for seen in silence, a log-out holds, the worker catches up |
| `Client` | two tabs with two requests and one | a log-out holds, expiry ends no session, no tab shows a ghost |

Each property has a mutant: the definition that models the code replaced by
one with a plausible bug, with which TLC finds the property violated in the same
run.

### The findings

`AlertDuplicate`: the scheduled job and `POST /alerts/evaluate` find no active
alert in their snapshots and both raise one, while `docs/PHASE_5.md` promises
one alert for each type. With one session for each service the promise is
proved (`NoDuplicates`).

`AlertInbox`: `notifications/dispatcher.py:16` says "Dashboard notifications are
always recorded regardless of any preference". For a recipient without a settings
row `get_or_create` commits the alert before the notification rows are written;
when the other recipient opens the settings page meanwhile, the run fails on the
unique key, the alert stays, and no later run tells anybody. `InboxComplete` and its
theorem say that there is no other way to lose an inbox row.

### Bounds

`MaxEvents` bounds in every run, together, what the environment does: changes of
levels, loads, regions and charges, edits and deletions, failures and crashes. It
does not bound what sessions do. It is 3 where the longest interesting story needs
it: something changes, it changes again, and somebody interferes. In `MetricsSync`
a request is an event too, and two are enough for an edit under a deletion; in
`Optimization` two are enough for a load that comes back, or that changes under a
failed run. `AlertDuplicate` and `AlertInbox` have the events their counterexample
needs. `Slot` (optimization) bounds the rows of one type that are pending or
cooling down: two, because a run that is overtaken adds a second one.

Alert runs: an alert takes the lowest free id, and as all levels are clear at first,
three events raise at most three alerts, so that the three ids are never used up.
Sessions touch the rows of one owner at a time, so one deployment, project or
platform is enough; two users are needed where one alert has several recipients.

Discovery: two resources are what a wrong flip needs, one that makes the pass
commit, and one that another pass has inserted meanwhile; two accounts are what a
broken sweep needs, and `Attended` says whose owner acts, so that the other is the
one that must have its turn. One resource exists from the start (`Existing`), the
other may come. `Accounts`: `Change` lists the edits, new credentials with and
without a region among them; an edit of the provider alone needs a second provider
and is covered by the theorem only.

`Providers` serves two requests one after the other; what a second one would do
meanwhile, `Elsewhere` does. Three resources fill three pages, so that one can go
between pages and attempts. `CostSync` starts in month 3, looks two months back and
ends in month 4, so that the window moves once; with two syncs and two parts a
service has more than one charge, and rows are entered by hand for one month
(`ByHand`). The owner in `Optimization` may leave the range of 1..10 (12 replicas),
which is what auto-apply has to cope with.

Symmetry: regions and resources in `Providers`, syncs, projects and parts in
`CostSync`. Neither run checks liveness under fairness.

Deadlock is checked but for three runs: `Providers` and `CostSync` serve a
bounded number of requests and then really stop, and in `Client` everybody may
be logged out with all events used up.

### Fairness

`FairSpec` assumes weak fairness of the steps of a session, because the
scheduler starts a job again for ever and a run that is not aborted goes on, and
of a pending write of an operator or editor, because the handler that has read
the row goes on to write it. Nothing is assumed of users, of the measured
system, of providers or of failures. `Retry` in `MetricsSync` is not in the fair
part: any attempt may be the one that is answered, and a query that fails for
good is an event.
In `OptimizationRecommendations` time is fair (`CoolDown`), and only the job starts
again for ever (`Job`); a request may never come. In `ExtensionWorker`
the alarm rings again and again, and an await is answered or fails. In
`ClientSession` the notification bell of a tab polls every 30 seconds; this holds
for visible tabs, the query library pauses hidden ones.

Failures are bounded by `MaxEvents`: a job that fails on every run converges to
nothing.

## 4. Theorems

All proofs are for any values of the constants: any sets of deployments,
projects, users, signals, alert ids, sessions and operators, of accounts,
regions, categories, resources, providers and secrets, of tabs, requests and
polls, any loads, any size of a page, and any bound.

| Theorem | Statement | Assumption |
|---|---|---|
| `AlertEvaluationProofs!TypeCorrect` | `Spec => []TypeOK` | |
| `NoReactivation` | `Spec => NeverReactivated` | |
| `NoOrphans` | `Spec => []NoOrphanNotification` | |
| `ResolvedStamped` | `Spec => []ResolvedIsStamped` | |
| `InboxesComplete` | `Spec => []InboxComplete` | |
| `NoDuplicates` | `Spec => []OneAlertPerCategory` | one session for each service (`OneSessionEach`) |
| `BoardImplemented` | `Spec => ImplementsBoard` | one session for each service (`JobsOnly`) |
| `UnknownSkipped` | `Spec => []UnknownIsSkipped` | |
| `ResourceDiscoveryProofs!TypeCorrect` | `Spec => []TypeOK` | |
| `NoLeftovers` | `Spec => []NothingOfDeletedAccounts` | |
| `FlipsAreRight` | `Spec => FlippedWasGone` | |
| `SweepNeverStops` | `Spec => SweepGoesOn` | |
| `CallsTypeCorrect` | `CallsSpec => []CallsTypeOK` | |
| `AuditIsHonest` | `CallsSpec => []AuditIsTrue` | |
| `CallsAreNotRepeated` | `CallsSpec => []NothingTwice` | |
| `ListingsHold` | `CallsSpec => []ListingsAreExact` | |
| `OptimizationProofs!TypeCorrect` | `Spec => []TypeOK` | |
| `NoNagging` | `Spec => CooldownRespected` | |
| `RunsStayInBounds` | `Spec => AppliedInBounds` | |
| `CloudAccountsProofs!TypeCorrect` | `Spec => []TypeOK` | |
| `NothingUnannounced` | `Spec => []RegionsAnnounced` | |
| `NothingTrustedUnproved` | `Spec => TrustedAfterProof` | |
| `MetricsSyncProofs!TypeCorrect` | `Spec => []TypeOK` | |
| `ConsentHolds` | `Spec => []ReadWithConsent` | |
| `SweepsGoOn` | `Spec => SweepGoesOn` | |
| `CostSyncProofs!TypeCorrect` | `Spec => []TypeOK` | |
| `AmountsFinal` | `Spec => []FinalAmounts` | |
| `NotBilledTwice` | `Spec => []BilledOnce` | |
| `NothingLeftOut` | `Spec => Complete` | |
| `ExtensionWorkerProofs!TypeCorrect` | `Spec => []TypeOK` | |
| `LogoutIsFinal` | `Spec => []LogoutHolds` | |
| `NothingMissed` | `Spec => []SeenWasAnnounced` | |
| `ClientSessionProofs!TypeCorrect` | `Spec => []TypeOK` | |
| `LogoutIsFinal` | `Spec => []LogoutHolds` | |
| `ExpiryIsHarmless` | `Spec => StaysIn` | |

The two assumptions are necessary: two sessions of one service duplicate alerts
(`AlertDuplicate`). No other theorem restricts the sessions, the settings rows or
what is measured. Where the code breaks a promise, the property names the very case
(section 5) and the theorem says that there is no other.
`ClusterAssumption`, which the model makes of its constants, says that the
platform is no deployment, project or user and that node and container failures
are the platform's, as in the code.

*Alerts.* `TypeOK` is inductive only with the fact that an operator's request
names a row of the table. Rows: an id is used once (`FreshIds`), and what a
session has read of a row differs from the row only in its status, which has not
moved back (`RowInv`); so no session can write a status back to active
(`NoReactivation`) or leave a resolved row without its time (`ResolvedStamped`).
Inbox: the pairs still to deliver refer to rows that are buffered or in the table
(`PairsRefer`), and each buffered alert has all its recipients in `notes`,
`noting` or `ping` (`Announced`). What a session owes an inbox it goes on owing
until it has written it, whatever commits in between, or until it fails
(`OwedStep`), and then the alert is in `cut`. An id that another session still
notes cannot be given to a new alert, as rows are numbered past all buffers
(`InboxesComplete`). Uniqueness needs an invariant about views. `Owns` says which
session may add alerts of a category. For that session and scope, every active row
of the table is active in its view as well (`Covered`: others may take rows away
from the table, never add to what the session owns), its view has no two active
rows of a category (`ViewUnique`), and the conditions it has still to handle are
of different categories and do not meet an active row of another tier
(`PlanFits`). Every active row is in the view of the one session that owns its
category, and so the theorem follows.

*Alerts: the board.* `BoardImplemented` is the step simulation of
`AlertBoardRefinement`. What it rests on is that whatever is raised shows the
sample its session took: the conditions still to handle are those of the sample
(`PlanSampled`), and so are the rows that are buffered (`AddedSampled`). A
commit then puts on the board, for the signals it raises, what was looked at,
and uniqueness says that there is one such place for each signal; all other
steps of a session are looks, stutters, or take an alert down. The steps that
say something are the first query of a unit, which is the look, and the commits
inside dispatch (`DeliverFirst`), which place a part of what the unit raises.

*Alerts: what is unknown.* A unit that has the platform's alerts to sweep is the
platform's own, which clears latency and error rate only, or one of the cluster
that has been answered (`LeftKnown`). So no alert about the cluster that a session
is about to resolve has an unknown level in its sample (`ResolvesKnown`), and it is
a row of the table as the session has read it (`SeenStays`).

*Discovery.* `NoLeftovers` is inductive with the types, because an INSERT needs
its account and a metric its row. `FlipsAreRight` needs to know why a row that
was not listed may be taken for gone (`UnlistedAreGone`): what has a row existed
(`Existed`), so at the time of the listing it was running, and listed, or gone;
and until the flip no row of the scope becomes active but those that were listed,
or those that another pass has upserted, which are in `meanwhile`.
`SweepNeverStops`: what a session at work has read was there, so that an account or
a row that is missing was deleted since (`Honest`), and what a pass has in hand
belongs to its account (`OfPass`); a step of another session leaves both alone,
because deleted accounts do not come back and rows go with their accounts
(`Alone`, `TablesMove`). So a write that the database refuses means that the
account at work or one behind it is deleted, or that another pass has inserted the
row (`BrokenIsExcused`); nothing else ends a sweep early.

*Provider calls.* `CallInv` has four parts. Numbers: no two slots serve requests
of one number, and what was done or recorded has the number of a request that
was served. `Course`: what stands in a request fits the point it has reached;
the regions in hand, to come and over are disjoint, for which no region may have
the name of the sentinel (`RegionAssumption`). `Ledger`: before its last answer
a request has changed nothing but an interface, and from then on the outcome it
carries tells what it has done, until that is recorded; what it answers to a
deployment or a destruction, unless an exception escapes, has its row. The audit log
follows, and so does that nothing is done twice: only a request that has done nothing is
tried again. `Listing`: whatever was there throughout (`owed`) is shown, in a
region that was skipped, in one still to come, or in the one in hand, and then
read already by this attempt or on a page to come (`Accounted`, `InHand`,
`Between`). A resource that goes in between leaves `owed`; one that is there
cannot leave its region; and an attempt that starts again has forgotten its
pages but has all of them to come.

*Optimization.* `DesiredBounded` shows by arithmetic that the desired replicas
are within 1..10, whatever is measured; `TypeOK` carries that through a run and
gives `RunsStayInBounds`. `NoNagging` adds that what a run is about to create is
still unheard of or in `meanwhile` (`PlansFresh`): operators and the clock only move
rows from pending to decided and from decided to absent, so nothing but another run
could take the place, and that one leaves its mark.

*Accounts.* A region is covered if it was announced, is excused, or is in the
news of a session that has committed its listing. `CoverageInv` says that not
only the stored list but every list a session has *read* is covered. The second
part is what makes it inductive: a session announces only what is not in the
baseline it has read, however old, and the rest is covered because it is in that
baseline. What is covered never ceases to be, as only `Announce` and `Crash`
take news away. Trust: a session between the
provider's answer and its commit has read credentials that are proven, whatever
becomes of the row meanwhile (`ProofInv`). Its commit sets the flag on the row as it
is then, so what it trusts is proven unless an edit has changed the credentials since
it read them (`CommitTrusts`). An edit clears the flag when it changes the
credentials, unless it has read it as clear, while a validation set it meanwhile, or
changes the provider alone (`EditTrusts`). No other step touches what trust is about
(`TrustKept`).

*Metrics.* `TypeOK` is inductive with the fact that a session without an open
transaction has nothing to do or waits to confirm a row it has stored (`Rests`),
so that a call is always begun from rows that were read. `Granted` says of a
table that every link in it to an account was made by a request of the account's
owner. It holds of the stored rows, of the rows every open transaction shows,
however old, and of what every request is about to write (`Consent`). The step
to look at is an update that keeps the account it has read: what stays in the
row is the account of an update in between, which was granted as well
(`WriteEffect`). `SweepsGoOn`: the deployments a sweep has still to visit were
there when it started (`Awaited`), rows that are gone do not come back
(`Lasting`), and what the transaction shows as gone is gone. So a visit that
finds no row, which is what ends the sweep, finds a deployment that somebody
deleted; a query that fails ticks off one deployment, and a crash is marked.

*Costs.* The months that a sync asks for are over (`Closed`), and a month that
is over gets no further charge, and no invoice changes what its first page lists, so
what a fetcher reports for a service, and every amount stored from it, is all that
a later reading would add up (`AllFinal`). Billing once is claimed of a project
without overlapping syncs and without an edit of its account under one. Its sync
is alone (`Alone`), its account is of the provider that all rows are of
(`SameProvider`, `RowProvider`), its snapshot has every row with a charge
(`InSnapshot`), and therefore what it inserts has no row yet (`OneRowEach`). Two
rows with a charge in common would be of one service and month, so they are one.
Completeness: what the loop has passed has a row (`Kept`, `Passed`); and for IBM and
DigitalOcean, whose calls go month by month, what a first page shows is in what is
reported, or still asked for by a call to come (`Expected`). A sync that ends with nothing
left to ask and nothing left to store has stored everything.

*Extension.* A page holds no more than `PageSize` alerts because all of them but
the oldest are newer than the oldest (`PageFits`), and a period of tokens ends
only by an event. `Silent`: after a log-out that met no refresh, no poll is
refreshing and there is no refresh token to begin with. `SeenInv`: what is taken
for seen has been told; of its snapshot a poll has told all but what is still
`new`, and all of it when it saves. What is told is never untold, so that polls
do not disturb each other, and one that is cut off leaves nothing to repair.

*Client.* `Paired` says that a tab has a refresh in flight exactly if somebody
waits for it. `LogoutIsFinal`: after a log-out with nothing under way that could
store tokens no refresh starts and no log-in is sent until somebody submits one
(`Quiet`). `ExpiryIsHarmless`: as long as nothing but expiry has happened, the
user is active, no refresh token has lapsed, and a request that is sent again
carries a current token (`Sound`), so that neither a refresh nor a second
attempt can fail.

*Only model-checked.* Liveness (both `Converges`, `Mirrors`, `StaleDismissed`,
`Settles`, `Sampled`, `CatchesUp`, `NoGhosts`) is out of the prover's reach, as
would be `ENABLED`. Every other property of the runs, safety invariant, action
property or refinement, is the statement of a theorem above.

## 5. Disagreements between code and documents that no run shows

Met while modelling; the models do what the code does.

Alerts and optimization
* An acknowledged alert is raised again, as `get_active` sees only active ones.
* A Prometheus lookup that returns `None` resolves the active platform alert
  (`alert_evaluation_service.py:300-326`), where `prometheus_client.py:10` says "skip
  this evaluation". `UnknownIsSkipped` is therefore about the cluster only, and
  `Converges` says what happens: such an alert comes to show nothing.
* An acknowledgement that was read before a resolution overwrites it
  (`alert_service.py:99`, `docs/PHASE_5.md:134`).
* The deployment unit resolves the optimization alert while its recommendation
  is pending (`alert_evaluation_service.py:105`, `optimization_service.py:149`).
* `optimize_cost` is never in `desired_types`: created in one run, it is dismissed
  in the next (`optimization_service.py:209`, `docs/PHASE_6.md:28`).
* With the job and an on-demand run at once one type is recommended twice, by the
  run that the other has overtaken (`CooldownRespected` allows that only).
* A memory usage of 0, which the AWS, Azure and Google metrics sync always
  store, makes `reduce_memory` apply a limit of 0.

Accounts and discovery
* A lost INSERT race, or the deletion of an account under discovery, ends the
  whole sweep: the handler reads a row of a session that needs a rollback
  (`cloud_resource_discovery_service.py:153`, against `:133`). The deletion of a
  deployment does the same to the metrics sync (`cloud_sync_service.py:118-120`
  promises "without aborting the rest").
* `mark_inactive_except` reads after the commits of the upserts, and flips a
  resource another pass has just inserted (`cloud_resource_repository.py:67`).
  A listing that reads one page only flips what is behind it.
* After another region is selected the rows of the old one stay active.
* Credentials come to be trusted unproved, against "New credentials have never been
  proven to work" (`cloud_provider_account_service.py:85`), in three cases, which
  `TrustedAfterProof` allows: saved during a validation they are marked as validated
  (`:118`); an edit that read the account before a validation does not clear the flag
  that the validation sets; a change of the provider alone keeps it.
* AWS lists regions at the endpoint of the selected region (`aws_provider.py:149`,
  `:164`), so that an account with a region that is closed cannot learn which are open.
  The status `CREDENTIALS_EXPIRED` is never written.

Providers
* AWS's connection test says "even after retries" and tries once.
* A listing of all regions repeats account-wide buckets for each region
  (`aws_provider.py:620`), and answers an empty list for missing credentials.
* "must never fail an otherwise-successful connection test"
  (`oci_provider.py:166-168`), yet network exceptions escape.
* Azure's interface stays when its machine fails; Google's destroy assumes zone
  `{region}-a`.
* "Every attempt, successful or not, is recorded" (`cloud_provisioning_service.py:3`),
  yet an attempt that ends in an exception of the SDK or in a crash leaves no audit
  row (`:46`, `:81`). `AuditIsTrue` is about the attempts that are answered.

Metrics, links and costs
* A link cannot be cleared by an update, and a deployment that moves to another
  account keeps the old account's time zone entry (`deployment_service.py:180`).
* A Google sample of the current minute is stamped a minute ahead
  (`gcp_monitoring.py:203-207`); a droplet that reports only totals gets zeros;
  Azure read timeouts and DigitalOcean network errors escape as a 500.
* Cost rows have no account: a second account of one provider, a row by hand or
  two IBM resources of one name hide costs, and two syncs at once bill twice.
* `azure_cost_management.py`: `_column_index(...) or ...` takes index 0 for
  missing. AWS, Azure and DigitalOcean cost answers are read to their
  first page; what is behind it gets no row, and the sync ends as if complete.

Clients
* `docs/PHASE_32.md`: "The first poll after login seeds the 'already seen' set";
  `lastSyncAt` is never cleared, so only the first poll ever is quiet.
* `/auth/refresh` with any error, an outage included, removes the tokens of
  extension and client; so does any failure of `loadCurrentUser`.
* A 401 for a wrong password is taken for an expired token, refreshed and sent
  twice when tokens are stored.
* A refresh in flight at log-out stores its tokens afterwards, over those of
  another user's log-in if there was one.

## 6. Not modelled

* Out-of-band notification channels with do-not-disturb and preferences: one call
  each, whose answer is only logged. The merge of notification preferences, and
  alert thresholds of accounts: field-wise updates in which two at once lose or
  break what each alone checks; there is no promise to check beyond that.
* Projects, microservices, pods, metrics, usage and read-only listings: CRUD on one
  row with an ownership check. What they feed appears as levels, loads and
  charges, and the deletion of a project in `CostSync`.
* Registration, e-mail verification and password reset of `auth_service.py`:
  single-row handlers; log-in, refresh and deactivation are in the two clients'
  models.
* HTTP layer (routing, schemas, headers, the rate limiter library), rendering,
  the ML pipeline, manifests, migrations: data conversion or no state of their
  own.
* A change of an account's provider during a discovery pass, and retries inside
  the SDKs.

## 7. What could follow

Proofs of the board and of uniqueness for several on-demand runs, up to the
duplicates of the finding. Runs for the disagreements of section 5; one-time tokens
and alert thresholds as modules.
