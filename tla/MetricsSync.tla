----------------------------- MODULE MetricsSync -----------------------------
(***************************************************************************)
(* Deployments, the cloud account, resource and time zone each is linked   *)
(* to, and CloudSyncService: the cloud_metrics_sync job over all linked    *)
(* deployments and POST /deployments/{id}/sync-cloud-metrics for one.      *)
(*                                                                         *)
(* A session is a MySQL REPEATABLE READ transaction between two commits.   *)
(* Deleting an account removes its time zone entries and sets the links to *)
(* it NULL; an UPDATE writes the columns that differ from the row as read, *)
(* and the foreign keys refuse a reference to a row that is gone.          *)
(***************************************************************************)
EXTENDS MonitoringAdapters

CONSTANTS
  Deployment, Account, Zone, Resource,
  OwnerOf,     \* OwnerOf[a]: the user an account belongs to
  ProviderOf,  \* ProviderOf[a]: its provider
  AccountOf,   \* AccountOf[z]: the account a time zone entry belongs to
  Sweeper,     \* sessions of the cloud_metrics_sync job
  Requester,   \* sessions of sync requests
  Editor,      \* sessions of requests that create or update deployments
  UserOf,      \* UserOf[e]: the user an editor's request comes from
  MaxEvents    \* bound: requests, edits, deletions, validations, time zones,
               \* changes of what resources report, failed calls and crashes

Session == Sweeper \cup Requester
None == "none"

ASSUME BoundAssumption == MaxEvents \in Nat
ASSUME NoneAssumption == None \notin Deployment \cup Account \cup Zone \cup Resource
ASSUME TableAssumption ==
  /\ AccountOf \in [Zone -> Account]
  /\ \A a \in Account : ProviderOf[a] \in Supported \cup {"oci", "alibaba", "ibm"}

VARIABLES
  row,      \* row[d]: what the deployment is linked to, NotYet or Gone
  account,  \* account[a]: "unproven", "validated" or "deleted"
  zones,    \* the time zone entries in the table
  reports,  \* reports[x]: the series of a resource that have datapoints
  usage,    \* the resource_usage rows
  edit,     \* edit[e]: what e has checked and not yet written, or NoEdit
  view,     \* view[s]: the rows as the open transaction of s shows them
  todo,     \* todo[s]: deployments s has still to visit
  at,       \* at[s]: the deployment s is working on
  link,     \* link[s]: the account and the resource it asks for
  asked,    \* asked[s]: how many queries have been answered
  tries,    \* tries[s]: failed attempts at the next one
  got,      \* got[s]: the series that had a datapoint
  granted,  \* history: <<d, a>> linked by a request of the owner of a
  crashed,  \* history: sessions whose last run ended in a crash
  events    \* events so far, bounded by MaxEvents

tables   == <<row, account, zones, usage>>
call     == <<at, link, asked, tries, got>>
session  == <<view, todo, call>>
vars     == <<tables, reports, edit, session, granted, crashed, events>>

NotYet == [account |-> "not yet"]
Gone   == [account |-> "gone"]
Unlinked == [account |-> None, resource |-> None, zone |-> None]
Row == [account : Account \cup {None}, resource : Resource \cup {None},
        zone : Zone \cup {None}]
Exists(table, d) == table[d] \notin {NotYet, Gone}

Sample == [deployment : Deployment, account : Account, resource : Resource,
           measured : SUBSET Column]
NoLink == [account |-> None, resource |-> None]
NoView == [closed |-> TRUE]
Now == [row |-> row, account |-> account]
NoEdit == [deployment |-> None]
Edit == [deployment : Deployment, seen : Row \cup {NotYet}, new : Row]

FetcherOf(s) == Fetcher[ProviderOf[link[s].account]]

\* A call in flight is for a resource, through an account with a fetcher, and
\* at one of its queries.
Calling(s) ==
  at[s] # None => /\ at[s] \in Deployment
                  /\ link[s].account \in Account /\ link[s].resource \in Resource
                  /\ ProviderOf[link[s].account] \in Supported
                  /\ asked[s] <= Len(FetcherOf(s).queries)

\* One type invariant.
TypeOK ==
  /\ row \in [Deployment -> Row \cup {NotYet, Gone}]
  /\ account \in [Account -> {"unproven", "validated", "deleted"}]
  /\ zones \subseteq Zone
  /\ reports \in [Resource -> SUBSET Series]
  /\ usage \subseteq Sample
  /\ edit \in [Editor -> Edit \cup {NoEdit}]
  /\ \A s \in Session : view[s] # NoView =>
       /\ view[s].row \in [Deployment -> Row \cup {NotYet, Gone}]
       /\ view[s].account \in [Account -> {"unproven", "validated", "deleted"}]
  /\ todo \in [Session -> SUBSET Deployment]
  /\ at \in [Session -> Deployment \cup {None}]
  /\ tries \in [Session -> 0..MaxTries] /\ asked \in [Session -> Nat]
  /\ got \in [Session -> SUBSET Series]
  /\ crashed \subseteq Session
  /\ events \in 0..MaxEvents
  /\ \A s \in Session : Calling(s)

\* list_cloud_linked.
Linked(table) ==
  {d \in Deployment : /\ Exists(table, d)
                      /\ table[d].account # None /\ table[d].resource # None}

\* Every deployment that is there is linked, by the owner of its account and
\* without a time zone; every resource reports.
Init ==
  /\ row \in [Deployment -> {NotYet} \cup [account : Account, resource : Resource, zone : {None}]]
  /\ account = [a \in Account |-> "validated"]
  /\ zones = Zone
  /\ reports = [x \in Resource |-> Series]
  /\ usage = {}
  /\ edit = [e \in Editor |-> NoEdit]
  /\ view = [s \in Session |-> NoView]
  /\ todo = [s \in Session |-> {}]
  /\ at = [s \in Session |-> None]
  /\ link = [s \in Session |-> NoLink]
  /\ asked = [s \in Session |-> 0]
  /\ tries = [s \in Session |-> 0]
  /\ got = [s \in Session |-> {}]
  /\ granted = {<<d, row[d].account>> : d \in Linked(row)}
  /\ crashed = {}
  /\ events = 0

-----------------------------------------------------------------------------
(* Synchronization.                                                        *)

\* What sync_deployment checks before it calls the provider.
Ready(v, d) ==
  /\ d \in Linked(v.row)
  /\ v.account[v.row[d].account] = "validated"
  /\ ProviderOf[v.row[d].account] \in Supported

StartSweep(s) ==
  /\ view[s] = NoView /\ todo[s] = {} /\ at[s] = None
  /\ view' = [view EXCEPT ![s] = Now]
  /\ todo' = [todo EXCEPT ![s] = Linked(row)]
  /\ crashed' = crashed \ {s}
  /\ UNCHANGED <<tables, reports, edit, call, granted, events>>

StartRequest(s, d) ==
  /\ view[s] = NoView /\ todo[s] = {} /\ at[s] = None
  /\ Exists(row, d)
  /\ events < MaxEvents
  /\ view' = [view EXCEPT ![s] = Now]
  /\ todo' = [todo EXCEPT ![s] = {d}]
  /\ crashed' = crashed \ {s}
  /\ events' = events + 1
  /\ UNCHANGED <<tables, reports, edit, call, granted>>

\* As mutants: the next call begins where this one ended, or with what it got.
HangupCounting(s) ==
  /\ at' = [at EXCEPT ![s] = None]
  /\ link' = [link EXCEPT ![s] = NoLink]
  /\ tries' = [tries EXCEPT ![s] = 0]
  /\ got' = [got EXCEPT ![s] = {}]
  /\ UNCHANGED asked
HangupKeeping(s) ==
  /\ at' = [at EXCEPT ![s] = None]
  /\ link' = [link EXCEPT ![s] = NoLink]
  /\ asked' = [asked EXCEPT ![s] = 0]
  /\ tries' = [tries EXCEPT ![s] = 0]
  /\ UNCHANGED got

\* The call is over, and what it left in the session.
Hangup(s) ==
  /\ at' = [at EXCEPT ![s] = None]
  /\ link' = [link EXCEPT ![s] = NoLink]
  /\ asked' = [asked EXCEPT ![s] = 0]
  /\ tries' = [tries EXCEPT ![s] = 0]
  /\ got' = [got EXCEPT ![s] = {}]

\* The session is over: at its end, by a failure of its handler, by a crash.
Ends(s) ==
  /\ Hangup(s)
  /\ todo' = [todo EXCEPT ![s] = {}]
  /\ view' = [view EXCEPT ![s] = NoView]

\* Where the call goes, by the rows as the transaction shows them.
Target(s, d) ==
  [account |-> view[s].row[d].account, resource |-> view[s].row[d].resource]

\* The sweep reaches a deployment.  A row that is gone raises, and raises
\* again in the handler: the sweep is over.
Visit(s, d) ==
  /\ at[s] = None /\ d \in todo[s]
  /\ \/ /\ Ready(view[s], d)
        /\ at' = [at EXCEPT ![s] = d]
        /\ link' = [link EXCEPT ![s] = Target(s, d)]
        /\ UNCHANGED <<view, todo, asked, tries, got>>
     \/ /\ Exists(view[s].row, d) /\ ~ Ready(view[s], d)
        /\ todo' = [todo EXCEPT ![s] = @ \ {d}]
        /\ UNCHANGED <<view, call>>
     \/ /\ ~ Exists(view[s].row, d)
        /\ Ends(s)
  /\ UNCHANGED <<tables, reports, edit, granted, events, crashed>>

Answered(s) == asked[s] = Len(FetcherOf(s).queries)

\* The next query is answered, with what the resource reports.
Answer(s) ==
  /\ at[s] # None /\ ~ Answered(s)
  /\ got' = [got EXCEPT ![s] = @ \cup
               (FetcherOf(s).queries[asked[s] + 1] \cap reports[link[s].resource])]
  /\ asked' = [asked EXCEPT ![s] = @ + 1]
  /\ tries' = [tries EXCEPT ![s] = 0]
  /\ UNCHANGED <<tables, reports, edit, view, todo, at, link, granted, events, crashed>>

\* As a mutant: a failed deployment ends the sweep.
GiveUpAll(s) == Ends(s)

\* One deployment failed: the session goes on in the same transaction.
GiveUp(s) ==
  /\ Hangup(s)
  /\ todo' = [todo EXCEPT ![s] = @ \ {at[s]}]
  /\ UNCHANGED view

\* The next query fails with something transient and is sent again ...
Retry(s) ==
  /\ at[s] # None /\ ~ Answered(s)
  /\ FetcherOf(s).retried # {}
  /\ tries[s] + 1 < MaxTries
  /\ tries' = [tries EXCEPT ![s] = @ + 1]
  /\ UNCHANGED <<tables, reports, edit, view, todo, at, link, asked, got, granted, events, crashed>>

\* ... or for the last time, or with something no retry helps against.
QueryFails(s, f) ==
  /\ at[s] # None /\ ~ Answered(s)
  /\ events < MaxEvents
  /\ f \in FetcherOf(s).retried => tries[s] + 1 = MaxTries
  /\ GiveUp(s)
  /\ events' = events + 1
  /\ UNCHANGED <<tables, reports, edit, granted, crashed>>

\* The datapoints become a row, committed at once, or an error if there are
\* none.  Of a deployment that is gone the foreign key refuses the row, and
\* the handler reads from a session that needs a rollback.
Record(s) ==
  /\ at[s] # None /\ Answered(s) /\ view[s] # NoView
  /\ \/ /\ ~ HasSample(ProviderOf[link[s].account], got[s])
        /\ GiveUp(s)
        /\ UNCHANGED usage
     \/ /\ HasSample(ProviderOf[link[s].account], got[s])
        /\ Exists(row, at[s])
        /\ usage' = usage \cup
             {[deployment |-> at[s], account |-> link[s].account,
               resource |-> link[s].resource,
               measured |-> Measured(ProviderOf[link[s].account], got[s])]}
        /\ view' = [view EXCEPT ![s] = NoView]
        /\ UNCHANGED <<todo, call>>
     \/ /\ HasSample(ProviderOf[link[s].account], got[s])
        /\ ~ Exists(row, at[s])
        /\ Ends(s)
        /\ UNCHANGED usage
  /\ UNCHANGED <<row, account, zones, reports, edit, granted, events, crashed>>

\* The row is read back in a new transaction, in which the session goes on
\* unless the deployment, and the row with it, is gone.
Confirm(s) ==
  /\ at[s] # None /\ view[s] = NoView
  /\ IF Exists(row, at[s])
     THEN /\ view' = [view EXCEPT ![s] = Now]
          /\ todo' = [todo EXCEPT ![s] = @ \ {at[s]}]
          /\ Hangup(s)
     ELSE Ends(s)
  /\ UNCHANGED <<tables, reports, edit, granted, events, crashed>>

Finish(s) ==
  /\ view[s] # NoView /\ todo[s] = {} /\ at[s] = None
  /\ Ends(s)
  /\ UNCHANGED <<tables, reports, edit, granted, events, crashed>>

Crash(s) ==
  /\ todo[s] # {} /\ events < MaxEvents
  /\ Ends(s)
  /\ crashed' = crashed \cup {s}
  /\ events' = events + 1
  /\ UNCHANGED <<tables, reports, edit, granted>>

-----------------------------------------------------------------------------
(* Deployments, time zone entries and accounts.                            *)

\* A request gives a value for some of the three links; NULL cannot be given.
Keep == "keep"
Patch == [account : Account \cup {Keep}, resource : Resource \cup {Keep},
          zone : Zone \cup {Keep}]
Patched(r, patch) ==
  [f \in DOMAIN r |-> IF patch[f] = Keep THEN r[f] ELSE patch[f]]

\* As a mutant: without _check_cloud_account_ownership.
AllowedToAll(e, patch, new) ==
  /\ patch.account # Keep => account[patch.account] # "deleted"
  /\ patch.zone # Keep => patch.zone \in zones /\ AccountOf[patch.zone] = new.account

\* _check_cloud_account_ownership and _check_timezone_belongs_to_account: each
\* looks at what the request gives, at nothing when it gives nothing.
Allowed(e, patch, new) ==
  /\ patch.account # Keep =>
       account[patch.account] # "deleted" /\ OwnerOf[patch.account] = UserOf[e]
  /\ patch.zone # Keep => patch.zone \in zones /\ AccountOf[patch.zone] = new.account

\* create and update: the rows are read and the request is checked ...
Ask(e, d, patch) ==
  LET base == IF row[d] = NotYet THEN Unlinked ELSE row[d]
      new  == Patched(base, patch) IN
  /\ edit[e] = NoEdit /\ row[d] # Gone
  /\ events < MaxEvents
  /\ Allowed(e, patch, new)
  /\ edit' = [edit EXCEPT ![e] = [deployment |-> d, seen |-> row[d], new |-> new]]
  /\ granted' = IF patch.account # Keep /\ OwnerOf[patch.account] = UserOf[e]
                THEN granted \cup {<<d, patch.account>>} ELSE granted
  /\ events' = events + 1
  /\ UNCHANGED <<tables, reports, session, crashed>>

\* What the commit leaves of a row: the columns that differ from what was read.
Written(stored, seen, new) ==
  [f \in DOMAIN new |-> IF seen # NotYet /\ new[f] = seen[f] THEN stored[f] ELSE new[f]]

\* Whether the foreign keys accept the columns that are written.
Referable(r) ==
  /\ r.account # None => account[r.account] # "deleted"
  /\ r.zone # None => r.zone \in zones

\* ... and written: the name is taken when somebody else has created the
\* deployment, an update of a row that is gone fails.
Write(e) ==
  LET d == edit[e].deployment  seen == edit[e].seen
      new == Written(row[d], seen, edit[e].new) IN
  /\ edit[e] # NoEdit
  /\ edit' = [edit EXCEPT ![e] = NoEdit]
  /\ IF (IF seen = NotYet THEN row[d] = NotYet ELSE Exists(row, d)) /\ Referable(new)
     THEN row' = [row EXCEPT ![d] = new] ELSE UNCHANGED row
  /\ UNCHANGED <<account, zones, usage, reports, session, granted, events, crashed>>

Delete(d) ==
  /\ events < MaxEvents
  /\ Exists(row, d)
  /\ row' = [row EXCEPT ![d] = Gone]
  /\ usage' = {u \in usage : u.deployment # d}
  /\ events' = events + 1
  /\ UNCHANGED <<account, zones, reports, edit, session, granted, crashed>>

\* Every deployment with the links to these rows set NULL.
Severed(accounts, entries) ==
  [d \in Deployment |->
     IF ~ Exists(row, d) THEN row[d]
     ELSE [row[d] EXCEPT !.account = IF @ \in accounts THEN None ELSE @,
                         !.zone = IF @ \in entries THEN None ELSE @]]

DeleteAccount(a) ==
  /\ events < MaxEvents
  /\ account[a] # "deleted"
  /\ account' = [account EXCEPT ![a] = "deleted"]
  /\ zones' = {z \in zones : AccountOf[z] # a}
  /\ row' = Severed({a}, zones \ zones')
  /\ events' = events + 1
  /\ UNCHANGED <<usage, reports, edit, session, granted, crashed>>

\* The account's credentials are validated, or replaced.
Validate(a) ==
  /\ events < MaxEvents
  /\ account[a] # "deleted"
  /\ \E c \in {"unproven", "validated"} :
       c # account[a] /\ account' = [account EXCEPT ![a] = c]
  /\ events' = events + 1
  /\ UNCHANGED <<row, zones, usage, reports, edit, session, granted, crashed>>

\* A time zone entry is deleted; a new one is another Zone.
RemoveZone(z) ==
  /\ events < MaxEvents
  /\ z \in zones
  /\ zones' = zones \ {z}
  /\ row' = Severed({}, {z})
  /\ events' = events + 1
  /\ UNCHANGED <<account, usage, reports, edit, session, granted, crashed>>

\* What a resource reports changes.
Report(x, series) ==
  /\ events < MaxEvents
  /\ series # reports[x]
  /\ reports' = [reports EXCEPT ![x] = series]
  /\ events' = events + 1
  /\ UNCHANGED <<tables, edit, session, granted, crashed>>

Next ==
  \/ \E s \in Sweeper : StartSweep(s)
  \/ \E s \in Session :
       \/ Answer(s) \/ Retry(s) \/ Record(s) \/ Confirm(s) \/ Finish(s) \/ Crash(s)
       \/ \E d \in Deployment : Visit(s, d)
       \/ \E f \in Fault : QueryFails(s, f)
  \/ \E s \in Requester, d \in Deployment : StartRequest(s, d)
  \/ \E e \in Editor :
       \/ Write(e)
       \/ \E d \in Deployment, patch \in Patch : Ask(e, d, patch)
  \/ \E d \in Deployment : Delete(d)
  \/ \E a \in Account : DeleteAccount(a) \/ Validate(a)
  \/ \E z \in Zone : RemoveZone(z)
  \/ \E x \in Resource, series \in {{}, {"cpu"}, {"memory_total"}, Series} : Report(x, series)

Spec == Init /\ [][Next]_vars

\* The job runs again and again, calls are answered in the end, and what a
\* request has begun it ends; nobody has to make a request.
Proceed(s) ==
  \/ Answer(s) \/ Record(s) \/ Confirm(s) \/ Finish(s)
  \/ \E d \in Deployment : Visit(s, d)
FairSpec ==
  /\ Spec
  /\ \A s \in Sweeper : WF_vars(StartSweep(s))
  /\ \A s \in Session : WF_vars(Proceed(s))
  /\ \A e \in Editor : WF_vars(Write(e))

-----------------------------------------------------------------------------
(* Properties.                                                             *)

\* No sample is read with credentials whose owner has not linked them to the
\* deployment, whoever edits it at the same time: not in a row, and not in a
\* call in flight ("those credentials are personal", deployment_service.py).
ReadWithConsent ==
  /\ \A u \in usage : <<u.deployment, u.account>> \in granted
  /\ \A s \in Session : at[s] # None => <<at[s], link[s].account>> \in granted

\* A sweep leaves deployments behind unvisited only when it crashes or one of
\* its own was deleted, which ends it: a failed call, a provider without
\* datapoints, an unproven account or a lost link costs one deployment.
SweepGoesOn ==
  [][\A s \in Sweeper :
       s \notin crashed' =>
         \/ todo[s] \subseteq todo'[s]
         \/ \E d \in todo[s] : todo'[s] = todo[s] \ {d} \/ row[d] = Gone]_vars

\* Once everybody is quiet, every deployment that can be synced has a sample
\* of its linked resource with exactly the columns that are reported now,
\* whatever failed, raced or was deleted before.
Sampled ==
  <>[](\A d \in Deployment : Ready(Now, d) =>
         LET p == ProviderOf[row[d].account]
             series == AskedFor(p) \cap reports[row[d].resource] IN
         HasSample(p, series) =>
           [deployment |-> d, account |-> row[d].account, resource |-> row[d].resource,
            measured |-> Measured(p, series)] \in usage)
=============================================================================
