------------------------------- MODULE CostSync -------------------------------
(***************************************************************************)
(* The billing rows of projects and CloudCostService: rows entered by hand *)
(* and POST /projects/{id}/cloud-costs/sync, which asks the provider of an *)
(* account for the spend of its last closed months.                        *)
(*                                                                         *)
(* An amount of money is the set of charges it adds up.  Months are        *)
(* numbered; the open one is "month".  A session reads a snapshot until it *)
(* commits: the first lasts through the whole call to the provider, and    *)
(* each stored row begins another.                                         *)
(***************************************************************************)
EXTENDS Integers, Sequences, SequencesExt, FiniteSets

CONSTANTS
  Project, Account,
  Service,    \* service names
  Provider,   \* the providers accounts are with
  Part,       \* resources of a service: charges are told apart by them
  Lookback,   \* CLOUD_COST_SYNC_LOOKBACK_MONTHS
  FirstMonth, \* the open month at the beginning
  LastMonth,  \* bound: the last month that is considered
  Syncer,     \* sessions of sync requests
  ByHand,     \* bound: the months rows entered by hand are of
  MaxEvents   \* bound: syncs, rows by hand, charges, deletions, changes of
              \* provider, failed calls and crashes

ASSUME LookbackAssumption == Lookback \in Nat \ {0}
ASSUME MonthAssumption == FirstMonth \in Nat /\ LastMonth \in Nat /\ Lookback < FirstMonth /\ FirstMonth <= LastMonth
ASSUME BoundAssumption == MaxEvents \in Nat /\ ByHand \subseteq 1..LastMonth

MaxTries == 3   \* stop_after_attempt(3)
Month == 1..LastMonth

\* _PROVIDER_COST_FETCHERS.  AWS and Azure answer one query for all months,
\* IBM one to find the account and one for each month, DigitalOcean one for
\* the list of invoices and one for each invoice.  IBM's resources are
\* reported one by one and its calls are never tried again.  Of an answer in
\* several pages the code reads the first.
Fetcher == [aws          |-> [plan |-> "all",      totals |-> TRUE,  retries |-> TRUE],
            azure        |-> [plan |-> "all",      totals |-> TRUE,  retries |-> TRUE],
            ibm          |-> [plan |-> "monthly",  totals |-> FALSE, retries |-> FALSE],
            digitalocean |-> [plan |-> "invoices", totals |-> TRUE,  retries |-> TRUE]]
Supported == DOMAIN Fetcher

ASSUME ProviderAssumption == "deleted" \notin Provider

VARIABLES
  month,     \* the open month
  bill,      \* what providers charge accounts
  invoiced,  \* <<a, m>>: DigitalOcean has issued the invoice
  listed,    \* the charges on the first page of their invoice
  provider,  \* provider[a]: with whom the account is, or "deleted"
  projects,  \* the projects in the table
  rows,      \* the cloud_costs rows
  view,      \* view[s]: the tables as the open transaction of s shows them
  sync,      \* sync[s]: [project, account, provider] of the request, or Idle
  queries,   \* queries[s]: the months each call still to be made is about
  tries,     \* tries[s]: failed attempts at the next call
  got,       \* got[s]: the entries the provider has reported
  todo,      \* todo[s]: those the loop has still to look at
  shown,     \* history: what there was to be read when the sync began
  disturbed, \* history: projects of which two syncs overlapped, or whose
             \* sync had its account changed
  events     \* events so far, bounded by MaxEvents

tables  == <<projects, provider, rows>>
billing == <<month, bill, invoiced, listed>>
session == <<view, sync, queries, tries, got, todo>>
vars    == <<tables, billing, session, shown, disturbed, events>>

Charge == [account : Account, provider : Provider, service : Service, month : Month, part : Part]
Entry  == [service : Service, month : Month, of : SUBSET Charge]
Idle   == [project |-> "none"]
NoView == [closed |-> TRUE]
Now    == [rows |-> rows, provider |-> provider]

\* One type invariant: of every row it is known which session wrote it, and
\* rows entered by hand add up no charge.
TypeOK ==
  /\ month \in Month
  /\ bill \subseteq Charge /\ invoiced \subseteq Account \X Month
  /\ listed \subseteq bill
  /\ provider \in [Account -> Provider \cup {"deleted"}]
  /\ projects \subseteq Project
  /\ \A r \in rows :
       /\ r.project \in projects /\ r.provider \in Provider
       /\ r.service \in Service /\ r.month \in Month /\ r.of \subseteq bill
       /\ r.by \in 0..MaxEvents
  /\ \A s \in Syncer :
       /\ sync[s] # Idle =>
            /\ sync[s].project \in Project /\ sync[s].account \in Account
            /\ sync[s].provider \in Provider \cap Supported
       /\ view[s] # NoView <=> sync[s] # Idle
       /\ queries[s] \in Seq(SUBSET Month)
       /\ got[s] \subseteq Entry /\ todo[s] \subseteq got[s]
       /\ shown[s] \subseteq bill
  /\ tries \in [Syncer -> 0..(MaxTries - 1)]
  /\ disturbed \subseteq Project
  /\ events \in 0..MaxEvents

\* What DigitalOcean has charged an account for in a month.
Items(a, m) ==
  {c \in bill : c.account = a /\ c.month = m /\ Fetcher[c.provider].plan = "invoices"}

\* Every account has been with one provider.
Init ==
  /\ month = FirstMonth
  /\ provider \in [Account -> Provider]
  /\ bill \in SUBSET {c \in [account : Account, provider : Provider, service : Service,
                            month : (FirstMonth - Lookback)..(FirstMonth - 1), part : Part] :
                        c.provider = provider[c.account]}
  /\ invoiced = {i \in Account \X (1..(FirstMonth - 1)) : Items(i[1], i[2]) # {}}
  /\ listed \in SUBSET {c \in bill : Fetcher[c.provider].plan = "invoices"}
  /\ projects = Project
  /\ rows = {}
  /\ view = [s \in Syncer |-> NoView]
  /\ sync = [s \in Syncer |-> Idle]
  /\ queries = [s \in Syncer |-> << >>]
  /\ tries = [s \in Syncer |-> 0]
  /\ got = [s \in Syncer |-> {}]
  /\ todo = [s \in Syncer |-> {}]
  /\ shown = [s \in Syncer |-> {}]
  /\ disturbed = {}
  /\ events = 0

-----------------------------------------------------------------------------
(* Asking the provider.                                                    *)

\* As a mutant: the open month is asked for, too.
WindowOpen == (month - Lookback)..month

\* The last closed months.
Window == (month - Lookback)..(month - 1)

\* The call a sync of this provider begins with.
Plan(p) == IF Fetcher[p].plan = "all" THEN <<Window>> ELSE <<{}>>

\* The newest invoices of an account, as many as months are looked back.
Invoices(a) ==
  {m \in Month : /\ <<a, m>> \in invoiced
                 /\ Cardinality({n \in Month : n > m /\ <<a, n>> \in invoiced}) < Lookback}

\* The months asked about one by one when the first call is answered.
Follow(a, p) ==
  CASE Fetcher[p].plan = "all"      -> {}
    [] Fetcher[p].plan = "monthly"  -> Window
    [] Fetcher[p].plan = "invoices" -> Invoices(a)

\* Items on a later page of an invoice are never read.
Legible(c) == Fetcher[c.provider].plan = "invoices" => c \in listed

\* What the provider has on an account for these months: one entry for each
\* service, or for each resource.
Entries(a, p, months) ==
  LET charges == {c \in bill : c.account = a /\ c.provider = p /\ c.month \in months /\ Legible(c)}
      alike(c) == {d \in charges : d.service = c.service /\ d.month = c.month} IN
  {[service |-> c.service, month |-> c.month,
    of |-> IF Fetcher[p].totals THEN alike(c) ELSE {c}] : c \in charges}

\* The first page of the answer: for AWS and Azure any of its entries.
FirstPages(a, p, months) ==
  IF Fetcher[p].plan = "all" THEN SUBSET Entries(a, p, months) ELSE {Entries(a, p, months)}

\* sync_cloud_costs up to the call of the fetcher, for an account and a
\* project of the user's.
StartSync(s, j, a) ==
  /\ sync[s] = Idle
  /\ events < MaxEvents
  /\ j \in projects /\ provider[a] \in Supported
  /\ sync' = [sync EXCEPT ![s] = [project |-> j, account |-> a, provider |-> provider[a],
                                  run |-> events]]
  /\ view' = [view EXCEPT ![s] = Now]
  /\ queries' = [queries EXCEPT ![s] = Plan(provider[a])]
  /\ shown' = [shown EXCEPT ![s] = {c \in bill :
       /\ c.account = a /\ c.provider = provider[a] /\ c.month \in 1..(month - 1)
       /\ Fetcher[c.provider].plan # "all" /\ Legible(c)}]
  /\ disturbed' = IF \E t \in Syncer : sync[t] # Idle /\ sync[t].project = j
                  THEN disturbed \cup {j} ELSE disturbed
  /\ events' = events + 1
  /\ UNCHANGED <<tables, billing, tries, got, todo>>

\* As a mutant: the transaction stays open.
OverOpen(s) ==
  /\ sync' = [sync EXCEPT ![s] = Idle]
  /\ queries' = [queries EXCEPT ![s] = << >>]
  /\ tries' = [tries EXCEPT ![s] = 0]
  /\ got' = [got EXCEPT ![s] = {}]
  /\ todo' = [todo EXCEPT ![s] = {}]
  /\ shown' = [shown EXCEPT ![s] = {}]
  /\ UNCHANGED view

\* The session is over, and what is committed stays.
Over(s) ==
  /\ sync' = [sync EXCEPT ![s] = Idle]
  /\ view' = [view EXCEPT ![s] = NoView]
  /\ queries' = [queries EXCEPT ![s] = << >>]
  /\ tries' = [tries EXCEPT ![s] = 0]
  /\ got' = [got EXCEPT ![s] = {}]
  /\ todo' = [todo EXCEPT ![s] = {}]
  /\ shown' = [shown EXCEPT ![s] = {}]

\* A call is answered.  IBM's window is that of the day its account is found;
\* the list of invoices says which ones to ask for.
Answer(s, page) ==
  LET a == sync[s].account  p == sync[s].provider  months == Head(queries[s]) IN
  /\ queries[s] # << >>
  /\ page \in FirstPages(a, p, months)
  /\ queries' = [queries EXCEPT ![s] = Tail(@) \o
       (IF months = {} THEN SetToSeq({{m} : m \in Follow(a, p)}) ELSE << >>)]
  /\ got' = [got EXCEPT ![s] = @ \cup page]
  /\ todo' = [todo EXCEPT ![s] = @ \cup page]
  /\ tries' = [tries EXCEPT ![s] = 0]
  /\ UNCHANGED <<tables, billing, view, sync, shown, disturbed, events>>

\* A transient failure is tried again, any other ends the request, before
\* anything of it is stored.
CallFails(s) ==
  /\ queries[s] # << >> /\ events < MaxEvents
  /\ events' = events + 1
  /\ \/ /\ Fetcher[sync[s].provider].retries /\ tries[s] + 1 < MaxTries
        /\ tries' = [tries EXCEPT ![s] = @ + 1]
        /\ UNCHANGED <<view, sync, queries, got, todo, shown>>
     \/ Over(s)
  /\ UNCHANGED <<tables, billing, disturbed>>

-----------------------------------------------------------------------------
(* Storing the entries.                                                    *)

\* As mutants: the month is forgotten, or the last day of the stored one is
\* compared with the first of the new, which are never the same.
ExistingAnyMonth(table, j, p, e) ==
  \E r \in table : r.project = j /\ r.provider = p /\ r.service = e.service
ExistingByLastDay(table, j, p, e) == FALSE

\* get_existing: whatever account the row came from.
Existing(table, j, p, e) ==
  \E r \in table : r.project = j /\ r.provider = p /\ r.service = e.service /\ r.month = e.month

\* The loop looks at an entry.  The account is read again after each commit:
\* the row gets the provider it has now, and of a deleted account nothing more
\* is stored.  Into a deleted project nothing can be.
Store(s, e) ==
  LET j == sync[s].project  p == view[s].provider[sync[s].account] IN
  /\ sync[s] # Idle /\ queries[s] = << >> /\ e \in todo[s]
  /\ \/ /\ p # "deleted" /\ Existing(view[s].rows, j, p, e)
        /\ todo' = [todo EXCEPT ![s] = @ \ {e}]
        /\ UNCHANGED <<rows, view, sync, queries, tries, got, shown>>
     \/ /\ p # "deleted" /\ ~ Existing(view[s].rows, j, p, e)
        /\ j \in projects
        /\ rows' = rows \cup {[project |-> j, provider |-> p, service |-> e.service,
                               month |-> e.month, of |-> e.of, by |-> sync[s].run]}
        /\ view' = [view EXCEPT ![s] = [rows |-> rows', provider |-> provider]]
        /\ todo' = [todo EXCEPT ![s] = @ \ {e}]
        /\ UNCHANGED <<sync, queries, tries, got, shown>>
     \/ /\ \/ p = "deleted"
           \/ ~ Existing(view[s].rows, j, p, e) /\ j \notin projects
        /\ Over(s)
        /\ UNCHANGED rows
  /\ UNCHANGED <<projects, provider, billing, disturbed, events>>

Finish(s) ==
  /\ sync[s] # Idle /\ queries[s] = << >> /\ todo[s] = {}
  /\ Over(s)
  /\ UNCHANGED <<tables, billing, disturbed, events>>

Crash(s) ==
  /\ todo[s] # {} /\ events < MaxEvents
  /\ Over(s)
  /\ events' = events + 1
  /\ UNCHANGED <<tables, billing, disturbed>>

-----------------------------------------------------------------------------
(* The rest of the platform, the providers and the calendar.               *)

\* POST /projects/{id}/cloud-costs.
Ingest(j, p, v, m) ==
  /\ events < MaxEvents
  /\ j \in projects
  /\ rows' = rows \cup {[project |-> j, provider |-> p, service |-> v, month |-> m,
                         of |-> {}, by |-> events]}
  /\ events' = events + 1
  /\ UNCHANGED <<projects, provider, billing, session, shown, disturbed>>

DeleteProject(j) ==
  /\ events < MaxEvents
  /\ j \in projects
  /\ projects' = projects \ {j}
  /\ rows' = {r \in rows : r.project # j}
  /\ events' = events + 1
  /\ UNCHANGED <<provider, billing, session, shown, disturbed>>

\* The account is edited to another provider, or deleted.
ChangeAccount(a, p) ==
  /\ events < MaxEvents
  /\ provider[a] \notin {p, "deleted"}
  /\ provider' = [provider EXCEPT ![a] = p]
  /\ disturbed' = disturbed \cup
       {sync[s].project : s \in {t \in Syncer : sync[t] # Idle /\ sync[t].account = a}}
  /\ events' = events + 1
  /\ UNCHANGED <<projects, rows, billing, session, shown>>

\* Money is spent in the open month only.
Spend(c) ==
  /\ events < MaxEvents
  /\ c \in Charge \ bill /\ c.month = month /\ c.provider = provider[c.account]
  /\ bill' = bill \cup {c}
  /\ events' = events + 1
  /\ UNCHANGED <<tables, month, invoiced, listed, session, shown, disturbed>>

\* A new month begins; invoices of the old one are issued some time after.
NextMonth ==
  /\ month < LastMonth
  /\ month' = month + 1
  /\ UNCHANGED <<tables, bill, invoiced, listed, session, shown, disturbed, events>>

Issue(a, m, first) ==
  /\ m < month /\ <<a, m>> \notin invoiced
  /\ Items(a, m) # {} /\ first \subseteq Items(a, m)
  /\ invoiced' = invoiced \cup {<<a, m>>}
  /\ listed' = listed \cup first
  /\ UNCHANGED <<tables, month, bill, session, shown, disturbed, events>>

Next ==
  \/ \E s \in Syncer :
       \/ CallFails(s) \/ Finish(s) \/ Crash(s)
       \/ queries[s] # << >> /\
          \E page \in FirstPages(sync[s].account, sync[s].provider, Head(queries[s])) : Answer(s, page)
       \/ \E e \in todo[s] : Store(s, e)
       \/ \E j \in Project, a \in Account : StartSync(s, j, a)
  \/ \E j \in Project :
       \/ DeleteProject(j)
       \/ \E p \in Provider, v \in Service, m \in ByHand : Ingest(j, p, v, m)
  \/ \E a \in Account : \E p \in Provider \cup {"deleted"} : ChangeAccount(a, p)
  \/ \E c \in [account : Account, provider : Provider, service : Service,
               month : {month}, part : Part] : Spend(c)
  \/ NextMonth
  \/ \E a \in Account, m \in Month : \E first \in SUBSET Items(a, m) : Issue(a, m, first)

Spec == Init /\ [][Next]_vars

-----------------------------------------------------------------------------
(* Properties.                                                             *)

\* "Repeated syncs ... don't duplicate already-billed history"
\* (cloud_cost_service.py): no charge is in two rows of a project, however
\* often it is synced and whatever failed half-way, unless two of its syncs
\* overlapped or the account was edited under one.
BilledOnce ==
  \A r, q \in rows : r # q /\ r.project = q.project /\ r.project \notin disturbed
    => r.of \cap q.of = {}

\* "Only complete past calendar months are fetched": the month of a stored
\* amount is over, and the amount is all that a later reading would add up for
\* the service in that month - of an AWS or Azure service its whole spend, of
\* a DigitalOcean product the items on the first page of the invoice, the only
\* one the code reads, and of IBM one resource.
FinalAmounts ==
  \A r \in rows : \A c \in r.of :
    /\ r.month < month
    /\ Fetcher[c.provider].totals =>
         \A d \in bill :
           /\ d.account = c.account /\ d.provider = c.provider
           /\ d.service = r.service /\ d.month = r.month /\ Legible(d)
           => d \in r.of

\* A sync that comes to its end leaves out nothing it could read, if the
\* project is still there: of every entry on a first page it got there is a row
\* of the service and month, and IBM and DigitalOcean are asked about every
\* month that was closed when it began and is still looked back to.  What AWS
\* and Azure put on a later page, or DigitalOcean on a later page of an
\* invoice, gets no row, and the sync ends as if all were stored.
Complete ==
  [][\A s \in Syncer :
       /\ sync[s] # Idle /\ sync'[s] = Idle
       /\ queries[s] = << >> /\ todo[s] = {}
       /\ sync[s].project \in projects
       => \A x \in got[s] \cup {c \in shown[s] : c.month >= month - Lookback} :
            \E r \in rows : /\ r.project = sync[s].project
                            /\ r.service = x.service /\ r.month = x.month]_vars
=============================================================================
