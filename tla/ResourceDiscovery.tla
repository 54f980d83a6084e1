------------------------- MODULE ResourceDiscovery -------------------------
(***************************************************************************)
(* Automatic resource discovery (CloudResourceDiscoveryService): passes    *)
(* over the accounts, made by the cloud_resource_discovery job and by      *)
(* requests of the owners, which mirror what exists in the provider into   *)
(* cloud_resources.  A pass commits after every row, so passes that        *)
(* overlap see and overwrite each other's work.                            *)
(***************************************************************************)
EXTENDS CloudInventory, Naturals, FiniteSets

CONSTANTS
  Account,
  Metered,    \* of the categories, the one with metrics of running resources (EC2)
  Home,       \* Home[x]: the <<account, region, category>> of x, for ever
  Existing,   \* resources that exist before the first pass
  Available,  \* Available[a]: the regions found by the last region sync
  Attended,   \* accounts whose owners change, delete or discover them
  Sweep,      \* sessions of the scheduled job
  Request,    \* sessions of POST .../discover and of credential validation
  MaxEvents   \* bound: changes in the provider, its failures, owners' updates

Session == Sweep \cup Request
Scope == Account \X Region \X Category

NoAccount == "none"
NoScope == <<"none">>

ASSUME HomeAssumption == Home \in [Resource -> Scope]
ASSUME AvailableAssumption == Available \in [Account -> SUBSET Region]
ASSUME SessionAssumption == Sweep \cap Request = {}
ASSUME NoAccountAssumption == NoAccount \notin Account
ASSUME AttendedAssumption == Attended \subseteq Account
ASSUME BoundAssumption == MaxEvents \in Nat

VARIABLES
  cloud,    \* cloud[x]: the resource in the provider
  account,  \* account[a]: the row of cloud_provider_accounts
  row,      \* row[x]: the row of cloud_resources
  metered,  \* resources with a row in cloud_resource_metrics
  failure,  \* failure[a]: last_discovery_error is set
  view,     \* view[s]: the snapshot of s, of account and row
  todo,     \* todo[s]: accounts the sweep has still to visit
  at,       \* at[s]: the account of the pass, or NoAccount
  scopes,   \* scopes[s]: scopes the pass has still to list
  scope,    \* scope[s]: the scope that was listed, or NoScope
  listing,  \* listing[s]: what the provider listed in it
  left,     \* left[s]: of these, the ones not yet upserted
  meter,    \* meter[s]: the resource whose metrics are being fetched, if any
  erred,    \* erred[s]: a listing of the pass failed
  meanwhile, \* history: meanwhile[s]: resources of scope[s] that other sessions
             \* have upserted since the listing of s
  events

tables == <<account, row, metered, failure>>
local  == <<view, todo, at, scopes, scope, listing, left, meter, erred>>
vars   == <<cloud, tables, local, meanwhile, events>>

AccountRow == [there : BOOLEAN, ready : BOOLEAN, region : Region \cup {All}]
Status == {"absent", "active", "inactive"}

TypeOK ==
  /\ cloud \in [Resource -> {"unborn", "running", "gone"}]
  /\ account \in [Account -> AccountRow]
  /\ row \in [Resource -> Status]
  /\ metered \in SUBSET Resource
  /\ failure \in [Account -> BOOLEAN]
  /\ view \in [Session -> [account : [Account -> AccountRow],
                           row : [Resource -> Status]]]
  /\ todo \in [Session -> SUBSET Account]
  /\ at \in [Session -> Account \cup {NoAccount}]
  /\ scopes \in [Session -> SUBSET Scope]
  /\ scope \in [Session -> Scope \cup {NoScope}]
  /\ listing \in [Session -> SUBSET Resource]
  /\ left \in [Session -> SUBSET Resource]
  /\ meter \in [Session -> SUBSET Resource]
  /\ erred \in [Session -> BOOLEAN]
  /\ meanwhile \in [Session -> SUBSET Resource]
  /\ events \in 0..MaxEvents

-----------------------------------------------------------------------------
Spend == events < MaxEvents /\ events' = events + 1

\* A resource's rows are deleted with the account (ON DELETE CASCADE).
OwnerOf(x) == Home[x][1]

\* As a mutant: the sentinel is taken for a region.
RegionsAsSelected(a, accounts) == {accounts[a].region}

\* The regions of a pass: the selected one, or every available one.
RegionsOf(a, accounts) ==
  IF accounts[a].region = All THEN Available[a] ELSE {accounts[a].region}

Blank == [account |-> [a \in Account |-> [there |-> FALSE, ready |-> FALSE, region |-> All]],
          row |-> [x \in Resource |-> "absent"]]

Init ==
  /\ cloud = [x \in Resource |-> IF x \in Existing THEN "running" ELSE "unborn"]
  /\ account = [a \in Account |-> [there |-> TRUE, ready |-> TRUE, region |-> All]]
  /\ row = [x \in Resource |-> "absent"]
  /\ metered = {}
  /\ failure = [a \in Account |-> FALSE]
  /\ view = [s \in Session |-> Blank]
  /\ todo = [s \in Session |-> {}]
  /\ at = [s \in Session |-> NoAccount]
  /\ scopes = [s \in Session |-> {}]
  /\ scope = [s \in Session |-> NoScope]
  /\ listing = [s \in Session |-> {}]
  /\ left = [s \in Session |-> {}]
  /\ meter = [s \in Session |-> {}]
  /\ erred = [s \in Session |-> FALSE]
  /\ meanwhile = [s \in Session |-> {}]
  /\ events = 0

-----------------------------------------------------------------------------
(* The provider and the owners.                                             *)

\* A resource is created, or terminated for good: ids are not used again.
Evolve(x) ==
  /\ Spend
  /\ \/ cloud[x] = "unborn" /\ cloud' = [cloud EXCEPT ![x] = "running"]
     \/ cloud[x] = "running" /\ cloud' = [cloud EXCEPT ![x] = "gone"]
  /\ UNCHANGED <<tables, local, meanwhile>>

\* Another region, or all of them: update takes any, and update_selected_region
\* any until some have been discovered.
Select(a, r) ==
  /\ account[a].there /\ account[a].region # r
  /\ Spend
  /\ account' = [account EXCEPT ![a].region = r]
  /\ UNCHANGED <<cloud, row, metered, failure, local, meanwhile>>

\* The account is switched on or off: is_active, or new credentials that are
\* not validated, or a validation.
Switch(a) ==
  /\ account[a].there
  /\ Spend
  /\ account' = [account EXCEPT ![a].ready = ~@]
  /\ UNCHANGED <<cloud, row, metered, failure, local, meanwhile>>

\* The account is deleted, and its resources and their metrics with it.
Delete(a) ==
  /\ account[a].there
  /\ Spend
  /\ account' = [account EXCEPT ![a].there = FALSE]
  /\ row' = [x \in Resource |-> IF OwnerOf(x) = a THEN "absent" ELSE row[x]]
  /\ metered' = {x \in metered : OwnerOf(x) # a}
  /\ UNCHANGED <<cloud, failure, local, meanwhile>>

-----------------------------------------------------------------------------
(* A pass.                                                                  *)

\* After a commit the session reads the account row again, in a new snapshot.
Reopened(s) == view' = [view EXCEPT ![s] = [account |-> account', row |-> row']]

\* Nothing of the pass is left in the session.
PassOver(s) ==
  /\ at' = [at EXCEPT ![s] = NoAccount]
  /\ scopes' = [scopes EXCEPT ![s] = {}]
  /\ scope' = [scope EXCEPT ![s] = NoScope]
  /\ listing' = [listing EXCEPT ![s] = {}]
  /\ left' = [left EXCEPT ![s] = {}]
  /\ meter' = [meter EXCEPT ![s] = {}]
  /\ erred' = [erred EXCEPT ![s] = FALSE]
  /\ meanwhile' = [meanwhile EXCEPT ![s] = {}]

\* The database refused a write, or the account row is not there any more.
\* The exception handler of discover_all reads account.id from the broken
\* session, which raises again: the sweep ends.
Broken(s) ==
  /\ PassOver(s)
  /\ todo' = [todo EXCEPT ![s] = {}]
  /\ view' = [view EXCEPT ![s] = Blank]
  /\ UNCHANGED <<cloud, tables, events>>

\* discover_all: the accounts of the sweep.
StartSweep(s) ==
  /\ s \in Sweep /\ todo[s] = {} /\ at[s] = NoAccount
  /\ todo' = [todo EXCEPT ![s] = {a \in Account : account[a].there /\ account[a].ready}]
  /\ view' = [view EXCEPT ![s] = [account |-> account, row |-> row]]
  /\ UNCHANGED <<cloud, tables, at, scopes, scope, listing, left, meter, erred,
                 meanwhile, events>>

\* discover_account on the sweep's next account: the scopes of its regions.
\* Without a region the account fails and the sweep goes on.
Visit(s, a) ==
  /\ a \in todo[s] /\ at[s] = NoAccount /\ view[s].account[a].there
  /\ todo' = [todo EXCEPT ![s] = @ \ {a}]
  /\ LET regions == RegionsOf(a, view[s].account) IN
     IF regions = {} THEN UNCHANGED <<at, scopes>>
     ELSE /\ at' = [at EXCEPT ![s] = a]
          /\ scopes' = [scopes EXCEPT ![s] = {a} \X regions \X Category]
  /\ UNCHANGED <<cloud, tables, view, scope, listing, left, meter, erred, meanwhile,
                 events>>

\* The sweep's next account was deleted before the last commit.
NotThere(s) ==
  /\ at[s] = NoAccount /\ \E a \in todo[s] : ~view[s].account[a].there
  /\ Broken(s)

\* discover_account on demand.
StartRequest(s, a) ==
  /\ s \in Request /\ at[s] = NoAccount
  /\ account[a].there /\ RegionsOf(a, account) # {}
  /\ Spend
  /\ at' = [at EXCEPT ![s] = a]
  /\ scopes' = [scopes EXCEPT ![s] = {a} \X RegionsOf(a, account) \X Category]
  /\ view' = [view EXCEPT ![s] = [account |-> account, row |-> row]]
  /\ UNCHANGED <<cloud, tables, todo, scope, listing, left, meter, erred, meanwhile>>

\* The live call for one scope answers.
Listed(sc) == {x \in Resource : Home[x] = sc /\ cloud[x] = "running"}

List(s, sc) ==
  /\ at[s] # NoAccount /\ scope[s] = NoScope /\ sc \in scopes[s]
  /\ scopes' = [scopes EXCEPT ![s] = @ \ {sc}]
  /\ scope' = [scope EXCEPT ![s] = sc]
  /\ listing' = [listing EXCEPT ![s] = Listed(sc)]
  /\ left' = [left EXCEPT ![s] = Listed(sc)]
  /\ UNCHANGED <<cloud, tables, view, todo, at, meter, erred, meanwhile, events>>

\* The live call fails with the client's own exception: the error is noted and
\* the scope left as it is.
ListFails(s, sc) ==
  /\ at[s] # NoAccount /\ scope[s] = NoScope /\ sc \in scopes[s]
  /\ Spend
  /\ scopes' = [scopes EXCEPT ![s] = @ \ {sc}]
  /\ erred' = [erred EXCEPT ![s] = TRUE]
  /\ UNCHANGED <<cloud, tables, view, todo, at, scope, listing, left, meter, meanwhile>>

\* As a mutant: is_active is not set again on a row that is known.
WrittenButFlag(s, x) ==
  IF view[s].row[x] = "absent" THEN "active" ELSE row[x]

\* upsert writes x: an INSERT when the snapshot has no such row, and otherwise
\* an UPDATE of what changed, is_active among it when the snapshot has it off.
Written(s, x) ==
  IF view[s].row[x] = "active" THEN row[x] ELSE "active"

\* As a mutant: rows without the foreign key to the account.
WritableByAnyone(s, x) ==
  IF view[s].row[x] = "absent" THEN row[x] = "absent" ELSE row[x] # "absent"

\* The INSERT needs the account (foreign key) and no such row (unique key), the
\* UPDATE needs the row.
Writable(s, x) ==
  IF view[s].row[x] = "absent"
  THEN row[x] = "absent" /\ account[OwnerOf(x)].there
  ELSE row[x] # "absent"

Upsert(s, x) ==
  /\ x \in left[s] /\ meter[s] = {}
  /\ IF Writable(s, x)
     THEN /\ row' = [row EXCEPT ![x] = Written(s, x)]
          /\ left' = [left EXCEPT ![s] = @ \ {x}]
          /\ meter' = [meter EXCEPT ![s] = IF Home[x][3] = Metered THEN {x} ELSE {}]
          /\ meanwhile' = [o \in Session |->
                             IF o # s /\ scope[o] = Home[x]
                             THEN meanwhile[o] \cup {x} ELSE meanwhile[o]]
          /\ UNCHANGED <<cloud, account, metered, failure, todo, at, scopes,
                         scope, listing, erred, events>>
          /\ Reopened(s)
     ELSE Broken(s)

\* fetch_ec2_full_metrics raises (a rejected or failed request, no datapoint
\* in the window): the handler passes over it.
Unmetered(s) ==
  /\ meter' = [meter EXCEPT ![s] = {}]
  /\ UNCHANGED <<cloud, tables, view, todo, at, scopes, scope, listing, left,
                 erred, meanwhile, events>>

\* _collect_ec2_metrics: the metric needs the resource's row (foreign key).
Collect(s, x) ==
  /\ x \in meter[s]
  /\ \/ Unmetered(s)
     \/ /\ row[x] # "absent"
        /\ metered' = metered \cup {x}
        /\ meter' = [meter EXCEPT ![s] = {}]
        /\ UNCHANGED <<cloud, account, row, failure, todo, at, scopes, scope,
                       listing, left, erred, meanwhile, events>>
        /\ Reopened(s)
     \/ row[x] = "absent" /\ Broken(s)

\* As a mutant: without the condition on the account.
StaleOfAnyone(s) ==
  {x \in Resource : /\ Home[x][2] = scope[s][2] /\ Home[x][3] = scope[s][3]
                    /\ view[s].row[x] = "active" /\ x \notin listing[s]}

\* mark_inactive_except: the rows the snapshot has active in the scope and the
\* listing did not have.
Stale(s) ==
  {x \in Resource : /\ Home[x] = scope[s] /\ view[s].row[x] = "active"
                    /\ x \notin listing[s]}

Flip(s) ==
  /\ scope[s] # NoScope /\ left[s] = {} /\ meter[s] = {}
  /\ IF \A x \in Stale(s) : row[x] # "absent"
     THEN /\ row' = [x \in Resource |-> IF x \in Stale(s) THEN "inactive" ELSE row[x]]
          /\ scope' = [scope EXCEPT ![s] = NoScope]
          /\ listing' = [listing EXCEPT ![s] = {}]
          /\ meanwhile' = [meanwhile EXCEPT ![s] = {}]
          /\ UNCHANGED <<cloud, account, metered, failure, todo, at, scopes,
                         left, meter, erred, events>>
          /\ IF Stale(s) = {} THEN UNCHANGED view ELSE Reopened(s)
     ELSE Broken(s)

\* The end of discover_account.  A session without accounts left is closed.
Finish(s) ==
  /\ at[s] # NoAccount /\ scopes[s] = {} /\ scope[s] = NoScope
  /\ IF account[at[s]].there
     THEN /\ failure' = [failure EXCEPT ![at[s]] = erred[s]]
          /\ PassOver(s)
          /\ UNCHANGED <<cloud, account, row, metered, todo, events>>
          /\ IF todo[s] = {} THEN view' = [view EXCEPT ![s] = Blank] ELSE Reopened(s)
     ELSE Broken(s)

\* As a mutant: no handler around an account of the sweep.
StumbleEnds(s) ==
  /\ at[s] # NoAccount /\ left[s] = {}
  /\ Spend
  /\ PassOver(s)
  /\ view' = [view EXCEPT ![s] = Blank]
  /\ todo' = [todo EXCEPT ![s] = {}]
  /\ UNCHANGED <<cloud, tables>>

\* Any other exception of a live call: discover_all logs it and goes on to the
\* next account, in the same snapshot; a request ends.
Stumble(s) ==
  /\ at[s] # NoAccount /\ left[s] = {}
  /\ Spend
  /\ PassOver(s)
  /\ view' = [view EXCEPT ![s] = IF todo[s] = {} THEN Blank ELSE @]
  /\ UNCHANGED <<cloud, tables, todo>>

-----------------------------------------------------------------------------
Work(s) ==
  \/ StartSweep(s) \/ NotThere(s) \/ Flip(s) \/ Finish(s)
  \/ \E a \in Account : Visit(s, a)
  \/ \E sc \in Scope : List(s, sc)
  \/ \E x \in Resource : Upsert(s, x) \/ Collect(s, x)

Trouble(s) == Stumble(s) \/ \E sc \in Scope : ListFails(s, sc)

Owners ==
  \E a \in Attended :
    \/ Switch(a) \/ Delete(a)
    \/ \E r \in Region \cup {All} : Select(a, r)
    \/ \E s \in Request : StartRequest(s, a)

Next ==
  \/ \E s \in Session : Work(s) \/ Trouble(s)
  \/ Owners
  \/ \E x \in Resource : Evolve(x)

Spec == Init /\ [][Next]_vars

\* The job is started again for ever, and a pass that does not fail goes on.
FairSpec == Spec /\ \A s \in Session : WF_vars(Work(s))

-----------------------------------------------------------------------------
(* Properties.                                                              *)

\* A row is flipped to inactive only when its resource is gone from the
\* provider, or when another pass has upserted it since the listing of the pass
\* that flips it: neither a listing that failed, nor another region's, nor a
\* selection, nor an old snapshot says that a resource is not there.
FlippedWasGone ==
  [][\A x \in Resource :
       row[x] = "active" /\ row'[x] = "inactive" =>
         \/ cloud[x] = "gone"
         \/ \E s \in Session : scope[s] = Home[x] /\ x \in meanwhile[s]]_vars

\* A row that the pass of s is to insert and that another pass has inserted
\* since the snapshot of s: unique(account, category, region, id) will refuse it.
Overtaken(s) == \E x \in left[s] : view[s].row[x] = "absent" /\ row[x] # "absent"

\* Whatever the calls of an account do, the sweep goes on: an account leaves it
\* only by being visited or for want of a region, or with the whole sweep, and
\* that only in two cases, in which the handler of discover_all raises itself:
\* the account at work or one behind it was deleted, or the pass was overtaken.
SweepGoesOn ==
  [][\A s \in Sweep : \A a \in todo[s] \ todo'[s] :
       \/ at'[s] = a
       \/ RegionsOf(a, view[s].account) = {}
       \/ \E b \in Account \cap (todo[s] \cup {at[s]}) : ~ account[b].there
       \/ Overtaken(s)]_vars

\* Nothing of a deleted account stays behind or is written after its deletion
\* by a pass that had already begun: neither resources nor metrics.
NothingOfDeletedAccounts ==
  /\ \A x \in Resource : row[x] # "absent" => account[OwnerOf(x)].there
  /\ \A x \in metered : row[x] # "absent"

\* The rows in the scopes of a connected account say what exists.
Mirrored ==
  \A x \in Resource :
    LET a == OwnerOf(x) IN
    /\ account[a].there /\ account[a].ready
    /\ Home[x][2] \in RegionsOf(a, account) /\ Home[x][3] \in Category
    => (row[x] = "active" <=> cloud[x] = "running")

\* Whatever overlapping passes did to each other, the sweeps of the job repair
\* it: in the end the table mirrors the provider.
Mirrors == <>[]Mirrored
=============================================================================
