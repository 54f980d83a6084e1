---------------------------- MODULE ProviderCalls ----------------------------
(***************************************************************************)
(* Requests that call a cloud provider through its adapter: the inventory  *)
(* (CloudResourceInventoryService, and discovery's listings), the regions, *)
(* test_connection, and provisioning with its audit log                    *)
(* (CloudProvisioningService).  A call is tried again up to three times    *)
(* where the adapter says so; a listing then starts over with its first    *)
(* page.  What is refused before the first call (an unknown type, another  *)
(* user's account, a confirmation that is not the identifier) changes      *)
(* nothing and is no step.                                                 *)
(***************************************************************************)
EXTENDS ProviderAdapters, CloudInventory, FiniteSets

CONSTANTS
  Slot,         \* requests served at a time
  Provider,     \* those an account may be with
  PageSize,
  MaxRequests   \* bound: requests served

ASSUME ProviderAssumption == Provider \subseteq DOMAIN Registry
ASSUME CallsAssumption == MaxRequests \in Nat /\ PageSize \in Nat \ {0}

MaxAttempts == 3

VARIABLES
  contract,  \* the provider of the account and the credentials it stores
  stock,     \* stock[r]: what r is and where, NotYet or Gone
  call,      \* call[s]: the request s is serving, or Idle
  audit,     \* rows of the audit log
  did,       \* <<request, resource, effect>>: what requests changed
  served     \* requests so far, bounded by MaxRequests

callVars == <<contract, stock, call, audit, did, served>>

NotYet == [gone |-> FALSE]
Gone == [gone |-> TRUE]
Idle == [op |-> "none"]
Nowhere == "nowhere"
Nothing == "nothing"

Adapter == Registry[contract.provider]
Provisionable == Category \cap {"compute", "storage", "networking"}
Thing == [category : Category \cup {"interface"}, region : Region]
Exists(r) == stock[r] \notin {NotYet, Gone}

ProviderRequest ==
  [nr : 1..MaxRequests, op : {"regions", "test", "list", "deploy", "destroy"},
   category : Category \cup {Nothing}, all : BOOLEAN,
   todo : SUBSET Region,                \* regions still to list
   region : Region \cup {Nowhere},      \* the one being called
   target : Resource \cup {Nowhere},    \* what is destroyed, or was created
   at : {"asking", "calling", "identity", "audit", "answered"},
   done : 0..1,                         \* a call before has succeeded
   attempt : 1..MaxAttempts,
   page : SUBSET Resource,              \* read by this attempt
   got : SUBSET (Resource \X Region),   \* identifier and the region it is shown in
   skipped : SUBSET Region,             \* regions that raised
   owed : SUBSET Resource,              \* listed category, there all along
   outcome : {"none", "ok", "error", "THROTTLED", "escaped"}]

\* One type invariant.  A listing shows no region it has skipped.
CallsTypeOK ==
  /\ contract \in [provider : Provider, keys : SUBSET {"always", "storage"}]
  /\ stock \in [Resource -> Thing \cup {NotYet, Gone}]
  /\ call \in [Slot -> ProviderRequest \cup {Idle}]
  /\ audit \subseteq [nr : 1..MaxRequests, op : {"deploy", "destroy"},
                      resource : Resource \cup {Nowhere}, outcome : {"ok", "error"}]
  /\ did \subseteq (1..MaxRequests) \X Resource \X {"created", "prepared", "destroyed"}
  /\ served \in 0..MaxRequests
  /\ \A s \in Slot : call[s] # Idle => \A p \in call[s].got : p[2] \notin call[s].skipped

CallsInit ==
  /\ contract \in [provider : Provider, keys : SUBSET {"always", "storage"}]
  /\ \A k \in contract.keys : Adapter.keys[k] # {}
  /\ stock = [r \in Resource |-> NotYet]
  /\ call = [s \in Slot |-> Idle]
  /\ audit = {} /\ did = {} /\ served = 0

-----------------------------------------------------------------------------
(* What the adapter makes of a call.                                       *)

\* The checks before the first call: authenticate, the keys of object storage,
\* capabilities a provider has not got, the specification of what to create.
Refuses(c, complete) ==
  \/ Adapter.keys.always # {} /\ "always" \notin contract.keys
  \/ /\ c.op \in {"list", "deploy", "destroy"} /\ c.category = "storage"
     /\ Adapter.keys.storage # {} /\ "storage" \notin contract.keys
  \/ c.op = "list" /\ c.category \notin DOMAIN Adapter.lists
  \/ c.op = "deploy" /\ ~ complete /\ Adapter.needs[c.category] # {}

Lister(c) == Adapter.lists[c.category]
\* AWS tests credentials with calls of its own.
OwnTest(c) == c.op = "test" /\ contract.provider = "aws"

\* Mutant of Tried: a deployment is tried again.
TriedAlways(c) == c.op = "list" => Lister(c).tried

\* Only listings are tried again.
Tried(c) == \/ c.op = "list" /\ Lister(c).tried
            \/ c.op \in {"regions", "test"} /\ c.at = "calling" /\ ~ OwnTest(c)

MayRetry(c, f) == f \in Adapter.retried /\ Tried(c) /\ c.attempt < MaxAttempts

Caught(c) ==
  CASE c.op = "list" -> Lister(c).caught
    [] c.op \in {"deploy", "destroy"} -> Adapter.caught
    [] c.at = "asking" -> DOMAIN AwsTest
    [] c.at = "identity" -> Adapter.identity
    [] OTHER -> DOMAIN Adapter.regions

\* Once the regions have proven the credentials, the account's name may stay
\* unknown.
Forgiven(c, f) == c.at = "identity" /\ f \in Adapter.identity

\* An application error, or an exception nobody expects.
Raised(c, f) ==
  CASE f \notin Caught(c) -> "escaped"
    [] f = "throttled" /\ c.op \in {"regions", "test"} /\ c.at = "calling" -> "THROTTLED"
    [] OTHER -> "error"

-----------------------------------------------------------------------------
(* The request's own course.                                               *)

\* Mutant of Recorded: only what succeeds is recorded.
RecordedSuccess(c, outcome) == c.op \in {"deploy", "destroy"} /\ outcome = "ok"

\* deploy and destroy write an audit row for a success and for an application
\* error.
Recorded(c, outcome) == c.op \in {"deploy", "destroy"} /\ outcome # "escaped"

Concluded(c, outcome) ==
  [c EXCEPT !.outcome = outcome,
            !.at = IF Recorded(c, outcome) THEN "audit" ELSE "answered"]

\* Mutant of Onwards: the region is not taken off the list.
OnwardsAgain(c) ==
  IF c.todo = {} THEN {Concluded(c, "ok")}
  ELSE {[c EXCEPT !.region = r, !.attempt = 1, !.page = {}] : r \in c.todo}

\* The next region of a listing of all regions, or the answer.
Onwards(c) ==
  IF c.todo = {} THEN {Concluded(c, "ok")}
  ELSE {[c EXCEPT !.region = r, !.todo = @ \ {r}, !.attempt = 1, !.page = {}] : r \in c.todo}

\* After a failure: a listing of all regions skips the region, unless the
\* exception is not an application error.
Afterwards(c, outcome) ==
  IF c.op = "list" /\ c.all /\ outcome # "escaped"
  THEN Onwards([c EXCEPT !.skipped = @ \cup {c.region}])
  ELSE {Concluded(c, outcome)}

\* A new request.  One that is refused without a call raises an application
\* error, which a listing of all regions skips region by region.
Serve(s, op, category, region, target, complete) ==
  LET c == [nr |-> served + 1, op |-> op, category |-> category,
            all |-> region = All, todo |-> IF region = All THEN Region ELSE {},
            region |-> IF region = All THEN Nowhere ELSE region,
            target |-> target, at |-> "calling", done |-> 0, attempt |-> 1,
            page |-> {}, got |-> {}, skipped |-> {},
            owed |-> {r \in Resource : op = "list" /\ Exists(r) /\ stock[r].category = category},
            outcome |-> "none"] IN
  /\ call[s] = Idle
  /\ served < MaxRequests
  /\ \/ /\ Refuses(c, complete)
        /\ call' = [call EXCEPT ![s] =
             IF c.all THEN Concluded([c EXCEPT !.skipped = Region, !.todo = {}], "ok")
             ELSE Concluded(c, "error")]
     \/ /\ ~ Refuses(c, complete)
        /\ \E d \in IF c.all THEN Onwards(c)
                    ELSE {[c EXCEPT !.at = IF OwnTest(c) THEN "asking" ELSE "calling"]} :
             call' = [call EXCEPT ![s] = d]
  /\ served' = served + 1
  /\ UNCHANGED <<contract, stock, audit, did>>

\* A call that has changed nothing fails.
Fail(s, f) ==
  LET c == call[s] IN
  /\ c # Idle /\ c.at \in {"asking", "calling", "identity"}
  /\ IF MayRetry(c, f)
     THEN call' = [call EXCEPT ![s].attempt = IF @ < MaxAttempts THEN @ + 1 ELSE @,
                               ![s].page = {}]
     ELSE \E d \in IF Forgiven(c, f) THEN {Concluded(c, "ok")}
                   ELSE Afterwards(c, Raised(c, f)) : call' = [call EXCEPT ![s] = d]
  /\ UNCHANGED <<contract, stock, audit, did, served>>

-----------------------------------------------------------------------------
(* Listings and tests.                                                     *)

\* What the provider would return for the region.
InScope(c) ==
  {r \in Resource : /\ Exists(r) /\ stock[r].category = c.category
                    /\ Lister(c).scoped => stock[r].region = c.region}

\* Mutant of LastPage: the token of the next page is not followed.
LastPageFirst(c, rest) == TRUE
LastPage(c, rest) == rest = {} \/ ~ Lister(c).paged

\* A page arrives; the last one ends the region.
Fetch(s) ==
  LET c == call[s] IN
  /\ c.op = "list" /\ c.at = "calling"
  /\ \E new \in SUBSET (InScope(c) \ c.page) :
       LET page == c.page \cup new  rest == InScope(c) \ page IN
       /\ Cardinality(new) <= PageSize
       /\ rest # {} => Cardinality(new) = PageSize
       /\ IF LastPage(c, rest)
          THEN \E d \in Onwards([c EXCEPT !.got = @ \cup (page \X {c.region})]) :
                 call' = [call EXCEPT ![s] = d]
          ELSE call' = [call EXCEPT ![s].page = page]
  /\ UNCHANGED <<contract, stock, audit, did, served>>

\* The identity arrives, or the regions; the account's region may be unknown to
\* the provider.
Reply(s) ==
  LET c == call[s] IN
  /\ c.op \in {"regions", "test"} /\ c.at \in {"asking", "calling", "identity"}
  /\ \E known \in BOOLEAN :
       call' = [call EXCEPT ![s] =
         CASE c.at = "asking" -> [c EXCEPT !.at = "calling"]
           [] c.at = "calling" /\ c.op = "test" /\ ~ known -> Concluded(c, "error")
           [] c.at = "calling" /\ c.op = "test" /\ Adapter.identity # {} ->
                [c EXCEPT !.at = "identity", !.done = 1]
           [] OTHER -> Concluded(c, "ok")]
  /\ UNCHANGED <<contract, stock, audit, did, served>>

-----------------------------------------------------------------------------
(* Provisioning.                                                           *)

\* Azure creates a network interface before the machine.
Part(c) == IF c.category \in Adapter.interface /\ c.done = 0 THEN "interface" ELSE c.category

\* The provider creates something; its response arrives, or fails to.
Create(s, r, f) ==
  LET c == call[s]
      thing == [category |-> Part(c), region |-> c.region]
      after == [c EXCEPT !.target = r] IN
  /\ c.op = "deploy" /\ c.at = "calling"
  /\ stock[r] = NotYet
  /\ f \in Silence \cup {"none"}
  /\ stock' = [stock EXCEPT ![r] = thing]
  /\ did' = did \cup {<<c.nr, r, IF Part(c) = "interface" THEN "prepared" ELSE "created">>}
  /\ call' = [call EXCEPT ![s] =
       CASE f # "none" -> IF MayRetry(c, f) THEN [c EXCEPT !.attempt = @ + 1]
                          ELSE Concluded(c, Raised(c, f))
         [] thing.category = "interface" -> [c EXCEPT !.done = 1]
         [] OTHER -> Concluded(after, "ok")]
  /\ UNCHANGED <<contract, audit, served>>

\* Listings under way may miss what is destroyed meanwhile.
Missed(r) ==
  [s \in Slot |-> IF call[s] = Idle THEN Idle ELSE [call[s] EXCEPT !.owed = @ \ {r}]]

\* The provider destroys something; its response arrives, or fails to.  It
\* refuses what is not there: then the call fails.
Destroy(s, f) ==
  LET c == call[s] IN
  /\ c.op = "destroy" /\ c.at = "calling"
  /\ Exists(c.target)
  /\ f \in Silence \cup {"none"}
  /\ stock' = [stock EXCEPT ![c.target] = Gone]
  /\ did' = did \cup {<<c.nr, c.target, "destroyed">>}
  /\ call' = [Missed(c.target) EXCEPT ![s] = Concluded(@, IF f = "none" THEN "ok" ELSE Raised(c, f))]
  /\ UNCHANGED <<contract, audit, served>>

\* The audit row, in a transaction of its own.
Audit(s) ==
  LET c == call[s] IN
  /\ c # Idle /\ c.at = "audit"
  /\ audit' = audit \cup {[nr |-> c.nr, op |-> c.op, resource |-> c.target, outcome |-> c.outcome]}
  /\ call' = [call EXCEPT ![s].at = "answered"]
  /\ UNCHANGED <<contract, stock, did, served>>

Return(s) ==
  LET c == call[s] IN
  /\ c # Idle /\ c.at = "answered"
  /\ call' = [call EXCEPT ![s] = Idle]
  /\ UNCHANGED <<contract, stock, audit, did, served>>

\* The process dies.
Crash(s) ==
  LET c == call[s] IN
  /\ c # Idle
  /\ call' = [call EXCEPT ![s] = Idle]
  /\ UNCHANGED <<contract, stock, audit, did, served>>

-----------------------------------------------------------------------------
\* Somebody creates or destroys a resource at the provider's console.
Elsewhere(r) ==
  /\ \/ /\ stock[r] = NotYet
        /\ \E thing \in [category : Category, region : Region] :
             stock' = [stock EXCEPT ![r] = thing]
        /\ UNCHANGED call
     \/ /\ Exists(r)
        /\ stock' = [stock EXCEPT ![r] = Gone]
        /\ call' = Missed(r)
  /\ UNCHANGED <<contract, audit, did, served>>

\* What happens to a request that is being served.
Proceed(s) ==
  \/ Fetch(s) \/ Reply(s) \/ Audit(s) \/ Return(s)
  \/ \E f \in Fault : Fail(s, f)
  \/ \E f \in Silence \cup {"none"} : Destroy(s, f) \/ \E r \in Resource : Create(s, r, f)

CallsNext ==
  \E s \in Slot :
    \/ \E op \in {"regions", "test"} : Serve(s, op, Nothing, Nowhere, Nowhere, TRUE)
    \/ \E category \in Category, region \in Region \cup {All} :
         Serve(s, "list", category, region, Nowhere, TRUE)
    \/ \E category \in Provisionable, region \in Region, complete \in BOOLEAN :
         Serve(s, "deploy", category, region, Nowhere, complete)
    \/ \E category \in Provisionable, region \in Region, r \in Resource :
         Serve(s, "destroy", category, region, r, TRUE)
    \/ Proceed(s)
    \/ Crash(s)
    \/ \E r \in Resource : Elsewhere(r)

CallsSpec == CallsInit /\ [][CallsNext]_callVars

-----------------------------------------------------------------------------
(* Properties.                                                             *)

\* The audit log says "success" only of what the provider has really done for
\* that very request; and an attempt that was answered with success or with an
\* application error, refused without a call, failed half-way or lost its
\* response, has its own row with that outcome (deploy and destroy record both).
\* Not every attempt has one: an exception that is no application error leaves
\* deploy and destroy without a row, and so does a crash.
AuditIsTrue ==
  /\ \A row \in audit : row.outcome = "ok" =>
       <<row.nr, row.resource, IF row.op = "deploy" THEN "created" ELSE "destroyed">> \in did
  /\ \A s \in Slot :
       LET c == call[s] IN
       c # Idle /\ c.at = "answered" /\ c.op \in {"deploy", "destroy"} /\ c.outcome # "escaped" =>
         \E row \in audit : /\ row.nr = c.nr /\ row.op = c.op
                            /\ row.resource = c.target /\ row.outcome = c.outcome

\* A deployment whose response is lost is not sent again: a request creates
\* one thing, next to the interface a machine of Azure needs.
NothingTwice ==
  \A d, e \in did : d[1] = e[1] /\ d[3] = e[3] => d = e

\* A listing that reads every page has, whatever is created and destroyed
\* between pages and attempts, all that was there throughout; only regions that
\* raised are missing.
ListingsAreComplete(c) ==
  c.outcome = "ok" =>
    \A r \in c.owed :
      \/ c.category \notin DOMAIN Adapter.lists \/ ~ Lister(c).paged
      \/ stock[r].region \in c.skipped
      \/ ~ c.all /\ stock[r].region # c.region
      \/ \E p \in c.got : p[1] = r

\* Where a listing is of one region, nothing appears in a region it is not in,
\* and so nothing appears twice in a listing of all regions.
ListedWhereItIs(c) ==
  \A p \in c.got : Lister(c).scoped /\ Exists(p[1]) => stock[p[1]].region = p[2]

\* Both, of every listing that is being served (list_resources, with or without
\* the sentinel for all regions).
ListingsAreExact ==
  \A s \in Slot :
    LET c == call[s] IN
    c # Idle /\ c.op = "list" => ListingsAreComplete(c) /\ ListedWhereItIs(c)
=============================================================================
