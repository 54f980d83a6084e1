--------------------------- MODULE MetricsSyncProofs ---------------------------
(***************************************************************************)
(* Theorems about MetricsSync, for any deployments, accounts, time zones,  *)
(* resources, sessions and editors.                                        *)
(***************************************************************************)
EXTENDS MetricsSync, TLAPS

USE BoundAssumption, NoneAssumption, TableAssumption

Proof == {"unproven", "validated", "deleted"}
Table == [Deployment -> Row \cup {NotYet, Gone}]
Shown == [row : Table, account : [Account -> Proof]]
Link  == [account : Account \cup {None}, resource : Resource \cup {None}]

\* A session without a transaction has nothing to do, or a row to confirm.
Rests(s) == IF at[s] = None THEN todo[s] = {} ELSE Answered(s)

\* What TypeOK leaves open.
Shape ==
  /\ view \in [Session -> Shown \cup {NoView}]
  /\ link \in [Session -> Link]
  /\ \A s \in Session : view[s] = NoView => Rests(s)
  /\ \A s \in Session : at[s] = None => asked[s] = 0

IType == TypeOK /\ Shape

-----------------------------------------------------------------------------
(* What a fetcher, a row and a transaction are.                            *)

\* Every fetcher sends a number of queries.
LEMMA QueriesCount ==
  ASSUME NEW p \in Supported
  PROVE  Len(Fetcher[p].queries) \in Nat
<1>1. p \in {"aws", "azure", "gcp", "digitalocean"}
  BY DEF Supported, Fetcher
<1>2. CASE p = "aws"
  BY <1>2 DEF Fetcher, Ec2
<1>3. CASE p = "azure"
  BY <1>3 DEF Fetcher, Ec2, Vm
<1>4. CASE p = "gcp"
  BY <1>4 DEF Fetcher, Ec2, GceInstance
<1>5. CASE p = "digitalocean"
  BY <1>5 DEF Fetcher, Droplet
<1> QED BY <1>1, <1>2, <1>3, <1>4, <1>5

\* An open transaction is not a closed one.
LEMMA NowIsShown ==
  ASSUME TypeOK
  PROVE  Now \in Shown
BY DEF TypeOK, Now, Shown, Table, Proof

LEMMA ShownIsOpen ==
  ASSUME NEW v \in Shown
  PROVE  v # NoView
<1>1. DOMAIN v = {"row", "account"}
  BY DEF Shown
<1>2. DOMAIN NoView = {"closed"}
  BY DEF NoView
<1> QED BY <1>1, <1>2

LEMMA LinkedRows ==
  ASSUME NEW table \in Table, NEW d \in Linked(table)
  PROVE  /\ d \in Deployment /\ Exists(table, d) /\ table[d] \in Row
         /\ table[d].account \in Account /\ table[d].resource \in Resource
BY DEF Linked, Exists, Table, Row

\* A request changes the links it gives and keeps the others.
LEMMA PatchedType ==
  ASSUME NEW r \in Row, NEW patch \in Patch
  PROVE  /\ Patched(r, patch) \in Row
         /\ Patched(r, patch).account =
              IF patch.account = Keep THEN r.account ELSE patch.account
<1> DEFINE new(f) == IF patch[f] = Keep THEN r[f] ELSE patch[f]
<1>1. DOMAIN r = {"account", "resource", "zone"}
  BY DEF Row
<1>2. Patched(r, patch) = [account |-> new("account"), resource |-> new("resource"),
                           zone |-> new("zone")]
  BY <1>1 DEF Patched
<1>3. /\ new("account") \in Account \cup {None}
      /\ new("resource") \in Resource \cup {None} /\ new("zone") \in Zone \cup {None}
  BY DEF Row, Patch
<1> QED BY <1>2, <1>3 DEF Row

\* An update writes what the request changed over what is stored by then.
LEMMA WrittenType ==
  ASSUME NEW stored \in Row \cup {NotYet, Gone}, NEW seen \in Row \cup {NotYet}, NEW new \in Row,
         seen # NotYet => stored \in Row
  PROVE  /\ Written(stored, seen, new) \in Row
         /\ Written(stored, seen, new).account =
              IF seen # NotYet /\ new.account = seen.account
              THEN stored.account ELSE new.account
<1> DEFINE w(f) == IF seen # NotYet /\ new[f] = seen[f] THEN stored[f] ELSE new[f]
<1>1. DOMAIN new = {"account", "resource", "zone"}
  BY DEF Row
<1>2. Written(stored, seen, new) = [account |-> w("account"), resource |-> w("resource"),
                                    zone |-> w("zone")]
  BY <1>1 DEF Written
<1>3. /\ w("account") \in Account \cup {None}
      /\ w("resource") \in Resource \cup {None} /\ w("zone") \in Zone \cup {None}
  BY DEF Row
<1> QED BY <1>2, <1>3 DEF Row

\* Cutting links leaves a row a row, and gives it no account it had not.
LEMMA SeveredType ==
  ASSUME row \in Table, NEW accounts, NEW entries
  PROVE  /\ Severed(accounts, entries) \in Table
         /\ \A d \in Deployment :
              LET cut == Severed(accounts, entries) IN
              Exists(cut, d) => /\ Exists(row, d)
                                /\ cut[d].account \in {row[d].account, None}
<1> DEFINE cut == Severed(accounts, entries)
<1> SUFFICES ASSUME NEW d \in Deployment
             PROVE  /\ cut[d] \in Row \cup {NotYet, Gone}
                    /\ Exists(cut, d) => /\ Exists(row, d)
                                         /\ cut[d].account \in {row[d].account, None}
  BY DEF Severed, Table
<1>1. CASE ~ Exists(row, d)
  BY <1>1 DEF Severed, Exists, Table
<1>2. CASE Exists(row, d)
  <2>1. row[d] \in Row
    BY <1>2 DEF Table, Exists
  <2> DEFINE acc  == IF row[d].account \in accounts THEN None ELSE row[d].account
             zone == IF row[d].zone \in entries THEN None ELSE row[d].zone
  <2>2. cut[d] = [row[d] EXCEPT !.account = acc, !.zone = zone]
    BY <1>2 DEF Severed
  <2>3. acc \in Account \cup {None} /\ zone \in Zone \cup {None} /\ acc \in {row[d].account, None}
    BY <2>1 DEF Row
  <2> HIDE DEF acc, zone, cut
  <2> QED BY <1>2, <2>1, <2>2, <2>3 DEF Row
<1> QED BY <1>1, <1>2

-----------------------------------------------------------------------------
(* Types.                                                                  *)

LEMMA InitType == Init => IType
<1> SUFFICES ASSUME Init PROVE IType
  OBVIOUS
<1>1. row \in Table
  BY DEF Init, Table, Row
<1>2. \A s \in Session : ~ (at[s] # None)
  BY DEF Init
<1>3. TypeOK
  <2>1. /\ account \in [Account -> {"unproven", "validated", "deleted"}]
        /\ zones \subseteq Zone /\ usage \subseteq Sample
        /\ reports \in [Resource -> SUBSET Series]
        /\ edit \in [Editor -> Edit \cup {NoEdit}]
    BY DEF Init
  <2>2. \A s \in Session : view[s] = NoView
    BY DEF Init
  <2>3. /\ todo \in [Session -> SUBSET Deployment]
        /\ at \in [Session -> Deployment \cup {None}]
        /\ tries \in [Session -> 0..MaxTries] /\ asked \in [Session -> Nat]
        /\ got \in [Session -> SUBSET Series] /\ events \in 0..MaxEvents
        /\ crashed \subseteq Session
    BY DEF Init, MaxTries
  <2> QED BY <1>1, <1>2, <2>1, <2>2, <2>3 DEF TypeOK, Table, Calling
<1>4. Shape
  BY DEF Init, Shape, Link, NoLink, Rests
<1> QED BY <1>3, <1>4 DEF IType

\* A session that hangs up is between two calls, the others go on with theirs.
LEMMA HangupType ==
  ASSUME IType, NEW s \in Session, Hangup(s)
  PROVE  /\ at' \in [Session -> Deployment \cup {None}] /\ link' \in [Session -> Link]
         /\ asked' \in [Session -> Nat] /\ tries' \in [Session -> 0..MaxTries]
         /\ got' \in [Session -> SUBSET Series]
         /\ at'[s] = None
         /\ \A q \in Session : at'[q] = None => asked'[q] = 0
         /\ \A q \in Session : Calling(q)'
         /\ \A q \in Session : at'[q] # None => at'[q] = at[q] /\ link'[q] = link[q]
<1>1. /\ at' = [at EXCEPT ![s] = None] /\ link' = [link EXCEPT ![s] = NoLink]
      /\ asked' = [asked EXCEPT ![s] = 0] /\ tries' = [tries EXCEPT ![s] = 0]
      /\ got' = [got EXCEPT ![s] = {}]
  BY DEF Hangup
<1>2. /\ at \in [Session -> Deployment \cup {None}] /\ link \in [Session -> Link]
      /\ asked \in [Session -> Nat] /\ tries \in [Session -> 0..MaxTries]
      /\ got \in [Session -> SUBSET Series]
      /\ \A q \in Session : at[q] = None => asked[q] = 0
  BY DEF IType, TypeOK, Shape
<1>3. NoLink \in Link /\ 0 \in 0..MaxTries
  BY DEF NoLink, Link, MaxTries
<1>4. \A q \in Session \ {s} : at'[q] = at[q] /\ link'[q] = link[q] /\ asked'[q] = asked[q]
  BY <1>1, <1>2
<1>5. \A q \in Session : Calling(q)
  BY DEF IType, TypeOK
<1>6. at'[s] = None
  BY <1>1, <1>2
<1>7. \A q \in Session : Calling(q)'
  BY <1>4, <1>5, <1>6 DEF Calling, FetcherOf
<1>8. \A q \in Session : at'[q] = None => asked'[q] = 0
  BY <1>1, <1>2
<1>9. /\ at' \in [Session -> Deployment \cup {None}] /\ link' \in [Session -> Link]
      /\ asked' \in [Session -> Nat]
  BY <1>1, <1>2, <1>3
<1>10. tries' \in [Session -> 0..MaxTries] /\ got' \in [Session -> SUBSET Series]
  BY <1>1, <1>2, <1>3
<1> QED BY <1>4, <1>6, <1>7, <1>8, <1>9, <1>10

\* ... and one that is over leaves nothing behind.
LEMMA EndsType ==
  ASSUME IType, NEW s \in Session, Ends(s)
  PROVE  /\ todo' \in [Session -> SUBSET Deployment]
         /\ view' \in [Session -> Shown \cup {NoView}]
         /\ \A q \in Session : view'[q] = NoView => Rests(q)'
         /\ \A q \in Session : view'[q] # NoView => view'[q] = view[q]
<1>1. /\ todo' = [todo EXCEPT ![s] = {}] /\ view' = [view EXCEPT ![s] = NoView]
      /\ at' = [at EXCEPT ![s] = None] /\ link' = [link EXCEPT ![s] = NoLink]
      /\ asked' = [asked EXCEPT ![s] = 0]
  BY DEF Ends, Hangup
<1>2. /\ at \in [Session -> Deployment \cup {None}]
      /\ link \in [Session -> Link] /\ asked \in [Session -> Nat]
      /\ todo \in [Session -> SUBSET Deployment]
      /\ view \in [Session -> Shown \cup {NoView}]
      /\ \A q \in Session : view[q] = NoView => Rests(q)
  BY DEF IType, TypeOK, Shape
<1>3. Rests(s)'
  BY <1>1, <1>2 DEF Rests
<1>4. \A q \in Session \ {s} :
        view'[q] = view[q] /\ (Rests(q) => Rests(q)')
  BY <1>1, <1>2 DEF Rests, Answered, FetcherOf
<1>5. /\ todo' \in [Session -> SUBSET Deployment]
      /\ view' \in [Session -> Shown \cup {NoView}] /\ view'[s] = NoView
  BY <1>1, <1>2
<1>6. \A q \in Session : view'[q] = NoView => Rests(q)'
  BY <1>2, <1>3, <1>4
<1> QED BY <1>4, <1>5, <1>6

\* ... and so it is with one that gives up a deployment.
LEMMA GiveUpType ==
  ASSUME IType, NEW s \in Session, GiveUp(s), view[s] # NoView
  PROVE  /\ todo' \in [Session -> SUBSET Deployment] /\ view' = view
         /\ \A q \in Session : view'[q] = NoView => Rests(q)'
<1>1. /\ todo' = [todo EXCEPT ![s] = @ \ {at[s]}] /\ view' = view
      /\ at' = [at EXCEPT ![s] = None] /\ link' = [link EXCEPT ![s] = NoLink]
      /\ asked' = [asked EXCEPT ![s] = 0]
  BY DEF GiveUp, Hangup
<1>2. /\ at \in [Session -> Deployment \cup {None}]
      /\ link \in [Session -> Link] /\ asked \in [Session -> Nat]
      /\ todo \in [Session -> SUBSET Deployment]
      /\ \A q \in Session : view[q] = NoView => Rests(q)
  BY DEF IType, TypeOK, Shape
<1>3. \A q \in Session \ {s} : Rests(q) => Rests(q)'
  BY <1>1, <1>2 DEF Rests, Answered, FetcherOf
<1>4. todo' \in [Session -> SUBSET Deployment]
  BY <1>1, <1>2
<1> QED BY <1>1, <1>2, <1>3, <1>4

-----------------------------------------------------------------------------
(* One step for each action.                                               *)

\* What has to be shown of an action of a session ...
LEMMA SessionStep ==
  ASSUME IType, UNCHANGED <<row, account, zones, reports, edit>>,
         usage' \in SUBSET Sample, events' \in 0..MaxEvents, crashed' \in SUBSET Session,
         view' \in [Session -> Shown \cup {NoView}],
         todo' \in [Session -> SUBSET Deployment],
         at' \in [Session -> Deployment \cup {None}], link' \in [Session -> Link],
         asked' \in [Session -> Nat], tries' \in [Session -> 0..MaxTries],
         got' \in [Session -> SUBSET Series],
         \A q \in Session : Calling(q)',
         \A q \in Session : view'[q] = NoView => Rests(q)',
         \A q \in Session : at'[q] = None => asked'[q] = 0
  PROVE  IType'
<1>1. \A q \in Session : view'[q] # NoView =>
        /\ view'[q].row \in [Deployment -> Row \cup {NotYet, Gone}]
        /\ view'[q].account \in [Account -> {"unproven", "validated", "deleted"}]
  BY DEF Shown, Table, Proof
<1> QED BY <1>1 DEF IType, TypeOK, Shape

\* ... and of one that leaves the sessions alone.
LEMMA TableStep ==
  ASSUME IType, UNCHANGED session,
         row' \in Table, account' \in [Account -> Proof], zones' \in SUBSET Zone,
         reports' \in [Resource -> SUBSET Series],
         edit' \in [Editor -> Edit \cup {NoEdit}],
         usage' \in SUBSET Sample, events' \in 0..MaxEvents, crashed' \in SUBSET Session
  PROVE  IType'
<1>1. \A q \in Session : Calling(q)' /\ (Rests(q) => Rests(q)')
  BY DEF IType, TypeOK, Calling, Rests, Answered, FetcherOf, session, call
<1> QED BY <1>1 DEF IType, TypeOK, Shape, Table, Proof, session, call

LEMMA StartType ==
  ASSUME IType, NEW s \in Session,
         StartSweep(s) \/ \E d \in Deployment : StartRequest(s, d)
  PROVE  IType'
<1>1. /\ view' = [view EXCEPT ![s] = Now] /\ at[s] = None
      /\ UNCHANGED <<tables, reports, edit, call>>
  BY DEF StartSweep, StartRequest
<1>2. PICK queue \in SUBSET Deployment : todo' = [todo EXCEPT ![s] = queue]
  BY DEF StartSweep, StartRequest, Linked
<1>3. events' \in 0..MaxEvents /\ crashed' \in SUBSET Session
  BY DEF StartSweep, StartRequest, IType, TypeOK
<1>4. /\ view' \in [Session -> Shown \cup {NoView}]
      /\ \A q \in Session : view'[q] = NoView => q # s /\ view[q] = NoView
  BY <1>1, NowIsShown, ShownIsOpen DEF IType, Shape
<1>5. todo' \in [Session -> SUBSET Deployment]
  BY <1>2 DEF IType, TypeOK
<1>6. \A q \in Session \ {s} : Rests(q) => Rests(q)'
  BY <1>1, <1>2 DEF Rests, Answered, FetcherOf, call, IType, TypeOK
<1>7. \A q \in Session : Calling(q)'
  BY <1>1 DEF Calling, FetcherOf, call, IType, TypeOK
<1>8. \A q \in Session : view'[q] = NoView => Rests(q)'
  BY <1>4, <1>6 DEF IType, Shape
<1> QED BY <1>1, <1>3, <1>4, <1>5, <1>7, <1>8, SessionStep
           DEF IType, TypeOK, Shape, tables, call

\* A call begins at the first query of a fetcher there is.
LEMMA VisitType ==
  ASSUME IType, NEW s \in Session, NEW d \in Deployment, Visit(s, d)
  PROVE  IType'
<1>1. /\ at[s] = None /\ d \in todo[s]
      /\ UNCHANGED <<row, account, zones, usage, reports, edit, events, crashed>>
  BY DEF Visit, tables
<1>2. view[s] \in Shown
  BY <1>1 DEF IType, Shape, Rests
<1>3. CASE Ends(s)
  BY <1>1, <1>3, HangupType, EndsType, SessionStep DEF Ends, IType, TypeOK
<1>4. CASE todo' = [todo EXCEPT ![s] = @ \ {d}] /\ UNCHANGED <<view, call>>
  <2>1. todo' \in [Session -> SUBSET Deployment]
    BY <1>4 DEF IType, TypeOK
  <2>2. \A q \in Session : Calling(q)' /\ (Rests(q) => Rests(q)')
    BY <1>4 DEF Calling, Rests, Answered, FetcherOf, call, IType, TypeOK
  <2> QED BY <1>1, <1>4, <2>1, <2>2, SessionStep DEF IType, TypeOK, Shape, call
<1>5. CASE /\ Ready(view[s], d)
           /\ at' = [at EXCEPT ![s] = d] /\ link' = [link EXCEPT ![s] = Target(s, d)]
           /\ UNCHANGED <<view, todo, asked, tries, got>>
  <2>1. /\ Target(s, d).account \in Account /\ Target(s, d).resource \in Resource
        /\ ProviderOf[Target(s, d).account] \in Supported
        /\ Target(s, d) \in Link
    BY <1>2, <1>5, LinkedRows DEF Ready, Target, Shown, Link
  <2>2. /\ at' \in [Session -> Deployment \cup {None}] /\ link' \in [Session -> Link]
        /\ at'[s] = d /\ link'[s] = Target(s, d) /\ asked'[s] = 0 /\ d # None
    BY <1>1, <1>5, <2>1 DEF IType, TypeOK, Shape
  <2>3. \A q \in Session \ {s} : at'[q] = at[q] /\ link'[q] = link[q]
    BY <1>5 DEF IType, TypeOK, Shape
  <2>4. Calling(s)'
    BY <2>1, <2>2, QueriesCount DEF Calling, FetcherOf
  <2>5. \A q \in Session \ {s} : Calling(q)' /\ (Rests(q) => Rests(q)')
    BY <1>5, <2>3 DEF Calling, Rests, Answered, FetcherOf, IType, TypeOK
  <2>6. \A q \in Session : view'[q] = NoView => Rests(q)'
    BY <1>2, <1>5, <2>5, ShownIsOpen DEF IType, Shape
  <2>7. \A q \in Session : at'[q] = None => asked'[q] = 0
    BY <1>5, <2>2, <2>3 DEF IType, Shape
  <2> QED BY <1>1, <1>5, <2>2, <2>4, <2>5, <2>6, <2>7, SessionStep
             DEF IType, TypeOK, Shape
<1> QED BY <1>3, <1>4, <1>5 DEF Visit

\* There is a query left: the session has a transaction.
LEMMA AskingIsOpen ==
  ASSUME IType, NEW s \in Session, at[s] # None, ~ Answered(s)
  PROVE  /\ view[s] # NoView
         /\ asked[s] \in Nat /\ asked[s] + 1 <= Len(FetcherOf(s).queries)
<1>1. view[s] # NoView
  BY DEF IType, Shape, Rests
<1>2. /\ asked[s] \in Nat /\ asked[s] <= Len(FetcherOf(s).queries)
      /\ ProviderOf[link[s].account] \in Supported
  BY DEF IType, TypeOK, Calling
<1>3. Len(FetcherOf(s).queries) \in Nat
  BY <1>2, QueriesCount DEF FetcherOf
<1> QED BY <1>1, <1>2, <1>3 DEF Answered

\* What a query asks for is a series.
LEMMA QueriesAreSeries ==
  ASSUME NEW p \in Supported, NEW i \in 1..Len(Fetcher[p].queries)
  PROVE  Fetcher[p].queries[i] \in SUBSET Series
<1>1. p \in {"aws", "azure", "gcp", "digitalocean"}
  BY DEF Supported, Fetcher
<1>2. CASE p = "aws"
  BY <1>2 DEF Fetcher, Ec2, Series
<1>3. CASE p = "azure"
  BY <1>3 DEF Fetcher, Ec2, Vm, Series
<1>4. CASE p = "gcp"
  <2>1. Fetcher[p].queries = <<{"cpu"}, {"network_in"}, {"network_out"}>>
    BY <1>4 DEF Fetcher, Ec2, GceInstance
  <2>2. Fetcher[p].queries \in Seq(SUBSET Series)
    BY <2>1 DEF Series, Basic
  <2> QED BY <2>2
<1>5. CASE p = "digitalocean"
  <2>1. Fetcher[p].queries =
          <<{"cpu"}, {"memory_total"}, {"memory_available"}, {"disk_total"},
            {"disk_free"}, {"network_in"}, {"network_out"}>>
    BY <1>5 DEF Fetcher, Droplet
  <2>2. Fetcher[p].queries \in Seq(SUBSET Series)
    BY <2>1 DEF Series, Basic
  <2> QED BY <2>2
<1> QED BY <1>1, <1>2, <1>3, <1>4, <1>5

LEMMA AnswerType ==
  ASSUME IType, NEW s \in Session, Answer(s)
  PROVE  IType'
<1>1. /\ at[s] # None /\ ~ Answered(s)
      /\ asked' = [asked EXCEPT ![s] = @ + 1] /\ tries' = [tries EXCEPT ![s] = 0]
      /\ UNCHANGED <<row, account, zones, usage, reports, edit, view, todo, at, link,
                     events, crashed>>
  BY DEF Answer, tables
<1>2. view[s] # NoView /\ asked[s] + 1 <= Len(FetcherOf(s).queries) /\ asked[s] \in Nat
  BY <1>1, AskingIsOpen
<1>3. ProviderOf[link[s].account] \in Supported
  BY <1>1 DEF IType, TypeOK, Calling
<1>4. FetcherOf(s).queries[asked[s] + 1] \in SUBSET Series
  BY <1>2, <1>3, QueriesAreSeries, QueriesCount DEF FetcherOf
<1>5. got' \in [Session -> SUBSET Series]
  BY <1>4 DEF Answer, IType, TypeOK
<1>6. asked' \in [Session -> Nat] /\ tries' \in [Session -> 0..MaxTries]
  BY <1>1 DEF IType, TypeOK, MaxTries
<1>7. \A q \in Session : Calling(q)'
  BY <1>1, <1>2 DEF Calling, FetcherOf, IType, TypeOK
<1>8. \A q \in Session : view'[q] = NoView => Rests(q)'
  BY <1>1, <1>2 DEF Rests, Answered, FetcherOf, IType, TypeOK, Shape
<1>9. \A q \in Session : at'[q] = None => asked'[q] = 0
  BY <1>1 DEF IType, TypeOK, Shape
<1> QED BY <1>1, <1>5, <1>6, <1>7, <1>8, <1>9, SessionStep DEF IType, TypeOK, Shape

LEMMA RetryType ==
  ASSUME IType, NEW s \in Session, Retry(s)
  PROVE  IType'
<1>1. /\ tries[s] + 1 < MaxTries /\ tries' = [tries EXCEPT ![s] = @ + 1]
      /\ UNCHANGED <<row, account, zones, usage, reports, edit, view, todo, at, link,
                     asked, got, events, crashed>>
  BY DEF Retry, tables
<1>2. tries' \in [Session -> 0..MaxTries]
  BY <1>1 DEF IType, TypeOK, MaxTries
<1>3. \A q \in Session : Calling(q)' /\ (Rests(q) => Rests(q)')
  BY <1>1 DEF Calling, Rests, Answered, FetcherOf, IType, TypeOK
<1> QED BY <1>1, <1>2, <1>3, SessionStep DEF IType, TypeOK, Shape

LEMMA QueryFailsType ==
  ASSUME IType, NEW s \in Session, NEW f \in Fault, QueryFails(s, f)
  PROVE  IType'
<1>1. /\ view[s] # NoView /\ GiveUp(s) /\ Hangup(s) /\ events' \in 0..MaxEvents
      /\ UNCHANGED <<row, account, zones, usage, reports, edit, crashed>>
  BY AskingIsOpen DEF QueryFails, GiveUp, tables, IType, TypeOK
<1> QED BY <1>1, HangupType, GiveUpType, SessionStep DEF IType, TypeOK, Shape

LEMMA RecordType ==
  ASSUME IType, NEW s \in Session, Record(s)
  PROVE  IType'
<1>1. /\ at[s] # None /\ Answered(s) /\ view[s] # NoView
      /\ UNCHANGED <<row, account, zones, reports, edit, events, crashed>>
  BY DEF Record
<1>2. CASE GiveUp(s) /\ UNCHANGED usage
  BY <1>1, <1>2, HangupType, GiveUpType, SessionStep DEF GiveUp, IType, TypeOK, Shape
<1>3. CASE Ends(s) /\ UNCHANGED usage
  BY <1>1, <1>3, HangupType, EndsType, SessionStep DEF Ends, IType, TypeOK
<1> DEFINE new == [deployment |-> at[s], account |-> link[s].account,
                   resource |-> link[s].resource,
                   measured |-> Measured(ProviderOf[link[s].account], got[s])]
<1>4. CASE /\ usage' = usage \cup {new}
           /\ view' = [view EXCEPT ![s] = NoView] /\ UNCHANGED <<todo, call>>
  <2>1. /\ at[s] \in Deployment
        /\ link[s].account \in Account /\ link[s].resource \in Resource
    BY <1>1 DEF IType, TypeOK, Calling
  <2>2. Measured(ProviderOf[link[s].account], got[s]) \in SUBSET Column
    BY DEF Measured
  <2>3. new \in Sample
    BY <2>1, <2>2 DEF Sample
  <2>4. usage' \in SUBSET Sample
    BY <1>4, <2>3 DEF IType, TypeOK
  <2>5. view' \in [Session -> Shown \cup {NoView}]
    BY <1>4 DEF IType, Shape
  <2>6. \A q \in Session : Calling(q)' /\ (Rests(q) => Rests(q)')
    BY <1>4 DEF Calling, Rests, Answered, FetcherOf, call, IType, TypeOK
  <2>7. Rests(s)
    BY <1>1 DEF Rests
  <2>8. \A q \in Session : view'[q] = NoView => Rests(q)'
    BY <1>4, <2>6, <2>7 DEF IType, Shape
  <2> QED BY <1>1, <1>4, <2>4, <2>5, <2>6, <2>8, SessionStep
             DEF call, IType, TypeOK, Shape
<1> QED BY <1>2, <1>3, <1>4 DEF Record

LEMMA ConfirmType ==
  ASSUME IType, NEW s \in Session, Confirm(s)
  PROVE  IType'
<1>1. UNCHANGED <<row, account, zones, usage, reports, edit, events, crashed>>
  BY DEF Confirm, tables
<1>2. CASE Ends(s)
  BY <1>1, <1>2, HangupType, EndsType, SessionStep DEF Ends, IType, TypeOK
<1>3. CASE /\ view' = [view EXCEPT ![s] = Now]
           /\ todo' = [todo EXCEPT ![s] = @ \ {at[s]}] /\ Hangup(s)
  <2>1. /\ view' \in [Session -> Shown \cup {NoView}]
        /\ \A q \in Session : view'[q] = NoView => q # s /\ view[q] = NoView
    BY <1>3, NowIsShown, ShownIsOpen DEF IType, Shape
  <2>2. todo' \in [Session -> SUBSET Deployment]
    BY <1>3 DEF IType, TypeOK
  <2>3. \A q \in Session \ {s} : Rests(q) => Rests(q)'
    BY <1>3 DEF Rests, Answered, FetcherOf, Hangup, IType, TypeOK
  <2>4. \A q \in Session : view'[q] = NoView => Rests(q)'
    BY <2>1, <2>3 DEF IType, Shape
  <2> QED BY <1>1, <1>3, <2>1, <2>2, <2>4, HangupType, SessionStep DEF IType, TypeOK
<1> QED BY <1>2, <1>3 DEF Confirm

LEMMA OverType ==
  ASSUME IType, NEW s \in Session, Finish(s) \/ Crash(s)
  PROVE  IType'
<1>1. /\ Ends(s) /\ events' \in 0..MaxEvents /\ crashed' \in SUBSET Session
      /\ UNCHANGED <<row, account, zones, usage, reports, edit>>
  BY DEF Finish, Crash, tables, IType, TypeOK
<1> QED BY <1>1, HangupType, EndsType, SessionStep DEF Ends, IType, TypeOK

\* A request that is checked asks for a row.
LEMMA AskType ==
  ASSUME IType, NEW e \in Editor, NEW d \in Deployment, NEW patch \in Patch,
         Ask(e, d, patch)
  PROVE  IType'
<1> DEFINE base == IF row[d] = NotYet THEN Unlinked ELSE row[d]
           new  == Patched(base, patch)
<1>1. base \in Row /\ row[d] \in Row \cup {NotYet}
  BY DEF Ask, IType, TypeOK, Unlinked, Row
<1>2. new \in Row
  BY <1>1, PatchedType
<1>3. edit' = [edit EXCEPT ![e] = [deployment |-> d, seen |-> row[d], new |-> new]]
  BY DEF Ask
<1> HIDE DEF new
<1>4. edit' \in [Editor -> Edit \cup {NoEdit}]
  BY <1>1, <1>2, <1>3 DEF Edit, IType, TypeOK
<1>5. /\ events' \in 0..MaxEvents
      /\ UNCHANGED <<row, account, zones, usage, reports, session, crashed>>
  BY DEF Ask, tables, IType, TypeOK
<1> QED BY <1>4, <1>5, TableStep DEF IType, TypeOK, Table, Proof

\* What an update leaves behind: a row with the account the request has asked
\* for, or with the one the row has had anyway.
LEMMA WriteEffect ==
  ASSUME IType, NEW e \in Editor, Write(e)
  PROVE  /\ edit[e] \in Edit
         /\ UNCHANGED row \/ \E new \in Row :
              /\ row' = [row EXCEPT ![edit[e].deployment] = new]
              /\ \/ new.account = edit[e].new.account
                 \/ /\ Exists(row, edit[e].deployment)
                    /\ new.account = row[edit[e].deployment].account
<1>1. edit[e] \in Edit
  BY DEF Write, IType, TypeOK
<1>2. PICK d \in Deployment, seen \in Row \cup {NotYet}, asked_for \in Row :
        d = edit[e].deployment /\ seen = edit[e].seen /\ asked_for = edit[e].new
  BY <1>1 DEF Edit
<1> DEFINE new == Written(row[d], seen, asked_for)
<1>3. CASE ~ UNCHANGED row
  <2>1. /\ row' = [row EXCEPT ![d] = new]
        /\ IF seen = NotYet THEN row[d] = NotYet ELSE Exists(row, d)
    BY <1>2, <1>3 DEF Write
  <2>2. seen # NotYet => row[d] \in Row /\ Exists(row, d)
    BY <2>1 DEF Exists, IType, TypeOK
  <2>3. /\ new \in Row
        /\ new.account = IF seen # NotYet /\ asked_for.account = seen.account
                         THEN row[d].account ELSE asked_for.account
    <3> DEFINE stored == row[d]
    <3>1. stored \in Row \cup {NotYet, Gone} /\ (seen # NotYet => stored \in Row)
      BY <2>2 DEF IType, TypeOK
    <3> HIDE DEF stored
    <3>2. /\ Written(stored, seen, asked_for) \in Row
          /\ Written(stored, seen, asked_for).account =
               IF seen # NotYet /\ asked_for.account = seen.account
               THEN stored.account ELSE asked_for.account
      BY <3>1, WrittenType
    <3> QED BY <3>2 DEF stored
  <2> HIDE DEF new
  <2> QED BY <1>1, <1>2, <2>1, <2>2, <2>3
<1> QED BY <1>1, <1>3

LEMMA WriteType ==
  ASSUME IType, NEW e \in Editor, Write(e)
  PROVE  IType'
<1>1. row \in Table
  BY DEF IType, TypeOK, Table
<1>2. row' \in Table
  <2>1. CASE UNCHANGED row
    BY <1>1, <2>1
  <2>2. ASSUME NEW new \in Row, row' = [row EXCEPT ![edit[e].deployment] = new]
        PROVE  row' \in Table
    BY <1>1, <2>2 DEF Table
  <2> QED BY <2>1, <2>2, WriteEffect
<1>3. edit' \in [Editor -> Edit \cup {NoEdit}]
  BY DEF Write, IType, TypeOK
<1>4. UNCHANGED <<account, zones, usage, reports, session, events, crashed>>
  BY DEF Write
<1> QED BY <1>2, <1>3, <1>4, TableStep DEF IType, TypeOK, Proof

LEMMA OwnersType ==
  ASSUME IType,
         \/ \E d \in Deployment : Delete(d)
         \/ \E a \in Account : DeleteAccount(a) \/ Validate(a)
         \/ \E z \in Zone : RemoveZone(z)
  PROVE  IType'
<1>1. row \in Table
  BY DEF IType, TypeOK, Table
<1>2. events' \in 0..MaxEvents /\ UNCHANGED <<reports, edit, session, crashed>>
  <2>1. events < MaxEvents /\ events' = events + 1 /\ UNCHANGED <<reports, edit, session, crashed>>
    BY DEF Delete, DeleteAccount, Validate, RemoveZone
  <2> QED BY <2>1 DEF IType, TypeOK
<1>3. row' \in Table
  <2>1. ASSUME NEW d \in Deployment, Delete(d) PROVE row' \in Table
    BY <1>1, <2>1 DEF Delete, Table
  <2>2. ASSUME NEW a \in Account, DeleteAccount(a) \/ Validate(a) PROVE row' \in Table
    BY <1>1, <2>2, SeveredType DEF DeleteAccount, Validate
  <2>3. ASSUME NEW z \in Zone, RemoveZone(z) PROVE row' \in Table
    BY <1>1, <2>3, SeveredType DEF RemoveZone
  <2> QED BY <2>1, <2>2, <2>3
<1>4. account' \in [Account -> Proof]
  BY DEF Delete, DeleteAccount, Validate, RemoveZone, IType, TypeOK, Proof
<1>5. zones' \in SUBSET Zone /\ usage' \in SUBSET Sample
  BY DEF Delete, DeleteAccount, Validate, RemoveZone, IType, TypeOK
<1> QED BY <1>2, <1>3, <1>4, <1>5, TableStep DEF IType, TypeOK

LEMMA ReportType ==
  ASSUME IType, NEW x \in Resource, NEW series \in SUBSET Series, Report(x, series)
  PROVE  IType'
<1>1. reports' \in [Resource -> SUBSET Series] /\ events' \in 0..MaxEvents
  BY DEF Report, IType, TypeOK
<1>2. UNCHANGED <<row, account, zones, usage, edit, session, crashed>>
  BY DEF Report, tables
<1> QED BY <1>1, <1>2, TableStep DEF IType, TypeOK, Table, Proof

LEMMA StepType ==
  ASSUME IType, [Next]_vars
  PROVE  IType'
<1>1. CASE UNCHANGED vars
  <2>1. UNCHANGED <<row, account, zones, usage, reports, edit, session, events, crashed>>
    BY <1>1 DEF vars, tables
  <2> QED BY <2>1, TableStep DEF IType, TypeOK, Table, Proof
<1>2. ASSUME NEW s \in Session, NEW f \in Fault,
             \/ Answer(s) \/ Retry(s) \/ Record(s) \/ Confirm(s)
             \/ Finish(s) \/ Crash(s) \/ QueryFails(s, f)
      PROVE  IType'
  BY <1>2, AnswerType, RetryType, RecordType, ConfirmType, OverType, QueryFailsType
<1>3. ASSUME NEW x \in Resource, NEW series \in SUBSET Series, Report(x, series)
      PROVE  IType'
  BY <1>3, ReportType
<1>4. ASSUME \/ \E d \in Deployment : Delete(d)
             \/ \E a \in Account : DeleteAccount(a) \/ Validate(a)
             \/ \E z \in Zone : RemoveZone(z)
      PROVE  IType'
  BY <1>4, OwnersType
<1>5. {{}, {"cpu"}, {"memory_total"}, Series} \subseteq SUBSET Series
  BY DEF Series, Basic
<1>6. CASE \E s \in Session :
             \/ Answer(s) \/ Retry(s) \/ Record(s) \/ Confirm(s) \/ Finish(s) \/ Crash(s)
             \/ \E f \in Fault : QueryFails(s, f)
  <2>1. Fault # {}
    BY DEF Fault
  <2> QED BY <1>2, <1>6, <2>1
<1>7. CASE \/ \E s \in Sweeper : StartSweep(s)
           \/ \E s \in Requester, d \in Deployment : StartRequest(s, d)
           \/ \E s \in Session, d \in Deployment : Visit(s, d)
  BY <1>7, StartType, VisitType DEF Session
<1>8. CASE \E e \in Editor :
              \/ Write(e)
              \/ \E d \in Deployment, patch \in Patch : Ask(e, d, patch)
  BY <1>8, WriteType, AskType
<1>9. CASE \E x \in Resource, series \in {{}, {"cpu"}, {"memory_total"}, Series} :
              Report(x, series)
  BY <1>3, <1>5, <1>9
<1> QED BY <1>1, <1>4, <1>6, <1>7, <1>8, <1>9 DEF Next

\* The type invariant: a call in flight is for a deployment, through an account
\* whose provider has a fetcher, and asks no more than the fetcher's queries,
\* whatever happened to the rows since (CloudSyncService.sync_deployment).
THEOREM TypeCorrect == Spec => []TypeOK
<1>1. IType /\ [Next]_vars => IType'
  BY StepType
<1>2. IType => TypeOK
  BY DEF IType
<1> QED BY <1>1, <1>2, InitType, PTL DEF Spec

-----------------------------------------------------------------------------
(* Consent.                                                                *)

\* Every link in a table to an account was made by the owner of the account.
Granted(table) ==
  \A d \in Deployment :
    Exists(table, d) /\ table[d].account # None => <<d, table[d].account>> \in granted

Consent ==
  /\ Granted(row)
  /\ \A s \in Session : view[s] # NoView => Granted(view[s].row)
  /\ \A e \in Editor : edit[e] # NoEdit /\ edit[e].new.account # None =>
       <<edit[e].deployment, edit[e].new.account>> \in granted
  /\ ReadWithConsent

LEMMA InitConsent == Init => Consent
<1> SUFFICES ASSUME Init PROVE Consent
  OBVIOUS
<1>1. Granted(row)
  BY DEF Init, Granted, Linked, Exists
<1> QED BY <1>1 DEF Init, Consent, ReadWithConsent

\* Consent is never taken back, so that an action has to be looked at only for
\* the rows, transactions, requests, calls and samples it brings about.
LEMMA ConsentStep ==
  ASSUME Consent, granted \subseteq granted',
         \A d \in Deployment : Exists(row', d) /\ row'[d].account # None =>
           <<d, row'[d].account>> \in granted',
         \A s \in Session : view'[s] # NoView =>
           view'[s] = view[s] \/ view'[s].row = row,
         \A e \in Editor : edit'[e] # NoEdit =>
           \/ edit'[e] = edit[e]
           \/ edit'[e].new.account # None =>
                <<edit'[e].deployment, edit'[e].new.account>> \in granted',
         \A s \in Session : at'[s] # None =>
           <<at'[s], link'[s].account>> \in granted',
         \A u \in usage' : u \in usage \/ <<u.deployment, u.account>> \in granted'
  PROVE  Consent'
<1>1. Granted(row)'
  BY DEF Granted
<1>2. ASSUME NEW s \in Session, view'[s] # NoView
      PROVE  Granted(view[s].row)'
  <2>1. CASE view'[s] = view[s]
    BY <1>2, <2>1 DEF Consent, Granted
  <2>2. CASE view'[s].row = row
    BY <2>2 DEF Consent, Granted
  <2> QED BY <1>2, <2>1, <2>2
<1>3. \A e \in Editor : edit'[e] # NoEdit /\ edit'[e].new.account # None =>
        <<edit'[e].deployment, edit'[e].new.account>> \in granted'
  BY DEF Consent
<1>4. ReadWithConsent'
  BY DEF Consent, ReadWithConsent
<1> QED BY <1>1, <1>2, <1>3, <1>4 DEF Consent

\* The actions of a session grant nothing: it reads rows, and calls with what
\* it has read.
LEMMA SessionConsent ==
  ASSUME IType, Consent, NEW s \in Session, NEW f \in Fault,
         \/ StartSweep(s) \/ \E d \in Deployment : StartRequest(s, d) \/ Visit(s, d)
         \/ Answer(s) \/ Retry(s) \/ QueryFails(s, f)
         \/ Record(s) \/ Confirm(s) \/ Finish(s) \/ Crash(s)
  PROVE  Consent'
<1>1. UNCHANGED <<row, edit, granted>>
  BY DEF StartSweep, StartRequest, Visit, Answer, Retry, QueryFails, Record, Confirm,
         Finish, Crash, tables
<1>2. view' \in {view, [view EXCEPT ![s] = Now], [view EXCEPT ![s] = NoView]}
  BY DEF StartSweep, StartRequest, Visit, Answer, Retry, QueryFails, Record, Confirm,
         Finish, Crash, Ends, GiveUp
<1>3. \A q \in Session : view'[q] # NoView => view'[q] = view[q] \/ view'[q].row = row
  BY <1>2 DEF IType, Shape, Now
<1>4. \A q \in Session : at'[q] # None => <<at'[q], link'[q].account>> \in granted
  <2>1. \A q \in Session : at[q] # None => <<at[q], link[q].account>> \in granted
    BY DEF Consent, ReadWithConsent
  <2>2. CASE UNCHANGED <<at, link>>
    BY <2>1, <2>2
  <2>3. CASE Hangup(s)
    BY <2>1, <2>3, HangupType
  <2>4. ASSUME NEW d \in Deployment, at[s] = None, d \in todo[s], Ready(view[s], d),
               at' = [at EXCEPT ![s] = d], link' = [link EXCEPT ![s] = Target(s, d)]
        PROVE  \A q \in Session : at'[q] # None => <<at'[q], link'[q].account>> \in granted
    <3>1. view[s] \in Shown
      BY <2>4 DEF IType, Shape, Rests
    <3>2. <<d, view[s].row[d].account>> \in granted
      BY <2>4, <3>1, ShownIsOpen, LinkedRows DEF Consent, Granted, Ready, Linked, Shown
    <3>3. /\ at'[s] = d /\ link'[s].account = view[s].row[d].account
          /\ \A q \in Session \ {s} : at'[q] = at[q] /\ link'[q] = link[q]
      BY <2>4 DEF IType, TypeOK, Shape, Target
    <3> QED BY <2>1, <3>2, <3>3
  <2>5. \/ UNCHANGED <<at, link>> \/ Hangup(s)
        \/ \E d \in Deployment :
             /\ at[s] = None /\ d \in todo[s] /\ Ready(view[s], d)
             /\ at' = [at EXCEPT ![s] = d] /\ link' = [link EXCEPT ![s] = Target(s, d)]
    BY DEF StartSweep, StartRequest, Visit, Answer, Retry, QueryFails, Record, Confirm,
           Finish, Crash, Ends, GiveUp, call
  <2> QED BY <2>2, <2>3, <2>4, <2>5
<1>5. \A u \in usage' : u \in usage \/ <<u.deployment, u.account>> \in granted
  <2>1. CASE UNCHANGED usage
    BY <2>1
  <2>2. CASE /\ at[s] # None
             /\ \E m : usage' = usage \cup
                  {[deployment |-> at[s], account |-> link[s].account,
                    resource |-> link[s].resource, measured |-> m]}
    <3>1. <<at[s], link[s].account>> \in granted
      BY <2>2 DEF Consent, ReadWithConsent
    <3>2. PICK m : usage' = usage \cup
                     {[deployment |-> at[s], account |-> link[s].account,
                       resource |-> link[s].resource, measured |-> m]}
      BY <2>2
    <3>3. \A u \in usage' : u \in usage \/ (u.deployment = at[s] /\ u.account = link[s].account)
      BY <3>2
    <3> QED BY <3>1, <3>3
  <2> QED BY <2>1, <2>2 DEF StartSweep, StartRequest, Visit, Answer, Retry, QueryFails,
             Record, Confirm, Finish, Crash, tables
<1>6. \A d \in Deployment : Exists(row', d) /\ row'[d].account # None =>
        <<d, row'[d].account>> \in granted'
  BY <1>1 DEF Consent, Granted
<1> QED BY <1>1, <1>3, <1>4, <1>5, <1>6, ConsentStep

\* A request names an account of its user, or keeps the one that is linked.
LEMMA AskConsent ==
  ASSUME IType, Consent, NEW e \in Editor, NEW d \in Deployment, NEW patch \in Patch,
         Ask(e, d, patch)
  PROVE  Consent'
<1> DEFINE base == IF row[d] = NotYet THEN Unlinked ELSE row[d]
           new  == Patched(base, patch)
<1>1. base \in Row
  BY DEF Ask, IType, TypeOK, Unlinked, Row
<1>2. new.account = IF patch.account = Keep THEN base.account ELSE patch.account
  BY <1>1, PatchedType
<1>3. /\ UNCHANGED <<row, usage, view, at, link>> /\ granted \subseteq granted'
      /\ edit' = [edit EXCEPT ![e] = [deployment |-> d, seen |-> row[d], new |-> new]]
      /\ row[d] # Gone
      /\ patch.account # Keep => <<d, patch.account>> \in granted'
  BY DEF Ask, Allowed, tables, session, call
<1>4. base.account # None => <<d, base.account>> \in granted
  BY <1>3 DEF Consent, Granted, Exists, Unlinked
<1>5. new.account # None => <<d, new.account>> \in granted'
  BY <1>2, <1>3, <1>4
<1> HIDE DEF new
<1>6. \A x \in Editor : edit'[x] # NoEdit =>
        \/ edit'[x] = edit[x]
        \/ edit'[x].new.account # None =>
             <<edit'[x].deployment, edit'[x].new.account>> \in granted'
  BY <1>3, <1>5 DEF IType, TypeOK
<1> QED BY <1>3, <1>6, ConsentStep DEF Consent, Granted, ReadWithConsent

\* An update leaves an account that its request was checked for, or the one of
\* an update in between.
LEMMA WriteConsent ==
  ASSUME IType, Consent, NEW e \in Editor, Write(e)
  PROVE  Consent'
<1>1. /\ UNCHANGED <<usage, view, at, link, granted>>
      /\ edit[e] # NoEdit /\ edit' = [edit EXCEPT ![e] = NoEdit]
  BY DEF Write, session, call
<1>2. \A d \in Deployment : Exists(row', d) /\ row'[d].account # None =>
        <<d, row'[d].account>> \in granted
  <2>1. CASE UNCHANGED row
    BY <2>1 DEF Consent, Granted
  <2>2. ASSUME NEW new \in Row, row' = [row EXCEPT ![edit[e].deployment] = new],
               \/ new.account = edit[e].new.account
               \/ /\ Exists(row, edit[e].deployment)
                  /\ new.account = row[edit[e].deployment].account
        PROVE  \A d \in Deployment : Exists(row', d) /\ row'[d].account # None =>
                 <<d, row'[d].account>> \in granted
    <3>1. edit[e].deployment \in Deployment
      BY WriteEffect DEF Edit
    <3>2. new.account # None => <<edit[e].deployment, new.account>> \in granted
      BY <1>1, <2>2, <3>1 DEF Consent, Granted
    <3>3. \A d \in Deployment : row'[d] = IF d = edit[e].deployment THEN new ELSE row[d]
      BY <2>2 DEF IType, TypeOK
    <3> QED BY <3>2, <3>3 DEF Consent, Granted, Exists
  <2> QED BY <2>1, <2>2, WriteEffect
<1>3. \A x \in Editor : edit'[x] # NoEdit => edit'[x] = edit[x]
  BY <1>1 DEF IType, TypeOK
<1> QED BY <1>1, <1>2, <1>3, ConsentStep DEF Consent, ReadWithConsent

\* Deletions only cut links.
LEMMA OwnersConsent ==
  ASSUME IType, Consent,
         \/ \E d \in Deployment : Delete(d)
         \/ \E a \in Account : DeleteAccount(a) \/ Validate(a)
         \/ \E z \in Zone : RemoveZone(z)
         \/ \E x \in Resource, series \in SUBSET Series : Report(x, series)
  PROVE  Consent'
<1>1. UNCHANGED <<edit, view, at, link, granted>> /\ usage' \subseteq usage
  BY DEF Delete, DeleteAccount, Validate, RemoveZone, Report, tables, session, call
<1>2. \A d \in Deployment : Exists(row', d) =>
        Exists(row, d) /\ row'[d].account \in {row[d].account, None}
  <2>1. row \in Table
    BY DEF IType, TypeOK, Table
  <2>2. CASE UNCHANGED row
    BY <2>2
  <2>3. ASSUME NEW d \in Deployment, Delete(d)
        PROVE  \A c \in Deployment : Exists(row', c) =>
                 Exists(row, c) /\ row'[c].account \in {row[c].account, None}
    BY <2>1, <2>3 DEF Delete, Exists, Table
  <2>4. CASE \E accounts, entries : row' = Severed(accounts, entries)
    BY <2>1, <2>4, SeveredType
  <2> QED BY <2>2, <2>3, <2>4 DEF DeleteAccount, Validate, RemoveZone, Report, tables
<1>3. \A d \in Deployment : Exists(row', d) /\ row'[d].account # None =>
        <<d, row'[d].account>> \in granted'
  BY <1>1, <1>2 DEF Consent, Granted
<1> QED BY <1>1, <1>3, ConsentStep DEF Consent, ReadWithConsent

LEMMA StepConsent ==
  ASSUME IType, Consent, [Next]_vars
  PROVE  Consent'
<1>1. CASE UNCHANGED vars
  <2>1. UNCHANGED <<row, view, edit, at, link, usage, granted>>
    BY <1>1 DEF vars, tables, session, call
  <2> QED BY <2>1, ConsentStep DEF Consent, Granted, ReadWithConsent
<1>2. CASE \/ \E s \in Sweeper : StartSweep(s)
           \/ \E s \in Session :
                \/ Answer(s) \/ Retry(s) \/ Record(s) \/ Confirm(s) \/ Finish(s) \/ Crash(s)
                \/ \E d \in Deployment : Visit(s, d)
                \/ \E f \in Fault : QueryFails(s, f)
           \/ \E s \in Requester, d \in Deployment : StartRequest(s, d)
  <2>1. Fault # {}
    BY DEF Fault
  <2> QED BY <1>2, <2>1, SessionConsent DEF Session
<1>3. CASE \E e \in Editor :
              \/ Write(e)
              \/ \E d \in Deployment, patch \in Patch : Ask(e, d, patch)
  BY <1>3, WriteConsent, AskConsent
<1>4. CASE \E x \in Resource, series \in {{}, {"cpu"}, {"memory_total"}, Series} :
              Report(x, series)
  <2>1. {{}, {"cpu"}, {"memory_total"}, Series} \subseteq SUBSET Series
    BY DEF Series, Basic
  <2> QED BY <1>4, <2>1, OwnersConsent
<1> QED BY <1>1, <1>2, <1>3, <1>4, OwnersConsent DEF Next

\* Credentials are lent only by their owner: whoever edits a deployment, its
\* account and its time zone while a sweep or a request synchronizes it, every
\* call in flight and every stored sample goes through an account whose owner
\* has linked it (_check_cloud_account_ownership, deployment_service.py).
THEOREM ConsentHolds == Spec => []ReadWithConsent
<1>1. IType /\ Consent /\ [Next]_vars => (IType /\ Consent)'
  BY StepType, StepConsent
<1>2. Init => IType /\ Consent
  BY InitType, InitConsent
<1>3. Consent => ReadWithConsent
  BY DEF Consent
<1> QED BY <1>1, <1>2, <1>3, PTL DEF Spec
-----------------------------------------------------------------------------
(* A sweep goes on.                                                        *)

\* The deployments a session has still to visit have been there, in the table
\* and in what its transaction shows; a row the transaction shows deleted is.
Awaited(s) ==
  \A d \in todo[s] :
    /\ row[d] # NotYet
    /\ view[s] # NoView =>
         view[s].row[d] # NotYet /\ (view[s].row[d] = Gone => row[d] = Gone)

\* A session works on a deployment that is still to be ticked off.
SweepInv ==
  \A s \in Session : Awaited(s) /\ (at[s] # None => at[s] \in todo[s])

\* A deployment comes into being once and goes once.
Lasting ==
  \A d \in Deployment :
    (row[d] # NotYet => row'[d] # NotYet) /\ (row[d] = Gone => row'[d] = Gone)

LEMMA RowsOrNot ==
  ASSUME NEW r \in Row
  PROVE  r # NotYet /\ r # Gone
<1>1. DOMAIN r = {"account", "resource", "zone"}
  BY DEF Row
<1>2. DOMAIN NotYet = {"account"} /\ DOMAIN Gone = {"account"}
  BY DEF NotYet, Gone
<1> QED BY <1>1, <1>2

\* What a session shows or has to do changes only with itself: an action is
\* looked at for its session.
LEMMA SweepStep ==
  ASSUME SweepInv, Lasting, IType, NEW s \in Session,
         \A q \in Session \ {s} :
           todo'[q] = todo[q] /\ at'[q] = at[q] /\ view'[q] = view[q],
         todo'[s] \subseteq Deployment,
         \/ view'[s] \in {view[s], NoView} /\ todo'[s] \subseteq todo[s]
         \/ view'[s] = Now /\ \A d \in todo'[s] : row[d] # NotYet,
         at'[s] # None => at'[s] \in todo'[s]
  PROVE  SweepInv'
<1>1. \A q \in Session : todo[q] \subseteq Deployment
  BY DEF IType, TypeOK
<1>2. ASSUME NEW q \in Session, q # s
      PROVE  Awaited(q)' /\ (at'[q] # None => at'[q] \in todo'[q])
  <2>1. Awaited(q) /\ (at[q] # None => at[q] \in todo[q])
    BY DEF SweepInv
  <2>2. todo'[q] = todo[q] /\ at'[q] = at[q] /\ view'[q] = view[q]
    BY <1>2
  <2> QED BY <1>1, <2>1, <2>2 DEF Awaited, Lasting
<1>3. Awaited(s)'
  <2>1. CASE view'[s] \in {view[s], NoView} /\ todo'[s] \subseteq todo[s]
    <3>1. Awaited(s)
      BY DEF SweepInv
    <3> QED BY <1>1, <2>1, <3>1 DEF Awaited, Lasting
  <2>2. CASE view'[s] = Now /\ \A d \in todo'[s] : row[d] # NotYet
    <3>1. \A d \in todo'[s] : view'[s].row[d] = row[d]
      BY <2>2 DEF Now
    <3>2. \A d \in todo'[s] :
            row'[d] # NotYet /\ (row[d] = Gone => row'[d] = Gone)
      BY <2>2 DEF Lasting
    <3> QED BY <2>2, <3>1, <3>2 DEF Awaited
  <2> QED BY <2>1, <2>2
<1> QED BY <1>2, <1>3 DEF SweepInv

\* The effect of an end on the others, and on the session itself.
LEMMA OverSweep ==
  ASSUME SweepInv, IType, NEW s \in Session, Ends(s) \/ GiveUp(s), UNCHANGED row
  PROVE  SweepInv'
<1>1. /\ todo \in [Session -> SUBSET Deployment]
      /\ view \in [Session -> Shown \cup {NoView}]
      /\ at \in [Session -> Deployment \cup {None}]
  BY DEF IType, TypeOK, Shape
<1>2. at' = [at EXCEPT ![s] = None]
  BY DEF Ends, GiveUp, Hangup
<1>3. /\ todo' = [todo EXCEPT ![s] = {}] \/ todo' = [todo EXCEPT ![s] = @ \ {at[s]}]
      /\ view' = [view EXCEPT ![s] = NoView] \/ view' = view
  BY DEF Ends, GiveUp
<1>4. \A q \in Session \ {s} : todo'[q] = todo[q] /\ at'[q] = at[q] /\ view'[q] = view[q]
  BY <1>1, <1>2, <1>3
<1>5. todo'[s] \subseteq todo[s] /\ view'[s] \in {view[s], NoView} /\ at'[s] = None
  BY <1>1, <1>2, <1>3
<1>6. Lasting
  BY DEF Lasting
<1> QED BY <1>1, <1>4, <1>5, <1>6, SweepStep

LEMMA SessionSweep ==
  ASSUME SweepInv, IType, NEW s \in Session, NEW f \in Fault,
         \/ StartSweep(s) \/ \E d \in Deployment : StartRequest(s, d) \/ Visit(s, d)
         \/ Answer(s) \/ Retry(s) \/ QueryFails(s, f)
         \/ Record(s) \/ Confirm(s) \/ Finish(s) \/ Crash(s)
  PROVE  SweepInv'
<1>1. /\ todo \in [Session -> SUBSET Deployment]
      /\ view \in [Session -> Shown \cup {NoView}]
      /\ at \in [Session -> Deployment \cup {None}]
  BY DEF IType, TypeOK, Shape
<1>2. UNCHANGED row /\ Lasting
  BY DEF StartSweep, StartRequest, Visit, Answer, Retry, QueryFails, Record, Confirm,
         Finish, Crash, tables, Lasting
<1>3. CASE StartSweep(s) \/ \E d \in Deployment : StartRequest(s, d)
  <2>1. /\ view' = [view EXCEPT ![s] = Now] /\ at' = at /\ at[s] = None
        /\ \E queue \in SUBSET Deployment :
             /\ todo' = [todo EXCEPT ![s] = queue]
             /\ \A d \in queue : row[d] # NotYet
    BY <1>3 DEF StartSweep, StartRequest, Linked, Exists, call
  <2>2. /\ \A q \in Session \ {s} : todo'[q] = todo[q] /\ at'[q] = at[q] /\ view'[q] = view[q]
        /\ view'[s] = Now /\ todo'[s] \subseteq Deployment
        /\ \A d \in todo'[s] : row[d] # NotYet
    BY <1>1, <2>1
  <2> QED BY <1>2, <2>1, <2>2, SweepStep
<1>4. CASE Ends(s) \/ GiveUp(s)
  BY <1>2, <1>4, OverSweep
<1>5. ASSUME NEW d \in todo[s], at[s] = None, at' = [at EXCEPT ![s] = d], UNCHANGED <<view, todo>>
      PROVE  SweepInv'
  <2>1. /\ \A q \in Session \ {s} : todo'[q] = todo[q] /\ at'[q] = at[q] /\ view'[q] = view[q]
        /\ at'[s] \in todo'[s] /\ view'[s] = view[s] /\ todo'[s] = todo[s]
    BY <1>1, <1>5
  <2> QED BY <1>1, <1>2, <2>1, SweepStep
<1>6. ASSUME NEW d \in Deployment, at[s] = None, at' = at, view' = view,
             todo' = [todo EXCEPT ![s] = @ \ {d}]
      PROVE  SweepInv'
  <2>1. /\ \A q \in Session \ {s} : todo'[q] = todo[q] /\ at'[q] = at[q] /\ view'[q] = view[q]
        /\ at'[s] = None /\ view'[s] = view[s] /\ todo'[s] \subseteq todo[s]
    BY <1>1, <1>6
  <2> QED BY <1>1, <1>2, <2>1, SweepStep
<1>7. CASE /\ UNCHANGED <<todo, at>>
           /\ view' = view \/ view' = [view EXCEPT ![s] = NoView]
  <2>1. /\ \A q \in Session \ {s} : todo'[q] = todo[q] /\ at'[q] = at[q] /\ view'[q] = view[q]
        /\ view'[s] \in {view[s], NoView} /\ todo'[s] = todo[s] /\ at'[s] = at[s]
    BY <1>1, <1>7
  <2>2. at[s] # None => at[s] \in todo[s]
    BY DEF SweepInv
  <2> QED BY <1>1, <1>2, <2>1, <2>2, SweepStep
<1>8. CASE /\ view' = [view EXCEPT ![s] = Now] /\ todo' = [todo EXCEPT ![s] = @ \ {at[s]}]
           /\ Hangup(s)
  <2>1. at' = [at EXCEPT ![s] = None]
    BY <1>8 DEF Hangup
  <2>2. /\ \A q \in Session \ {s} : todo'[q] = todo[q] /\ at'[q] = at[q] /\ view'[q] = view[q]
        /\ at'[s] = None /\ view'[s] = Now /\ todo'[s] \subseteq todo[s]
    BY <1>1, <1>8, <2>1
  <2>3. \A d \in todo[s] : row[d] # NotYet
    BY DEF SweepInv, Awaited
  <2> QED BY <1>1, <1>2, <2>2, <2>3, SweepStep
<1>9. ASSUME NEW d \in Deployment, Visit(s, d) PROVE SweepInv'
  BY <1>4, <1>5, <1>6, <1>9 DEF Visit, call
<1>10. CASE Record(s)
  BY <1>4, <1>7, <1>10 DEF Record, call
<1>11. CASE Confirm(s)
  BY <1>4, <1>8, <1>11 DEF Confirm
<1>12. CASE Answer(s) \/ Retry(s)
  BY <1>7, <1>12 DEF Answer, Retry
<1>13. CASE QueryFails(s, f) \/ Finish(s) \/ Crash(s)
  BY <1>4, <1>13 DEF QueryFails, Finish, Crash
<1> QED BY <1>3, <1>9, <1>10, <1>11, <1>12, <1>13

\* Requests and deletions leave the sessions alone.
LEMMA RestSweep ==
  ASSUME SweepInv, Lasting, IType, UNCHANGED <<todo, at, view>>
  PROVE  SweepInv'
<1>1. \A q \in Session : todo[q] \subseteq Deployment
  BY DEF IType, TypeOK
<1> QED BY <1>1 DEF SweepInv, Awaited, Lasting

LEMMA WriteLasts ==
  ASSUME IType, NEW e \in Editor, Write(e)
  PROVE  Lasting
<1>1. CASE UNCHANGED row
  BY <1>1 DEF Lasting
<1>2. CASE ~ UNCHANGED row
  <2>1. PICK new \in Row : row' = [row EXCEPT ![edit[e].deployment] = new]
    BY <1>2, WriteEffect
  <2>2. IF edit[e].seen = NotYet THEN row[edit[e].deployment] = NotYet
        ELSE Exists(row, edit[e].deployment)
    BY <1>2 DEF Write
  <2>3. row[edit[e].deployment] # Gone
    <3>1. Gone.account = "gone" /\ NotYet.account = "not yet"
      BY DEF Gone, NotYet
    <3> QED BY <2>2, <3>1 DEF Exists
  <2>4. \A d \in Deployment : row'[d] = IF d = edit[e].deployment THEN new ELSE row[d]
    BY <2>1 DEF IType, TypeOK
  <2> QED BY <2>3, <2>4, RowsOrNot DEF Lasting
<1> QED BY <1>1, <1>2

LEMMA OwnersLast ==
  ASSUME IType,
         \/ \E d \in Deployment : Delete(d)
         \/ \E a \in Account : DeleteAccount(a) \/ Validate(a)
         \/ \E z \in Zone : RemoveZone(z)
  PROVE  Lasting
<1>1. row \in Table
  BY DEF IType, TypeOK, Table
<1>2. CASE UNCHANGED row
  BY <1>2 DEF Lasting
<1>3. ASSUME NEW d \in Deployment, Delete(d) PROVE Lasting
  <2>1. Gone.account = "gone" /\ NotYet.account = "not yet"
    BY DEF Gone, NotYet
  <2> QED BY <1>1, <1>3, <2>1 DEF Delete, Lasting, Table
<1>4. ASSUME NEW accounts, NEW entries, row' = Severed(accounts, entries) PROVE Lasting
  <2> SUFFICES ASSUME NEW d \in Deployment
               PROVE  (row[d] # NotYet => row'[d] # NotYet) /\ (row[d] = Gone => row'[d] = Gone)
    BY DEF Lasting
  <2>1. CASE ~ Exists(row, d)
    BY <1>4, <2>1 DEF Severed
  <2>2. CASE Exists(row, d)
    <3> DEFINE acc  == IF row[d].account \in accounts THEN None ELSE row[d].account
               zone == IF row[d].zone \in entries THEN None ELSE row[d].zone
    <3>1. row[d] \in Row
      BY <1>1, <2>2 DEF Table, Exists
    <3>2. row'[d] = [row[d] EXCEPT !.account = acc, !.zone = zone]
      BY <1>4, <2>2 DEF Severed
    <3> HIDE DEF acc, zone
    <3>3. DOMAIN row'[d] = {"account", "resource", "zone"}
      BY <3>1, <3>2 DEF Row
    <3>4. DOMAIN NotYet = {"account"}
      BY DEF NotYet
    <3> QED BY <2>2, <3>3, <3>4 DEF Exists
  <2> QED BY <2>1, <2>2
<1> QED BY <1>2, <1>3, <1>4 DEF DeleteAccount, Validate, RemoveZone

LEMMA StepSweep ==
  ASSUME SweepInv, IType, [Next]_vars
  PROVE  SweepInv'
<1>1. CASE UNCHANGED vars
  <2>1. UNCHANGED <<row, todo, at, view>>
    BY <1>1 DEF vars, tables, session, call
  <2> QED BY <2>1, RestSweep DEF Lasting
<1>2. CASE \/ \E s \in Sweeper : StartSweep(s)
           \/ \E s \in Session :
                \/ Answer(s) \/ Retry(s) \/ Record(s) \/ Confirm(s) \/ Finish(s) \/ Crash(s)
                \/ \E d \in Deployment : Visit(s, d)
                \/ \E f \in Fault : QueryFails(s, f)
           \/ \E s \in Requester, d \in Deployment : StartRequest(s, d)
  <2>1. Fault # {}
    BY DEF Fault
  <2> QED BY <1>2, <2>1, SessionSweep DEF Session
<1>3. ASSUME NEW e \in Editor, Write(e) PROVE SweepInv'
  BY <1>3, WriteLasts, RestSweep DEF Write, session, call
<1>4. CASE \E e \in Editor, d \in Deployment, patch \in Patch : Ask(e, d, patch)
  BY <1>4, RestSweep DEF Ask, session, call, tables, Lasting
<1>5. CASE \/ \E d \in Deployment : Delete(d)
           \/ \E a \in Account : DeleteAccount(a) \/ Validate(a)
           \/ \E z \in Zone : RemoveZone(z)
  <2>1. UNCHANGED <<todo, at, view>>
    BY <1>5 DEF Delete, DeleteAccount, Validate, RemoveZone, session, call
  <2> QED BY <1>5, <2>1, OwnersLast, RestSweep
<1>6. CASE \E x \in Resource, series \in {{}, {"cpu"}, {"memory_total"}, Series} :
              Report(x, series)
  BY <1>6, RestSweep DEF Report, session, call, tables, Lasting
<1> QED BY <1>1, <1>2, <1>3, <1>4, <1>5, <1>6 DEF Next

\* A session drops the deployments behind only for one that is gone.
Drops(s) ==
  \/ todo[s] \subseteq todo'[s]
  \/ \E d \in todo[s] : todo'[s] = todo[s] \ {d} \/ row[d] = Gone

LEMMA StepDrops ==
  ASSUME SweepInv, IType, [Next]_vars, NEW s \in Session, s \notin crashed'
  PROVE  Drops(s)
<1>1. /\ todo \in [Session -> SUBSET Deployment]
      /\ at \in [Session -> Deployment \cup {None}]
      /\ events \in Nat
  BY DEF IType, TypeOK
<1>2. CASE todo' = todo
  BY <1>2 DEF Drops
<1>3. ASSUME NEW q \in Session, q # s, \E new : todo' = [todo EXCEPT ![q] = new]
      PROVE  Drops(s)
  BY <1>1, <1>3 DEF Drops
<1>4. ASSUME NEW q \in Session,
             StartSweep(q) \/ (\E d \in Deployment : StartRequest(q, d)) \/ Finish(q)
      PROVE  Drops(s)
  <2>1. todo[q] = {}
    BY <1>4 DEF StartSweep, StartRequest, Finish
  <2>2. \E new : todo' = [todo EXCEPT ![q] = new]
    BY <1>4 DEF StartSweep, StartRequest, Finish, Ends
  <2> QED BY <1>1, <1>3, <2>1, <2>2 DEF Drops
<1>5. ASSUME NEW q \in Session, NEW d, todo' = [todo EXCEPT ![q] = @ \ {d}]
      PROVE  Drops(s)
  <2>1. CASE q = s /\ d \in todo[s]
    BY <1>1, <1>5, <2>1 DEF Drops
  <2>2. CASE q # s \/ d \notin todo[s]
    BY <1>1, <1>5, <2>2 DEF Drops
  <2> QED BY <2>1, <2>2
<1>6. ASSUME NEW q \in Session, Ends(q), NEW d \in todo[q], row[d] = Gone
      PROVE  Drops(s)
  BY <1>1, <1>3, <1>6 DEF Ends, Drops
<1>7. ASSUME NEW q \in Session, NEW d \in Deployment, Visit(q, d) PROVE Drops(s)
  <2>1. d \in todo[q] /\ at[q] = None
    BY <1>7 DEF Visit
  <2>2. view[q] # NoView
    BY <2>1 DEF IType, Shape, Rests
  <2>3. Awaited(q)
    BY DEF SweepInv
  <2>4. ~ Exists(view[q].row, d) => row[d] = Gone
    BY <2>1, <2>2, <2>3 DEF Awaited, Exists
  <2> QED BY <1>2, <1>5, <1>6, <1>7, <2>1, <2>4 DEF Visit
<1>8. ASSUME NEW q \in Session, Record(q) \/ Confirm(q) PROVE Drops(s)
  <2>1. at[q] \in todo[q] /\ row[at[q]] # NotYet
    BY <1>8 DEF SweepInv, Awaited, Record, Confirm
  <2>2. ~ Exists(row, at[q]) => row[at[q]] = Gone
    BY <2>1 DEF Exists
  <2> QED BY <1>2, <1>5, <1>6, <1>8, <2>1, <2>2 DEF Record, Confirm, GiveUp
\* A failed call is one of the deployment the session works on.
<1>9. ASSUME NEW q \in Session, NEW f \in Fault, QueryFails(q, f) PROVE Drops(s)
  <2>1. todo' = [todo EXCEPT ![q] = @ \ {at[q]}]
    BY <1>9 DEF QueryFails, GiveUp
  <2> QED BY <1>5, <2>1
<1>10. ASSUME NEW q \in Session, Crash(q) PROVE Drops(s)
  <2>1. crashed' = crashed \cup {q} /\ todo' = [todo EXCEPT ![q] = {}]
    BY <1>10 DEF Crash, Ends
  <2> QED BY <1>3, <2>1
<1>11. CASE \E q \in Session : Answer(q) \/ Retry(q)
  BY <1>2, <1>11 DEF Answer, Retry
<1>12. CASE \/ UNCHANGED vars
            \/ \E e \in Editor :
                 Write(e) \/ \E d \in Deployment, patch \in Patch : Ask(e, d, patch)
            \/ \E d \in Deployment : Delete(d)
            \/ \E a \in Account : DeleteAccount(a) \/ Validate(a)
            \/ \E z \in Zone : RemoveZone(z)
            \/ \E x \in Resource, series \in {{}, {"cpu"}, {"memory_total"}, Series} :
                 Report(x, series)
  BY <1>2, <1>12 DEF vars, session, Write, Ask, Delete, DeleteAccount, Validate,
                     RemoveZone, Report
<1> QED BY <1>4, <1>7, <1>8, <1>11, <1>12, <1>9, <1>10 DEF Next, Session

LEMMA InitSweep == Init => SweepInv
BY DEF Init, SweepInv, Awaited

\* A sweep, whatever else goes on, takes deployments off its list one by one,
\* unless one still on it has been deleted: no failed call, unproven account or
\* lost link costs the others their turn (CloudSyncService.sync_all).
THEOREM SweepsGoOn == Spec => SweepGoesOn
<1> DEFINE Step == \A s \in Sweeper :
                     s \notin crashed' =>
                       \/ todo[s] \subseteq todo'[s]
                       \/ \E d \in todo[s] : todo'[s] = todo[s] \ {d} \/ row[d] = Gone
<1>1. IType /\ SweepInv /\ [Next]_vars => (IType /\ SweepInv)'
  BY StepType, StepSweep
<1>2. Init => IType /\ SweepInv
  BY InitType, InitSweep
<1>3. IType /\ SweepInv /\ [Next]_vars => Step
  BY StepDrops DEF Drops, Session
<1> QED BY <1>1, <1>2, <1>3, PTL DEF Spec, SweepGoesOn
=============================================================================
