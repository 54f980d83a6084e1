---------------------------- MODULE CostSyncProofs ----------------------------
(***************************************************************************)
(* What TLAPS proves of CostSync for every set of projects, accounts,      *)
(* services, providers and sessions and every lookback and bound.          *)
(***************************************************************************)
EXTENDS CostSync, FiniteSetTheorems, SequenceTheorems, TLAPS

-----------------------------------------------------------------------------
(* The calls still to be made, as a set.                                   *)

LEMMA SetOfEmpty == ToSet(<< >>) = {}
BY DEF ToSet

LEMMA SetOfConcat ==
  ASSUME NEW S, NEW p \in Seq(S), NEW q \in Seq(S)
  PROVE  p \o q \in Seq(S) /\ ToSet(p \o q) = ToSet(p) \cup ToSet(q)
<1>1. /\ p \o q \in Seq(S) /\ Len(p \o q) = Len(p) + Len(q)
      /\ \A i \in 1..(Len(p) + Len(q)) :
           (p \o q)[i] = IF i <= Len(p) THEN p[i] ELSE q[i - Len(p)]
  BY ConcatProperties
<1>2. /\ Len(p) \in Nat /\ Len(q) \in Nat
      /\ DOMAIN p = 1..Len(p) /\ DOMAIN q = 1..Len(q)
      /\ DOMAIN (p \o q) = 1..(Len(p) + Len(q))
  BY <1>1, LenProperties
<1>3. ToSet(p \o q) \subseteq ToSet(p) \cup ToSet(q)
  <2> SUFFICES ASSUME NEW i \in 1..(Len(p) + Len(q))
               PROVE  (p \o q)[i] \in ToSet(p) \cup ToSet(q)
    BY <1>2 DEF ToSet
  <2>1. CASE i <= Len(p)
    BY <1>1, <1>2, <2>1 DEF ToSet
  <2>2. CASE ~ (i <= Len(p))
    <3>1. i - Len(p) \in 1..Len(q)
      BY <1>2, <2>2
    <3> QED
      BY <1>1, <1>2, <2>2, <3>1 DEF ToSet
  <2> QED
    BY <2>1, <2>2
<1>4. ASSUME NEW i \in 1..Len(p) PROVE p[i] \in ToSet(p \o q)
  <2>1. i \in 1..(Len(p) + Len(q)) /\ i <= Len(p)
    BY <1>2
  <2> QED
    BY <1>1, <1>2, <2>1 DEF ToSet
<1>5. ASSUME NEW i \in 1..Len(q) PROVE q[i] \in ToSet(p \o q)
  <2> DEFINE k == i + Len(p)
  <2>1. k \in 1..(Len(p) + Len(q)) /\ ~ (k <= Len(p)) /\ k - Len(p) = i
    BY <1>2
  <2>2. (p \o q)[k] = q[i]
    BY <1>1, <2>1
  <2> QED
    BY <1>2, <2>1, <2>2 DEF ToSet
<1> QED
  BY <1>1, <1>2, <1>3, <1>4, <1>5 DEF ToSet

LEMMA SetOfTail ==
  ASSUME NEW S, NEW q \in Seq(S), q # << >>
  PROVE  /\ Head(q) \in S /\ Tail(q) \in Seq(S)
         /\ ToSet(q) = {Head(q)} \cup ToSet(Tail(q))
<1>1. /\ Head(q) \in S /\ Tail(q) \in Seq(S)
      /\ Len(Tail(q)) = Len(q) - 1
      /\ \A i \in 1..Len(Tail(q)) : Tail(q)[i] = q[i + 1]
  BY HeadTailProperties
<1>2. /\ Len(q) \in Nat \ {0} /\ DOMAIN q = 1..Len(q)
      /\ DOMAIN Tail(q) = 1..Len(Tail(q)) /\ Len(Tail(q)) \in Nat
  BY <1>1, LenProperties, EmptySeq
<1>3. Head(q) = q[1]
  OBVIOUS
<1>4. ASSUME NEW i \in 1..Len(q) PROVE q[i] \in {Head(q)} \cup ToSet(Tail(q))
  <2>1. CASE i = 1
    BY <1>3, <2>1
  <2>2. CASE i # 1
    <3>1. i - 1 \in 1..Len(Tail(q)) /\ (i - 1) + 1 = i
      BY <1>1, <1>2, <2>2
    <3>2. Tail(q)[i - 1] = q[i]
      BY <1>1, <3>1
    <3> QED
      BY <1>2, <3>1, <3>2 DEF ToSet
  <2> QED
    BY <2>1, <2>2
<1>5. ASSUME NEW i \in 1..Len(Tail(q)) PROVE Tail(q)[i] \in ToSet(q)
  <2>1. i + 1 \in 1..Len(q)
    BY <1>1, <1>2
  <2> QED
    BY <1>1, <1>2, <2>1 DEF ToSet
<1>6. q[1] \in ToSet(q)
  BY <1>2 DEF ToSet
<1> QED
  BY <1>1, <1>2, <1>3, <1>4, <1>5, <1>6 DEF ToSet

LEMMA SetOfType ==
  ASSUME NEW S, NEW q \in Seq(S)
  PROVE  ToSet(q) \subseteq S /\ (ToSet(q) = {} => q = << >>)
BY LenProperties, ElementOfSeq, SetOfTail DEF ToSet

\* A finite set put in some order is that set.
LEMMA OrderedSet ==
  ASSUME NEW S, IsFiniteSet(S)
  PROVE  SetToSeq(S) \in Seq(S) /\ ToSet(SetToSeq(S)) = S
<1> DEFINE n == Cardinality(S)
<1>1. n \in Nat /\ ExistsBijection(1..n, S)
  BY FS_CardinalityType
<1>2. PICK f \in Bijection(1..n, S) : TRUE
  BY <1>1 DEF ExistsBijection
<1>3. f \in [1..n -> S] /\ IsInjective(f)
  BY <1>2 DEF Bijection, Injection, IsInjective
<1>4. SetToSeq(S) \in [1..n -> S] /\ IsInjective(SetToSeq(S))
  BY <1>3 DEF SetToSeq
<1> DEFINE q == SetToSeq(S)
<1> HIDE DEF q
<1>5. q \in Seq(S)
  BY <1>1, <1>4 DEF q
<1>6. q \in Injection(1..n, S)
  BY <1>4 DEF q, Injection, IsInjective
<1>7. IsFiniteSet(1..n) /\ Cardinality(1..n) = n
  BY <1>1, FS_Interval
<1>8. q \in Surjection(1..n, S)
  BY <1>6, <1>7, FS_Injection
<1>9. ToSet(q) = S
  BY <1>4, <1>8 DEF q, ToSet, Surjection
<1> QED
  BY <1>5, <1>9 DEF q

\* Months asked for one by one.
LEMMA OneByOne ==
  ASSUME NEW M \in SUBSET Month
  PROVE  LET q == SetToSeq({{m} : m \in M})
         IN  q \in Seq(SUBSET Month) /\ ToSet(q) = {{m} : m \in M}
<1> DEFINE S == {{m} : m \in M}
           f == [m \in M |-> {m}]
<1>1. IsFiniteSet(Month)
  BY MonthAssumption, FS_Interval DEF Month
<1>2. IsFiniteSet(M)
  BY <1>1, FS_Subset
<1>3. f \in Surjection(M, S)
  BY DEF Surjection
<1>4. IsFiniteSet(S)
  BY <1>2, <1>3, FS_Surjection
<1>5. SetToSeq(S) \in Seq(S) /\ ToSet(SetToSeq(S)) = S
  BY <1>4, OrderedSet
<1>6. S \subseteq SUBSET Month
  OBVIOUS
<1> QED
  BY <1>5, <1>6, SeqMonotonic

-----------------------------------------------------------------------------
(* Types.                                                                  *)

Row == [project : Project, provider : Provider, service : Service, month : Month,
        of : SUBSET Charge, by : 0..MaxEvents]
Sync == [project : Project, account : Account, provider : Provider \cap Supported,
         run : 0..MaxEvents]
View == [rows : SUBSET Row, provider : [Account -> Provider \cup {"deleted"}]]

Types ==
  /\ month \in FirstMonth..LastMonth
  /\ bill \subseteq Charge /\ invoiced \subseteq Account \X Month
  /\ listed \subseteq bill
  /\ provider \in [Account -> Provider \cup {"deleted"}]
  /\ projects \subseteq Project /\ rows \subseteq Row
  /\ view \in [Syncer -> View \cup {NoView}]
  /\ sync \in [Syncer -> Sync \cup {Idle}]
  /\ queries \in [Syncer -> Seq(SUBSET Month)]
  /\ tries \in [Syncer -> 0..(MaxTries - 1)]
  /\ got \in [Syncer -> SUBSET Entry] /\ todo \in [Syncer -> SUBSET Entry]
  /\ shown \in [Syncer -> SUBSET Charge]
  /\ disturbed \subseteq Project
  /\ events \in 0..MaxEvents

\* A session that has something to do is one of a request.
Linked ==
  /\ \A r \in rows : r.project \in projects /\ r.of \subseteq bill
  /\ \A s \in Syncer :
       /\ sync[s] = Idle <=> view[s] = NoView
       /\ sync[s] = Idle => queries[s] = << >> /\ got[s] = {} /\ shown[s] = {}
       /\ todo[s] \subseteq got[s] /\ shown[s] \subseteq bill
       /\ \A e \in got[s] : e.of \subseteq bill

LEMMA MonthBounds ==
  ASSUME Types
  PROVE  /\ month \in Month /\ month \in Nat /\ Lookback \in Nat /\ LastMonth \in Nat
         /\ Window \subseteq Month /\ Month \subseteq Nat
BY MonthAssumption, LookbackAssumption DEF Types, Month, Window

LEMMA SyncIsBusy ==
  ASSUME NEW x \in Sync
  PROVE  x # Idle
<1>1. DOMAIN x = {"project", "account", "provider", "run"} /\ DOMAIN Idle = {"project"}
  BY DEF Sync, Idle
<1> QED
  BY <1>1

LEMMA ViewIsThere ==
  ASSUME NEW x \in View
  PROVE  x # NoView
<1>1. DOMAIN x = {"rows", "provider"} /\ DOMAIN NoView = {"closed"}
  BY DEF View, NoView
<1> QED
  BY <1>1

LEMMA PlanType ==
  ASSUME Types, NEW p \in Supported
  PROVE  /\ Plan(p) \in Seq(SUBSET Month)
         /\ ToSet(Plan(p)) = IF Fetcher[p].plan = "all" THEN {Window} ELSE {{}}
<1>1. Window \in SUBSET Month /\ {} \in SUBSET Month
  BY MonthBounds
<1>2. \A M \in SUBSET Month : <<M>> \in Seq(SUBSET Month) /\ ToSet(<<M>>) = {M}
  BY DEF ToSet
<1> QED
  BY <1>1, <1>2 DEF Plan

\* What a sync finds of a provider.
LEMMA EntriesType ==
  ASSUME Types, NEW a, NEW p, NEW M
  PROVE  /\ Entries(a, p, M) \subseteq Entry
         /\ \A e \in Entries(a, p, M) :
              /\ e.of \subseteq bill /\ e.month \in M
              /\ \A c \in e.of :
                   /\ c.account = a /\ c.provider = p
                   /\ c.service = e.service /\ c.month = e.month /\ Legible(c)
                   /\ Fetcher[p].totals =>
                        \A d \in bill :
                          /\ d.account = a /\ d.provider = p
                          /\ d.service = e.service /\ d.month = e.month /\ Legible(d)
                          => d \in e.of
<1> DEFINE charges == {c \in bill : c.account = a /\ c.provider = p /\ c.month \in M /\ Legible(c)}
           alike(c) == {d \in charges : d.service = c.service /\ d.month = c.month}
           entry(c) == [service |-> c.service, month |-> c.month,
                        of |-> IF Fetcher[p].totals THEN alike(c) ELSE {c}]
<1> SUFFICES ASSUME NEW e \in Entries(a, p, M)
             PROVE  /\ e \in Entry
                    /\ e.of \subseteq bill /\ e.month \in M
                    /\ \A c \in e.of :
                         /\ c.account = a /\ c.provider = p
                         /\ c.service = e.service /\ c.month = e.month /\ Legible(c)
                         /\ Fetcher[p].totals =>
                              \A d \in bill :
                                /\ d.account = a /\ d.provider = p
                                /\ d.service = e.service /\ d.month = e.month /\ Legible(d)
                                => d \in e.of
  OBVIOUS
<1>1. PICK k \in charges : e = entry(k)
  BY DEF Entries
<1>2. bill \subseteq Charge
  BY DEF Types
<1>3. /\ e.service = k.service /\ e.month = k.month
      /\ e.of = IF Fetcher[p].totals THEN alike(k) ELSE {k}
  BY <1>1
<1>4. e.of \subseteq charges
  BY <1>3
<1>5. e \in Entry
  <2>1. k.service \in Service /\ k.month \in Month /\ e.of \in SUBSET Charge
    BY <1>2, <1>4 DEF Charge
  <2>2. e = [service |-> k.service, month |-> k.month, of |-> e.of]
    BY <1>1
  <2> QED
    BY <2>1, <2>2 DEF Entry
<1> QED
  BY <1>3, <1>4, <1>5

\* The first page of an answer.
LEMMA PageType ==
  ASSUME NEW a, NEW p, NEW M, NEW page \in FirstPages(a, p, M)
  PROVE  /\ page \subseteq Entries(a, p, M)
         /\ Fetcher[p].plan # "all" => page = Entries(a, p, M)
<1>1. CASE Fetcher[p].plan = "all"
  BY <1>1 DEF FirstPages
<1>2. CASE Fetcher[p].plan # "all"
  BY <1>2 DEF FirstPages
<1> QED
  BY <1>1, <1>2

LEMMA FollowType ==
  ASSUME Types, NEW a, NEW p \in Supported
  PROVE  /\ Follow(a, p) \subseteq Month
         /\ Fetcher[p].plan \in {"all", "monthly", "invoices"}
         /\ Fetcher[p].plan = "all" => Follow(a, p) = {}
         /\ Fetcher[p].plan = "monthly" => Follow(a, p) = Window
         /\ Fetcher[p].plan = "invoices" => Follow(a, p) = Invoices(a)
<1>1. Fetcher[p].plan \in {"all", "monthly", "invoices"}
  BY DEF Supported, Fetcher
<1>2. /\ Fetcher[p].plan = "all" => Follow(a, p) = {}
      /\ Fetcher[p].plan = "monthly" => Follow(a, p) = Window
      /\ Fetcher[p].plan = "invoices" => Follow(a, p) = Invoices(a)
  BY DEF Follow
<1>3. Window \subseteq Month /\ Invoices(a) \subseteq Month
  BY MonthBounds DEF Invoices
<1> QED
  BY <1>1, <1>2, <1>3

\* What is asked after an answer.
More(s) ==
  IF Head(queries[s]) = {}
  THEN SetToSeq({{m} : m \in Follow(sync[s].account, sync[s].provider)}) ELSE << >>

LEMMA MoreType ==
  ASSUME Types, NEW s, sync[s].provider \in Supported
  PROVE  /\ More(s) \in Seq(SUBSET Month)
         /\ ToSet(More(s)) =
              IF Head(queries[s]) = {}
              THEN {{m} : m \in Follow(sync[s].account, sync[s].provider)} ELSE {}
<1>1. Follow(sync[s].account, sync[s].provider) \subseteq Month
  BY FollowType
<1>2. CASE Head(queries[s]) = {}
  BY <1>1, <1>2, OneByOne DEF More
<1>3. CASE Head(queries[s]) # {}
  <2>1. More(s) = << >>
    BY <1>3 DEF More
  <2> QED
    BY <1>3, <2>1, SetOfEmpty
<1> QED
  BY <1>2, <1>3

LEMMA AskerType ==
  ASSUME Types, Linked, NEW s \in Syncer, queries[s] # << >>
  PROVE  sync[s] \in Sync /\ sync[s].provider \in Supported
<1>1. sync[s] \in Sync
  BY DEF Types, Linked
<1> QED
  BY <1>1 DEF Sync

\* The calls before and after an answer.
LEMMA AnswerAsks ==
  ASSUME Types, Linked, NEW s \in Syncer, NEW page, Answer(s, page)
  PROVE  /\ Head(queries[s]) \in SUBSET Month
         /\ ToSet(queries[s]) = {Head(queries[s])} \cup ToSet(Tail(queries[s]))
         /\ queries'[s] \in Seq(SUBSET Month)
         /\ ToSet(queries'[s]) = ToSet(Tail(queries[s])) \cup ToSet(More(s))
         /\ queries' = [queries EXCEPT ![s] = queries'[s]]
<1>t. queries \in [Syncer -> Seq(SUBSET Month)]
  BY DEF Types
<1>1. queries[s] \in Seq(SUBSET Month) /\ queries[s] # << >>
  BY <1>t DEF Answer
<1>2. /\ Head(queries[s]) \in SUBSET Month /\ Tail(queries[s]) \in Seq(SUBSET Month)
      /\ ToSet(queries[s]) = {Head(queries[s])} \cup ToSet(Tail(queries[s]))
  BY <1>1, SetOfTail
<1>3. queries' = [queries EXCEPT ![s] = Tail(queries[s]) \o More(s)]
  BY DEF Answer, More
<1>4. queries'[s] = Tail(queries[s]) \o More(s)
  BY <1>t, <1>3
<1>5. /\ queries'[s] \in Seq(SUBSET Month)
      /\ ToSet(queries'[s]) = ToSet(Tail(queries[s])) \cup ToSet(More(s))
  <2> DEFINE rest == Tail(queries[s])  more == More(s)
  <2>1. rest \in Seq(SUBSET Month) /\ more \in Seq(SUBSET Month)
    BY <1>1, <1>2, AskerType, MoreType
  <2>2. queries'[s] = rest \o more
    BY <1>4
  <2> HIDE DEF rest, more
  <2>3. queries'[s] \in Seq(SUBSET Month) /\ ToSet(queries'[s]) = ToSet(rest) \cup ToSet(more)
    BY <2>1, <2>2, SetOfConcat
  <2> QED
    BY <2>3 DEF rest, more
<1> QED
  BY <1>2, <1>3, <1>4, <1>5

\* Where a session ends, nothing of it is left.
LEMMA OverTypes ==
  ASSUME Types, NEW s \in Syncer, Over(s)
  PROVE  /\ view' \in [Syncer -> View \cup {NoView}]
         /\ sync' \in [Syncer -> Sync \cup {Idle}]
         /\ queries' \in [Syncer -> Seq(SUBSET Month)]
         /\ tries' \in [Syncer -> 0..(MaxTries - 1)]
         /\ got' \in [Syncer -> SUBSET Entry] /\ todo' \in [Syncer -> SUBSET Entry]
         /\ shown' \in [Syncer -> SUBSET Charge]
<1>1. << >> \in Seq(SUBSET Month) /\ 0 \in 0..(MaxTries - 1)
  BY DEF MaxTries
<1> QED
  BY <1>1 DEF Types, Over

LEMMA StartTypes ==
  ASSUME Types, NEW s \in Syncer, NEW j \in Project, NEW a \in Account, StartSync(s, j, a)
  PROVE  /\ Types'
         /\ sync'[s] = [project |-> j, account |-> a, provider |-> provider[a], run |-> events]
         /\ sync'[s] \in Sync /\ view'[s] = Now /\ Now \in View
         /\ provider[a] \in Provider \cap Supported
<1>1. provider[a] \in Provider \cap Supported
  BY DEF Types, StartSync, Supported, Fetcher
<1>2. Plan(provider[a]) \in Seq(SUBSET Month)
  BY <1>1, PlanType
<1>3. Now \in View
  BY DEF Types, Now, View
<1>4. events' \in 0..MaxEvents /\ events \in 0..MaxEvents
  BY BoundAssumption DEF Types, StartSync
<1>5. [project |-> j, account |-> a, provider |-> provider[a], run |-> events] \in Sync
  BY <1>1, <1>4 DEF Sync
<1>6. disturbed' \subseteq Project
  BY DEF Types, StartSync
<1>7. shown' \in [Syncer -> SUBSET Charge]
  <2>1. \A P : {c \in bill : c \in P} \subseteq Charge
    BY DEF Types
  <2> QED
    BY DEF Types, StartSync
<1>8. /\ sync' \in [Syncer -> Sync \cup {Idle}]
      /\ view' \in [Syncer -> View \cup {NoView}]
      /\ queries' \in [Syncer -> Seq(SUBSET Month)]
      /\ sync'[s] = [project |-> j, account |-> a, provider |-> provider[a], run |-> events]
      /\ view'[s] = Now
  BY <1>2, <1>3, <1>5 DEF Types, StartSync
<1>9. UNCHANGED <<month, bill, invoiced, listed, provider, projects, rows, tries, got, todo>>
  BY DEF StartSync, tables, billing
<1> QED
  BY <1>1, <1>3, <1>4, <1>5, <1>6, <1>7, <1>8, <1>9 DEF Types

LEMMA AnswerTypes ==
  ASSUME Types, Linked, NEW s \in Syncer, NEW page, Answer(s, page)
  PROVE  Types'
<1>1. queries' \in [Syncer -> Seq(SUBSET Month)]
  BY AnswerAsks DEF Types
<1>2. page \subseteq Entry
  BY PageType, EntriesType DEF Answer
<1>3. got' \in [Syncer -> SUBSET Entry] /\ todo' \in [Syncer -> SUBSET Entry]
  BY <1>2 DEF Types, Answer
<1>4. tries' \in [Syncer -> 0..(MaxTries - 1)]
  BY DEF Types, Answer, MaxTries
<1>5. UNCHANGED <<month, bill, invoiced, listed, provider, projects, rows, view, sync,
                  shown, disturbed, events>>
  BY DEF Answer, tables, billing
<1> QED
  BY <1>1, <1>3, <1>4, <1>5 DEF Types

LEMMA FailTypes ==
  ASSUME Types, NEW s \in Syncer, CallFails(s)
  PROVE  Types'
<1>1. events' \in 0..MaxEvents
  BY BoundAssumption DEF Types, CallFails
<1>2. UNCHANGED <<month, bill, invoiced, listed, provider, projects, rows, disturbed>>
  BY DEF CallFails, tables, billing
<1>3. CASE /\ tries[s] + 1 < MaxTries
           /\ tries' = [tries EXCEPT ![s] = @ + 1]
           /\ UNCHANGED <<view, sync, queries, got, todo, shown>>
  <2>1. tries' \in [Syncer -> 0..(MaxTries - 1)]
    <3>1. tries[s] \in 0..(MaxTries - 1)
      BY DEF Types
    <3>2. tries[s] + 1 \in 0..(MaxTries - 1)
      BY <1>3, <3>1 DEF MaxTries
    <3> QED
      BY <1>3, <3>2 DEF Types
  <2>2. UNCHANGED <<view, sync, queries, got, todo, shown>>
    BY <1>3
  <2> QED
    BY <1>1, <1>2, <2>1, <2>2 DEF Types
<1>4. CASE Over(s)
  BY <1>1, <1>2, <1>4, OverTypes DEF Types
<1> QED
  BY <1>3, <1>4 DEF CallFails

\* The row that a sync adds for an entry.
Stored(s, e) ==
  [project |-> sync[s].project, provider |-> view[s].provider[sync[s].account],
   service |-> e.service, month |-> e.month, of |-> e.of, by |-> sync[s].run]

\* The cases of Store.
Skipped(s, e) ==
  /\ Existing(view[s].rows, sync[s].project, view[s].provider[sync[s].account], e)
  /\ todo' = [todo EXCEPT ![s] = @ \ {e}]
  /\ UNCHANGED <<rows, view, sync, queries, tries, got, shown>>

Added(s, e) ==
  /\ view[s].provider[sync[s].account] # "deleted"
  /\ ~ Existing(view[s].rows, sync[s].project, view[s].provider[sync[s].account], e)
  /\ sync[s].project \in projects
  /\ rows' = rows \cup {Stored(s, e)}
  /\ view' = [view EXCEPT ![s] = [rows |-> rows', provider |-> provider]]
  /\ todo' = [todo EXCEPT ![s] = @ \ {e}]
  /\ UNCHANGED <<sync, queries, tries, got, shown>>

LEMMA StoreCases ==
  ASSUME Types, NEW s \in Syncer, NEW e \in todo[s], Store(s, e)
  PROVE  /\ sync[s] \in Sync /\ queries[s] = << >> /\ e \in Entry
         /\ UNCHANGED <<projects, provider, month, bill, invoiced, listed, disturbed, events>>
         /\ Skipped(s, e) \/ Added(s, e) \/ (Over(s) /\ UNCHANGED rows)
<1> DEFINE j == sync[s].project
           p == view[s].provider[sync[s].account]
           old == Existing(view[s].rows, j, p, e)
<1>1. sync[s] \in Sync /\ queries[s] = << >> /\ e \in Entry
  BY DEF Store, Types
<1>2. UNCHANGED <<projects, provider, month, bill, invoiced, listed, disturbed, events>>
  BY DEF Store, billing
<1>3. \/ /\ p # "deleted" /\ old
         /\ todo' = [todo EXCEPT ![s] = @ \ {e}]
         /\ UNCHANGED <<rows, view, sync, queries, tries, got, shown>>
      \/ /\ p # "deleted" /\ ~ old /\ j \in projects
         /\ rows' = rows \cup {Stored(s, e)}
         /\ view' = [view EXCEPT ![s] = [rows |-> rows', provider |-> provider]]
         /\ todo' = [todo EXCEPT ![s] = @ \ {e}]
         /\ UNCHANGED <<sync, queries, tries, got, shown>>
      \/ Over(s) /\ UNCHANGED rows
  BY DEF Store, Stored
<1>4. Skipped(s, e) \/ Added(s, e) \/ (Over(s) /\ UNCHANGED rows)
  BY <1>3 DEF Skipped, Added
<1> QED
  BY <1>1, <1>2, <1>4

LEMMA StoreTypes ==
  ASSUME Types, Linked, NEW s \in Syncer, NEW e \in todo[s], Store(s, e)
  PROVE  Types' /\ (Added(s, e) => Stored(s, e) \in Row)
<1>1. /\ sync[s] \in Sync /\ e \in Entry
      /\ UNCHANGED <<projects, provider, month, bill, invoiced, listed, disturbed, events>>
  BY StoreCases
<1>2. view[s] \in View
  BY <1>1, SyncIsBusy DEF Types, Linked
<1>3. ASSUME Added(s, e) PROVE Stored(s, e) \in Row
  <2>1. view[s].provider[sync[s].account] \in Provider
    BY <1>1, <1>2, <1>3 DEF Added, View, Sync
  <2> QED
    BY <1>1, <2>1 DEF Stored, Row, Entry, Sync
<1>4. CASE Skipped(s, e)
  BY <1>1, <1>3, <1>4 DEF Types, Skipped
<1>5. CASE Added(s, e)
  <2>1. rows' \subseteq Row
    BY <1>3, <1>5 DEF Added, Types
  <2>2. [rows |-> rows', provider |-> provider] \in View
    BY <2>1 DEF View, Types
  <2>3. view' \in [Syncer -> View \cup {NoView}]
    BY <1>5, <2>2 DEF Added, Types
  <2>4. todo' \in [Syncer -> SUBSET Entry]
    BY <1>5 DEF Added, Types
  <2> QED
    BY <1>1, <1>3, <1>5, <2>1, <2>3, <2>4 DEF Added, Types
<1>6. CASE Over(s) /\ UNCHANGED rows
  BY <1>1, <1>3, <1>6, OverTypes DEF Types
<1> QED
  BY <1>4, <1>5, <1>6, StoreCases

\* The actions of no session.
LEMMA OtherTypes ==
  ASSUME Types
  PROVE  /\ \A j \in Project : DeleteProject(j) => Types'
         /\ \A j \in Project, p \in Provider, v \in Service, m \in ByHand :
              Ingest(j, p, v, m) => Types'
         /\ \A a \in Account, p \in Provider \cup {"deleted"} : ChangeAccount(a, p) => Types'
         /\ \A c : Spend(c) => Types'
         /\ NextMonth => Types'
         /\ \A a \in Account, m \in Month : \A first : Issue(a, m, first) => Types'
<1>1. events \in Nat /\ (events < MaxEvents => events \in 0..MaxEvents /\ events + 1 \in 0..MaxEvents)
  BY BoundAssumption DEF Types
<1>2. ASSUME NEW j \in Project, DeleteProject(j) PROVE Types'
  BY <1>1, <1>2 DEF DeleteProject, Types, session, billing
<1>3. ASSUME NEW j \in Project, NEW p \in Provider, NEW v \in Service, NEW m \in ByHand,
             Ingest(j, p, v, m)
      PROVE  Types'
  <2>1. [project |-> j, provider |-> p, service |-> v, month |-> m, of |-> {},
         by |-> events] \in Row
    BY <1>1, <1>3, BoundAssumption DEF Row, Ingest, Month
  <2> QED
    BY <1>1, <1>3, <2>1 DEF Ingest, Types, session, billing
<1>4. ASSUME NEW a \in Account, NEW p \in Provider \cup {"deleted"}, ChangeAccount(a, p)
      PROVE  Types'
  <2>1. disturbed' \subseteq Project
    BY <1>4, SyncIsBusy DEF ChangeAccount, Types, Sync
  <2>2. provider' \in [Account -> Provider \cup {"deleted"}]
    BY <1>4 DEF ChangeAccount, Types
  <2> QED
    BY <1>1, <1>4, <2>1, <2>2 DEF ChangeAccount, Types, session, billing
<1>5. ASSUME NEW c, Spend(c) PROVE Types'
  BY <1>1, <1>5 DEF Spend, Types, tables, session
<1>6. ASSUME NextMonth PROVE Types'
  <2>1. month' \in FirstMonth..LastMonth
    BY <1>6, MonthAssumption DEF NextMonth, Types
  <2> QED
    BY <1>6, <2>1 DEF NextMonth, Types, tables, session
<1>7. ASSUME NEW a \in Account, NEW m \in Month, NEW first, Issue(a, m, first) PROVE Types'
  <2>1. listed' \subseteq bill
    BY <1>7 DEF Issue, Items, Types
  <2> QED
    BY <1>7, <2>1 DEF Issue, Types, tables, session
<1> QED
  BY <1>2, <1>3, <1>4, <1>5, <1>6, <1>7

-----------------------------------------------------------------------------
(* The inductive invariants.                                               *)

\* Of a month that is over.
Closed ==
  /\ \A i \in invoiced : i[2] < month
  /\ \A c \in listed : <<c.account, c.month>> \in invoiced
  /\ \A s \in Syncer : \A M \in ToSet(queries[s]) : \A m \in M : m < month

\* An amount reported for a service and a month of an account is final.
Final(e) ==
  \A c \in e.of :
    /\ c.service = e.service /\ c.month = e.month /\ e.month < month /\ Legible(c)
    /\ Fetcher[c.provider].totals =>
         \A d \in bill :
           /\ d.account = c.account /\ d.provider = c.provider
           /\ d.service = e.service /\ d.month = e.month /\ Legible(d)
           => d \in e.of

AllFinal ==
  /\ \A r \in rows : Final(r)
  /\ \A s \in Syncer : \A e \in got[s] :
       /\ Final(e)
       /\ \A c \in e.of : c.account = sync[s].account /\ c.provider = sync[s].provider

FinalInv == Closed /\ AllFinal

\* A project that is not disturbed has one sync at a time, whose account is
\* the one it began with; its rows are of the provider that charged them; and
\* the sync's snapshot holds every row with a charge, so that there is one at
\* most for each provider, service and month.
Calm(s) == sync[s] # Idle /\ sync[s].project \notin disturbed

Alone ==
  \A s, t \in Syncer : Calm(s) /\ sync[t] # Idle /\ sync[s].project = sync[t].project => s = t

SameProvider ==
  \A s \in Syncer : Calm(s) =>
    /\ provider[sync[s].account] = sync[s].provider
    /\ view[s].provider[sync[s].account] = sync[s].provider

RowProvider ==
  \A r \in rows : r.project \notin disturbed => \A c \in r.of : r.provider = c.provider

InSnapshot ==
  \A s \in Syncer : Calm(s) =>
    \A r \in rows : r.project = sync[s].project /\ r.of # {} => r \in view[s].rows

OneRowEach ==
  \A r, q \in rows :
    /\ r.project = q.project /\ r.project \notin disturbed /\ r.of # {} /\ q.of # {}
    /\ r.provider = q.provider /\ r.service = q.service /\ r.month = q.month
    => r = q

BilledInv == Alone /\ SameProvider /\ RowProvider /\ InSnapshot /\ OneRowEach

\* What a snapshot shows of a project that is still there is in the table.
Kept ==
  \A s \in Syncer : sync[s] # Idle =>
    \A r \in view[s].rows : r.project \in projects => r \in rows

\* What the loop has passed has a row.
Passed ==
  \A s \in Syncer : sync[s] # Idle /\ sync[s].project \in projects =>
    \A e \in got[s] \ todo[s] :
      \E r \in rows : r.project = sync[s].project /\ r.service = e.service /\ r.month = e.month

\* A charge the request was shown has been reported or is still asked for.
Reported(s, c) == \E e \in got[s] : e.service = c.service /\ e.month = c.month

\* The first call is still to be made, or one for the month.
AskedFor(s, c) == {} \in ToSet(queries[s]) \/ \E M \in ToSet(queries[s]) : c.month \in M

Expected ==
  \A s \in Syncer : \A c \in shown[s] :
    /\ c.account = sync[s].account /\ c.provider = sync[s].provider /\ c.month < month
    /\ Fetcher[c.provider].plan # "all" /\ Legible(c)
    /\ c.month >= month - Lookback => Reported(s, c) \/ AskedFor(s, c)

CompleteInv == Kept /\ Passed /\ Expected

-----------------------------------------------------------------------------
(* What a step may change.                                                 *)

\* To a session: nothing, or one of these.
Same(t) ==
  /\ view'[t] = view[t] /\ sync'[t] = sync[t] /\ queries'[t] = queries[t]
  /\ got'[t] = got[t] /\ todo'[t] = todo[t] /\ shown'[t] = shown[t]

Ended(t) ==
  /\ view'[t] = NoView /\ sync'[t] = Idle /\ queries'[t] = << >>
  /\ got'[t] = {} /\ todo'[t] = {} /\ shown'[t] = {}

Answers(t) == \E page : Answer(t, page)
Starts(t) == \E j \in Project, a \in Account : StartSync(t, j, a)
Stores(t) == \E e \in todo[t] : Store(t, e) /\ (Skipped(t, e) \/ Added(t, e))

LEMMA OverEnds ==
  ASSUME Types, NEW s \in Syncer, Over(s), NEW t \in Syncer
  PROVE  Same(t) \/ Ended(t)
BY DEF Types, Over, Same, Ended

LEMMA SessionMoves ==
  ASSUME Types, Linked, [Next]_vars, NEW t \in Syncer
  PROVE  Same(t) \/ Ended(t) \/ Starts(t) \/ Answers(t) \/ Stores(t)
<1>1. ASSUME UNCHANGED session, UNCHANGED shown PROVE Same(t)
  BY <1>1 DEF session, Same
<1>2. ASSUME NEW s \in Syncer, Answers(s) PROVE Same(t) \/ Answers(t)
  BY <1>2 DEF Answers, Answer, Types, Same
<1>3. ASSUME NEW s \in Syncer, CallFails(s) PROVE Same(t) \/ Ended(t)
  <2>1. CASE Over(s)
    BY <2>1, OverEnds
  <2>2. CASE UNCHANGED <<view, sync, queries, got, todo, shown>>
    BY <2>2 DEF Same
  <2> QED
    BY <1>3, <2>1, <2>2 DEF CallFails
<1>4. ASSUME NEW s \in Syncer, Finish(s) \/ Crash(s) PROVE Same(t) \/ Ended(t)
  BY <1>4, OverEnds DEF Finish, Crash
<1>5. ASSUME NEW s \in Syncer, NEW e \in todo[s], Store(s, e)
      PROVE  Same(t) \/ Ended(t) \/ Stores(t)
  <2>1. CASE Over(s)
    BY <2>1, OverEnds
  <2>2. CASE Skipped(s, e) \/ Added(s, e)
    <3>1. CASE s = t
      BY <1>5, <2>2, <3>1 DEF Stores
    <3>2. CASE s # t
      BY <2>2, <3>2 DEF Skipped, Added, Types, Same
    <3> QED
      BY <3>1, <3>2
  <2> QED
    BY <1>5, <2>1, <2>2, StoreCases
<1>6. ASSUME NEW s \in Syncer, NEW j \in Project, NEW a \in Account, StartSync(s, j, a)
      PROVE  Same(t) \/ Starts(t)
  <2>1. CASE s = t
    BY <1>6, <2>1 DEF Starts
  <2>2. CASE s # t
    BY <1>6, <2>2 DEF StartSync, Types, Same
  <2> QED
    BY <2>1, <2>2
<1>7. ASSUME NEW s \in Syncer,
             \/ Answers(s) \/ CallFails(s) \/ Finish(s) \/ Crash(s)
             \/ \E e \in todo[s] : Store(s, e)
             \/ \E j \in Project, a \in Account : StartSync(s, j, a)
      PROVE  Same(t) \/ Ended(t) \/ Starts(t) \/ Answers(t) \/ Stores(t)
  BY <1>2, <1>3, <1>4, <1>5, <1>6, <1>7
<1>8. CASE \/ \E j \in Project :
                \/ DeleteProject(j)
                \/ \E p \in Provider, v \in Service, m \in ByHand : Ingest(j, p, v, m)
           \/ \E a \in Account : \E p \in Provider \cup {"deleted"} : ChangeAccount(a, p)
           \/ \E c : Spend(c)
           \/ NextMonth
           \/ \E a \in Account, m \in Month : \E first : Issue(a, m, first)
           \/ UNCHANGED vars
  <2>1. UNCHANGED session /\ UNCHANGED shown
    BY <1>8 DEF DeleteProject, Ingest, ChangeAccount, Spend, NextMonth, Issue, vars
  <2> QED
    BY <1>1, <2>1
<1> QED
  BY <1>7, <1>8 DEF Next, Answers

\* To the rest: it grows, but for the projects, which take their rows along.
Grown ==
  /\ month' >= month
  /\ bill \subseteq bill' /\ \A c \in bill' \ bill : c.month = month
  /\ invoiced \subseteq invoiced' /\ \A i \in invoiced' \ invoiced : i[2] < month
  /\ listed \subseteq listed'
  /\ \A c \in listed' \ listed : <<c.account, c.month>> \in invoiced' \ invoiced
  /\ disturbed \subseteq disturbed'
  /\ projects' \subseteq projects
  /\ \A r \in rows : r.project \in projects' => r \in rows'
  /\ \A r \in rows' : r.project \in projects => r.project \in projects'
  /\ \A r \in rows' \ rows :
       \/ r.of = {} /\ r.project \in projects
       \/ \E s \in Syncer : \E e \in todo[s] :
            Store(s, e) /\ Added(s, e) /\ r = Stored(s, e) /\ r.project \in projects

LEMMA Grows ==
  ASSUME Types, [Next]_vars
  PROVE  Grown
<1>m. month \in Nat
  BY MonthBounds
<1>1. ASSUME UNCHANGED <<month, bill, invoiced, listed, projects, rows>>, disturbed \subseteq disturbed'
      PROVE  Grown
  BY <1>1, <1>m DEF Grown
<1>2. ASSUME NEW s \in Syncer, NEW e \in todo[s], Store(s, e), Added(s, e) PROVE Grown
  <2>1. UNCHANGED <<month, bill, invoiced, listed, projects, disturbed>>
    BY <1>2, StoreCases
  <2>2. rows' = rows \cup {Stored(s, e)} /\ Stored(s, e).project \in projects
    BY <1>2 DEF Added, Stored
  <2> QED
    BY <1>2, <1>m, <2>1, <2>2 DEF Grown
<1>3. ASSUME NEW s \in Syncer, NEW e \in todo[s], Store(s, e) PROVE Grown
  <2>1. CASE Added(s, e)
    BY <1>2, <1>3, <2>1
  <2>2. CASE ~ Added(s, e)
    BY <1>1, <1>3, <2>2, StoreCases DEF Skipped
  <2> QED
    BY <2>1, <2>2
<1>4. ASSUME NEW s \in Syncer,
             \/ Answers(s) \/ CallFails(s) \/ Finish(s) \/ Crash(s)
             \/ \E j \in Project, a \in Account : StartSync(s, j, a)
      PROVE  Grown
  BY <1>1, <1>4 DEF Answers, Answer, CallFails, Finish, Crash, StartSync, tables, billing
<1>5. ASSUME NEW j \in Project, DeleteProject(j) PROVE Grown
  BY <1>5, <1>m DEF DeleteProject, Grown, billing
<1>6. ASSUME NEW j \in Project, NEW p \in Provider, NEW v \in Service, NEW m \in ByHand,
             Ingest(j, p, v, m)
      PROVE  Grown
  BY <1>6, <1>m DEF Ingest, Grown, billing
<1>7. ASSUME NEW a \in Account, NEW p, ChangeAccount(a, p) PROVE Grown
  BY <1>1, <1>7 DEF ChangeAccount, billing
<1>8. ASSUME NEW c, Spend(c) PROVE Grown
  BY <1>8, <1>m DEF Spend, Grown, tables
<1>9. ASSUME NextMonth PROVE Grown
  BY <1>9, <1>m DEF NextMonth, Grown, tables
<1>10. ASSUME NEW a \in Account, NEW m \in Month, NEW first, Issue(a, m, first) PROVE Grown
  <2>1. \A c \in first : c.account = a /\ c.month = m
    BY <1>10 DEF Issue, Items
  <2>2. /\ invoiced' = invoiced \cup {<<a, m>>} /\ <<a, m>> \notin invoiced /\ m < month
        /\ listed' = listed \cup first
    BY <1>10 DEF Issue
  <2> QED
    BY <1>10, <1>m, <2>1, <2>2 DEF Issue, Grown, tables
<1> QED
  BY <1>1, <1>3, <1>4, <1>5, <1>6, <1>7, <1>8, <1>9, <1>10
  DEF Next, Answers, vars, tables, billing

LEMMA TypesStep ==
  ASSUME Types, Linked, [Next]_vars
  PROVE  Types'
<1>1. ASSUME NEW s \in Syncer, Finish(s) \/ Crash(s) PROVE Types'
  <2>1. events' \in 0..MaxEvents
    BY <1>1, BoundAssumption DEF Finish, Crash, Types
  <2>2. UNCHANGED <<month, bill, invoiced, listed, provider, projects, rows, disturbed>> /\ Over(s)
    BY <1>1 DEF Finish, Crash, tables, billing
  <2> QED
    BY <2>1, <2>2, OverTypes DEF Types
<1>2. CASE UNCHANGED vars
  BY <1>2 DEF vars, tables, billing, session, Types
<1> QED
  BY <1>1, <1>2, AnswerTypes, FailTypes, StartTypes, StoreTypes, OtherTypes DEF Next

\* What a request begins with.
LEMMA StartIs ==
  ASSUME Types, Linked, NEW t \in Syncer, NEW j \in Project, NEW a \in Account,
         StartSync(t, j, a)
  PROVE  /\ sync[t] = Idle /\ got'[t] = {} /\ todo'[t] = {} /\ view'[t] = Now
         /\ sync'[t] # Idle /\ view'[t] # NoView
         /\ sync'[t].project = j /\ sync'[t].account = a /\ sync'[t].provider = provider[a]
         /\ j \in projects /\ provider[a] \in Provider \cap Supported
         /\ queries'[t] = Plan(provider[a])
         /\ shown'[t] = {c \in bill :
              /\ c.account = a /\ c.provider = provider[a] /\ c.month \in 1..(month - 1)
              /\ Fetcher[c.provider].plan # "all" /\ Legible(c)}
         /\ UNCHANGED <<tables, billing>>
<1>1. sync[t] = Idle /\ got'[t] = {} /\ todo'[t] = {}
  BY DEF Linked, StartSync
<1>2. /\ sync'[t] = [project |-> j, account |-> a, provider |-> provider[a], run |-> events]
      /\ sync'[t] \in Sync /\ view'[t] = Now /\ Now \in View
      /\ provider[a] \in Provider \cap Supported
  BY StartTypes
<1>3. sync'[t] # Idle /\ view'[t] # NoView
  BY <1>2, SyncIsBusy, ViewIsThere
<1>4. /\ queries'[t] = Plan(provider[a])
      /\ shown'[t] = {c \in bill :
           /\ c.account = a /\ c.provider = provider[a] /\ c.month \in 1..(month - 1)
           /\ Fetcher[c.provider].plan # "all" /\ Legible(c)}
  BY DEF StartSync, Types
<1> QED
  BY <1>1, <1>2, <1>3, <1>4 DEF StartSync

\* What an answer brings.
LEMMA AnswerIs ==
  ASSUME Types, Linked, NEW t \in Syncer, NEW page, Answer(t, page)
  PROVE  /\ sync[t] \in Sync /\ sync'[t] = sync[t] /\ view'[t] = view[t]
         /\ page \in FirstPages(sync[t].account, sync[t].provider, Head(queries[t]))
         /\ page \subseteq Entries(sync[t].account, sync[t].provider, Head(queries[t]))
         /\ got'[t] = got[t] \cup page /\ todo'[t] = todo[t] \cup page
         /\ shown'[t] = shown[t]
         /\ UNCHANGED <<tables, billing>>
BY PageType DEF Answer, Types, Linked

\* What the loop does with an entry.
LEMMA StoreIs ==
  ASSUME Types, Linked, NEW t \in Syncer, NEW e \in todo[t], Store(t, e),
         Skipped(t, e) \/ Added(t, e)
  PROVE  /\ sync[t] \in Sync /\ view[t] \in View /\ e \in got[t] /\ e \in Entry
         /\ sync'[t] = sync[t] /\ sync[t] # Idle
         /\ queries'[t] = queries[t] /\ got'[t] = got[t] /\ shown'[t] = shown[t]
         /\ todo'[t] = todo[t] \ {e}
         /\ Skipped(t, e) => view'[t] = view[t]
         /\ Added(t, e) => view'[t] = [rows |-> rows', provider |-> provider]
         /\ UNCHANGED <<projects, provider, billing, disturbed>>
<1>1. /\ sync[t] \in Sync /\ e \in Entry
      /\ UNCHANGED <<projects, provider, month, bill, invoiced, listed, disturbed, events>>
  BY StoreCases
<1>2. sync[t] # Idle /\ e \in got[t] /\ view[t] \in View
  BY <1>1, SyncIsBusy DEF Linked, Types
<1>3. /\ todo'[t] = todo[t] \ {e} /\ UNCHANGED <<sync, queries, got, shown>>
      /\ Skipped(t, e) => view'[t] = view[t]
      /\ Added(t, e) => view'[t] = [rows |-> rows', provider |-> provider]
  BY DEF Skipped, Added, Types
<1> QED
  BY <1>1, <1>2, <1>3 DEF billing

LEMMA LinkedStep ==
  ASSUME Types, Linked, [Next]_vars
  PROVE  Linked'
<1>1. Grown
  BY Grows
<1>2. ASSUME NEW r \in rows' PROVE r.project \in projects' /\ r.of \subseteq bill'
  <2>1. r.project \in projects /\ r.of \subseteq bill
    <3>1. ASSUME NEW s \in Syncer, NEW e \in todo[s], r = Stored(s, e)
          PROVE  r.of \subseteq bill
      BY <3>1 DEF Stored, Linked
    <3> QED
      BY <1>1, <3>1 DEF Grown, Linked
  <2> QED
    BY <1>1, <2>1 DEF Grown
<1>3. ASSUME NEW t \in Syncer
      PROVE  /\ sync'[t] = Idle <=> view'[t] = NoView
             /\ sync'[t] = Idle => queries'[t] = << >> /\ got'[t] = {} /\ shown'[t] = {}
             /\ todo'[t] \subseteq got'[t] /\ shown'[t] \subseteq bill'
             /\ \A e \in got'[t] : e.of \subseteq bill'
  <2>1. bill \subseteq bill'
    BY <1>1 DEF Grown
  <2>2. CASE Same(t)
    BY <2>1, <2>2 DEF Same, Linked
  <2>3. CASE Ended(t)
    BY <2>3 DEF Ended
  <2>4. CASE Starts(t)
    <3>1. PICK j \in Project, a \in Account : StartSync(t, j, a)
      BY <2>4 DEF Starts
    <3>2. got'[t] = {} /\ todo'[t] = {} /\ sync'[t] # Idle /\ view'[t] # NoView
      BY <3>1, StartIs
    <3>3. shown'[t] \subseteq bill
      BY <3>1 DEF StartSync, Types
    <3> QED
      BY <2>1, <3>2, <3>3
  <2>5. CASE Answers(t)
    <3>1. PICK page : Answer(t, page)
      BY <2>5 DEF Answers
    <3>2. \A e \in page : e.of \subseteq bill
      BY <3>1, AnswerIs, EntriesType
    <3>3. sync[t] # Idle
      BY <3>1, AnswerIs, SyncIsBusy
    <3> QED
      BY <2>1, <3>1, <3>2, <3>3, AnswerIs DEF Linked
  <2>6. CASE Stores(t)
    <3>1. PICK e \in todo[t] : Store(t, e) /\ (Skipped(t, e) \/ Added(t, e))
      BY <2>6 DEF Stores
    <3>2. view'[t] # NoView
      <4>1. [rows |-> rows', provider |-> provider] # NoView
        <5>1. DOMAIN [rows |-> rows', provider |-> provider] = {"rows", "provider"}
          OBVIOUS
        <5>2. DOMAIN NoView = {"closed"}
          BY DEF NoView
        <5> QED
          BY <5>1, <5>2
      <4>2. \/ view'[t] = view[t] /\ view[t] \in View
            \/ view'[t] = [rows |-> rows', provider |-> provider]
        BY <3>1, StoreIs
      <4> QED
        BY <4>1, <4>2, ViewIsThere
    <3> QED
      BY <2>1, <3>1, <3>2, StoreIs DEF Linked
  <2> QED
    BY <2>2, <2>3, <2>4, <2>5, <2>6, SessionMoves
<1> QED
  BY <1>2, <1>3 DEF Linked

LEMMA TypedInit ==
  ASSUME Init
  PROVE  Types /\ Linked
<1>1. FirstMonth - Lookback >= 1 /\ FirstMonth - 1 <= LastMonth /\ FirstMonth - 1 \in Int
  BY MonthAssumption, LookbackAssumption
<1>2. bill \subseteq Charge
  <2>1. (FirstMonth - Lookback)..(FirstMonth - 1) \subseteq Month
    BY <1>1, MonthAssumption, LookbackAssumption DEF Month
  <2> QED
    BY <2>1 DEF Init, Charge
<1>3. invoiced \subseteq Account \X Month
  <2>1. 1..(FirstMonth - 1) \subseteq Month
    BY <1>1, MonthAssumption DEF Month
  <2> QED
    BY <2>1 DEF Init
<1>4. month \in FirstMonth..LastMonth /\ events \in 0..MaxEvents
  BY MonthAssumption, BoundAssumption DEF Init
<1>5. << >> \in Seq(SUBSET Month) /\ 0 \in 0..(MaxTries - 1)
  BY DEF MaxTries
<1>6. Types
  BY <1>2, <1>3, <1>4, <1>5 DEF Init, Types
<1>7. Linked
  BY DEF Init, Linked
<1> QED
  BY <1>6, <1>7

LEMMA Typed == Spec => [](Types /\ Linked)
<1>1. Types /\ Linked /\ [Next]_vars => (Types /\ Linked)'
  BY TypesStep, LinkedStep
<1> QED
  BY <1>1, TypedInit, PTL DEF Spec

\* Every variable keeps its type, whichever requests, failures, deletions and
\* edits interleave: a row is one of a project that is there and adds up
\* charges of the provider's, a snapshot is open as long as its request, and
\* the calls still to be made ask for months, however many they are.
THEOREM TypeCorrect == Spec => []TypeOK
<1>1. Types /\ Linked => TypeOK
  <2> SUFFICES ASSUME Types, Linked PROVE TypeOK
    OBVIOUS
  <2>1. month \in Month
    BY MonthBounds
  <2>2. ASSUME NEW s \in Syncer, sync[s] # Idle
        PROVE  /\ sync[s].project \in Project /\ sync[s].account \in Account
               /\ sync[s].provider \in Provider \cap Supported
    BY <2>2 DEF Types, Sync
  <2>3. \A r \in rows : /\ r.provider \in Provider /\ r.service \in Service
                        /\ r.month \in Month /\ r.by \in 0..MaxEvents
    BY DEF Types, Row
  <2>4. \A s \in Syncer : view[s] # NoView <=> sync[s] # Idle
    BY DEF Linked
  <2> QED
    BY <2>1, <2>2, <2>3, <2>4 DEF Types, Linked, TypeOK
<1> QED
  BY <1>1, Typed, PTL

-----------------------------------------------------------------------------
(* What is stored is final.                                                *)

LEMMA ClosedStep ==
  ASSUME Types, Types', Linked, Closed, [Next]_vars
  PROVE  Closed'
<1>g. Grown
  BY Grows
<1>m. month \in Nat /\ month' \in Nat /\ month <= month' /\ Month \subseteq Nat
  <2>1. month' \in Nat
    BY MonthAssumption DEF Types
  <2> QED
    BY <1>g, <2>1, MonthBounds DEF Grown
<1>1. \A i \in invoiced' : i[2] < month'
  <2> SUFFICES ASSUME NEW i \in invoiced' PROVE i[2] < month'
    OBVIOUS
  <2>1. i[2] \in Month
    BY DEF Types
  <2>2. i[2] < month
    BY <1>g DEF Grown, Closed
  <2>3. \A n \in Month : n < month => n < month'
    BY <1>m
  <2> QED
    BY <2>1, <2>2, <2>3
<1>l. \A c \in listed' : <<c.account, c.month>> \in invoiced'
  BY <1>g DEF Grown, Closed
<1>2. ASSUME NEW t \in Syncer, NEW M \in ToSet(queries'[t]), NEW m \in M PROVE m < month'
  <2>1. M \in SUBSET Month
    <3>1. queries'[t] \in Seq(SUBSET Month)
      BY DEF Types
    <3> QED
      BY <3>1, SetOfType
  <2>2. m < month
    <3>1. CASE Same(t)
      BY <3>1 DEF Same, Closed
    <3>2. CASE Ended(t)
      BY <3>2, SetOfEmpty DEF Ended
    <3>3. CASE Starts(t)
      <4>1. PICK j \in Project, a \in Account : StartSync(t, j, a)
        BY <3>3 DEF Starts
      <4>2. queries'[t] = Plan(provider[a]) /\ provider[a] \in Supported
        BY <4>1, StartIs
      <4>3. ToSet(queries'[t]) \in {{Window}, {{}}}
        BY <4>2, PlanType
      <4>4. m \in Window
        BY <4>3
      <4> QED
        BY <1>m, <2>1, <4>4, MonthBounds DEF Window
    <3>4. CASE Answers(t)
      <4>p. PICK page : Answer(t, page)
        BY <3>4 DEF Answers
      <4>1. M \in ToSet(Tail(queries[t])) \/ M \in ToSet(More(t))
        BY <4>p, AnswerAsks
      <4>2. CASE M \in ToSet(Tail(queries[t]))
        BY <4>p, <4>2, AnswerAsks DEF Closed
      <4>3. CASE M \in ToSet(More(t))
        <5> DEFINE a == sync[t].account  p == sync[t].provider
        <5>1. p \in Supported
          BY <4>p, AskerType DEF Answer
        <5>2. m \in Follow(a, p)
          BY <4>3, <5>1, MoreType
        <5>3. CASE m \in Window
          BY <1>m, <2>1, <5>3, MonthBounds DEF Window
        <5>4. CASE m \in Invoices(a)
          <6>1. <<a, m>> \in invoiced
            BY <5>4 DEF Invoices
          <6> QED
            BY <6>1 DEF Closed
        <5> QED
          BY <5>1, <5>2, <5>3, <5>4, FollowType
      <4> QED
        BY <4>1, <4>2, <4>3
    <3>5. CASE Stores(t)
      BY <3>5, StoreIs DEF Stores, Closed
    <3> QED
      BY <3>1, <3>2, <3>3, <3>4, <3>5, SessionMoves
  <2> QED
    BY <1>m, <2>1, <2>2
<1> QED
  BY <1>1, <1>2, <1>l DEF Closed

\* What is final stays final: money is spent in the open month only.
LEMMA FinalStays ==
  ASSUME Types, Types', Closed, Grown, NEW e, e.month \in Nat, Final(e)
  PROVE  Final(e)'
<1>1. month \in Nat /\ month' \in Nat /\ month <= month'
  BY MonthBounds, MonthAssumption DEF Types, Grown
<1> SUFFICES ASSUME NEW c \in e.of
             PROVE  /\ c.service = e.service /\ c.month = e.month /\ e.month < month'
                    /\ Legible(c)'
                    /\ Fetcher[c.provider].totals =>
                         \A d \in bill' :
                           /\ d.account = c.account /\ d.provider = c.provider
                           /\ d.service = e.service /\ d.month = e.month /\ Legible(d)'
                           => d \in e.of
  BY DEF Final
<1>2. c.service = e.service /\ c.month = e.month /\ e.month < month /\ Legible(c)
  BY DEF Final
<1>3. ASSUME NEW d \in bill', d.month = e.month PROVE d \in bill
  BY <1>1, <1>2, <1>3 DEF Grown
<1>4. Legible(c)'
  BY <1>2 DEF Legible, Grown
<1>5. ASSUME NEW d, Legible(d)', d.account = c.account, d.provider = c.provider,
             d.month = c.month
      PROVE  Legible(d)
  <2>1. SUFFICES ASSUME Fetcher[d.provider].plan = "invoices" PROVE d \in listed
    BY DEF Legible
  <2>2. d \in listed' /\ c \in listed
    BY <1>2, <1>5, <2>1 DEF Legible
  <2>3. <<d.account, d.month>> \in invoiced
    BY <1>5, <2>2 DEF Closed
  <2> QED
    BY <2>2, <2>3 DEF Grown
<1>6. ASSUME Fetcher[c.provider].totals, NEW d \in bill',
             d.account = c.account, d.provider = c.provider,
             d.service = e.service, d.month = e.month, Legible(d)'
      PROVE  d \in e.of
  BY <1>2, <1>3, <1>5, <1>6 DEF Final
<1> QED
  BY <1>1, <1>2, <1>4, <1>6

LEMMA AllFinalStep ==
  ASSUME Types, Types', Linked, FinalInv, [Next]_vars
  PROVE  AllFinal'
<1>g. Grown
  BY Grows
<1>m. Month \subseteq Nat
  BY MonthBounds
<1>1. ASSUME NEW s \in Syncer, NEW e \in got[s] PROVE Final(e) /\ Final(e)'
  <2>1. Final(e)
    BY <1>1 DEF FinalInv, AllFinal
  <2>2. e \in Entry
    BY <1>1 DEF Types
  <2>3. e.month \in Nat
    BY <1>m, <2>2 DEF Entry
  <2> QED
    BY <1>g, <2>1, <2>3, FinalStays DEF FinalInv
<1>2. ASSUME NEW r \in rows' PROVE Final(r)'
  <2>1. CASE r \in rows
    BY <1>g, <1>m, <2>1, FinalStays DEF FinalInv, AllFinal, Types, Row
  <2>2. CASE r.of = {}
    BY <2>2 DEF Final
  <2>3. ASSUME NEW s \in Syncer, NEW e \in todo[s], r = Stored(s, e) PROVE Final(r)'
    <3>1. r.service = e.service /\ r.month = e.month /\ r.of = e.of
      BY <2>3 DEF Stored
    <3>2. Final(e)'
      BY <1>1 DEF Linked
    <3> QED
      BY <3>1, <3>2 DEF Final
  <2> QED
    BY <1>g, <2>1, <2>2, <2>3 DEF Grown
<1>3. ASSUME NEW t \in Syncer, NEW e \in got'[t]
      PROVE  /\ Final(e)'
             /\ \A c \in e.of : c.account = sync'[t].account /\ c.provider = sync'[t].provider
  <2>1. CASE Same(t)
    BY <1>1, <2>1 DEF Same, FinalInv, AllFinal
  <2>2. CASE Ended(t)
    BY <2>2 DEF Ended
  <2>3. CASE Starts(t)
    BY <2>3, StartIs DEF Starts
  <2>4. CASE Answers(t)
    <3> DEFINE a == sync[t].account  p == sync[t].provider  M == Head(queries[t])
    <3>p. PICK page : Answer(t, page)
      BY <2>4 DEF Answers
    <3>1. CASE e \in got[t]
      BY <1>1, <3>p, <3>1, AnswerIs DEF FinalInv, AllFinal
    <3>2. CASE e \in page
      <4>1. e \in Entries(a, p, M)
        BY <3>p, <3>2, AnswerIs
      <4>2. /\ e \in Entry /\ e.of \subseteq bill /\ e.month \in M
            /\ \A c \in e.of :
                 /\ c.account = a /\ c.provider = p
                 /\ c.service = e.service /\ c.month = e.month /\ Legible(c)
                 /\ Fetcher[p].totals =>
                      \A d \in bill :
                        /\ d.account = a /\ d.provider = p
                        /\ d.service = e.service /\ d.month = e.month /\ Legible(d)
                        => d \in e.of
        <5> HIDE DEF a, p, M
        <5> QED
          BY <4>1, EntriesType
      <4>3. M \in ToSet(queries[t])
        BY <3>p, AnswerAsks
      <4>4. e.month < month /\ e.month \in Nat
        BY <1>m, <4>2, <4>3 DEF FinalInv, Closed, Entry
      <4>5. Final(e)
        BY <4>2, <4>4 DEF Final
      <4>6. Final(e)'
        BY <1>g, <4>4, <4>5, FinalStays DEF FinalInv
      <4>7. sync'[t] = sync[t]
        BY <3>p, AnswerIs
      <4> QED
        BY <4>2, <4>6, <4>7
    <3> QED
      BY <3>p, <3>1, <3>2, AnswerIs
  <2>5. CASE Stores(t)
    BY <1>1, <2>5, StoreIs DEF Stores, FinalInv, AllFinal
  <2> QED
    BY <2>1, <2>2, <2>3, <2>4, <2>5, SessionMoves
<1> QED
  BY <1>2, <1>3 DEF AllFinal

LEMMA FinalInvariant == Spec => []FinalInv
<1>1. Init => FinalInv
  <2> SUFFICES ASSUME Init PROVE FinalInv
    OBVIOUS
  <2>1. \A i \in invoiced : i[2] < month
    BY MonthAssumption DEF Init
  <2>2. \A s \in Syncer : ToSet(queries[s]) = {}
    BY SetOfEmpty DEF Init
  <2>3. ASSUME NEW c \in listed PROVE <<c.account, c.month>> \in invoiced
    <3>1. c \in bill /\ Fetcher[c.provider].plan = "invoices"
      BY DEF Init
    <3>2. /\ c.account \in Account
          /\ c.month \in (FirstMonth - Lookback)..(FirstMonth - 1)
      BY <3>1 DEF Init
    <3>3. c.month \in 1..(FirstMonth - 1)
      BY <3>2, MonthAssumption, LookbackAssumption
    <3>4. c \in Items(c.account, c.month)
      BY <3>1 DEF Items
    <3> QED
      BY <3>2, <3>3, <3>4 DEF Init
  <2> QED
    BY <2>1, <2>2, <2>3 DEF Init, FinalInv, Closed, AllFinal
<1>2. Types /\ Types' /\ Linked /\ FinalInv /\ [Next]_vars => FinalInv'
  BY ClosedStep, AllFinalStep DEF FinalInv
<1> QED
  BY <1>1, <1>2, Typed, PTL DEF Spec

\* An amount that is stored is final, however long its request took, however
\* late its invoice was issued and however many months ended meanwhile: its
\* month is over, and no charge of the same service and month that a first page
\* shows is left out.
THEOREM AmountsFinal == Spec => []FinalAmounts
<1>1. FinalInv => FinalAmounts
  BY DEF FinalInv, AllFinal, Final, FinalAmounts
<1> QED
  BY <1>1, FinalInvariant, PTL

-----------------------------------------------------------------------------
(* No charge is billed twice.                                              *)

LEMMA RequestStays ==
  ASSUME Types, Linked, [Next]_vars, NEW t \in Syncer, sync'[t] # Idle
  PROVE  Starts(t) \/ sync'[t] = sync[t]
BY SessionMoves, AnswerIs, StoreIs DEF Same, Ended, Answers, Stores

\* A snapshot lasts until a row is stored.
LEMMA SnapshotStays ==
  ASSUME Types, Linked, [Next]_vars, NEW t \in Syncer, sync'[t] # Idle, ~ Starts(t)
  PROVE  view'[t] = view[t] \/ view'[t] = [rows |-> rows', provider |-> provider]
<1>1. CASE Same(t) \/ Answers(t)
  BY <1>1, AnswerIs DEF Same, Answers
<1>2. CASE Ended(t)
  BY <1>2 DEF Ended
<1>3. CASE Stores(t)
  BY <1>3, StoreIs DEF Stores
<1> QED
  BY <1>1, <1>2, <1>3, SessionMoves

\* A request that begins beside another of its project disturbs it.
LEMMA StartDisturbs ==
  ASSUME Types, Linked, NEW s \in Syncer, Starts(s),
         NEW t \in Syncer, t # s, sync'[t] # Idle, sync'[t].project = sync'[s].project
  PROVE  sync'[s].project \in disturbed'
<1>1. PICK j \in Project, a \in Account : StartSync(s, j, a)
  BY DEF Starts
<1>2. sync'[s].project = j
  BY <1>1, StartIs
<1>3. sync'[t] = sync[t]
  BY <1>1 DEF StartSync, Types
<1> QED
  BY <1>1, <1>2, <1>3 DEF StartSync

LEMMA AloneStep ==
  ASSUME Types, Linked, Alone, [Next]_vars
  PROVE  Alone'
<1> SUFFICES ASSUME NEW s \in Syncer, NEW t \in Syncer, Calm(s)', sync'[t] # Idle,
                    sync'[s].project = sync'[t].project
             PROVE  s = t
  BY DEF Alone
<1>1. CASE Starts(s) \/ Starts(t)
  BY <1>1, StartDisturbs DEF Calm
<1>2. CASE ~ Starts(s) /\ ~ Starts(t)
  <2>1. sync'[s] = sync[s] /\ sync'[t] = sync[t]
    BY <1>2, RequestStays DEF Calm
  <2>2. disturbed \subseteq disturbed'
    BY Grows DEF Grown
  <2> QED
    BY <2>1, <2>2 DEF Calm, Alone
<1> QED
  BY <1>1, <1>2

\* An account that is edited disturbs the projects it is synced for.
LEMMA ProviderStays ==
  ASSUME Types, [Next]_vars, NEW t \in Syncer, sync[t] # Idle,
         sync[t].project \notin disturbed'
  PROVE  provider'[sync[t].account] = provider[sync[t].account]
<1>1. ASSUME NEW a \in Account, NEW p, ChangeAccount(a, p)
      PROVE  provider'[sync[t].account] = provider[sync[t].account]
  <2>1. sync[t].account # a
    BY <1>1 DEF ChangeAccount
  <2>2. sync[t].account \in Account
    BY DEF Types, Sync
  <2> QED
    BY <1>1, <2>1, <2>2 DEF ChangeAccount, Types
<1>2. ASSUME NEW s \in Syncer,
             \/ Answers(s) \/ CallFails(s) \/ Finish(s) \/ Crash(s)
             \/ \E e \in todo[s] : Store(s, e)
             \/ \E j \in Project, a \in Account : StartSync(s, j, a)
      PROVE  UNCHANGED provider
  BY <1>2 DEF Answers, Answer, CallFails, Finish, Crash, Store, StartSync, tables
<1> QED
  BY <1>1, <1>2 DEF Next, Answers, DeleteProject, Ingest, Spend, NextMonth, Issue, vars, tables

LEMMA SameProviderStep ==
  ASSUME Types, Linked, SameProvider, [Next]_vars
  PROVE  SameProvider'
<1> SUFFICES ASSUME NEW t \in Syncer, Calm(t)'
             PROVE  /\ provider'[sync'[t].account] = sync'[t].provider
                    /\ view'[t].provider[sync'[t].account] = sync'[t].provider
  BY DEF SameProvider
<1>1. CASE Starts(t)
  <2>1. PICK j \in Project, a \in Account : StartSync(t, j, a)
    BY <1>1 DEF Starts
  <2>2. /\ view'[t] = Now /\ sync'[t].account = a /\ sync'[t].provider = provider[a]
        /\ UNCHANGED provider
    BY <2>1, StartIs DEF tables
  <2> QED
    BY <2>2 DEF Now
<1>2. CASE ~ Starts(t)
  <2>1. sync'[t] = sync[t] /\ disturbed \subseteq disturbed'
    BY <1>2, RequestStays, Grows DEF Calm, Grown
  <2>2. Calm(t)
    BY <2>1 DEF Calm
  <2>3. provider'[sync[t].account] = provider[sync[t].account]
    BY <2>1, ProviderStays DEF Calm
  <2>4. view'[t] = view[t] \/ view'[t].provider = provider
    BY <1>2, SnapshotStays DEF Calm
  <2> QED
    BY <2>1, <2>2, <2>3, <2>4 DEF SameProvider
<1> QED
  BY <1>1, <1>2

\* The row that an undisturbed sync adds.
LEMMA StoredCalm ==
  ASSUME Types, Linked, AllFinal, BilledInv, NEW s \in Syncer, NEW e \in todo[s],
         Store(s, e), Added(s, e), sync[s].project \notin disturbed
  PROVE  /\ Calm(s)
         /\ Stored(s, e).provider = sync[s].provider
         /\ \A c \in e.of : c.provider = sync[s].provider
         /\ \A q \in rows : q.project = sync[s].project /\ q.of # {} =>
              ~ (/\ q.provider = Stored(s, e).provider
                 /\ q.service = e.service /\ q.month = e.month)
<1>1. Calm(s) /\ e \in got[s]
  BY StoreIs DEF Calm
<1>2. Stored(s, e).provider = view[s].provider[sync[s].account]
  BY DEF Stored
<1>3. \A q \in rows : q.project = sync[s].project /\ q.of # {} => q \in view[s].rows
  BY <1>1 DEF BilledInv, InSnapshot
<1> QED
  BY <1>1, <1>2, <1>3 DEF BilledInv, SameProvider, AllFinal, Added, Existing

LEMMA RowProviderStep ==
  ASSUME Types, Linked, AllFinal, BilledInv, [Next]_vars
  PROVE  RowProvider'
<1>g. Grown
  BY Grows
<1> SUFFICES ASSUME NEW r \in rows', r.project \notin disturbed', NEW c \in r.of
             PROVE  r.provider = c.provider
  BY DEF RowProvider
<1>0. r.project \notin disturbed
  BY <1>g DEF Grown
<1>1. CASE r \in rows
  BY <1>0, <1>1 DEF BilledInv, RowProvider
<1>2. ASSUME NEW s \in Syncer, NEW e \in todo[s], Store(s, e), Added(s, e), r = Stored(s, e)
      PROVE  r.provider = c.provider
  <2>1. r.project = sync[s].project /\ r.of = e.of
    BY <1>2 DEF Stored
  <2> QED
    BY <1>0, <1>2, <2>1, StoredCalm
<1> QED
  BY <1>g, <1>1, <1>2 DEF Grown

LEMMA InSnapshotStep ==
  ASSUME Types, Linked, AllFinal, BilledInv, [Next]_vars
  PROVE  InSnapshot'
<1>g. Grown
  BY Grows
<1> SUFFICES ASSUME NEW t \in Syncer, Calm(t)', NEW r \in rows',
                    r.project = sync'[t].project, r.of # {}
             PROVE  r \in view'[t].rows
  BY DEF InSnapshot
<1>1. CASE Starts(t)
  <2>1. view'[t] = Now /\ rows' = rows
    BY <1>1, StartIs DEF Starts, tables
  <2> QED
    BY <2>1 DEF Now
<1>2. CASE ~ Starts(t)
  <2>1. sync'[t] = sync[t] /\ disturbed \subseteq disturbed'
    BY <1>2, <1>g, RequestStays DEF Calm, Grown
  <2>2. Calm(t)
    BY <2>1 DEF Calm
  <2>3. view'[t] = view[t] \/ view'[t].rows = rows'
    BY <1>2, SnapshotStays DEF Calm
  <2>4. CASE r \in rows
    BY <2>1, <2>2, <2>3, <2>4 DEF BilledInv, InSnapshot
  <2>5. CASE r \notin rows
    <3>1. PICK s \in Syncer : \E e \in todo[s] : Store(s, e) /\ Added(s, e) /\ r = Stored(s, e)
      BY <1>g, <2>5 DEF Grown
    <3>2. sync[s].project = sync[t].project /\ sync[s] # Idle
      BY <2>1, <3>1, StoreIs DEF Stored
    <3>3. s = t
      BY <2>2, <3>2 DEF BilledInv, Alone
    <3> QED
      BY <3>1, <3>3, StoreIs
  <2> QED
    BY <2>4, <2>5
<1> QED
  BY <1>1, <1>2

LEMMA OneRowEachStep ==
  ASSUME Types, Linked, AllFinal, BilledInv, [Next]_vars
  PROVE  OneRowEach'
<1>g. Grown
  BY Grows
<1>1. ASSUME NEW r \in rows' \ rows, NEW q \in rows', r # q,
             r.project = q.project, r.project \notin disturbed', r.of # {}, q.of # {},
             r.provider = q.provider, r.service = q.service, r.month = q.month
      PROVE  FALSE
  <2>0. PICK s \in Syncer :
          \E e \in todo[s] : Store(s, e) /\ Added(s, e) /\ r = Stored(s, e)
    BY <1>1, <1>g DEF Grown
  <2>1. PICK e \in todo[s] : Store(s, e) /\ Added(s, e) /\ r = Stored(s, e)
    BY <2>0
  <2>2. /\ r.project = sync[s].project /\ r.service = e.service /\ r.month = e.month
        /\ r.project \notin disturbed
    BY <1>1, <1>g, <2>1 DEF Stored, Grown
  <2>3. q \in rows
    BY <1>1, <2>1 DEF Added
  <2> QED
    BY <1>1, <2>1, <2>2, <2>3, StoredCalm
<1>2. disturbed \subseteq disturbed'
  BY <1>g DEF Grown
<1> SUFFICES ASSUME NEW r \in rows', NEW q \in rows',
                    r.project = q.project, r.project \notin disturbed', r.of # {}, q.of # {},
                    r.provider = q.provider, r.service = q.service, r.month = q.month
             PROVE  r = q
  BY DEF OneRowEach
<1>3. CASE r \in rows /\ q \in rows
  BY <1>2, <1>3 DEF BilledInv, OneRowEach
<1> QED
  BY <1>1, <1>3

LEMMA BilledInvariant == Spec => []BilledInv
<1>1. Init => BilledInv
  BY DEF Init, BilledInv, Calm, Alone, SameProvider, RowProvider, InSnapshot, OneRowEach
<1>2. Types /\ Linked /\ FinalInv /\ BilledInv /\ [Next]_vars => BilledInv'
  <2> SUFFICES ASSUME Types, Linked, FinalInv, BilledInv, [Next]_vars PROVE BilledInv'
    OBVIOUS
  <2>1. AllFinal /\ Alone /\ SameProvider
    BY DEF FinalInv, BilledInv
  <2> QED
    BY <2>1, AloneStep, SameProviderStep, RowProviderStep, InSnapshotStep, OneRowEachStep
    DEF BilledInv
<1> QED
  BY <1>1, <1>2, Typed, FinalInvariant, PTL DEF Spec

\* No charge is in two rows of a project, however often it is synced and
\* wherever requests end half-way, if no two of its syncs overlapped and none
\* had its account edited: between the snapshot and the insert nobody else
\* stores a charge of the project's.
THEOREM NotBilledTwice == Spec => []BilledOnce
<1>1. FinalInv /\ BilledInv => BilledOnce
  <2> SUFFICES ASSUME FinalInv, BilledInv, NEW r \in rows, NEW q \in rows, r # q,
                      r.project = q.project, r.project \notin disturbed,
                      NEW c \in r.of, c \in q.of
               PROVE  FALSE
    BY DEF BilledOnce
  <2>1. /\ r.service = c.service /\ r.month = c.month
        /\ q.service = c.service /\ q.month = c.month
    BY DEF FinalInv, AllFinal, Final
  <2>2. r.provider = c.provider /\ q.provider = c.provider
    BY DEF BilledInv, RowProvider
  <2> QED
    BY <2>1, <2>2 DEF BilledInv, OneRowEach
<1> QED
  BY <1>1, FinalInvariant, BilledInvariant, PTL

-----------------------------------------------------------------------------
(* A sync that ends has left nothing out.                                  *)

LEMMA KeptStep ==
  ASSUME Types, Linked, Kept, [Next]_vars
  PROVE  Kept'
<1>g. Grown
  BY Grows
<1> SUFFICES ASSUME NEW t \in Syncer, sync'[t] # Idle, NEW r \in view'[t].rows,
                    r.project \in projects'
             PROVE  r \in rows'
  BY DEF Kept
<1>1. CASE Starts(t)
  <2>1. view'[t] = Now /\ rows' = rows
    BY <1>1, StartIs DEF Starts, tables
  <2> QED
    BY <2>1 DEF Now
<1>2. CASE ~ Starts(t)
  <2>1. sync'[t] = sync[t]
    BY <1>2, RequestStays
  <2>2. CASE view'[t] = view[t]
    BY <1>g, <2>1, <2>2 DEF Kept, Grown
  <2>3. CASE view'[t] = [rows |-> rows', provider |-> provider]
    BY <2>3
  <2> QED
    BY <1>2, <2>2, <2>3, SnapshotStays
<1> QED
  BY <1>1, <1>2

LEMMA PassedStep ==
  ASSUME Types, Linked, Kept, Passed, [Next]_vars
  PROVE  Passed'
<1>g. Grown
  BY Grows
<1> SUFFICES ASSUME NEW t \in Syncer, sync'[t] # Idle, sync'[t].project \in projects',
                    NEW e \in got'[t] \ todo'[t]
             PROVE  \E r \in rows' : /\ r.project = sync'[t].project
                                     /\ r.service = e.service /\ r.month = e.month
  BY DEF Passed
<1>1. CASE Starts(t)
  BY <1>1, StartIs DEF Starts
<1>2. CASE ~ Starts(t)
  <2>1. sync'[t] = sync[t] /\ sync[t].project \in projects
    BY <1>2, <1>g, RequestStays DEF Grown
  <2>2. ASSUME e \in got[t] \ todo[t]
        PROVE  \E r \in rows' : /\ r.project = sync'[t].project
                                /\ r.service = e.service /\ r.month = e.month
    BY <1>g, <2>1, <2>2 DEF Passed, Grown
  <2>3. CASE Same(t)
    BY <2>2, <2>3 DEF Same
  <2>4. CASE Answers(t)
    BY <2>2, <2>4, AnswerIs DEF Answers
  <2>5. CASE Stores(t)
    <3>1. PICK d \in todo[t] : Store(t, d) /\ (Skipped(t, d) \/ Added(t, d))
      BY <2>5 DEF Stores
    <3>2. got'[t] = got[t] /\ todo'[t] = todo[t] \ {d}
      BY <3>1, StoreIs
    <3>3. CASE e # d
      BY <2>2, <3>2, <3>3
    <3>4. CASE e = d /\ Skipped(t, d)
      <4>1. PICK r \in view[t].rows :
              /\ r.project = sync[t].project
              /\ r.service = e.service /\ r.month = e.month
        BY <3>4 DEF Skipped, Existing
      <4>2. r \in rows'
        BY <1>g, <2>1, <4>1 DEF Kept, Grown
      <4> QED
        BY <2>1, <4>1, <4>2
    <3>5. CASE e = d /\ Added(t, d)
      <4>1. Stored(t, d) \in rows'
        BY <3>5 DEF Added
      <4>2. /\ Stored(t, d).project = sync'[t].project
            /\ Stored(t, d).service = e.service /\ Stored(t, d).month = e.month
        BY <2>1, <3>5 DEF Stored
      <4> QED
        BY <4>1, <4>2
    <3> QED
      BY <3>1, <3>3, <3>4, <3>5
  <2> QED
    BY <1>2, <2>3, <2>4, <2>5, SessionMoves DEF Ended
<1> QED
  BY <1>1, <1>2

\* The list of the newest invoices names every month that is looked back to.
LEMMA ListsRecent ==
  ASSUME Types, Closed, NEW a, NEW m \in Month, <<a, m>> \in invoiced, m >= month - Lookback
  PROVE  m \in Invoices(a)
<1> DEFINE newer == {n \in Month : n > m /\ <<a, n>> \in invoiced}
<1>1. month \in Nat /\ Lookback \in Nat /\ Month \subseteq Nat /\ m \in Nat /\ m < month
  BY MonthBounds DEF Closed
<1>2. newer \subseteq (m + 1)..(month - 1)
  <2> SUFFICES ASSUME NEW n \in Month, n > m, <<a, n>> \in invoiced
               PROVE  n \in (m + 1)..(month - 1)
    OBVIOUS
  <2>1. n < month /\ n \in Nat
    BY <1>1 DEF Closed
  <2> QED
    BY <1>1, <2>1
<1>3. /\ IsFiniteSet((m + 1)..(month - 1))
      /\ Cardinality((m + 1)..(month - 1)) =
           IF m + 1 > month - 1 THEN 0 ELSE (month - 1) - (m + 1) + 1
  <2>1. m + 1 \in Int /\ month - 1 \in Int
    BY <1>1
  <2> QED
    BY <2>1, FS_Interval
<1>4. IsFiniteSet(newer) /\ Cardinality(newer) <= Cardinality((m + 1)..(month - 1))
  BY <1>2, <1>3, FS_Subset
<1>5. Cardinality(newer) \in Nat
  BY <1>4, FS_CardinalityType
<1> DEFINE k == Cardinality(newer)
<1>6. k < Lookback
  <2> HIDE DEF k
  <2>1. k \in Nat /\ k <= IF m + 1 > month - 1 THEN 0 ELSE (month - 1) - (m + 1) + 1
    BY <1>3, <1>4, <1>5 DEF k
  <2>2. Lookback >= 1
    BY LookbackAssumption
  <2> QED
    BY <1>1, <2>1, <2>2
<1> QED
  BY <1>6 DEF Invoices

\* Every charge of the months asked for is in an entry.
LEMMA EntryOfEach ==
  ASSUME NEW a, NEW p, NEW M, NEW c \in bill, c.account = a, c.provider = p, c.month \in M,
         Legible(c)
  PROVE  \E e \in Entries(a, p, M) : e.service = c.service /\ e.month = c.month
<1> DEFINE charges == {d \in bill : d.account = a /\ d.provider = p /\ d.month \in M /\ Legible(d)}
           entry(d) == [service |-> d.service, month |-> d.month,
                        of |-> IF Fetcher[p].totals
                               THEN {x \in charges : x.service = d.service /\ x.month = d.month}
                               ELSE {d}]
<1>1. Entries(a, p, M) = {entry(d) : d \in charges}
  BY DEF Entries
<1>2. c \in charges /\ entry(c).service = c.service /\ entry(c).month = c.month
  OBVIOUS
<1> QED
  BY <1>1, <1>2

LEMMA StartExpects ==
  ASSUME Types, Linked, NEW t \in Syncer, NEW j \in Project, NEW a \in Account,
         StartSync(t, j, a), NEW c \in shown'[t]
  PROVE  /\ c.account = sync'[t].account /\ c.provider = sync'[t].provider /\ c.month < month'
         /\ Fetcher[c.provider].plan # "all" /\ Legible(c)'
         /\ AskedFor(t, c)'
<1> DEFINE p == provider[a]
<1>1. /\ sync'[t].account = a /\ sync'[t].provider = p /\ p \in Supported
      /\ queries'[t] = Plan(p)
      /\ month' = month /\ listed' = listed
  BY StartIs DEF billing
<1>2. /\ c.account = a /\ c.provider = p /\ c.month \in 1..(month - 1)
      /\ Fetcher[p].plan # "all" /\ Legible(c)
  BY StartIs
<1>3. month \in Nat
  BY MonthBounds
<1>4. {} \in ToSet(queries'[t])
  BY <1>1, <1>2, PlanType
<1> QED
  BY <1>1, <1>2, <1>3, <1>4 DEF AskedFor, Legible

LEMMA AnswerExpects ==
  ASSUME Types, Linked, Closed, NEW t \in Syncer, NEW page, Answer(t, page), NEW c \in shown[t],
         c.account = sync[t].account, c.provider = sync[t].provider, c.month < month,
         Fetcher[c.provider].plan # "all", Legible(c),
         c.month >= month - Lookback, Reported(t, c) \/ AskedFor(t, c)
  PROVE  Reported(t, c)' \/ AskedFor(t, c)'
<1> DEFINE head == Head(queries[t])  rest == ToSet(Tail(queries[t]))
           a == sync[t].account  p == sync[t].provider
<1>1. /\ ToSet(queries[t]) = {head} \cup rest
      /\ ToSet(queries'[t]) = rest \cup ToSet(More(t))
  BY AnswerAsks
<1>2. got'[t] = got[t] \cup page /\ page = Entries(a, p, head)
  BY AnswerIs, PageType
<1>3. c \in bill /\ c.month \in Month
  BY DEF Linked, Types, Charge
<1>4. CASE Reported(t, c)
  BY <1>2, <1>4 DEF Reported
<1>5. CASE c.month \in head
  <2>1. \E e \in Entries(a, p, head) : e.service = c.service /\ e.month = c.month
    <3> HIDE DEF a, p, head
    <3> QED
      BY <1>3, <1>5, EntryOfEach DEF a, p
  <2> QED
    BY <1>2, <2>1 DEF Reported
<1>6. CASE {} \in rest \/ \E M \in rest : c.month \in M
  BY <1>1, <1>6 DEF AskedFor
<1>7. CASE head = {}
  <2>1. p \in Supported
    BY AskerType DEF Answer
  <2>2. c.month \in Follow(a, p)
    <3>1. CASE Fetcher[p].plan = "monthly"
      <4>1. c.month \in Window
        BY <1>3, MonthBounds DEF Window
      <4> QED
        BY <2>1, <3>1, <4>1, FollowType
    <3>2. CASE Fetcher[p].plan = "invoices"
      <4>1. <<c.account, c.month>> \in invoiced
        BY <3>2 DEF Legible, Closed
      <4>2. c.month \in Invoices(a)
        BY <1>3, <4>1, ListsRecent
      <4> QED
        BY <2>1, <3>2, <4>2, FollowType
    <3> QED
      BY <2>1, <3>1, <3>2, FollowType
  <2>3. {c.month} \in ToSet(More(t))
    BY <1>7, <2>1, <2>2, MoreType
  <2> QED
    BY <1>1, <2>3 DEF AskedFor
<1> QED
  BY <1>1, <1>4, <1>5, <1>6, <1>7 DEF AskedFor

LEMMA ExpectedStep ==
  ASSUME Types, Types', Linked, Closed, Expected, [Next]_vars
  PROVE  Expected'
<1>g. Grown
  BY Grows
<1> SUFFICES ASSUME NEW t \in Syncer, NEW c \in shown'[t]
             PROVE  /\ /\ c.account = sync'[t].account /\ c.provider = sync'[t].provider
                       /\ c.month < month'
                    /\ Fetcher[c.provider].plan # "all" /\ Legible(c)'
                    /\ c.month >= month' - Lookback => Reported(t, c)' \/ AskedFor(t, c)'
  BY DEF Expected
<1>m. /\ month \in Nat /\ month' \in Nat /\ month <= month' /\ Lookback \in Nat
      /\ c.month \in Nat
  <2>1. c.month \in Month
    BY DEF Types, Charge
  <2>2. month' \in Nat
    BY MonthAssumption DEF Types
  <2> QED
    BY <1>g, <2>1, <2>2, MonthBounds DEF Grown
<1>1. CASE Starts(t)
  BY <1>1, StartExpects DEF Starts
<1>2. CASE Ended(t)
  BY <1>2 DEF Ended
<1>3. CASE Same(t) \/ Answers(t) \/ Stores(t)
  <2>1. /\ c \in shown[t] /\ sync'[t] = sync[t]
    BY <1>3, AnswerIs, StoreIs DEF Same, Answers, Stores
  <2>2. /\ c.account = sync[t].account /\ c.provider = sync[t].provider /\ c.month < month
        /\ Fetcher[c.provider].plan # "all" /\ Legible(c)
        /\ c.month >= month - Lookback => Reported(t, c) \/ AskedFor(t, c)
    BY <2>1 DEF Expected
  <2>3. c.month < month' /\ (c.month >= month' - Lookback => c.month >= month - Lookback)
    BY <1>m, <2>2
  <2>4. ASSUME c.month >= month - Lookback PROVE Reported(t, c)' \/ AskedFor(t, c)'
    <3>1. CASE Answers(t)
      BY <2>1, <2>2, <2>4, <3>1, AnswerExpects DEF Answers
    <3>2. CASE Same(t) \/ Stores(t)
      <4>1. got'[t] = got[t] /\ queries'[t] = queries[t]
        BY <3>2, StoreIs DEF Same, Stores
      <4> QED
        BY <2>2, <2>4, <4>1 DEF Reported, AskedFor
    <3> QED
      BY <1>3, <3>1, <3>2
  <2>5. Legible(c)'
    BY <1>g, <2>2 DEF Grown, Legible
  <2> QED
    BY <2>1, <2>2, <2>3, <2>4, <2>5
<1> QED
  BY <1>1, <1>2, <1>3, SessionMoves

LEMMA CompleteInvariant == Spec => []CompleteInv
<1>1. Init => CompleteInv
  BY DEF Init, CompleteInv, Kept, Passed, Expected
<1>2. Types /\ Types' /\ Linked /\ FinalInv /\ CompleteInv /\ [Next]_vars => CompleteInv'
  BY KeptStep, PassedStep, ExpectedStep DEF CompleteInv, FinalInv
<1> QED
  BY <1>1, <1>2, Typed, FinalInvariant, PTL DEF Spec

\* A sync that comes to its end has a row of the service and month of every
\* entry that was reported to it, and of every charge that it was shown of a
\* month still looked back to, whatever the order of its answers, whoever
\* stored the row, and however many months ended meanwhile: the invoices it is
\* told of are those it needs.
THEOREM NothingLeftOut == Spec => Complete
<1> DEFINE Read(s) == got[s] \cup {c \in shown[s] : c.month >= month - Lookback}
           A == \A s \in Syncer :
                  /\ sync[s] # Idle /\ sync'[s] = Idle
                  /\ queries[s] = << >> /\ todo[s] = {}
                  /\ sync[s].project \in projects
                  => \A x \in Read(s) :
                       \E r \in rows : /\ r.project = sync[s].project
                                       /\ r.service = x.service /\ r.month = x.month
<1>1. CompleteInv => A
  <2> SUFFICES ASSUME CompleteInv, NEW s \in Syncer, sync[s] # Idle, queries[s] = << >>,
                      todo[s] = {}, sync[s].project \in projects, NEW x \in Read(s)
               PROVE  \E r \in rows : /\ r.project = sync[s].project
                                      /\ r.service = x.service /\ r.month = x.month
    OBVIOUS
  <2>1. ASSUME NEW e \in got[s]
        PROVE  \E r \in rows : /\ r.project = sync[s].project
                               /\ r.service = e.service /\ r.month = e.month
    BY DEF CompleteInv, Passed
  <2>2. ASSUME NEW c \in shown[s], c.month >= month - Lookback
        PROVE  \E e \in got[s] : e.service = c.service /\ e.month = c.month
    <3>1. ~ AskedFor(s, c)
      BY SetOfEmpty DEF AskedFor
    <3> QED
      BY <2>2, <3>1 DEF CompleteInv, Expected, Reported
  <2> QED
    BY <2>1, <2>2
<1> QED
  BY <1>1, CompleteInvariant, PTL DEF Complete
=============================================================================
