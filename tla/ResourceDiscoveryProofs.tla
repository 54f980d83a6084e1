---------------------- MODULE ResourceDiscoveryProofs ----------------------
(***************************************************************************)
(* What TLAPS proves of ResourceDiscovery, for every set of accounts,      *)
(* regions, categories, resources and sessions, and at the end of          *)
(* ProviderCalls, which the listings of a pass are made of.                *)
(***************************************************************************)
EXTENDS ResourceDiscovery, ProviderCalls, TLAPS

-----------------------------------------------------------------------------
(* Type correctness.                                                        *)

Snapshot == [account : [Account -> AccountRow], row : [Resource -> Status]]

LEMMA UpdatedAccount ==
  ASSUME NEW r \in AccountRow, NEW b \in BOOLEAN, NEW g \in Region \cup {All}
  PROVE  /\ [r EXCEPT !.there = b] \in AccountRow
         /\ [r EXCEPT !.ready = b] \in AccountRow
         /\ [r EXCEPT !.region = g] \in AccountRow
BY DEF AccountRow

LEMMA SwitchedAccount ==
  ASSUME NEW r \in AccountRow
  PROVE  [r EXCEPT !.ready = ~@] \in AccountRow
<1>1. CASE r.ready
  <2>1. [r EXCEPT !.ready = ~@] = [r EXCEPT !.ready = FALSE]
    BY <1>1 DEF AccountRow
  <2> QED
    BY <2>1, UpdatedAccount
<1>2. CASE ~r.ready
  <2>1. [r EXCEPT !.ready = ~@] = [r EXCEPT !.ready = TRUE]
    BY <1>2 DEF AccountRow
  <2> QED
    BY <2>1, UpdatedAccount
<1> QED
  BY <1>1, <1>2

LEMMA BlankType == Blank \in Snapshot
BY DEF Blank, Snapshot, AccountRow, Status

\* The scopes of a pass are scopes.
LEMMA RegionsType ==
  ASSUME NEW a \in Account, NEW accounts \in [Account -> AccountRow]
  PROVE  {a} \X RegionsOf(a, accounts) \X Category \subseteq Scope
<1>1. accounts[a].region \in Region \cup {All}
  BY DEF AccountRow
<1>2. Available[a] \subseteq Region
  BY AvailableAssumption
<1>3. RegionsOf(a, accounts) \subseteq Region
  BY <1>1, <1>2 DEF RegionsOf
<1> QED
  BY <1>3 DEF Scope

LEMMA ListedType == ASSUME NEW sc PROVE Listed(sc) \subseteq Resource
BY DEF Listed

\* What a write leaves in a row is a status.
LEMMA WrittenType ==
  ASSUME TypeOK, NEW s \in Session, NEW x \in Resource
  PROVE  Written(s, x) \in Status
BY DEF Written, TypeOK, Status

\* A session whose pass is over, or that opens a new snapshot, is well typed.
LEMMA PassOverType ==
  ASSUME TypeOK, NEW s \in Session, PassOver(s)
  PROVE  /\ at' \in [Session -> Account \cup {NoAccount}]
         /\ scopes' \in [Session -> SUBSET Scope]
         /\ scope' \in [Session -> Scope \cup {NoScope}]
         /\ listing' \in [Session -> SUBSET Resource]
         /\ left' \in [Session -> SUBSET Resource]
         /\ meter' \in [Session -> SUBSET Resource]
         /\ erred' \in [Session -> BOOLEAN]
         /\ meanwhile' \in [Session -> SUBSET Resource]
BY DEF TypeOK, PassOver

LEMMA ReopenedType ==
  ASSUME TypeOK, NEW s \in Session, Reopened(s),
         account' \in [Account -> AccountRow], row' \in [Resource -> Status]
  PROVE  view' \in [Session -> Snapshot]
BY DEF TypeOK, Reopened, Snapshot

LEMMA BrokenType ==
  ASSUME TypeOK, NEW s \in Session, Broken(s)
  PROVE  TypeOK'
<1>1. view' \in [Session -> Snapshot]
  BY BlankType DEF TypeOK, Broken, Snapshot
<1>2. PassOver(s) /\ todo' \in [Session -> SUBSET Account]
  BY DEF TypeOK, Broken
<1> QED
  BY <1>1, <1>2, PassOverType DEF TypeOK, Broken, tables, Snapshot

LEMMA SpendType ==
  ASSUME events \in 0..MaxEvents, Spend
  PROVE  events' \in 0..MaxEvents
BY BoundAssumption DEF Spend

LEMMA InitType == Init => TypeOK
<1> SUFFICES ASSUME Init PROVE TypeOK
  OBVIOUS
<1>1. view \in [Session -> Snapshot]
  BY BlankType DEF Init
<1>2. events \in 0..MaxEvents
  BY BoundAssumption DEF Init
<1>3. /\ cloud \in [Resource -> {"unborn", "running", "gone"}]
      /\ account \in [Account -> AccountRow]
      /\ row \in [Resource -> Status]
  BY DEF Init, Status, AccountRow
<1> QED
  BY <1>1, <1>2, <1>3 DEF Init, TypeOK, Snapshot

\* The steps of the provider and of the owners.
LEMMA OutsideType ==
  ASSUME TypeOK, (\E x \in Resource : Evolve(x)) \/ Owners
  PROVE  TypeOK'
<1>1. ASSUME NEW x \in Resource, Evolve(x) PROVE TypeOK'
  BY <1>1, SpendType DEF TypeOK, Evolve, tables, local
<1>2. ASSUME NEW a \in Account, NEW r \in Region \cup {All}, Select(a, r) PROVE TypeOK'
  <2>1. account' \in [Account -> AccountRow]
    BY <1>2, UpdatedAccount DEF TypeOK, Select
  <2> QED
    BY <1>2, <2>1, SpendType DEF TypeOK, Select, local
<1>3. ASSUME NEW a \in Account, Switch(a) PROVE TypeOK'
  <2>1. account' \in [Account -> AccountRow]
    <3>1. [account[a] EXCEPT !.ready = ~@] \in AccountRow
      BY SwitchedAccount DEF TypeOK
    <3> QED
      BY <1>3, <3>1 DEF TypeOK, Switch
  <2> QED
    BY <1>3, <2>1, SpendType DEF TypeOK, Switch, local
<1>4. ASSUME NEW a \in Account, Delete(a) PROVE TypeOK'
  <2>1. account' \in [Account -> AccountRow]
    BY <1>4, UpdatedAccount DEF TypeOK, Delete
  <2>2. row' \in [Resource -> Status]
    BY <1>4 DEF TypeOK, Delete, Status
  <2> QED
    BY <1>4, <2>1, <2>2, SpendType DEF TypeOK, Delete, local
<1>5. ASSUME NEW a \in Account, NEW s \in Request, StartRequest(s, a) PROVE TypeOK'
  <2>1. {a} \X RegionsOf(a, account) \X Category \subseteq Scope
    BY RegionsType DEF TypeOK
  <2>2. scopes' \in [Session -> SUBSET Scope] /\ at' \in [Session -> Account \cup {NoAccount}]
    BY <1>5, <2>1 DEF TypeOK, StartRequest
  <2>3. view' \in [Session -> Snapshot]
    BY <1>5 DEF TypeOK, StartRequest, Snapshot
  <2> QED
    BY <1>5, <2>2, <2>3, SpendType DEF TypeOK, StartRequest, tables, Snapshot
<1> QED
  BY <1>1, <1>2, <1>3, <1>4, <1>5, AttendedAssumption DEF Owners

\* The steps of a pass.
LEMMA WorkType ==
  ASSUME TypeOK, NEW s \in Session, Work(s)
  PROVE  TypeOK'
<1>1. CASE StartSweep(s)
  <2>1. view' \in [Session -> Snapshot]
    BY <1>1 DEF TypeOK, StartSweep, Snapshot
  <2> QED
    BY <1>1, <2>1 DEF TypeOK, StartSweep, tables, Snapshot
<1>2. CASE NotThere(s)
  BY <1>2, BrokenType DEF NotThere
<1>3. CASE Flip(s)
  <2>1. CASE Broken(s)
    BY <2>1, BrokenType
  <2>2. CASE ~Broken(s)
    <3>1. row' \in [Resource -> Status]
      BY <1>3, <2>2 DEF TypeOK, Flip, Status
    <3>2. account' \in [Account -> AccountRow]
      BY <1>3, <2>2 DEF TypeOK, Flip
    <3>3. view' \in [Session -> Snapshot]
      BY <1>3, <2>2, <3>1, <3>2, ReopenedType DEF TypeOK, Flip, Snapshot
    <3>4. /\ scope' = [scope EXCEPT ![s] = NoScope]
          /\ listing' = [listing EXCEPT ![s] = {}]
          /\ meanwhile' = [meanwhile EXCEPT ![s] = {}]
          /\ UNCHANGED <<cloud, account, metered, failure, todo, at, scopes, left, meter,
                         erred, events>>
      BY <1>3, <2>2 DEF Flip
    <3>5. /\ scope' \in [Session -> Scope \cup {NoScope}]
          /\ listing' \in [Session -> SUBSET Resource]
          /\ meanwhile' \in [Session -> SUBSET Resource]
      BY <3>4 DEF TypeOK
    <3> QED
      BY <3>1, <3>3, <3>4, <3>5 DEF TypeOK, Snapshot
  <2> QED
    BY <2>1, <2>2
<1>4. CASE Finish(s)
  <2>1. CASE Broken(s)
    BY <2>1, BrokenType
  <2>2. CASE ~Broken(s)
    <3>1. row' \in [Resource -> Status] /\ account' \in [Account -> AccountRow]
      BY <1>4, <2>2 DEF TypeOK, Finish
    <3>2. view' \in [Session -> Snapshot]
      BY <1>4, <2>2, <3>1, ReopenedType, BlankType DEF TypeOK, Finish, Snapshot
    <3>3. failure' \in [Account -> BOOLEAN] /\ PassOver(s)
      BY <1>4, <2>2 DEF TypeOK, Finish
    <3> QED
      BY <1>4, <2>2, <3>2, <3>3, PassOverType DEF TypeOK, Finish, Snapshot
  <2> QED
    BY <2>1, <2>2
<1>5. ASSUME NEW a \in Account, Visit(s, a) PROVE TypeOK'
  <2>1. {a} \X RegionsOf(a, view[s].account) \X Category \subseteq Scope
    BY RegionsType DEF TypeOK
  <2>2. scopes' \in [Session -> SUBSET Scope] /\ at' \in [Session -> Account \cup {NoAccount}]
    BY <1>5, <2>1 DEF TypeOK, Visit
  <2> QED
    BY <1>5, <2>2 DEF TypeOK, Visit, tables
<1>6. ASSUME NEW sc \in Scope, List(s, sc) PROVE TypeOK'
  BY <1>6, ListedType DEF TypeOK, List, tables
<1>7. ASSUME NEW x \in Resource, Upsert(s, x) PROVE TypeOK'
  <2>1. CASE Broken(s)
    BY <2>1, BrokenType
  <2>2. CASE ~Broken(s)
    <3>1. row' \in [Resource -> Status]
      <4>1. row' = [row EXCEPT ![x] = Written(s, x)]
        BY <1>7, <2>2 DEF Upsert
      <4> QED
        BY <4>1, WrittenType DEF TypeOK
    <3>2. account' \in [Account -> AccountRow] /\ Reopened(s)
      BY <1>7, <2>2 DEF TypeOK, Upsert
    <3>3. view' \in [Session -> Snapshot]
      BY <3>1, <3>2, ReopenedType
    <3>4. meter' \in [Session -> SUBSET Resource] /\ left' \in [Session -> SUBSET Resource]
      <4>1. /\ left' = [left EXCEPT ![s] = @ \ {x}]
            /\ \/ meter' = [meter EXCEPT ![s] = {x}]
               \/ meter' = [meter EXCEPT ![s] = {}]
        <5>1. CASE Home[x][3] = Metered
          BY <1>7, <2>2, <5>1 DEF Upsert
        <5>2. CASE Home[x][3] # Metered
          BY <1>7, <2>2, <5>2 DEF Upsert
        <5> QED
          BY <5>1, <5>2
      <4>2. left[s] \in SUBSET Resource /\ {x} \in SUBSET Resource /\ {} \in SUBSET Resource
        BY DEF TypeOK
      <4>3. left' \in [Session -> SUBSET Resource]
        BY <4>1, <4>2 DEF TypeOK
      <4>4. meter' \in [Session -> SUBSET Resource]
        BY <4>1, <4>2 DEF TypeOK
      <4> QED
        BY <4>3, <4>4
    <3>5. /\ UNCHANGED <<cloud, account, metered, failure, todo, at, scopes, scope,
                         listing, erred, events>>
          /\ meanwhile' = [o \in Session |->
                             IF o # s /\ scope[o] = Home[x]
                             THEN meanwhile[o] \cup {x} ELSE meanwhile[o]]
      BY <1>7, <2>2 DEF Upsert
    <3>6. meanwhile' \in [Session -> SUBSET Resource]
      BY <3>5 DEF TypeOK
    <3> QED
      BY <3>1, <3>3, <3>4, <3>5, <3>6 DEF TypeOK, Snapshot
  <2> QED
    BY <2>1, <2>2
<1>8. ASSUME NEW x \in Resource, Collect(s, x) PROVE TypeOK'
  <2>1. CASE Broken(s)
    BY <2>1, BrokenType
  <2>2. CASE ~Broken(s)
    <3>1. row' \in [Resource -> Status] /\ account' \in [Account -> AccountRow]
      BY <1>8, <2>2 DEF TypeOK, Collect, Unmetered, tables
    <3>2. view' \in [Session -> Snapshot]
      BY <1>8, <2>2, <3>1, ReopenedType DEF TypeOK, Collect, Unmetered, Snapshot
    <3>3. meter' \in [Session -> SUBSET Resource] /\ metered' \in SUBSET Resource
      BY <1>8, <2>2 DEF TypeOK, Collect, Unmetered, tables
    <3> QED
      BY <1>8, <2>2, <3>1, <3>2, <3>3 DEF TypeOK, Collect, Unmetered, tables, Snapshot
  <2> QED
    BY <2>1, <2>2
<1> QED
  BY <1>1, <1>2, <1>3, <1>4, <1>5, <1>6, <1>7, <1>8 DEF Work

\* The provider's failures.
LEMMA TroubleType ==
  ASSUME TypeOK, NEW s \in Session, Trouble(s)
  PROVE  TypeOK'
<1>1. CASE Stumble(s)
  <2>1. view' \in [Session -> Snapshot]
    BY <1>1, BlankType DEF TypeOK, Stumble, Snapshot
  <2> QED
    BY <1>1, <2>1, PassOverType, SpendType DEF TypeOK, Stumble, tables, Snapshot
<1>2. ASSUME NEW sc \in Scope, ListFails(s, sc) PROVE TypeOK'
  BY <1>2, SpendType DEF TypeOK, ListFails, tables
<1> QED
  BY <1>1, <1>2 DEF Trouble

\* Every variable has its type in every reachable state.
THEOREM TypeCorrect == Spec => []TypeOK
<1>1. ASSUME TypeOK, [Next]_vars PROVE TypeOK'
  <2>1. CASE UNCHANGED vars
    BY <1>1, <2>1 DEF TypeOK, vars, tables, local
  <2> QED
    BY <1>1, <2>1, OutsideType, WorkType, TroubleType DEF Next
<1> QED
  BY InitType, <1>1, PTL DEF Spec

-----------------------------------------------------------------------------
(* Deleted accounts.                                                        *)

\* A step that keeps rows, metrics and accounts keeps the relation of them.
LEMMA UntouchedTables ==
  ASSUME NothingOfDeletedAccounts, UNCHANGED <<account, row, metered>>
  PROVE  NothingOfDeletedAccounts'
BY DEF NothingOfDeletedAccounts, OwnerOf

LEMMA BrokenTables ==
  ASSUME NEW s \in Session, Broken(s)
  PROVE  UNCHANGED <<account, row, metered, cloud>>
BY DEF Broken, tables

LEMMA WorkKeepsOrder ==
  ASSUME TypeOK, NothingOfDeletedAccounts, NEW s \in Session, Work(s)
  PROVE  NothingOfDeletedAccounts'
<1>1. CASE StartSweep(s) \/ NotThere(s) \/ Finish(s)
  BY <1>1, UntouchedTables, BrokenTables DEF StartSweep, NotThere, Finish, tables
<1>2. CASE Flip(s)
  <2>1. CASE Broken(s)
    BY <2>1, UntouchedTables, BrokenTables
  <2>2. CASE ~Broken(s)
    <3>1. \A x \in Resource : row'[x] # "absent" <=> row[x] # "absent"
      BY <1>2, <2>2 DEF Flip
    <3> QED
      BY <1>2, <2>2, <3>1 DEF Flip, NothingOfDeletedAccounts, OwnerOf, TypeOK
  <2> QED
    BY <2>1, <2>2
<1>3. ASSUME NEW a \in Account, Visit(s, a) PROVE NothingOfDeletedAccounts'
  BY <1>3, UntouchedTables DEF Visit, tables
<1>4. ASSUME NEW sc \in Scope, List(s, sc) PROVE NothingOfDeletedAccounts'
  BY <1>4, UntouchedTables DEF List, tables
<1>5. ASSUME NEW x \in Resource, Upsert(s, x) PROVE NothingOfDeletedAccounts'
  <2>1. CASE Broken(s)
    BY <2>1, UntouchedTables, BrokenTables
  <2>2. CASE ~Broken(s)
    <3>1. /\ row' = [row EXCEPT ![x] = Written(s, x)]
          /\ UNCHANGED <<account, metered>>
          /\ Writable(s, x)
      BY <1>5, <2>2 DEF Upsert
    <3>2. Written(s, x) # "absent"
      BY <3>1 DEF Written, Writable
    <3>3. account[OwnerOf(x)].there
      BY <3>1 DEF Writable, NothingOfDeletedAccounts
    <3> QED
      BY <3>1, <3>2, <3>3 DEF NothingOfDeletedAccounts, OwnerOf, TypeOK
  <2> QED
    BY <2>1, <2>2
<1>6. ASSUME NEW x \in Resource, Collect(s, x) PROVE NothingOfDeletedAccounts'
  <2>1. CASE Broken(s)
    BY <2>1, UntouchedTables, BrokenTables
  <2>2. CASE ~Broken(s)
    BY <1>6, <2>2 DEF Collect, Unmetered, NothingOfDeletedAccounts, OwnerOf, tables
  <2> QED
    BY <2>1, <2>2
<1> QED
  BY <1>1, <1>2, <1>3, <1>4, <1>5, <1>6 DEF Work

LEMMA OwnersKeepOrder ==
  ASSUME TypeOK, NothingOfDeletedAccounts, Owners
  PROVE  NothingOfDeletedAccounts'
<1>1. ASSUME NEW a \in Account, NEW r \in Region \cup {All}, Select(a, r)
      PROVE NothingOfDeletedAccounts'
  <2>1. \A b \in Account : account'[b].there = account[b].there
    BY <1>1 DEF Select, TypeOK, AccountRow
  <2>2. \A x \in Resource : OwnerOf(x) \in Account
    BY HomeAssumption DEF OwnerOf, Scope
  <2> QED
    BY <1>1, <2>1, <2>2 DEF Select, NothingOfDeletedAccounts, OwnerOf
<1>2. ASSUME NEW a \in Account, Switch(a) PROVE NothingOfDeletedAccounts'
  <2>1. \A b \in Account : account'[b].there = account[b].there
    BY <1>2 DEF Switch, TypeOK, AccountRow
  <2>2. \A x \in Resource : OwnerOf(x) \in Account
    BY HomeAssumption DEF OwnerOf, Scope
  <2> QED
    BY <1>2, <2>1, <2>2 DEF Switch, NothingOfDeletedAccounts, OwnerOf
<1>3. ASSUME NEW a \in Account, Delete(a) PROVE NothingOfDeletedAccounts'
  <2>1. \A x \in Resource : row'[x] # "absent" =>
          account'[OwnerOf(x)].there
    <3> SUFFICES ASSUME NEW x \in Resource, row'[x] # "absent"
                 PROVE  account'[OwnerOf(x)].there
      OBVIOUS
    <3>1. OwnerOf(x) # a /\ row[x] # "absent"
      BY <1>3 DEF Delete
    <3>2. account'[OwnerOf(x)] = account[OwnerOf(x)]
      BY <1>3, <3>1, HomeAssumption DEF Delete, TypeOK, OwnerOf, Scope
    <3> QED
      BY <3>1, <3>2 DEF NothingOfDeletedAccounts
  <2>2. \A x \in metered' : row'[x] # "absent"
    BY <1>3 DEF Delete, NothingOfDeletedAccounts, TypeOK
  <2> QED
    BY <2>1, <2>2 DEF NothingOfDeletedAccounts, OwnerOf
<1>4. ASSUME NEW a \in Account, NEW s \in Request, StartRequest(s, a)
      PROVE NothingOfDeletedAccounts'
  BY <1>4, UntouchedTables DEF StartRequest, tables
<1> QED
  BY <1>1, <1>2, <1>3, <1>4, AttendedAssumption DEF Owners

\* No pass, however late, leaves a row or a metric of a deleted account.
THEOREM NoLeftovers == Spec => []NothingOfDeletedAccounts
<1>1. Init => NothingOfDeletedAccounts
  BY DEF Init, NothingOfDeletedAccounts
<1>2. ASSUME TypeOK, NothingOfDeletedAccounts, [Next]_vars
      PROVE  NothingOfDeletedAccounts'
  <2>1. CASE UNCHANGED vars
    BY <1>2, <2>1, UntouchedTables DEF vars, tables
  <2>2. ASSUME NEW s \in Session, Trouble(s) PROVE NothingOfDeletedAccounts'
    BY <1>2, <2>2, UntouchedTables DEF Trouble, Stumble, ListFails, tables
  <2>3. ASSUME NEW x \in Resource, Evolve(x) PROVE NothingOfDeletedAccounts'
    BY <1>2, <2>3, UntouchedTables DEF Evolve, tables
  <2> QED
    BY <1>2, <2>1, <2>2, <2>3, WorkKeepsOrder, OwnersKeepOrder DEF Next
<1> QED
  BY <1>1, <1>2, TypeCorrect, PTL DEF Spec

-----------------------------------------------------------------------------
(* What is flipped inactive is gone, or another pass is at the same scope.  *)

\* What the table, a snapshot or a listing names exists or existed.
Known(x) ==
  \/ row[x] # "absent"
  \/ \E s \in Session : view[s].row[x] # "absent" \/ x \in listing[s]

Existed == \A x \in Resource : Known(x) => cloud[x] # "unborn"

\* A resource of the listed scope that was not listed and has an active row, in
\* the table or in the snapshot, is gone or was upserted by another pass since.
UnlistedAreGone ==
  \A s \in Session :
    scope[s] # NoScope =>
      \A x \in Resource :
        /\ Home[x] = scope[s] /\ x \notin listing[s]
        /\ row[x] = "active" \/ view[s].row[x] = "active"
        => cloud[x] = "gone" \/ x \in meanwhile[s]

\* What is still to be upserted was listed.
LeftWasListed == \A s \in Session : left[s] \subseteq listing[s]

FlipInv == TypeOK /\ Existed /\ UnlistedAreGone /\ LeftWasListed

LEMMA FlipInit == Init => FlipInv
<1> SUFFICES ASSUME Init PROVE FlipInv
  OBVIOUS
<1>1. TypeOK
  BY InitType
<1>2. \A x \in Resource : ~Known(x)
  BY DEF Init, Known, Blank
<1>3. UnlistedAreGone /\ LeftWasListed
  BY DEF Init, UnlistedAreGone, LeftWasListed
<1> QED
  BY <1>1, <1>2, <1>3 DEF FlipInv, Existed

\* A pass that ends, well or not, forgets what it listed; what the session
\* reads afterwards are the rows of before.
LEMMA PassOverFlip ==
  ASSUME FlipInv, TypeOK', NEW s \in Session, PassOver(s), UNCHANGED <<cloud, row>>,
         \/ view' = view
         \/ view' = [view EXCEPT ![s] = Blank]
         \/ Reopened(s)
  PROVE  FlipInv'
<1>0. /\ scope'[s] = NoScope /\ listing'[s] = {} /\ left'[s] = {}
      /\ \A t \in Session \ {s} :
           /\ scope'[t] = scope[t] /\ listing'[t] = listing[t] /\ left'[t] = left[t]
           /\ meanwhile'[t] = meanwhile[t] /\ view'[t] = view[t]
  BY DEF FlipInv, TypeOK, PassOver, Reopened
<1>1. Existed'
  BY DEF FlipInv, Existed, Known, PassOver, Reopened, Blank, TypeOK
<1>2. UnlistedAreGone' /\ LeftWasListed'
  BY <1>0 DEF FlipInv, UnlistedAreGone, LeftWasListed
<1> QED
  BY <1>1, <1>2 DEF FlipInv

LEMMA BrokenFlip ==
  ASSUME FlipInv, NEW s \in Session, Broken(s)
  PROVE  FlipInv'
BY PassOverFlip, BrokenType DEF Broken, tables, FlipInv

\* A session that opens a snapshot, or keeps the one it has, and lists nothing.
LEMMA SnapshotFlip ==
  ASSUME FlipInv, TypeOK', NEW s \in Session, UNCHANGED <<cloud, row, scope, listing, left, meanwhile>>,
         \/ view' = view
         \/ /\ view'[s].row = row
            /\ \A t \in Session \ {s} : view'[t] = view[t]
  PROVE  FlipInv'
<1>1. Existed'
  BY DEF FlipInv, Existed, Known, TypeOK
<1>2. UnlistedAreGone' /\ LeftWasListed'
  BY DEF FlipInv, UnlistedAreGone, LeftWasListed, TypeOK
<1> QED
  BY <1>1, <1>2 DEF FlipInv

LEMMA ListFlip ==
  ASSUME FlipInv, TypeOK', NEW s \in Session, NEW sc \in Scope, List(s, sc)
  PROVE  FlipInv'
<1>1. Existed'
  BY DEF FlipInv, Existed, Known, List, Listed, TypeOK, tables
<1>2. UnlistedAreGone'
  <2> SUFFICES ASSUME NEW t \in Session, scope'[t] # NoScope, NEW x \in Resource,
                      Home[x] = scope'[t], x \notin listing'[t],
                      row'[x] = "active" \/ view'[t].row[x] = "active"
               PROVE  cloud'[x] = "gone" \/ x \in meanwhile'[t]
    BY DEF UnlistedAreGone
  <2>1. CASE t = s
    <3>1. cloud[x] # "running"
      BY <2>1 DEF FlipInv, List, Listed, TypeOK
    <3>2. cloud[x] # "unborn"
      BY <2>1 DEF FlipInv, List, Existed, Known, tables
    <3> QED
      BY <3>1, <3>2 DEF FlipInv, TypeOK, List
  <2>2. CASE t # s
    BY <2>2 DEF FlipInv, UnlistedAreGone, List, TypeOK, tables
  <2> QED
    BY <2>1, <2>2
<1>3. LeftWasListed'
  BY DEF FlipInv, LeftWasListed, List, TypeOK
<1> QED
  BY <1>1, <1>2, <1>3 DEF FlipInv

LEMMA UpsertFlip ==
  ASSUME FlipInv, TypeOK', NEW s \in Session, NEW x \in Resource, Upsert(s, x)
  PROVE  FlipInv'
<1>1. CASE Broken(s)
  BY <1>1, BrokenFlip
<1>2. CASE ~Broken(s)
  <2>1. /\ row' = [row EXCEPT ![x] = Written(s, x)]
        /\ view' = [view EXCEPT ![s] = [account |-> account', row |-> row']]
        /\ left' = [left EXCEPT ![s] = @ \ {x}]
        /\ meanwhile' = [o \in Session |->
                           IF o # s /\ scope[o] = Home[x]
                           THEN meanwhile[o] \cup {x} ELSE meanwhile[o]]
        /\ UNCHANGED <<cloud, scope, listing>>
        /\ x \in left[s]
    BY <1>2 DEF Upsert, Reopened
  <2>2. x \in listing[s]
    BY <2>1 DEF FlipInv, LeftWasListed
  <2>3. view'[s].row = row' /\ \A t \in Session \ {s} : view'[t] = view[t]
    BY <2>1 DEF FlipInv, TypeOK
  <2>4. \A y \in Resource : y # x => row'[y] = row[y]
    BY <2>1 DEF FlipInv, TypeOK
  <2>5. Existed'
    BY <2>1, <2>2, <2>3, <2>4 DEF FlipInv, Existed, Known
  <2>6. UnlistedAreGone'
    <3> SUFFICES ASSUME NEW t \in Session, scope'[t] # NoScope, NEW y \in Resource,
                        Home[y] = scope'[t], y \notin listing'[t],
                        row'[y] = "active" \/ view'[t].row[y] = "active"
                 PROVE  cloud'[y] = "gone" \/ y \in meanwhile'[t]
      BY DEF UnlistedAreGone
    <3>1. CASE t = s
      <4>1. y # x /\ row[y] = "active"
        BY <2>1, <2>2, <2>3, <2>4, <3>1
      <4>2. cloud[y] = "gone" \/ y \in meanwhile[t]
        BY <2>1, <4>1 DEF FlipInv, UnlistedAreGone
      <4> QED
        BY <2>1, <3>1, <4>2
    <3>2. CASE t # s /\ y = x
      BY <2>1, <3>2
    <3>3. CASE t # s /\ y # x
      <4>1. row[y] = "active" \/ view[t].row[y] = "active"
        BY <2>3, <2>4, <3>3
      <4>2. cloud[y] = "gone" \/ y \in meanwhile[t]
        BY <2>1, <4>1 DEF FlipInv, UnlistedAreGone
      <4> QED
        BY <2>1, <4>2
    <3> QED
      BY <3>1, <3>2, <3>3
  <2>7. LeftWasListed'
    BY <2>1 DEF FlipInv, LeftWasListed, TypeOK
  <2> QED
    BY <2>5, <2>6, <2>7 DEF FlipInv
<1> QED
  BY <1>1, <1>2

LEMMA FlipFlip ==
  ASSUME FlipInv, TypeOK', NEW s \in Session, Flip(s)
  PROVE  FlipInv'
<1>1. CASE Broken(s)
  BY <1>1, BrokenFlip
<1>2. CASE ~Broken(s)
  <2>1. /\ row' = [x \in Resource |-> IF x \in Stale(s) THEN "inactive" ELSE row[x]]
        /\ scope' = [scope EXCEPT ![s] = NoScope]
        /\ listing' = [listing EXCEPT ![s] = {}]
        /\ meanwhile' = [meanwhile EXCEPT ![s] = {}]
        /\ left[s] = {}
        /\ UNCHANGED <<cloud, left>>
    BY <1>2 DEF Flip
  <2>2. view' = view \/ view' = [view EXCEPT ![s] = [account |-> account', row |-> row']]
    BY <1>2 DEF Flip, Reopened
  <2>3. \A x \in Resource : row'[x] # "absent" => Known(x)
    BY <2>1 DEF Known, Stale
  <2>4. Existed'
    BY <2>1, <2>2, <2>3 DEF FlipInv, Existed, Known, TypeOK
  <2>5. /\ scope'[s] = NoScope /\ left'[s] = {}
        /\ \A t \in Session \ {s} :
             /\ scope'[t] = scope[t] /\ listing'[t] = listing[t] /\ left'[t] = left[t]
             /\ meanwhile'[t] = meanwhile[t] /\ view'[t] = view[t]
    BY <2>1, <2>2 DEF FlipInv, TypeOK
  <2>6. \A x \in Resource : row'[x] = "active" => row[x] = "active"
    BY <2>1
  <2>7. UnlistedAreGone'
    BY <2>1, <2>5, <2>6 DEF FlipInv, UnlistedAreGone
  <2>8. LeftWasListed'
    BY <2>5 DEF FlipInv, LeftWasListed
  <2> QED
    BY <2>4, <2>7, <2>8 DEF FlipInv
<1> QED
  BY <1>1, <1>2

LEMMA OutsideFlip ==
  ASSUME FlipInv, TypeOK', (\E x \in Resource : Evolve(x)) \/ Owners
  PROVE  FlipInv'
<1>1. ASSUME NEW x \in Resource, Evolve(x) PROVE FlipInv'
  <2>1. \A y \in Resource : /\ cloud[y] # "unborn" => cloud'[y] # "unborn"
                            /\ cloud[y] = "gone" => cloud'[y] = "gone"
    BY <1>1 DEF Evolve, FlipInv, TypeOK
  <2> QED
    BY <1>1, <2>1 DEF Evolve, FlipInv, Existed, Known, UnlistedAreGone, LeftWasListed,
                      tables, local
<1>2. ASSUME NEW a \in Account, NEW r \in Region \cup {All}, Select(a, r) PROVE FlipInv'
  BY <1>2, SnapshotFlip, SessionAssumption
     DEF Select, local, FlipInv, Existed, Known, UnlistedAreGone, LeftWasListed
<1>3. ASSUME NEW a \in Account, Switch(a) PROVE FlipInv'
  BY <1>3 DEF Switch, local, FlipInv, Existed, Known, UnlistedAreGone, LeftWasListed
<1>4. ASSUME NEW a \in Account, Delete(a) PROVE FlipInv'
  <2>1. \A x \in Resource : row'[x] # "absent" => row'[x] = row[x]
    BY <1>4 DEF Delete
  <2> QED
    BY <1>4, <2>1 DEF Delete, local, FlipInv, Existed, Known, UnlistedAreGone, LeftWasListed
<1>5. ASSUME NEW a \in Account, NEW s \in Request, StartRequest(s, a) PROVE FlipInv'
  <2>1. s \in Session /\ view'[s].row = row /\ \A t \in Session \ {s} : view'[t] = view[t]
    BY <1>5 DEF StartRequest, FlipInv, TypeOK, Session
  <2> QED
    BY <1>5, <2>1, SnapshotFlip DEF StartRequest, tables
<1> QED
  BY <1>1, <1>2, <1>3, <1>4, <1>5, AttendedAssumption DEF Owners

LEMMA WorkFlip ==
  ASSUME FlipInv, TypeOK', NEW s \in Session, Work(s)
  PROVE  FlipInv'
<1>1. CASE StartSweep(s)
  <2>1. view'[s].row = row /\ \A t \in Session \ {s} : view'[t] = view[t]
    BY <1>1 DEF StartSweep, FlipInv, TypeOK
  <2> QED
    BY <1>1, <2>1, SnapshotFlip DEF StartSweep, tables
<1>2. CASE NotThere(s)
  BY <1>2, BrokenFlip DEF NotThere
<1>3. CASE Flip(s)
  BY <1>3, FlipFlip
<1>4. CASE Finish(s)
  <2>1. CASE Broken(s)
    BY <2>1, BrokenFlip
  <2>2. CASE ~Broken(s)
    BY <1>4, <2>2, PassOverFlip DEF Finish
  <2> QED
    BY <2>1, <2>2
<1>5. ASSUME NEW a \in Account, Visit(s, a) PROVE FlipInv'
  BY <1>5, SnapshotFlip DEF Visit, tables
<1>6. ASSUME NEW sc \in Scope, List(s, sc) PROVE FlipInv'
  BY <1>6, ListFlip
<1>7. ASSUME NEW x \in Resource, Upsert(s, x) PROVE FlipInv'
  BY <1>7, UpsertFlip
<1>8. ASSUME NEW x \in Resource, Collect(s, x) PROVE FlipInv'
  <2>1. CASE Broken(s)
    BY <2>1, BrokenFlip
  <2>2. CASE ~Broken(s)
    <3>1. UNCHANGED <<cloud, row, scope, listing, left, meanwhile>>
      BY <1>8, <2>2 DEF Collect, Unmetered, tables
    <3>2. \/ view' = view
          \/ view'[s].row = row /\ \A t \in Session \ {s} : view'[t] = view[t]
      BY <1>8, <2>2 DEF Collect, Unmetered, tables, Reopened, FlipInv, TypeOK
    <3> QED
      BY <3>1, <3>2, SnapshotFlip
  <2> QED
    BY <2>1, <2>2
<1> QED
  BY <1>1, <1>2, <1>3, <1>4, <1>5, <1>6, <1>7, <1>8 DEF Work

LEMMA FlipStep ==
  ASSUME FlipInv, [Next]_vars
  PROVE  FlipInv'
<1>1. CASE UNCHANGED vars
  BY <1>1 DEF vars, tables, local, FlipInv, TypeOK, Existed, Known, UnlistedAreGone, LeftWasListed
<1>2. ASSUME NEW s \in Session, Trouble(s) PROVE FlipInv'
  <2>1. TypeOK'
    BY <1>2, TroubleType DEF FlipInv
  <2>2. CASE Stumble(s)
    <3>1. view' = view \/ view' = [view EXCEPT ![s] = Blank]
      BY <2>2 DEF Stumble, FlipInv, TypeOK
    <3> QED
      BY <2>1, <2>2, <3>1, PassOverFlip DEF Stumble, tables
  <2>3. ASSUME NEW sc \in Scope, ListFails(s, sc) PROVE FlipInv'
    BY <2>1, <2>3, SnapshotFlip DEF ListFails, tables
  <2> QED
    BY <1>2, <2>2, <2>3 DEF Trouble
<1>3. ASSUME NEW s \in Session, Work(s) PROVE FlipInv'
  BY <1>3, WorkType, WorkFlip DEF FlipInv
<1>4. ASSUME (\E x \in Resource : Evolve(x)) \/ Owners PROVE FlipInv'
  BY <1>4, OutsideType, OutsideFlip DEF FlipInv
<1> QED
  BY <1>1, <1>2, <1>3, <1>4 DEF Next

\* However many passes overlap, a row goes inactive only for a resource that is
\* gone from the provider, or that another pass has upserted since the listing
\* of the pass that flips it.
THEOREM FlipsAreRight == Spec => FlippedWasGone
<1>1. Spec => []FlipInv
  BY FlipInit, FlipStep, PTL DEF Spec
<1>2. FlipInv /\ [Next]_vars =>
        [\A x \in Resource :
           row[x] = "active" /\ row'[x] = "inactive" =>
             \/ cloud[x] = "gone"
             \/ \E s \in Session : scope[s] = Home[x] /\ x \in meanwhile[s]]_vars
  <2> SUFFICES ASSUME FlipInv, [Next]_vars,
                      NEW x \in Resource, row[x] = "active", row'[x] = "inactive"
               PROVE  \/ cloud[x] = "gone"
                      \/ \E s \in Session : scope[s] = Home[x] /\ x \in meanwhile[s]
    OBVIOUS
  <2>1. ASSUME NEW s \in Session, Flip(s)
        PROVE  \/ cloud[x] = "gone"
               \/ scope[s] = Home[x] /\ x \in meanwhile[s]
    <3>1. scope[s] # NoScope /\ x \in Stale(s)
      BY <2>1, BrokenTables DEF Flip
    <3> QED
      BY <3>1 DEF Stale, FlipInv, UnlistedAreGone
  <2>2. ASSUME NEW s \in Session, NEW y \in Resource, Upsert(s, y) PROVE FALSE
    <3>1. CASE Broken(s)
      BY <3>1, BrokenTables
    <3>2. CASE ~Broken(s)
      BY <2>2, <3>2 DEF Upsert, Written, FlipInv, TypeOK
    <3> QED
      BY <3>1, <3>2
  <2>3. ASSUME NEW s \in Session, StartSweep(s) \/ NotThere(s) \/ Finish(s) PROVE FALSE
    BY <2>3, BrokenTables DEF StartSweep, NotThere, Finish, tables
  <2>4. ASSUME NEW s \in Session, NEW a \in Account, Visit(s, a) PROVE FALSE
    BY <2>4 DEF Visit, tables
  <2>5. ASSUME NEW s \in Session, NEW sc \in Scope, List(s, sc) PROVE FALSE
    BY <2>5 DEF List, tables
  <2>6. ASSUME NEW s \in Session, NEW y \in Resource, Collect(s, y) PROVE FALSE
    BY <2>6, BrokenTables DEF Collect, Unmetered, tables
  <2>7. ASSUME NEW s \in Session, Trouble(s) PROVE FALSE
    BY <2>7 DEF Trouble, Stumble, ListFails, tables
  <2>8. ASSUME (\E y \in Resource : Evolve(y)) \/ Owners PROVE FALSE
    BY <2>8 DEF Evolve, Owners, Select, Switch, Delete, StartRequest, tables
  <2>9. CASE UNCHANGED vars
    BY <2>9 DEF vars, tables
  <2> QED
    BY <2>1, <2>2, <2>3, <2>4, <2>5, <2>6, <2>7, <2>8, <2>9 DEF Next, Work
<1> QED
  BY <1>1, <1>2, PTL DEF Spec, FlippedWasGone

-----------------------------------------------------------------------------
(* The sweep goes on, whatever other passes do beside it.                    *)

Busy(s) == at[s] # NoAccount \/ todo[s] # {}

\* What a session at work has read was there: an account that it does not see is
\* not there any more, and a row that it saw is gone only with its account.
Honest(s) ==
  Busy(s) =>
    /\ \A a \in Account : ~ view[s].account[a].there => ~ account[a].there
    /\ \A x \in Resource :
         view[s].row[x] # "absent" /\ row[x] = "absent" => ~ account[OwnerOf(x)].there

\* What a pass has in hand is its account's.
OfPass(s) ==
  /\ \A sc \in scopes[s] : sc[1] = at[s]
  /\ scope[s] # NoScope => scope[s][1] = at[s]
  /\ \A x \in left[s] : OwnerOf(x) = at[s]
  /\ \A x \in meter[s] :
       /\ OwnerOf(x) = at[s]
       /\ row[x] # "absent" \/ ~ account[OwnerOf(x)].there

SweepInv == TypeOK /\ \A s \in Session : Honest(s) /\ OfPass(s)

LEMMA OwnersAreAccounts ==
  ASSUME NEW x \in Resource
  PROVE  OwnerOf(x) \in Account /\ OwnerOf(x) # NoAccount
BY HomeAssumption, NoAccountAssumption DEF OwnerOf, Scope

\* Between two passes a session has nothing in hand.
LEMMA NothingInHand ==
  ASSUME TypeOK, NEW s \in Session, OfPass(s), at[s] = NoAccount
  PROVE  scope[s] = NoScope /\ left[s] = {} /\ meter[s] = {}
<1>1. scope[s] = NoScope
  <2>1. \A sc \in Scope : sc[1] # NoAccount
    BY NoAccountAssumption DEF Scope
  <2> QED
    BY <2>1 DEF TypeOK, OfPass
<1>2. left[s] \subseteq Resource /\ meter[s] \subseteq Resource
  BY DEF TypeOK
<1> QED
  BY <1>1, <1>2, OwnersAreAccounts DEF OfPass

\* A session that opens a snapshot sees what there is.
LEMMA OpenedHonest ==
  ASSUME NEW s \in Session, view'[s] = [account |-> account', row |-> row']
  PROVE  Honest(s)'
<1>1. view'[s].account = account' /\ view'[s].row = row'
  OBVIOUS
<1> QED
  BY <1>1 DEF Honest

LEMMA KeptHonest ==
  ASSUME NEW s \in Session, Honest(s), Busy(s)' => Busy(s),
         UNCHANGED <<account, row>>, view'[s] = view[s]
  PROVE  Honest(s)'
BY DEF Honest, OwnerOf

\* A pass that is over leaves nothing in hand.
LEMMA PassOverSweep ==
  ASSUME TypeOK, NEW s \in Session, PassOver(s)
  PROVE  OfPass(s)' /\ at'[s] = NoAccount
BY DEF TypeOK, PassOver, OfPass

LEMMA BrokenSweep ==
  ASSUME TypeOK, NEW s \in Session, Broken(s)
  PROVE  Honest(s)' /\ OfPass(s)'
<1>1. at'[s] = NoAccount /\ OfPass(s)'
  BY PassOverSweep DEF Broken
<1>2. todo'[s] = {}
  BY DEF Broken, TypeOK
<1> QED
  BY <1>1, <1>2 DEF Honest, Busy

\* What a step of s leaves alone in the session t.
Alone(t) ==
  /\ view'[t] = view[t] /\ todo'[t] = todo[t] /\ at'[t] = at[t]
  /\ scopes'[t] = scopes[t] /\ scope'[t] = scope[t]
  /\ left'[t] = left[t] /\ meter'[t] = meter[t]

\* Deleted accounts do not come back, and rows go only with their accounts.
TablesMove ==
  /\ \A a \in Account : ~ account[a].there => ~ account'[a].there
  /\ \A x \in Resource :
       row'[x] = "absent" => row[x] = "absent" \/ ~ account'[OwnerOf(x)].there

LEMMA TablesStay == ASSUME UNCHANGED <<account, row>> PROVE TablesMove
BY DEF TablesMove

\* What other sessions and the owners do to the tables keeps what a session
\* knows of them.
LEMMA AloneSweep ==
  ASSUME TypeOK, NEW t \in Session, Honest(t), OfPass(t), Alone(t), TablesMove
  PROVE  Honest(t)' /\ OfPass(t)'
<1>1. \A x \in Resource : ~ account[OwnerOf(x)].there => ~ account'[OwnerOf(x)].there
  BY OwnersAreAccounts DEF TablesMove
<1>2. left[t] \subseteq Resource /\ meter[t] \subseteq Resource
  BY DEF TypeOK
<1>3. Busy(t)' <=> Busy(t)
  BY DEF Alone, Busy
<1>4. Honest(t)'
  <2>1. ASSUME Busy(t), NEW a \in Account, ~ view'[t].account[a].there
        PROVE  ~ account'[a].there
    BY <2>1 DEF Honest, Alone, TablesMove
  <2>2. ASSUME Busy(t), NEW x \in Resource, view'[t].row[x] # "absent", row'[x] = "absent"
        PROVE  ~ account'[OwnerOf(x)].there
    BY <1>1, <2>2 DEF Honest, Alone, TablesMove
  <2> QED
    BY <1>3, <2>1, <2>2 DEF Honest, OwnerOf
<1>5. \A x \in meter[t] : row'[x] # "absent" \/ ~ account'[OwnerOf(x)].there
  BY <1>1, <1>2 DEF OfPass, TablesMove
<1> QED
  BY <1>2, <1>4, <1>5 DEF OfPass, OwnerOf, Alone

LEMMA BrokenAlone ==
  ASSUME TypeOK, NEW s \in Session, Broken(s), NEW t \in Session, t # s
  PROVE  Alone(t)
BY DEF Broken, PassOver, TypeOK, Alone

LEMMA WorkAlone ==
  ASSUME TypeOK, NEW s \in Session, Work(s), NEW t \in Session, t # s
  PROVE  Alone(t)
<1>1. CASE Broken(s)
  BY <1>1, BrokenAlone
<1>2. CASE StartSweep(s)
  BY <1>2 DEF StartSweep, Alone, TypeOK, tables
<1>3. CASE Flip(s) /\ ~ Broken(s)
  <2>1. /\ UNCHANGED <<todo, at, scopes, left, meter>>
        /\ scope' = [scope EXCEPT ![s] = NoScope]
        /\ view' = view \/ Reopened(s)
    BY <1>3 DEF Flip
  <2> QED
    BY <2>1 DEF Alone, Reopened, TypeOK
<1>4. CASE Finish(s) /\ ~ Broken(s)
  <2>1. /\ PassOver(s) /\ UNCHANGED todo
        /\ view' = [view EXCEPT ![s] = Blank] \/ Reopened(s)
    BY <1>4 DEF Finish
  <2> QED
    BY <2>1 DEF Alone, Reopened, PassOver, TypeOK
<1>5. ASSUME NEW a \in Account, Visit(s, a) PROVE Alone(t)
  <2>1. /\ UNCHANGED <<view, scope, left, meter>>
        /\ todo' = [todo EXCEPT ![s] = @ \ {a}]
        /\ \/ UNCHANGED <<at, scopes>>
           \/ /\ at' = [at EXCEPT ![s] = a]
              /\ scopes' = [scopes EXCEPT ![s] = {a} \X RegionsOf(a, view[s].account) \X Category]
    BY <1>5 DEF Visit
  <2> QED
    BY <2>1 DEF Alone, TypeOK
<1>6. ASSUME NEW sc \in Scope, List(s, sc) PROVE Alone(t)
  BY <1>6 DEF List, Alone, TypeOK
<1>7. ASSUME NEW x \in Resource, Upsert(s, x), ~ Broken(s) PROVE Alone(t)
  <2>1. /\ UNCHANGED <<todo, at, scopes, scope>> /\ Reopened(s)
        /\ left' = [left EXCEPT ![s] = @ \ {x}]
        /\ meter' = [meter EXCEPT ![s] = IF Home[x][3] = Metered THEN {x} ELSE {}]
    BY <1>7 DEF Upsert
  <2> QED
    BY <2>1 DEF Alone, Reopened, TypeOK
<1>8. ASSUME NEW x \in Resource, Collect(s, x), ~ Broken(s) PROVE Alone(t)
  <2>1. /\ UNCHANGED <<todo, at, scopes, scope, left>>
        /\ meter' = [meter EXCEPT ![s] = {}]
        /\ view' = view \/ Reopened(s)
    BY <1>8 DEF Collect, Unmetered
  <2> QED
    BY <2>1 DEF Alone, Reopened, TypeOK
<1> QED
  BY <1>1, <1>2, <1>3, <1>4, <1>5, <1>6, <1>7, <1>8 DEF Work, NotThere

LEMMA TroubleAlone ==
  ASSUME TypeOK, NEW s \in Session, Trouble(s), NEW t \in Session, t # s
  PROVE  Alone(t)
<1>1. CASE Stumble(s)
  BY <1>1 DEF Stumble, PassOver, Alone, TypeOK
<1>2. ASSUME NEW sc \in Scope, ListFails(s, sc) PROVE Alone(t)
  BY <1>2 DEF ListFails, Alone, TypeOK
<1> QED
  BY <1>1, <1>2 DEF Trouble

\* A pass deletes no row.
LEMMA WorkTables ==
  ASSUME TypeOK, NEW s \in Session, Work(s)
  PROVE  TablesMove
<1>1. CASE Broken(s)
  BY <1>1, BrokenTables, TablesStay
<1>2. CASE StartSweep(s) \/ Finish(s)
  BY <1>2, BrokenTables, TablesStay DEF StartSweep, Finish, tables
<1>3. CASE Flip(s) /\ ~ Broken(s)
  <2>1. /\ row' = [x \in Resource |-> IF x \in Stale(s) THEN "inactive" ELSE row[x]]
        /\ UNCHANGED account
    BY <1>3 DEF Flip
  <2> QED
    BY <2>1 DEF TablesMove
<1>4. ASSUME NEW a \in Account, Visit(s, a) PROVE TablesMove
  BY <1>4, TablesStay DEF Visit, tables
<1>5. ASSUME NEW sc \in Scope, List(s, sc) PROVE TablesMove
  BY <1>5, TablesStay DEF List, tables
<1>6. ASSUME NEW x \in Resource, Upsert(s, x), ~ Broken(s) PROVE TablesMove
  <2>1. /\ row' = [row EXCEPT ![x] = Written(s, x)]
        /\ UNCHANGED account
    BY <1>6 DEF Upsert
  <2>2. Written(s, x) = "absent" => row[x] = "absent"
    BY DEF Written
  <2> QED
    BY <2>1, <2>2 DEF TablesMove, TypeOK
<1>7. ASSUME NEW x \in Resource, Collect(s, x), ~ Broken(s) PROVE TablesMove
  BY <1>7, TablesStay DEF Collect, Unmetered, tables
<1> QED
  BY <1>1, <1>2, <1>3, <1>4, <1>5, <1>6, <1>7 DEF Work, NotThere

\* The owners and the provider take nothing out of a session's hands.
LEMMA OutsideSweep ==
  ASSUME SweepInv, NEW s \in Session,
         (\E x \in Resource : Evolve(x)) \/ Owners
  PROVE  Honest(s)' /\ OfPass(s)'
<1>0. TypeOK /\ Honest(s) /\ OfPass(s)
  BY DEF SweepInv
<1>1. ASSUME NEW a \in Account, NEW r \in Region \cup {All}, Select(a, r)
      PROVE  Honest(s)' /\ OfPass(s)'
  <2>1. TablesMove
    BY <1>0, <1>1 DEF Select, TypeOK, AccountRow, TablesMove
  <2> QED
    BY <1>0, <1>1, <2>1, AloneSweep DEF Select, local, Alone
<1>2. ASSUME NEW a \in Account, Switch(a) PROVE Honest(s)' /\ OfPass(s)'
  <2>1. TablesMove
    BY <1>0, <1>2 DEF Switch, TypeOK, AccountRow, TablesMove
  <2> QED
    BY <1>0, <1>2, <2>1, AloneSweep DEF Switch, local, Alone
<1>3. ASSUME NEW a \in Account, Delete(a) PROVE Honest(s)' /\ OfPass(s)'
  <2>1. \A b \in Account : account'[b].there = (account[b].there /\ b # a)
    BY <1>0, <1>3 DEF Delete, TypeOK, AccountRow
  <2>2. \A x \in Resource : row'[x] = IF OwnerOf(x) = a THEN "absent" ELSE row[x]
    BY <1>3 DEF Delete
  <2>3. TablesMove
    BY <2>1, <2>2, OwnersAreAccounts DEF TablesMove
  <2> QED
    BY <1>0, <1>3, <2>3, AloneSweep DEF Delete, local, Alone
<1>4. ASSUME NEW a \in Account, NEW q \in Request, StartRequest(q, a)
      PROVE  Honest(s)' /\ OfPass(s)'
  <2>1. UNCHANGED <<scope, left, meter, todo, account, row>> /\ at[q] = NoAccount
    BY <1>4 DEF StartRequest, tables
  <2>2. CASE q # s
    <3>1. Alone(s)
      BY <1>0, <1>4, <2>1, <2>2 DEF StartRequest, TypeOK, Alone
    <3> QED
      BY <1>0, <2>1, <3>1, TablesStay, AloneSweep
  <2>3. CASE q = s
    <3>1. view'[s] = [account |-> account', row |-> row']
      BY <1>0, <1>4, <2>1, <2>3 DEF StartRequest, TypeOK
    <3>2. scopes'[s] = {a} \X RegionsOf(a, account) \X Category /\ at'[s] = a
      BY <1>0, <1>4, <2>3 DEF StartRequest, TypeOK
    <3>3. scope[s] = NoScope /\ left[s] = {} /\ meter[s] = {}
      BY <1>0, <2>1, <2>3, NothingInHand
    <3>4. \A sc \in scopes'[s] : sc[1] = at'[s]
      BY <3>2
    <3>5. Honest(s)'
      BY <3>1, OpenedHonest
    <3> QED
      BY <2>1, <3>3, <3>4, <3>5 DEF OfPass
  <2> QED
    BY <2>2, <2>3
<1>5. ASSUME NEW x \in Resource, Evolve(x) PROVE Honest(s)' /\ OfPass(s)'
  BY <1>0, <1>5, TablesStay, AloneSweep DEF Evolve, tables, local, Alone
<1> QED
  BY <1>1, <1>2, <1>3, <1>4, <1>5, AttendedAssumption DEF Owners

LEMMA UpsertSweep ==
  ASSUME SweepInv, NEW s \in Session, NEW x \in Resource, Upsert(s, x), ~ Broken(s)
  PROVE  Honest(s)' /\ OfPass(s)'
<1>0. TypeOK /\ OfPass(s)
  BY DEF SweepInv
<1>1. /\ x \in left[s] /\ Reopened(s)
      /\ row' = [row EXCEPT ![x] = Written(s, x)]
      /\ left' = [left EXCEPT ![s] = @ \ {x}]
      /\ meter' = [meter EXCEPT ![s] = IF Home[x][3] = Metered THEN {x} ELSE {}]
      /\ Writable(s, x)
      /\ UNCHANGED <<account, at, scopes, scope>>
  BY DEF Upsert
<1>2. view'[s] = [account |-> account', row |-> row']
  BY <1>0, <1>1 DEF Reopened, TypeOK
<1>3. Honest(s)'
  BY <1>2, OpenedHonest
<1>4. row'[x] # "absent"
  BY <1>0, <1>1 DEF Written, Writable, TypeOK
<1>5. meter'[s] \subseteq {x} /\ left'[s] \subseteq left[s]
  BY <1>0, <1>1 DEF TypeOK
<1>6. OwnerOf(x) = at[s]
  BY <1>0, <1>1 DEF OfPass
<1> QED
  BY <1>0, <1>1, <1>3, <1>4, <1>5, <1>6 DEF OfPass, OwnerOf

LEMMA CollectSweep ==
  ASSUME SweepInv, NEW s \in Session, NEW x \in Resource, Collect(s, x), ~ Broken(s)
  PROVE  Honest(s)' /\ OfPass(s)'
<1>0. TypeOK /\ Honest(s) /\ OfPass(s)
  BY DEF SweepInv
<1>1. /\ meter' = [meter EXCEPT ![s] = {}]
      /\ UNCHANGED <<account, row, todo, at, scopes, scope, left>>
      /\ view' = view \/ Reopened(s)
  BY DEF Collect, Unmetered, tables
<1>2. Honest(s)'
  <2>1. CASE view' = view
    BY <1>0, <1>1, <2>1, KeptHonest DEF Busy
  <2>2. CASE Reopened(s)
    <3>1. view'[s] = [account |-> account', row |-> row']
      BY <1>0, <2>2 DEF Reopened, TypeOK
    <3> QED
      BY <3>1, OpenedHonest
  <2> QED
    BY <1>1, <2>1, <2>2
<1>3. meter'[s] = {}
  BY <1>0, <1>1 DEF TypeOK
<1> QED
  BY <1>0, <1>1, <1>2, <1>3 DEF OfPass, OwnerOf

LEMMA FlipSweep ==
  ASSUME SweepInv, NEW s \in Session, Flip(s), ~ Broken(s)
  PROVE  Honest(s)' /\ OfPass(s)'
<1>0. TypeOK /\ Honest(s) /\ OfPass(s)
  BY DEF SweepInv
<1>1. /\ row' = [x \in Resource |-> IF x \in Stale(s) THEN "inactive" ELSE row[x]]
      /\ scope' = [scope EXCEPT ![s] = NoScope]
      /\ left[s] = {} /\ meter[s] = {}
      /\ UNCHANGED <<account, todo, at, scopes, left, meter>>
      /\ IF Stale(s) = {} THEN UNCHANGED view ELSE Reopened(s)
  BY DEF Flip
<1>2. Honest(s)'
  <2>1. CASE Stale(s) = {}
    <3>1. row' = row
      BY <1>0, <1>1, <2>1 DEF TypeOK
    <3> QED
      BY <1>0, <1>1, <2>1, <3>1, KeptHonest DEF Busy
  <2>2. CASE Stale(s) # {}
    <3>1. view'[s] = [account |-> account', row |-> row']
      BY <1>0, <1>1, <2>2 DEF Reopened, TypeOK
    <3> QED
      BY <3>1, OpenedHonest
  <2> QED
    BY <2>1, <2>2
<1>3. scope'[s] = NoScope
  BY <1>0, <1>1 DEF TypeOK
<1> QED
  BY <1>0, <1>1, <1>2, <1>3 DEF OfPass

LEMMA WorkSweep ==
  ASSUME SweepInv, NEW s \in Session, Work(s)
  PROVE  Honest(s)' /\ OfPass(s)'
<1>0. TypeOK /\ Honest(s) /\ OfPass(s)
  BY DEF SweepInv
<1>1. CASE Broken(s)
  BY <1>0, <1>1, BrokenSweep
<1>2. CASE StartSweep(s)
  <2>1. view'[s] = [account |-> account', row |-> row']
    BY <1>0, <1>2 DEF StartSweep, tables, TypeOK
  <2>2. Honest(s)'
    BY <2>1, OpenedHonest
  <2> QED
    BY <1>0, <1>2, <2>2 DEF StartSweep, tables, OfPass, OwnerOf
<1>3. CASE NotThere(s)
  BY <1>0, <1>3, BrokenSweep DEF NotThere
<1>4. CASE Flip(s) /\ ~ Broken(s)
  BY <1>4, FlipSweep
<1>5. CASE Finish(s) /\ ~ Broken(s)
  <2>1. /\ PassOver(s) /\ UNCHANGED <<account, row, todo>>
        /\ IF todo[s] = {} THEN view' = [view EXCEPT ![s] = Blank] ELSE Reopened(s)
    BY <1>5 DEF Finish
  <2>2. OfPass(s)' /\ at'[s] = NoAccount
    BY <1>0, <2>1, PassOverSweep
  <2>3. CASE todo[s] = {}
    BY <2>1, <2>2, <2>3 DEF Honest, Busy
  <2>4. CASE todo[s] # {}
    <3>1. view'[s] = [account |-> account', row |-> row']
      BY <1>0, <2>1, <2>4 DEF Reopened, TypeOK
    <3> QED
      BY <2>2, <3>1, OpenedHonest
  <2> QED
    BY <2>3, <2>4
<1>6. ASSUME NEW a \in Account, Visit(s, a) PROVE Honest(s)' /\ OfPass(s)'
  <2>1. at[s] = NoAccount /\ a \in todo[s] /\ UNCHANGED <<account, row, view, scope, left, meter>>
    BY <1>6 DEF Visit, tables
  <2>2. scope[s] = NoScope /\ left[s] = {} /\ meter[s] = {}
    BY <1>0, <2>1, NothingInHand
  <2>3. Honest(s)'
    BY <1>0, <2>1, KeptHonest DEF Busy
  <2>4. \A sc \in scopes'[s] : sc[1] = at'[s]
    <3> DEFINE regions == RegionsOf(a, view[s].account)
    <3>1. CASE regions = {}
      BY <1>0, <1>6, <3>1 DEF Visit, OfPass
    <3>2. CASE regions # {}
      <4>1. at' = [at EXCEPT ![s] = a] /\ scopes' = [scopes EXCEPT ![s] = {a} \X regions \X Category]
        BY <1>6, <3>2 DEF Visit
      <4>2. at'[s] = a /\ scopes'[s] = {a} \X regions \X Category
        BY <1>0, <4>1 DEF TypeOK
      <4> QED
        BY <4>2
    <3> QED
      BY <3>1, <3>2
  <2> QED
    BY <2>1, <2>2, <2>3, <2>4 DEF OfPass
<1>7. ASSUME NEW sc \in Scope, List(s, sc) PROVE Honest(s)' /\ OfPass(s)'
  <2>1. /\ at[s] # NoAccount /\ sc \in scopes[s]
        /\ UNCHANGED <<account, row, view, todo, at, meter>>
    BY <1>7 DEF List, tables
  <2>2. Honest(s)'
    BY <1>0, <2>1, KeptHonest DEF Busy
  <2>3. scopes'[s] \subseteq scopes[s] /\ scope'[s] = sc /\ left'[s] = Listed(sc)
    BY <1>0, <1>7 DEF List, TypeOK
  <2>4. sc[1] = at[s]
    BY <1>0, <2>1 DEF OfPass
  <2>5. \A x \in left'[s] : OwnerOf(x) = at[s]
    BY <2>3, <2>4 DEF Listed, OwnerOf
  <2> QED
    BY <1>0, <2>1, <2>2, <2>3, <2>4, <2>5 DEF OfPass, OwnerOf
<1>8. ASSUME NEW x \in Resource, Upsert(s, x) \/ Collect(s, x), ~ Broken(s)
      PROVE  Honest(s)' /\ OfPass(s)'
  BY <1>8, UpsertSweep, CollectSweep
<1> QED
  BY <1>1, <1>2, <1>3, <1>4, <1>5, <1>6, <1>7, <1>8 DEF Work

LEMMA TroubleSweep ==
  ASSUME SweepInv, NEW s \in Session, Trouble(s)
  PROVE  Honest(s)' /\ OfPass(s)'
<1>0. TypeOK /\ Honest(s) /\ OfPass(s)
  BY DEF SweepInv
<1>1. CASE Stumble(s)
  <2>1. PassOver(s) /\ UNCHANGED <<account, row, todo>> /\ at[s] # NoAccount
    BY <1>1 DEF Stumble, tables
  <2>2. OfPass(s)' /\ at'[s] = NoAccount
    BY <1>0, <2>1, PassOverSweep
  <2>3. CASE todo[s] = {}
    BY <2>1, <2>2, <2>3 DEF Honest, Busy
  <2>4. CASE todo[s] # {}
    <3>1. view'[s] = view[s]
      BY <1>0, <1>1, <2>4 DEF Stumble, TypeOK
    <3> QED
      BY <1>0, <2>1, <2>2, <3>1, KeptHonest DEF Busy
  <2> QED
    BY <2>3, <2>4
<1>2. ASSUME NEW sc \in Scope, ListFails(s, sc) PROVE Honest(s)' /\ OfPass(s)'
  <2>1. UNCHANGED <<account, row, view, todo, at, scope, left, meter>>
    BY <1>2 DEF ListFails, tables
  <2>2. Honest(s)'
    BY <1>0, <2>1, KeptHonest DEF Busy
  <2>3. scopes'[s] \subseteq scopes[s]
    BY <1>0, <1>2 DEF ListFails, TypeOK
  <2> QED
    BY <1>0, <2>1, <2>2, <2>3 DEF OfPass, OwnerOf
<1> QED
  BY <1>1, <1>2 DEF Trouble

LEMMA SweepInit == Init => SweepInv
<1> SUFFICES ASSUME Init PROVE SweepInv
  OBVIOUS
<1>1. \A s \in Session : Honest(s) /\ OfPass(s)
  BY DEF Init, Honest, Busy, OfPass
<1> QED
  BY <1>1, InitType DEF SweepInv

LEMMA SweepStep ==
  ASSUME SweepInv, [Next]_vars
  PROVE  SweepInv'
<1>0. TypeOK /\ \A t \in Session : Honest(t) /\ OfPass(t)
  BY DEF SweepInv
<1>1. CASE UNCHANGED vars
  <2>1. TypeOK' /\ TablesMove
    BY <1>0, <1>1, TablesStay DEF TypeOK, vars, tables, local
  <2>2. \A t \in Session : Alone(t)
    BY <1>1 DEF Alone, vars, local
  <2> QED
    BY <1>0, <2>1, <2>2, AloneSweep DEF SweepInv
<1>2. ASSUME NEW s \in Session, Work(s) PROVE SweepInv'
  <2>1. TypeOK'
    BY <1>0, <1>2, WorkType
  <2>2. ASSUME NEW t \in Session PROVE Honest(t)' /\ OfPass(t)'
    <3>1. CASE t = s
      BY <1>2, <3>1, WorkSweep
    <3>2. CASE t # s
      BY <1>0, <1>2, <3>2, WorkAlone, WorkTables, AloneSweep
    <3> QED
      BY <3>1, <3>2
  <2> QED
    BY <2>1, <2>2 DEF SweepInv
<1>3. ASSUME NEW s \in Session, Trouble(s) PROVE SweepInv'
  <2>1. TypeOK'
    BY <1>0, <1>3, TroubleType
  <2>2. TablesMove
    BY <1>3, TablesStay DEF Trouble, Stumble, ListFails, tables
  <2>3. ASSUME NEW t \in Session PROVE Honest(t)' /\ OfPass(t)'
    <3>1. CASE t = s
      BY <1>3, <3>1, TroubleSweep
    <3>2. CASE t # s
      BY <1>0, <1>3, <2>2, <3>2, TroubleAlone, AloneSweep
    <3> QED
      BY <3>1, <3>2
  <2> QED
    BY <2>1, <2>3 DEF SweepInv
<1>4. ASSUME (\E x \in Resource : Evolve(x)) \/ Owners PROVE SweepInv'
  BY <1>4, OutsideType, OutsideSweep DEF SweepInv
<1> QED
  BY <1>1, <1>2, <1>3, <1>4 DEF Next

\* Somebody deleted the account at work or one the sweep has still to visit.
Bereft(s) == \E b \in Account \cap (todo[s] \cup {at[s]}) : ~ account[b].there

\* A session breaks down only when it is bereft or overtaken.
LEMMA BrokenIsExcused ==
  ASSUME SweepInv, NEW s \in Session, Work(s), todo'[s] # todo[s],
         ~ StartSweep(s), \A a \in Account : ~ Visit(s, a)
  PROVE  Bereft(s) \/ Overtaken(s)
<1>0. TypeOK /\ Honest(s) /\ OfPass(s)
  BY DEF SweepInv
<1>1. ASSUME at[s] # NoAccount, ~ account[at[s]].there PROVE Bereft(s)
  BY <1>0, <1>1 DEF TypeOK, Bereft
<1>2. CASE NotThere(s)
  <2>1. PICK a \in todo[s] : ~ view[s].account[a].there
    BY <1>2 DEF NotThere
  <2>2. a \in Account
    BY <1>0, <2>1 DEF TypeOK
  <2> QED
    BY <1>0, <2>1, <2>2 DEF Honest, Busy, Bereft
<1>3. CASE Flip(s)
  <2>1. PICK x \in Stale(s) : row[x] = "absent"
    BY <1>3 DEF Flip
  <2>2. x \in Resource /\ Home[x] = scope[s] /\ scope[s] # NoScope /\ view[s].row[x] = "active"
    BY <1>3, <2>1 DEF Flip, Stale
  <2>3. OwnerOf(x) = at[s] /\ at[s] # NoAccount
    BY <1>0, <2>2, OwnersAreAccounts DEF OfPass, OwnerOf
  <2>4. ~ account[OwnerOf(x)].there
    BY <1>0, <2>1, <2>2, <2>3 DEF Honest, Busy
  <2> QED
    BY <1>1, <2>3, <2>4
<1>4. CASE Finish(s)
  BY <1>1, <1>4 DEF Finish
<1>5. ASSUME NEW x \in Resource, Upsert(s, x) PROVE Bereft(s) \/ Overtaken(s)
  <2>1. x \in left[s] /\ ~ Writable(s, x)
    BY <1>5 DEF Upsert
  <2>2. OwnerOf(x) = at[s] /\ at[s] # NoAccount
    BY <1>0, <2>1, OwnersAreAccounts DEF OfPass
  <2>3. CASE view[s].row[x] = "absent" /\ row[x] # "absent"
    BY <2>1, <2>3 DEF Overtaken
  <2>4. CASE ~ (view[s].row[x] = "absent" /\ row[x] # "absent")
    <3>1. ~ account[OwnerOf(x)].there
      BY <1>0, <2>1, <2>2, <2>4 DEF Honest, Busy, Writable
    <3> QED
      BY <1>1, <2>2, <3>1
  <2> QED
    BY <2>3, <2>4
<1>6. ASSUME NEW x \in Resource, Collect(s, x) PROVE Bereft(s)
  <2>1. x \in meter[s] /\ row[x] = "absent"
    BY <1>6 DEF Collect, Unmetered
  <2>2. OwnerOf(x) = at[s] /\ at[s] # NoAccount /\ ~ account[OwnerOf(x)].there
    BY <1>0, <2>1, OwnersAreAccounts DEF OfPass
  <2> QED
    BY <1>1, <2>2
<1>7. ASSUME NEW sc \in Scope, List(s, sc) PROVE FALSE
  BY <1>7 DEF List
<1> QED
  BY <1>2, <1>3, <1>4, <1>5, <1>6, <1>7 DEF Work

\* An account leaves the sweep only when it is visited or has no region, because
\* somebody deleted the account at work or one behind it, or because another
\* pass has inserted a row first: no failure of a call, and nothing else that
\* other passes do, costs an account its turn (discover_all).
THEOREM SweepNeverStops == Spec => SweepGoesOn
<1> DEFINE Step ==
      \A s \in Sweep : \A a \in todo[s] \ todo'[s] :
        \/ at'[s] = a
        \/ RegionsOf(a, view[s].account) = {}
        \/ \E b \in Account \cap (todo[s] \cup {at[s]}) : ~ account[b].there
        \/ Overtaken(s)
<1>1. SweepInv /\ [Next]_vars => SweepInv'
  BY SweepStep
<1>2. SweepInv /\ [Next]_vars => Step
  <2> SUFFICES ASSUME SweepInv, [Next]_vars, NEW s \in Sweep, NEW a \in todo[s] \ todo'[s]
               PROVE  \/ at'[s] = a
                      \/ RegionsOf(a, view[s].account) = {}
                      \/ Bereft(s)
                      \/ Overtaken(s)
    BY DEF Bereft
  <2>0. TypeOK /\ s \in Session /\ todo'[s] # todo[s]
    BY DEF SweepInv, Session
  <2>1. CASE \/ UNCHANGED vars \/ \E q \in Session : Trouble(q)
             \/ (\E x \in Resource : Evolve(x)) \/ Owners
    BY <2>0, <2>1 DEF vars, local, Trouble, Stumble, ListFails, Evolve, Owners, Select,
                      Switch, Delete, StartRequest
  <2>2. ASSUME NEW q \in Session, Work(q)
        PROVE  \/ at'[s] = a
               \/ RegionsOf(a, view[s].account) = {}
               \/ Bereft(s)
               \/ Overtaken(s)
    <3>1. q = s
      BY <2>0, <2>2, WorkAlone DEF Alone
    <3>2. ~ StartSweep(s)
      BY DEF StartSweep
    <3>3. ASSUME NEW b \in Account, Visit(s, b)
          PROVE  at'[s] = a \/ RegionsOf(a, view[s].account) = {}
      <4>1. todo'[s] = todo[s] \ {b}
        BY <2>0, <3>3 DEF Visit, TypeOK
      <4>2. a = b
        BY <4>1
      <4> QED
        BY <2>0, <3>3, <4>2 DEF Visit, TypeOK
    <3> QED
      BY <2>0, <2>2, <3>1, <3>2, <3>3, BrokenIsExcused
  <2> QED
    BY <2>1, <2>2 DEF Next
<1> QED
  BY SweepInit, <1>1, <1>2, PTL DEF Spec, SweepGoesOn

-----------------------------------------------------------------------------
(* The calls behind the listings.  A pass lists a scope in one step: List  *)
(* takes what the adapter returns for what is there.  ProviderCalls is     *)
(* that call page by page, attempt by attempt, for the same regions,       *)
(* categories and resources.  What follows holds for any number of         *)
(* requests beside each other, of listings, deployments and deletions.     *)

-----------------------------------------------------------------------------
(* Requests and what their course makes of them.                           *)

Outcome == {"none", "ok", "error", "THROTTLED", "escaped"}
Changing == {"deploy", "destroy"}
Underway == {"asking", "calling", "identity"}

\* What every step of a request keeps.
Same(c, d) ==
  /\ d.nr = c.nr /\ d.op = c.op /\ d.category = c.category /\ d.all = c.all
  /\ d.owed = c.owed

LEMMA ConcludedIs ==
  ASSUME NEW c \in ProviderRequest, NEW o \in Outcome
  PROVE  LET d == Concluded(c, o) IN
         /\ d \in ProviderRequest /\ Same(c, d)
         /\ d.outcome = o /\ d.target = c.target /\ d.got = c.got /\ d.skipped = c.skipped
         /\ d.region = c.region
         /\ d.at = IF c.op \in Changing /\ o # "escaped" THEN "audit" ELSE "answered"
<1> DEFINE a == IF c.op \in Changing /\ o # "escaped" THEN "audit" ELSE "answered"
<1>1. Concluded(c, o) = [c EXCEPT !.outcome = o, !.at = a]
  BY DEF Concluded, Recorded, Changing
<1>2. a \in {"audit", "answered"}
  OBVIOUS
<1> HIDE DEF a
<1>3. [c EXCEPT !.outcome = o, !.at = a] \in ProviderRequest
  BY <1>2 DEF ProviderRequest, Outcome
<1>4. LET d == [c EXCEPT !.outcome = o, !.at = a] IN
        /\ Same(c, d) /\ d.region = c.region
        /\ d.outcome = o /\ d.target = c.target /\ d.got = c.got /\ d.skipped = c.skipped
        /\ d.at = a
  BY DEF ProviderRequest, Same
<1> QED BY <1>1, <1>3, <1>4 DEF a

LEMMA OnwardsIs ==
  ASSUME NEW c \in ProviderRequest, NEW d \in Onwards(c)
  PROVE  /\ d \in ProviderRequest /\ Same(c, d)
         /\ d.got = c.got /\ d.skipped = c.skipped
         /\ \/ c.todo = {} /\ d = Concluded(c, "ok")
            \/ /\ d.region \in c.todo /\ d.todo = c.todo \ {d.region}
               /\ d.page = {} /\ d.at = c.at /\ d.outcome = c.outcome
<1>1. CASE c.todo = {}
  <2>1. d = Concluded(c, "ok")
    BY <1>1 DEF Onwards
  <2> QED BY <1>1, <2>1, ConcludedIs DEF Outcome
<1>2. CASE c.todo # {}
  <2>1. PICK r \in c.todo : d = [c EXCEPT !.region = r, !.todo = @ \ {r}, !.attempt = 1, !.page = {}]
    BY <1>2 DEF Onwards
  <2>2. c.todo \subseteq Region /\ 1 \in 1..MaxAttempts
    BY DEF ProviderRequest, MaxAttempts
  <2>3. d \in ProviderRequest
    BY <2>1, <2>2 DEF ProviderRequest
  <2> QED BY <2>1, <2>3 DEF ProviderRequest, Same
<1> QED BY <1>1, <1>2

LEMMA RaisedIs ==
  ASSUME NEW c, NEW f
  PROVE  /\ Raised(c, f) \in {"error", "THROTTLED", "escaped"}
         /\ c.op \notin {"regions", "test"} => Raised(c, f) \in {"error", "escaped"}
BY DEF Raised

\* A region is skipped.
LEMMA SkippedIs ==
  ASSUME NEW c \in ProviderRequest, c.region \in Region
  PROVE  LET d == [c EXCEPT !.skipped = @ \cup {c.region}] IN
         /\ d \in ProviderRequest /\ Same(c, d) /\ d.skipped = c.skipped \cup {c.region}
         /\ d.got = c.got /\ d.todo = c.todo /\ d.at = c.at /\ d.outcome = c.outcome
BY DEF ProviderRequest, Same

\* A region's pages are in.
LEMMA GotIs ==
  ASSUME NEW c \in ProviderRequest, NEW page \in SUBSET Resource, c.region \in Region
  PROVE  LET d == [c EXCEPT !.got = @ \cup (page \X {c.region})] IN
         /\ d \in ProviderRequest /\ Same(c, d) /\ d.skipped = c.skipped
         /\ d.got = c.got \cup (page \X {c.region})
         /\ d.todo = c.todo /\ d.at = c.at /\ d.outcome = c.outcome
BY DEF ProviderRequest, Same

\* A resource the request need not show any longer.
LEMMA MissedIs ==
  ASSUME NEW c \in ProviderRequest, NEW r
  PROVE  LET d == [c EXCEPT !.owed = @ \ {r}] IN
         /\ d \in ProviderRequest /\ d.owed = c.owed \ {r}
         /\ d.nr = c.nr /\ d.op = c.op /\ d.category = c.category /\ d.all = c.all
         /\ d.todo = c.todo /\ d.region = c.region /\ d.target = c.target /\ d.at = c.at
         /\ d.done = c.done /\ d.page = c.page /\ d.got = c.got /\ d.skipped = c.skipped
         /\ d.outcome = c.outcome
BY DEF ProviderRequest

LEMMA RequestsAreNotIdle ==
  ASSUME NEW c \in ProviderRequest
  PROVE  c # Idle
<1>1. c.op \in {"regions", "test", "list", "deploy", "destroy"} /\ Idle.op = "none"
  BY DEF ProviderRequest, Idle
<1> QED BY <1>1

-----------------------------------------------------------------------------
(* What is true of a request.  D and A are the tables did and audit, S the *)
(* stock, and L the lists of the adapter.                                  *)

There(S, r) == S[r] \notin {NotYet, Gone}
Paged(L, c) == c.category \in DOMAIN L /\ L[c.category].paged
Scoped(L, c) == L[c.category].scoped
Shown(c, r) == \E p \in c.got : p[1] = r

\* Where a request may be, and what it may be about.
Course(c) ==
  /\ c.at \in {"asking", "identity"} => c.op = "test"
  /\ c.at \in Underway => c.outcome = "none"
  /\ c.at = "audit" => c.op \in Changing /\ c.outcome \in {"ok", "error"}
  /\ c.op = "deploy" => c.region \in Region /\ c.category \in Provisionable
  /\ c.op = "destroy" => c.target \in Resource
  /\ c.op # "list" => c.got = {} /\ c.owed = {}
  /\ c.all => c.op = "list"

\* What a request has changed: nothing but an interface before its last answer;
\* what it calls a success has happened; and once it has answered, a row says so.
Ledger(c, D, A) ==
  /\ c.op \notin Changing => \A d \in D : d[1] # c.nr
  /\ c.at \in Underway => \A d \in D : d[1] = c.nr => d[3] = "prepared" /\ c.done = 1
  /\ c.at = "audit" /\ c.outcome = "ok" =>
       <<c.nr, c.target, IF c.op = "deploy" THEN "created" ELSE "destroyed">> \in D
  /\ c.at = "answered" /\ c.op \in Changing /\ c.outcome # "escaped" =>
       \E line \in A : line.nr = c.nr /\ line.op = c.op /\ line.resource = c.target /\ line.outcome = c.outcome

\* What was there all along is shown, or in one of the given regions.
Accounted(c, regions, S, L) ==
  Paged(L, c) =>
    \A r \in c.owed : \/ S[r].region \in regions
                      \/ ~ c.all /\ S[r].region # c.region
                      \/ Shown(c, r)

\* r is, or was, in region as far as the adapter looks.
Belongs(r, region, c, S, L) ==
  /\ S[r] # NotYet
  /\ Scoped(L, c) /\ There(S, r) => S[r].region = region

\* The region in hand is neither among those to come nor among those over.
InHand(c, S, L) ==
  /\ c.region \in Region
  /\ c.region \notin c.todo \cup c.skipped
  /\ c.todo \cap c.skipped = {}
  /\ \A p \in c.got : p[2] \notin c.todo \cup {c.region}
  /\ ~ c.all => c.todo = {}
  /\ \A r \in c.page : Belongs(r, c.region, c, S, L)
  /\ Accounted(c, c.todo \cup {c.region} \cup c.skipped, S, L)

\* What a listing has shown, and what it has still to show.
Listing(c, S, L) ==
  /\ \A r \in c.owed : There(S, r) /\ S[r].category = c.category
  /\ \A p \in c.got : p[2] \notin c.skipped /\ Belongs(p[1], p[2], c, S, L)
  /\ c.at = "calling" => InHand(c, S, L)
  /\ c.outcome = "ok" => Accounted(c, c.skipped, S, L)

Good(c, D, A, S, L) ==
  Course(c) /\ Ledger(c, D, A) /\ (c.op = "list" => Listing(c, S, L))

\* The inductive invariant.
CallInv ==
  /\ contract \in [provider : Provider, keys : SUBSET {"always", "storage"}]
  /\ stock \in [Resource -> Thing \cup {NotYet, Gone}]
  /\ call \in [Slot -> ProviderRequest \cup {Idle}]
  /\ audit \subseteq [nr : 1..MaxRequests, op : {"deploy", "destroy"},
                      resource : Resource \cup {Nowhere}, outcome : {"ok", "error"}]
  /\ did \subseteq (1..MaxRequests) \X Resource \X {"created", "prepared", "destroyed"}
  /\ served \in 0..MaxRequests
  /\ \A s \in Slot : call[s] # Idle =>
       call[s].nr <= served /\ Good(call[s], did, audit, stock, Adapter.lists)
  /\ \A s, t \in Slot : s # t /\ call[s] # Idle /\ call[t] # Idle => call[s].nr # call[t].nr
  /\ \A d \in did : d[1] <= served
  /\ \A line \in audit : line.outcome = "ok" =>
       <<line.nr, line.resource, IF line.op = "deploy" THEN "created" ELSE "destroyed">> \in did
  /\ NothingTwice

\* The properties follow.
LEMMA InvGivesTypes ==
  ASSUME CallInv
  PROVE  CallsTypeOK
<1>1. ASSUME NEW s \in Slot, call[s] # Idle, NEW p \in call[s].got
      PROVE  p[2] \notin call[s].skipped
  BY <1>1 DEF CallInv, Good, Course, Listing
<1> QED BY <1>1 DEF CallInv, CallsTypeOK

LEMMA InvGivesAudit ==
  ASSUME CallInv
  PROVE  AuditIsTrue
<1>1. ASSUME NEW s \in Slot, NEW c, c = call[s], c # Idle, c.at = "answered",
             c.op \in {"deploy", "destroy"}, c.outcome # "escaped"
      PROVE  \E line \in audit : line.nr = c.nr /\ line.op = c.op /\ line.resource = c.target /\ line.outcome = c.outcome
  BY <1>1 DEF CallInv, Good, Ledger, Changing
<1> QED BY <1>1 DEF CallInv, AuditIsTrue

LEMMA InvGivesListings ==
  ASSUME CallInv
  PROVE  ListingsAreExact
<1> SUFFICES ASSUME NEW s \in Slot, call[s] # Idle, call[s].op = "list"
             PROVE  ListingsAreComplete(call[s]) /\ ListedWhereItIs(call[s])
  BY DEF ListingsAreExact
<1> DEFINE c == call[s]
<1>1. Listing(c, stock, Adapter.lists)
  BY DEF CallInv, Good
<1> HIDE DEF c
<1>2. ListingsAreComplete(c)
  <2> SUFFICES ASSUME c.outcome = "ok", NEW r \in c.owed,
                      c.category \in DOMAIN Adapter.lists, Lister(c).paged
               PROVE  \/ stock[r].region \in c.skipped
                      \/ ~ c.all /\ stock[r].region # c.region
                      \/ \E p \in c.got : p[1] = r
    BY DEF ListingsAreComplete
  <2>1. Paged(Adapter.lists, c)
    BY DEF Paged, Lister
  <2> QED BY <1>1, <2>1 DEF Listing, Accounted, Shown
<1>3. ListedWhereItIs(c)
  BY <1>1 DEF Listing, Belongs, ListedWhereItIs, Lister, Scoped, Exists, There
<1> QED BY <1>2, <1>3 DEF c

-----------------------------------------------------------------------------
(* What the rest of the world may do to a request.                         *)

LEMMA StockIs ==
  /\ Gone # NotYet
  /\ \A x \in Thing : x # NotYet /\ x # Gone
<1>1. Gone.gone = TRUE /\ NotYet.gone = FALSE
  BY DEF Gone, NotYet
<1>2. ASSUME NEW x \in Thing
      PROVE  x # NotYet /\ x # Gone
  <2>1. DOMAIN x = {"category", "region"}
    BY DEF Thing
  <2>2. DOMAIN NotYet = {"gone"} /\ DOMAIN Gone = {"gone"}
    BY DEF NotYet, Gone
  <2> QED BY <2>1, <2>2
<1> QED BY <1>1, <1>2

\* What others do is not in a request's ledger.
LEMMA LedgerKept ==
  ASSUME NEW c, NEW D, NEW A, NEW D2, NEW A2, Ledger(c, D, A),
         D \subseteq D2, A \subseteq A2, \A e \in D2 : e \in D \/ e[1] # c.nr
  PROVE  Ledger(c, D2, A2)
<1>1. ASSUME c.op \notin Changing
      PROVE  \A d \in D2 : d[1] # c.nr
  BY <1>1 DEF Ledger
<1>2. ASSUME c.at \in Underway, NEW d \in D2, d[1] = c.nr
      PROVE  d[3] = "prepared" /\ c.done = 1
  BY <1>2 DEF Ledger
<1>3. ASSUME c.at = "audit", c.outcome = "ok"
      PROVE  <<c.nr, c.target, IF c.op = "deploy" THEN "created" ELSE "destroyed">> \in D2
  BY <1>3 DEF Ledger
<1>4. ASSUME c.at = "answered", c.op \in Changing, c.outcome # "escaped"
      PROVE  \E line \in A2 : line.nr = c.nr /\ line.op = c.op /\ line.resource = c.target /\ line.outcome = c.outcome
  BY <1>4 DEF Ledger
<1> QED BY <1>1, <1>2, <1>3, <1>4 DEF Ledger

\* What is created is in no listing under way, and none must show it.
LEMMA ListingCreated ==
  ASSUME NEW c \in ProviderRequest, NEW S \in [Resource -> Thing \cup {NotYet, Gone}], NEW L,
         NEW r \in Resource, S[r] = NotYet, NEW x \in Thing, Listing(c, S, L)
  PROVE  Listing(c, [S EXCEPT ![r] = x], L)
<1> DEFINE T == [S EXCEPT ![r] = x]
<1>1. \A q \in Resource : q # r => T[q] = S[q]
  OBVIOUS
<1> HIDE DEF T
<1>2. c.owed \subseteq Resource /\ c.page \subseteq Resource
      /\ \A p \in c.got : p[1] \in Resource
  BY DEF ProviderRequest
<1>3. \A q \in c.owed : q # r /\ T[q] = S[q]
  BY <1>1, <1>2 DEF Listing, There
<1>4. ASSUME NEW q \in Resource, NEW region, Belongs(q, region, c, S, L)
      PROVE  Belongs(q, region, c, T, L)
  BY <1>1, <1>4 DEF Belongs, There
<1>5. \A regions : Accounted(c, regions, S, L) => Accounted(c, regions, T, L)
  BY <1>3 DEF Accounted
<1>6. \A q \in c.owed : There(T, q) /\ T[q].category = c.category
  BY <1>3 DEF Listing, There
<1>7. \A p \in c.got : p[2] \notin c.skipped /\ Belongs(p[1], p[2], c, T, L)
  BY <1>2, <1>4 DEF Listing
<1>8. InHand(c, S, L) => InHand(c, T, L)
  BY <1>2, <1>4, <1>5 DEF InHand
<1>9. Listing(c, T, L)
  BY <1>5, <1>6, <1>7, <1>8 DEF Listing
<1> QED BY <1>9 DEF T

\* What is destroyed need not be shown any longer.
LEMMA ListingDestroyed ==
  ASSUME NEW c \in ProviderRequest, NEW S \in [Resource -> Thing \cup {NotYet, Gone}], NEW L,
         NEW r \in Resource, There(S, r), Listing(c, S, L)
  PROVE  Listing([c EXCEPT !.owed = @ \ {r}], [S EXCEPT ![r] = Gone], L)
<1> DEFINE T == [S EXCEPT ![r] = Gone]
           d == [c EXCEPT !.owed = @ \ {r}]
<1>1. /\ \A q \in Resource : q # r => T[q] = S[q]
      /\ T[r] = Gone
  OBVIOUS
<1>2. /\ d.owed = c.owed \ {r} /\ d.category = c.category /\ d.all = c.all /\ d.todo = c.todo
      /\ d.region = c.region /\ d.at = c.at /\ d.page = c.page /\ d.got = c.got
      /\ d.skipped = c.skipped /\ d.outcome = c.outcome
  BY MissedIs
<1> HIDE DEF T, d
<1>3. c.owed \subseteq Resource /\ c.page \subseteq Resource
      /\ \A p \in c.got : p[1] \in Resource
  BY DEF ProviderRequest
<1>4. \A q \in d.owed : q \in c.owed /\ T[q] = S[q]
  BY <1>1, <1>2, <1>3
<1>5. ASSUME NEW q \in Resource, NEW region, Belongs(q, region, c, S, L)
      PROVE  Belongs(q, region, d, T, L)
  BY <1>1, <1>2, <1>5, StockIs DEF Belongs, There, Scoped
<1>6. ASSUME NEW regions, Accounted(c, regions, S, L)
      PROVE  Accounted(d, regions, T, L)
  BY <1>2, <1>4, <1>6 DEF Accounted, Paged, Shown
<1>7. \A q \in d.owed : There(T, q) /\ T[q].category = d.category
  BY <1>2, <1>4 DEF Listing, There
<1>8. \A p \in d.got : p[2] \notin d.skipped /\ Belongs(p[1], p[2], d, T, L)
  BY <1>2, <1>3, <1>5 DEF Listing
<1>9. InHand(c, S, L) => InHand(d, T, L)
  <2> SUFFICES ASSUME InHand(c, S, L)
               PROVE  InHand(d, T, L)
    OBVIOUS
  <2>1. Accounted(d, c.todo \cup {c.region} \cup c.skipped, T, L)
    BY <1>6 DEF InHand
  <2>2. \A q \in c.page : Belongs(q, c.region, d, T, L)
    BY <1>3, <1>5 DEF InHand
  <2> QED BY <1>2, <2>1, <2>2 DEF InHand
<1>10. c.outcome = "ok" => Accounted(d, c.skipped, T, L)
  BY <1>6 DEF Listing
<1>11. Listing(d, T, L)
  BY <1>2, <1>7, <1>8, <1>9, <1>10 DEF Listing
<1> QED BY <1>11 DEF T, d

-----------------------------------------------------------------------------
(* What a request makes of itself.                                         *)

\* Between two regions: everything is shown, over, or still to come.
Between(c, S, L) ==
  /\ \A r \in c.owed : There(S, r) /\ S[r].category = c.category
  /\ \A p \in c.got : p[2] \notin c.skipped /\ Belongs(p[1], p[2], c, S, L)
  /\ c.todo \cap c.skipped = {}
  /\ \A p \in c.got : p[2] \notin c.todo
  /\ ~ c.all => c.todo = {}
  /\ Accounted(c, c.todo \cup c.skipped, S, L)

\* A listing goes on with a region of those to come, or has them all.
LEMMA OnwardsKeeps ==
  ASSUME NEW c \in ProviderRequest, NEW D, NEW A, NEW S, NEW L, NEW d \in Onwards(c),
         c.op = "list", c.at = "calling", c.outcome = "none",
         \A e \in D : e[1] # c.nr, Between(c, S, L)
  PROVE  d \in ProviderRequest /\ d.nr = c.nr /\ Good(d, D, A, S, L)
<1>1. /\ d \in ProviderRequest /\ Same(c, d)
      /\ d.got = c.got /\ d.skipped = c.skipped
  BY OnwardsIs
<1>2. d.nr = c.nr /\ d.op = "list" /\ d.category = c.category /\ d.all = c.all /\ d.owed = c.owed
  BY <1>1 DEF Same
<1>3. /\ \A r \in d.owed : There(S, r) /\ S[r].category = d.category
      /\ \A p \in d.got : p[2] \notin d.skipped /\ Belongs(p[1], p[2], d, S, L)
  BY <1>1, <1>2 DEF Between, Belongs, Scoped
<1>4. CASE c.todo = {} /\ d = Concluded(c, "ok")
  <2>1. d.at = "answered" /\ d.outcome = "ok" /\ d.region = c.region
    BY <1>4, ConcludedIs DEF Outcome, Changing
  <2>2. Accounted(c, c.skipped, S, L)
    BY <1>4 DEF Between
  <2>3. Accounted(d, d.skipped, S, L)
    BY <1>1, <1>2, <2>1, <2>2 DEF Accounted, Paged, Shown
  <2>4. Listing(d, S, L)
    BY <1>3, <2>1, <2>3 DEF Listing
  <2>5. Course(d) /\ Ledger(d, D, A)
    BY <1>2, <2>1 DEF Course, Ledger, Changing, Underway
  <2> QED BY <1>1, <1>2, <2>4, <2>5 DEF Good
<1>5. CASE /\ d.region \in c.todo /\ d.todo = c.todo \ {d.region}
           /\ d.page = {} /\ d.at = c.at /\ d.outcome = c.outcome
  <2>1. c.todo \subseteq Region /\ c.all = TRUE
    BY <1>5 DEF Between, ProviderRequest
  <2>2. d.todo \cup {d.region} = c.todo
    BY <1>5
  <2>3. Accounted(c, c.todo \cup c.skipped, S, L)
    BY DEF Between
  <2>4. Accounted(d, d.todo \cup {d.region} \cup d.skipped, S, L)
    BY <1>1, <1>2, <2>1, <2>2, <2>3 DEF Accounted, Paged, Shown
  <2>5. InHand(d, S, L)
    BY <1>1, <1>2, <1>5, <2>1, <2>2, <2>4 DEF InHand, Between
  <2>6. Listing(d, S, L)
    BY <1>3, <1>5, <2>5 DEF Listing
  <2>7. Course(d) /\ Ledger(d, D, A)
    BY <1>2, <1>5 DEF Course, Ledger, Changing, Underway
  <2> QED BY <1>1, <1>2, <2>6, <2>7 DEF Good
<1> QED BY <1>4, <1>5, OnwardsIs

\* A request that fails with an error, or that changes nothing and succeeds.
LEMMA ConcludedKeeps ==
  ASSUME NEW c \in ProviderRequest, NEW D, NEW A, NEW S, NEW L, NEW o \in Outcome \ {"none"},
         Good(c, D, A, S, L),
         c.op = "list" => o # "ok",
         c.op \in Changing => o \in {"error", "escaped"}
  PROVE  LET d == Concluded(c, o) IN
         d \in ProviderRequest /\ d.nr = c.nr /\ Good(d, D, A, S, L)
<1> DEFINE d == Concluded(c, o)
<1>1. /\ d \in ProviderRequest /\ Same(c, d)
      /\ d.outcome = o /\ d.target = c.target /\ d.got = c.got /\ d.skipped = c.skipped
      /\ d.region = c.region
      /\ d.at = IF c.op \in Changing /\ o # "escaped" THEN "audit" ELSE "answered"
  BY ConcludedIs
<1> HIDE DEF d
<1>2. d.nr = c.nr /\ d.op = c.op /\ d.category = c.category /\ d.all = c.all /\ d.owed = c.owed
  BY <1>1 DEF Same
<1>3. Course(d)
  BY <1>1, <1>2 DEF Good, Course, Underway, Outcome
<1>4. Ledger(d, D, A)
  BY <1>1, <1>2 DEF Good, Ledger, Underway, Changing
<1>5. ASSUME c.op = "list"
      PROVE  Listing(d, S, L)
  <2>1. Listing(c, S, L) /\ d.outcome # "ok" /\ d.at # "calling"
    BY <1>1, <1>5 DEF Good, Changing
  <2> QED BY <1>1, <1>2, <2>1 DEF Listing, Belongs, Scoped
<1> QED BY <1>1, <1>2, <1>3, <1>4, <1>5 DEF Good, d

-----------------------------------------------------------------------------
(* The steps that change nothing but the request.                          *)

Quiet(s) ==
  /\ \E d \in ProviderRequest : /\ call' = [call EXCEPT ![s] = d]
                                /\ d.nr = call[s].nr
                                /\ Good(d, did, audit, stock, Adapter.lists)
  /\ UNCHANGED <<contract, stock, audit, did, served>>

\* Idle is no stage of a request.
LEMMA BusyIsGood ==
  ASSUME CallInv, NEW s \in Slot, call[s] # Idle
  PROVE  /\ call[s] \in ProviderRequest /\ call[s].nr <= served
         /\ Good(call[s], did, audit, stock, Adapter.lists)
BY DEF CallInv

LEMMA FailIsQuiet ==
  ASSUME CallInv, NEW s \in Slot, NEW f \in Fault, Fail(s, f)
  PROVE  Quiet(s)
<1> DEFINE c == call[s]
           L == Adapter.lists
<1>1. c \in ProviderRequest /\ Good(c, did, audit, stock, L) /\ c.at \in Underway
  BY BusyIsGood DEF Fail, Underway
<1>2. UNCHANGED <<contract, stock, audit, did, served>>
  BY DEF Fail
<1>3. CASE MayRetry(c, f)
  <2> DEFINE d == [c EXCEPT !.attempt = IF @ < MaxAttempts THEN @ + 1 ELSE @, !.page = {}]
  <2>1. call' = [call EXCEPT ![s] = d]
    BY <1>3 DEF Fail, CallInv
  <2>2. c.attempt \in 1..3 /\ MaxAttempts = 3
    BY <1>1 DEF ProviderRequest, MaxAttempts
  <2>3. (IF c.attempt < MaxAttempts THEN c.attempt + 1 ELSE c.attempt) \in 1..MaxAttempts
    BY <2>2
  <2>4. d \in ProviderRequest
    BY <1>1, <2>3 DEF ProviderRequest
  <2>5. /\ d.owed = c.owed /\ d.category = c.category /\ d.all = c.all /\ d.todo = c.todo
        /\ d.region = c.region /\ d.at = c.at /\ d.page = {} /\ d.got = c.got
        /\ d.skipped = c.skipped /\ d.outcome = c.outcome /\ d.nr = c.nr /\ d.op = c.op
        /\ d.target = c.target /\ d.done = c.done
    BY <1>1 DEF ProviderRequest
  <2> HIDE DEF d, c, L
  <2>6. Course(d) /\ Ledger(d, did, audit)
    BY <1>1, <2>5 DEF Good, Course, Ledger
  <2>7. ASSUME c.op = "list"
        PROVE  Listing(d, stock, L)
    <3>1. Listing(c, stock, L)
      BY <1>1, <2>7 DEF Good
    <3>2. \A regions : Accounted(c, regions, stock, L) => Accounted(d, regions, stock, L)
      BY <2>5 DEF Accounted, Paged, Shown
    <3>3. InHand(c, stock, L) => InHand(d, stock, L)
      BY <2>5, <3>2 DEF InHand
    <3> QED BY <2>5, <3>1, <3>2, <3>3 DEF Listing, Belongs, Scoped
  <2>8. Good(d, did, audit, stock, L)
    BY <2>5, <2>6, <2>7 DEF Good
  <2> QED BY <1>2, <2>1, <2>4, <2>5, <2>8 DEF Quiet, c, L
<1>4. CASE ~ MayRetry(c, f) /\ Forgiven(c, f)
  <2>1. call' = [call EXCEPT ![s] = Concluded(c, "ok")]
    BY <1>4 DEF Fail
  <2>2. c.op = "test"
    BY <1>1, <1>4 DEF Forgiven, Good, Course
  <2> HIDE DEF c, L
  <2>3. /\ Concluded(c, "ok") \in ProviderRequest /\ Concluded(c, "ok").nr = c.nr
        /\ Good(Concluded(c, "ok"), did, audit, stock, L)
    BY <1>1, <2>2, ConcludedKeeps DEF Outcome, Changing
  <2> QED BY <1>2, <2>1, <2>3 DEF Quiet, c, L
<1>5. CASE ~ MayRetry(c, f) /\ ~ Forgiven(c, f)
  <2> DEFINE o == Raised(c, f)
  <2>1. PICK d \in Afterwards(c, o) : call' = [call EXCEPT ![s] = d]
    BY <1>5 DEF Fail
  <2>2. o \in {"error", "THROTTLED", "escaped"}
        /\ (c.op \notin {"regions", "test"} => o \in {"error", "escaped"})
    BY RaisedIs
  <2> HIDE DEF o, c, L
  <2>3. d \in ProviderRequest /\ d.nr = c.nr /\ Good(d, did, audit, stock, L)
    <3>1. CASE c.op = "list" /\ c.all /\ o # "escaped"
      <4> DEFINE e == [c EXCEPT !.skipped = @ \cup {c.region}]
      <4>1. d \in Onwards(e)
        BY <2>1, <3>1 DEF Afterwards
      <4>2. c.at = "calling" /\ c.outcome = "none" /\ Listing(c, stock, L)
        BY <1>1, <3>1 DEF Good, Course, Underway
      <4>3. InHand(c, stock, L)
        BY <4>2 DEF Listing
      <4>4. /\ e \in ProviderRequest /\ Same(c, e) /\ e.skipped = c.skipped \cup {c.region}
            /\ e.got = c.got /\ e.todo = c.todo /\ e.at = c.at /\ e.outcome = c.outcome
        BY <1>1, <4>3, SkippedIs DEF InHand
      <4>5. e.region = c.region
        BY <1>1 DEF ProviderRequest
      <4> HIDE DEF e
      <4>6. e.nr = c.nr /\ e.op = c.op /\ e.category = c.category /\ e.all = c.all /\ e.owed = c.owed
        BY <4>4 DEF Same
      <4>7. Accounted(e, e.todo \cup e.skipped, stock, L)
        <5>1. Accounted(c, c.todo \cup {c.region} \cup c.skipped, stock, L)
          BY <4>3 DEF InHand
        <5>2. e.todo \cup e.skipped = c.todo \cup {c.region} \cup c.skipped
          BY <4>4
        <5> QED BY <4>4, <4>5, <4>6, <5>1, <5>2 DEF Accounted, Paged, Shown
      <4>8. Between(e, stock, L)
        <5>1. /\ \A r \in e.owed : There(stock, r) /\ stock[r].category = e.category
              /\ ~ e.all => e.todo = {}
          BY <4>2, <4>3, <4>4, <4>6 DEF Listing, InHand
        <5>2. \A p \in e.got : p[2] \notin e.skipped /\ Belongs(p[1], p[2], e, stock, L)
          BY <4>2, <4>3, <4>4, <4>6 DEF Listing, InHand, Belongs, Scoped
        <5>3. e.todo \cap e.skipped = {} /\ \A p \in e.got : p[2] \notin e.todo
          BY <4>3, <4>4 DEF InHand
        <5> QED BY <4>7, <5>1, <5>2, <5>3 DEF Between
      <4>9. \A x \in did : x[1] # e.nr
        BY <1>1, <3>1, <4>6 DEF Good, Ledger, Changing
      <4> QED BY <3>1, <4>1, <4>2, <4>4, <4>6, <4>8, <4>9, OnwardsKeeps
    <3>2. CASE ~ (c.op = "list" /\ c.all /\ o # "escaped")
      <4>1. d = Concluded(c, o)
        BY <2>1, <3>2 DEF Afterwards
      <4>2. c.op \in Changing => o \in {"error", "escaped"}
        BY <2>2 DEF Changing
      <4> QED BY <1>1, <2>2, <4>1, <4>2, ConcludedKeeps DEF Outcome
    <3> QED BY <3>1, <3>2
  <2> QED BY <1>2, <2>1, <2>3 DEF Quiet, c, L
<1> QED BY <1>3, <1>4, <1>5

LEMMA FetchIsQuiet ==
  ASSUME CallInv, NEW s \in Slot, Fetch(s)
  PROVE  Quiet(s)
<1> DEFINE c == call[s]
           L == Adapter.lists
<1>1. /\ c.op = "list" /\ c.at = "calling"
      /\ UNCHANGED <<contract, stock, audit, did, served>>
  BY DEF Fetch
<1>2. c # Idle
  BY <1>1 DEF Idle
<1>3. c \in ProviderRequest /\ Good(c, did, audit, stock, L)
  BY <1>2, BusyIsGood
<1>4. c.outcome = "none" /\ Listing(c, stock, L) /\ InHand(c, stock, L)
  BY <1>1, <1>3 DEF Good, Course, Listing, Underway
<1>5. c.page \subseteq Resource /\ c.region \in Region
  BY <1>3, <1>4 DEF ProviderRequest, InHand
<1>6. PICK new \in SUBSET (InScope(c) \ c.page) :
        LET page == c.page \cup new  rest == InScope(c) \ page IN
        IF LastPage(c, rest)
        THEN \E d \in Onwards([c EXCEPT !.got = @ \cup (page \X {c.region})]) :
               call' = [call EXCEPT ![s] = d]
        ELSE call' = [call EXCEPT ![s].page = page]
  BY DEF Fetch
<1> DEFINE page == c.page \cup new
           rest == InScope(c) \ page
<1>7. page \in SUBSET Resource
  BY <1>5 DEF InScope
<1>8. \A r \in page : Belongs(r, c.region, c, stock, L)
  <2>1. \A r \in InScope(c) : /\ stock[r] # NotYet
                              /\ Scoped(L, c) => stock[r].region = c.region
    BY DEF InScope, Exists, Lister, Scoped
  <2> QED BY <1>4, <2>1 DEF InHand, Belongs
<1>9. CASE LastPage(c, rest)
  <2> DEFINE e == [c EXCEPT !.got = @ \cup (page \X {c.region})]
  <2>1. PICK d \in Onwards(e) : call' = [call EXCEPT ![s] = d]
    BY <1>6, <1>9
  <2>2. Paged(L, c) => InScope(c) \subseteq page
    BY <1>9 DEF LastPage, Lister, Paged
  <2>3. \A r \in c.owed : stock[r].region = c.region => r \in InScope(c)
    <3>1. c.owed \subseteq Resource
      BY <1>3 DEF ProviderRequest
    <3> QED BY <1>4, <3>1 DEF Listing, There, InScope, Exists
  <2> HIDE DEF page, rest, L
  <2>4. /\ e \in ProviderRequest /\ Same(c, e) /\ e.skipped = c.skipped
        /\ e.got = c.got \cup (page \X {c.region})
        /\ e.todo = c.todo /\ e.at = c.at /\ e.outcome = c.outcome
    BY <1>3, <1>5, <1>7, GotIs
  <2>5. e.region = c.region
    BY <1>3 DEF ProviderRequest
  <2> HIDE DEF e, c
  <2>6. e.nr = c.nr /\ e.op = c.op /\ e.category = c.category /\ e.all = c.all /\ e.owed = c.owed
    BY <2>4 DEF Same
  <2>7. ASSUME NEW p \in e.got
        PROVE  /\ p[2] \notin e.skipped /\ p[2] \notin e.todo
               /\ Belongs(p[1], p[2], e, stock, L)
    <3>1. p \in c.got \/ p \in page \X {c.region}
      BY <2>4
    <3>2. CASE p \in c.got
      BY <1>4, <2>4, <2>6, <3>2 DEF Listing, InHand, Belongs, Scoped
    <3>3. CASE p \in page \X {c.region}
      <4>1. p[1] \in page /\ p[2] = c.region
        BY <3>3
      <4> QED BY <1>4, <1>8, <2>4, <2>6, <4>1 DEF InHand, Belongs, Scoped
    <3> QED BY <3>1, <3>2, <3>3
  <2>8. Accounted(e, e.todo \cup e.skipped, stock, L)
    <3> SUFFICES ASSUME Paged(L, c), NEW r \in c.owed
                 PROVE  \/ stock[r].region \in c.todo \cup c.skipped
                        \/ ~ c.all /\ stock[r].region # c.region
                        \/ Shown(e, r)
      BY <2>4, <2>5, <2>6 DEF Accounted, Paged
    <3>1. \/ stock[r].region \in c.todo \cup {c.region} \cup c.skipped
          \/ ~ c.all /\ stock[r].region # c.region
          \/ Shown(c, r)
      BY <1>4 DEF InHand, Accounted
    <3>2. ASSUME stock[r].region = c.region
          PROVE  Shown(e, r)
      <4>1. r \in page
        BY <2>2, <2>3, <3>2
      <4>2. <<r, c.region>> \in e.got
        BY <2>4, <4>1
      <4> QED BY <4>2 DEF Shown
    <3>3. Shown(c, r) => Shown(e, r)
      BY <2>4 DEF Shown
    <3> QED BY <3>1, <3>2, <3>3
  <2>9. Between(e, stock, L)
    <3>1. /\ \A r \in e.owed : There(stock, r) /\ stock[r].category = e.category
          /\ e.todo \cap e.skipped = {}
          /\ ~ e.all => e.todo = {}
      BY <1>4, <2>4, <2>6 DEF Listing, InHand
    <3> QED BY <2>7, <2>8, <3>1 DEF Between
  <2>10. \A x \in did : x[1] # e.nr
    BY <1>1, <1>3, <2>6 DEF Good, Ledger, Changing
  <2>11. d \in ProviderRequest /\ d.nr = c.nr /\ Good(d, did, audit, stock, L)
    BY <1>1, <1>4, <2>1, <2>4, <2>6, <2>9, <2>10, OnwardsKeeps
  <2> QED BY <1>1, <2>1, <2>11 DEF Quiet, c, L
<1>10. CASE ~ LastPage(c, rest)
  <2> DEFINE d == [c EXCEPT !.page = page]
  <2>1. call' = [call EXCEPT ![s] = d]
    BY <1>6, <1>10
  <2> HIDE DEF page, rest, L
  <2>2. d \in ProviderRequest
    BY <1>3, <1>7 DEF ProviderRequest
  <2>3. /\ d.owed = c.owed /\ d.category = c.category /\ d.all = c.all /\ d.todo = c.todo
        /\ d.region = c.region /\ d.at = c.at /\ d.page = page /\ d.got = c.got
        /\ d.skipped = c.skipped /\ d.outcome = c.outcome /\ d.nr = c.nr /\ d.op = c.op
        /\ d.target = c.target /\ d.done = c.done
    BY <1>3 DEF ProviderRequest
  <2> HIDE DEF d, c
  <2>4. Course(d) /\ Ledger(d, did, audit)
    BY <1>3, <2>3 DEF Good, Course, Ledger
  <2>5. \A regions : Accounted(c, regions, stock, L) => Accounted(d, regions, stock, L)
    BY <2>3 DEF Accounted, Paged, Shown
  <2>6. \A r, region : Belongs(r, region, c, stock, L) => Belongs(r, region, d, stock, L)
    BY <2>3 DEF Belongs, Scoped
  <2>7. InHand(d, stock, L)
    BY <1>4, <1>8, <2>3, <2>5, <2>6 DEF InHand
  <2>8. Listing(d, stock, L)
    BY <1>4, <2>3, <2>6, <2>7 DEF Listing
  <2>9. Good(d, did, audit, stock, L)
    BY <2>4, <2>8 DEF Good
  <2> QED BY <1>1, <2>1, <2>2, <2>3, <2>9 DEF Quiet, c, L
<1> QED BY <1>9, <1>10

LEMMA ReplyIsQuiet ==
  ASSUME CallInv, NEW s \in Slot, Reply(s)
  PROVE  Quiet(s)
<1> DEFINE c == call[s]
           L == Adapter.lists
<1>1. /\ c.op \in {"regions", "test"} /\ c.at \in Underway
      /\ UNCHANGED <<contract, stock, audit, did, served>>
  BY DEF Reply, Underway
<1>2. c # Idle
  BY <1>1 DEF Idle
<1>3. c \in ProviderRequest /\ Good(c, did, audit, stock, L)
  BY <1>2, BusyIsGood
<1>4. PICK known \in BOOLEAN :
        call' = [call EXCEPT ![s] =
         CASE c.at = "asking" -> [c EXCEPT !.at = "calling"]
           [] c.at = "calling" /\ c.op = "test" /\ ~ known -> Concluded(c, "error")
           [] c.at = "calling" /\ c.op = "test" /\ Adapter.identity # {} ->
                [c EXCEPT !.at = "identity", !.done = 1]
           [] OTHER -> Concluded(c, "ok")]
  BY DEF Reply
<1> DEFINE d == CASE c.at = "asking" -> [c EXCEPT !.at = "calling"]
                  [] c.at = "calling" /\ c.op = "test" /\ ~ known -> Concluded(c, "error")
                  [] c.at = "calling" /\ c.op = "test" /\ Adapter.identity # {} ->
                       [c EXCEPT !.at = "identity", !.done = 1]
                  [] OTHER -> Concluded(c, "ok")
           asked == [c EXCEPT !.at = "calling"]
           proven == [c EXCEPT !.at = "identity", !.done = 1]
<1>5. \/ d = Concluded(c, "error") \/ d = Concluded(c, "ok")
      \/ d = asked
      \/ c.op = "test" /\ d = proven
  <2> DEFINE unknown == c.at = "calling" /\ c.op = "test" /\ ~ known
             next == c.at = "calling" /\ c.op = "test" /\ Adapter.identity # {}
  <2>1. CASE c.at = "asking"
    BY <2>1
  <2>2. CASE c.at # "asking" /\ unknown
    BY <2>2
  <2>3. CASE c.at # "asking" /\ ~ unknown /\ next
    BY <2>3
  <2>4. CASE c.at # "asking" /\ ~ unknown /\ ~ next
    BY <2>4
  <2> HIDE DEF unknown, next
  <2> QED BY <2>1, <2>2, <2>3, <2>4
<1>6. asked \in ProviderRequest /\ proven \in ProviderRequest
  <2>1. 1 \in 0..1
    OBVIOUS
  <2>2. asked \in ProviderRequest
    BY <1>3 DEF ProviderRequest
  <2>3. [c EXCEPT !.at = "identity"] \in ProviderRequest
    BY <1>3 DEF ProviderRequest
  <2>4. \A e \in ProviderRequest : [e EXCEPT !.done = 1] \in ProviderRequest
    BY <2>1 DEF ProviderRequest
  <2> QED BY <2>2, <2>3, <2>4
<1>7. /\ \A e \in {asked, proven} : /\ e.nr = c.nr /\ e.op = c.op /\ e.all = c.all
                                    /\ e.got = c.got /\ e.owed = c.owed
                                    /\ e.outcome = c.outcome
      /\ asked.at = "calling" /\ proven.at = "identity"
  BY <1>3 DEF ProviderRequest
<1>8. call' = [call EXCEPT ![s] = d]
  BY <1>4
<1> HIDE DEF d, asked, proven, L, c
<1>9. ASSUME NEW e \in {asked, proven}, d = e, e = asked \/ c.op = "test"
      PROVE  d \in ProviderRequest /\ d.nr = c.nr /\ Good(d, did, audit, stock, L)
  <2>1. d \in ProviderRequest
    BY <1>6, <1>9
  <2>2. /\ d.nr = c.nr /\ d.op = c.op /\ d.all = c.all
        /\ d.got = c.got /\ d.owed = c.owed /\ d.outcome = c.outcome
        /\ d.at \in {"calling", "identity"} /\ (d.at = "identity" => c.op = "test")
    BY <1>7, <1>9
  <2>3. Course(d) /\ Ledger(d, did, audit)
    BY <1>1, <1>3, <2>2 DEF Good, Course, Ledger, Changing, Underway
  <2> QED BY <1>1, <2>1, <2>2, <2>3 DEF Good
<1>10. ASSUME NEW o \in {"ok", "error"}, d = Concluded(c, o)
       PROVE  d \in ProviderRequest /\ d.nr = c.nr /\ Good(d, did, audit, stock, L)
  BY <1>1, <1>3, <1>10, ConcludedKeeps DEF Outcome, Changing
<1>11. d \in ProviderRequest /\ d.nr = c.nr /\ Good(d, did, audit, stock, L)
  BY <1>5, <1>9, <1>10
<1> QED BY <1>1, <1>8, <1>11 DEF Quiet, c, L

-----------------------------------------------------------------------------
(* What the others have of a step.                                         *)

LEMMA GoodKept ==
  ASSUME NEW c, NEW D, NEW A, NEW D2, NEW A2, NEW S, NEW L, Good(c, D, A, S, L),
         D \subseteq D2, A \subseteq A2, \A e \in D2 : e \in D \/ e[1] # c.nr
  PROVE  Good(c, D2, A2, S, L)
<1>1. Ledger(c, D, A)
  BY DEF Good
<1>2. Ledger(c, D2, A2)
  BY <1>1, LedgerKept
<1> QED BY <1>2 DEF Good

LEMMA GoodCreated ==
  ASSUME NEW c \in ProviderRequest, NEW D, NEW A, NEW S \in [Resource -> Thing \cup {NotYet, Gone}],
         NEW L, NEW r \in Resource, S[r] = NotYet, NEW x \in Thing, Good(c, D, A, S, L)
  PROVE  Good(c, D, A, [S EXCEPT ![r] = x], L)
BY ListingCreated DEF Good

LEMMA GoodDestroyed ==
  ASSUME NEW c \in ProviderRequest, NEW D, NEW A, NEW S \in [Resource -> Thing \cup {NotYet, Gone}],
         NEW L, NEW r \in Resource, There(S, r), Good(c, D, A, S, L)
  PROVE  Good([c EXCEPT !.owed = @ \ {r}], D, A, [S EXCEPT ![r] = Gone], L)
<1> DEFINE d == [c EXCEPT !.owed = @ \ {r}]
           T == [S EXCEPT ![r] = Gone]
<1>1. c.op = "list" => Listing(d, T, L)
  BY ListingDestroyed DEF Good
<1>2. /\ d \in ProviderRequest /\ d.owed = c.owed \ {r}
      /\ d.nr = c.nr /\ d.op = c.op /\ d.category = c.category /\ d.all = c.all
      /\ d.region = c.region /\ d.target = c.target /\ d.at = c.at
      /\ d.done = c.done /\ d.got = c.got /\ d.outcome = c.outcome
  BY MissedIs
<1> HIDE DEF d, T
<1>3. Course(d) /\ Ledger(d, D, A)
  BY <1>2 DEF Good, Course, Ledger
<1>4. Good(d, D, A, T, L)
  BY <1>1, <1>2, <1>3 DEF Good
<1> QED BY <1>4 DEF d, T

\* Nothing becomes of the stock, or one thing more.
Grows(S, T) ==
  \/ T = S
  \/ \E r \in Resource, x \in Thing : S[r] = NotYet /\ T = [S EXCEPT ![r] = x]

TypesOf(S, D, A, n) ==
  /\ S \in [Resource -> Thing \cup {NotYet, Gone}]
  /\ A \subseteq [nr : 1..MaxRequests, op : {"deploy", "destroy"},
                  resource : Resource \cup {Nowhere}, outcome : {"ok", "error"}]
  /\ D \subseteq (1..MaxRequests) \X Resource \X {"created", "prepared", "destroyed"}
  /\ n \in 0..MaxRequests

RowsAreTrue(D, A) ==
  \A line \in A : line.outcome = "ok" =>
    <<line.nr, line.resource, IF line.op = "deploy" THEN "created" ELSE "destroyed">> \in D

\* One request takes a step, and the tables grow by what it does.
LEMMA OneChanges ==
  ASSUME CallInv, NEW s \in Slot, NEW d \in ProviderRequest, call' = [call EXCEPT ![s] = d],
         contract' = contract, TypesOf(stock', did', audit', served'), Grows(stock, stock'),
         served <= served', d.nr <= served',
         \A t \in Slot : t # s /\ call[t] # Idle => call[t].nr # d.nr,
         did \subseteq did', \A e \in did' : e \in did \/ e[1] = d.nr,
         audit \subseteq audit', RowsAreTrue(did', audit'), NothingTwice',
         Good(d, did', audit', stock', Adapter.lists)
  PROVE  CallInv'
<1>1. Adapter' = Adapter
  BY DEF Adapter
<1>2. call \in [Slot -> ProviderRequest \cup {Idle}] /\ call' \in [Slot -> ProviderRequest \cup {Idle}]
  BY DEF CallInv
<1>3. call'[s] = d /\ \A t \in Slot : t # s => call'[t] = call[t]
  BY <1>2
<1>4. served \in Nat /\ served' \in Nat /\ d.nr \in Nat
      /\ \A t \in Slot : call[t] # Idle => call[t].nr \in Nat
  BY <1>2 DEF CallInv, TypesOf, ProviderRequest
<1>5. ASSUME NEW t \in Slot, t # s, call[t] # Idle
      PROVE  call[t].nr <= served' /\ Good(call[t], did', audit', stock', Adapter.lists)
  <2>1. /\ call[t] \in ProviderRequest /\ call[t].nr <= served
        /\ Good(call[t], did, audit, stock, Adapter.lists)
    BY <1>5, BusyIsGood
  <2>2. call[t].nr <= served'
    BY <1>4, <1>5, <2>1
  <2>3. Good(call[t], did', audit', stock, Adapter.lists)
    BY <1>5, <2>1, GoodKept
  <2>4. Good(call[t], did', audit', stock', Adapter.lists)
    <3>1. CASE stock' = stock
      BY <2>3, <3>1
    <3>2. CASE \E r \in Resource, x \in Thing : stock[r] = NotYet /\ stock' = [stock EXCEPT ![r] = x]
      <4>1. stock \in [Resource -> Thing \cup {NotYet, Gone}]
        BY DEF CallInv
      <4>2. PICK r \in Resource : \E x \in Thing :
              stock[r] = NotYet /\ stock' = [stock EXCEPT ![r] = x]
        BY <3>2
      <4>3. PICK x \in Thing : stock[r] = NotYet /\ stock' = [stock EXCEPT ![r] = x]
        BY <4>2
      <4> DEFINE c == call[t]  L == Adapter.lists
      <4>4. c \in ProviderRequest /\ Good(c, did', audit', stock, L)
        BY <2>1, <2>3
      <4> HIDE DEF c, L
      <4>5. Good(c, did', audit', [stock EXCEPT ![r] = x], L)
        BY <4>1, <4>3, <4>4, GoodCreated
      <4> QED BY <4>3, <4>5 DEF c, L
    <3> QED BY <3>1, <3>2 DEF Grows
  <2> QED BY <2>2, <2>4
<1>6. \A t \in Slot : call'[t] # Idle =>
        call'[t].nr <= served' /\ Good(call'[t], did', audit', stock', Adapter'.lists)
  BY <1>1, <1>3, <1>5
<1>7. \A t, u \in Slot : t # u /\ call'[t] # Idle /\ call'[u] # Idle => call'[t].nr # call'[u].nr
  BY <1>3 DEF CallInv
<1>8. \A e \in did' : e[1] <= served'
  <2>1. ASSUME NEW e \in did'
        PROVE  e[1] <= served'
    <3>1. CASE e \in did
      <4>1. e[1] <= served /\ e[1] \in 1..MaxRequests
        BY <3>1 DEF CallInv
      <4> QED BY <1>4, <4>1
    <3>2. CASE e \notin did
      BY <2>1, <3>2
    <3> QED BY <3>1, <3>2
  <2> QED BY <2>1
<1>9. /\ contract' \in [provider : Provider, keys : SUBSET {"always", "storage"}]
      /\ TypesOf(stock', did', audit', served') /\ RowsAreTrue(did', audit') /\ NothingTwice'
  BY DEF CallInv
<1> QED BY <1>2, <1>6, <1>7, <1>8, <1>9 DEF CallInv, TypesOf, RowsAreTrue

-----------------------------------------------------------------------------
(* Every step keeps the invariant.                                         *)

LEMMA QuietKeeps ==
  ASSUME CallInv, NEW s \in Slot, call[s] # Idle, Quiet(s)
  PROVE  CallInv'
<1>1. PICK d \in ProviderRequest : /\ call' = [call EXCEPT ![s] = d]
                                   /\ d.nr = call[s].nr
                                   /\ Good(d, did, audit, stock, Adapter.lists)
  BY DEF Quiet
<1>2. contract' = contract /\ stock' = stock /\ audit' = audit /\ did' = did /\ served' = served
  BY DEF Quiet
<1>3. served \in Nat
  BY DEF CallInv
<1>4. TypesOf(stock', did', audit', served') /\ RowsAreTrue(did', audit') /\ NothingTwice'
  BY <1>2 DEF CallInv, TypesOf, RowsAreTrue, NothingTwice
<1>5. d.nr <= served' /\ served <= served'
      /\ \A t \in Slot : t # s /\ call[t] # Idle => call[t].nr # d.nr
  BY <1>1, <1>2, <1>3 DEF CallInv
<1>6. Grows(stock, stock') /\ did \subseteq did' /\ audit \subseteq audit'
      /\ (\A e \in did' : e \in did \/ e[1] = d.nr)
      /\ Good(d, did', audit', stock', Adapter.lists)
  BY <1>1, <1>2 DEF Grows
<1> QED BY <1>1, <1>2, <1>4, <1>5, <1>6, OneChanges

\* A slot is free again.
LEMMA FreeKeeps ==
  ASSUME CallInv, NEW s \in Slot, call' = [call EXCEPT ![s] = Idle],
         UNCHANGED <<contract, stock, audit, did, served>>
  PROVE  CallInv'
<1>1. Adapter' = Adapter
  BY DEF Adapter
<1>2. call \in [Slot -> ProviderRequest \cup {Idle}]
  BY DEF CallInv
<1>3. /\ call' \in [Slot -> ProviderRequest \cup {Idle}] /\ call'[s] = Idle
      /\ \A t \in Slot : t # s => call'[t] = call[t]
  BY <1>2
<1>4. \A t \in Slot : call'[t] # Idle => t # s /\ call'[t] = call[t]
  BY <1>3
<1>5. /\ contract' = contract /\ stock' = stock /\ audit' = audit /\ did' = did /\ served' = served
      /\ NothingTwice'
  BY DEF CallInv, NothingTwice
<1> QED BY <1>1, <1>3, <1>4, <1>5 DEF CallInv

LEMMA AuditKeeps ==
  ASSUME CallInv, NEW s \in Slot, Audit(s)
  PROVE  CallInv'
<1> DEFINE c == call[s]
           d == [c EXCEPT !.at = "answered"]
           line == [nr |-> c.nr, op |-> c.op, resource |-> c.target, outcome |-> c.outcome]
           L == Adapter.lists
<1>1. /\ c # Idle /\ c.at = "audit" /\ audit' = audit \cup {line}
      /\ contract' = contract /\ stock' = stock /\ did' = did /\ served' = served
  BY DEF Audit
<1>2. c \in ProviderRequest /\ c.nr <= served /\ Good(c, did, audit, stock, L)
  BY <1>1, BusyIsGood
<1>3. call' = [call EXCEPT ![s] = d]
  BY DEF Audit, CallInv
<1>4. /\ d \in ProviderRequest /\ d.nr = c.nr /\ d.op = c.op /\ d.category = c.category
      /\ d.region = c.region /\ d.target = c.target /\ d.at = "answered" /\ d.got = c.got
      /\ d.owed = c.owed /\ d.all = c.all /\ d.outcome = c.outcome /\ d.done = c.done
  BY <1>2 DEF ProviderRequest
<1>5. c.op \in Changing /\ c.outcome \in {"ok", "error"} /\ c.op # "list"
  BY <1>1, <1>2 DEF Good, Course, Changing
<1>6. line \in [nr : 1..MaxRequests, op : {"deploy", "destroy"},
               resource : Resource \cup {Nowhere}, outcome : {"ok", "error"}]
  <2>1. c.nr \in 1..MaxRequests /\ c.target \in Resource \cup {Nowhere}
    BY <1>2 DEF ProviderRequest
  <2> QED BY <1>5, <2>1 DEF Changing
<1>7. line.nr = c.nr /\ line.op = c.op /\ line.resource = c.target /\ line.outcome = c.outcome
  OBVIOUS
<1>8. c.outcome = "ok" =>
        <<c.nr, c.target, IF c.op = "deploy" THEN "created" ELSE "destroyed">> \in did
  BY <1>1, <1>2 DEF Good, Ledger
<1> HIDE DEF line, d, c, L
<1>9. TypesOf(stock', did', audit', served') /\ NothingTwice'
  BY <1>1, <1>6 DEF CallInv, TypesOf, NothingTwice
<1>10. RowsAreTrue(did', audit')
  <2>1. RowsAreTrue(did, audit)
    BY DEF CallInv, RowsAreTrue
  <2>2. line.outcome = "ok" =>
          <<line.nr, line.resource, IF line.op = "deploy" THEN "created" ELSE "destroyed">> \in did
    BY <1>7, <1>8
  <2> QED BY <1>1, <2>1, <2>2 DEF RowsAreTrue
<1>11. Good(d, did', audit', stock', L)
  <2>1. Course(d)
    BY <1>2, <1>4 DEF Good, Course, Underway
  <2>2. line \in audit' /\ line.nr = d.nr /\ line.op = d.op /\ line.resource = d.target /\ line.outcome = d.outcome
    BY <1>1, <1>4, <1>7
  <2>3. Ledger(d, did', audit')
    BY <1>4, <1>5, <2>2 DEF Ledger, Underway
  <2> QED BY <1>4, <1>5, <2>1, <2>3 DEF Good
<1>12. served \in Nat
  BY DEF CallInv
<1>13. d.nr <= served' /\ served <= served'
  BY <1>1, <1>2, <1>4, <1>12
<1>14. \A t \in Slot : t # s /\ call[t] # Idle => call[t].nr # d.nr
  BY <1>1, <1>4 DEF CallInv, c
<1>15. Grows(stock, stock') /\ did \subseteq did' /\ audit \subseteq audit'
       /\ (\A e \in did' : e \in did \/ e[1] = d.nr)
  BY <1>1 DEF Grows
<1> QED BY <1>1, <1>3, <1>4, <1>9, <1>10, <1>11, <1>13, <1>14, <1>15, OneChanges DEF L

\* A machine is new to the ledger, and so is an interface.
LEMMA CreateKeeps ==
  ASSUME CallInv, NEW s \in Slot, NEW r \in Resource, NEW f, Create(s, r, f)
  PROVE  CallInv'
<1> DEFINE c == call[s]
           thing == [category |-> Part(c), region |-> c.region]
           e == <<c.nr, r, IF Part(c) = "interface" THEN "prepared" ELSE "created">>
           L == Adapter.lists
           lost == Concluded(c, Raised(c, f))
           ready == [c EXCEPT !.done = 1]
           after == [c EXCEPT !.target = r]
           made == Concluded(after, "ok")
<1>1. /\ c.op = "deploy" /\ c.at = "calling" /\ stock[r] = NotYet
      /\ stock' = [stock EXCEPT ![r] = thing] /\ did' = did \cup {e}
      /\ contract' = contract /\ audit' = audit /\ served' = served
  BY DEF Create
<1>2. c # Idle
  BY <1>1 DEF Idle
<1>3. c \in ProviderRequest /\ c.nr <= served /\ Good(c, did, audit, stock, L)
  BY <1>2, BusyIsGood
<1>4. ~ MayRetry(c, f)
  BY <1>1 DEF MayRetry, Tried
<1>5. thing.category = Part(c)
  OBVIOUS
<1>6. \/ call' = [call EXCEPT ![s] = lost]
      \/ Part(c) = "interface" /\ call' = [call EXCEPT ![s] = ready]
      \/ Part(c) # "interface" /\ call' = [call EXCEPT ![s] = made]
  <2> DEFINE again == [c EXCEPT !.attempt = @ + 1]
             lone == Part(c) = "interface"
             next == CASE f # "none" -> IF MayRetry(c, f) THEN again ELSE lost
                       [] thing.category = "interface" -> ready
                       [] OTHER -> made
  <2>1. call' = [call EXCEPT ![s] = next]
    BY DEF Create
  <2>2. \/ next = lost
        \/ lone /\ next = ready
        \/ ~ lone /\ next = made
    <3> HIDE DEF again, lost, ready, made
    <3>1. CASE f # "none"
      BY <1>4, <3>1
    <3>2. CASE f = "none" /\ lone
      BY <1>5, <3>2
    <3>3. CASE f = "none" /\ ~ lone
      BY <1>5, <3>3
    <3> QED BY <3>1, <3>2, <3>3
  <2> HIDE DEF next, lost, ready, made
  <2> QED BY <2>1, <2>2
<1>7. c.region \in Region /\ c.category \in Category /\ c.category # "interface"
  BY <1>1, <1>3 DEF Good, Course, Provisionable
<1>8. Part(c) \in Category \cup {"interface"} /\ (Part(c) = "interface" => c.done = 0)
  BY <1>7 DEF Part
<1>9. thing \in Thing
  BY <1>7, <1>8 DEF Thing
<1>10. Raised(c, f) \in {"error", "escaped"}
  BY <1>1, RaisedIs
<1>11. c.nr \in 1..MaxRequests
  BY <1>3 DEF ProviderRequest
<1>12. e[1] = c.nr /\ e[2] = r /\ e[3] = IF Part(c) = "interface" THEN "prepared" ELSE "created"
  OBVIOUS
<1>13. \A x \in did : x[1] = c.nr => x[3] = "prepared" /\ c.done = 1
  BY <1>1, <1>3 DEF Good, Ledger, Underway
<1> HIDE DEF thing, L
<1>14. TypesOf(stock', did', audit', served')
  <2>1. e \in (1..MaxRequests) \X Resource \X {"created", "prepared", "destroyed"}
    BY <1>11
  <2> QED BY <1>1, <1>9, <2>1 DEF CallInv, TypesOf
<1> HIDE DEF e
<1>15. NothingTwice'
  <2>1. ASSUME NEW x \in did, x[1] = e[1], x[3] = e[3]
        PROVE  FALSE
    BY <1>8, <1>12, <1>13, <2>1
  <2>2. \A x, y \in did : x[1] = y[1] /\ x[3] = y[3] => x = y
    BY DEF CallInv, NothingTwice
  <2> QED BY <1>1, <2>1, <2>2 DEF NothingTwice
<1>16. RowsAreTrue(did', audit')
  BY <1>1 DEF CallInv, RowsAreTrue
<1>17. PICK d \in ProviderRequest : /\ call' = [call EXCEPT ![s] = d] /\ d.nr = c.nr
                                    /\ Good(d, did', audit', stock', L)
  <2>1. CASE call' = [call EXCEPT ![s] = lost]
    <3> DEFINE o == Raised(c, f)
    <3> HIDE DEF c, o
    <3>0. o \in Outcome
      BY <1>10 DEF Outcome, o
    <3>1. /\ Concluded(c, o) \in ProviderRequest /\ Same(c, Concluded(c, o))
          /\ Concluded(c, o).outcome = o /\ Concluded(c, o).got = c.got
          /\ Concluded(c, o).region = c.region
          /\ Concluded(c, o).at = IF c.op \in Changing /\ o # "escaped" THEN "audit" ELSE "answered"
      BY <1>3, <3>0, ConcludedIs
    <3> HIDE DEF lost
    <3>2. lost = Concluded(c, o)
      BY DEF lost, o
    <3>3. lost.nr = c.nr /\ lost.op = "deploy" /\ lost.category = c.category
          /\ lost.all = c.all /\ lost.owed = c.owed /\ lost.got = c.got /\ lost.region = c.region
          /\ lost.outcome = o /\ lost.at = IF o # "escaped" THEN "audit" ELSE "answered"
      BY <1>1, <3>1, <3>2 DEF Same, Changing
    <3>4. Course(lost)
      BY <1>1, <1>3, <1>10, <3>3 DEF Good, Course, Underway, Changing, o
    <3>5. Ledger(lost, did', audit')
      BY <1>10, <3>3 DEF Ledger, Underway, Changing, o
    <3> QED BY <2>1, <3>1, <3>2, <3>3, <3>4, <3>5 DEF Good
  <2>2. CASE Part(c) = "interface" /\ call' = [call EXCEPT ![s] = ready]
    <3>1. 1 \in 0..1
      OBVIOUS
    <3>2. ready \in ProviderRequest
      BY <1>3, <3>1 DEF ProviderRequest
    <3>3. /\ ready.nr = c.nr /\ ready.op = c.op /\ ready.category = c.category
          /\ ready.region = c.region /\ ready.target = c.target /\ ready.at = c.at
          /\ ready.all = c.all /\ ready.owed = c.owed /\ ready.got = c.got
          /\ ready.outcome = c.outcome /\ ready.done = 1
      BY <1>3 DEF ProviderRequest
    <3> HIDE DEF ready, c
    <3>4. Course(ready)
      BY <1>3, <3>3 DEF Good, Course
    <3>5. \A x \in did' : x[1] = c.nr => x[3] = "prepared"
      BY <1>1, <1>12, <1>13, <2>2
    <3>6. Ledger(ready, did', audit')
      BY <1>1, <3>3, <3>5 DEF Ledger, Underway, Changing
    <3> QED BY <1>1, <2>2, <3>2, <3>3, <3>4, <3>6 DEF Good
  <2>3. CASE Part(c) # "interface" /\ call' = [call EXCEPT ![s] = made]
    <3>1. after \in ProviderRequest
      BY <1>3 DEF ProviderRequest
    <3>2. /\ after.nr = c.nr /\ after.op = c.op /\ after.category = c.category
          /\ after.region = c.region /\ after.target = r
          /\ after.all = c.all /\ after.owed = c.owed /\ after.got = c.got
      BY <1>3 DEF ProviderRequest
    <3> HIDE DEF after, c
    <3>3. /\ made \in ProviderRequest /\ Same(after, made) /\ made.outcome = "ok"
          /\ made.target = after.target /\ made.got = after.got /\ made.region = after.region
          /\ made.at = IF after.op \in Changing /\ "ok" # "escaped" THEN "audit" ELSE "answered"
      BY <3>1, ConcludedIs DEF Outcome
    <3> HIDE DEF made
    <3>4. /\ made.nr = c.nr /\ made.op = "deploy" /\ made.category = c.category
          /\ made.all = c.all /\ made.owed = c.owed /\ made.got = c.got
          /\ made.region = c.region /\ made.target = r /\ made.at = "audit"
      BY <1>1, <3>2, <3>3 DEF Same, Changing
    <3>5. Course(made)
      BY <1>1, <1>3, <3>3, <3>4 DEF Good, Course, Underway, Changing
    <3>6. <<c.nr, r, "created">> \in did'
      BY <1>1, <2>3 DEF e
    <3>7. Ledger(made, did', audit')
      BY <3>4, <3>6 DEF Ledger, Underway, Changing
    <3> QED BY <2>3, <3>3, <3>4, <3>5, <3>7 DEF Good
  <2> QED BY <1>6, <2>1, <2>2, <2>3
<1>18. served \in Nat
  BY DEF CallInv
<1>19. d.nr <= served' /\ served <= served'
  BY <1>1, <1>3, <1>17, <1>18
<1>20. \A t \in Slot : t # s /\ call[t] # Idle => call[t].nr # d.nr
  BY <1>2, <1>17 DEF CallInv
<1> HIDE DEF c
<1>21. did \subseteq did' /\ audit \subseteq audit' /\ \A x \in did' : x \in did \/ x[1] = d.nr
  BY <1>1, <1>12, <1>17
<1>22. Grows(stock, stock')
  BY <1>1, <1>9 DEF Grows
<1> QED BY <1>1, <1>14, <1>15, <1>16, <1>17, <1>19, <1>20, <1>21, <1>22, OneChanges DEF L

\* What is destroyed is missed by all in the same way.
LEMMA MissedKeeps ==
  ASSUME CallInv, NEW r \in Resource, Exists(r), NEW t \in Slot
  PROVE  /\ Missed(r)[t] \in ProviderRequest \cup {Idle}
         /\ call[t] = Idle => Missed(r)[t] = Idle
         /\ call[t] # Idle =>
              /\ Missed(r)[t] = [call[t] EXCEPT !.owed = @ \ {r}]
              /\ Missed(r)[t] \in ProviderRequest /\ Missed(r)[t].nr = call[t].nr
              /\ Good(Missed(r)[t], did, audit, [stock EXCEPT ![r] = Gone], Adapter.lists)
<1> DEFINE c == call[t]
           d == [c EXCEPT !.owed = @ \ {r}]
           L == Adapter.lists
<1>1. Missed(r)[t] = IF c = Idle THEN Idle ELSE d
  BY DEF Missed
<1>2. CASE c = Idle
  BY <1>1, <1>2
<1>3. CASE c # Idle
  <2>1. c \in ProviderRequest /\ Good(c, did, audit, stock, L)
    BY <1>3, BusyIsGood
  <2>2. stock \in [Resource -> Thing \cup {NotYet, Gone}] /\ There(stock, r)
    BY DEF CallInv, Exists, There
  <2> HIDE DEF c, L
  <2>3. d \in ProviderRequest /\ d.nr = c.nr
    BY <2>1, MissedIs
  <2>4. Good(d, did, audit, [stock EXCEPT ![r] = Gone], L)
    BY <2>1, <2>2, GoodDestroyed
  <2> QED BY <1>1, <1>3, <2>3, <2>4 DEF c, L
<1> QED BY <1>2, <1>3

LEMMA DestroyKeeps ==
  ASSUME CallInv, NEW s \in Slot, NEW f, Destroy(s, f)
  PROVE  CallInv'
<1> DEFINE c == call[s]
           r == c.target
           o == IF f = "none" THEN "ok" ELSE Raised(c, f)
           m == Missed(r)[s]
           d == Concluded(m, o)
           e == <<c.nr, r, "destroyed">>
           L == Adapter.lists
<1>1. /\ c.op = "destroy" /\ c.at = "calling" /\ Exists(r)
      /\ stock' = [stock EXCEPT ![r] = Gone] /\ did' = did \cup {e}
      /\ contract' = contract /\ audit' = audit /\ served' = served
  BY DEF Destroy
<1>2. c # Idle
  BY <1>1 DEF Idle
<1>3. c \in ProviderRequest /\ c.nr <= served /\ Good(c, did, audit, stock, L)
  BY <1>2, BusyIsGood
<1>4. r \in Resource
  BY <1>1, <1>3 DEF Good, Course
<1>5. call' = [Missed(r) EXCEPT ![s] = d]
  BY DEF Destroy
<1>6. DOMAIN Missed(r) = Slot
  BY DEF Missed
<1>7. DOMAIN call' = Slot /\ call'[s] = d /\ \A t \in Slot : t # s => call'[t] = Missed(r)[t]
  BY <1>5, <1>6
<1>8. o \in {"ok", "error", "escaped"}
  <2>1. Raised(c, f) \in {"error", "escaped"}
    BY <1>1, RaisedIs
  <2> QED BY <2>1
<1>9. /\ m = [c EXCEPT !.owed = @ \ {r}] /\ m \in ProviderRequest
  BY <1>1, <1>2, <1>4, MissedKeeps
<1>10. c.nr \in 1..MaxRequests
  BY <1>3 DEF ProviderRequest
<1>11. e[1] = c.nr /\ e[2] = r /\ e[3] = "destroyed"
  OBVIOUS
<1>12. \A x \in did : x[1] = c.nr => x[3] = "prepared"
  BY <1>1, <1>3 DEF Good, Ledger, Underway
<1>13. TypesOf(stock', did', audit', served')
  <2>1. e \in (1..MaxRequests) \X Resource \X {"created", "prepared", "destroyed"}
    BY <1>4, <1>10
  <2> HIDE DEF e, r
  <2> QED BY <1>1, <2>1 DEF CallInv, TypesOf
<1>14. /\ m.owed = c.owed \ {r} /\ m.nr = c.nr /\ m.op = c.op /\ m.category = c.category
       /\ m.all = c.all /\ m.region = c.region /\ m.target = c.target /\ m.got = c.got
  BY <1>3, <1>9, MissedIs
<1> HIDE DEF e, m, o
<1>15. NothingTwice'
  <2>1. \A x, y \in did : x[1] = y[1] /\ x[3] = y[3] => x = y
    BY DEF CallInv, NothingTwice
  <2>2. \A x \in did : ~ (x[1] = e[1] /\ x[3] = e[3])
    BY <1>11, <1>12
  <2> QED BY <1>1, <2>1, <2>2 DEF NothingTwice
<1>16. RowsAreTrue(did', audit')
  BY <1>1 DEF CallInv, RowsAreTrue
<1>17. d \in ProviderRequest /\ d.nr = c.nr /\ Good(d, did', audit', stock', L)
  <2> HIDE DEF c, r
  <2>0. o \in Outcome /\ m \in ProviderRequest
    BY <1>8, <1>9 DEF Outcome
  <2>1. /\ d \in ProviderRequest /\ Same(m, d) /\ d.outcome = o /\ d.target = m.target
        /\ d.got = m.got /\ d.region = m.region
        /\ d.at = IF m.op \in Changing /\ o # "escaped" THEN "audit" ELSE "answered"
    BY <2>0, ConcludedIs
  <2> HIDE DEF d
  <2>2. /\ d.nr = c.nr /\ d.op = "destroy" /\ d.category = c.category /\ d.all = c.all
        /\ d.owed = c.owed \ {r} /\ d.got = c.got /\ d.target = r /\ d.outcome = o
        /\ d.at = IF o # "escaped" THEN "audit" ELSE "answered"
    BY <1>1, <1>14, <2>1 DEF Same, Changing, r
  <2>3. Course(d)
    BY <1>1, <1>3, <1>4, <1>8, <2>2 DEF Good, Course, Underway, Changing
  <2>4. <<c.nr, r, "destroyed">> \in did'
    BY <1>1 DEF e
  <2>5. Ledger(d, did', audit')
    BY <1>8, <2>2, <2>4 DEF Ledger, Underway, Changing
  <2> QED BY <2>1, <2>2, <2>3, <2>5 DEF Good
<1> HIDE DEF d, c, r
<1>18. ASSUME NEW t \in Slot, t # s, call'[t] # Idle
       PROVE  /\ call[t] # Idle /\ call'[t] \in ProviderRequest /\ call'[t].nr = call[t].nr
              /\ call[t].nr # c.nr /\ call[t].nr <= served
              /\ Good(call'[t], did', audit', stock', L)
  <2>1. call'[t] = Missed(r)[t]
    BY <1>7, <1>18
  <2>2. call[t] # Idle
    BY <1>1, <1>4, <1>18, <2>1, MissedKeeps
  <2>3. /\ call'[t] \in ProviderRequest /\ call'[t].nr = call[t].nr
        /\ Good(call'[t], did, audit, stock', L)
    BY <1>1, <1>4, <2>1, <2>2, MissedKeeps
  <2>4. call[t].nr # c.nr /\ call[t].nr <= served
    BY <1>2, <1>18, <2>2 DEF CallInv, c
  <2>5. \A x \in did' : x \in did \/ x[1] # call'[t].nr
    BY <1>1, <1>11, <2>3, <2>4
  <2>6. Good(call'[t], did', audit', stock', L)
    BY <1>1, <2>3, <2>5, GoodKept
  <2> QED BY <2>2, <2>3, <2>4, <2>6
<1>19. call' \in [Slot -> ProviderRequest \cup {Idle}]
  <2>1. \A t \in Slot : call'[t] \in ProviderRequest \cup {Idle}
    BY <1>1, <1>4, <1>7, <1>17, MissedKeeps
  <2>2. call' = [t \in Slot |-> call'[t]]
    BY <1>5, <1>6
  <2> QED BY <2>1, <2>2
<1>20. Adapter' = Adapter
  BY <1>1 DEF Adapter
<1>21. \A t \in Slot : call'[t] # Idle =>
         call'[t].nr <= served' /\ Good(call'[t], did', audit', stock', Adapter'.lists)
  BY <1>1, <1>3, <1>7, <1>17, <1>18, <1>20
<1>22. \A t, u \in Slot : t # u /\ call'[t] # Idle /\ call'[u] # Idle => call'[t].nr # call'[u].nr
  <2>1. \A t, u \in Slot : t # u /\ call[t] # Idle /\ call[u] # Idle => call[t].nr # call[u].nr
    BY DEF CallInv
  <2> QED BY <1>7, <1>17, <1>18, <2>1
<1>23. \A x \in did' : x[1] <= served'
  BY <1>1, <1>3, <1>11 DEF CallInv
<1>24. contract' \in [provider : Provider, keys : SUBSET {"always", "storage"}]
  BY <1>1 DEF CallInv
<1> QED BY <1>13, <1>15, <1>16, <1>19, <1>21, <1>22, <1>23, <1>24 DEF CallInv, TypesOf, RowsAreTrue

LEMMA ElsewhereKeeps ==
  ASSUME CallInv, NEW r \in Resource, Elsewhere(r)
  PROVE  CallInv'
<1> DEFINE L == Adapter.lists
<1>1. contract' = contract /\ audit' = audit /\ did' = did /\ served' = served
  BY DEF Elsewhere
<1>2. Adapter' = Adapter
  BY <1>1 DEF Adapter
<1>3. /\ stock \in [Resource -> Thing \cup {NotYet, Gone}]
      /\ call \in [Slot -> ProviderRequest \cup {Idle}]
      /\ TypesOf(stock, did, audit, served) /\ RowsAreTrue(did, audit)
  BY DEF CallInv, TypesOf, RowsAreTrue
<1>4. NothingTwice' /\ RowsAreTrue(did', audit')
  BY <1>1, <1>3 DEF CallInv, NothingTwice
<1>5. /\ stock' \in [Resource -> Thing \cup {NotYet, Gone}]
      /\ call' \in [Slot -> ProviderRequest \cup {Idle}]
      /\ \A t \in Slot : call'[t] # Idle =>
           /\ call[t] # Idle /\ call'[t].nr = call[t].nr
           /\ Good(call'[t], did, audit, stock', L)
  <2>1. ASSUME stock[r] = NotYet, UNCHANGED call, NEW thing \in Thing,
               stock' = [stock EXCEPT ![r] = thing]
        PROVE  <1>5!:
    <3>1. ASSUME NEW t \in Slot, call[t] # Idle
          PROVE  Good(call[t], did, audit, stock', L)
      <4> DEFINE c == call[t]
      <4>1. c \in ProviderRequest /\ Good(c, did, audit, stock, L)
        BY <3>1, BusyIsGood
      <4> HIDE DEF c, L
      <4>2. Good(c, did, audit, [stock EXCEPT ![r] = thing], L)
        BY <1>3, <2>1, <4>1, GoodCreated
      <4> QED BY <2>1, <4>2 DEF c
    <3> HIDE DEF L
    <3>2. stock' \in [Resource -> Thing \cup {NotYet, Gone}]
      BY <1>3, <2>1
    <3> QED BY <1>3, <2>1, <3>1, <3>2
  <2>2. ASSUME Exists(r), stock' = [stock EXCEPT ![r] = Gone], call' = Missed(r)
        PROVE  <1>5!:
    <3>1. stock' \in [Resource -> Thing \cup {NotYet, Gone}]
      BY <1>3, <2>2
    <3>2. ASSUME NEW t \in Slot
          PROVE  /\ call'[t] \in ProviderRequest \cup {Idle}
                 /\ call'[t] # Idle =>
                      /\ call[t] # Idle /\ call'[t].nr = call[t].nr
                      /\ Good(call'[t], did, audit, stock', L)
      BY <2>2, MissedKeeps
    <3>3. call' = [t \in Slot |-> call'[t]]
      BY <2>2 DEF Missed
    <3> HIDE DEF L
    <3>4. call' \in [Slot -> ProviderRequest \cup {Idle}]
      BY <3>2, <3>3
    <3> QED BY <3>1, <3>2, <3>4
  <2>3. [category : Category, region : Region] \subseteq Thing
    BY DEF Thing
  <2> HIDE DEF L
  <2> QED BY <2>1, <2>2, <2>3 DEF Elsewhere
<1>6. \A t \in Slot : call'[t] # Idle =>
        call'[t].nr <= served' /\ Good(call'[t], did', audit', stock', Adapter'.lists)
  BY <1>1, <1>2, <1>5 DEF CallInv
<1>7. \A t, u \in Slot : t # u /\ call'[t] # Idle /\ call'[u] # Idle => call'[t].nr # call'[u].nr
  <2>1. \A t, u \in Slot : t # u /\ call[t] # Idle /\ call[u] # Idle => call[t].nr # call[u].nr
    BY DEF CallInv
  <2> QED BY <1>5, <2>1
<1>8. (\A x \in did' : x[1] <= served') /\ TypesOf(stock', did', audit', served')
      /\ contract' \in [provider : Provider, keys : SUBSET {"always", "storage"}]
  BY <1>1, <1>3, <1>5 DEF CallInv, TypesOf
<1> QED BY <1>4, <1>5, <1>6, <1>7, <1>8 DEF CallInv, TypesOf, RowsAreTrue

\* What a request may ask for.
Asked(op, category, region, target) ==
  /\ op \in {"regions", "test", "list", "deploy", "destroy"}
  /\ category \in Category \cup {Nothing}
  /\ region \in Region \cup {All, Nowhere}
  /\ target \in Resource \cup {Nowhere}
  /\ region = All => op = "list"
  /\ op \in Changing => region \in Region /\ category \in Provisionable
  /\ op = "destroy" => target \in Resource
  /\ op = "list" => region \in Region \cup {All}

LEMMA ServeKeeps ==
  ASSUME CallInv, NEW s \in Slot, NEW op, NEW category, NEW region, NEW target,
         NEW complete, Asked(op, category, region, target),
         Serve(s, op, category, region, target, complete)
  PROVE  CallInv'
<1> DEFINE all == region = All
           owed == {r \in Resource : op = "list" /\ Exists(r) /\ stock[r].category = category}
           c == [nr |-> served + 1, op |-> op, category |-> category,
                 all |-> region = All, todo |-> IF region = All THEN Region ELSE {},
                 region |-> IF region = All THEN Nowhere ELSE region,
                 target |-> target, at |-> "calling", done |-> 0, attempt |-> 1,
                 page |-> {}, got |-> {}, skipped |-> {},
                 owed |-> owed, outcome |-> "none"]
           L == Adapter.lists
           e == [c EXCEPT !.skipped = Region, !.todo = {}]
           asking == [c EXCEPT !.at = "asking"]
           calling == [c EXCEPT !.at = "calling"]
<1>1. /\ call[s] = Idle /\ served < MaxRequests /\ served' = served + 1
      /\ contract' = contract /\ stock' = stock /\ audit' = audit /\ did' = did
  BY DEF Serve
<1>2. \/ c.all /\ call' = [call EXCEPT ![s] = Concluded(e, "ok")]
      \/ ~ c.all /\ call' = [call EXCEPT ![s] = Concluded(c, "error")]
      \/ c.all /\ \E d \in Onwards(c) : call' = [call EXCEPT ![s] = d]
      \/ ~ c.all /\ call' = [call EXCEPT ![s] = calling]
      \/ ~ c.all /\ OwnTest(c) /\ call' = [call EXCEPT ![s] = asking]
  <2> DEFINE first == [c EXCEPT !.at = IF OwnTest(c) THEN "asking" ELSE "calling"]
  <2>1. \/ call' = [call EXCEPT ![s] = IF c.all THEN Concluded(e, "ok") ELSE Concluded(c, "error")]
        \/ \E d \in IF c.all THEN Onwards(c) ELSE {first} : call' = [call EXCEPT ![s] = d]
    BY DEF Serve
  <2>2. \/ OwnTest(c) /\ first = asking
        \/ first = calling
    OBVIOUS
  <2> HIDE DEF c, e, asking, calling, first
  <2>3. CASE c.all
    BY <2>1, <2>3
  <2>4. CASE ~ c.all
    BY <2>1, <2>2, <2>4
  <2> QED BY <2>3, <2>4
<1>3. c \in ProviderRequest
  <2>1. served + 1 \in 1..MaxRequests /\ 1 \in 1..MaxAttempts /\ 0 \in 0..1
    <3>1. served \in 0..MaxRequests /\ MaxRequests \in Nat
      BY CallsAssumption DEF CallInv
    <3> QED BY <1>1, <3>1 DEF MaxAttempts
  <2>2. owed \in SUBSET Resource /\ (region = All) \in BOOLEAN
    OBVIOUS
  <2>3. (IF region = All THEN Region ELSE {}) \in SUBSET Region
        /\ (IF region = All THEN Nowhere ELSE region) \in Region \cup {Nowhere}
    BY DEF Asked
  <2> HIDE DEF owed
  <2> QED BY <2>1, <2>2, <2>3 DEF ProviderRequest, Asked
<1>4. /\ c.nr = served + 1 /\ c.op = op /\ c.category = category /\ c.all = all
      /\ c.target = target /\ c.at = "calling" /\ c.page = {} /\ c.got = {} /\ c.skipped = {}
      /\ c.owed = owed /\ c.outcome = "none"
  OBVIOUS
<1>5. /\ all => c.todo = Region
      /\ ~ all => c.todo = {} /\ c.region = region
  OBVIOUS
<1>6. stock \in [Resource -> Thing \cup {NotYet, Gone}] /\ served \in Nat
  BY DEF CallInv
<1>7. \A r \in owed : There(stock, r) /\ stock[r].category = category /\ stock[r].region \in Region
  BY <1>6 DEF Exists, There, Thing
<1>8. \A x \in did : x[1] # c.nr
  BY <1>4, <1>6 DEF CallInv
<1>9. op # "list" => owed = {}
  OBVIOUS
<1>10. OwnTest(c) => op = "test"
  BY <1>4 DEF OwnTest
<1> HIDE DEF c, owed, L
<1>11. /\ e \in ProviderRequest /\ e.nr = c.nr /\ e.op = c.op /\ e.category = c.category
       /\ e.all = c.all /\ e.owed = c.owed /\ e.got = {} /\ e.skipped = Region
  BY <1>3, <1>4 DEF ProviderRequest
<1>12. \A d \in {asking, calling} :
         /\ d \in ProviderRequest /\ d.nr = c.nr /\ d.op = c.op /\ d.category = c.category
         /\ d.all = c.all /\ d.owed = c.owed /\ d.got = c.got /\ d.skipped = c.skipped
         /\ d.todo = c.todo /\ d.region = c.region /\ d.target = c.target /\ d.page = c.page
         /\ d.outcome = c.outcome
  BY <1>3 DEF ProviderRequest
<1>13. asking.at = "asking" /\ calling.at = "calling"
  BY <1>3 DEF ProviderRequest
<1> HIDE DEF e, asking, calling
<1>14. c.all => op = "list" /\ region = All
  BY <1>4 DEF Asked
<1>15. ~ c.all => region # All
  BY <1>4
\* A request for one region, or for none.
<1>16. ASSUME ~ c.all, NEW d \in {c, asking, calling}, d = asking => op = "test"
       PROVE  d \in ProviderRequest /\ d.nr = c.nr /\ Good(d, did, audit, stock, L)
  <2>1. /\ d \in ProviderRequest /\ d.nr = c.nr /\ d.op = op /\ d.category = category
        /\ d.all = c.all /\ d.owed = owed /\ d.got = {} /\ d.skipped = {}
        /\ d.todo = {} /\ d.region = region /\ d.target = target /\ d.page = {}
        /\ d.outcome = "none"
    BY <1>3, <1>4, <1>5, <1>12, <1>16
  <2>2. d.at \in {"asking", "calling"} /\ (d.at = "asking" => op = "test")
    BY <1>4, <1>13, <1>16
  <2>3. Course(d)
    BY <1>9, <1>14, <1>16, <2>1, <2>2 DEF Course, Underway, Changing, Asked
  <2>4. Ledger(d, did, audit)
    BY <1>8, <2>1, <2>2 DEF Ledger, Underway
  <2>5. ASSUME op = "list"
        PROVE  Listing(d, stock, L)
    <3>1. region \in Region
      BY <1>15, <1>16, <2>5 DEF Asked
    <3>2. \A r \in d.owed : There(stock, r) /\ stock[r].category = d.category
      BY <1>7, <2>1
    <3>3. Accounted(d, d.todo \cup {d.region} \cup d.skipped, stock, L)
      BY <1>16, <2>1 DEF Accounted
    <3>4. InHand(d, stock, L)
      BY <2>1, <3>1, <3>3 DEF InHand
    <3> QED BY <2>1, <3>2, <3>4 DEF Listing
  <2> QED BY <2>1, <2>3, <2>4, <2>5 DEF Good
<1>17. PICK d \in ProviderRequest : /\ call' = [call EXCEPT ![s] = d] /\ d.nr = c.nr
                                    /\ Good(d, did, audit, stock, L)
  <2>1. CASE c.all /\ call' = [call EXCEPT ![s] = Concluded(e, "ok")]
    <3> DEFINE d == Concluded(e, "ok")
    <3>1. /\ d \in ProviderRequest /\ Same(e, d) /\ d.outcome = "ok" /\ d.got = e.got
          /\ d.skipped = e.skipped
          /\ d.at = IF e.op \in Changing /\ "ok" # "escaped" THEN "audit" ELSE "answered"
      BY <1>11, ConcludedIs DEF Outcome
    <3> HIDE DEF d
    <3>2. /\ d.nr = c.nr /\ d.op = "list" /\ d.category = category /\ d.owed = owed
          /\ d.got = {} /\ d.skipped = Region /\ d.at = "answered"
      BY <1>4, <1>11, <1>14, <2>1, <3>1 DEF Same, Changing
    <3>3. Accounted(d, d.skipped, stock, L)
      BY <1>7, <3>2 DEF Accounted
    <3>4. Listing(d, stock, L)
      BY <1>7, <3>2, <3>3 DEF Listing
    <3>5. Course(d) /\ Ledger(d, did, audit)
      BY <1>8, <3>2 DEF Course, Ledger, Underway, Changing
    <3>6. Good(d, did, audit, stock, L)
      BY <3>4, <3>5 DEF Good
    <3> QED BY <2>1, <3>1, <3>2, <3>6 DEF d
  <2>2. CASE ~ c.all /\ call' = [call EXCEPT ![s] = Concluded(c, "error")]
    <3>1. Good(c, did, audit, stock, L)
      BY <1>4, <1>13, <1>16, <2>2
    <3> QED BY <1>3, <2>2, <3>1, ConcludedKeeps DEF Outcome
  <2>3. CASE c.all /\ \E d \in Onwards(c) : call' = [call EXCEPT ![s] = d]
    <3>1. Accounted(c, c.todo \cup c.skipped, stock, L)
      BY <1>4, <1>5, <1>7, <2>3 DEF Accounted
    <3>2. \A r \in c.owed : There(stock, r) /\ stock[r].category = c.category
      BY <1>4, <1>7
    <3>3. Between(c, stock, L)
      BY <1>4, <2>3, <3>1, <3>2 DEF Between
    <3>4. c.op = "list" /\ c.at = "calling" /\ c.outcome = "none"
      BY <1>4, <1>14, <2>3
    <3>5. PICK d \in Onwards(c) : call' = [call EXCEPT ![s] = d]
      BY <2>3
    <3>6. d \in ProviderRequest /\ d.nr = c.nr /\ Good(d, did, audit, stock, L)
      BY <1>3, <1>8, <3>3, <3>4, OnwardsKeeps
    <3> QED BY <3>5, <3>6
  <2>4. CASE ~ c.all /\ call' = [call EXCEPT ![s] = calling]
    <3>1. calling # asking
      BY <1>13
    <3> QED BY <1>16, <2>4, <3>1
  <2>5. CASE ~ c.all /\ OwnTest(c) /\ call' = [call EXCEPT ![s] = asking]
    BY <1>10, <1>16, <2>5
  <2> QED BY <1>2, <2>1, <2>2, <2>3, <2>4, <2>5
<1>18. TypesOf(stock', did', audit', served') /\ RowsAreTrue(did', audit') /\ NothingTwice'
  <2>1. served + 1 \in 0..MaxRequests
    <3>1. served \in 0..MaxRequests /\ MaxRequests \in Nat
      BY CallsAssumption DEF CallInv
    <3> QED BY <1>1, <3>1
  <2>2. TypesOf(stock, did, audit, served + 1) /\ RowsAreTrue(did, audit)
    BY <2>1 DEF CallInv, TypesOf, RowsAreTrue
  <2>3. NothingTwice'
    BY <1>1 DEF CallInv, NothingTwice
  <2> QED BY <1>1, <2>2, <2>3
<1>19. d.nr <= served' /\ served <= served'
  BY <1>1, <1>4, <1>6, <1>17
<1>20. \A t \in Slot : t # s /\ call[t] # Idle => call[t].nr # d.nr
  <2>1. ASSUME NEW t \in Slot, call[t] # Idle
        PROVE  call[t].nr # d.nr
    <3>1. call[t].nr <= served /\ call[t] \in ProviderRequest
      BY <2>1, BusyIsGood
    <3>2. call[t].nr \in Nat
      BY <3>1 DEF ProviderRequest
    <3> QED BY <1>4, <1>6, <1>17, <3>1, <3>2
  <2> QED BY <2>1
<1>21. Grows(stock, stock') /\ did \subseteq did' /\ audit \subseteq audit'
       /\ (\A x \in did' : x \in did \/ x[1] = d.nr)
       /\ Good(d, did', audit', stock', L)
  BY <1>1, <1>17 DEF Grows
<1> QED BY <1>1, <1>17, <1>18, <1>19, <1>20, <1>21, OneChanges DEF L

LEMMA InitIsGood ==
  CallsInit => CallInv
<1> SUFFICES ASSUME CallsInit
             PROVE  CallInv
  OBVIOUS
<1>1. /\ contract \in [provider : Provider, keys : SUBSET {"always", "storage"}]
      /\ stock = [r \in Resource |-> NotYet] /\ call = [s \in Slot |-> Idle]
      /\ audit = {} /\ did = {} /\ served = 0
  BY DEF CallsInit
<1>2. 0 \in 0..MaxRequests
  BY CallsAssumption
<1>3. NothingTwice
  BY <1>1 DEF NothingTwice
<1>4. stock \in [Resource -> Thing \cup {NotYet, Gone}] /\ call \in [Slot -> ProviderRequest \cup {Idle}]
  BY <1>1
<1>5. \A s \in Slot : call[s] = Idle
  BY <1>1
<1> QED BY <1>1, <1>2, <1>3, <1>4, <1>5 DEF CallInv

LEMMA NextKeeps ==
  CallInv /\ [CallsNext]_callVars => CallInv'
<1> SUFFICES ASSUME CallInv, [CallsNext]_callVars
             PROVE  CallInv'
  OBVIOUS
<1>1. CASE UNCHANGED callVars
  <2>1. /\ contract' = contract /\ stock' = stock /\ call' = call /\ audit' = audit
        /\ did' = did /\ served' = served
    BY <1>1 DEF callVars
  <2>2. Adapter' = Adapter /\ NothingTwice' = NothingTwice
    BY <2>1 DEF Adapter, NothingTwice
  <2> QED BY <2>1, <2>2 DEF CallInv
<1>2. CASE CallsNext
  <2>1. PICK s \in Slot :
          \/ \E op \in {"regions", "test"} : Serve(s, op, Nothing, Nowhere, Nowhere, TRUE)
          \/ \E category \in Category, region \in Region \cup {All} :
               Serve(s, "list", category, region, Nowhere, TRUE)
          \/ \E category \in Provisionable, region \in Region, complete \in BOOLEAN :
               Serve(s, "deploy", category, region, Nowhere, complete)
          \/ \E category \in Provisionable, region \in Region, r \in Resource :
               Serve(s, "destroy", category, region, r, TRUE)
          \/ Proceed(s)
          \/ Crash(s)
          \/ \E r \in Resource : Elsewhere(r)
    BY <1>2 DEF CallsNext
  <2>2. ASSUME NEW op \in {"regions", "test"}, Serve(s, op, Nothing, Nowhere, Nowhere, TRUE)
        PROVE  CallInv'
    <3>1. Asked(op, Nothing, Nowhere, Nowhere)
      BY DEF Asked, Changing, Nowhere, All
    <3> QED BY <2>2, <3>1, ServeKeeps
  <2>3. ASSUME NEW category \in Category, NEW region \in Region \cup {All},
               Serve(s, "list", category, region, Nowhere, TRUE)
        PROVE  CallInv'
    <3>1. Asked("list", category, region, Nowhere)
      BY DEF Asked, Changing
    <3> QED BY <2>3, <3>1, ServeKeeps
  <2>4. ASSUME NEW category \in Provisionable, NEW region \in Region, NEW complete,
               Serve(s, "deploy", category, region, Nowhere, complete)
        PROVE  CallInv'
    <3>1. Asked("deploy", category, region, Nowhere)
      BY RegionAssumption DEF Asked, Changing, Provisionable
    <3> QED BY <2>4, <3>1, ServeKeeps
  <2>5. ASSUME NEW category \in Provisionable, NEW region \in Region, NEW r \in Resource,
               Serve(s, "destroy", category, region, r, TRUE)
        PROVE  CallInv'
    <3>1. Asked("destroy", category, region, r)
      BY RegionAssumption DEF Asked, Changing, Provisionable
    <3> QED BY <2>5, <3>1, ServeKeeps
  <2>6. CASE Proceed(s)
    <3>1. CASE Fetch(s)
      <4>1. call[s] # Idle
        BY <3>1 DEF Fetch, Idle
      <4> QED BY <3>1, <4>1, FetchIsQuiet, QuietKeeps
    <3>2. CASE Reply(s)
      <4>1. call[s] # Idle
        BY <3>2 DEF Reply, Idle
      <4> QED BY <3>2, <4>1, ReplyIsQuiet, QuietKeeps
    <3>3. CASE Audit(s)
      BY <3>3, AuditKeeps
    <3>4. CASE Return(s)
      BY <3>4, FreeKeeps DEF Return
    <3>5. CASE \E f \in Fault : Fail(s, f)
      <4>1. call[s] # Idle
        BY <3>5 DEF Fail
      <4> QED BY <3>5, <4>1, FailIsQuiet, QuietKeeps
    <3>6. CASE \E f \in Silence \cup {"none"} :
                 Destroy(s, f) \/ \E r \in Resource : Create(s, r, f)
      BY <3>6, DestroyKeeps, CreateKeeps
    <3> QED BY <2>6, <3>1, <3>2, <3>3, <3>4, <3>5, <3>6 DEF Proceed
  <2>7. CASE Crash(s)
    BY <2>7, FreeKeeps DEF Crash
  <2>8. CASE \E r \in Resource : Elsewhere(r)
    BY <2>8, ElsewhereKeeps
  <2> QED BY <2>1, <2>2, <2>3, <2>4, <2>5, <2>6, <2>7, <2>8
<1> QED BY <1>1, <1>2

LEMMA AlwaysCallInv ==
  CallsSpec => []CallInv
BY InitIsGood, NextKeeps, PTL DEF CallsSpec

-----------------------------------------------------------------------------
\* Every variable keeps its type, and no listing shows a region it has skipped
\* (_list_across_all_regions appends what a region returned or goes on).
THEOREM CallsTypeCorrect ==
  CallsSpec => []CallsTypeOK
<1>1. CallInv => CallsTypeOK
  BY InvGivesTypes
<1> QED BY <1>1, AlwaysCallInv, PTL

\* The audit log says nothing that has not happened, and has a row of its own
\* for every attempt that was answered with success or with an application
\* error; exceptions that escape and crashes leave none (deploy, destroy, _audit).
THEOREM AuditIsHonest ==
  CallsSpec => []AuditIsTrue
<1>1. CallInv => AuditIsTrue
  BY InvGivesAudit
<1> QED BY <1>1, AlwaysCallInv, PTL

\* No request creates the same twice or destroys twice, however answers are
\* lost (the adapters try only listings again).
THEOREM CallsAreNotRepeated ==
  CallsSpec => []NothingTwice
<1>1. CallInv => NothingTwice
  BY DEF CallInv
<1> QED BY <1>1, AlwaysCallInv, PTL

\* Listings are complete and in place, with pages, attempts and regions of any
\* number and whatever happens at the provider meanwhile (list_resources).
THEOREM ListingsHold ==
  CallsSpec => []ListingsAreExact
<1>1. CallInv => ListingsAreExact
  BY InvGivesListings
<1> QED BY <1>1, AlwaysCallInv, PTL
=============================================================================
