-------------------------- MODULE CloudAccountsProofs --------------------------
(***************************************************************************)
(* Theorems about CloudAccounts, for any accounts, credentials, regions    *)
(* and sessions.                                                           *)
(***************************************************************************)
EXTENDS CloudAccounts, TLAPS

USE BoundAssumption, RegionAssumption

Table == [Account -> Row \cup {NotYet, Gone}]

-----------------------------------------------------------------------------
(* What the updates do to a row.                                           *)

LEMMA RowsExist ==
  ASSUME NEW table \in Table, NEW a \in Account, Exists(table, a)
  PROVE  table[a] \in Row
BY DEF Table, Exists

\* A validation writes two columns.
LEMMA ValidatedType ==
  ASSUME NEW r \in Row, NEW seen \in Row
  PROVE  Validated(r, seen) \in Row /\ Validated(r, seen).regions = r.regions
<1>1. CASE seen.validated /\ seen.status = "CONNECTED"
  BY <1>1 DEF Validated, Row
<1>2. CASE seen.validated /\ seen.status # "CONNECTED"
  BY <1>2 DEF Validated, Row
<1>3. CASE ~ seen.validated /\ seen.status = "CONNECTED"
  BY <1>3 DEF Validated, Row
<1>4. CASE ~ seen.validated /\ seen.status # "CONNECTED"
  BY <1>4 DEF Validated, Row
<1> QED BY <1>1, <1>2, <1>3, <1>4

\* A listing replaces the regions unless it is what the session had read.
LEMMA ListedType ==
  ASSUME NEW r \in Row, NEW seen \in Row, NEW listed \in SUBSET Region
  PROVE  /\ Listed(r, seen, listed) \in Row
         /\ Listed(r, seen, listed).regions =
              IF listed = seen.regions THEN r.regions ELSE listed
<1> DEFINE reg == Net(r.regions, seen.regions, listed)
           st  == Net(r.status, seen.status, "CONNECTED")
<1>1. reg \in SUBSET Region
  BY DEF Net, Row
<1>2. st \in {"CONNECTED", "ERROR"}
  BY DEF Net, Row
<1>3. Listed(r, seen, listed) = [r EXCEPT !.regions = reg, !.status = st]
  BY DEF Listed
<1>4. reg = IF listed = seen.regions THEN r.regions ELSE listed
  BY DEF Net
<1> HIDE DEF reg, st
<1>5. [r EXCEPT !.regions = reg, !.status = st] \in Row
  BY <1>1, <1>2 DEF Row
<1>6. [r EXCEPT !.regions = reg, !.status = st].regions = reg
  BY DEF Row
<1> QED BY <1>3, <1>4, <1>5, <1>6

LEMMA RefusedType ==
  ASSUME NEW r \in Row, NEW x
  PROVE  LET st == Net(r.status, x, "ERROR") IN
         /\ [r EXCEPT !.status = st] \in Row
         /\ [r EXCEPT !.status = st].regions = r.regions
<1> DEFINE st == Net(r.status, x, "ERROR")
<1>1. st \in {"CONNECTED", "ERROR"}
  BY DEF Net, Row
<1> HIDE DEF st
<1>2. [r EXCEPT !.status = st] \in Row /\ [r EXCEPT !.status = st].regions = r.regions
  BY <1>1 DEF Row
<1> QED BY <1>2 DEF st

\* A field that is given is one value.
LEMMA TheGiven ==
  ASSUME NEW S, NEW given \in Maybe(S), given # {}
  PROVE  The(given) \in S
<1>1. PICK v \in S : given = {v}
  BY DEF Maybe
<1> QED BY <1>1 DEF The

LEMMA PutType ==
  ASSUME NEW S, NEW stored \in S, NEW seen, NEW given \in Maybe(S)
  PROVE  Put(stored, seen, given) \in S
BY TheGiven DEF Put, Net

\* What an edit does to the trust in an account: one without credentials leaves the
\* secret and the flag, one with credentials takes the flag away unless the
\* session had read an account that was not validated.
EditTrust(new, r, seen, c) ==
  /\ c.secret = {} => new.secret = r.secret /\ new.validated = r.validated
  /\ c.provider = {} => new.provider = r.provider
  /\ c.secret # {} /\ new.validated => r.validated /\ ~ seen.validated

\* No edit touches the stored regions.
LEMMA EditedType ==
  ASSUME NEW r \in Row, NEW seen \in Row, NEW c \in Change
  PROVE  /\ Edited(r, seen, c) \in Row /\ Edited(r, seen, c).regions = r.regions
         /\ EditTrust(Edited(r, seen, c), r, seen, c)
<1> DEFINE p == Put(r.provider, seen.provider, c.provider)
           g == Put(r.region, seen.region, c.region)
           v == Put(r.active, seen.active, c.active)
           k == IF c.secret = {} THEN r.secret ELSE The(c.secret)
           w == IF c.secret = {} THEN r.validated ELSE Net(r.validated, seen.validated, FALSE)
<1>1. /\ c.provider \in Maybe(Provider) /\ c.secret \in Maybe(Secret)
      /\ c.active \in Maybe(BOOLEAN) /\ c.region \in Maybe(Region \cup {All})
  <2>1. c \in [checked : BOOLEAN, provider : Maybe(Provider), secret : Maybe(Secret),
               active : Maybe(BOOLEAN), region : Maybe(Region \cup {All})]
    BY ChangeAssumption
  <2> QED BY <2>1
<1>2. /\ r.provider \in Provider /\ r.region \in Region \cup {All} /\ r.active \in BOOLEAN
      /\ r.secret \in Secret /\ r.validated \in BOOLEAN /\ seen.validated \in BOOLEAN
  BY DEF Row
<1>3. p \in Provider
  BY <1>1, <1>2, PutType
<1>4. g \in Region \cup {All}
  BY <1>1, <1>2, PutType
<1>5. v \in BOOLEAN
  BY <1>1, <1>2, PutType
<1>6. k \in Secret
  BY <1>1, <1>2, TheGiven
<1>7. w \in BOOLEAN
  BY <1>2 DEF Net
<1>8. Edited(r, seen, c) = [r EXCEPT !.provider = p, !.region = g, !.active = v,
                                     !.secret = k, !.validated = w]
  BY DEF Edited
<1>9. c.provider = {} => p = r.provider
  BY DEF Put
<1>10. c.secret = {} => k = r.secret /\ w = r.validated
  OBVIOUS
<1>11. c.secret # {} /\ w => r.validated /\ ~ seen.validated
  BY <1>2 DEF Net
<1> HIDE DEF p, g, v, k, w
<1> DEFINE new == [r EXCEPT !.provider = p, !.region = g, !.active = v,
                            !.secret = k, !.validated = w]
<1>12. new \in Row
  BY <1>3, <1>4, <1>5, <1>6, <1>7 DEF Row
<1>13. /\ new.regions = r.regions /\ new.provider = p /\ new.secret = k
       /\ new.validated = w
  BY DEF Row
<1> HIDE DEF new
<1> QED BY <1>8, <1>9, <1>10, <1>11, <1>12, <1>13 DEF new, EditTrust

LEMMA NewRowType ==
  ASSUME NEW p \in Provider, NEW k \in Secret
  PROVE  NewRow(p, k) \in Row /\ NewRow(p, k).regions = {}
BY DEF NewRow, Row

-----------------------------------------------------------------------------
(* Types.                                                                  *)

LEMMA EndsType ==
  ASSUME TypeOK, NEW s \in Session, Ends(s), row' \in Table
  PROVE  /\ step' \in [Session -> Step] /\ todo' \in [Session -> SUBSET Account]
         /\ view' \in [Session -> Table]
         /\ at' \in [Session -> Account \cup {NoAccount}]
         /\ answer' \in [Session -> {"ok", "refused"}]
         /\ news' \in [Session -> SUBSET Region]
         /\ step'[s] = "idle" /\ news'[s] = {}
         /\ \A q \in Session \ {s} :
              /\ step'[q] = step[q] /\ at'[q] = at[q]
              /\ news'[q] = news[q] /\ view'[q] = view[q]
BY DEF Ends, TypeOK, Table, NoTable, Step

LEMMA OthersStay ==
  ASSUME TypeOK, NEW s \in Session,
         \A q \in Session \ {s} :
           /\ step'[q] = step[q] /\ at'[q] = at[q]
           /\ news'[q] = news[q] /\ view'[q] = view[q],
         Working(s)'
  PROVE  \A q \in Session : Working(q)'
BY DEF TypeOK, Working, Exists

LEMMA AllStay ==
  ASSUME TypeOK, UNCHANGED <<step, view, at, news>>
  PROVE  \A q \in Session : Working(q)'
BY DEF TypeOK, Working, Exists

LEMMA InitTypes == Init => TypeOK
<1>1. ASSUME Init PROVE row \in [Account -> Row \cup {NotYet}]
  <2>1. \A p \in Provider, k \in Secret : [NewRow(p, k) EXCEPT !.validated = TRUE] \in Row
    BY DEF NewRow, Row
  <2> QED BY <1>1, <2>1 DEF Init
<1>2. ASSUME Init PROVE \A s \in Session : Working(s)
  BY <1>2 DEF Init, Working
<1>3. ASSUME Init PROVE proven \subseteq Account \X Provider \X Secret
  <2>1. \A a \in Existing : row[a] \in Row
    <3> SUFFICES ASSUME NEW a \in Existing PROVE row[a] \in Row
      OBVIOUS
    <3>1. a \in Account /\ row[a] # NotYet
      BY <1>3, ExistingAssumption DEF Init
    <3> QED BY <1>1, <1>3, <3>1
  <2> QED BY <1>3, <2>1, ExistingAssumption DEF Init, Row
<1> QED BY <1>1, <1>2, <1>3 DEF Init, TypeOK, Step, NoTable

LEMMA NextTypes == TypeOK /\ [Next]_vars => TypeOK'
<1> SUFFICES ASSUME TypeOK, [Next]_vars PROVE TypeOK'
  OBVIOUS
<1>1. ASSUME NEW s \in Session, StartSweep(s) PROVE TypeOK'
  <2>1. Connected(row) \in SUBSET Account
    BY DEF Connected
  <2>2. \A q \in Session : Working(q)'
    BY <1>1, OthersStay DEF StartSweep, TypeOK, Working
  <2> QED BY <1>1, <2>1, <2>2 DEF StartSweep, TypeOK, Step, provider, ghost
<1>2. ASSUME NEW s \in Session, NEW a \in Account, StartRefresh(s, a) PROVE TypeOK'
  <2>2. \A q \in Session : Working(q)'
    BY <1>2, OthersStay DEF StartRefresh, TypeOK, Working
  <2> QED BY <1>2, <2>2 DEF StartRefresh, TypeOK, Step, provider, ghost
<1>3. ASSUME NEW s \in Session, NEW a \in Account, StartValidation(s, a) PROVE TypeOK'
  <2>1. row[a] \in Row
    BY <1>3, RowsExist DEF StartValidation, TypeOK, Table
  <2>2. \A q \in Session : Working(q)'
    BY <1>3, OthersStay DEF StartValidation, TypeOK, Working, Exists
  <2>3. proven' \subseteq Account \X Provider \X Secret
    BY <1>3, <2>1 DEF StartValidation, TypeOK, Row
  <2> QED BY <1>3, <2>2, <2>3 DEF StartValidation, TypeOK, Step, provider
<1>4. ASSUME NEW s \in Session, CommitValidation(s) PROVE TypeOK'
  <2>1. at[s] \in Account /\ Exists(view[s], at[s])
    BY <1>4 DEF CommitValidation, TypeOK, Working
  <2>2. CASE Exists(row, at[s])
    <3>1. view[s][at[s]] \in Row /\ row[at[s]] \in Row
      BY <2>1, <2>2, RowsExist DEF TypeOK, Table
    <3> DEFINE v == Validated(row[at[s]], view[s][at[s]])
    <3>a. v \in Row
      BY <3>1, ValidatedType
    <3>b. row' = [row EXCEPT ![at[s]] = v]
      BY <1>4, <2>2 DEF CommitValidation
    <3> HIDE DEF v
    <3>2. row' \in Table
      BY <2>1, <3>a, <3>b DEF TypeOK, Table
    <3>3. \A q \in Session : Working(q)'
      BY <1>4, <2>2, OthersStay DEF CommitValidation, TypeOK, Working
    <3>c. todo' = [todo EXCEPT ![s] = {at[s]}]
      BY <1>4, <2>2 DEF CommitValidation
    <3>d. step' = [step EXCEPT ![s] = "sweeping"]
      BY <1>4, <2>2 DEF CommitValidation
    <3>e. at' = [at EXCEPT ![s] = NoAccount]
      BY <1>4, <2>2 DEF CommitValidation
    <3>f. answer' = answer /\ news' = news
      BY <1>4, <2>2 DEF CommitValidation
    <3>4. /\ todo' \in [Session -> SUBSET Account] /\ step' \in [Session -> Step]
          /\ at' \in [Session -> Account \cup {NoAccount}]
          /\ answer' = answer /\ news' = news
      BY <2>1, <3>c, <3>d, <3>e, <3>f DEF TypeOK, Step
    <3>5. view' \in [Session -> Table]
      BY <1>4, <2>2, <3>2 DEF CommitValidation, TypeOK, Table
    <3>6. UNCHANGED <<provider, edit, ghost, events>>
      BY <1>4 DEF CommitValidation
    <3> QED BY <3>2, <3>3, <3>4, <3>5, <3>6 DEF TypeOK, provider, ghost, Table
  <2>3. CASE ~ Exists(row, at[s])
    <3>1. Ends(s) /\ row' = row
      BY <1>4, <2>3 DEF CommitValidation
    <3>2. row' \in Table
      BY <3>1 DEF TypeOK, Table
    <3>3. \A q \in Session : Working(q)'
      BY <3>1, <3>2, EndsType, OthersStay DEF Working
    <3> QED BY <1>4, <3>1, <3>2, <3>3, EndsType DEF CommitValidation, TypeOK, provider, ghost, Table
  <2> QED BY <2>2, <2>3
<1>5. ASSUME NEW s \in Session, NEW a \in Account, Visit(s, a) PROVE TypeOK'
  <2>1. CASE Exists(view[s], a)
    <3>1. \A q \in Session : Working(q)'
      BY <1>5, <2>1, OthersStay DEF Visit, TypeOK, Working
    <3>2. ListAnswer(view[s][a]) \in {"ok", "refused"}
      BY DEF ListAnswer
    <3>a. step' = [step EXCEPT ![s] = "listing"] /\ view' = view
      BY <1>5, <2>1 DEF Visit
    <3>b. at' = [at EXCEPT ![s] = a]
      BY <1>5, <2>1 DEF Visit
    <3>c. todo' = [todo EXCEPT ![s] = @ \ {a}]
      BY <1>5, <2>1 DEF Visit
    <3>d. answer' = [answer EXCEPT ![s] = ListAnswer(view[s][a])]
      BY <1>5, <2>1 DEF Visit
    <3>3. /\ todo' \in [Session -> SUBSET Account] /\ step' \in [Session -> Step]
          /\ at' \in [Session -> Account \cup {NoAccount}]
          /\ view' = view
      BY <3>a, <3>b, <3>c DEF TypeOK, Step
    <3>4. /\ answer' \in [Session -> {"ok", "refused"}]
          /\ news' \in [Session -> SUBSET Region]
      <4>1. \E n \in SUBSET Region : news' = [news EXCEPT ![s] = n]
        BY <1>5, <2>1 DEF Visit, TypeOK
      <4> QED BY <3>2, <3>d, <4>1 DEF TypeOK
    <3>5. UNCHANGED <<row, provider, edit, ghost, events>>
      BY <1>5 DEF Visit
    <3> QED BY <3>1, <3>3, <3>4, <3>5 DEF TypeOK, provider, ghost
  <2>2. CASE ~ Exists(view[s], a)
    <3>1. Ends(s) /\ row' = row
      BY <1>5, <2>2 DEF Visit
    <3>2. row' \in Table
      BY <3>1 DEF TypeOK, Table
    <3>3. \A q \in Session : Working(q)'
      BY <3>1, <3>2, EndsType, OthersStay DEF Working
    <3> QED BY <1>5, <3>1, <3>2, <3>3, EndsType DEF Visit, TypeOK, provider, ghost, Table
  <2> QED BY <2>1, <2>2
<1>6. ASSUME NEW s \in Session, NEW a \in Account, CallFails(s, a) PROVE TypeOK'
  BY <1>6, AllStay DEF CallFails, TypeOK, provider, ghost
<1>7. ASSUME NEW s \in Session, CommitListing(s) PROVE TypeOK'
  <2> DEFINE a == at[s]
             seen == view[s][a]
  <2>1. a \in Account /\ Exists(view[s], a)
    BY <1>7 DEF CommitListing, TypeOK, Working
  <2>2. seen \in Row
    BY <2>1, RowsExist DEF TypeOK, Table
  <2>3. news[s] \in SUBSET Region /\ Fresh(news[s], seen.regions) \in SUBSET Region
    BY DEF TypeOK, Fresh
  <2>4. row' \in Table
    <3>1. CASE answer[s] = "ok" /\ Exists(row, a) /\ row' = [row EXCEPT ![a] = Listed(@, seen, news[s])]
      BY <3>1, <2>1, <2>2, <2>3, RowsExist, ListedType DEF TypeOK, Table
    <3>2. CASE Exists(row, a) /\ row' = [row EXCEPT ![a].status = Net(@, seen.status, "ERROR")]
      BY <3>2, <2>1, RowsExist, RefusedType DEF TypeOK, Table
    <3>3. CASE row' = row
      BY <3>3 DEF TypeOK, Table
    <3> QED BY <1>7, <3>1, <3>2, <3>3 DEF CommitListing
  <2>5. news' \in [Session -> SUBSET Region] /\ \A q \in Session \ {s} : news'[q] = news[q]
    BY <1>7, <2>3 DEF CommitListing, TypeOK
  <2>6. excused' \in [Account -> SUBSET Region]
    BY <1>7, <2>1, <2>3 DEF CommitListing, TypeOK
  <2>7. step' = [step EXCEPT ![s] = "reloading"] /\ at' = at /\ view' = view
    BY <1>7 DEF CommitListing
  <2>8. Working(s)'
    BY <2>1, <2>7 DEF Working, TypeOK
  <2>9. \A q \in Session : Working(q)'
    BY <2>5, <2>7, <2>8, OthersStay DEF TypeOK
  <2> QED BY <1>7, <2>4, <2>5, <2>6, <2>7, <2>9 DEF CommitListing, TypeOK, Step, provider, Table
<1>8. ASSUME NEW s \in Session, Reload(s) PROVE TypeOK'
  <2>1. at[s] \in Account
    BY <1>8 DEF Reload, TypeOK, Working
  <2>2. CASE Exists(row, at[s])
    <3>1. \A q \in Session : Working(q)'
      BY <1>8, <2>1, <2>2, OthersStay DEF Reload, TypeOK, Working, Exists
    <3> QED BY <1>8, <2>2, <3>1 DEF Reload, TypeOK, Step, provider, ghost
  <2>3. CASE ~ Exists(row, at[s])
    <3>1. Ends(s) /\ row' = row
      BY <1>8, <2>3 DEF Reload
    <3>2. row' \in Table
      BY <3>1 DEF TypeOK, Table
    <3>3. \A q \in Session : Working(q)'
      BY <3>1, <3>2, EndsType, OthersStay DEF Working
    <3> QED BY <1>8, <3>1, <3>2, <3>3, EndsType DEF Reload, TypeOK, provider, ghost, Table
  <2> QED BY <2>2, <2>3
<1>9. ASSUME NEW s \in Session, Announce(s) PROVE TypeOK'
  <2>1. at[s] \in Account
    BY <1>9 DEF Announce, TypeOK, Working
  <2>2. \A q \in Session : Working(q)'
    BY <1>9, OthersStay DEF Announce, TypeOK, Working
  <2>3. announced' \in [Account -> SUBSET Region]
    BY <1>9, <2>1 DEF Announce, TypeOK
  <2> QED BY <1>9, <2>2, <2>3 DEF Announce, TypeOK, Step, provider
<1>10. ASSUME NEW s \in Session, Finish(s) \/ Crash(s) PROVE TypeOK'
  <2>1. Ends(s) /\ row' = row
    BY <1>10 DEF Finish, Crash
  <2>2. row' \in Table
    BY <2>1 DEF TypeOK, Table
  <2>3. \A q \in Session : Working(q)'
    BY <2>1, <2>2, EndsType, OthersStay DEF Working
  <2>4. excused' \in [Account -> SUBSET Region] /\ events' \in 0..MaxEvents
    BY <1>10 DEF Finish, Crash, TypeOK, ghost
  <2>5. edit' = edit /\ announced' = announced /\ proven' = proven
        /\ accepted' = accepted /\ offered' = offered
    BY <1>10 DEF Finish, Crash, ghost, provider
  <2> QED BY <2>1, <2>2, <2>3, <2>4, <2>5, EndsType DEF TypeOK, Table
<1>11. ASSUME NEW a \in Account, Delete(a) PROVE TypeOK'
  BY <1>11, AllStay DEF Delete, TypeOK, provider, session, ghost
<1>12. ASSUME NEW a \in Account, NEW p \in Provider, NEW k \in Secret, Create(a, p, k)
       PROVE  TypeOK'
  <2>1. NewRow(p, k) \in Row
    BY NewRowType
  <2> QED BY <1>12, <2>1, AllStay DEF Create, TypeOK, provider, session, ghost
<1>13. ASSUME NEW e \in Editor, NEW a \in Account, NEW c \in Change, BeginEdit(e, a, c)
       PROVE  TypeOK'
  <2>1. row[a] \in Row
    BY <1>13, RowsExist DEF BeginEdit, TypeOK, Table
  <2>2. [account |-> a, seen |-> row[a], change |-> c] \in Edit
    BY <2>1 DEF Edit
  <2> QED BY <1>13, <2>2, AllStay DEF BeginEdit, TypeOK, provider, session, ghost
<1>14. ASSUME NEW e \in Editor, EndEdit(e) PROVE TypeOK'
  <2>1. edit[e] \in Edit
    BY <1>14 DEF EndEdit, TypeOK
  <2>2. row' \in Table
    <3>1. CASE Exists(row, edit[e].account)
      <4>1. row[edit[e].account] \in Row
        BY <2>1, <3>1, RowsExist DEF TypeOK, Table, Edit
      <4>2. Edited(row[edit[e].account], edit[e].seen, edit[e].change) \in Row
        BY <2>1, <4>1, EditedType DEF Edit
      <4> QED BY <1>14, <3>1, <4>2 DEF EndEdit, TypeOK, Table
    <3>2. CASE ~ Exists(row, edit[e].account)
      BY <1>14, <3>2 DEF EndEdit, TypeOK, Table
    <3> QED BY <3>1, <3>2
  <2> QED BY <1>14, <2>2, AllStay DEF EndEdit, TypeOK, provider, session, ghost, Table
<1>15. CASE Evolve
  <2>1. accepted' \subseteq Provider \X Secret /\ offered' \subseteq Region
    BY <1>15 DEF Evolve, Toggled, TypeOK
  <2> QED BY <1>15, <2>1, AllStay DEF Evolve, TypeOK, session, ghost
<1>16. CASE UNCHANGED vars
  BY <1>16, AllStay DEF vars, TypeOK, provider, session, ghost
<1> QED
  BY <1>1, <1>2, <1>3, <1>4, <1>5, <1>6, <1>7, <1>8, <1>9, <1>10, <1>11, <1>12,
     <1>13, <1>14, <1>15, <1>16 DEF Next, Session

\* Every variable keeps its type, and a session that is at work has its
\* account open.
THEOREM TypeCorrect == Spec => []TypeOK
BY InitTypes, NextTypes, PTL DEF Spec

-----------------------------------------------------------------------------
(* Regions are announced.                                                  *)

Pending(s, a) == step[s] \in {"reloading", "announcing"} /\ at[s] = a

\* What the owner of an account knows, is excused, or will be told.
Coverage(a) ==
  {r \in Region : \/ r \in announced[a] \cup excused[a]
                  \/ \E s \in Session : Pending(s, a) /\ r \in news[s]}

\* A session compares with the list it has read, so that list must be covered
\* as well as the stored one; and no transaction has seen an account that is
\* yet to be created, so that an account starts with nothing to cover.
CoverageInv ==
  /\ TypeOK
  /\ \A a \in Account : Exists(row, a) =>
       /\ row[a].regions \subseteq Coverage(a)
       /\ \A s \in Session : Exists(view[s], a) => view[s][a].regions \subseteq Coverage(a)
  /\ \A s \in Session, a \in Account : Exists(view[s], a) => row[a] # NotYet

\* A step keeps the invariant if it never shrinks what is covered, keeps the
\* stored lists covered and gives a session no view but the stored table.
LEMMA CoverageKept ==
  ASSUME CoverageInv, TypeOK',
         \A a \in Account : Exists(row', a) =>
           /\ Coverage(a) \subseteq Coverage(a)'
           /\ row'[a].regions \subseteq Coverage(a)'
           /\ Exists(row, a) \/ row[a] = NotYet,
         \A a \in Account : row[a] # NotYet => row'[a] # NotYet,
         \A s \in Session : view'[s] \in {view[s], row', NoTable}
  PROVE  CoverageInv'
<1>1. \A s \in Session, a \in Account : Exists(view'[s], a) => row'[a] # NotYet
  BY DEF CoverageInv, Exists, NoTable
<1>2. ASSUME NEW a \in Account, Exists(row', a), NEW s \in Session, Exists(view'[s], a)
      PROVE  view'[s][a].regions \subseteq Coverage(a)'
  <2>1. CASE view'[s] = view[s]
    <3>1. row[a] # NotYet
      BY <1>2, <2>1 DEF CoverageInv
    <3>2. view[s][a].regions \subseteq Coverage(a)
      BY <1>2, <2>1, <3>1 DEF CoverageInv
    <3> QED BY <1>2, <2>1, <3>2
  <2>2. CASE view'[s] = row'
    BY <1>2, <2>2
  <2>3. CASE view'[s] = NoTable
    BY <1>2, <2>3 DEF Exists, NoTable
  <2> QED BY <2>1, <2>2, <2>3
<1> QED BY <1>1, <1>2 DEF CoverageInv

\* What is covered stays covered when only session s has moved and the news it
\* had to announce, if any, are covered in another way.
LEMMA CoverageGrows ==
  ASSUME TypeOK, NEW s \in Session, NEW a \in Account,
         announced[a] \subseteq announced'[a], excused[a] \subseteq excused'[a],
         \A q \in Session \ {s} :
           step'[q] = step[q] /\ at'[q] = at[q] /\ news'[q] = news[q],
         Pending(s, a) => news[s] \subseteq Coverage(a)'
  PROVE  Coverage(a) \subseteq Coverage(a)'
BY DEF Coverage, Pending, TypeOK

\* The same when no session has moved.
LEMMA CoverageSame ==
  ASSUME NEW a \in Account, UNCHANGED <<announced, excused, step, at, news>>
  PROVE  Coverage(a)' = Coverage(a)
BY DEF Coverage, Pending

\* A session with nothing to announce ends.
LEMMA EndsCovered ==
  ASSUME CoverageInv, TypeOK', NEW s \in Session, Ends(s), row' = row,
         \A a \in Account : announced[a] \subseteq announced'[a] /\ excused[a] \subseteq excused'[a],
         \A a \in Account : Exists(row, a) /\ Pending(s, a) => news[s] \subseteq excused'[a]
  PROVE  CoverageInv'
<1>1. TypeOK /\ row \in Table /\ row' \in Table
  BY DEF CoverageInv, TypeOK, Table
<1>2. \A q \in Session \ {s} :
        /\ step'[q] = step[q] /\ at'[q] = at[q]
        /\ news'[q] = news[q] /\ view'[q] = view[q]
  BY <1>1, EndsType
<1>3. view'[s] = NoTable
  BY <1>1 DEF Ends, TypeOK
<1>4. ASSUME NEW a \in Account, Exists(row', a) PROVE Coverage(a) \subseteq Coverage(a)'
  <2>1. Pending(s, a) => news[s] \subseteq Coverage(a)'
    BY <1>1, <1>4 DEF Coverage, TypeOK
  <2> QED BY <1>1, <1>2, <2>1, CoverageGrows
<1>5. \A a \in Account : Exists(row, a) => row[a].regions \subseteq Coverage(a)
  BY DEF CoverageInv
<1> QED BY <1>2, <1>3, <1>4, <1>5, CoverageKept DEF Exists

\* No step of a session with nothing pending shrinks what is covered.
LEMMA MoveCovered ==
  ASSUME CoverageInv, TypeOK', NEW s \in Session,
         \A q \in Session \ {s} :
           /\ step'[q] = step[q] /\ at'[q] = at[q]
           /\ news'[q] = news[q] /\ view'[q] = view[q],
         view'[s] \in {view[s], row'},
         \A a \in Account : announced[a] \subseteq announced'[a] /\ excused[a] \subseteq excused'[a],
         \A a \in Account : row[a] # NotYet => row'[a] # NotYet,
         \A a \in Account : Exists(row', a) => Exists(row, a) /\ row'[a].regions = row[a].regions,
         \A a \in Account : Pending(s, a) => news[s] \subseteq Coverage(a)'
  PROVE  CoverageInv'
<1>1. \A a \in Account : Coverage(a) \subseteq Coverage(a)'
  BY CoverageGrows DEF CoverageInv
<1>2. \A a \in Account : Exists(row', a) => row'[a].regions \subseteq Coverage(a)'
  BY <1>1 DEF CoverageInv
<1> QED BY <1>1, <1>2, CoverageKept

\* Nothing the invariant speaks of has changed.
LEMMA CoverageUnmoved ==
  ASSUME CoverageInv, TypeOK', UNCHANGED <<row, step, view, at, news, announced, excused>>
  PROVE  CoverageInv'
<1>1. \A a \in Account : Coverage(a)' = Coverage(a)
  BY CoverageSame
<1> QED BY <1>1 DEF CoverageInv, Exists

\* Every region in a stored list was announced, is excused, or is about to be
\* announced (sync_account).
THEOREM NothingUnannounced == Spec => []RegionsAnnounced
<1>1. Init => CoverageInv
  <2> SUFFICES ASSUME Init PROVE CoverageInv
    OBVIOUS
  <2>1. TypeOK
    BY InitTypes
  <2>2. \A p \in Provider, k \in Secret : [NewRow(p, k) EXCEPT !.validated = TRUE].regions = {}
    BY DEF NewRow
  <2>3. ASSUME NEW a \in Account, Exists(row, a) PROVE row[a].regions = {}
    <3>1. PICK p \in Provider, k \in Secret : row[a] = [NewRow(p, k) EXCEPT !.validated = TRUE]
      BY <2>3 DEF Init, Exists
    <3> QED BY <2>2, <3>1
  <2>4. \A s \in Session, a \in Account : ~ Exists(view[s], a)
    BY DEF Init, Exists, NoTable
  <2> QED BY <2>1, <2>3, <2>4 DEF CoverageInv
<1>2. CoverageInv /\ [Next]_vars => CoverageInv'
  <2> SUFFICES ASSUME CoverageInv, [Next]_vars PROVE CoverageInv'
    OBVIOUS
  <2>0. TypeOK /\ TypeOK'
    BY NextTypes DEF CoverageInv
  <2>1. ASSUME NEW s \in Session, StartSweep(s) PROVE CoverageInv'
    BY <2>0, <2>1, MoveCovered DEF StartSweep, TypeOK, Pending, ghost
  <2>2. ASSUME NEW s \in Session, NEW a \in Account, StartRefresh(s, a) PROVE CoverageInv'
    BY <2>0, <2>2, MoveCovered DEF StartRefresh, TypeOK, Pending, ghost
  <2>3. ASSUME NEW s \in Session, NEW a \in Account, StartValidation(s, a) PROVE CoverageInv'
    BY <2>0, <2>3, MoveCovered DEF StartValidation, TypeOK, Pending
  <2>4. ASSUME NEW s \in Session, CommitValidation(s) PROVE CoverageInv'
    <3>1. at[s] \in Account /\ Exists(view[s], at[s]) /\ step[s] = "testing"
      BY <2>0, <2>4 DEF CommitValidation, TypeOK, Working
    <3>2. CASE Exists(row, at[s])
      <4> DEFINE v == Validated(row[at[s]], view[s][at[s]])
      <4>1. v \in Row /\ v.regions = row[at[s]].regions
        BY <2>0, <3>1, <3>2, RowsExist, ValidatedType DEF TypeOK, Table
      <4>2. row' = [row EXCEPT ![at[s]] = v]
        BY <2>4, <3>2 DEF CommitValidation
      <4> HIDE DEF v
      <4>3. \A a \in Account :
              /\ row[a] # NotYet => row'[a] # NotYet
              /\ Exists(row', a) => Exists(row, a) /\ row'[a].regions = row[a].regions
        <5>1. v # NotYet
          BY <4>1 DEF Row, NotYet
        <5> QED BY <2>0, <3>2, <4>1, <4>2, <5>1 DEF TypeOK, Exists
      <4>4. view' = [view EXCEPT ![s] = row'] /\ step' = [step EXCEPT ![s] = "sweeping"]
        BY <2>4, <3>2 DEF CommitValidation
      <4>5. at' = [at EXCEPT ![s] = NoAccount] /\ news' = news
        BY <2>4, <3>2 DEF CommitValidation
      <4>6. announced' = announced /\ excused' = excused
        BY <2>4 DEF CommitValidation, ghost
      <4> QED BY <2>0, <3>1, <4>3, <4>4, <4>5, <4>6, MoveCovered DEF TypeOK, Pending
    <3>3. CASE ~ Exists(row, at[s])
      BY <2>0, <2>4, <3>1, <3>3, EndsCovered DEF CommitValidation, ghost, Pending
    <3> QED BY <3>2, <3>3
  <2>5. ASSUME NEW s \in Session, NEW a \in Account, Visit(s, a) PROVE CoverageInv'
    <3>1. step[s] = "sweeping" /\ row' = row /\ announced' = announced /\ excused' = excused
      BY <2>5 DEF Visit, ghost
    <3>2. CASE Exists(view[s], a)
      <4>1. \A q \in Session \ {s} : step'[q] = step[q] /\ at'[q] = at[q] /\ news'[q] = news[q]
        BY <2>0, <2>5, <3>2 DEF Visit, TypeOK
      <4>2. view' = view
        BY <2>5, <3>2 DEF Visit
      <4> QED BY <2>0, <3>1, <4>1, <4>2, MoveCovered DEF Pending
    <3>3. CASE ~ Exists(view[s], a)
      BY <2>0, <2>5, <3>1, <3>3, EndsCovered DEF Visit, Pending
    <3> QED BY <3>2, <3>3
  <2>6. ASSUME NEW s \in Session, NEW a \in Account, CallFails(s, a) PROVE CoverageInv'
    BY <2>0, <2>6, MoveCovered DEF CallFails, Pending, ghost
  <2>7. ASSUME NEW s \in Session, CommitListing(s) PROVE CoverageInv'
    <3>0. PICK a \in Account : at[s] = a
      BY <2>0, <2>7 DEF CommitListing, TypeOK, Working
    <3> USE <3>0
    <3>1. a \in Account /\ Exists(view[s], a) /\ step[s] = "listing"
      BY <2>0, <2>7 DEF CommitListing, TypeOK, Working
    <3>a. PICK seen : seen = view[s][a]
      OBVIOUS
    <3> USE <3>a
    <3>2. step' = [step EXCEPT ![s] = "reloading"] /\ at' = at /\ view' = view
          /\ announced' = announced
      BY <2>7 DEF CommitListing
    <3>3. \A b \in Account : excused[b] \subseteq excused'[b]
      <4>1. CASE answer[s] = "ok" /\ Exists(row, a)
        <5>1. excused' = [excused EXCEPT ![a] =
                            IF seen.regions = {} THEN @ \cup news[s] ELSE @]
          BY <2>7, <4>1 DEF CommitListing
        <5> QED BY <2>0, <5>1 DEF TypeOK
      <4>2. CASE ~ (answer[s] = "ok" /\ Exists(row, a))
        BY <2>7, <4>2 DEF CommitListing
      <4> QED BY <4>1, <4>2
    <3>4. \A q \in Session \ {s} : step'[q] = step[q] /\ at'[q] = at[q] /\ news'[q] = news[q]
      BY <2>0, <2>7, <3>2 DEF CommitListing, TypeOK
    <3>5. \A b \in Account : Coverage(b) \subseteq Coverage(b)'
      BY <2>0, <3>1, <3>2, <3>3, <3>4, CoverageGrows DEF Pending
    <3>6. seen \in Row /\ (Exists(row, a) => row[a] \in Row)
      BY <2>0, <3>1, RowsExist DEF TypeOK, Table
    <3>7. CASE answer[s] = "ok" /\ Exists(row, a)
      <4> DEFINE new == Listed(row[a], seen, news[s])
      <4>1. row' = [row EXCEPT ![a] = new]
        BY <2>7, <3>7 DEF CommitListing
      <4>2. news' = [news EXCEPT ![s] = Fresh(news[s], seen.regions)]
        BY <2>7, <3>7 DEF CommitListing
      <4>3. excused' = [excused EXCEPT ![a] =
                          IF seen.regions = {} THEN @ \cup news[s] ELSE @]
        BY <2>7, <3>7 DEF CommitListing
      <4>4. new \in Row /\ new.regions = IF news[s] = seen.regions THEN row[a].regions ELSE news[s]
        BY <2>0, <3>6, <3>7, ListedType DEF TypeOK
      <4> HIDE DEF new
      <4>5. seen.regions \subseteq Coverage(a) /\ row[a].regions \subseteq Coverage(a)
        BY <3>1, <3>7 DEF CoverageInv
      <4>6. Pending(s, a)'
        BY <2>0, <3>1, <3>2 DEF Pending, TypeOK
      <4>7. news[s] \subseteq Coverage(a)'
        <5>1. CASE seen.regions = {}
          <6>1. news[s] \subseteq excused'[a]
            BY <2>0, <4>3, <5>1 DEF TypeOK
          <6> QED BY <2>0, <6>1 DEF Coverage, TypeOK
        <5>2. CASE seen.regions # {}
          <6>1. news'[s] = news[s] \ seen.regions
            BY <2>0, <4>2, <5>2 DEF Fresh, TypeOK
          <6>2. news[s] \ seen.regions \subseteq Coverage(a)'
            BY <2>0, <4>6, <6>1 DEF Coverage, TypeOK
          <6> QED BY <3>1, <3>5, <4>5, <6>2
        <5> QED BY <5>1, <5>2
      <4>8. new.regions \subseteq Coverage(a)'
        BY <3>1, <3>5, <4>4, <4>5, <4>7
      <4>9. new # NotYet /\ new # Gone
        BY <4>4 DEF Row, NotYet, Gone
      <4>10. \A b \in Account : row[b] # NotYet => row'[b] # NotYet
        BY <2>0, <3>1, <4>1, <4>9 DEF TypeOK
      <4>11. \A b \in Account : Exists(row', b) =>
               Exists(row, b) /\ row'[b].regions \subseteq Coverage(b)'
        <5> SUFFICES ASSUME NEW b \in Account, Exists(row', b)
                     PROVE  Exists(row, b) /\ row'[b].regions \subseteq Coverage(b)'
          OBVIOUS
        <5>1. CASE b = a
          BY <2>0, <3>1, <3>7, <4>1, <4>8, <5>1 DEF TypeOK
        <5>2. CASE b # a
          <6>1. row'[b] = row[b]
            BY <2>0, <3>1, <4>1, <5>2 DEF TypeOK
          <6> QED BY <3>5, <6>1 DEF CoverageInv, Exists
        <5> QED BY <5>1, <5>2
      <4> QED BY <2>0, <3>2, <3>5, <4>10, <4>11, CoverageKept
    <3>8. CASE answer[s] = "refused" /\ Exists(row, a)
      <4> DEFINE st == Net(row[a].status, seen.status, "ERROR")
                 new == [row[a] EXCEPT !.status = st]
      <4>1. row' = [row EXCEPT ![a] = new]
        BY <2>0, <2>7, <3>1, <3>8 DEF CommitListing, TypeOK
      <4>2. new \in Row /\ new.regions = row[a].regions
        BY <3>6, <3>8, RefusedType
      <4> HIDE DEF new
      <4>3. new # NotYet /\ new # Gone
        BY <4>2 DEF Row, NotYet, Gone
      <4>4. \A b \in Account : row[b] # NotYet => row'[b] # NotYet
        BY <2>0, <3>1, <4>1, <4>3 DEF TypeOK
      <4>5. \A b \in Account : Exists(row', b) => Exists(row, b) /\ row'[b].regions = row[b].regions
        BY <2>0, <3>1, <3>8, <4>1, <4>2 DEF TypeOK, Exists
      <4>6. \A b \in Account : Exists(row', b) => row'[b].regions \subseteq Coverage(b)'
        BY <3>5, <4>5 DEF CoverageInv
      <4> QED BY <2>0, <3>2, <3>5, <4>4, <4>5, <4>6, CoverageKept
    <3>9. CASE ~ Exists(row, a)
      <4>1. row' = row
        BY <2>7, <3>9 DEF CommitListing
      <4>2. \A b \in Account : Exists(row', b) => Exists(row, b) /\ row'[b].regions \subseteq Coverage(b)'
        BY <3>5, <4>1 DEF CoverageInv
      <4> QED BY <2>0, <3>2, <3>5, <4>1, <4>2, CoverageKept
    <3>10. answer[s] \in {"ok", "refused"}
      BY <2>0 DEF TypeOK
    <3> QED BY <3>7, <3>8, <3>9, <3>10
  <2>8. ASSUME NEW s \in Session, Reload(s) PROVE CoverageInv'
    <3>1. step[s] = "reloading" /\ row' = row /\ announced' = announced /\ excused' = excused
      BY <2>8 DEF Reload, ghost
    <3>2. CASE Exists(row, at[s])
      <4>1. view' = [view EXCEPT ![s] = row] /\ at' = at /\ news' = news
        BY <2>8, <3>2 DEF Reload
      <4>2. step' = [step EXCEPT ![s] = IF news[s] # {} THEN "announcing" ELSE "sweeping"]
        BY <2>8, <3>2 DEF Reload
      <4>3. \A b \in Account : Pending(s, b) => news[s] \subseteq Coverage(b)'
        BY <2>0, <4>1, <4>2 DEF Pending, Coverage, TypeOK
      <4>4. \A q \in Session \ {s} : step'[q] = step[q] /\ view'[q] = view[q]
        BY <2>0, <4>1, <4>2 DEF TypeOK
      <4>5. view'[s] = row'
        BY <2>0, <3>1, <4>1 DEF TypeOK
      <4> QED BY <2>0, <3>1, <4>1, <4>3, <4>4, <4>5, MoveCovered
    <3>3. CASE ~ Exists(row, at[s])
      BY <2>0, <2>8, <3>1, <3>3, EndsCovered DEF Reload, Pending
    <3> QED BY <3>2, <3>3
  <2>9. ASSUME NEW s \in Session, Announce(s) PROVE CoverageInv'
    <3>1. at[s] \in Account /\ row' = row /\ at' = at /\ excused' = excused
      BY <2>0, <2>9 DEF Announce, TypeOK, Working
    <3>2. announced' = [announced EXCEPT ![at[s]] = @ \cup news[s]]
      BY <2>9 DEF Announce
    <3>3. \A b \in Account : announced[b] \subseteq announced'[b]
      BY <2>0, <3>1, <3>2 DEF TypeOK
    <3>4. \A b \in Account : Pending(s, b) => news[s] \subseteq Coverage(b)'
      BY <2>0, <3>1, <3>2 DEF Pending, Coverage, TypeOK
    <3>5. view' = [view EXCEPT ![s] = row]
      BY <2>9 DEF Announce
    <3>6. \A q \in Session \ {s} : step'[q] = step[q] /\ news'[q] = news[q] /\ view'[q] = view[q]
      BY <2>0, <2>9 DEF Announce, TypeOK
    <3>7. view'[s] = row'
      BY <2>0, <3>1, <3>5 DEF TypeOK
    <3> QED BY <2>0, <3>1, <3>3, <3>4, <3>6, <3>7, MoveCovered
  <2>10. ASSUME NEW s \in Session, Finish(s) PROVE CoverageInv'
    BY <2>0, <2>10, EndsCovered DEF Finish, Pending, ghost
  <2>11. ASSUME NEW s \in Session, Crash(s) PROVE CoverageInv'
    <3>1. Ends(s) /\ row' = row /\ announced' = announced
      BY <2>11 DEF Crash
    <3>2. \A b \in Account : excused[b] \subseteq excused'[b]
      BY <2>0, <2>11 DEF Crash, TypeOK
    <3>3. \A b \in Account : Pending(s, b) => news[s] \subseteq excused'[b]
      BY <2>0, <2>11 DEF Crash, Pending, TypeOK
    <3> QED BY <2>0, <3>1, <3>2, <3>3, EndsCovered
  <2>12. ASSUME NEW a \in Account, Delete(a) PROVE CoverageInv'
    <3>1. row' = [row EXCEPT ![a] = Gone] /\ UNCHANGED <<session, ghost>>
      BY <2>12 DEF Delete
    <3>2. \A b \in Account : Coverage(b)' = Coverage(b)
      BY <3>1, CoverageSame DEF session, ghost
    <3>3. \A b \in Account : Exists(row', b) => Exists(row, b) /\ row'[b] = row[b]
      BY <2>0, <3>1 DEF TypeOK, Exists
    <3>4. \A b \in Account : row[b] # NotYet => row'[b] # NotYet
      BY <2>0, <3>1 DEF TypeOK, NotYet, Gone
    <3>5. \A b \in Account : Exists(row', b) => row'[b].regions \subseteq Coverage(b)'
      BY <3>2, <3>3 DEF CoverageInv
    <3> QED BY <2>0, <3>1, <3>2, <3>3, <3>4, <3>5, CoverageKept DEF session
  <2>13. ASSUME NEW a \in Account, NEW p \in Provider, NEW k \in Secret, Create(a, p, k)
         PROVE  CoverageInv'
    <3>1. /\ row' = [row EXCEPT ![a] = NewRow(p, k)] /\ row[a] = NotYet
          /\ UNCHANGED <<session, ghost>>
      BY <2>13 DEF Create
    <3>2. \A b \in Account : Coverage(b)' = Coverage(b)
      BY <3>1, CoverageSame DEF session, ghost
    <3>3. \A b \in Account : Exists(row', b) =>
            (Exists(row, b) \/ row[b] = NotYet) /\ row'[b].regions \subseteq Coverage(b)'
      <4> SUFFICES ASSUME NEW b \in Account, Exists(row', b)
                   PROVE (Exists(row, b) \/ row[b] = NotYet) /\ row'[b].regions \subseteq Coverage(b)'
        OBVIOUS
      <4>1. CASE b = a
        BY <2>0, <3>1, <4>1, NewRowType DEF TypeOK
      <4>2. CASE b # a
        <5>1. row'[b] = row[b]
          BY <2>0, <3>1, <4>2 DEF TypeOK
        <5> QED BY <3>2, <5>1 DEF CoverageInv, Exists
      <4> QED BY <4>1, <4>2
    <3>4. NewRow(p, k) # NotYet
      BY NewRowType DEF Row, NotYet
    <3>5. \A b \in Account : row[b] # NotYet => row'[b] # NotYet
      BY <2>0, <3>1, <3>4 DEF TypeOK
    <3> QED BY <2>0, <3>1, <3>2, <3>3, <3>5, CoverageKept DEF session
  <2>14. ASSUME NEW e \in Editor, NEW a \in Account, NEW c \in Change, BeginEdit(e, a, c)
         PROVE  CoverageInv'
    <3>1. UNCHANGED <<row, session, ghost>>
      BY <2>14 DEF BeginEdit
    <3> QED BY <2>0, <3>1, CoverageUnmoved DEF session, ghost
  <2>15. ASSUME NEW e \in Editor, EndEdit(e) PROVE CoverageInv'
    <3> DEFINE b == edit[e].account
               new == Edited(row[b], edit[e].seen, edit[e].change)
    <3>1. edit[e] \in Edit /\ UNCHANGED <<session, ghost>>
      BY <2>0, <2>15 DEF EndEdit, TypeOK
    <3>2. CASE Exists(row, b)
      <4>1. row[b] \in Row /\ b \in Account
        BY <2>0, <3>1, <3>2, RowsExist DEF TypeOK, Table, Edit
      <4>2. new \in Row /\ new.regions = row[b].regions
        <5>1. edit[e].seen \in Row /\ edit[e].change \in Change
          BY <3>1 DEF Edit
        <5> QED BY <4>1, <5>1, EditedType
      <4>3. row' = [row EXCEPT ![b] = new]
        BY <2>15, <3>2 DEF EndEdit
      <4> HIDE DEF new
      <4>4. new # NotYet
        BY <4>2 DEF Row, NotYet
      <4>5. \A c \in Account : row[c] # NotYet => row'[c] # NotYet
        BY <2>0, <4>1, <4>3, <4>4 DEF TypeOK
      <4>6. \A c \in Account : Exists(row', c) => Exists(row, c) /\ row'[c].regions = row[c].regions
        BY <2>0, <3>2, <4>1, <4>2, <4>3 DEF TypeOK, Exists
      <4>7. \A c \in Account : Coverage(c)' = Coverage(c)
        BY <3>1, CoverageSame DEF session, ghost
      <4>8. \A c \in Account : Exists(row', c) => row'[c].regions \subseteq Coverage(c)'
        BY <4>6, <4>7 DEF CoverageInv
      <4> QED BY <2>0, <3>1, <4>5, <4>6, <4>7, <4>8, CoverageKept DEF session
    <3>3. CASE ~ Exists(row, b)
      BY <2>0, <2>15, <3>1, <3>3, CoverageUnmoved DEF EndEdit, session, ghost
    <3> QED BY <3>2, <3>3
  <2>16. CASE Evolve
    BY <2>0, <2>16, CoverageUnmoved DEF Evolve, session, ghost
  <2>17. CASE UNCHANGED vars
    BY <2>0, <2>17, CoverageUnmoved DEF vars, session, ghost
  <2> QED
    BY <2>1, <2>2, <2>3, <2>4, <2>5, <2>6, <2>7, <2>8, <2>9, <2>10, <2>11, <2>12,
       <2>13, <2>14, <2>15, <2>16, <2>17 DEF Next, Session
<1>3. CoverageInv => RegionsAnnounced
  BY DEF CoverageInv, RegionsAnnounced, Coverage, Pending
<1> QED BY <1>1, <1>2, <1>3, PTL DEF Spec

-----------------------------------------------------------------------------
(* Only what was proved is trusted.                                        *)

\* A session between the provider's answer and its commit stands for the
\* credentials it has read, whatever happens to the row meanwhile.
ProofInv ==
  /\ TypeOK
  /\ \A s \in Session : step[s] = "testing" =>
       <<at[s], view[s][at[s]].provider, view[s][at[s]].secret>> \in proven

\* No step changes what a session in that place has read.
LEMMA ProofKept ==
  ASSUME ProofInv, TypeOK', proven \subseteq proven',
         \A s \in Session : step'[s] = "testing" =>
           step[s] = "testing" /\ at'[s] = at[s] /\ view'[s] = view[s]
  PROVE  ProofInv'
BY DEF ProofInv

LEMMA EndsProof ==
  ASSUME ProofInv, TypeOK', NEW s \in Session, Ends(s), proven' = proven
  PROVE  ProofInv'
<1>1. \A q \in Session : step'[q] = "testing" =>
        step[q] = "testing" /\ at'[q] = at[q] /\ view'[q] = view[q]
  BY DEF ProofInv, TypeOK, Ends
<1> QED BY <1>1, ProofKept

LEMMA InitProof == Init => ProofInv
BY InitTypes DEF ProofInv, Init

LEMMA NextProof == ProofInv /\ [Next]_vars => ProofInv'
<1> SUFFICES ASSUME ProofInv, [Next]_vars PROVE ProofInv'
  OBVIOUS
<1>0. TypeOK /\ TypeOK'
  BY NextTypes DEF ProofInv
<1>1. ASSUME NEW s \in Session, StartSweep(s) PROVE ProofInv'
  BY <1>0, <1>1, ProofKept DEF StartSweep, TypeOK, ghost
<1>2. ASSUME NEW s \in Session, NEW a \in Account, StartRefresh(s, a) PROVE ProofInv'
  BY <1>0, <1>2, ProofKept DEF StartRefresh, TypeOK, ghost
<1>3. ASSUME NEW s \in Session, NEW a \in Account, StartValidation(s, a) PROVE ProofInv'
  <2>1. at'[s] = a /\ view'[s] = row
    BY <1>0, <1>3 DEF StartValidation, TypeOK
  <2>2. proven' = proven \cup {<<a, row[a].provider, row[a].secret>>}
    BY <1>3 DEF StartValidation
  <2>3. <<at'[s], view'[s][at'[s]].provider, view'[s][at'[s]].secret>> \in proven'
    BY <2>1, <2>2
  <2>4. \A q \in Session : q # s =>
          step'[q] = step[q] /\ at'[q] = at[q] /\ view'[q] = view[q]
    BY <1>0, <1>3 DEF StartValidation, TypeOK
  <2>5. ASSUME NEW q \in Session, step'[q] = "testing"
        PROVE  <<at'[q], view'[q][at'[q]].provider, view'[q][at'[q]].secret>> \in proven'
    <3>1. CASE q = s
      BY <2>3, <3>1
    <3>2. CASE q # s
      <4>1. step'[q] = step[q] /\ at'[q] = at[q] /\ view'[q] = view[q]
        BY <2>4, <3>2
      <4>2. <<at[q], view[q][at[q]].provider, view[q][at[q]].secret>> \in proven
        BY <2>5, <4>1 DEF ProofInv
      <4> QED BY <2>2, <4>1, <4>2
    <3> QED BY <3>1, <3>2
  <2> QED BY <1>0, <2>5 DEF ProofInv
<1>4. ASSUME NEW s \in Session, CommitValidation(s) PROVE ProofInv'
  <2>1. proven' = proven
    BY <1>4 DEF CommitValidation, ghost
  <2>2. CASE Exists(row, at[s])
    <3>1. \A q \in Session : q # s =>
            step'[q] = step[q] /\ at'[q] = at[q] /\ view'[q] = view[q]
      BY <1>0, <1>4, <2>2 DEF CommitValidation, TypeOK
    <3>2. step'[s] = "sweeping"
      BY <1>0, <1>4, <2>2 DEF CommitValidation, TypeOK
    <3> QED BY <1>0, <2>1, <3>1, <3>2, ProofKept
  <2>3. CASE ~ Exists(row, at[s])
    BY <1>0, <1>4, <2>1, <2>3, EndsProof DEF CommitValidation
  <2> QED BY <2>2, <2>3
<1>5. ASSUME NEW s \in Session, NEW a \in Account, Visit(s, a) PROVE ProofInv'
  <2>1. proven' = proven
    BY <1>5 DEF Visit, ghost
  <2>2. CASE Exists(view[s], a)
    <3>1. step' = [step EXCEPT ![s] = "listing"] /\ at' = [at EXCEPT ![s] = a] /\ view' = view
      BY <1>5, <2>2 DEF Visit
    <3> QED BY <1>0, <2>1, <3>1, ProofKept DEF TypeOK
  <2>3. CASE ~ Exists(view[s], a)
    BY <1>0, <1>5, <2>1, <2>3, EndsProof DEF Visit
  <2> QED BY <2>2, <2>3
<1>6. ASSUME NEW s \in Session, NEW a \in Account, CallFails(s, a) PROVE ProofInv'
  BY <1>0, <1>6, ProofKept DEF CallFails, ghost
<1>7. ASSUME NEW s \in Session, CommitListing(s) PROVE ProofInv'
  <2>1. step' = [step EXCEPT ![s] = "reloading"] /\ UNCHANGED <<view, at, proven>>
    BY <1>7 DEF CommitListing
  <2> QED BY <1>0, <2>1, ProofKept DEF TypeOK
<1>8. ASSUME NEW s \in Session, Reload(s) PROVE ProofInv'
  <2>1. proven' = proven
    BY <1>8 DEF Reload, ghost
  <2>2. CASE Exists(row, at[s])
    <3>1. \A q \in Session : q # s =>
            step'[q] = step[q] /\ at'[q] = at[q] /\ view'[q] = view[q]
      BY <1>0, <1>8, <2>2 DEF Reload, TypeOK
    <3>2. step'[s] # "testing"
      BY <1>0, <1>8, <2>2 DEF Reload, TypeOK
    <3> QED BY <1>0, <2>1, <3>1, <3>2, ProofKept
  <2>3. CASE ~ Exists(row, at[s])
    BY <1>0, <1>8, <2>1, <2>3, EndsProof DEF Reload
  <2> QED BY <2>2, <2>3
<1>9. ASSUME NEW s \in Session, Announce(s) PROVE ProofInv'
  BY <1>0, <1>9, ProofKept DEF Announce, TypeOK
<1>10. ASSUME NEW s \in Session, Finish(s) \/ Crash(s) PROVE ProofInv'
  <2>1. Ends(s) /\ proven' = proven
    BY <1>10 DEF Finish, Crash, ghost
  <2> QED BY <1>0, <2>1, EndsProof
<1>11. ASSUME NEW a \in Account, Delete(a) PROVE ProofInv'
  BY <1>0, <1>11, ProofKept DEF Delete, session, ghost
<1>12. ASSUME NEW a \in Account, NEW p \in Provider, NEW k \in Secret, Create(a, p, k)
       PROVE  ProofInv'
  BY <1>0, <1>12, ProofKept DEF Create, session, ghost
<1>13. ASSUME NEW e \in Editor, NEW a \in Account, NEW c \in Change, BeginEdit(e, a, c)
       PROVE  ProofInv'
  BY <1>0, <1>13, ProofKept DEF BeginEdit, session, ghost
<1>14. ASSUME NEW e \in Editor, EndEdit(e) PROVE ProofInv'
  BY <1>0, <1>14, ProofKept DEF EndEdit, session, ghost
<1>15. CASE Evolve
  BY <1>0, <1>15, ProofKept DEF Evolve, session, ghost
<1>16. CASE UNCHANGED vars
  BY <1>0, <1>16, ProofKept DEF vars, session, ghost
<1> QED
  BY <1>1, <1>2, <1>3, <1>4, <1>5, <1>6, <1>7, <1>8, <1>9, <1>10, <1>11, <1>12,
     <1>13, <1>14, <1>15, <1>16 DEF Next, Session

\* Two rows that agree in the flag and the credentials.
SameTrust(r, q) == r.provider = q.provider /\ r.secret = q.secret /\ r.validated = q.validated

\* The listings leave them alone.
LEMMA ListedTrust ==
  ASSUME NEW r \in Row, NEW seen, NEW listed
  PROVE  SameTrust(Listed(r, seen, listed), r)
<1> DEFINE reg == Net(r.regions, seen.regions, listed)
           st  == Net(r.status, seen.status, "CONNECTED")
<1>1. Listed(r, seen, listed) = [r EXCEPT !.regions = reg, !.status = st]
  BY DEF Listed
<1> HIDE DEF reg, st
<1> QED BY <1>1 DEF Row, SameTrust

LEMMA RefusedTrust ==
  ASSUME NEW r \in Row, NEW st
  PROVE  SameTrust([r EXCEPT !.status = st], r)
BY DEF Row, SameTrust

\* A validation leaves the credentials alone.
LEMMA ValidatedTrust ==
  ASSUME NEW r \in Row, NEW seen
  PROVE  Validated(r, seen).provider = r.provider /\ Validated(r, seen).secret = r.secret
<1> DEFINE w == IF seen.validated THEN r.validated ELSE TRUE
           st == IF seen.status = "CONNECTED" THEN r.status ELSE "CONNECTED"
<1>1. Validated(r, seen) = [r EXCEPT !.validated = w, !.status = st]
  BY DEF Validated
<1> HIDE DEF w, st
<1> QED BY <1>1 DEF Row

\* A step makes an account trusted without proof only where it writes the row
\* and changes the flag or the credentials.
LEMMA TrustKept ==
  ASSUME NEW a \in Account, ~ Unproved(row, a, proven), proven \subseteq proven',
         Exists(row', a) => Exists(row, a) /\ SameTrust(row'[a], row[a])
  PROVE  ~ Unproved(row', a, proven')
BY DEF Unproved, SameTrust

\* The same for a step that replaces the row of one account.
LEMMA TrustElsewhere ==
  ASSUME TypeOK, NEW a \in Account, NEW b \in Account, NEW new, a # b,
         ~ Unproved(row, a, proven), proven' = proven, row' = [row EXCEPT ![b] = new]
  PROVE  ~ Unproved(row', a, proven')
BY DEF Unproved, TypeOK, Exists

\* What a validation commits was proved unless an edit has outrun it.
LEMMA CommitTrusts ==
  ASSUME ProofInv, NEW s \in Session, CommitValidation(s), NEW a \in Account,
         ~ Unproved(row, a, proven), Unproved(row', a, proven')
  PROVE  Outrun(a)
<1>1. /\ TypeOK /\ step[s] = "testing" /\ at[s] \in Account /\ Exists(view[s], at[s])
      /\ proven' = proven
  BY DEF ProofInv, CommitValidation, TypeOK, Working, ghost
<1>2. Exists(row, at[s])
  BY <1>1 DEF CommitValidation
<1> DEFINE new == Validated(row[at[s]], view[s][at[s]])
<1>3. row' = [row EXCEPT ![at[s]] = new]
  BY <1>2 DEF CommitValidation
<1>4. row[at[s]] \in Row
  BY <1>1, <1>2, RowsExist DEF TypeOK, Table
<1>5. new.provider = row[at[s]].provider /\ new.secret = row[at[s]].secret
  BY <1>4, ValidatedTrust
<1> HIDE DEF new
<1>6. at[s] = a
  BY <1>1, <1>3, TrustElsewhere
<1>7. row'[a] = new
  BY <1>1, <1>3, <1>6 DEF TypeOK
<1>8. <<a, row[a].provider, row[a].secret>> \notin proven
  BY <1>1, <1>5, <1>6, <1>7 DEF Unproved
<1>9. <<a, view[s][a].provider, view[s][a].secret>> \in proven
  BY <1>1, <1>6 DEF ProofInv
<1>10. view[s][a].provider # row[a].provider \/ view[s][a].secret # row[a].secret
  BY <1>8, <1>9
<1> QED BY <1>1, <1>6, <1>10 DEF Outrun

\* What an edit leaves trusted was proved, but for the careless ones.
LEMMA EditTrusts ==
  ASSUME ProofInv, NEW e \in Editor, EndEdit(e), NEW a \in Account,
         ~ Unproved(row, a, proven), Unproved(row', a, proven')
  PROVE  Careless(a)
<1>1. TypeOK /\ edit[e] \in Edit /\ edit[e] # NoEdit /\ proven' = proven
  BY DEF ProofInv, TypeOK, EndEdit, ghost
<1>2. edit'[e] = NoEdit
  BY <1>1 DEF EndEdit, TypeOK
<1>3. PICK b \in Account, c \in Change, seen \in Row :
        edit[e].account = b /\ edit[e].change = c /\ edit[e].seen = seen
  BY <1>1 DEF Edit
<1>4. Exists(row, b)
  BY <1>1, <1>3 DEF EndEdit
<1> DEFINE new == Edited(row[b], seen, c)
<1>5. row' = [row EXCEPT ![b] = new]
  BY <1>3, <1>4 DEF EndEdit
<1>6. row[b] \in Row
  BY <1>1, <1>4, RowsExist DEF TypeOK, Table
<1>7. EditTrust(new, row[b], seen, c)
  BY <1>6, EditedType
<1> HIDE DEF new
<1>8. a = b
  BY <1>1, <1>5, TrustElsewhere
<1>9. row'[a] = new
  BY <1>1, <1>5, <1>8 DEF TypeOK
<1>10. new.validated /\ <<a, new.provider, new.secret>> \notin proven
  BY <1>1, <1>9 DEF Unproved
<1>11. ~ row[a].validated \/ <<a, row[a].provider, row[a].secret>> \in proven
  BY <1>4, <1>8 DEF Unproved
<1>12. CASE c.secret = {}
  <2>1. c.provider # {}
    BY <1>7, <1>8, <1>10, <1>11, <1>12 DEF EditTrust
  <2> QED BY <1>1, <1>2, <1>3, <1>8, <1>12, <2>1 DEF Careless
<1>13. CASE c.secret # {}
  <2>1. row[a].validated /\ ~ seen.validated
    BY <1>7, <1>8, <1>10, <1>13 DEF EditTrust
  <2> QED BY <1>1, <1>2, <1>3, <1>8, <2>1 DEF Careless
<1> QED BY <1>12, <1>13

\* Changed credentials are not trusted before a new proof, but in the three
\* cases the property names: a step comes to trust credentials only by
\* committing a proof of others, or by an edit that keeps a flag it should
\* have taken away (validate_credentials, update).
THEOREM NothingTrustedUnproved == Spec => TrustedAfterProof
<1>1. ASSUME ProofInv, Next,
             NEW a \in Account, ~ Unproved(row, a, proven), Unproved(row', a, proven')
      PROVE  Careless(a) \/ Outrun(a)
  <2>0. TypeOK
    BY <1>1 DEF ProofInv
  <2>a. ASSUME UNCHANGED row, proven \subseteq proven' PROVE FALSE
    BY <1>1, <2>a DEF Unproved, Exists
  <2>1. ASSUME NEW s \in Session, StartSweep(s) PROVE FALSE
    BY <2>1, <2>a DEF StartSweep, ghost
  <2>2. ASSUME NEW s \in Session, NEW b \in Account, StartRefresh(s, b) PROVE FALSE
    BY <2>2, <2>a DEF StartRefresh, ghost
  <2>3. ASSUME NEW s \in Session, NEW b \in Account, StartValidation(s, b) PROVE FALSE
    BY <2>3, <2>a DEF StartValidation
  <2>4. ASSUME NEW s \in Session, CommitValidation(s)
        PROVE  Outrun(a)
    BY <1>1, <2>4, CommitTrusts
  <2>5. ASSUME NEW s \in Session, NEW b \in Account, Visit(s, b) \/ CallFails(s, b)
        PROVE  FALSE
    BY <2>5, <2>a DEF Visit, CallFails, ghost
  <2>6. ASSUME NEW s \in Session, CommitListing(s) PROVE FALSE
    <3>0. PICK b \in Account : b = at[s]
      BY <2>0, <2>6 DEF CommitListing, TypeOK, Working
    <3>1. PICK seen : seen = view[s][b]
      OBVIOUS
    <3>2. proven' = proven
      BY <2>6 DEF CommitListing
    <3>3. Exists(row, b) => row[b] \in Row
      BY <2>0, RowsExist DEF TypeOK, Table
    <3>4. CASE Exists(row, b) /\ row' = [row EXCEPT ![b] = Listed(@, seen, news[s])]
      <4> DEFINE new == Listed(row[b], seen, news[s])
      <4>1. SameTrust(new, row[b])
        BY <3>3, <3>4, ListedTrust
      <4>2. row' = [row EXCEPT ![b] = new]
        BY <3>4
      <4> HIDE DEF new
      <4>3. a = b
        BY <1>1, <2>0, <3>2, <4>2, TrustElsewhere
      <4>4. row'[a] = new
        BY <2>0, <4>2, <4>3 DEF TypeOK
      <4> QED BY <1>1, <3>2, <3>4, <4>1, <4>3, <4>4, TrustKept
    <3>5. CASE Exists(row, b) /\ row' = [row EXCEPT ![b].status = Net(@, seen.status, "ERROR")]
      <4> DEFINE st  == Net(row[b].status, seen.status, "ERROR")
                 new == [row[b] EXCEPT !.status = st]
      <4>1. row' = [row EXCEPT ![b] = new]
        BY <2>0, <3>5 DEF TypeOK
      <4> HIDE DEF st
      <4>2. SameTrust(new, row[b])
        BY <3>3, <3>5, RefusedTrust
      <4> HIDE DEF new
      <4>3. a = b
        BY <1>1, <2>0, <3>2, <4>1, TrustElsewhere
      <4>4. row'[a] = new
        BY <2>0, <4>1, <4>3 DEF TypeOK
      <4> QED BY <1>1, <3>2, <3>5, <4>2, <4>3, <4>4, TrustKept
    <3>6. CASE row' = row
      BY <3>2, <3>6, <2>a
    <3> QED BY <2>6, <3>0, <3>1, <3>4, <3>5, <3>6 DEF CommitListing
  <2>7. ASSUME NEW s \in Session, Reload(s) \/ Finish(s) PROVE FALSE
    BY <2>7, <2>a DEF Reload, Finish, ghost
  <2>8. ASSUME NEW s \in Session, Announce(s) \/ Crash(s) PROVE FALSE
    BY <2>8, <2>a DEF Announce, Crash
  <2>9. ASSUME NEW b \in Account, Delete(b) PROVE FALSE
    <3>1. row' = [row EXCEPT ![b] = Gone] /\ proven' = proven
      BY <2>9 DEF Delete, ghost
    <3>2. a = b
      BY <1>1, <2>0, <3>1, TrustElsewhere
    <3> QED BY <1>1, <2>0, <3>1, <3>2 DEF Unproved, Exists, TypeOK
  <2>10. ASSUME NEW b \in Account, NEW p \in Provider, NEW k \in Secret, Create(b, p, k)
         PROVE  FALSE
    <3>1. row' = [row EXCEPT ![b] = NewRow(p, k)] /\ proven' = proven
      BY <2>10 DEF Create, ghost
    <3>2. a = b
      BY <1>1, <2>0, <3>1, TrustElsewhere
    <3>3. ~ NewRow(p, k).validated
      BY DEF NewRow
    <3> QED BY <1>1, <2>0, <3>1, <3>2, <3>3 DEF Unproved, TypeOK
  <2>11. ASSUME NEW e \in Editor, NEW b \in Account, NEW c \in Change, BeginEdit(e, b, c)
         PROVE  FALSE
    BY <2>11, <2>a DEF BeginEdit, ghost
  <2>12. ASSUME NEW e \in Editor, EndEdit(e) PROVE Careless(a)
    BY <1>1, <2>12, EditTrusts
  <2>13. CASE Evolve
    BY <2>13, <2>a DEF Evolve, ghost
  <2> QED
    BY <1>1, <2>1, <2>2, <2>3, <2>4, <2>5, <2>6, <2>7, <2>8, <2>9, <2>10, <2>11, <2>12,
       <2>13 DEF Next, Session
<1>2. ProofInv /\ [Next]_vars =>
        [\A a \in Account :
           ~ Unproved(row, a, proven) /\ Unproved(row', a, proven') =>
             Careless(a) \/ Outrun(a)]_vars
  BY <1>1
<1> QED BY InitProof, NextProof, <1>2, PTL DEF Spec, TrustedAfterProof
=============================================================================
