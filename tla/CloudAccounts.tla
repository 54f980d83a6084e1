---------------------------- MODULE CloudAccounts ----------------------------
(***************************************************************************)
(* Cloud provider accounts: their owners (CloudProviderAccountService      *)
(* create, update, delete, update_selected_region), the live validation    *)
(* of their credentials (validate_credentials) and the discovery of their  *)
(* regions with the alert about new ones (CloudRegionSyncService, run by   *)
(* the cloud_region_sync job over all accounts and by requests for one).   *)
(*                                                                         *)
(* A session is a MySQL REPEATABLE READ transaction between two commits;   *)
(* an UPDATE writes the columns that differ from the row as it was read,   *)
(* and fails when the row is gone.  An answer of the provider is fixed     *)
(* when the row is read: nothing that the call depends on comes between.   *)
(***************************************************************************)
EXTENDS Naturals, FiniteSets

CONSTANTS
  Account,    \* primary keys of cloud_provider_accounts
  Existing,   \* the accounts that exist from the start, validated
  Secret, Provider, Region,
  Regional,   \* the providers that list regions through the endpoint of the
              \* selected one
  Change,     \* what one edit may change
  Sweeper,    \* sessions of the cloud_region_sync job
  Requester,  \* sessions of requests that validate or refresh
  Editor,     \* sessions of requests that edit an account
  MaxEvents   \* bound: edits, creations, deletions, crashes, failed calls
              \* and changes at the provider, taken together

All == "all"  \* the sentinel for every region
Session == Sweeper \cup Requester

ASSUME ExistingAssumption == Existing \subseteq Account
ASSUME BoundAssumption == MaxEvents \in Nat
ASSUME RegionAssumption == All \notin Region

\* The fields of a request that may be left out.
Maybe(S) == {{}} \cup {{v} : v \in S}

\* An edit gives any of these; only a region may have to be a stored one.
ASSUME ChangeAssumption ==
  Change \subseteq [checked : BOOLEAN, provider : Maybe(Provider), secret : Maybe(Secret),
                   active : Maybe(BOOLEAN), region : Maybe(Region \cup {All})]

VARIABLES
  row,       \* row[a]: the account's row, NotYet or Gone
  accepted,  \* the <<provider, secret>> pairs a provider accepts
  offered,   \* the regions the providers list
  step,      \* step[s]: where session s is
  view,      \* view[s]: the table as the open transaction of s shows it
  todo,      \* todo[s]: accounts s has still to visit
  at,        \* at[s]: the account s is working on
  answer,    \* answer[s]: what the provider answered
  news,      \* news[s]: new regions s has still to announce
  edit,      \* edit[e]: the request e has read for and not written
  announced, \* announced[a]: regions alerted to the owner of a
  excused,   \* excused[a]: regions of a first listing, and regions whose
             \* session died between the listing's commit and its alert
  proven,    \* <<account, provider, secret>> that passed test_connection
  events     \* events so far, bounded by MaxEvents

provider == <<accepted, offered>>
session  == <<step, view, todo, at, answer, news>>
ghost    == <<announced, excused, proven>>
vars     == <<row, provider, session, edit, ghost, events>>

NotYet == [gone |-> FALSE]
Gone == [gone |-> TRUE]
Row == [provider : Provider, secret : Secret, region : Region \cup {All},
        active : BOOLEAN, validated : BOOLEAN,
        status : {"CONNECTED", "ERROR"}, regions : SUBSET Region]
Exists(table, a) == table[a] \notin {NotYet, Gone}

NoTable == [a \in Account |-> NotYet]
NoAccount == "none"
NoEdit == [by |-> "none"]
Step == {"idle", "sweeping", "testing", "listing", "reloading", "announcing"}
Edit == [account : Account, seen : Row, change : Change]

\* A session works on an account exactly when it has one open, and news are
\* announced only after their listing is committed.
Working(s) ==
  /\ step[s] \in {"testing", "listing", "reloading", "announcing"}
       => at[s] \in Account /\ (step[s] # "reloading" => Exists(view[s], at[s]))
  /\ news[s] # {} => step[s] \in {"listing", "reloading", "announcing"}

\* One type invariant.
TypeOK ==
  /\ row \in [Account -> Row \cup {NotYet, Gone}]
  /\ accepted \subseteq Provider \X Secret /\ offered \subseteq Region
  /\ step \in [Session -> Step]
  /\ view \in [Session -> [Account -> Row \cup {NotYet, Gone}]]
  /\ todo \in [Session -> SUBSET Account]
  /\ at \in [Session -> Account \cup {NoAccount}]
  /\ answer \in [Session -> {"ok", "refused"}]
  /\ news \in [Session -> SUBSET Region]
  /\ edit \in [Editor -> Edit \cup {NoEdit}]
  /\ announced \in [Account -> SUBSET Region]
  /\ excused \in [Account -> SUBSET Region]
  /\ proven \subseteq Account \X Provider \X Secret
  /\ events \in 0..MaxEvents
  /\ \A s \in Session : Working(s)

\* A row as create stores it.
NewRow(p, k) ==
  [provider |-> p, secret |-> k, region |-> All, active |-> TRUE,
   validated |-> FALSE, status |-> "CONNECTED", regions |-> {}]

Init ==
  /\ row \in [Account -> {NotYet} \cup
                {[NewRow(p, k) EXCEPT !.validated = TRUE] : p \in Provider, k \in Secret}]
  /\ \A a \in Account : (row[a] # NotYet) = (a \in Existing)
  /\ accepted = Provider \X Secret
  /\ offered \in SUBSET Region \ {{}}
  /\ step = [s \in Session |-> "idle"]
  /\ view = [s \in Session |-> NoTable]
  /\ todo = [s \in Session |-> {}]
  /\ at = [s \in Session |-> NoAccount]
  /\ answer = [s \in Session |-> "ok"]
  /\ news = [s \in Session |-> {}]
  /\ edit = [e \in Editor |-> NoEdit]
  /\ announced = [a \in Account |-> {}]
  /\ excused = [a \in Account |-> {}]
  /\ proven = {<<a, row[a].provider, row[a].secret>> : a \in Existing}
  /\ events = 0

-----------------------------------------------------------------------------
(* The provider's answers.                                                 *)

Accepts(r) == <<r.provider, r.secret>> \in accepted
\* test_connection: the credentials work and the selected region exists.
Passes(r) == Accepts(r) /\ r.region \in offered \cup {All}

\* list_regions: an application error when the provider refuses, lists nothing
\* or is asked at the endpoint of a region that is none; some failures of the
\* call itself escape as other exceptions.
Lists(r) ==
  /\ Accepts(r) /\ offered # {}
  /\ r.provider \in Regional => r.region \in offered \cup {All}
ListAnswer(r) == IF Lists(r) THEN "ok" ELSE "refused"

-----------------------------------------------------------------------------
(* Sessions.                                                               *)

\* The accounts a sweep takes: sync_all_regions filters its query.
Connected(table) ==
  {a \in Account : Exists(table, a) /\ table[a].active /\ table[a].validated}

StartSweep(s) ==
  /\ step[s] = "idle"
  /\ view' = [view EXCEPT ![s] = row]
  /\ todo' = [todo EXCEPT ![s] = Connected(row)]
  /\ step' = [step EXCEPT ![s] = "sweeping"]
  /\ UNCHANGED <<row, provider, at, answer, news, edit, ghost, events>>

\* sync_account for one request: refresh_regions, get_regions when the stored
\* list is stale.
StartRefresh(s, a) ==
  /\ step[s] = "idle"
  /\ Exists(row, a)
  /\ view' = [view EXCEPT ![s] = row]
  /\ todo' = [todo EXCEPT ![s] = {a}]
  /\ step' = [step EXCEPT ![s] = "sweeping"]
  /\ UNCHANGED <<row, provider, at, answer, news, edit, ghost, events>>

\* validate_credentials up to the provider's answer; a refusal is raised and
\* nothing has changed, an earlier validation included.
StartValidation(s, a) ==
  /\ step[s] = "idle"
  /\ Exists(row, a) /\ Passes(row[a])
  /\ view' = [view EXCEPT ![s] = row]
  /\ at' = [at EXCEPT ![s] = a]
  /\ step' = [step EXCEPT ![s] = "testing"]
  /\ proven' = proven \cup {<<a, row[a].provider, row[a].secret>>}
  /\ UNCHANGED <<row, provider, todo, answer, news, edit, announced, excused, events>>

\* Mutant of Ends: the next run of the session finds its predecessor's news.
EndsKeeping(s) ==
  /\ step' = [step EXCEPT ![s] = "idle"]
  /\ todo' = [todo EXCEPT ![s] = {}]
  /\ at' = [at EXCEPT ![s] = NoAccount]
  /\ view' = [view EXCEPT ![s] = NoTable]
  /\ UNCHANGED <<news, answer>>

\* The session ends; what it had not announced is lost.
Ends(s) ==
  /\ step' = [step EXCEPT ![s] = "idle"]
  /\ todo' = [todo EXCEPT ![s] = {}]
  /\ at' = [at EXCEPT ![s] = NoAccount]
  /\ news' = [news EXCEPT ![s] = {}]
  /\ view' = [view EXCEPT ![s] = NoTable]
  /\ answer' = [answer EXCEPT ![s] = "ok"]

\* The columns of validate_credentials that differ from the row as read.
\* (credentials_validated_at always does, so the UPDATE is always emitted.)
Validated(r, seen) ==
  [r EXCEPT !.validated = IF seen.validated THEN r.validated ELSE TRUE,
            !.status = IF seen.status = "CONNECTED" THEN r.status ELSE "CONNECTED"]

\* The commit, and the controller's sync_account that follows it.
CommitValidation(s) ==
  /\ step[s] = "testing"
  /\ IF Exists(row, at[s])
     THEN /\ row' = [row EXCEPT ![at[s]] = Validated(@, view[s][at[s]])]
          /\ view' = [view EXCEPT ![s] = row']
          /\ todo' = [todo EXCEPT ![s] = {at[s]}]
          /\ step' = [step EXCEPT ![s] = "sweeping"]
          /\ at' = [at EXCEPT ![s] = NoAccount]
          /\ UNCHANGED <<answer, news>>
     ELSE Ends(s) /\ UNCHANGED row
  /\ UNCHANGED <<provider, edit, ghost, events>>

\* The sweep reaches an account, with the row its transaction shows, and asks
\* the provider.  A row that is gone raises, and raises again in the handler
\* that logs it: the sweep is over.
Visit(s, a) ==
  /\ step[s] = "sweeping" /\ a \in todo[s]
  /\ IF Exists(view[s], a)
     THEN LET r == view[s][a] IN
          /\ step' = [step EXCEPT ![s] = "listing"]
          /\ at' = [at EXCEPT ![s] = a]
          /\ todo' = [todo EXCEPT ![s] = @ \ {a}]
          /\ answer' = [answer EXCEPT ![s] = ListAnswer(r)]
          /\ news' = [news EXCEPT ![s] = IF ListAnswer(r) = "ok" THEN offered ELSE {}]
          /\ UNCHANGED view
     ELSE Ends(s)
  /\ UNCHANGED <<row, provider, edit, ghost, events>>

\* The call fails with an exception sync_account does not expect: the sweep
\* goes on in the same transaction, a request ends.
CallFails(s, a) ==
  /\ step[s] = "sweeping" /\ a \in todo[s]
  /\ events < MaxEvents
  /\ Exists(view[s], a)
  /\ todo' = [todo EXCEPT ![s] = @ \ {a}]
  /\ events' = events + 1
  /\ UNCHANGED <<row, provider, step, view, at, answer, news, edit, ghost>>

\* What a commit leaves of a column: the new value if it differs from what
\* the session had read, else what is stored.
Net(stored, seen, new) == IF new = seen THEN stored ELSE new

\* Mutant of Fresh: compared with the baseline that has just been replaced.
FreshNone(listed, seen) == {}

\* The regions to announce: none for a first listing.
Fresh(listed, seen) == IF seen = {} THEN {} ELSE listed \ seen

\* Mutant of Listed: an ERROR stays after the provider has answered again.
ListedOnly(r, seen, listed) ==
  [r EXCEPT !.regions = Net(r.regions, seen.regions, listed)]

\* The row after a listing.
Listed(r, seen, listed) ==
  [r EXCEPT !.regions = Net(r.regions, seen.regions, listed),
            !.status = Net(r.status, seen.status, "CONNECTED")]

\* sync_account commits the listing as the new baseline, or the refusal.  If
\* the row is gone nothing is written.
CommitListing(s) ==
  LET a == at[s]  seen == view[s][a] IN
  /\ step[s] = "listing"
  /\ step' = [step EXCEPT ![s] = "reloading"]
  /\ \/ /\ answer[s] = "ok" /\ Exists(row, a)
        /\ row' = [row EXCEPT ![a] = Listed(@, seen, news[s])]
        /\ news' = [news EXCEPT ![s] = Fresh(@, seen.regions)]
        /\ excused' = [excused EXCEPT ![a] =
                         IF seen.regions = {} THEN @ \cup news[s] ELSE @]
     \/ /\ answer[s] = "refused" /\ Exists(row, a)
        /\ row' = [row EXCEPT ![a].status = Net(@, seen.status, "ERROR")]
        /\ UNCHANGED <<news, excused>>
     \/ /\ ~ Exists(row, a)
        /\ news' = [news EXCEPT ![s] = {}]
        /\ UNCHANGED <<row, excused>>
  /\ UNCHANGED <<provider, view, todo, at, answer, edit, announced, proven, events>>

\* The row is read again, in a new transaction, by db.refresh or by the log
\* message of a refusal.  If it is gone the session is over.
Reload(s) ==
  /\ step[s] = "reloading"
  /\ IF Exists(row, at[s])
     THEN /\ view' = [view EXCEPT ![s] = row]
          /\ step' = [step EXCEPT ![s] = IF news[s] # {} THEN "announcing" ELSE "sweeping"]
          /\ UNCHANGED <<todo, at, answer, news>>
     ELSE Ends(s)
  /\ UNCHANGED <<row, provider, edit, ghost, events>>

\* _notify_new_regions, and its commit: the next account is read afresh.
Announce(s) ==
  /\ step[s] = "announcing"
  /\ announced' = [announced EXCEPT ![at[s]] = @ \cup news[s]]
  /\ news' = [news EXCEPT ![s] = {}]
  /\ view' = [view EXCEPT ![s] = row]
  /\ step' = [step EXCEPT ![s] = "sweeping"]
  /\ UNCHANGED <<row, provider, todo, at, answer, edit, excused, proven, events>>

Finish(s) ==
  /\ step[s] = "sweeping" /\ todo[s] = {}
  /\ Ends(s)
  /\ UNCHANGED <<row, provider, edit, ghost, events>>

\* A crash, or a failed alert.
Crash(s) ==
  /\ step[s] # "idle"
  /\ events < MaxEvents
  /\ excused' = IF step[s] \in {"reloading", "announcing"}
                THEN [excused EXCEPT ![at[s]] = @ \cup news[s]] ELSE excused
  /\ Ends(s)
  /\ events' = events + 1
  /\ UNCHANGED <<row, provider, edit, announced, proven>>

-----------------------------------------------------------------------------
(* Owners and providers.                                                   *)

Create(a, p, k) ==
  /\ events < MaxEvents
  /\ row[a] = NotYet
  /\ row' = [row EXCEPT ![a] = NewRow(p, k)]
  /\ events' = events + 1
  /\ UNCHANGED <<provider, session, edit, ghost>>

Delete(a) ==
  /\ events < MaxEvents
  /\ Exists(row, a)
  /\ row' = [row EXCEPT ![a] = Gone]
  /\ events' = events + 1
  /\ UNCHANGED <<provider, session, edit, ghost>>

\* update and update_selected_region: the row is read and checked (only the
\* latter checks a region: one of the stored ones, unless none is stored) ...
BeginEdit(e, a, c) ==
  /\ edit[e] = NoEdit
  /\ events < MaxEvents
  /\ Exists(row, a)
  /\ c.checked /\ row[a].regions # {} => c.region \subseteq row[a].regions \cup {All}
  /\ edit' = [edit EXCEPT ![e] = [account |-> a, seen |-> row[a], change |-> c]]
  /\ events' = events + 1
  /\ UNCHANGED <<row, provider, session, ghost>>

\* One field of an edit.
The(given) == CHOOSE v \in given : TRUE
Put(stored, seen, given) == IF given = {} THEN stored ELSE Net(stored, seen, The(given))

\* Mutant of Edited: new credentials inherit the validation of the old ones.
EditedTrusting(r, seen, c) ==
  [r EXCEPT !.provider = Put(@, seen.provider, c.provider),
            !.region = Put(@, seen.region, c.region),
            !.active = Put(@, seen.active, c.active),
            !.secret = IF c.secret = {} THEN @ ELSE The(c.secret)]

\* The row after the edit.  New credentials (encrypted afresh, so always a
\* new value) are not validated; a new provider keeps the flag.
Edited(r, seen, c) ==
  [r EXCEPT !.provider = Put(@, seen.provider, c.provider),
            !.region = Put(@, seen.region, c.region),
            !.active = Put(@, seen.active, c.active),
            !.secret = IF c.secret = {} THEN @ ELSE The(c.secret),
            !.validated = IF c.secret = {} THEN @ ELSE Net(@, seen.validated, FALSE)]

\* ... and written; a row that is gone is an error.
EndEdit(e) ==
  /\ edit[e] # NoEdit
  /\ row' = IF Exists(row, edit[e].account)
            THEN [row EXCEPT ![edit[e].account] = Edited(@, edit[e].seen, edit[e].change)]
            ELSE row
  /\ edit' = [edit EXCEPT ![e] = NoEdit]
  /\ UNCHANGED <<provider, session, ghost, events>>

\* A region opens or closes (one is always left), credentials are issued or
\* revoked.
Toggled(S, x) == IF x \in S THEN S \ {x} ELSE S \cup {x}
Evolve ==
  /\ events < MaxEvents
  /\ \/ /\ \E r \in Region : offered # {r} /\ offered' = Toggled(offered, r)
        /\ UNCHANGED accepted
     \/ /\ \E pair \in Provider \X Secret : accepted' = Toggled(accepted, pair)
        /\ UNCHANGED offered
  /\ events' = events + 1
  /\ UNCHANGED <<row, session, edit, ghost>>

Next ==
  \/ \E s \in Sweeper : StartSweep(s)
  \/ \E s \in Requester, a \in Account : StartRefresh(s, a) \/ StartValidation(s, a)
  \/ \E s \in Session :
       \/ CommitValidation(s) \/ CommitListing(s) \/ Reload(s) \/ Announce(s)
       \/ Finish(s) \/ Crash(s)
       \/ \E a \in Account : Visit(s, a) \/ CallFails(s, a)
  \/ \E a \in Account :
       \/ Delete(a)
       \/ \E p \in Provider, k \in Secret : Create(a, p, k)
       \/ \E e \in Editor, c \in Change : BeginEdit(e, a, c)
  \/ \E e \in Editor : EndEdit(e)
  \/ Evolve

Spec == Init /\ [][Next]_vars

\* The job sweeps again and again, and what a session has begun goes on.
Proceed(s) ==
  \/ CommitValidation(s) \/ CommitListing(s) \/ Reload(s) \/ Announce(s) \/ Finish(s)
  \/ \E a \in Account : Visit(s, a)
FairSpec ==
  /\ Spec
  /\ \A s \in Sweeper : WF_vars(StartSweep(s))
  /\ \A s \in Session : WF_vars(Proceed(s))
  /\ \A e \in Editor : WF_vars(EndEdit(e))

-----------------------------------------------------------------------------
(* Properties.                                                             *)

\* Every region in an account's stored list was announced to the owner, came
\* with a first listing, or is about to be announced by the session that
\* stored it - however sweeps, refreshes, edits and crashes interleave
\* (sync_account: notify for what is not in the previous baseline).
RegionsAnnounced ==
  \A a \in Account : Exists(row, a) =>
    \A r \in row[a].regions :
      \/ r \in announced[a] \cup excused[a]
      \/ \E s \in Session : /\ step[s] \in {"reloading", "announcing"}
                            /\ at[s] = a /\ r \in news[s]

\* An account that is trusted with credentials nobody has proved.
Unproved(table, a, proofs) ==
  /\ Exists(table, a) /\ table[a].validated
  /\ <<a, table[a].provider, table[a].secret>> \notin proofs

\* A proof is committed of other credentials than are now stored.
Outrun(a) ==
  \E s \in Session :
    /\ CommitValidation(s) /\ at[s] = a
    /\ \/ view[s][a].provider # row[a].provider
       \/ view[s][a].secret # row[a].secret

\* An edit is committed that changes the provider, which leaves the flag as it is, or
\* has read the account as it was before the validation it should revoke.
Careless(a) ==
  \E e \in Editor :
    /\ edit[e] # NoEdit /\ edit'[e] = NoEdit /\ edit[e].account = a
    /\ \/ edit[e].change.secret = {} /\ edit[e].change.provider # {}
       \/ row[a].validated /\ ~ edit[e].seen.validated

\* Changed credentials are not trusted before a new proof (update: "New
\* credentials have never been proven to work"), in whatever order edits,
\* validations, sweeps, deletions and crashes of any sessions commit - but for
\* three cases of the code: a validation that an edit has overtaken, an edit
\* that a validation has overtaken, and an edit of the provider alone.
TrustedAfterProof ==
  [][\A a \in Account :
       ~ Unproved(row, a, proven) /\ Unproved(row', a, proven') =>
         Careless(a) \/ Outrun(a)]_vars

\* Once owners and providers are quiet, the sweeps bring every account they
\* take to what the provider says: its regions, or an error when it refuses the
\* stored credentials or the selected region - whatever overlapping sessions
\* and edits have left behind.
Converges ==
  <>[](\A a \in Connected(row) :
         IF Lists(row[a]) THEN row[a].regions = offered /\ row[a].status = "CONNECTED"
         ELSE row[a].status = "ERROR")
=============================================================================
