--------------------------- MODULE ExtensionWorker ---------------------------
(***************************************************************************)
(* The background service worker of the browser extension, which polls the *)
(* active alerts and announces the new ones, and the token pair it shares  *)
(* with the popup.                                                         *)
(*                                                                         *)
(* JavaScript interleaves at every await: polls set off by the alarm, by   *)
(* the start of the browser and by the popup run through each other.  What *)
(* must survive is in chrome.storage.local; when the browser suspends the  *)
(* worker or is closed, all polls end where they are.  An access token is  *)
(* the number of the period in which it is valid.                          *)
(***************************************************************************)
EXTENDS Integers, FiniteSets

CONSTANTS
  Alert,     \* numbers, the newer the higher
  PageSize,  \* how many alerts a page of GET /alerts holds
  Poll,      \* polls that can be under way at the same time
  MaxEvents  \* bound: alerts raised and resolved, log-ins and log-outs,
             \* tokens expired and rejected, settings changed, answers lost or
             \* failed, suspensions

ASSUME AlertAssumption == Alert \subseteq Nat
ASSUME BoundAssumption == PageSize \in Nat \ {0} /\ MaxEvents \in Nat

VARIABLES
  active,    \* the active alerts of the user, newest first by their number
  raised,    \* the alerts there have been
  period,    \* access tokens of this period are valid
  accepted,  \* the refresh token that was issued last is accepted
  tokens,    \* the access token that is stored with its refresh token, or None
  seen,      \* last_seen_alert_ids
  synced,    \* last_sync_at is there
  targets,   \* the alerts whose notification knows its page
  enabled,   \* settings.notificationsEnabled
  badge,     \* the alerts the badge counts
  poll,      \* poll[w]: where poll w is, and what it holds
  announced, \* history: the alerts that have been announced
  excused,   \* history: those a poll has left out on purpose
  out,       \* history: the user has logged out
  late,      \* history: of the polls that were refreshing then
  events     \* events so far, bounded by MaxEvents

server  == <<active, raised, period, accepted>>
storage == <<tokens, seen, synced, targets, enabled>>
history == <<announced, excused, out, late>>
vars    == <<server, storage, badge, poll, history, events>>

None == -1   \* null
Token == 0..MaxEvents
Idle == [at |-> "idle", first |-> FALSE, token |-> None, retried |-> FALSE,
         snapshot |-> {}, new |-> {}, map |-> {}, alert |-> None]
Place == {"idle", "clear", "sync", "token", "refresh", "refreshing", "ask", "badge",
          "settings", "seen", "announce", "write", "create", "save", "stamp"}

\* Where a request is under way, with the token the poll holds.
Asking == {"ask", "refreshing"}

\* One type invariant: nobody asks without a token, and a poll announces only
\* what it has in its snapshot.
TypeOK ==
  /\ active \subseteq raised /\ raised \subseteq Alert
  /\ period \in Token /\ accepted \in BOOLEAN
  /\ tokens \in 0..period \cup {None}
  /\ seen \subseteq raised /\ targets \subseteq raised /\ badge \subseteq raised
  /\ synced \in BOOLEAN /\ enabled \in BOOLEAN
  /\ \A w \in Poll :
       /\ poll[w].at \in Place
       /\ poll[w].at \in Asking => poll[w].token \in 0..period
       /\ poll[w].new \subseteq poll[w].snapshot /\ poll[w].snapshot \subseteq raised
       /\ Cardinality(poll[w].snapshot) <= PageSize
       /\ poll[w].at \in {"write", "create"} => poll[w].alert \in poll[w].new
       /\ poll[w].at = "idle" => poll[w] = Idle
  /\ announced \subseteq raised /\ excused \subseteq raised
  /\ events \in 0..MaxEvents

\* Just installed, or in use for a while.
Init ==
  /\ active = {} /\ raised = {} /\ period = 0 /\ accepted = TRUE
  /\ synced \in BOOLEAN /\ tokens = (IF synced THEN 0 ELSE None)
  /\ seen = {} /\ targets = {} /\ enabled = TRUE /\ badge = {}
  /\ poll = [w \in Poll |-> Idle]
  /\ announced = {} /\ excused = {}
  /\ out = (tokens = None) /\ late = FALSE
  /\ events = 0

\* As a mutant: the page has no end.
PageOfAll(alerts) == alerts

\* What GET /alerts?status=active answers: the newest ones.
Page(alerts) == {a \in alerts : Cardinality({b \in alerts : b > a}) < PageSize}

Goto(w, place) == poll' = [poll EXCEPT ![w].at = place]

End(w) == poll' = [poll EXCEPT ![w] = Idle]

-----------------------------------------------------------------------------
(* A poll, await by await.                                                 *)

\* The alarm, the start of the browser or TRIGGER_POLL; getTokens.
Start(w) ==
  /\ poll[w].at = "idle"
  /\ Goto(w, IF tokens = None THEN "clear" ELSE "sync")
  /\ UNCHANGED <<server, storage, badge, history, events>>

\* As a mutant: the badge stays as it was.
ClearNothing(w) ==
  /\ poll[w].at = "clear"
  /\ End(w)
  /\ UNCHANGED <<server, storage, badge, history, events>>

\* Nobody is logged in.
Clear(w) ==
  /\ poll[w].at = "clear"
  /\ badge' = {}
  /\ End(w)
  /\ UNCHANGED <<server, storage, history, events>>

ReadSync(w) ==
  /\ poll[w].at = "sync"
  /\ poll' = [poll EXCEPT ![w].first = ~ synced, ![w].at = "token"]
  /\ UNCHANGED <<server, storage, badge, history, events>>

\* ensureFreshAccessToken: a token that expires within a minute is refreshed,
\* perhaps while it still is valid.
EnsureFresh(w) ==
  /\ poll[w].at = "token"
  /\ \/ tokens = None /\ End(w)
     \/ /\ tokens = period
        /\ poll' = [poll EXCEPT ![w].token = tokens, ![w].at = "ask"]
     \/ tokens # None /\ Goto(w, "refresh")
  /\ UNCHANGED <<server, storage, badge, history, events>>

\* As a mutant: the refresh token is not read again.
RefreshAnyway(w) ==
  /\ poll[w].at = "refresh"
  /\ poll' = [poll EXCEPT ![w].token = period, ![w].at = "refreshing"]
  /\ UNCHANGED <<server, storage, badge, history, events>>

\* refreshTokens up to the request.
Refresh(w) ==
  /\ poll[w].at = "refresh"
  /\ IF tokens = None THEN End(w)
     ELSE poll' = [poll EXCEPT ![w].token = tokens, ![w].at = "refreshing"]
  /\ UNCHANGED <<server, storage, badge, history, events>>

\* Its answer: a new pair, which is stored, or a refusal, on which what is
\* stored is removed.
Refreshed(w) ==
  /\ poll[w].at = "refreshing"
  /\ IF accepted
     THEN /\ tokens' = period
          /\ poll' = [poll EXCEPT ![w].token = period, ![w].at = "ask"]
     ELSE tokens' = None /\ End(w)
  /\ UNCHANGED <<server, seen, synced, targets, enabled, badge, history, events>>

\* fetchActiveAlerts: answered, or refused for the token, which is refreshed
\* once.
Ask(w) ==
  /\ poll[w].at = "ask"
  /\ IF poll[w].token = period
     THEN poll' = [poll EXCEPT ![w].snapshot = Page(active), ![w].at = "badge"]
     ELSE IF poll[w].retried THEN End(w)
     ELSE poll' = [poll EXCEPT ![w].retried = TRUE, ![w].at = "refresh"]
  /\ UNCHANGED <<server, storage, badge, history, events>>

\* No answer to a request, or an error of the server.  Any error of the
\* refresh - an outage as well as a refusal - removes the tokens.
Fault(w) ==
  /\ poll[w].at \in Asking /\ events < MaxEvents
  /\ \/ UNCHANGED tokens
     \/ poll[w].at = "refreshing" /\ tokens' = None
  /\ End(w)
  /\ events' = events + 1
  /\ UNCHANGED <<server, seen, synced, targets, enabled, badge, history>>

UpdateBadge(w) ==
  /\ poll[w].at = "badge"
  /\ badge' = poll[w].snapshot
  /\ Goto(w, "settings")
  /\ UNCHANGED <<server, storage, history, events>>

\* Nothing is announced by the first poll, or with notifications disabled.
ReadSettings(w) ==
  /\ poll[w].at = "settings"
  /\ IF enabled /\ ~ poll[w].first
     THEN Goto(w, "seen") /\ UNCHANGED excused
     ELSE Goto(w, "save") /\ excused' = excused \cup poll[w].snapshot
  /\ UNCHANGED <<server, storage, badge, announced, out, late, events>>

\* As a mutant: what is new is noted before it is announced.
ReadSeenAndSave(w) ==
  /\ poll[w].at = "seen"
  /\ poll' = [poll EXCEPT ![w].new = poll[w].snapshot \ seen, ![w].at = "announce"]
  /\ seen' = poll[w].snapshot
  /\ UNCHANGED <<server, tokens, synced, targets, enabled, badge, history, events>>

\* What the last poll has not seen is new.
ReadSeen(w) ==
  /\ poll[w].at = "seen"
  /\ poll' = [poll EXCEPT ![w].new = poll[w].snapshot \ seen, ![w].at = "announce"]
  /\ UNCHANGED <<server, storage, badge, history, events>>

\* notifyNewAlert for each new alert: the map of targets is read ...
ReadTargets(w, a) ==
  /\ poll[w].at = "announce" /\ a \in poll[w].new
  /\ poll' = [poll EXCEPT ![w].map = targets, ![w].alert = a, ![w].at = "write"]
  /\ UNCHANGED <<server, storage, badge, history, events>>

\* ... written back with one more entry ...
WriteTarget(w) ==
  /\ poll[w].at = "write"
  /\ targets' = poll[w].map \cup {poll[w].alert}
  /\ Goto(w, "create")
  /\ UNCHANGED <<server, tokens, seen, synced, enabled, badge, history, events>>

\* ... and the notification is shown.
Announce(w) ==
  /\ poll[w].at = "create"
  /\ announced' = announced \cup {poll[w].alert}
  /\ poll' = [poll EXCEPT ![w].new = @ \ {poll[w].alert}, ![w].at = "announce"]
  /\ UNCHANGED <<server, storage, badge, excused, out, late, events>>

Announced(w) ==
  /\ poll[w].at = "announce" /\ poll[w].new = {}
  /\ Goto(w, "save")
  /\ UNCHANGED <<server, storage, badge, history, events>>

SaveSeen(w) ==
  /\ poll[w].at = "save"
  /\ seen' = poll[w].snapshot
  /\ Goto(w, "stamp")
  /\ UNCHANGED <<server, tokens, synced, targets, enabled, badge, history, events>>

Stamp(w) ==
  /\ poll[w].at = "stamp"
  /\ synced' = TRUE
  /\ End(w)
  /\ UNCHANGED <<server, tokens, seen, targets, enabled, badge, history, events>>

\* The worker is suspended or the browser closed.
Suspend ==
  /\ events < MaxEvents
  /\ \E w \in Poll : poll[w].at # "idle"
  /\ poll' = [w \in Poll |-> Idle]
  /\ events' = events + 1
  /\ UNCHANGED <<server, storage, badge, history>>

-----------------------------------------------------------------------------
(* The server, and the user at the popup.                                  *)

Raise(a) ==
  /\ events < MaxEvents
  /\ a \notin raised /\ \A b \in raised : b < a
  /\ raised' = raised \cup {a} /\ active' = active \cup {a}
  /\ events' = events + 1
  /\ UNCHANGED <<period, accepted, storage, badge, poll, history>>

Resolve(a) ==
  /\ events < MaxEvents
  /\ a \in active
  /\ active' = active \ {a}
  /\ events' = events + 1
  /\ UNCHANGED <<raised, period, accepted, storage, badge, poll, history>>

Expire ==
  /\ events < MaxEvents
  /\ period' = period + 1
  /\ events' = events + 1
  /\ UNCHANGED <<active, raised, accepted, storage, badge, poll, history>>

\* The refresh token expires, or the user is deactivated.
Reject ==
  /\ events < MaxEvents
  /\ accepted /\ tokens # None
  /\ accepted' = FALSE
  /\ events' = events + 1
  /\ UNCHANGED <<active, raised, period, storage, badge, poll, history>>

Login ==
  /\ events < MaxEvents
  /\ tokens = None
  /\ tokens' = period /\ accepted' = TRUE
  /\ out' = FALSE
  /\ events' = events + 1
  /\ UNCHANGED <<active, raised, period, seen, synced, targets, enabled, badge, poll,
                 announced, excused, late>>

Logout ==
  /\ events < MaxEvents
  /\ tokens # None
  /\ tokens' = None
  /\ out' = TRUE
  /\ late' = \E w \in Poll : poll[w].at = "refreshing"
  /\ events' = events + 1
  /\ UNCHANGED <<server, seen, synced, targets, enabled, badge, poll,
                 announced, excused>>

ToggleNotifications ==
  /\ events < MaxEvents
  /\ enabled' = ~ enabled
  /\ events' = events + 1
  /\ UNCHANGED <<server, tokens, seen, synced, targets, badge, poll, history>>

Proceed(w) ==
  \/ Clear(w) \/ ReadSync(w) \/ EnsureFresh(w) \/ Refresh(w) \/ Refreshed(w) \/ Ask(w)
  \/ UpdateBadge(w) \/ ReadSettings(w) \/ ReadSeen(w)
  \/ \E a \in poll[w].new : ReadTargets(w, a)
  \/ WriteTarget(w) \/ Announce(w) \/ Announced(w) \/ SaveSeen(w) \/ Stamp(w)

Next ==
  \/ \E w \in Poll : Start(w) \/ Proceed(w) \/ Fault(w)
  \/ \E a \in Alert : Raise(a) \/ Resolve(a)
  \/ Suspend \/ Expire \/ Reject \/ Login \/ Logout \/ ToggleNotifications

Spec == Init /\ [][Next]_vars

\* The alarm rings every few minutes, and an await is answered in the end.
FairSpec ==
  /\ Spec
  /\ \A w \in Poll : WF_vars(Start(w)) /\ WF_vars(Proceed(w))

-----------------------------------------------------------------------------
(* Properties.                                                             *)

\* "New alert IDs (not seen on the previous poll) fire a notification"
\* (docs/PHASE_32.md): no alert is taken for seen that was neither announced
\* nor left out on purpose, however polls overlap and wherever one is cut off.
SeenWasAnnounced == seen \subseteq announced \cup excused

\* Who has logged out stays so, unless a refresh was under way: its answer
\* stores the new pair whatever was removed meanwhile.
LogoutHolds == out /\ ~ late => tokens = None

\* In the end the badge counts what a page of active alerts holds, or nothing
\* when nobody is logged in, and every alert on that page was announced unless
\* left out on purpose.
CatchesUp ==
  <>[](IF tokens = None THEN badge = {}
       ELSE badge = Page(active) /\ badge \subseteq announced \cup excused)
=============================================================================
