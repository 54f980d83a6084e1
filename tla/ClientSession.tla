---------------------------- MODULE ClientSession ----------------------------
(***************************************************************************)
(* The session of a user in the web client: the token pair in local        *)
(* storage, which all tabs of the browser share, the requests of each tab  *)
(* with the one refresh they wait for, and the server that judges tokens.  *)
(*                                                                         *)
(* JavaScript runs to completion between two network answers, so a tab's   *)
(* reaction to an answer, the promises it resolves included, is one step.  *)
(* A token pair is the time it was issued: its access token is good until  *)
(* the clock moves on, its refresh token until the pair lapses.            *)
(***************************************************************************)
EXTENDS Integers

CONSTANTS
  Tab,       \* tabs of the browser
  Call,      \* pairs of a tab and a number: requests it can have under way
  MaxEvents  \* bound: tabs opened, log-ins and log-outs, tokens that expire
             \* or lapse, (de)activations, outages

ASSUME CallAssumption == Call \subseteq Tab \X Nat
ASSUME BoundAssumption == MaxEvents \in Nat

VARIABLES
  clock,    \* access tokens issued now are good until it moves on
  since,    \* refresh tokens issued since then are accepted
  active,   \* the user is active
  tokens,   \* what local storage holds
  shown,    \* shown[t]: the tab shows the user as logged in
  renewing, \* renewing[t]: the refresh token of the refresh in flight, or None
  call,     \* call[c]: a request of a tab
  out,      \* history: logged out, with nothing under way that logs in
  hurt,     \* history: something but expiry has happened to the session
  events    \* events so far, bounded by MaxEvents

server  == <<clock, since, active>>
history == <<out, hurt>>
vars    == <<server, tokens, shown, renewing, call, history, events>>

None == -1   \* null
Token == 0..MaxEvents
Idle == [at |-> "idle", kind |-> "page", token |-> None, retried |-> FALSE]

\* A request of a page, loadCurrentUser's, login's, and the one after login.
Kind == {"page", "load", "login", "me"}
Sent(kind, token) == [at |-> "sent", kind |-> kind, token |-> token, retried |-> FALSE]

Calls(t) == {c \in Call : c[1] = t}
Waiting(t) == {c \in Calls(t) : call[c].at = "waiting"}

\* One type invariant: whoever waits, waits for a refresh of his own tab, and
\* no token is from the future.
TypeOK ==
  /\ clock \in Token /\ since \in 0..clock /\ active \in BOOLEAN
  /\ tokens \in 0..clock \cup {None}
  /\ shown \in [Tab -> BOOLEAN]
  /\ renewing \in [Tab -> 0..clock \cup {None}]
  /\ call \in [Call -> [at : {"idle", "sent", "waiting"}, kind : Kind,
                        token : 0..clock \cup {None}, retried : BOOLEAN]]
  /\ \A t \in Tab : renewing[t] # None <=> Waiting(t) # {}
  /\ out \in BOOLEAN /\ hurt \in BOOLEAN
  /\ events \in 0..MaxEvents

\* The tabs are open, with the user logged in or not.
Init ==
  /\ clock = 0 /\ since = 0 /\ active = TRUE
  /\ tokens \in {None, 0}
  /\ shown = [t \in Tab |-> tokens # None] /\ renewing = [t \in Tab |-> None]
  /\ call = [c \in Call |-> Idle]
  /\ out = (tokens = None) /\ hurt = FALSE
  /\ events = 0

-----------------------------------------------------------------------------
(* What the server says.                                                   *)

\* get_current_active_user: 401 for a missing or expired token, 403 for a user
\* who is not active.  A wrong password and an inactive user are a 401, too.
Grants(c) == active /\ (call[c].kind = "login" \/ call[c].token = clock)
Refuses(c) == call[c].kind = "login" \/ call[c].token # clock
Forbids(c) == call[c].kind # "login" /\ call[c].token = clock /\ ~ active

\* AuthService.refresh.
Renews(token) == token >= since /\ active

-----------------------------------------------------------------------------
(* Requests and their answers.                                             *)

\* loadCurrentUser: without an access token nobody is there.
Load(c) ==
  IF tokens = None
  THEN shown' = [shown EXCEPT ![c[1]] = FALSE] /\ UNCHANGED call
  ELSE call' = [call EXCEPT ![c] = Sent("load", tokens)] /\ UNCHANGED shown

\* A page polls, or reloads the user after a change of the profile.
Request(c) ==
  /\ shown[c[1]] /\ call[c].at = "idle"
  /\ \/ call' = [call EXCEPT ![c] = Sent("page", tokens)] /\ UNCHANGED shown
     \/ Load(c)
  /\ UNCHANGED <<server, tokens, renewing, history, events>>

\* A request that fails for good: loadCurrentUser gives up the session for any
\* failure, others report it.
Fail(c) ==
  /\ call' = [call EXCEPT ![c] = Idle]
  /\ IF call[c].kind = "load"
     THEN tokens' = None /\ shown' = [shown EXCEPT ![c[1]] = FALSE]
     ELSE UNCHANGED <<tokens, shown>>
  /\ UNCHANGED renewing

\* A log-in stores its tokens and asks who they are for.
Granted(c) ==
  /\ call[c].at = "sent" /\ Grants(c)
  /\ IF call[c].kind = "login"
     THEN /\ tokens' = clock
          /\ call' = [call EXCEPT ![c] = Sent("me", clock)]
          /\ UNCHANGED shown
     ELSE /\ shown' = [shown EXCEPT ![c[1]] = @ \/ call[c].kind # "page"]
          /\ call' = [call EXCEPT ![c] = Idle]
          /\ UNCHANGED tokens
  /\ UNCHANGED <<server, renewing, history, events>>

\* As a mutant: the refresh token of the time of the request.
RefreshTokenThen(c) == IF call[c].token # None THEN call[c].token ELSE tokens

\* What refreshAccessToken sends.
RefreshToken(c) == tokens

\* It joins the refresh in flight, or starts one.
Join(c) ==
  /\ call' = [call EXCEPT ![c].at = "waiting", ![c].retried = TRUE]
  /\ renewing' = [renewing EXCEPT ![c[1]] = IF @ = None THEN RefreshToken(c) ELSE @]
  /\ UNCHANGED <<tokens, shown>>

\* As a mutant: the application is not told.
GiveUpUntold(c) ==
  /\ call' = [call EXCEPT ![c] = Idle]
  /\ tokens' = None
  /\ UNCHANGED <<renewing, shown>>

\* Without a refresh token the session is over.
GiveUp(c) ==
  /\ call' = [call EXCEPT ![c] = Idle]
  /\ tokens' = None
  /\ shown' = [shown EXCEPT ![c[1]] = FALSE]
  /\ UNCHANGED renewing

\* A 401, to which the interceptor reacts once for each request.
Refused(c) ==
  /\ call[c].at = "sent" /\ Refuses(c)
  /\ IF call[c].retried THEN Fail(c)
     ELSE IF renewing[c[1]] # None \/ RefreshToken(c) # None THEN Join(c)
     ELSE GiveUp(c)
  /\ UNCHANGED <<server, history, events>>

Forbidden(c) ==
  /\ call[c].at = "sent" /\ Forbids(c)
  /\ Fail(c)
  /\ UNCHANGED <<server, history, events>>

\* As a mutant: the requests go out again as they were.
RenewedButNotTheirs(t) ==
  /\ renewing[t] # None /\ Renews(renewing[t])
  /\ tokens' = clock
  /\ renewing' = [renewing EXCEPT ![t] = None]
  /\ call' = [c \in Call |-> IF c \in Waiting(t) THEN [call[c] EXCEPT !.at = "sent"] ELSE call[c]]
  /\ UNCHANGED <<server, shown, history, events>>

\* refreshAccessToken succeeds: the new pair is stored, whatever is there now,
\* and all who wait are sent again with it.
Renewed(t) ==
  /\ renewing[t] # None /\ Renews(renewing[t])
  /\ tokens' = clock
  /\ renewing' = [renewing EXCEPT ![t] = None]
  /\ call' = [c \in Call |-> IF c \in Waiting(t)
                             THEN [call[c] EXCEPT !.at = "sent", !.token = clock]
                             ELSE call[c]]
  /\ UNCHANGED <<server, shown, history, events>>

\* It fails: all who wait fail, the tokens are removed, onAuthFailure is called.
EndSession(t) ==
  /\ tokens' = None
  /\ renewing' = [renewing EXCEPT ![t] = None]
  /\ call' = [c \in Call |-> IF c \in Waiting(t) THEN Idle ELSE call[c]]
  /\ shown' = [shown EXCEPT ![t] = FALSE]

NotRenewed(t) ==
  /\ renewing[t] # None /\ ~ Renews(renewing[t])
  /\ EndSession(t)
  /\ UNCHANGED <<server, history, events>>

\* No answer, a rate limit or an error of the server.
Outage ==
  /\ events < MaxEvents
  /\ \/ \E c \in Call : call[c].at = "sent" /\ Fail(c)
     \/ \E t \in Tab : renewing[t] # None /\ EndSession(t)
  /\ hurt' = TRUE /\ events' = events + 1
  /\ UNCHANGED <<server, out>>

-----------------------------------------------------------------------------
(* The user, the administrator, and time.                                  *)

\* As a mutant: the refresh of the page that is gone is still waited for.
OpenWithRefresh(t) ==
  /\ events < MaxEvents
  /\ call' = [c \in Call |-> IF c[1] = t THEN Idle ELSE call[c]]
  /\ shown' = [shown EXCEPT ![t] = FALSE]
  /\ events' = events + 1
  /\ UNCHANGED <<server, tokens, renewing, history>>

\* A tab is opened or reloaded: what it had under way is gone.
Open(t) ==
  /\ events < MaxEvents
  /\ \E d \in Calls(t) :
       call' = [c \in Call |-> IF c = d /\ tokens # None THEN Sent("load", tokens)
                               ELSE IF c[1] = t THEN Idle ELSE call[c]]
  /\ shown' = [shown EXCEPT ![t] = FALSE]
  /\ renewing' = [renewing EXCEPT ![t] = None]
  /\ events' = events + 1
  /\ UNCHANGED <<server, tokens, history>>

\* The log-in page, which may be open while the user is being loaded.
Submit(c) ==
  /\ events < MaxEvents
  /\ ~ shown[c[1]] /\ call[c].at = "idle"
  /\ \A d \in Calls(c[1]) : call[d].at # "idle" => call[d].kind \notin {"login", "me"}
  /\ call' = [call EXCEPT ![c] = Sent("login", tokens)]
  /\ out' = FALSE
  /\ events' = events + 1
  /\ UNCHANGED <<server, tokens, shown, renewing, hurt>>

\* A request that will store tokens when it is answered.
LogsIn(c) == call[c].kind = "login" /\ call[c].at # "idle"

Logout(t) ==
  /\ events < MaxEvents
  /\ shown[t]
  /\ tokens' = None
  /\ shown' = [shown EXCEPT ![t] = FALSE]
  /\ out' = ((\A u \in Tab : renewing[u] = None) /\ (\A c \in Call : ~ LogsIn(c)))
  /\ hurt' = TRUE /\ events' = events + 1
  /\ UNCHANGED <<server, renewing, call>>

\* An access token lives half an hour, longer than a request takes: none that a
\* refresh has just brought expires before the request it was brought for is
\* answered.
Expire ==
  /\ events < MaxEvents
  /\ \A c \in Call : ~ (call[c].at = "sent" /\ call[c].retried)
  /\ clock' = clock + 1
  /\ events' = events + 1
  /\ UNCHANGED <<since, active, tokens, shown, renewing, call, history>>

\* The refresh tokens issued so far expire.
Lapse ==
  /\ events < MaxEvents
  /\ clock' = clock + 1 /\ since' = clock + 1
  /\ hurt' = TRUE /\ events' = events + 1
  /\ UNCHANGED <<active, tokens, shown, renewing, call, out>>

\* An administrator deactivates or activates the user.
Activate ==
  /\ events < MaxEvents
  /\ active' = ~ active
  /\ hurt' = TRUE /\ events' = events + 1
  /\ UNCHANGED <<clock, since, tokens, shown, renewing, call, out>>

Answer(c) == Granted(c) \/ Refused(c) \/ Forbidden(c)
Finish(t) == Renewed(t) \/ NotRenewed(t)

Next ==
  \/ \E c \in Call : Request(c) \/ Answer(c) \/ Submit(c)
  \/ \E t \in Tab : Finish(t) \/ Open(t) \/ Logout(t)
  \/ Outage \/ Expire \/ Lapse \/ Activate

Spec == Init /\ [][Next]_vars

\* The notification bell of a visible tab polls every 30 seconds, and what is
\* asked is answered.
FairSpec ==
  /\ Spec
  /\ \A t \in Tab : WF_vars(Finish(t)) /\ WF_vars(\E c \in Calls(t) : Request(c))
  /\ \A c \in Call : WF_vars(Answer(c))

-----------------------------------------------------------------------------
(* Properties.                                                             *)

\* A log-out holds in every tab until somebody logs in again, whatever older
\* requests are refused afterwards.  It does not if a refresh or a log-in was
\* under way: its answer stores tokens whatever has happened since.
LogoutHolds == out => tokens = None

\* "Transparently refreshes on 401" (docs/PHASE_7.md): the expiry of access
\* tokens alone never ends a session, however many requests of however many
\* tabs meet it.
StaysIn == [][tokens # None /\ ~ hurt' => tokens' # None]_vars

\* In the end no tab shows a user whose session is over, be it that the refresh
\* token has lapsed or that another tab has logged out.
NoGhosts == <>[](\A t \in Tab : shown[t] => tokens # None /\ tokens >= since)
=============================================================================
