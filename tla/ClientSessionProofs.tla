-------------------------- MODULE ClientSessionProofs --------------------------
(***************************************************************************)
(* Theorems about ClientSession, for any number of tabs and requests.      *)
(***************************************************************************)
EXTENDS ClientSession, TLAPS

USE BoundAssumption

-----------------------------------------------------------------------------
(* The shape of the variables.                                             *)

\* What a request looks like when the clock shows n.
CallAt(n) == [at : {"idle", "sent", "waiting"}, kind : Kind,
              token : 0..n \cup {None}, retried : BOOLEAN]

Shape ==
  /\ clock \in Nat /\ since \in 0..clock /\ active \in BOOLEAN
  /\ tokens \in 0..clock \cup {None}
  /\ shown \in [Tab -> BOOLEAN]
  /\ renewing \in [Tab -> 0..clock \cup {None}]
  /\ call \in [Call -> CallAt(clock)]
  /\ out \in BOOLEAN /\ hurt \in BOOLEAN
  /\ events \in 0..MaxEvents /\ clock <= events

\* Whoever waits, waits for a refresh of his own tab.
Paired == \A t \in Tab : renewing[t] # None <=> Waiting(t) # {}

LEMMA RequestTypes ==
  ASSUME NEW n \in Nat, NEW k \in Kind, NEW x \in 0..n \cup {None}
  PROVE  Sent(k, x) \in CallAt(n)
BY DEF Sent, CallAt

LEMMA IdleType ==
  ASSUME NEW n \in Nat PROVE Idle \in CallAt(n)
BY DEF Idle, CallAt, Kind

\* A request keeps its shape as time passes.
LEMMA Later ==
  ASSUME NEW n \in Nat, NEW f \in [Call -> CallAt(n)]
  PROVE  f \in [Call -> CallAt(n + 1)]
<1>1. 0..n \subseteq 0..n + 1
  OBVIOUS
<1>2. \A r \in CallAt(n) : r \in CallAt(n + 1)
  BY <1>1 DEF CallAt
<1> QED BY <1>2

\* It keeps it when it joins a refresh, and when it is sent again.
LEMMA Joined ==
  ASSUME NEW n \in Nat, NEW f \in [Call -> CallAt(n)], NEW c \in Call
  PROVE  [f EXCEPT ![c].at = "waiting", ![c].retried = TRUE] \in [Call -> CallAt(n)]
<1> DEFINE r == [f[c] EXCEPT !.at = "waiting", !.retried = TRUE]
<1>1. r \in CallAt(n)
  BY DEF CallAt
<1>2. [f EXCEPT ![c].at = "waiting", ![c].retried = TRUE] = [f EXCEPT ![c] = r]
  OBVIOUS
<1> HIDE DEF r
<1> QED BY <1>1, <1>2

LEMMA SentAgain ==
  ASSUME NEW n \in Nat, NEW r \in CallAt(n)
  PROVE  [r EXCEPT !.at = "sent", !.token = n] \in CallAt(n)
<1>1. n \in 0..n \cup {None}
  OBVIOUS
<1> QED BY <1>1 DEF CallAt

LEMMA ShapeInit == Init => Shape
<1> SUFFICES ASSUME Init PROVE Shape
  OBVIOUS
<1>1. Idle \in CallAt(0)
  BY IdleType
<1>2. clock = 0 /\ since = 0 /\ active = TRUE /\ events = 0 /\ hurt = FALSE
  BY DEF Init
<1>3. tokens \in 0..clock \cup {None} /\ out \in BOOLEAN
  BY DEF Init
<1>4. shown \in [Tab -> BOOLEAN] /\ renewing \in [Tab -> 0..clock \cup {None}]
  BY DEF Init
<1>5. call \in [Call -> CallAt(clock)]
  BY <1>1, <1>2 DEF Init
<1>6. clock \in Nat /\ since \in 0..clock /\ events \in 0..MaxEvents /\ clock <= events
  BY <1>2
<1>7. active \in BOOLEAN /\ hurt \in BOOLEAN
  BY <1>2
<1> QED BY <1>3, <1>4, <1>5, <1>6, <1>7 DEF Shape

\* A request that fails.
LEMMA FailShape ==
  ASSUME Shape, NEW c \in Call, Fail(c)
  PROVE  /\ tokens' \in 0..clock \cup {None}
         /\ shown' \in [Tab -> BOOLEAN]
         /\ renewing' = renewing
         /\ call' \in [Call -> CallAt(clock)]
<1>1. Idle \in CallAt(clock)
  BY IdleType DEF Shape
<1>2. call' = [call EXCEPT ![c] = Idle] /\ renewing' = renewing
  BY DEF Fail
<1>3. \/ tokens' = tokens /\ shown' = shown
      \/ tokens' = None /\ shown' = [shown EXCEPT ![c[1]] = FALSE]
  <2>1. CASE call[c].kind = "load"
    BY <2>1 DEF Fail
  <2>2. CASE call[c].kind # "load"
    BY <2>2 DEF Fail
  <2> QED BY <2>1, <2>2
<1> QED BY <1>1, <1>2, <1>3 DEF Shape

LEMMA EndSessionShape ==
  ASSUME Shape, NEW t \in Tab, EndSession(t)
  PROVE  /\ tokens' \in 0..clock \cup {None}
         /\ shown' \in [Tab -> BOOLEAN]
         /\ renewing' \in [Tab -> 0..clock \cup {None}]
         /\ call' \in [Call -> CallAt(clock)]
<1>1. Idle \in CallAt(clock)
  BY IdleType DEF Shape
<1>2. call' = [c \in Call |-> IF c \in Waiting(t) THEN Idle ELSE call[c]]
  BY DEF EndSession
<1>3. call' \in [Call -> CallAt(clock)]
  BY <1>1, <1>2 DEF Shape
<1>4. /\ tokens' = None
      /\ shown' = [shown EXCEPT ![t] = FALSE]
      /\ renewing' = [renewing EXCEPT ![t] = None]
  BY DEF EndSession
<1> QED BY <1>3, <1>4 DEF Shape

LEMMA ShapeNext == Shape /\ [Next]_vars => Shape'
<1> SUFFICES ASSUME Shape, [Next]_vars PROVE Shape'
  OBVIOUS
<1> USE DEF server, history
<1>0. Idle \in CallAt(clock) /\ clock \in Nat /\ events \in Nat /\ clock <= events
  BY IdleType DEF Shape
<1>1. CASE UNCHANGED vars
  BY <1>1 DEF vars, Shape
<1>2. ASSUME NEW c \in Call, Request(c) PROVE Shape'
  <2>1. UNCHANGED <<server, tokens, renewing, history, events>>
    BY <1>2 DEF Request
  <2>2. shown' = shown \/ shown' = [shown EXCEPT ![c[1]] = FALSE]
    BY <1>2 DEF Request, Load
  <2>3. \/ call' = call
        \/ \E k \in Kind : call' = [call EXCEPT ![c] = Sent(k, tokens)]
    BY <1>2 DEF Request, Load, Kind
  <2>4. call' \in [Call -> CallAt(clock)]
    BY <2>3, RequestTypes DEF Shape
  <2> QED BY <2>1, <2>2, <2>4 DEF Shape
<1>3. ASSUME NEW c \in Call, Granted(c) PROVE Shape'
  <2>1. UNCHANGED <<server, renewing, history, events>>
    BY <1>3 DEF Granted
  <2>2. CASE call[c].kind = "login"
    <3>1. tokens' = clock /\ shown' = shown /\ call' = [call EXCEPT ![c] = Sent("me", clock)]
      BY <1>3, <2>2 DEF Granted
    <3>2. Sent("me", clock) \in CallAt(clock)
      BY <1>0, RequestTypes DEF Kind
    <3> QED BY <2>1, <3>1, <3>2 DEF Shape
  <2>3. CASE call[c].kind # "login"
    <3>1. tokens' = tokens /\ call' = [call EXCEPT ![c] = Idle]
      BY <1>3, <2>3 DEF Granted
    <3>2. shown' \in [Tab -> BOOLEAN]
      BY <1>3, <2>3 DEF Granted, Shape
    <3> QED BY <2>1, <3>1, <3>2, <1>0 DEF Shape
  <2> QED BY <2>2, <2>3
<1>4. ASSUME NEW c \in Call, Refused(c) PROVE Shape'
  <2>1. UNCHANGED <<server, history, events>>
    BY <1>4 DEF Refused
  <2>2. CASE Fail(c)
    BY <2>1, <2>2, FailShape DEF Shape
  <2>3. CASE Join(c)
    <3>1. call' \in [Call -> CallAt(clock)]
      BY <1>0, <2>3, Joined DEF Join, Shape
    <3>2. renewing' \in [Tab -> 0..clock \cup {None}] /\ UNCHANGED <<tokens, shown>>
      BY <2>3 DEF Join, RefreshToken, Shape
    <3> QED BY <2>1, <3>1, <3>2 DEF Shape
  <2>4. CASE GiveUp(c)
    BY <1>0, <2>1, <2>4 DEF GiveUp, Shape
  <2> QED BY <1>4, <2>2, <2>3, <2>4 DEF Refused
<1>5. ASSUME NEW c \in Call, Forbidden(c) PROVE Shape'
  <2>1. Fail(c) /\ UNCHANGED <<server, history, events>>
    BY <1>5 DEF Forbidden
  <2> QED BY <2>1, FailShape DEF Shape
<1>6. ASSUME NEW c \in Call, Submit(c) PROVE Shape'
  <2>1. Sent("login", tokens) \in CallAt(clock)
    BY RequestTypes DEF Shape, Kind
  <2>2. events' \in 0..MaxEvents /\ events' >= events
    BY <1>6 DEF Submit, Shape
  <2>3. /\ call' = [call EXCEPT ![c] = Sent("login", tokens)]
        /\ UNCHANGED <<server, tokens, shown, renewing, hurt>> /\ out' = FALSE
    BY <1>6 DEF Submit
  <2>4. call' \in [Call -> CallAt(clock)]
    BY <2>1, <2>3 DEF Shape
  <2>5. clock' = clock /\ out' \in BOOLEAN
    BY <2>3
  <2>6. clock' <= events'
    BY <1>0, <2>2, <2>5
  <2> QED BY <2>2, <2>3, <2>4, <2>5, <2>6 DEF Shape
<1>7. ASSUME NEW t \in Tab, Renewed(t) PROVE Shape'
  <2>1. /\ call' = [c \in Call |-> IF c \in Waiting(t)
                                 THEN [call[c] EXCEPT !.at = "sent", !.token = clock]
                                 ELSE call[c]]
        /\ tokens' = clock /\ renewing' = [renewing EXCEPT ![t] = None]
        /\ UNCHANGED <<server, shown, history, events>>
    BY <1>7 DEF Renewed
  <2>2. call' \in [Call -> CallAt(clock)]
    BY <1>0, <2>1, SentAgain DEF Shape
  <2>3. clock \in 0..clock
    BY <1>0
  <2>4. renewing' \in [Tab -> 0..clock \cup {None}]
    BY <2>1 DEF Shape
  <2> QED BY <2>1, <2>2, <2>3, <2>4 DEF Shape
<1>8. ASSUME NEW t \in Tab, NotRenewed(t) PROVE Shape'
  <2>1. EndSession(t) /\ UNCHANGED <<server, history, events>>
    BY <1>8 DEF NotRenewed
  <2> QED BY <2>1, EndSessionShape DEF Shape
<1>9. ASSUME NEW t \in Tab, Open(t) PROVE Shape'
  <2>1. PICK d \in Calls(t) :
          call' = [c \in Call |-> IF c = d /\ tokens # None THEN Sent("load", tokens)
                                  ELSE IF c[1] = t THEN Idle ELSE call[c]]
    BY <1>9 DEF Open
  <2>2. Sent("load", tokens) \in CallAt(clock)
    BY RequestTypes DEF Shape, Kind
  <2>3. call' \in [Call -> CallAt(clock)]
    BY <1>0, <2>1, <2>2 DEF Shape
  <2>4. events' \in 0..MaxEvents /\ events' >= events
    BY <1>9 DEF Open, Shape
  <2>5. /\ shown' = [shown EXCEPT ![t] = FALSE] /\ renewing' = [renewing EXCEPT ![t] = None]
        /\ UNCHANGED <<server, tokens, history>>
    BY <1>9 DEF Open
  <2> QED BY <2>3, <2>4, <2>5 DEF Shape
<1>10. ASSUME NEW t \in Tab, Logout(t) PROVE Shape'
  BY <1>10 DEF Logout, Shape
<1>11. CASE Outage
  <2>1. events' \in 0..MaxEvents /\ events' >= events
    BY <1>11 DEF Outage, Shape
  <2>2. UNCHANGED <<server, out>> /\ hurt' = TRUE
    BY <1>11 DEF Outage
  <2>3. CASE \E c \in Call : Fail(c)
    BY <2>1, <2>2, <2>3, FailShape DEF Shape
  <2>4. CASE \E t \in Tab : EndSession(t)
    BY <2>1, <2>2, <2>4, EndSessionShape DEF Shape
  <2> QED BY <1>11, <2>3, <2>4 DEF Outage
<1>12. CASE Expire \/ Lapse
  <2>1. /\ clock' = clock + 1 /\ since' \in 0..clock' /\ active' = active
        /\ UNCHANGED <<tokens, shown, renewing, call, out>> /\ hurt' \in BOOLEAN
        /\ events' = events + 1 /\ events' \in 0..MaxEvents
    <3>1. CASE Expire
      BY <3>1 DEF Expire, Shape
    <3>2. CASE Lapse
      <4>1. clock' = clock + 1 /\ since' = clock + 1 /\ hurt' = TRUE
        BY <3>2 DEF Lapse
      <4>2. since' \in 0..clock'
        BY <1>0, <4>1
      <4> QED BY <3>2, <4>1, <4>2 DEF Lapse, Shape
    <3> QED BY <1>12, <3>1, <3>2
  <2>2. call' \in [Call -> CallAt(clock')]
    BY <2>1, <1>0, Later DEF Shape
  <2>3. 0..clock \subseteq 0..clock'
    BY <2>1, <1>0
  <2> QED BY <2>1, <2>2, <2>3 DEF Shape
<1>13. CASE Activate
  BY <1>13 DEF Activate, Shape
<1> QED BY <1>1, <1>2, <1>3, <1>4, <1>5, <1>6, <1>7, <1>8, <1>9, <1>10, <1>11, <1>12, <1>13
        DEF Next, Answer, Finish

-----------------------------------------------------------------------------
(* Waiting and refreshing.                                                 *)

\* A request that neither waits nor will wait changes nobody's waiting.
LEMMA OthersWait ==
  ASSUME NEW c \in Call, NEW r, call[c].at # "waiting", r.at # "waiting",
         DOMAIN call = Call, call' = [call EXCEPT ![c] = r], NEW t \in Tab
  PROVE  Waiting(t)' = Waiting(t)
BY DEF Waiting, Calls

\* When the refresh of a tab is over, nobody waits in it; the others wait on.
LEMMA NobodyWaits ==
  ASSUME NEW t \in Tab,
         NEW f, \A c \in Call : f[c].at # "waiting",
         call' = [c \in Call |-> IF c \in Waiting(t) THEN f[c] ELSE call[c]],
         NEW u \in Tab
  PROVE  Waiting(u)' = IF u = t THEN {} ELSE Waiting(u)
BY DEF Waiting, Calls

LEMMA FailPaired ==
  ASSUME Shape, Paired, NEW c \in Call, call[c].at = "sent", Fail(c)
  PROVE  Paired'
<1>1. call' = [call EXCEPT ![c] = Idle] /\ renewing' = renewing
  BY DEF Fail
<1>2. DOMAIN call = Call /\ Idle.at # "waiting"
  BY DEF Shape, Idle
<1>3. \A t \in Tab : Waiting(t)' = Waiting(t)
  BY <1>1, <1>2, OthersWait
<1> QED BY <1>1, <1>3 DEF Paired

LEMMA EndSessionPaired ==
  ASSUME Shape, Paired, NEW t \in Tab, EndSession(t)
  PROVE  Paired'
<1> DEFINE f == [c \in Call |-> Idle]
<1>1. \A c \in Call : f[c].at # "waiting"
  BY DEF Idle
<1>2. call' = [c \in Call |-> IF c \in Waiting(t) THEN f[c] ELSE call[c]]
  BY DEF EndSession
<1> HIDE DEF f
<1>3. \A u \in Tab : Waiting(u)' = IF u = t THEN {} ELSE Waiting(u)
  BY <1>1, <1>2, NobodyWaits
<1>4. renewing' = [renewing EXCEPT ![t] = None] /\ DOMAIN renewing = Tab
  BY DEF EndSession, Shape
<1> QED BY <1>3, <1>4 DEF Paired

LEMMA PairedNext == Shape /\ Paired /\ [Next]_vars => Paired'
<1> SUFFICES ASSUME Shape, Paired, [Next]_vars PROVE Paired'
  OBVIOUS
<1> USE DEF server, history
<1>0. DOMAIN call = Call /\ DOMAIN renewing = Tab /\ Idle.at # "waiting"
      /\ \A k, x : Sent(k, x).at # "waiting"
  BY DEF Shape, Idle, Sent
<1>1. CASE UNCHANGED <<call, renewing>>
  BY <1>1 DEF Paired, Waiting
<1>2. ASSUME NEW c \in Call, NEW r, call[c].at # "waiting", r.at # "waiting",
             call' = [call EXCEPT ![c] = r], renewing' = renewing
      PROVE  Paired'
  <2>1. \A t \in Tab : Waiting(t)' = Waiting(t)
    BY <1>0, <1>2, OthersWait
  <2> QED BY <1>2, <2>1 DEF Paired
<1>3. ASSUME NEW c \in Call, Request(c) PROVE Paired'
  <2>1. call[c].at # "waiting" /\ renewing' = renewing
    BY <1>3 DEF Request
  <2>2. \/ call' = call
        \/ \E k \in Kind : call' = [call EXCEPT ![c] = Sent(k, tokens)]
    BY <1>3 DEF Request, Load, Kind
  <2> QED BY <1>0, <1>1, <1>2, <2>1, <2>2
<1>4. ASSUME NEW c \in Call, Granted(c) PROVE Paired'
  <2>1. call[c].at # "waiting" /\ renewing' = renewing
    BY <1>4 DEF Granted
  <2>2. \/ call' = [call EXCEPT ![c] = Idle]
        \/ call' = [call EXCEPT ![c] = Sent("me", clock)]
    BY <1>4 DEF Granted
  <2> QED BY <1>0, <1>2, <2>1, <2>2
<1>5. ASSUME NEW c \in Call, Refused(c) PROVE Paired'
  <2>1. call[c].at = "sent"
    BY <1>5 DEF Refused
  <2>2. CASE Fail(c)
    BY <2>1, <2>2, FailPaired
  <2>3. CASE Join(c) /\ (renewing[c[1]] # None \/ RefreshToken(c) # None)
    <3> DEFINE u == c[1]
    <3>1. u \in Tab /\ c \in Calls(u)
      BY CallAssumption DEF Calls
    <3>2. /\ call' = [call EXCEPT ![c].at = "waiting", ![c].retried = TRUE]
          /\ renewing' = [renewing EXCEPT ![u] = IF @ = None THEN RefreshToken(c) ELSE @]
      BY <2>3 DEF Join
    <3>3. c \in Waiting(u)' /\ renewing'[u] # None
      <4>1. call'[c].at = "waiting"
        <5>1. call[c] \in CallAt(clock)
          BY DEF Shape
        <5> QED BY <1>0, <3>2, <5>1 DEF CallAt
      <4>2. renewing'[u] # None
        BY <1>0, <2>3, <3>1, <3>2
      <4> QED BY <3>1, <4>1, <4>2 DEF Waiting
    <3>4. ASSUME NEW t \in Tab, t # u
          PROVE  Waiting(t)' = Waiting(t) /\ renewing'[t] = renewing[t]
      BY <1>0, <3>1, <3>2, <3>4 DEF Waiting, Calls
    <3> HIDE DEF u
    <3> QED BY <3>1, <3>3, <3>4 DEF Paired
  <2>4. CASE GiveUp(c)
    <3>1. call' = [call EXCEPT ![c] = Idle] /\ renewing' = renewing
      BY <2>4 DEF GiveUp
    <3> QED BY <1>0, <1>2, <2>1, <3>1
  <2> QED BY <1>5, <2>2, <2>3, <2>4 DEF Refused
<1>6. ASSUME NEW c \in Call, Forbidden(c) PROVE Paired'
  BY <1>6, FailPaired DEF Forbidden
<1>7. ASSUME NEW c \in Call, Submit(c) PROVE Paired'
  <2>1. /\ call[c].at # "waiting" /\ renewing' = renewing
        /\ call' = [call EXCEPT ![c] = Sent("login", tokens)]
    BY <1>7 DEF Submit
  <2> QED BY <1>0, <1>2, <2>1
<1>8. ASSUME NEW t \in Tab, Renewed(t) PROVE Paired'
  <2> DEFINE f == [c \in Call |-> [call[c] EXCEPT !.at = "sent", !.token = clock]]
  <2>1. \A c \in Call : f[c].at # "waiting"
    BY DEF Shape, CallAt
  <2>2. call' = [c \in Call |-> IF c \in Waiting(t) THEN f[c] ELSE call[c]]
    BY <1>8 DEF Renewed
  <2> HIDE DEF f
  <2>3. \A u \in Tab : Waiting(u)' = IF u = t THEN {} ELSE Waiting(u)
    BY <2>1, <2>2, NobodyWaits
  <2>4. renewing' = [renewing EXCEPT ![t] = None]
    BY <1>8 DEF Renewed
  <2> QED BY <1>0, <2>3, <2>4 DEF Paired
<1>9. ASSUME NEW t \in Tab, NotRenewed(t) PROVE Paired'
  BY <1>9, EndSessionPaired DEF NotRenewed
<1>10. ASSUME NEW t \in Tab, Open(t) PROVE Paired'
  <2>1. PICK d \in Calls(t) :
          call' = [c \in Call |-> IF c = d /\ tokens # None THEN Sent("load", tokens)
                                  ELSE IF c[1] = t THEN Idle ELSE call[c]]
    BY <1>10 DEF Open
  <2>2. renewing' = [renewing EXCEPT ![t] = None]
    BY <1>10 DEF Open
  <2>3. Waiting(t)' = {}
    BY <1>0, <2>1 DEF Waiting, Calls
  <2>4. ASSUME NEW u \in Tab, u # t PROVE Waiting(u)' = Waiting(u)
    BY <1>0, <2>1, <2>4 DEF Waiting, Calls
  <2> QED BY <1>0, <2>2, <2>3, <2>4 DEF Paired
<1>11. ASSUME NEW t \in Tab, Logout(t) PROVE Paired'
  BY <1>1, <1>11 DEF Logout
<1>12. CASE Outage
  BY <1>12, FailPaired, EndSessionPaired DEF Outage
<1>13. CASE Expire \/ Lapse \/ Activate \/ UNCHANGED vars
  BY <1>1, <1>13 DEF Expire, Lapse, Activate, vars
<1> QED BY <1>3, <1>4, <1>5, <1>6, <1>7, <1>8, <1>9, <1>10, <1>11, <1>12, <1>13
        DEF Next, Answer, Finish

\* TypeOK: the shape of the variables, and that whoever waits waits for a
\* refresh of his own tab.
THEOREM TypeCorrect == Spec => []TypeOK
<1>1. Init => Shape /\ Paired
  BY ShapeInit DEF Init, Paired, Waiting, Calls, Idle
<1>2. Shape /\ Paired /\ [Next]_vars => (Shape /\ Paired)'
  BY ShapeNext, PairedNext
<1>3. Shape /\ Paired => TypeOK
  <2> SUFFICES ASSUME Shape, Paired PROVE TypeOK
    OBVIOUS
  <2>1. clock \in 0..MaxEvents
    BY DEF Shape
  <2> QED BY <2>1 DEF Shape, Paired, TypeOK, Token, CallAt
<1> QED BY <1>1, <1>2, <1>3, PTL DEF Spec

-----------------------------------------------------------------------------
(* Log-out.                                                                *)

\* Nothing that could store tokens is under way.
Quiet ==
  /\ tokens = None
  /\ \A t \in Tab : renewing[t] = None
  /\ \A c \in Call : ~ LogsIn(c)

LEMMA QuietNext == Shape /\ (out => Quiet) /\ [Next]_vars => (out' => Quiet')
<1> SUFFICES ASSUME Shape, out => Quiet, [Next]_vars, out' PROVE Quiet'
  OBVIOUS
<1> USE DEF server, history
<1>0. /\ DOMAIN call = Call /\ DOMAIN renewing = Tab
      /\ Idle.at = "idle" /\ \A k, x : Sent(k, x).kind = k
  BY DEF Shape, Idle, Sent
<1>1. CASE UNCHANGED <<tokens, call, renewing, out>>
  BY <1>1 DEF Quiet, LogsIn
<1>2. ASSUME NEW c \in Call, NEW r, r.at = "idle" \/ r.kind # "login", out,
             call' = [call EXCEPT ![c] = r], tokens' = None, renewing' = renewing
      PROVE  Quiet'
  BY <1>0, <1>2 DEF Quiet, LogsIn
<1>3. ASSUME NEW c \in Call, Fail(c), out PROVE Quiet'
  <2>1. call' = [call EXCEPT ![c] = Idle] /\ renewing' = renewing /\ tokens' = None
    BY <1>3 DEF Fail, Quiet
  <2> QED BY <1>0, <1>2, <1>3, <2>1
<1>4. ASSUME NEW c \in Call, Request(c) PROVE Quiet'
  <2>1. out /\ tokens' = None /\ renewing' = renewing
    BY <1>4 DEF Request, Quiet
  <2>2. \/ call' = call
        \/ \E k \in {"page", "load"} : call' = [call EXCEPT ![c] = Sent(k, tokens)]
    BY <1>4 DEF Request, Load
  <2>3. CASE call' = call
    BY <2>1, <2>3 DEF Quiet, LogsIn
  <2> QED BY <1>0, <1>2, <2>1, <2>2, <2>3
<1>5. ASSUME NEW c \in Call, Granted(c) PROVE Quiet'
  <2>1. out /\ call[c].kind # "login"
    BY <1>5 DEF Granted, Quiet, LogsIn
  <2>2. call' = [call EXCEPT ![c] = Idle] /\ tokens' = None /\ renewing' = renewing
    BY <1>5, <2>1 DEF Granted, Quiet
  <2> QED BY <1>0, <1>2, <2>1, <2>2
<1>6. ASSUME NEW c \in Call, Refused(c) PROVE Quiet'
  <2>1. out /\ tokens = None /\ renewing[c[1]] = None
    BY <1>6, CallAssumption DEF Refused, Quiet
  <2>2. Fail(c) \/ GiveUp(c)
    BY <1>6, <2>1 DEF Refused, RefreshToken
  <2>3. CASE GiveUp(c)
    BY <1>0, <1>2, <2>1, <2>3 DEF GiveUp
  <2> QED BY <1>3, <2>1, <2>2, <2>3
<1>7. ASSUME NEW c \in Call, Forbidden(c) PROVE Quiet'
  BY <1>3, <1>7 DEF Forbidden
<1>8. ASSUME NEW c \in Call, Submit(c) PROVE Quiet'
  BY <1>8 DEF Submit
<1>9. ASSUME NEW t \in Tab, Finish(t) PROVE Quiet'
  <2>1. out /\ renewing[t] # None
    BY <1>9 DEF Finish, Renewed, NotRenewed
  <2> QED BY <2>1 DEF Quiet
<1>10. ASSUME NEW t \in Tab, Open(t) PROVE Quiet'
  <2>1. /\ out /\ tokens' = None /\ tokens = None
        /\ renewing' = [renewing EXCEPT ![t] = None]
    BY <1>10 DEF Open, Quiet
  <2>2. call' = [c \in Call |-> IF c[1] = t THEN Idle ELSE call[c]]
    BY <1>10, <2>1 DEF Open
  <2> QED BY <1>0, <2>1, <2>2 DEF Quiet, LogsIn
<1>11. ASSUME NEW t \in Tab, Logout(t) PROVE Quiet'
  <2>1. (\A u \in Tab : renewing[u] = None) /\ (\A c \in Call : ~ LogsIn(c))
    BY <1>11 DEF Logout
  <2>2. tokens' = None /\ UNCHANGED <<renewing, call>>
    BY <1>11 DEF Logout
  <2> QED BY <2>1, <2>2 DEF Quiet, LogsIn
<1>12. CASE Outage
  <2>1. out
    BY <1>12 DEF Outage
  <2>2. \A t \in Tab : renewing[t] = None
    BY <2>1 DEF Quiet
  <2>3. \E c \in Call : Fail(c)
    BY <1>12, <2>2 DEF Outage
  <2> QED BY <1>3, <2>1, <2>3
<1>13. CASE Expire \/ Lapse \/ Activate \/ UNCHANGED vars
  BY <1>1, <1>13 DEF Expire, Lapse, Activate, vars
<1> QED BY <1>4, <1>5, <1>6, <1>7, <1>8, <1>9, <1>10, <1>11, <1>12, <1>13 DEF Next, Answer

\* LogoutHolds: with any number of tabs and requests, a log-out with no refresh
\* and no log-in under way keeps local storage empty until the next log-in,
\* because a refused request looks for the refresh token anew.
THEOREM LogoutIsFinal == Spec => []LogoutHolds
<1>1. Init => Shape /\ (out => Quiet)
  <2> SUFFICES ASSUME Init, out PROVE Quiet
    BY ShapeInit
  <2>1. tokens = None
    BY Zenon DEF Init
  <2>2. (\A t \in Tab : renewing[t] = None) /\ \A c \in Call : call[c] = Idle
    BY DEF Init
  <2> QED BY <2>1, <2>2 DEF Quiet, LogsIn, Idle
<1>2. Shape /\ (out => Quiet) /\ [Next]_vars => (Shape /\ (out => Quiet))'
  BY ShapeNext, QuietNext
<1>3. (out => Quiet) => LogoutHolds
  BY DEF Quiet, LogoutHolds
<1> QED BY <1>1, <1>2, <1>3, PTL DEF Spec

-----------------------------------------------------------------------------
(* Staying logged in.                                                      *)

\* As long as only access tokens have expired: the user is active, no refresh
\* token has lapsed, and what a refresh has brought is good until it is used.
Sound ==
  /\ active /\ since = 0
  /\ \A c \in Call : call[c].at = "sent" /\ call[c].retried /\ call[c].kind # "login"
                   => call[c].token = clock

\* In such a step nothing fails that would remove the tokens.
LEMMA SoundStep ==
  Shape /\ (~ hurt => Sound) /\ [Next]_vars /\ ~ hurt'
    => Sound' /\ (tokens # None => tokens' # None)
<1> SUFFICES ASSUME Shape, ~ hurt => Sound, [Next]_vars, ~ hurt'
             PROVE  Sound' /\ (tokens # None => tokens' # None)
  OBVIOUS
<1> DEFINE Good == Sound' /\ (tokens # None => tokens' # None)
<1> USE DEF server, history
<1>0. /\ DOMAIN call = Call /\ clock \in Nat /\ clock # None
      /\ Idle.at = "idle" /\ \A k, x : ~ Sent(k, x).retried
  BY DEF Shape, Idle, Sent, None
<1>1. CASE UNCHANGED <<clock, since, active, tokens, call, hurt>>
  BY <1>1 DEF Sound
<1>2. ASSUME NEW c \in Call, NEW r, r.at # "sent" \/ ~ r.retried, ~ hurt,
             call' = [call EXCEPT ![c] = r], UNCHANGED server
      PROVE  Sound'
  BY <1>0, <1>2 DEF Sound
\* Whatever fails for good is a log-in.
<1>3. ASSUME NEW c \in Call, Fail(c), call[c].kind # "load", ~ hurt, UNCHANGED server
      PROVE  Good
  <2>1. call' = [call EXCEPT ![c] = Idle] /\ tokens' = tokens
    BY <1>3 DEF Fail
  <2> QED BY <1>0, <1>2, <1>3, <2>1
<1>4. ASSUME NEW c \in Call, Request(c) PROVE Good
  <2>1. ~ hurt /\ tokens' = tokens /\ UNCHANGED server
    BY <1>4 DEF Request
  <2>2. \/ call' = call
        \/ \E k \in Kind : call' = [call EXCEPT ![c] = Sent(k, tokens)]
    BY <1>4 DEF Request, Load, Kind
  <2>3. CASE call' = call
    BY <2>1, <2>3 DEF Sound
  <2> QED BY <1>0, <1>2, <2>1, <2>2, <2>3
<1>5. ASSUME NEW c \in Call, Granted(c) PROVE Good
  <2>1. ~ hurt /\ UNCHANGED server
    BY <1>5 DEF Granted
  <2>2. \/ call' = [call EXCEPT ![c] = Idle] /\ tokens' = tokens
        \/ call' = [call EXCEPT ![c] = Sent("me", clock)] /\ tokens' = clock
    <3>1. CASE call[c].kind = "login"
      BY <1>5, <3>1 DEF Granted
    <3>2. CASE call[c].kind # "login"
      BY <1>5, <3>2 DEF Granted
    <3> QED BY <3>1, <3>2
  <2>3. CASE call' = [call EXCEPT ![c] = Idle] /\ tokens' = tokens
    BY <1>0, <1>2, <2>1, <2>3
  <2>4. CASE call' = [call EXCEPT ![c] = Sent("me", clock)] /\ tokens' = clock
    BY <1>0, <1>2, <2>1, <2>4
  <2> QED BY <2>2, <2>3, <2>4
<1>6. ASSUME NEW c \in Call, Refused(c) PROVE Good
  <2>1. ~ hurt /\ UNCHANGED server /\ call[c].at = "sent" /\ Refuses(c)
    BY <1>6 DEF Refused
  <2>2. CASE call[c].retried
    <3>1. call[c].kind # "load"
      BY <2>1, <2>2 DEF Sound, Refuses
    <3> QED BY <1>3, <1>6, <2>1, <2>2, <3>1 DEF Refused
  <2>3. CASE Join(c)
    <3>1. call' = [call EXCEPT ![c].at = "waiting", ![c].retried = TRUE] /\ tokens' = tokens
      BY <2>3 DEF Join
    <3>2. call[c] \in CallAt(clock)
      BY DEF Shape
    <3>3. call'[c].at # "sent" /\ \A d \in Call \ {c} : call'[d] = call[d]
      BY <1>0, <3>1, <3>2 DEF CallAt
    <3> QED BY <2>1, <3>1, <3>3 DEF Sound
  <2>4. CASE GiveUp(c) /\ tokens = None
    <3>1. call' = [call EXCEPT ![c] = Idle]
      BY <2>4 DEF GiveUp
    <3> QED BY <1>0, <1>2, <2>1, <2>4, <3>1
  <2> QED BY <1>6, <2>2, <2>3, <2>4 DEF Refused, RefreshToken
<1>7. ASSUME NEW c \in Call, Forbidden(c) PROVE Good
  BY <1>7 DEF Forbidden, Forbids, Sound
<1>8. ASSUME NEW c \in Call, Submit(c) PROVE Good
  <2>1. /\ ~ hurt /\ UNCHANGED server /\ tokens' = tokens
        /\ call' = [call EXCEPT ![c] = Sent("login", tokens)]
    BY <1>8 DEF Submit
  <2> QED BY <1>0, <1>2, <2>1
<1>9. ASSUME NEW t \in Tab, Renewed(t) PROVE Good
  <2>1. /\ ~ hurt /\ UNCHANGED server /\ tokens' = clock
        /\ call' = [c \in Call |-> IF c \in Waiting(t)
                                 THEN [call[c] EXCEPT !.at = "sent", !.token = clock]
                                 ELSE call[c]]
    BY <1>9 DEF Renewed
  <2>2. ASSUME NEW c \in Call, call'[c].at = "sent", call'[c].retried, call'[c].kind # "login"
        PROVE  call'[c].token = clock
    <3>1. call[c] \in CallAt(clock)
      BY DEF Shape
    <3>2. CASE c \in Waiting(t)
      BY <2>1, <3>1, <3>2 DEF CallAt
    <3>3. CASE c \notin Waiting(t)
      BY <2>1, <2>2, <3>3 DEF Sound
    <3> QED BY <3>2, <3>3
  <2> QED BY <1>0, <2>1, <2>2 DEF Sound
<1>10. ASSUME NEW t \in Tab, NotRenewed(t) PROVE Good
  <2>1. ~ hurt /\ ~ Renews(renewing[t]) /\ renewing[t] # None
    BY <1>10 DEF NotRenewed
  <2>2. renewing[t] \in 0..clock
    BY <2>1 DEF Shape
  <2>3. renewing[t] >= 0
    BY <1>0, <2>2
  <2> QED BY <2>1, <2>3 DEF Renews, Sound
<1>11. ASSUME NEW t \in Tab, Open(t) PROVE Good
  <2>1. PICK d \in Calls(t) :
          call' = [c \in Call |-> IF c = d /\ tokens # None THEN Sent("load", tokens)
                                  ELSE IF c[1] = t THEN Idle ELSE call[c]]
    BY <1>11 DEF Open
  <2>2. ~ hurt /\ UNCHANGED server /\ tokens' = tokens
    BY <1>11 DEF Open
  <2>3. \A c \in Call : \/ call'[c] = call[c] \/ call'[c] = Idle
                        \/ call'[c] = Sent("load", tokens)
    BY <2>1
  <2> QED BY <1>0, <2>2, <2>3 DEF Sound
<1>12. CASE Expire
  <2>1. /\ ~ hurt /\ UNCHANGED <<since, active, tokens, call>>
        /\ \A c \in Call : ~ (call[c].at = "sent" /\ call[c].retried)
    BY <1>12 DEF Expire
  <2> QED BY <2>1 DEF Sound
<1>13. ASSUME Outage \/ Lapse \/ Activate \/ \E t \in Tab : Logout(t) PROVE FALSE
  BY <1>13 DEF Outage, Lapse, Activate, Logout
<1>14. CASE UNCHANGED vars
  BY <1>1, <1>14 DEF vars
<1> QED BY <1>4, <1>5, <1>6, <1>7, <1>8, <1>9, <1>10, <1>11, <1>12, <1>13, <1>14
        DEF Next, Answer, Finish

\* StaysIn: with any number of tabs and requests, the expiry of access tokens
\* alone never removes the tokens.  Each request is sent again with what a
\* refresh has just brought, and so is not refused twice.
THEOREM ExpiryIsHarmless == Spec => StaysIn
<1> DEFINE Calm == ~ hurt => Sound
           Stays == tokens # None /\ ~ hurt' => tokens' # None
<1>1. Init => Shape /\ Calm
  BY ShapeInit DEF Init, Sound, Idle
<1>2. Shape /\ Calm /\ [Next]_vars => (Shape /\ Calm)'
  BY ShapeNext, SoundStep
<1>3. Shape /\ Calm /\ [Next]_vars => [Stays]_vars
  BY SoundStep
<1>4. Spec => [][Stays]_vars
  BY <1>1, <1>2, <1>3, PTL DEF Spec
<1> QED BY <1>4 DEF StaysIn
=============================================================================
