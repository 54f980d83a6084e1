------------------------- MODULE ExtensionWorkerProofs -------------------------
(***************************************************************************)
(* Theorems about ExtensionWorker, for any alerts, any size of a page and  *)
(* any number of polls that run through each other.                        *)
(***************************************************************************)
EXTENDS ExtensionWorker, WellFoundedInduction, FiniteSetTheorems, TLAPS

USE AlertAssumption, BoundAssumption

State == [at : Place, first : BOOLEAN, token : Token \cup {None}, retried : BOOLEAN,
          snapshot : SUBSET Alert, new : SUBSET Alert, map : SUBSET Alert,
          alert : Alert \cup {None}]

\* Where a poll has not got its answer yet.
Before == {"idle", "clear", "sync", "token", "refresh", "refreshing", "ask"}

\* What TypeOK leaves open.
Shape ==
  /\ poll \in [Poll -> State]
  /\ IsFiniteSet(raised)
  /\ period <= events
  /\ \A w \in Poll : /\ poll[w].map \subseteq raised
                     /\ poll[w].at \in Before => poll[w].snapshot = {}

IType == TypeOK /\ Shape

-----------------------------------------------------------------------------
(* What a page holds.                                                      *)

\* No more alerts than its size: all but the oldest of them are newer than the
\* oldest one.
LEMMA PageFits ==
  ASSUME NEW alerts \in SUBSET Alert, IsFiniteSet(alerts)
  PROVE  /\ Page(alerts) \subseteq alerts
         /\ Cardinality(Page(alerts)) <= PageSize
<1> DEFINE page == Page(alerts)
<1>1. page \subseteq alerts
  BY DEF Page
<1>2. IsFiniteSet(page)
  BY <1>1, FS_Subset
<1>3. CASE page = {}
  BY <1>1, <1>3, FS_EmptySet
<1>4. CASE page # {}
  <2>1. page \in SUBSET Nat
    BY <1>1
  <2>2. PICK oldest \in page : \A a \in page : oldest <= a
    <3>1. PICK oldest \in page : \A a \in page : ~ (<<a, oldest>> \in OpToRel(<, Nat))
      BY <1>4, <2>1, NatLessThanWellFounded, WFMin
    <3>2. \A a \in page : ~ (a < oldest)
      BY <2>1, <3>1 DEF OpToRel
    <3> QED BY <2>1, <3>2
  <2> DEFINE newer == {b \in alerts : b > oldest}
  <2>3. Cardinality(newer) < PageSize
    BY <2>2 DEF Page
  <2>4. IsFiniteSet(newer) /\ Cardinality(newer) \in Nat
    BY FS_Subset, FS_CardinalityType
  <2>5. page \ {oldest} \subseteq newer
    BY <1>1, <2>1, <2>2
  <2>6. Cardinality(page \ {oldest}) <= Cardinality(newer)
    BY <2>4, <2>5, FS_Subset
  <2>7. Cardinality(page \ {oldest}) = Cardinality(page) - 1 /\ Cardinality(page) \in Nat
    BY <1>2, <2>2, FS_RemoveElement, FS_CardinalityType
  <2> HIDE DEF page, newer
  <2>8. Cardinality(page) <= PageSize
    BY <2>3, <2>4, <2>6, <2>7
  <2> QED BY <1>1, <2>8 DEF page
<1> QED BY <1>3, <1>4

\* The empty snapshot of a poll that has read nothing fits as well.
LEMMA IdleType ==
  /\ Idle \in State
  /\ Cardinality(Idle.snapshot) <= PageSize
<1>1. Idle \in State
  BY DEF Idle, State, Place, None
<1>2. Idle.snapshot = {}
  BY DEF Idle
<1> QED BY <1>1, <1>2, FS_EmptySet

-----------------------------------------------------------------------------
(* Types.                                                                  *)

\* What has to be true of a poll.
PollOK(w) ==
  /\ poll[w].at \in Asking => poll[w].token \in 0..period
  /\ poll[w].new \subseteq poll[w].snapshot /\ poll[w].snapshot \subseteq raised
  /\ Cardinality(poll[w].snapshot) <= PageSize
  /\ poll[w].at \in {"write", "create"} => poll[w].alert \in poll[w].new
  /\ poll[w].at = "idle" => poll[w] = Idle
  /\ poll[w].map \subseteq raised
  /\ poll[w].at \in Before => poll[w].snapshot = {}

LEMMA InitType == Init => IType
<1> SUFFICES ASSUME Init PROVE IType
  OBVIOUS
<1>1. \A w \in Poll : poll[w] = Idle
  BY DEF Init
<1>2. Idle.new = {} /\ Idle.snapshot = {} /\ Idle.map = {} /\ Idle.at = "idle"
  BY DEF Idle
<1>3. \A w \in Poll : PollOK(w) /\ poll[w].at \in Place
  BY <1>1, <1>2, IdleType DEF PollOK, Asking, Place
<1>4. TypeOK
  BY <1>3 DEF Init, TypeOK, Token, PollOK
<1>5. Shape
  BY <1>1, <1>3, IdleType, FS_EmptySet DEF Init, Shape, PollOK
<1> QED BY <1>4, <1>5 DEF IType

LEMMA CountersType ==
  ASSUME IType
  PROVE  /\ period \in Nat /\ events \in Nat /\ period <= events
         /\ events \in events..MaxEvents /\ tokens \in 0..period \cup {None}
BY DEF IType, TypeOK, Shape, Token

\* A step of one poll: it is enough to look at what that poll becomes.
LEMMA PollStep ==
  ASSUME IType, NEW w \in Poll, NEW next \in State, poll' = [poll EXCEPT ![w] = next],
         UNCHANGED <<server, enabled>>, events' \in events..MaxEvents, PollOK(w)',
         tokens' \in 0..period \cup {None}, seen' \subseteq raised, synced' \in BOOLEAN,
         targets' \subseteq raised, badge' \subseteq raised,
         announced' \subseteq raised, excused' \subseteq raised
  PROVE  IType'
<1>1. poll' \in [Poll -> State]
  BY DEF IType, Shape
<1>2. \A v \in Poll : PollOK(v)'
  BY DEF IType, TypeOK, Shape, PollOK, server
<1>3. \A v \in Poll : poll'[v].at \in Place
  BY <1>1 DEF State
<1>4. events' \in 0..MaxEvents /\ period' <= events'
  BY CountersType DEF server
<1>5. TypeOK'
  BY <1>2, <1>3, <1>4 DEF IType, TypeOK, PollOK, server
<1>6. Shape'
  BY <1>1, <1>2, <1>4 DEF IType, Shape, PollOK, server
<1> QED BY <1>5, <1>6 DEF IType

\* A poll that ends,
LEMMA EndType ==
  ASSUME IType, NEW w \in Poll, End(w), UNCHANGED <<server, enabled, excused, announced>>,
         events' \in events..MaxEvents, tokens' \in 0..period \cup {None}, seen' = seen,
         synced' \in BOOLEAN, targets' = targets, badge' \in {badge, {}}
  PROVE  IType'
<1>1. poll' = [poll EXCEPT ![w] = Idle]
  BY DEF End
<1>2. poll'[w] = Idle
  BY <1>1 DEF IType, Shape
<1>3. Idle.new = {} /\ Idle.snapshot = {} /\ Idle.map = {} /\ Idle.at = "idle"
  BY DEF Idle
<1>4. PollOK(w)'
  BY <1>2, <1>3, IdleType DEF PollOK, Asking, Before
<1> QED BY <1>1, <1>4, IdleType, PollStep DEF IType, TypeOK

\* ... and one that only goes on to the next await.
LEMMA GotoType ==
  ASSUME IType, NEW w \in Poll, NEW place \in Place, Goto(w, place),
         place \notin Asking \cup {"idle"},
         place \in {"write", "create"} => poll[w].at \in {"write", "create"},
         place \in Before => poll[w].at \in Before,
         UNCHANGED <<server, enabled, tokens, announced>>,
         events' = events, synced' \in BOOLEAN, seen' \subseteq raised,
         targets' \subseteq raised, badge' \subseteq raised, excused' \subseteq raised
  PROVE  IType'
<1> DEFINE next == [poll[w] EXCEPT !.at = place]
<1>1. poll[w] \in State
  BY DEF IType, Shape
<1>2. poll' = [poll EXCEPT ![w] = next]
  BY DEF Goto
<1>3. /\ next \in State
      /\ next.at = place /\ next.new = poll[w].new /\ next.snapshot = poll[w].snapshot
      /\ next.alert = poll[w].alert /\ next.map = poll[w].map
  BY <1>1 DEF State
<1> HIDE DEF next
<1>4. poll'[w] = next
  BY <1>2 DEF IType, Shape
<1>5. PollOK(w)'
  BY <1>3, <1>4 DEF PollOK, IType, TypeOK, Shape, server
<1>6. events' \in events..MaxEvents /\ tokens' \in 0..period \cup {None} /\ announced' \subseteq raised
  BY CountersType DEF IType, TypeOK
<1> QED BY <1>2, <1>3, <1>5, <1>6, PollStep

\* A step that also changes what the poll holds.
LEMMA HoldType ==
  ASSUME IType, NEW w \in Poll, NEW next \in State, poll' = [poll EXCEPT ![w] = next],
         UNCHANGED <<server, enabled, synced, badge, excused, events>>,
         tokens' \in 0..period \cup {None}, seen' \subseteq raised,
         targets' \subseteq raised, announced' \subseteq raised,
         next.at \in Asking => next.token \in 0..period,
         next.new \subseteq next.snapshot, next.snapshot \subseteq raised,
         Cardinality(next.snapshot) <= PageSize,
         next.at \in {"write", "create"} => next.alert \in next.new,
         next.at # "idle", next.map \subseteq raised,
         next.at \in Before => next.snapshot = {}
  PROVE  IType'
<1>1. poll'[w] = next
  BY DEF IType, Shape
<1>2. PollOK(w)'
  BY <1>1 DEF PollOK, server
<1>3. /\ events' \in events..MaxEvents /\ synced' \in BOOLEAN
      /\ badge' \subseteq raised /\ excused' \subseteq raised
  BY CountersType DEF IType, TypeOK
<1> QED BY <1>2, <1>3, PollStep

\* What of a poll can be read in its own state.
LEMMA HeldType ==
  ASSUME IType, NEW w \in Poll
  PROVE  /\ poll[w] \in State /\ PollOK(w)
         /\ raised \subseteq Alert /\ IsFiniteSet(active) /\ active \subseteq raised
<1>1. raised \subseteq Alert /\ active \subseteq raised /\ IsFiniteSet(raised)
  BY DEF IType, TypeOK, Shape
<1>2. IsFiniteSet(active)
  BY <1>1, FS_Subset
<1> QED BY <1>1, <1>2 DEF IType, TypeOK, Shape, PollOK

LEMMA BeginType ==
  ASSUME IType, NEW w \in Poll,
         Start(w) \/ Clear(w) \/ ReadSync(w) \/ EnsureFresh(w) \/ Refresh(w)
  PROVE  IType'
<1> USE HeldType
<1>1. CASE Start(w)
  BY <1>1, GotoType DEF Start, Place, Asking, Before, storage, history, IType, TypeOK
<1>2. CASE Clear(w)
  BY <1>2, EndType DEF Clear, storage, history, IType, TypeOK
<1>3. CASE ReadSync(w)
  <2> DEFINE next == [poll[w] EXCEPT !.first = ~ synced, !.at = "token"]
  <2>1. poll' = [poll EXCEPT ![w] = next]
    BY <1>3 DEF ReadSync
  <2>2. /\ next \in State /\ next.at = "token" /\ next.new = poll[w].new
        /\ next.snapshot = poll[w].snapshot /\ next.map = poll[w].map
    BY DEF State, Place, IType, TypeOK
  <2>3. /\ UNCHANGED <<server, enabled, synced, badge, excused, events>>
        /\ tokens' \in 0..period \cup {None} /\ seen' \subseteq raised
        /\ targets' \subseteq raised /\ announced' \subseteq raised
        /\ poll[w].at = "sync"
    BY <1>3 DEF ReadSync, storage, history, IType, TypeOK
  <2> HIDE DEF next
  <2> QED BY <2>1, <2>2, <2>3, HoldType DEF PollOK, Asking, Before
<1>4. CASE EnsureFresh(w)
  <2>1. CASE End(w)
    BY <1>4, <2>1, EndType DEF EnsureFresh, storage, history, IType, TypeOK
  <2>2. CASE Goto(w, "refresh")
    BY <1>4, <2>2, GotoType DEF EnsureFresh, Place, Asking, Before, storage, history, IType, TypeOK
  <2>3. CASE tokens = period /\ poll' = [poll EXCEPT ![w].token = tokens, ![w].at = "ask"]
    <3> DEFINE next == [poll[w] EXCEPT !.token = tokens, !.at = "ask"]
    <3>1. poll' = [poll EXCEPT ![w] = next]
      BY <2>3
    <3>2. tokens \in 0..period /\ tokens \in Token
      BY <2>3 DEF IType, TypeOK, Token
    <3>3. /\ next \in State /\ next.at = "ask" /\ next.token \in 0..period
          /\ next.new = poll[w].new /\ next.snapshot = poll[w].snapshot
          /\ next.map = poll[w].map
      BY <3>2 DEF State, Place
    <3>4. /\ UNCHANGED <<server, enabled, synced, badge, excused, events>>
          /\ tokens' \in 0..period \cup {None} /\ seen' \subseteq raised
          /\ targets' \subseteq raised /\ announced' \subseteq raised
          /\ poll[w].at = "token"
      BY <1>4 DEF EnsureFresh, storage, history, IType, TypeOK
    <3> HIDE DEF next
    <3> QED BY <3>1, <3>3, <3>4, HoldType DEF PollOK, Before
  <2> QED BY <1>4, <2>1, <2>2, <2>3 DEF EnsureFresh
<1>5. CASE Refresh(w)
  <2>1. CASE End(w)
    BY <1>5, <2>1, EndType DEF Refresh, storage, history, IType, TypeOK
  <2>2. CASE tokens # None /\ poll' = [poll EXCEPT ![w].token = tokens, ![w].at = "refreshing"]
    <3> DEFINE next == [poll[w] EXCEPT !.token = tokens, !.at = "refreshing"]
    <3>1. poll' = [poll EXCEPT ![w] = next]
      BY <2>2
    <3>2. tokens \in 0..period /\ tokens \in Token
      BY <2>2 DEF IType, TypeOK, Token
    <3>3. /\ next \in State /\ next.at = "refreshing" /\ next.token \in 0..period
          /\ next.new = poll[w].new /\ next.snapshot = poll[w].snapshot
          /\ next.map = poll[w].map
      BY <3>2 DEF State, Place
    <3>4. /\ UNCHANGED <<server, enabled, synced, badge, excused, events>>
          /\ tokens' \in 0..period \cup {None} /\ seen' \subseteq raised
          /\ targets' \subseteq raised /\ announced' \subseteq raised
          /\ poll[w].at = "refresh"
      BY <1>5 DEF Refresh, storage, history, IType, TypeOK
    <3> HIDE DEF next
    <3> QED BY <3>1, <3>3, <3>4, HoldType DEF PollOK, Before
  <2> QED BY <1>5, <2>1, <2>2 DEF Refresh
<1> QED BY <1>1, <1>2, <1>3, <1>4, <1>5

LEMMA AnswerType ==
  ASSUME IType, NEW w \in Poll, Refreshed(w) \/ Ask(w) \/ Fault(w)
  PROVE  IType'
<1> USE HeldType
<1>1. CASE Fault(w)
  BY <1>1, EndType DEF Fault, history, IType, TypeOK
<1>2. CASE Refreshed(w)
  <2>1. CASE End(w)
    <3>1. period \in 0..period
      BY DEF IType, TypeOK, Token
    <3>2. tokens' \in 0..period \cup {None}
      BY <1>2, <3>1 DEF Refreshed
    <3> QED BY <1>2, <2>1, <3>2, EndType DEF Refreshed, history, IType, TypeOK
  <2>2. CASE tokens' = period /\ poll' = [poll EXCEPT ![w].token = period, ![w].at = "ask"]
    <3> DEFINE next == [poll[w] EXCEPT !.token = period, !.at = "ask"]
    <3>1. poll' = [poll EXCEPT ![w] = next]
      BY <2>2
    <3>2. period \in 0..period /\ period \in Token
      BY DEF IType, TypeOK, Token
    <3>3. /\ next \in State /\ next.at = "ask" /\ next.token \in 0..period
          /\ next.new = poll[w].new /\ next.snapshot = poll[w].snapshot
          /\ next.map = poll[w].map
      BY <3>2 DEF State, Place
    <3>4. /\ UNCHANGED <<server, enabled, synced, badge, excused, events>>
          /\ tokens' \in 0..period \cup {None} /\ seen' \subseteq raised
          /\ targets' \subseteq raised /\ announced' \subseteq raised
          /\ poll[w].at = "refreshing"
      BY <1>2, <2>2, <3>2 DEF Refreshed, storage, history, IType, TypeOK
    <3> HIDE DEF next
    <3> QED BY <3>1, <3>3, <3>4, HoldType DEF PollOK, Before
  <2> QED BY <1>2, <2>1, <2>2 DEF Refreshed
<1>3. CASE Ask(w)
  <2>1. CASE End(w)
    BY <1>3, <2>1, EndType DEF Ask, storage, history, IType, TypeOK
  <2>2. CASE poll' = [poll EXCEPT ![w].retried = TRUE, ![w].at = "refresh"]
    <3> DEFINE next == [poll[w] EXCEPT !.retried = TRUE, !.at = "refresh"]
    <3>1. poll' = [poll EXCEPT ![w] = next]
      BY <2>2
    <3>2. /\ next \in State /\ next.at = "refresh" /\ next.new = poll[w].new
          /\ next.snapshot = poll[w].snapshot /\ next.map = poll[w].map
      BY DEF State, Place
    <3>3. /\ UNCHANGED <<server, enabled, synced, badge, excused, events>>
          /\ tokens' \in 0..period \cup {None} /\ seen' \subseteq raised
          /\ targets' \subseteq raised /\ announced' \subseteq raised
          /\ poll[w].at = "ask"
      BY <1>3 DEF Ask, storage, history, IType, TypeOK
    <3> HIDE DEF next
    <3> QED BY <3>1, <3>2, <3>3, HoldType DEF PollOK, Asking, Before
  <2>3. CASE poll' = [poll EXCEPT ![w].snapshot = Page(active), ![w].at = "badge"]
    <3> DEFINE next == [poll[w] EXCEPT !.snapshot = Page(active), !.at = "badge"]
    <3>1. poll' = [poll EXCEPT ![w] = next]
      BY <2>3
    <3>2. Page(active) \subseteq active /\ Cardinality(Page(active)) <= PageSize
      BY PageFits
    <3>3. /\ next \in State /\ next.at = "badge" /\ next.new = poll[w].new
          /\ next.snapshot = Page(active) /\ next.map = poll[w].map
      BY <3>2 DEF State, Place
    <3>4. poll[w].new = {}
      BY <1>3 DEF Ask, PollOK, Before
    <3>5. /\ UNCHANGED <<server, enabled, synced, badge, excused, events>>
          /\ tokens' \in 0..period \cup {None} /\ seen' \subseteq raised
          /\ targets' \subseteq raised /\ announced' \subseteq raised
          /\ poll[w].at = "ask"
      BY <1>3 DEF Ask, storage, history, IType, TypeOK
    <3> HIDE DEF next
    <3> QED BY <3>1, <3>2, <3>3, <3>4, <3>5, HoldType DEF PollOK, Asking, Before
  <2> QED BY <1>3, <2>1, <2>2, <2>3 DEF Ask
<1> QED BY <1>1, <1>2, <1>3

LEMMA AnnounceType ==
  ASSUME IType, NEW w \in Poll,
         \/ ReadSeen(w) \/ \E a \in poll[w].new : ReadTargets(w, a)
         \/ WriteTarget(w) \/ Announce(w)
  PROVE  IType'
<1> USE HeldType
<1>1. CASE ReadSeen(w)
  <2> DEFINE next == [poll[w] EXCEPT !.new = poll[w].snapshot \ seen, !.at = "announce"]
  <2>1. poll' = [poll EXCEPT ![w] = next]
    BY <1>1 DEF ReadSeen
  <2>2. /\ next \in State /\ next.at = "announce" /\ next.new = poll[w].snapshot \ seen
        /\ next.snapshot = poll[w].snapshot /\ next.map = poll[w].map
    BY DEF State, Place
  <2>3. /\ UNCHANGED <<server, enabled, synced, badge, excused, events>>
        /\ tokens' \in 0..period \cup {None} /\ seen' \subseteq raised
        /\ targets' \subseteq raised /\ announced' \subseteq raised
    BY <1>1 DEF ReadSeen, storage, history, IType, TypeOK
  <2> HIDE DEF next
  <2> QED BY <2>1, <2>2, <2>3, HoldType DEF PollOK, Asking, Before
<1>2. ASSUME NEW a \in poll[w].new, ReadTargets(w, a)
      PROVE  IType'
  <2> DEFINE next == [poll[w] EXCEPT !.map = targets, !.alert = a, !.at = "write"]
  <2>1. poll' = [poll EXCEPT ![w] = next]
    BY <1>2 DEF ReadTargets
  <2>2. targets \subseteq raised /\ a \in raised
    BY DEF IType, TypeOK
  <2>3. /\ next \in State /\ next.at = "write" /\ next.new = poll[w].new
        /\ next.snapshot = poll[w].snapshot /\ next.map = targets /\ next.alert = a
    BY <2>2 DEF State, Place
  <2>4. /\ UNCHANGED <<server, enabled, synced, badge, excused, events>>
        /\ tokens' \in 0..period \cup {None} /\ seen' \subseteq raised
        /\ targets' \subseteq raised /\ announced' \subseteq raised
    BY <1>2 DEF ReadTargets, storage, history, IType, TypeOK
  <2> HIDE DEF next
  <2> QED BY <2>1, <2>2, <2>3, <2>4, HoldType DEF PollOK, Asking, Before
<1>3. CASE WriteTarget(w)
  <2>1. poll[w].map \cup {poll[w].alert} \subseteq raised
    BY <1>3 DEF WriteTarget, PollOK
  <2>2. /\ targets' \subseteq raised
        /\ UNCHANGED <<server, enabled, tokens, announced, events, synced, seen, badge, excused>>
        /\ poll[w].at = "write" /\ Goto(w, "create")
    BY <1>3, <2>1 DEF WriteTarget, history
  <2> QED BY <2>2, GotoType DEF Place, Asking, Before, IType, TypeOK
<1>4. CASE Announce(w)
  <2> DEFINE next == [poll[w] EXCEPT !.new = @ \ {poll[w].alert}, !.at = "announce"]
  <2>1. poll' = [poll EXCEPT ![w] = next]
    BY <1>4 DEF Announce
  <2>2. /\ next \in State /\ next.at = "announce" /\ next.new = poll[w].new \ {poll[w].alert}
        /\ next.snapshot = poll[w].snapshot /\ next.map = poll[w].map
    BY DEF State, Place
  <2>3. poll[w].alert \in raised
    BY <1>4 DEF Announce, PollOK
  <2>4. /\ UNCHANGED <<server, enabled, synced, badge, excused, events>>
        /\ tokens' \in 0..period \cup {None} /\ seen' \subseteq raised
        /\ targets' \subseteq raised /\ announced' \subseteq raised
    BY <1>4, <2>3 DEF Announce, storage, IType, TypeOK
  <2> HIDE DEF next
  <2> QED BY <2>1, <2>2, <2>4, HoldType DEF PollOK, Asking, Before
<1> QED BY <1>1, <1>2, <1>3, <1>4

LEMMA CloseType ==
  ASSUME IType, NEW w \in Poll,
         \/ UpdateBadge(w) \/ ReadSettings(w) \/ Announced(w) \/ SaveSeen(w) \/ Stamp(w)
  PROVE  IType'
<1> USE HeldType
<1>1. CASE UpdateBadge(w)
  BY <1>1, GotoType
     DEF UpdateBadge, PollOK, Place, Asking, Before, storage, history, IType, TypeOK
<1>2. CASE ReadSettings(w)
  <2>1. /\ UNCHANGED <<server, enabled, tokens, announced, events, synced, seen, targets, badge>>
        /\ excused' \subseteq raised
        /\ Goto(w, "seen") \/ Goto(w, "save")
    BY <1>2 DEF ReadSettings, PollOK, storage, IType, TypeOK
  <2> QED BY <2>1, GotoType DEF Place, Asking, Before, IType, TypeOK
<1>3. CASE Announced(w)
  BY <1>3, GotoType DEF Announced, Place, Asking, Before, storage, history, IType, TypeOK
<1>4. CASE SaveSeen(w)
  BY <1>4, GotoType DEF SaveSeen, PollOK, Place, Asking, Before, history, IType, TypeOK
<1>5. CASE Stamp(w)
  BY <1>5, EndType DEF Stamp, history, IType, TypeOK
<1> QED BY <1>1, <1>2, <1>3, <1>4, <1>5

\* The polls go on with what they have when the world around them changes.
LEMMA WorldType ==
  ASSUME IType,
         \/ \E a \in Alert : Raise(a) \/ Resolve(a)
         \/ Expire \/ Reject \/ Login \/ Logout \/ ToggleNotifications
  PROVE  IType'
<1>1. /\ poll' = poll /\ events' \in 0..MaxEvents
      /\ UNCHANGED <<seen, synced, targets, badge, announced, excused>>
  <2>1. /\ events < MaxEvents /\ events' = events + 1 /\ poll' = poll
        /\ UNCHANGED <<seen, synced, targets, badge, announced, excused>>
    BY DEF Raise, Resolve, Expire, Reject, Login, Logout, ToggleNotifications, storage, history
  <2> QED BY <2>1 DEF IType, TypeOK
<1>2. /\ period' \in Token /\ period' >= period /\ period' <= events'
      /\ tokens' \in {tokens, period, None} /\ accepted' \in BOOLEAN /\ enabled' \in BOOLEAN
  <2>1. period \in Nat /\ events \in Nat /\ period <= events
    BY DEF IType, TypeOK, Shape, Token
  <2>2. events < MaxEvents /\ events' = events + 1 /\ period' \in {period, period + 1}
    BY DEF Raise, Resolve, Expire, Reject, Login, Logout, ToggleNotifications, server
  <2>3. /\ tokens' \in {tokens, period, None} /\ accepted' \in BOOLEAN /\ enabled' \in BOOLEAN
    BY DEF Raise, Resolve, Expire, Reject, Login, Logout, ToggleNotifications, server,
           storage, IType, TypeOK
  <2> QED BY <2>1, <2>2, <2>3 DEF Token
<1>3. /\ raised \subseteq raised' /\ raised' \subseteq Alert /\ active' \subseteq raised'
      /\ IsFiniteSet(raised')
  <2>1. IsFiniteSet(raised) /\ raised \subseteq Alert /\ active \subseteq raised
    BY DEF IType, TypeOK, Shape
  <2>2. ASSUME NEW a \in Alert, Raise(a)
        PROVE  /\ raised \subseteq raised' /\ raised' \subseteq Alert
               /\ active' \subseteq raised' /\ IsFiniteSet(raised')
    <3>1. raised' = raised \cup {a} /\ active' = active \cup {a}
      BY <2>2 DEF Raise
    <3>2. IsFiniteSet(raised \cup {a})
      BY <2>1, FS_AddElement
    <3> QED BY <2>1, <3>1, <3>2
  <2>3. CASE raised' = raised /\ active' \subseteq active
    BY <2>1, <2>3
  <2> QED BY <2>2, <2>3
          DEF Resolve, Expire, Reject, Login, Logout, ToggleNotifications, server
<1>4. 0..period \subseteq 0..period' /\ period \in 0..period'
  BY <1>2, CountersType DEF Token
<1>5. \A w \in Poll : PollOK(w)'
  BY <1>1, <1>3, <1>4, HeldType DEF PollOK
<1>6. TypeOK'
  BY <1>1, <1>2, <1>3, <1>4, <1>5 DEF IType, TypeOK, PollOK
<1>7. Shape'
  BY <1>1, <1>2, <1>3, <1>5 DEF IType, Shape, PollOK
<1> QED BY <1>6, <1>7 DEF IType

LEMMA SuspendType ==
  ASSUME IType, Suspend
  PROVE  IType'
<1>1. \A w \in Poll : poll'[w] = Idle
  BY DEF Suspend
<1>2. Idle.new = {} /\ Idle.snapshot = {} /\ Idle.map = {} /\ Idle.at = "idle"
  BY DEF Idle
<1>3. \A w \in Poll : PollOK(w)' /\ poll'[w].at \in Place
  BY <1>1, <1>2, IdleType DEF PollOK, Asking, Before, Place
<1>4. poll' \in [Poll -> State]
  BY IdleType DEF Suspend
<1>5. /\ events' \in 0..MaxEvents /\ events' = events + 1
      /\ UNCHANGED <<server, storage, badge, history>>
  BY DEF Suspend, IType, TypeOK
<1> QED BY <1>3, <1>4, <1>5
        DEF IType, TypeOK, Shape, PollOK, Token, server, storage, history

LEMMA StepType ==
  ASSUME IType, [Next]_vars
  PROVE  IType'
<1>1. CASE UNCHANGED vars
  BY <1>1 DEF IType, TypeOK, Shape, vars, server, storage, history
<1>2. ASSUME NEW w \in Poll, Start(w) \/ Proceed(w) \/ Fault(w)
      PROVE  IType'
  BY <1>2, BeginType, AnswerType, AnnounceType, CloseType DEF Proceed
<1> QED BY <1>1, <1>2, SuspendType, WorldType DEF Next

\* The type invariant, however many polls run through each other: nobody asks
\* without a token, nobody holds more than a page, and what a poll is about to
\* announce is in its snapshot (poll and fetchActiveAlerts, service-worker.ts).
THEOREM TypeCorrect == Spec => []TypeOK
<1>1. IType /\ [Next]_vars => IType'
  BY StepType
<1>2. IType => TypeOK
  BY DEF IType
<1> QED BY <1>1, <1>2, InitType, PTL DEF Spec

-----------------------------------------------------------------------------
(* A log-out.                                                              *)

\* After a log-out that no refresh outran there is nothing that could store
\* tokens: no refresh is under way, and none begins without a refresh token.
Silent ==
  out /\ ~ late => tokens = None /\ \A w \in Poll : poll[w].at # "refreshing"

\* One poll takes a step and sends no refresh.
Moved(w) ==
  /\ \A v \in Poll \ {w} : poll'[v] = poll[v]
  /\ poll'[w].at # "refreshing"

LEMMA StepSilent ==
  ASSUME IType, Silent, [Next]_vars
  PROVE  Silent'
<1>1. poll \in [Poll -> State]
  BY DEF IType, Shape
<1>2. CASE UNCHANGED vars
  BY <1>2 DEF Silent, vars, storage, history
<1>3. ASSUME NEW w \in Poll, Start(w) \/ Proceed(w) \/ Fault(w)
      PROVE  Silent'
  <2>1. UNCHANGED <<out, late>>
    BY <1>3 DEF Start, Proceed, Fault, Clear, ReadSync, EnsureFresh, Refresh, Refreshed,
         Ask, UpdateBadge, ReadSettings, ReadSeen, ReadTargets, WriteTarget, Announce,
         Announced, SaveSeen, Stamp, history
  <2>2. tokens' = tokens \/ poll[w].at = "refreshing"
    BY <1>3 DEF Start, Proceed, Fault, Clear, ReadSync, EnsureFresh, Refresh, Refreshed,
         Ask, UpdateBadge, ReadSettings, ReadSeen, ReadTargets, WriteTarget, Announce,
         Announced, SaveSeen, Stamp, storage
  <2>3. CASE Refresh(w)
    BY <1>1, <2>1, <2>2, <2>3 DEF Refresh, Silent, End, Idle
  <2>4. CASE ~ Refresh(w)
    <3>1. Start(w) \/ Clear(w) \/ ReadSync(w) \/ EnsureFresh(w) => Moved(w)
      BY <1>1 DEF Start, Clear, ReadSync, EnsureFresh, Goto, End, Idle, State, Moved
    <3>2. Refreshed(w) \/ Ask(w) \/ Fault(w) => Moved(w)
      BY <1>1 DEF Refreshed, Ask, Fault, Goto, End, Idle, State, Moved
    <3>3. UpdateBadge(w) \/ ReadSettings(w) \/ ReadSeen(w) => Moved(w)
      BY <1>1 DEF UpdateBadge, ReadSettings, ReadSeen, Goto, End, Idle, State, Moved
    <3>4. WriteTarget(w) \/ Announce(w) \/ Announced(w) \/ SaveSeen(w) \/ Stamp(w) => Moved(w)
      BY <1>1 DEF WriteTarget, Announce, Announced, SaveSeen, Stamp, Goto, End, Idle, State, Moved
    <3>5. ASSUME NEW a \in poll[w].new, ReadTargets(w, a) PROVE Moved(w)
      BY <1>1, <3>5 DEF ReadTargets, Moved
    <3>6. Moved(w)
      BY <1>3, <2>4, <3>1, <3>2, <3>3, <3>4, <3>5 DEF Proceed
    <3> QED BY <2>1, <2>2, <3>6 DEF Silent, Moved
  <2> QED BY <2>3, <2>4
<1>4. CASE Suspend
  BY <1>4 DEF Suspend, Silent, Idle, storage, history
<1>5. CASE Logout
  BY <1>5 DEF Logout, Silent
<1>6. CASE Login
  BY <1>6 DEF Login, Silent
<1>7. CASE \/ \E a \in Alert : Raise(a) \/ Resolve(a)
           \/ Expire \/ Reject \/ ToggleNotifications
  BY <1>7 DEF Raise, Resolve, Expire, Reject, ToggleNotifications, Silent, storage, history
<1> QED BY <1>2, <1>3, <1>4, <1>5, <1>6, <1>7 DEF Next

\* Who has logged out stays logged out, whatever polls were under way, unless
\* one of them had already sent its refresh (clearTokens, refreshTokens).
THEOREM LogoutIsFinal == Spec => []LogoutHolds
<1>1. Init => IType /\ Silent
  <2> SUFFICES ASSUME Init PROVE Silent
    BY InitType
  <2>1. out = (tokens = None) /\ \A w \in Poll : poll[w].at = "idle"
    BY DEF Init, Idle
  <2>2. out => tokens = None
    BY <2>1
  <2> QED BY <2>1, <2>2 DEF Silent
<1>2. IType /\ Silent /\ [Next]_vars => (IType /\ Silent)'
  BY StepType, StepSilent
<1>3. Silent => LogoutHolds
  BY DEF Silent, LogoutHolds
<1> QED BY <1>1, <1>2, <1>3, PTL DEF Spec

-----------------------------------------------------------------------------
(* What is taken for seen.                                                 *)

Told == announced \cup excused

\* Of its snapshot a poll has told all that is no longer new, and before it
\* saves the snapshot, all of it.
PollTold(w) ==
  /\ poll[w].at \in {"announce", "write", "create"} =>
       poll[w].snapshot \subseteq Told \cup poll[w].new
  /\ poll[w].at = "save" => poll[w].snapshot \subseteq Told

SeenInv == seen \subseteq Told /\ \A w \in Poll : PollTold(w)

\* What has been told stays told, so that a step of one poll does not disturb
\* the others.
LEMMA TellStep ==
  ASSUME IType, SeenInv, Told \subseteq Told', seen' \subseteq Told', NEW w \in Poll,
         \A v \in Poll \ {w} : poll'[v] = poll[v],
         PollTold(w)'
  PROVE  SeenInv'
BY DEF SeenInv, PollTold

LEMMA PollSeen ==
  ASSUME IType, SeenInv, NEW w \in Poll, Start(w) \/ Proceed(w) \/ Fault(w)
  PROVE  SeenInv'
<1>1. poll \in [Poll -> State]
  BY DEF IType, Shape
<1>2. Told \subseteq Told'
  BY DEF Start, Proceed, Fault, Clear, ReadSync, EnsureFresh, Refresh, Refreshed,
     Ask, UpdateBadge, ReadSettings, ReadSeen, ReadTargets, WriteTarget, Announce,
     Announced, SaveSeen, Stamp, history, Told
<1>3. seen' \subseteq Told'
  <2>1. seen' = seen \/ (poll[w].at = "save" /\ seen' = poll[w].snapshot)
    BY DEF Start, Proceed, Fault, Clear, ReadSync, EnsureFresh, Refresh, Refreshed,
       Ask, UpdateBadge, ReadSettings, ReadSeen, ReadTargets, WriteTarget, Announce,
       Announced, SaveSeen, Stamp, storage
  <2> QED BY <1>2, <2>1 DEF SeenInv, PollTold
<1> DEFINE Result == (\A v \in Poll \ {w} : poll'[v] = poll[v]) /\ PollTold(w)'
\* Up to the answer, and after the snapshot is saved, a poll owes nothing.
<1>4. Start(w) \/ Clear(w) \/ ReadSync(w) \/ EnsureFresh(w) \/ Refresh(w) => Result
  BY <1>1 DEF Start, Clear, ReadSync, EnsureFresh, Refresh, Goto, End, Idle, State, PollTold
<1>5. Refreshed(w) \/ Ask(w) \/ Fault(w) \/ UpdateBadge(w) \/ SaveSeen(w) \/ Stamp(w) => Result
  BY <1>1 DEF Refreshed, Ask, Fault, UpdateBadge, SaveSeen, Stamp, Goto, End, Idle, State, PollTold
\* A poll that announces nothing has excused its snapshot.
<1>6. ReadSettings(w) => Result
  BY <1>1 DEF ReadSettings, Goto, State, PollTold, Told
\* What is not new is in seen, and that was told.
<1>7. ReadSeen(w) => Result
  BY <1>1, <1>2 DEF ReadSeen, State, PollTold, SeenInv
<1>8. ASSUME NEW a \in poll[w].new, ReadTargets(w, a) PROVE Result
  BY <1>1, <1>2, <1>8 DEF ReadTargets, State, PollTold, SeenInv
<1>9. WriteTarget(w) \/ Announced(w) => Result
  BY <1>1, <1>2 DEF WriteTarget, Announced, Goto, State, PollTold, SeenInv
\* What is announced is no longer new.
<1>10. Announce(w) => Result
  BY <1>1, <1>2 DEF Announce, State, PollTold, SeenInv, Told
<1>11. Result
  BY <1>4, <1>5, <1>6, <1>7, <1>8, <1>9, <1>10 DEF Proceed
<1> QED BY <1>2, <1>3, <1>11, TellStep

LEMMA StepSeen ==
  ASSUME IType, SeenInv, [Next]_vars
  PROVE  SeenInv'
<1>1. CASE /\ UNCHANGED <<seen, announced, excused>>
           /\ UNCHANGED poll \/ \A w \in Poll : poll'[w] = Idle
  BY <1>1 DEF SeenInv, PollTold, Told, Idle
<1>2. CASE UNCHANGED vars
  BY <1>1, <1>2 DEF vars, storage, history
<1>3. CASE \/ \E a \in Alert : Raise(a) \/ Resolve(a)
           \/ Suspend \/ Expire \/ Reject \/ Login \/ Logout \/ ToggleNotifications
  BY <1>1, <1>3 DEF Raise, Resolve, Suspend, Expire, Reject, Login, Logout,
     ToggleNotifications, storage, history
<1> QED BY <1>2, <1>3, PollSeen DEF Next

\* No alert is taken for seen in silence: it was announced, or left out by the
\* first poll or with notifications disabled, wherever the browser cuts polls
\* off and however they overlap (poll and notifyNewAlert, service-worker.ts).
THEOREM NothingMissed == Spec => []SeenWasAnnounced
<1>1. Init => IType /\ SeenInv
  BY InitType DEF Init, SeenInv, PollTold, Idle
<1>2. IType /\ SeenInv /\ [Next]_vars => (IType /\ SeenInv)'
  BY StepType, StepSeen
<1>3. SeenInv => SeenWasAnnounced
  BY DEF SeenInv, Told, SeenWasAnnounced
<1> QED BY <1>1, <1>2, <1>3, PTL DEF Spec
=============================================================================
