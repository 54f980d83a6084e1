-------------------------- MODULE OptimizationProofs --------------------------
(***************************************************************************)
(* Theorems about OptimizationRecommendations, for any loads, thresholds   *)
(* of auto-apply, operators and number of slots.                           *)
(***************************************************************************)
EXTENDS OptimizationRecommendations, TLAPS

USE AutoApplyAssumption, NatAssumption, LoadAssumption

-----------------------------------------------------------------------------
(* The figures a run computes.                                             *)

\* The safety limit of scale_deployment.
LEMMA DesiredBounded ==
  ASSUME NEW cpu \in Nat, NEW n \in Nat
  PROVE  DesiredReplicas(cpu, n) \in 1..MaxReplicas
<1>1. (n * cpu + 59) \div 60 \in Int
  <2>1. n * cpu \in Nat
    BY SMT
  <2>2. ASSUME NEW k \in Nat PROVE (k + 59) \div 60 \in Int
    BY SMT
  <2> QED BY <2>1, <2>2
<1> DEFINE d == (n * cpu + 59) \div 60
<1> HIDE DEF d
<1>2. d \in Int
  BY <1>1 DEF d
<1>3. Larger(1, Smaller(MaxReplicas, d)) \in 1..MaxReplicas
  BY <1>2 DEF Larger, Smaller, MaxReplicas
<1> QED BY <1>3 DEF DesiredReplicas, d

LEMMA TargetIsNat ==
  ASSUME NEW memory \in Nat
  PROVE  TargetLimit(memory) \in Nat
BY DEF TargetLimit

LEMMA FiguresAreNat ==
  ASSUME load \in Load
  PROVE  Cpu \in Nat /\ Memory \in Nat
BY DEF Cpu, Memory, Blend, Larger

\* What a run decides has the type of a plan, and applies only what it
\* creates, is enabled and has a target.
LEMMA NewPlanType ==
  ASSUME TypeOK, load \in Load
  PROVE  /\ NewPlan \in Plan
         /\ NewPlan.apply \subseteq NewPlan.create \cap AutoApply \cap Targeted
         /\ NewPlan.scales => NewPlan.replicas \in 1..MaxReplicas
<1>1. DesiredReplicas(Cpu, replicas) \in 1..MaxReplicas
  BY FiguresAreNat, DesiredBounded DEF TypeOK
<1>2. TargetLimit(Memory) \in Nat
  BY FiguresAreNat, TargetIsNat
<1>3. DesiredReplicas(Cpu, replicas) \in Nat
  BY <1>1 DEF MaxReplicas
<1>4. Create \in SUBSET Type /\ Apply \in SUBSET Type
  BY DEF Create, CreateCost, Apply, Wanted, Type
<1>5. Dismiss \in SUBSET Id
  BY DEF Dismiss, Pending
<1>6. Scales \in BOOLEAN /\ Limits \in BOOLEAN
  BY DEF Scales, Limits
<1> DEFINE r == IF Scales THEN DesiredReplicas(Cpu, replicas) ELSE 0
           l == IF Limits THEN TargetLimit(Memory) ELSE 0
<1>7. r \in Nat /\ l \in Nat /\ (Scales => r \in 1..MaxReplicas)
  BY <1>1, <1>2, <1>3
<1>8. NewPlan = [dismiss |-> Dismiss, create |-> Create, apply |-> Apply, scales |-> Scales,
                 replicas |-> r, limits |-> Limits, limit |-> l]
  BY DEF NewPlan
<1> HIDE DEF r, l
<1> QED BY <1>4, <1>5, <1>6, <1>7, <1>8 DEF Plan, Apply

-----------------------------------------------------------------------------
(* Types.                                                                  *)

\* Every variable keeps its type; what is applied has a target, and a target
\* is between one replica and the ceiling.
THEOREM TypeCorrect == Spec => []TypeOK
<1>1. Init => TypeOK
  BY DEF Init, TypeOK, Id, Type, Status, Resolved
<1>2. TypeOK /\ [Next]_vars => TypeOK'
  <2> SUFFICES ASSUME TypeOK, [Next]_vars PROVE TypeOK'
    OBVIOUS
  <2> USE DEF TypeOK
  <2>1. ASSUME NEW s \in Session, Skip(s) PROVE TypeOK'
    BY <2>1 DEF Skip, vars
  <2>2. ASSUME NEW s \in Session, Evaluate(s) PROVE TypeOK'
    <3>1. load \in Load
      BY <2>2 DEF Evaluate
    <3>2. plan' = [plan EXCEPT ![s] = NewPlan]
      BY <2>2 DEF Evaluate
    <3> HIDE DEF TypeOK
    <3>3. /\ NewPlan \in Plan
          /\ NewPlan.apply \subseteq NewPlan.create \cap AutoApply \cap Targeted
          /\ NewPlan.scales => NewPlan.replicas \in 1..MaxReplicas
      BY <3>1, NewPlanType
    <3> USE DEF TypeOK
    <3> DEFINE np == NewPlan
    <3> HIDE DEF np
    <3>4. \A r \in Session : plan'[r] = IF r = s THEN np ELSE plan[r]
      BY <3>2 DEF np
    <3>5. plan' \in [Session -> Plan \cup {NoPlan}]
      BY <3>2, <3>3 DEF np
    <3> QED BY <2>2, <3>3, <3>4, <3>5 DEF Evaluate, np
  <2>3. ASSUME NEW s \in Session, Commit(s) PROVE TypeOK'
    <3>1. PICK f \in Places(plan[s].create) : row' = Written(plan[s], f)
      BY <2>3 DEF Commit
    <3>2. plan[s] \in Plan
      BY <2>3 DEF Commit
    <3>3. row' \in [Id -> Status]
      BY <3>1, <3>2 DEF Written, Status, Resolved
    <3>4. replicas' \in Nat /\ limit' \in Nat
      BY <2>3, <3>2 DEF Commit, Plan
    <3>5. \A r \in Session : plan'[r] = IF r = s THEN NoPlan ELSE plan[r]
      BY <2>3 DEF Commit
    <3>6. plan' \in [Session -> Plan \cup {NoPlan}]
      BY <2>3 DEF Commit
    <3>7. meanwhile' \in [Session -> SUBSET Type]
      <4>1. \A r \in Session : plan[r] # NoPlan => plan[r].create \subseteq Type
        BY DEF Plan
      <4> QED BY <2>3, <4>1 DEF Commit
    <3> QED BY <2>3, <3>3, <3>4, <3>5, <3>6, <3>7 DEF Commit
  <2>4. ASSUME NEW s \in Session, Fail(s) PROVE TypeOK'
    <3>1. \A r \in Session : plan'[r] = IF r = s THEN NoPlan ELSE plan[r]
      BY <2>4 DEF Fail
    <3>2. plan' \in [Session -> Plan \cup {NoPlan}]
      BY <2>4 DEF Fail
    <3> QED BY <2>4, <3>1, <3>2 DEF Fail
  <2>5. ASSUME NEW o \in Operator, NEW i \in Id, NEW status \in Resolved,
               Ask(o, i, status)
        PROVE  TypeOK'
    BY <2>5 DEF Ask
  <2>6. ASSUME NEW o \in Operator, Answer(o) PROVE TypeOK'
    <3>1. asked[o] \in Id \X Resolved
      BY <2>6 DEF Answer
    <3>2. asked[o][1] \in Id /\ asked[o][2] \in Resolved
      BY <3>1
    <3>3. row' \in [Id -> Status]
      BY <2>6, <3>2 DEF Answer, Status
    <3>4. asked' \in [Operator -> (Id \X Resolved) \cup {Nothing}]
      BY <2>6 DEF Answer
    <3> QED BY <2>6, <3>3, <3>4 DEF Answer
  <2>7. ASSUME NEW i \in Id, CoolDown(i) PROVE TypeOK'
    BY <2>7 DEF CoolDown, Status
  <2>8. ASSUME NEW n \in OwnerReplicas, Resize(n) PROVE TypeOK'
    BY <2>8 DEF Resize
  <2>9. ASSUME NEW l \in Load, Measure(l) PROVE TypeOK'
    BY <2>9 DEF Measure
  <2>10. CASE UNCHANGED vars
    BY <2>10 DEF vars
  <2> QED
    BY <2>1, <2>2, <2>3, <2>4, <2>5, <2>6, <2>7, <2>8, <2>9, <2>10 DEF Next
<1> QED BY <1>1, <1>2, PTL DEF Spec

-----------------------------------------------------------------------------
(* The cooldown.                                                           *)

\* What a session or an operator is about to write is still there, and what
\* a session is about to create has not appeared in the meantime, unless
\* another session created it.
PlansFresh ==
  /\ \A s \in Session : plan[s] # NoPlan =>
       /\ \A t \in plan[s].create : Unheard(t) \/ t \in meanwhile[s]
       /\ \A i \in plan[s].dismiss : row[i] # "absent"
  /\ \A o \in Operator : asked[o] # Nothing => row[asked[o][1]] # "absent"

CooldownInv == TypeOK /\ PlansFresh

LEMMA IdIs ==
  /\ \A i \in Id : i = <<i[1], i[2]>> /\ i[1] \in Type /\ i[2] \in Slot
  /\ \A t \in Type, n \in Slot : <<t, n>> \in Id /\ <<t, n>>[1] = t
BY DEF Id

\* What a commit makes of each row.
LEMMA CommitRows ==
  ASSUME TypeOK, NEW s \in Session, Commit(s)
  PROVE  /\ plan[s] # NoPlan /\ plan[s] \in Plan /\ plan'[s] = NoPlan
         /\ \E f \in Places(plan[s].create) : \A i \in Id :
              /\ i \in plan[s].dismiss => row'[i] = "dismissed"
              /\ i \notin plan[s].dismiss /\ i[1] \in plan[s].create /\ f[i[1]] = i[2]
                   => row'[i] # "absent"
              /\ i \notin plan[s].dismiss /\ ~(i[1] \in plan[s].create /\ f[i[1]] = i[2])
                   => row'[i] = row[i]
<1>1. PICK f \in Places(plan[s].create) : row' = Written(plan[s], f)
  BY DEF Commit
<1>2. plan[s] # NoPlan /\ plan[s] \in Plan /\ plan'[s] = NoPlan
  BY DEF Commit, TypeOK
<1> QED BY <1>1, <1>2 DEF Written

\* The step that matters: a commit finds the types it creates unheard of, or
\* another session has created them since, and what it does to the plans of the
\* others is noted.
LEMMA CommitKeepsFresh ==
  ASSUME CooldownInv, NEW s \in Session, Commit(s)
  PROVE  PlansFresh'
<1>0. TypeOK
  BY DEF CooldownInv
<1> DEFINE p == plan[s]
<1>1. PICK f \in Places(p.create) : \A i \in Id :
        /\ i \in p.dismiss => row'[i] = "dismissed"
        /\ i \notin p.dismiss /\ i[1] \in p.create /\ f[i[1]] = i[2] => row'[i] # "absent"
        /\ i \notin p.dismiss /\ ~(i[1] \in p.create /\ f[i[1]] = i[2]) => row'[i] = row[i]
  BY <1>0, CommitRows
<1>2. \A i \in p.dismiss : row[i] # "absent"
  BY DEF Commit, CooldownInv, PlansFresh
<1>3. \A i \in Id : row[i] # "absent" => row'[i] # "absent"
  BY <1>1
<1>4. \A i \in Id : row[i] = "absent" /\ row'[i] # "absent" => i[1] \in p.create
  BY <1>1, <1>2
<1>5. ASSUME NEW r \in Session, plan'[r] # NoPlan
      PROVE  /\ \A t \in plan'[r].create : Unheard(t)' \/ t \in meanwhile'[r]
             /\ \A i \in plan'[r].dismiss : row'[i] # "absent"
  <2>1. r # s /\ plan'[r] = plan[r] /\ plan[r] \in Plan
    BY <1>0, <1>5 DEF Commit, TypeOK
  <2>2. plan[r].create \subseteq Type /\ plan[r].dismiss \subseteq Id
    BY <2>1 DEF Plan
  <2>3. meanwhile'[r] = meanwhile[r] \cup (p.create \cap plan[r].create)
    BY <1>5, <2>1 DEF Commit
  <2>4. /\ \A t \in plan[r].create : Unheard(t) \/ t \in meanwhile[r]
        /\ \A i \in plan[r].dismiss : row[i] # "absent"
    BY <1>5, <2>1 DEF CooldownInv, PlansFresh
  <2>5. ASSUME NEW t \in plan[r].create, t \notin meanwhile'[r] PROVE Unheard(t)'
    <3>1. Unheard(t) /\ t \notin p.create
      BY <2>3, <2>4, <2>5
    <3>2. ASSUME NEW n \in Slot PROVE row'[<<t, n>>] = "absent"
      <4>1. row[<<t, n>>] = "absent"
        BY <3>1 DEF Unheard
      <4>2. <<t, n>> \in Id /\ <<t, n>>[1] = t
        BY <2>2, IdIs
      <4> QED BY <1>4, <3>1, <4>1, <4>2
    <3> QED BY <3>2 DEF Unheard
  <2> QED BY <1>3, <2>1, <2>2, <2>4, <2>5
<1>6. \A o \in Operator : asked'[o] # Nothing => row'[asked'[o][1]] # "absent"
  <2> SUFFICES ASSUME NEW o \in Operator, asked'[o] # Nothing
               PROVE  row'[asked'[o][1]] # "absent"
    OBVIOUS
  <2>1. asked'[o] = asked[o] /\ asked[o] \in Id \X Resolved
    BY <1>0 DEF Commit, TypeOK
  <2>2. asked[o][1] \in Id /\ row[asked[o][1]] # "absent"
    BY <2>1 DEF CooldownInv, PlansFresh
  <2> QED BY <1>3, <2>1, <2>2
<1> QED BY <1>5, <1>6 DEF PlansFresh

\* An operator's answer leaves the same rows there.
LEMMA AnswerRows ==
  ASSUME CooldownInv, NEW o \in Operator, Answer(o)
  PROVE  \A i \in Id : (row'[i] = "absent") <=> (row[i] = "absent")
<1>1. asked[o] \in Id \X Resolved
  BY DEF Answer, CooldownInv, TypeOK
<1> DEFINE a == asked[o][1]
<1>2. a \in Id /\ row[a] # "absent" /\ asked[o][2] # "absent"
  BY <1>1 DEF Answer, CooldownInv, PlansFresh, Resolved
<1> QED BY <1>2 DEF Answer, CooldownInv, TypeOK

\* Rows that go, and a plan that nobody touches, keep the plans fresh.
LEMMA KeptFresh ==
  ASSUME CooldownInv, UNCHANGED <<plan, meanwhile>>,
         \A i \in Id : row[i] = "absent" => row'[i] = "absent",
         \A s \in Session : plan[s] # NoPlan =>
           \A i \in plan[s].dismiss : row[i] # "absent" => row'[i] # "absent",
         \A o \in Operator : asked'[o] # Nothing => row'[asked'[o][1]] # "absent"
  PROVE  PlansFresh'
<1> SUFFICES ASSUME NEW s \in Session, plan[s] # NoPlan
             PROVE  /\ \A t \in plan[s].create : Unheard(t)' \/ t \in meanwhile[s]
                    /\ \A i \in plan[s].dismiss : row'[i] # "absent"
  BY DEF PlansFresh
<1>1. plan[s].create \subseteq Type /\ plan[s].dismiss \subseteq Id
  BY DEF CooldownInv, TypeOK, Plan
<1>2. /\ \A t \in plan[s].create : Unheard(t) \/ t \in meanwhile[s]
      /\ \A i \in plan[s].dismiss : row[i] # "absent"
  BY DEF CooldownInv, PlansFresh
<1>3. ASSUME NEW t \in plan[s].create, Unheard(t) PROVE Unheard(t)'
  BY <1>1, <1>3, IdIs DEF Unheard
<1> QED BY <1>1, <1>2, <1>3

LEMMA FreshStep ==
  ASSUME CooldownInv, [Next]_vars
  PROVE  PlansFresh'
<1>0. TypeOK /\ PlansFresh
  BY DEF CooldownInv
<1>1. ASSUME NEW s \in Session, Skip(s) PROVE PlansFresh'
  BY <1>0, <1>1 DEF Skip, vars, PlansFresh, Unheard
<1>2. ASSUME NEW s \in Session, Evaluate(s) PROVE PlansFresh'
  <2>1. row' = row /\ asked' = asked
    BY <1>2 DEF Evaluate
  <2>2. \A t \in Create : Unheard(t)
    BY DEF Create, CreateCost
  <2>3. \A i \in Dismiss : row[i] # "absent"
    BY DEF Dismiss, Pending
  <2>4. NewPlan.create = Create /\ NewPlan.dismiss = Dismiss
    BY DEF NewPlan
  <2> DEFINE np == NewPlan
  <2>5. plan' = [plan EXCEPT ![s] = np] /\ meanwhile' = [meanwhile EXCEPT ![s] = {}]
    BY <1>2 DEF Evaluate
  <2>6. /\ \A t \in np.create : Unheard(t)
        /\ \A i \in np.dismiss : row[i] # "absent"
    BY <2>2, <2>3, <2>4
  <2> HIDE DEF np
  <2>7. /\ \A r \in Session : plan'[r] = IF r = s THEN np ELSE plan[r]
        /\ \A r \in Session : r # s => meanwhile'[r] = meanwhile[r]
    BY <1>0, <2>5 DEF TypeOK
  <2> QED BY <1>0, <2>1, <2>6, <2>7 DEF PlansFresh, Unheard
<1>3. ASSUME NEW s \in Session, Commit(s) PROVE PlansFresh'
  BY <1>3, CommitKeepsFresh
<1>4. ASSUME NEW s \in Session, Fail(s) PROVE PlansFresh'
  <2>1. /\ \A r \in Session : plan'[r] = IF r = s THEN NoPlan ELSE plan[r]
        /\ \A r \in Session : r # s => meanwhile'[r] = meanwhile[r]
    BY <1>0, <1>4 DEF Fail, TypeOK
  <2> QED BY <1>0, <1>4, <2>1 DEF Fail, PlansFresh, Unheard
<1>5. ASSUME NEW o \in Operator, NEW i \in Id, NEW status \in Resolved,
             Ask(o, i, status)
      PROVE  PlansFresh'
  <2>1. \A q \in Operator : asked'[q] = IF q = o THEN <<i, status>> ELSE asked[q]
    BY <1>0, <1>5 DEF Ask, TypeOK
  <2> QED BY <1>0, <1>5, <2>1 DEF Ask, PlansFresh, Unheard
<1>6. ASSUME NEW o \in Operator, Answer(o) PROVE PlansFresh'
  <2>1. \A i \in Id : (row'[i] = "absent") <=> (row[i] = "absent")
    BY <1>6, AnswerRows
  <2>2. \A q \in Operator : asked'[q] # Nothing => asked'[q] = asked[q]
    BY <1>0, <1>6 DEF Answer, TypeOK
  <2>3. \A q \in Operator : asked'[q] # Nothing => row'[asked'[q][1]] # "absent"
    BY <1>0, <2>1, <2>2 DEF PlansFresh, TypeOK
  <2>4. \A s \in Session : plan[s] # NoPlan => plan[s].dismiss \subseteq Id
    BY <1>0 DEF TypeOK, Plan
  <2> QED BY <1>6, <2>1, <2>3, <2>4, KeptFresh DEF Answer
<1>7. ASSUME NEW i \in Id, CoolDown(i) PROVE PlansFresh'
  <2>1. \A j \in Id : row'[j] = IF j = i THEN "absent" ELSE row[j]
    BY <1>0, <1>7 DEF CoolDown, TypeOK
  <2>2. \A s \in Session : plan[s] # NoPlan =>
          plan[s].dismiss \subseteq Id /\ i \notin plan[s].dismiss
    BY <1>0, <1>7 DEF CoolDown, TypeOK, Plan
  <2>3. \A o \in Operator : asked'[o] # Nothing => row'[asked'[o][1]] # "absent"
    BY <1>0, <1>7, <2>1 DEF CoolDown, PlansFresh, TypeOK
  <2>4. \A s \in Session : plan[s] # NoPlan =>
          \A j \in plan[s].dismiss : row[j] # "absent" => row'[j] # "absent"
    BY <2>1, <2>2
  <2>5. \A j \in Id : row[j] = "absent" => row'[j] = "absent"
    BY <2>1
  <2> QED BY <1>7, <2>3, <2>4, <2>5, KeptFresh DEF CoolDown
<1>8. ASSUME NEW n \in OwnerReplicas, Resize(n) PROVE PlansFresh'
  BY <1>0, <1>8 DEF Resize, PlansFresh, Unheard
<1>9. ASSUME NEW l \in Load, Measure(l) PROVE PlansFresh'
  BY <1>0, <1>9 DEF Measure, PlansFresh, Unheard
<1>10. CASE UNCHANGED vars
  BY <1>0, <1>10 DEF vars, PlansFresh, Unheard
<1> QED
  BY <1>1, <1>2, <1>3, <1>4, <1>5, <1>6, <1>7, <1>8, <1>9, <1>10 DEF Next

\* However many runs overlap, and whatever operators, owner and load do: a type
\* is recommended a second time while it is pending or cooling down only by a
\* run that another run overtook with the same type.
THEOREM NoNagging == Spec => CooldownRespected
<1> DEFINE Step ==
      \A i, j \in Id :
        /\ i[1] = j[1] /\ i # j
        /\ row[i] = "absent" /\ row'[i] # "absent" /\ row'[j] # "absent"
        => \E s \in Session : plan[s] # plan'[s] /\ i[1] \in meanwhile[s]
<1>1. Init => PlansFresh
  BY DEF Init, PlansFresh
<1>2. TypeOK /\ PlansFresh /\ [Next]_vars => PlansFresh'
  BY FreshStep DEF CooldownInv
<1>3. TypeOK /\ PlansFresh /\ [Next]_vars => Step
  <2> SUFFICES ASSUME CooldownInv, [Next]_vars, NEW i \in Id, NEW j \in Id,
                      i[1] = j[1], i # j,
                      row[i] = "absent", row'[i] # "absent", row'[j] # "absent"
               PROVE  \E s \in Session : plan[s] # plan'[s] /\ i[1] \in meanwhile[s]
    BY DEF CooldownInv
  <2>1. ASSUME NEW s \in Session, Commit(s)
        PROVE  plan[s] # plan'[s] /\ i[1] \in meanwhile[s]
    <3> DEFINE p == plan[s]
    <3>1. /\ p # NoPlan /\ plan'[s] = NoPlan /\ p \in Plan
          /\ \E f \in Places(p.create) : \A k \in Id :
               /\ k \in p.dismiss => row'[k] = "dismissed"
               /\ k \notin p.dismiss /\ k[1] \in p.create /\ f[k[1]] = k[2]
                    => row'[k] # "absent"
               /\ k \notin p.dismiss /\ ~(k[1] \in p.create /\ f[k[1]] = k[2])
                    => row'[k] = row[k]
      BY <2>1, CommitRows DEF CooldownInv
    <3>2. PICK f \in Places(p.create) : \A k \in Id :
               /\ k \in p.dismiss => row'[k] = "dismissed"
               /\ k \notin p.dismiss /\ k[1] \in p.create /\ f[k[1]] = k[2]
                    => row'[k] # "absent"
               /\ k \notin p.dismiss /\ ~(k[1] \in p.create /\ f[k[1]] = k[2])
                    => row'[k] = row[k]
      BY <3>1
    <3>3. /\ \A t \in p.create : Unheard(t) \/ t \in meanwhile[s]
          /\ \A k \in p.dismiss : row[k] # "absent"
      BY <3>1 DEF CooldownInv, PlansFresh
    <3>4. i[1] \in p.create /\ f[i[1]] = i[2]
      BY <3>2, <3>3
    <3>5. ~ Unheard(i[1])
      <4> SUFFICES ASSUME Unheard(i[1]) PROVE FALSE
        OBVIOUS
      <4>1. row[j] = "absent"
        BY IdIs DEF Unheard
      <4>2. f[j[1]] = j[2]
        BY <3>2, <3>3, <4>1
      <4> QED BY <3>4, <4>2, IdIs
    <3> QED BY <3>1, <3>3, <3>4, <3>5
  <2>2. ASSUME NEW o \in Operator, Answer(o) PROVE FALSE
    BY <2>2, AnswerRows
  <2>3. ASSUME NEW k \in Id, CoolDown(k) PROVE FALSE
    BY <2>3 DEF CoolDown, CooldownInv, TypeOK
  <2>4. CASE row' = row
    BY <2>4
  <2> QED
    BY <2>1, <2>2, <2>3, <2>4
       DEF Next, Skip, Evaluate, Fail, Ask, Resize, Measure, vars
<1> QED
  BY <1>1, <1>2, <1>3, TypeCorrect, PTL DEF Spec, CooldownRespected

-----------------------------------------------------------------------------
\* Whatever is measured and whatever the owner had set, a run leaves the
\* replicas alone or sets them to 1..10.
THEOREM RunsStayInBounds == Spec => AppliedInBounds
<1>1. TypeOK /\ [Next]_vars =>
        [replicas' # replicas /\ events' = events => replicas' \in 1..MaxReplicas]_vars
  <2> SUFFICES ASSUME TypeOK, [Next]_vars, replicas' # replicas, events' = events
               PROVE  replicas' \in 1..MaxReplicas
    OBVIOUS
  <2>1. ASSUME NEW s \in Session, Commit(s) PROVE replicas' \in 1..MaxReplicas
    BY <2>1 DEF Commit, TypeOK
  <2>2. ASSUME NEW n \in OwnerReplicas, Resize(n) PROVE FALSE
    BY <2>2 DEF Resize, TypeOK
  <2> QED BY <2>1, <2>2 DEF Next, Skip, Evaluate, Fail, Ask, Answer, CoolDown, Measure, vars
<1> QED BY <1>1, TypeCorrect, PTL DEF Spec, AppliedInBounds
=============================================================================
