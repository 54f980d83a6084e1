--------------------- MODULE OptimizationRecommendations ---------------------
(***************************************************************************)
(* The recommendations of one deployment: the sessions that evaluate its   *)
(* usage into OptimizationRecommendation rows and may apply them           *)
(* (OptimizationService.evaluate_all, run by the hourly job and by POST    *)
(* /optimization/evaluate), the operators who apply or dismiss them        *)
(* (update_status) and the owner who edits the deployment.                 *)
(*                                                                         *)
(* A session reads everything it decides on in one REPEATABLE READ         *)
(* snapshot and writes everything at its commit (autoflush is off), so a   *)
(* run has two steps: Evaluate fixes what it will write, Commit writes it. *)
(***************************************************************************)
EXTENDS Integers, FiniteSets

CONSTANTS
  Session,        \* sessions that run evaluate_all
  Job,            \* of these, the scheduler's; the others are requests
  Operator,       \* sessions of users who PATCH a recommendation
  Load,           \* what the window of usage rows and the forecasts may say
  AutoApply,      \* types in OPTIMIZATION_AUTO_APPLY_TYPES; {} when it is off
  OwnerReplicas,  \* replica counts the owner sets
  InitReplicas, InitLimit,
  Slot,           \* bound: live or cooling rows of one type
  MaxEvents       \* bound: changes of load, owner updates and failed runs

Type ==
  {"increase_pods", "increase_cpu", "reduce_pods", "reduce_cpu",
   "increase_memory", "reduce_memory", "scale_deployment", "optimize_cost"}

\* The types whose condition carries a target to write.
Targeted == {"scale_deployment", "increase_memory", "reduce_memory"}

ASSUME JobAssumption == Job \subseteq Session
ASSUME AutoApplyAssumption == AutoApply \subseteq Type
ASSUME NatAssumption ==
  /\ InitReplicas \in Nat /\ InitLimit \in Nat /\ MaxEvents \in Nat
  /\ Slot \subseteq Nat
  /\ OwnerReplicas \subseteq Nat  \* schemas/deployment.py: replicas >= 0
ASSUME LoadAssumption ==
  Load \subseteq [cpu : Nat, memory : Nat,
                  cpuForecast : Nat, memoryForecast : Nat, confident : BOOLEAN]

-----------------------------------------------------------------------------
(* recommendation_engine.evaluate with the thresholds of settings.py.      *)

MaxReplicas == 10

Larger(m, n) == IF m > n THEN m ELSE n
Smaller(m, n) == IF m < n THEN m ELSE n

\* The higher of the average and a forecast that is confident enough.
Blend(actual, forecast, confident) ==
  IF confident THEN Larger(actual, forecast) ELSE actual

\* ceil(replicas * cpu / 60), between one replica and the ceiling.
DesiredReplicas(cpu, n) ==
  Larger(1, Smaller(MaxReplicas, (n * cpu + 59) \div 60))

\* The limit that puts the usage at 70 %, to one decimal.  Limits are in tenths
\* of a megabyte, usage in megabytes.
TargetLimit(memory) == (200 * memory + 7) \div 14

\* The condition of type t for a deployment with these figures.
Applies(t, cpu, memory, lim, n) ==
  CASE t = "increase_pods"   -> cpu >= 85 /\ n < MaxReplicas
    [] t = "increase_cpu"    -> cpu >= 85 /\ n >= MaxReplicas
    [] t = "reduce_pods"     -> cpu <= 15 /\ n > 1
    [] t = "reduce_cpu"      -> cpu <= 15 /\ n <= 1
    [] t = "increase_memory" -> lim > 0 /\ 1000 * memory >= 85 * lim
    [] t = "reduce_memory"   -> lim > 0 /\ 1000 * memory <= 15 * lim
    [] t = "scale_deployment" ->
         /\ cpu > 75 \/ cpu < 45
         /\ DesiredReplicas(cpu, n) # n
    [] OTHER -> FALSE

\* Conditions whose direction is "decrease".
Shrinks(t, cpu, n) ==
  \/ t \in {"reduce_pods", "reduce_cpu", "reduce_memory"}
  \/ t = "scale_deployment" /\ DesiredReplicas(cpu, n) < n

-----------------------------------------------------------------------------
VARIABLES
  load,      \* the recent usage and forecasts, or NoWindow
  replicas, limit,  \* of the deployments row; limit 0 is "not configured"
  row,       \* row[<<t, n>>]: status of a recommendation of type t.  A row is
             \* "absent" when none exists and also once its cooldown is over:
             \* no query of the engine tells the two apart
  plan,      \* plan[s]: what session s will write, or NoPlan
  meanwhile, \* history: meanwhile[s]: of the types s is to recommend, the ones
             \* other sessions have since s read what its plan is made from
  asked,     \* asked[o]: the decision operator o has been allowed to make
  events     \* events so far, bounded by MaxEvents

vars == <<load, replicas, limit, row, plan, meanwhile, asked, events>>

Id == Type \X Slot
NoWindow == [cpu |-> -1]
NoPlan == [idle |-> TRUE]
Nothing == <<>>
Resolved == {"dismissed", "applied"}
Status == {"absent", "pending"} \cup Resolved
Plan == [dismiss : SUBSET Id, create : SUBSET Type, apply : SUBSET Type,
         replicas : Nat, scales : BOOLEAN, limit : Nat, limits : BOOLEAN]

\* One type invariant: the columns of the two tables, and what a session may
\* be about to write: of a type that is applied, only what carries a target.
TypeOK ==
  /\ load \in Load \cup {NoWindow}
  /\ replicas \in Nat /\ limit \in Nat
  /\ row \in [Id -> Status]
  /\ plan \in [Session -> Plan \cup {NoPlan}]
  /\ \A s \in Session : plan[s] # NoPlan =>
       /\ plan[s].apply \subseteq plan[s].create \cap AutoApply \cap Targeted
       /\ plan[s].scales => plan[s].replicas \in 1..MaxReplicas
  /\ meanwhile \in [Session -> SUBSET Type]
  /\ asked \in [Operator -> (Id \X Resolved) \cup {Nothing}]
  /\ events \in 0..MaxEvents

Init ==
  /\ load \in Load \cup {NoWindow}
  /\ replicas = InitReplicas /\ limit = InitLimit
  /\ row = [i \in Id |-> "absent"]
  /\ plan = [s \in Session |-> NoPlan]
  /\ meanwhile = [s \in Session |-> {}]
  /\ asked = [o \in Operator |-> Nothing]
  /\ events = 0

-----------------------------------------------------------------------------
(* What a run reads.                                                       *)

Cpu == Blend(load.cpu, load.cpuForecast, load.confident)
Memory == Blend(load.memory, load.memoryForecast, load.confident)

Wanted == {t \in Type : Applies(t, Cpu, Memory, limit, replicas)}
Saves == \E t \in Wanted : Shrinks(t, Cpu, replicas)

Pending == {i \in Id : row[i] = "pending"}

\* Mutant of Unheard: the cooldown is not looked at.
UnheardPending(t) == \A n \in Slot : row[<<t, n>>] # "pending"

\* get_pending and get_recently_resolved find nothing of the type.
Unheard(t) == \A n \in Slot : row[<<t, n>>] = "absent"

\* _create_cost_recommendation: beside any that saves something, unless it is
\* pending or was decided within the cooldown.
CreateCost == {t \in {"optimize_cost"} : Saves /\ Unheard(t)}

Create == {t \in Wanted : Unheard(t)} \cup CreateCost

\* Mutant of Apply: every enabled type, with or without a target.
ApplyAny == Create \cap AutoApply

Apply == Create \cap AutoApply \cap Targeted

\* Mutant of Dismiss: nothing is dismissed.
DismissNothing == {}

\* The pending rows whose type is not in desired_types.
Dismiss == {i \in Pending : i[1] \notin Wanted}

\* Mutant of Scales: what is recorded as applied is not written.
ScalesNever == FALSE

\* An applied condition with target_replicas.
Scales == "scale_deployment" \in Apply

\* An applied condition with target_memory_limit_mb.
Limits == Apply \cap {"increase_memory", "reduce_memory"} # {}

NewPlan ==
  [dismiss  |-> Dismiss,
   create   |-> Create,
   apply    |-> Apply,
   scales   |-> Scales,
   replicas |-> IF Scales THEN DesiredReplicas(Cpu, replicas) ELSE 0,
   limits   |-> Limits,
   limit    |-> IF Limits THEN TargetLimit(Memory) ELSE 0]

-----------------------------------------------------------------------------
(* A run.                                                                  *)

\* _evaluate_deployment returns at once: there are no usage rows.
Skip(s) == plan[s] = NoPlan /\ load = NoWindow /\ UNCHANGED vars

\* _evaluate_deployment up to the commit.
Evaluate(s) ==
  /\ plan[s] = NoPlan
  /\ load # NoWindow
  /\ plan' = [plan EXCEPT ![s] = NewPlan]
  /\ meanwhile' = [meanwhile EXCEPT ![s] = {}]
  /\ UNCHANGED <<load, replicas, limit, row, asked, events>>

\* The slots the new rows take: the first free one of each type.
Places(types) ==
  {f \in [types -> Slot] : \A t \in types :
     /\ row[<<t, f[t]>>] = "absent"
     /\ \A n \in Slot : row[<<t, n>>] = "absent" => f[t] <= n}

\* Each row after the commit of p: an UPDATE by primary key for what is
\* dismissed, whatever its status has become; an INSERT for what is new.
Written(p, f) ==
  [i \in Id |->
     IF i \in p.dismiss THEN "dismissed"
     ELSE IF i[1] \in p.create /\ f[i[1]] = i[2]
          THEN IF i[1] \in p.apply THEN "applied" ELSE "pending"
     ELSE row[i]]

Commit(s) ==
  /\ plan[s] # NoPlan
  /\ \E f \in Places(plan[s].create) : row' = Written(plan[s], f)
  /\ replicas' = IF plan[s].scales THEN plan[s].replicas ELSE replicas
  /\ limit' = IF plan[s].limits THEN plan[s].limit ELSE limit
  /\ plan' = [plan EXCEPT ![s] = NoPlan]
  /\ meanwhile' = [r \in Session |->
                     IF r = s \/ plan[r] = NoPlan THEN {}
                     ELSE meanwhile[r] \cup (plan[s].create \cap plan[r].create)]
  /\ UNCHANGED <<load, asked, events>>

\* The session ends without its commit: an exception the job logs, a crash.
Fail(s) ==
  /\ plan[s] # NoPlan
  /\ events < MaxEvents
  /\ plan' = [plan EXCEPT ![s] = NoPlan]
  /\ meanwhile' = [meanwhile EXCEPT ![s] = {}]
  /\ events' = events + 1
  /\ UNCHANGED <<load, replicas, limit, row, asked>>

-----------------------------------------------------------------------------
(* The users and the clock.                                                *)

\* update_status finds the recommendation pending.  (A request may also carry
\* "pending" itself, which writes nothing.)
Ask(o, i, status) ==
  /\ asked[o] = Nothing
  /\ row[i] = "pending"
  /\ asked' = [asked EXCEPT ![o] = <<i, status>>]
  /\ UNCHANGED <<load, replicas, limit, row, plan, meanwhile, events>>

\* ... and commits, whatever the row has become.
Answer(o) ==
  /\ asked[o] # Nothing
  /\ row' = [row EXCEPT ![asked[o][1]] = asked[o][2]]
  /\ asked' = [asked EXCEPT ![o] = Nothing]
  /\ UNCHANGED <<load, replicas, limit, plan, meanwhile, events>>

\* The cooldown of a decided row ends.  It is longer than any transaction
\* that still holds the row as pending.
CoolDown(i) ==
  /\ row[i] \in Resolved
  /\ \A s \in Session : plan[s] # NoPlan => i \notin plan[s].dismiss
  /\ \A o \in Operator : asked[o] # Nothing => asked[o][1] # i
  /\ row' = [row EXCEPT ![i] = "absent"]
  /\ UNCHANGED <<load, replicas, limit, plan, meanwhile, asked, events>>

\* DeploymentService.update, by the owner.
Resize(n) ==
  /\ events < MaxEvents
  /\ n # replicas
  /\ replicas' = n
  /\ events' = events + 1
  /\ UNCHANGED <<load, limit, row, plan, meanwhile, asked>>

\* New usage rows and forecasts.
Measure(l) ==
  /\ events < MaxEvents
  /\ l # load
  /\ load' = l
  /\ events' = events + 1
  /\ UNCHANGED <<replicas, limit, row, plan, meanwhile, asked>>

Next ==
  \/ \E s \in Session : Skip(s) \/ Evaluate(s) \/ Commit(s) \/ Fail(s)
  \/ \E o \in Operator, i \in Id, status \in Resolved :
       Ask(o, i, status)
  \/ \E o \in Operator : Answer(o)
  \/ \E i \in Id : CoolDown(i)
  \/ \E n \in OwnerReplicas : Resize(n)
  \/ \E l \in Load : Measure(l)

Spec == Init /\ [][Next]_vars

\* The job runs again and again and all runs end; time passes.
FairSpec ==
  /\ Spec
  /\ \A s \in Job : WF_vars(Evaluate(s))
  /\ \A s \in Session : WF_vars(Commit(s))
  /\ \A i \in Id : WF_vars(CoolDown(i))
  /\ \A o \in Operator : WF_vars(Answer(o))

-----------------------------------------------------------------------------
(* Properties.                                                             *)

\* A run neither repeats what is pending nor nags about what an operator or the
\* auto-apply has just decided (get_pending, get_recently_resolved and the
\* comment on OPTIMIZATION_RECOMMENDATION_COOLDOWN_MINUTES), whatever the
\* operators, the owner and the load do between its reads and its commit.  A
\* second recommendation of a type comes only from a run that another one
\* overtook: the other recommended the type after this one's reads.
CooldownRespected ==
  [][\A i, j \in Id :
       /\ i[1] = j[1] /\ i # j
       /\ row[i] = "absent" /\ row'[i] # "absent" /\ row'[j] # "absent"
       => \E s \in Session : plan[s] # plan'[s] /\ i[1] \in meanwhile[s]]_vars

\* Only the owner takes the replicas out of 1..10: what a run applies is
\* bounded, whatever was measured and whatever the owner had set.
AppliedInBounds ==
  [][replicas' # replicas /\ events' = events => replicas' \in 1..MaxReplicas]_vars

\* A recommendation whose condition has cleared does not stay pending: some
\* run dismisses it, whatever failed before (the loop over
\* list_pending_for_deployment).
StaleDismissed ==
  <>[](\A i \in Pending : i[1] \in Wanted \/ (i[1] = "optimize_cost" /\ Saves))

\* Applying is self-correcting (_auto_apply): once load and owner leave the
\* deployment alone, the runs bring it to figures they would not change.
Settles == <>[](load = NoWindow \/ Wanted \cap AutoApply \cap Targeted = {})
=============================================================================
