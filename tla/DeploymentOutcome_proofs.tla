----------------------- MODULE DeploymentOutcome_proofs -----------------------
(***************************************************************************)
(* What the Deployment controller reports, for any number of Deployments,  *)
(* workers, faults, restarts and incarnations: a failure category only     *)
(* accompanies phase Failed, and a post-deployment CR only exists for a    *)
(* parent that has succeeded.                                              *)
(*                                                                         *)
(* Neither is inductive.  The first holds of every version someone can     *)
(* still act on; the second needs that an outcome, seen in a version       *)
(* however old, is still the outcome of the incarnation stored now.        *)
(***************************************************************************)
EXTENDS DeploymentController_proofs

-----------------------------------------------------------------------------
(* What a step does to the stored objects *)

\* An object is created, rewritten or removed; an outcome is not rewritten.
Born(e) ==
    /\ ~server[e].live /\ server'[e].live
    /\ server'[e].uid = server[e].uid + 1

Rewritten(e) ==
    /\ server[e].live /\ server'[e].live
    /\ server'[e].uid = server[e].uid /\ server'[e].owner = server[e].owner
    /\ server[e].status.phase \in TerminalPhases
          => server'[e].status.phase = server[e].status.phase

Gone(e) == ~server'[e].live /\ server'[e].uid = server[e].uid

Write(e) ==
    /\ \A x \in Deployments \ {e} : server'[x] = server[x]
    /\ cache' = cache
    /\ \A x \in Deployments : watch'[x] \subseteq watch[x] \cup {server'[x]}
    /\ Born(e) \/ Rewritten(e) \/ Gone(e)

\* A store, field by field.
LEMMA StoreFields ==
    ASSUME TypeOK, NEW e \in Deployments, NEW o \in Objects, Store(e, o)
    PROVE  /\ server'[e].live = o.live /\ server'[e].uid = o.uid
           /\ server'[e].owner = o.owner /\ server'[e].status = o.status
           /\ \A x \in Deployments \ {e} : server'[x] = server[x]
           /\ cache' = cache
           /\ \A x \in Deployments : watch'[x] \subseteq watch[x] \cup {server'[x]}
  <1> DEFINE stored == [o EXCEPT !.rv = server[e].rv + 1]
  <1>1. /\ stored.live = o.live /\ stored.uid = o.uid
        /\ stored.owner = o.owner /\ stored.status = o.status
    BY DEF Objects
  <1>2. /\ server' = [server EXCEPT ![e] = stored]
        /\ watch' = [watch EXCEPT ![e] = @ \cup {stored}]
        /\ cache' = cache
    BY DEF Store
  <1> HIDE DEF stored
  <1> QED BY <1>1, <1>2 DEF TypeOK

\* Each of the six things that happen to an object is such a write.
LEMMA ObjectStepIsWrite ==
    ASSUME TypeOK, NEW e \in Deployments, ObjectStep(e)
    PROVE  Write(e)
  <1>0. server[e] \in Objects
    BY DEF TypeOK
  <1>1. CASE Creation(e)
    <2>1. PICK own \in Owners : ~server[e].live /\ Store(e, NewObject(e, own))
      BY <1>1 DEF Creation
    <2>2. NewObject(e, own) \in Objects
      BY NewObjectTypes
    <2>3. NewObject(e, own).live /\ NewObject(e, own).uid = server[e].uid + 1
      BY DEF NewObject
    <2> QED BY <2>1, <2>2, <2>3, StoreFields DEF Write, Born
  <1>2. CASE Registration(e)
    <2> DEFINE o == [server[e] EXCEPT !.finalizer = TRUE]
    <2>1. /\ o \in Objects /\ o.live = server[e].live /\ o.uid = server[e].uid
          /\ o.owner = server[e].owner /\ o.status = server[e].status
      BY <1>0 DEF Objects
    <2>2. Store(e, o) /\ server[e].live
      BY <1>2 DEF Registration
    <2> HIDE DEF o
    <2> QED BY <2>1, <2>2, StoreFields DEF Write, Rewritten
  <1>3. CASE Edit(e)
    <2> DEFINE o == [server[e] EXCEPT !.ansible = ~@]
    <2>1. /\ o \in Objects /\ o.live = server[e].live /\ o.uid = server[e].uid
          /\ o.owner = server[e].owner /\ o.status = server[e].status
      BY <1>0 DEF Objects
    <2>2. Store(e, o) /\ server[e].live
      BY <1>3 DEF Edit
    <2> HIDE DEF o
    <2> QED BY <2>1, <2>2, StoreFields DEF Write, Rewritten
  <1>4. CASE Report(e)
    <2>1. PICK st \in Statuses :
            /\ Store(e, [server[e] EXCEPT !.status = st])
            /\ \/ st.phase = server[e].status.phase
               \/ server[e].status.phase \notin TerminalPhases
      BY <1>4 DEF Report
    <2> DEFINE o == [server[e] EXCEPT !.status = st]
    <2>2. /\ o \in Objects /\ o.live = server[e].live /\ o.uid = server[e].uid
          /\ o.owner = server[e].owner /\ o.status = st
      BY <1>0 DEF Objects
    <2>3. Store(e, o) /\ server[e].live
      BY <1>4, <2>1 DEF Report
    <2> HIDE DEF o
    <2> QED BY <2>1, <2>2, <2>3, StoreFields DEF Write, Rewritten
  <1>5. CASE Mark(e)
    <2> DEFINE o == [server[e] EXCEPT !.deleting = TRUE]
    <2>1. /\ o \in Objects /\ o.live = server[e].live /\ o.uid = server[e].uid
          /\ o.owner = server[e].owner /\ o.status = server[e].status
      BY <1>0 DEF Objects
    <2>2. Store(e, o) /\ server[e].live
      BY <1>5 DEF Mark
    <2> HIDE DEF o
    <2> QED BY <2>1, <2>2, StoreFields DEF Write, Rewritten
  <1>6. CASE Removal(e)
    <2>1. Removed(e) \in Objects
      BY ObjectTypes, NewObjectTypes
    <2>2. ~Removed(e).live /\ Removed(e).uid = server[e].uid
      BY DEF Removed, NoObject
    <2> QED BY <1>6, <2>1, <2>2, StoreFields DEF Removal, Write, Gone
  <1> QED BY <1>1, <1>2, <1>3, <1>4, <1>5, <1>6 DEF ObjectStep

\* Every step writes one object at most.
LEMMA NextWrites ==
    ASSUME IInv, [Next]_vars
    PROVE  server' = server \/ \E e \in Deployments : Write(e)
  <1>t. TypeOK /\ FinalizerHolds
    BY DEF IInv
  <1>1. ASSUME NEW d \in Deployments, ReconcileStep(d)
        PROVE  server' = server \/ \E e \in Deployments : Write(e)
    BY <1>t, <1>1, ReconcileObjects, ObjectStepIsWrite DEF objectVars
  <1>2. CASE ClusterStep
    BY <1>t, <1>2, ClusterObjects, ObjectStepIsWrite
       DEF objectVars, DeliverEvent, Restart
  <1>3. CASE UNCHANGED vars
    BY <1>3 DEF vars
  <1> QED BY <1>1, <1>2, <1>3 DEF Next

\* Nobody gets to see anything but what was seen before, or stored.
LEMMA NextSeen ==
    ASSUME IInv, [Next]_vars, NEW x \in Deployments
    PROVE  Seen(x)' \subseteq Seen(x) \cup {server[x], server'[x]}
  <1>t. TypeOK /\ FinalizerHolds
    BY DEF IInv
  <1>1. ASSUME NEW d \in Deployments, ReconcileStep(d)
        PROVE  Seen(x)' \subseteq Seen(x) \cup {server[x], server'[x]}
    <2>1. CASE Reconcile(d)
      BY <1>t, <2>1 DEF Reconcile, Seen, TypeOK, objectVars
    <2>2. CASE ~Reconcile(d)
      <3>1. Moves(d)
        BY <1>t, <1>1, <2>2, StepMoves
      <3>2. pc'[x] = "idle" \/ (pc[x] # "idle" /\ local'[x] = local[x])
            \/ (pc'[x] = pc[x] /\ local'[x] = local[x])
        BY <3>1 DEF Moves
      <3>3. cache' = cache /\ watch'[x] \subseteq watch[x] \cup {server'[x]}
        BY <1>t, <1>1, ReconcileObjects, ObjectStepIsWrite DEF objectVars, Write
      <3> QED BY <3>2, <3>3 DEF Seen
    <2> QED BY <2>1, <2>2
  <1>2. CASE ClusterStep
    <2>1. CASE Restart
      BY <2>1 DEF Restart, Seen
    <2>2. ASSUME NEW d \in Deployments, DeliverEvent(d)
          PROVE  Seen(x)' \subseteq Seen(x) \cup {server[x], server'[x]}
      <3>1. PICK v \in watch[d] :
                /\ cache' = [cache EXCEPT ![d] = v]
                /\ watch' = [watch EXCEPT ![d] = @ \ {v}]
                /\ UNCHANGED <<server, pc, local>>
        BY <2>2 DEF DeliverEvent
      <3>2. CASE x = d
        BY <1>t, <3>1, <3>2 DEF Seen, TypeOK
      <3>3. CASE x # d
        BY <1>t, <3>1, <3>3 DEF Seen, TypeOK
      <3> QED BY <3>2, <3>3
    <2>3. CASE ~Restart /\ ~\E d \in Deployments : DeliverEvent(d)
      <3>1. UNCHANGED <<pc, local>>
        BY <1>2, <2>3 DEF ClusterStep, Resync, LoadFails, UserCreate, UserDelete,
                          UserEdit, CollectChild, SyncRun, RunProgress, CollectRun,
                          SyncBanner, workerVars
      <3>2. cache' = cache /\ watch'[x] \subseteq watch[x] \cup {server'[x]}
        BY <1>t, <1>2, <2>3, ClusterObjects, ObjectStepIsWrite DEF objectVars, Write
      <3> QED BY <3>1, <3>2 DEF Seen
    <2> QED BY <2>1, <2>2, <2>3
  <1>3. CASE UNCHANGED vars
    BY <1>3 DEF vars, Seen
  <1> QED BY <1>1, <1>2, <1>3 DEF Next

-----------------------------------------------------------------------------
(* Post-deployments *)

\* A version of the stored incarnation that shows an outcome shows the stored
\* one, and no version is of an incarnation to come.
OutcomeSticks ==
    \A d \in Deployments : \A v \in Seen(d) :
        /\ v.uid <= server[d].uid
        /\ /\ v.live /\ v.status.phase \in TerminalPhases
           /\ server[d].live /\ v.uid = server[d].uid
           => server[d].status.phase = v.status.phase

\* No owner is of an incarnation to come either.
OwnersArePast ==
    \A d \in Deployments :
        server[d].live => server[d].owner.uid <= server[server[d].owner.key].uid

ChainInv == OutcomeSticks /\ OwnersArePast /\ ChildOnlyAfterSuccess

\* A CR that comes to be is a user's, or the child of a reconciled parent that
\* has succeeded.
LEMMA BirthOwner ==
    ASSUME IInv, [Next]_vars, NEW e \in Deployments, ~server[e].live, server'[e].live
    PROVE  \/ server'[e].owner = Nobody(e)
           \/ \E d \in Deployments :
                 /\ pc[d] = "createChild" /\ d # e
                 /\ server'[e].owner = Self(d, local[d])
  <1>t. TypeOK /\ server[e] \in Objects
    BY DEF IInv, TypeOK
  <1>1. ASSUME NEW d \in Deployments, CreateChild(d)
        PROVE  /\ pc[d] = "createChild" /\ d # e
               /\ server'[e].owner = Self(d, local[d])
    <2> DEFINE child == PostDeployment[d]
               new == NewObject(child, Self(d, local[d]))
    <2>1. pc[d] = "createChild" /\ d \in DOMAIN PostDeployment
      BY <1>1 DEF CreateChild, IInv, StepKnows
    <2>2. child \in Deployments /\ child # d
      BY <2>1, ConstantsAssumption
    <2>3. server' = server \/ Store(child, new)
      BY <1>1 DEF CreateChild, objectVars
    <2>4. Store(child, new)
      BY <2>3
    <2>5. new \in Objects /\ new.owner = Self(d, local[d])
      <3>1. Self(d, local[d]) \in Owners
        BY <1>t, NewObjectTypes, ObjectTypes
      <3>2. new \in Objects
        BY <1>t, <2>2, <3>1, NewObjectTypes
      <3>3. new.owner = Self(d, local[d])
        BY DEF NewObject
      <3> QED BY <3>2, <3>3
    <2> HIDE DEF new, child
    <2>6. e = child
      BY <1>t, <2>2, <2>4, <2>5, StoreFields
    <2> QED BY <1>t, <2>1, <2>2, <2>4, <2>5, <2>6, StoreFields
  <1>2. ASSUME NEW d \in Deployments, ReconcileStep(d), ~CreateChild(d)
        PROVE  FALSE
    <2>1. CASE RemoveFinalizer(d)
      <3>1. server' = server \/ Store(d, Removed(d))
        BY <2>1 DEF RemoveFinalizer, objectVars
      <3>2. Removed(d) \in Objects /\ ~Removed(d).live
        BY <1>t, ObjectTypes, NewObjectTypes DEF Removed, NoObject
      <3> QED BY <1>t, <3>1, <3>2, StoreFields
    <2>2. CASE AddFinalizer(d) \/ WriteStatus(d) \/ SavePostMessage(d)
      <3>1. server' = server \/ (server[d].live /\ \E o : Store(d, o))
        BY <2>2 DEF AddFinalizer, WriteStatus, SavePostMessage, Update, CanUpdate,
                    objectVars
      <3> QED BY <1>t, <3>1 DEF Store, TypeOK
    <2>3. CASE \/ Reconcile(d) \/ DeleteConsoleNotification(d)
               \/ ReconcileConsoleNotification(d) \/ GetGitHubPAT(d) \/ Clone(d)
               \/ ReconcileJobResources(d) \/ TrackPipelineRun(d) \/ LaunchPipelineRun(d)
      BY <2>3 DEF Reconcile, DeleteConsoleNotification, ReconcileConsoleNotification,
                  GetGitHubPAT, Clone, ReconcileJobResources, TrackPipelineRun,
                  LaunchPipelineRun, objectVars
    <2> QED BY <1>2, <2>1, <2>2, <2>3 DEF ReconcileStep
  <1>3. ASSUME NEW d \in Deployments, UserCreate(d)
        PROVE  server'[e].owner = Nobody(e)
    <2>1. Store(d, NewObject(d, Nobody(d)))
      BY <1>3 DEF UserCreate
    <2>2. NewObject(d, Nobody(d)) \in Objects
      BY <1>t, ObjectTypes, NewObjectTypes
    <2>3. NewObject(d, Nobody(d)).owner = Nobody(d)
      BY DEF NewObject
    <2>4. d = e
      BY <1>t, <2>1, <2>2, StoreFields
    <2> QED BY <1>t, <2>1, <2>2, <2>3, <2>4, StoreFields
  <1>4. ASSUME NEW d \in Deployments, UserDelete(d) \/ UserEdit(d) \/ CollectChild(d)
        PROVE  FALSE
    <2>1. server[d].live /\ \E o : Store(d, o)
      BY <1>4 DEF UserDelete, UserEdit, CollectChild, RequestDelete
    <2> QED BY <1>t, <2>1 DEF Store, TypeOK
  <1>5. ASSUME server' = server PROVE FALSE
    BY <1>5
  <1>6. CASE ClusterStep
    BY <1>3, <1>4, <1>5, <1>6
       DEF ClusterStep, DeliverEvent, Resync, LoadFails, SyncRun, RunProgress,
           CollectRun, SyncBanner, Restart, objectVars
  <1> QED BY <1>1, <1>2, <1>5, <1>6 DEF Next, vars

\* OutcomeSticks is kept.
LEMMA SticksNext ==
    ASSUME IInv, IInv', OutcomeSticks, [Next]_vars
    PROVE  OutcomeSticks'
  <1> SUFFICES ASSUME NEW d \in Deployments, NEW v \in Seen(d)'
               PROVE  /\ v.uid <= server'[d].uid
                      /\ /\ v.live /\ v.status.phase \in TerminalPhases
                         /\ server'[d].live /\ v.uid = server'[d].uid
                         => server'[d].status.phase = v.status.phase
    BY DEF OutcomeSticks
  <1>1. /\ server[d].uid \in Nat /\ server'[d].uid \in Nat
        /\ \A w \in Seen(d) \cup Seen(d)' : w.uid \in Nat
    BY DEF IInv, TypeOK, Objects, Seen
  <1>2. v \in Seen(d) \cup {server[d], server'[d]}
    BY NextSeen
  <1>3. CASE server'[d] = server[d]
    BY <1>1, <1>2, <1>3 DEF OutcomeSticks
  <1>4. CASE Born(d) \/ Rewritten(d) \/ Gone(d)
    <2>1. CASE v = server'[d]
      BY <1>1, <2>1
    <2>2. CASE v = server[d]
      BY <1>1, <1>4, <2>2 DEF Born, Rewritten, Gone
    <2>3. CASE v \in Seen(d)
      BY <1>1, <1>4, <2>3 DEF Born, Rewritten, Gone, OutcomeSticks
    <2> QED BY <1>2, <2>1, <2>2, <2>3
  <1> QED BY <1>3, <1>4, NextWrites DEF Write

\* So are the other two.
LEMMA ChainNext ==
    ASSUME IInv, IInv', ChainInv, [Next]_vars
    PROVE  ChainInv'
  <1>s. OutcomeSticks'
    BY SticksNext DEF ChainInv
  <1>u. \A d \in Deployments :
            /\ server[d].uid \in Nat /\ server'[d].uid \in Nat /\ local[d].uid \in Nat
            /\ server[d].owner.uid \in Nat /\ server'[d].owner.uid \in Nat
            /\ server[d].owner.key \in Deployments /\ server'[d].owner.key \in Deployments
    BY DEF IInv, TypeOK, Objects, Owners
  <1>m. \A d \in Deployments :
            \/ server'[d] = server[d] \/ Born(d) \/ Rewritten(d) \/ Gone(d)
    BY NextWrites DEF Write
  \* No incarnation number falls, and a success stays.
  <1>n. \A d \in Deployments : server[d].uid <= server'[d].uid
    BY <1>u, <1>m DEF Born, Rewritten, Gone
  <1>p. \A d \in Deployments :
            /\ server[d].live /\ server[d].status.phase = "Succeeded"
            /\ server'[d].live /\ server'[d].uid = server[d].uid
            => server'[d].status.phase = "Succeeded"
    BY <1>u, <1>m DEF Born, Rewritten, Gone, TerminalPhases
  <1>1. ASSUME NEW e \in Deployments, server'[e].live
        PROVE  /\ server'[e].owner.uid <= server'[server'[e].owner.key].uid
               /\ LET own == server'[e].owner IN
                  /\ own.uid # 0
                  /\ server'[own.key].live /\ server'[own.key].uid = own.uid
                  => server'[own.key].status.phase = "Succeeded"
    <2>1. CASE server[e].live
      <3> DEFINE own == server[e].owner
      <3>1. server'[e].owner = own /\ own.key \in Deployments
        BY <1>u, <1>m, <1>1, <2>1 DEF Born, Rewritten, Gone
      <3>2. own.uid <= server[own.key].uid
        BY <2>1 DEF ChainInv, OwnersArePast
      <3>3. own.uid # 0 /\ server[own.key].live /\ server[own.key].uid = own.uid
                => server[own.key].status.phase = "Succeeded"
        BY <2>1 DEF ChainInv, ChildOnlyAfterSuccess, Exists
      <3>4. server'[own.key].uid = own.uid /\ server'[own.key].live
                => server[own.key].live /\ server[own.key].uid = own.uid
        BY <1>u, <1>m, <3>1, <3>2 DEF Born, Rewritten, Gone
      <3>5. own.uid <= server'[own.key].uid
        BY <1>u, <1>n, <3>1, <3>2
      <3> HIDE DEF own
      <3> QED BY <1>p, <3>1, <3>3, <3>4, <3>5
    <2>2. CASE ~server[e].live
      <3>1. CASE server'[e].owner = Nobody(e)
        BY <1>u, <3>1 DEF Nobody
      <3>2. ASSUME NEW d \in Deployments, pc[d] = "createChild", d # e,
                   server'[e].owner = Self(d, local[d])
            PROVE  /\ server'[e].owner.uid <= server'[server'[e].owner.key].uid
                   /\ LET own == server'[e].owner IN
                      /\ own.uid # 0
                      /\ server'[own.key].live /\ server'[own.key].uid = own.uid
                      => server'[own.key].status.phase = "Succeeded"
        <4>1. server'[e].owner.key = d /\ server'[e].owner.uid = local[d].uid
          BY <3>2 DEF Self
        <4>2. local[d] \in Seen(d) /\ local[d].live /\ local[d].status.phase = "Succeeded"
          BY <3>2 DEF Seen, IInv, StepKnows
        <4>3. /\ local[d].uid <= server[d].uid
              /\ server[d].live /\ local[d].uid = server[d].uid
                    => server[d].status.phase = "Succeeded"
          BY <4>2 DEF ChainInv, OutcomeSticks, TerminalPhases
        <4>4. server'[d] = server[d]
          BY <1>1, <2>2, <3>2, NextWrites DEF Write
        <4> QED BY <4>1, <4>3, <4>4
      <3> QED BY <1>1, <2>2, <3>1, <3>2, BirthOwner
    <2> QED BY <2>1, <2>2
  <1>2. OwnersArePast'
    BY <1>1 DEF OwnersArePast
  <1>3. ChildOnlyAfterSuccess'
    BY <1>1 DEF ChildOnlyAfterSuccess, Exists
  <1> QED BY <1>s, <1>2, <1>3 DEF ChainInv

\* reconcilePostDeployment never runs ahead: while the parent incarnation that
\* a child names is stored, it is stored with phase Succeeded.
THEOREM ChildrenFollowSuccess == Spec => []ChildOnlyAfterSuccess
  <1>1. Init => ChainInv
    <2> SUFFICES ASSUME Init PROVE ChainInv
      OBVIOUS
    <2>1. \A d \in Deployments :
            /\ server[d] = NoObject(d) /\ Seen(d) = {NoObject(d)}
            /\ ~NoObject(d).live /\ NoObject(d).uid = 0
      BY DEF Init, Seen, NoObject
    <2> QED BY <2>1 DEF ChainInv, OutcomeSticks, OwnersArePast, ChildOnlyAfterSuccess
  <1>2. IInv /\ IInv' /\ ChainInv /\ [Next]_vars => ChainInv'
    BY ChainNext
  <1>3. ChainInv => ChildOnlyAfterSuccess
    BY DEF ChainInv
  <1> QED BY <1>1, <1>2, <1>3, Invariance, PTL DEF Spec

-----------------------------------------------------------------------------
(* Failure categories *)

Honest(st) == st.category # "" => st.phase = "Failed"

\* The versions someone can act on, and the status about to be written.
HonestInv ==
    \A d \in Deployments :
        /\ \A v \in Seen(d) \cup {server[d]} : Honest(v.status)
        /\ pc[d] = "saveStatus" => Honest(todo[d])

\* Every rewrite of a status in flight is honest: a category that condition
\* Unknown leaves in place is none.
LEMMA HonestRewrites ==
    ASSUME NEW st \in Statuses, Honest(st), NEW category, NEW run, NEW state \in RunStates
    PROVE  /\ Honest(FailedStatus(st, category))
           /\ Honest(ConditionStatus(st, "True", ""))
           /\ Honest(ConditionStatus(st, "False", ""))
           /\ Honest(LaunchedStatus(st, run))
           /\ Honest(PostDeploymentStatus(st))
           /\ /\ st.phase \notin TerminalPhases
              /\ state \notin {"absent", "new"}
              => Honest(ConditionStatus(st, ConditionOf(state), category))
  BY DEF Honest, FailedStatus, ConditionStatus, ConditionOf, LaunchedStatus,
         PostDeploymentStatus, Statuses, TerminalPhases, RunStates

\* What is stored is honest.
LEMMA HonestStore ==
    ASSUME TypeOK, NEW e \in Deployments, NEW o \in Objects, Store(e, o),
           Honest(o.status), \A x \in Deployments : Honest(server[x].status)
    PROVE  \A x \in Deployments : Honest(server'[x].status)
  BY StoreFields

\* A reconcile stores an honest status and prepares an honest one.
LEMMA HonestReconcile ==
    ASSUME IInv, HonestInv, NEW d \in Deployments, ReconcileStep(d)
    PROVE  \A x \in Deployments :
              /\ Honest(server'[x].status)
              /\ pc'[x] = "saveStatus" => Honest(todo'[x])
  <1>t. TypeOK /\ StepKnows(d)
    BY DEF IInv
  <1>o. local[d] \in Objects /\ local[d].status \in Statuses /\ todo[d] \in Statuses
    BY <1>t DEF TypeOK, Objects
  <1>h. /\ \A x \in Deployments : Honest(server[x].status)
        /\ pc[d] # "idle" => Honest(local[d].status)
        /\ \A x \in Deployments : pc[x] = "saveStatus" => Honest(todo[x])
    BY DEF HonestInv, Seen
  <1>n. Honest(NoStatus)
    BY DEF Honest, NoStatus
  \* Returning or going on elsewhere prepares nothing.
  <1>g. ASSUME NEW step, NEW requeue,
               Finish(d, requeue) \/ (Goto(d, step) /\ step # "saveStatus")
        PROVE  \A x \in Deployments : pc'[x] = "saveStatus" => Honest(todo'[x])
    BY <1>t, <1>g, <1>h DEF Finish, Goto, TypeOK
  <1>w. ASSUME NEW st, SaveStatus(d, st), Honest(st)
        PROVE  \A x \in Deployments : pc'[x] = "saveStatus" => Honest(todo'[x])
    BY <1>t, <1>w, <1>h DEF SaveStatus, TypeOK
  <1>1. CASE Reconcile(d)
    <2>1. FirstStep(cache[d]) # "saveStatus"
      BY DEF FirstStep
    <2> QED BY <1>t, <1>h, <1>1, <2>1 DEF Reconcile, TypeOK, objectVars
  <1>2. CASE DeleteConsoleNotification(d)
    <2>1. server' = server
      BY <1>2 DEF DeleteConsoleNotification, objectVars
    <2>2. Goto(d, "removeFinalizer") \/ \E requeue : Finish(d, requeue)
      BY <1>2 DEF DeleteConsoleNotification
    <2>3. \A x \in Deployments : pc'[x] = "saveStatus" => Honest(todo'[x])
      <3>1. CASE Goto(d, "removeFinalizer")
        BY <1>g, <3>1
      <3> QED BY <1>g, <2>2, <3>1
    <2> QED BY <1>h, <2>1, <2>3
  <1>3. CASE ReconcileConsoleNotification(d)
    <2>1. SecondStep(d, local[d]) # "saveStatus"
      BY DEF SecondStep
    <2> QED BY <1>g, <1>h, <1>3, <2>1 DEF ReconcileConsoleNotification, objectVars
  <1>4. CASE RemoveFinalizer(d)
    <2>1. \E requeue : Finish(d, requeue)
      BY <1>4 DEF RemoveFinalizer
    <2>2. server' = server \/ Store(d, Removed(d))
      BY <1>4 DEF RemoveFinalizer, objectVars
    <2>3. Removed(d) \in Objects
      BY <1>t, ObjectTypes, NewObjectTypes
    <2>4. Removed(d).status = NoStatus
      BY DEF Removed, NoObject
    <2> QED BY <1>t, <1>g, <1>h, <1>n, <2>1, <2>2, <2>3, <2>4, HonestStore
  <1>5. CASE AddFinalizer(d)
    <2> DEFINE o == [local[d] EXCEPT !.finalizer = TRUE]
    <2>1. pc[d] = "addFinalizer" /\ \E requeue : Finish(d, requeue)
      BY <1>5 DEF AddFinalizer
    <2>2. server' = server \/ Store(d, o)
      BY <1>5 DEF AddFinalizer, Update, objectVars
    <2>3. o \in Objects /\ o.status = local[d].status
      BY <1>o DEF Objects
    <2> HIDE DEF o
    <2> QED BY <1>t, <1>g, <1>h, <2>1, <2>2, <2>3, HonestStore
  <1>6. CASE GetGitHubPAT(d) \/ Clone(d)
    <2>1. pc[d] # "idle" /\ server' = server
      BY <1>6 DEF GetGitHubPAT, Clone, objectVars
    <2>2. \/ \E step : Goto(d, step) /\ step # "saveStatus"
          \/ \E category : SaveStatus(d, FailedStatus(local[d].status, category))
      BY <1>6 DEF GetGitHubPAT, Clone
    <2>3. \A category : Honest(FailedStatus(local[d].status, category))
      BY <1>o, <1>h, <2>1, HonestRewrites DEF RunStates
    <2> QED BY <1>g, <1>w, <1>h, <2>1, <2>2, <2>3
  <1>7. CASE ReconcileJobResources(d)
    <2>1. pc[d] # "idle" /\ server' = server
      BY <1>7 DEF ReconcileJobResources, objectVars
    <2>2. \/ \E requeue : Finish(d, requeue)
          \/ SaveStatus(d, LaunchedStatus(local[d].status, JobOf[d]))
          \/ SaveStatus(d, ConditionStatus(local[d].status, "True", ""))
      BY <1>7 DEF ReconcileJobResources
    <2>3. /\ Honest(LaunchedStatus(local[d].status, JobOf[d]))
          /\ Honest(ConditionStatus(local[d].status, "True", ""))
      BY <1>o, <1>h, <2>1, HonestRewrites DEF RunStates
    <2> QED BY <1>g, <1>w, <1>h, <2>1, <2>2, <2>3
  <1>8. CASE TrackPipelineRun(d)
    <2> DEFINE state == CachedPipelineRun(local[d].status.run)
               st    == ConditionStatus(local[d].status, ConditionOf(state), "StepFailed")
    <2>1. pc[d] = "tekton" /\ server' = server
      BY <1>8 DEF TrackPipelineRun, objectVars
    <2>2. \/ \E requeue : Finish(d, requeue)
          \/ state \notin {"absent", "new"} /\ SaveStatus(d, st)
          \/ SaveStatus(d, ConditionStatus(local[d].status, "False", ""))
      BY <1>8 DEF TrackPipelineRun
    <2>3. state \in RunStates
      <3>1. \A n \in Runs : runCache[n].state \in RunStates
        BY <1>t DEF TypeOK, RunObjects
      <3> QED BY <3>1, RunNamesAreRuns DEF CachedPipelineRun, RunStates
    <2>4. local[d].status.phase \notin TerminalPhases
      BY <1>t, <2>1 DEF StepKnows
    <2> HIDE DEF state
    <2>5. /\ state \notin {"absent", "new"} => Honest(st)
          /\ Honest(ConditionStatus(local[d].status, "False", ""))
      BY <1>o, <1>h, <2>1, <2>3, <2>4, HonestRewrites
    <2> HIDE DEF st
    <2> QED BY <1>g, <1>w, <1>h, <2>1, <2>2, <2>5
  <1>9. CASE LaunchPipelineRun(d)
    <2>1. pc[d] # "idle" /\ server' = server
      BY <1>9 DEF LaunchPipelineRun, objectVars
    <2>2. \/ \E requeue : Finish(d, requeue)
          \/ \E run : SaveStatus(d, LaunchedStatus(local[d].status, run))
      BY <1>9 DEF LaunchPipelineRun
    <2>3. \A run : Honest(LaunchedStatus(local[d].status, run))
      BY <1>o, <1>h, <2>1, HonestRewrites DEF RunStates
    <2> QED BY <1>g, <1>w, <1>h, <2>1, <2>2, <2>3
  <1>10. CASE WriteStatus(d)
    <2> DEFINE o == [local[d] EXCEPT !.status = todo[d]]
    <2>1. pc[d] = "saveStatus" /\ \E requeue : Finish(d, requeue)
      BY <1>10 DEF WriteStatus
    <2>2. server' = server \/ Store(d, o)
      BY <1>10 DEF WriteStatus, Update, objectVars
    <2>3. o \in Objects /\ o.status = todo[d]
      BY <1>o DEF Objects
    <2> HIDE DEF o
    <2> QED BY <1>t, <1>g, <1>h, <2>1, <2>2, <2>3, HonestStore
  <1>11. CASE SavePostMessage(d)
    <2> DEFINE st == PostDeploymentStatus(local[d].status)
               o == [local[d] EXCEPT !.status = st]
    <2>1. pc[d] # "idle" /\ \E requeue : Finish(d, requeue)
      BY <1>11 DEF SavePostMessage
    <2>2. server' = server \/ Store(d, o)
      BY <1>11 DEF SavePostMessage, Update, objectVars
    <2>3. st \in Statuses
      BY <1>o DEF PostDeploymentStatus, Statuses, Messages
    <2>4. Honest(st)
      BY <1>o, <1>h, <2>1, HonestRewrites DEF RunStates
    <2> HIDE DEF st
    <2>5. o \in Objects /\ o.status = st
      BY <1>o, <2>3 DEF Objects
    <2> HIDE DEF o
    <2> QED BY <1>t, <1>g, <1>h, <2>1, <2>2, <2>4, <2>5, HonestStore
  <1>12. CASE CreateChild(d)
    <2> DEFINE child == PostDeployment[d]
               new == NewObject(child, Self(d, local[d]))
    <2>1. pc[d] = "createChild"
      BY <1>12 DEF CreateChild
    <2>a. Finish(d, TRUE) \/ Goto(d, "savePostMessage")
      BY <1>12 DEF CreateChild
    <2>b. \A x \in Deployments : pc'[x] = "saveStatus" => Honest(todo'[x])
      <3>1. CASE Goto(d, "savePostMessage")
        BY <1>g, <3>1
      <3> QED BY <1>g, <2>a, <3>1
    <2>2. server' = server \/ Store(child, new)
      BY <1>12 DEF CreateChild, objectVars
    <2>3. child \in Deployments
      BY <1>t, <2>1, ConstantsAssumption DEF StepKnows
    <2>4. Self(d, local[d]) \in Owners
      BY <1>t, NewObjectTypes, ObjectTypes
    <2>5. new \in Objects
      BY <1>t, <2>3, <2>4, NewObjectTypes
    <2>6. new.status = NoStatus
      BY DEF NewObject
    <2> HIDE DEF new, child
    <2> QED BY <1>t, <1>h, <1>n, <2>2, <2>3, <2>5, <2>6, <2>b, HonestStore
  <1> QED BY <1>1, <1>2, <1>3, <1>4, <1>5, <1>6, <1>7, <1>8, <1>9, <1>10, <1>11, <1>12
          DEF ReconcileStep

\* The cluster stores what was there before, or no status at all.
LEMMA HonestCluster ==
    ASSUME IInv, HonestInv, ClusterStep
    PROVE  \A x \in Deployments :
              /\ Honest(server'[x].status)
              /\ pc'[x] = "saveStatus" => Honest(todo'[x])
  <1>t. TypeOK
    BY DEF IInv
  <1>h. /\ \A x \in Deployments : Honest(server[x].status)
        /\ \A x \in Deployments : pc[x] = "saveStatus" => Honest(todo[x])
    BY DEF HonestInv
  <1>n. Honest(NoStatus)
    BY DEF Honest, NoStatus
  <1>1. \A x \in Deployments : pc'[x] = "saveStatus" => Honest(todo'[x])
    BY <1>h DEF ClusterStep, DeliverEvent, Resync, LoadFails, UserCreate, UserDelete,
                UserEdit, CollectChild, SyncRun, RunProgress, CollectRun, SyncBanner,
                Restart, workerVars
  <1>2. ASSUME NEW d \in Deployments, UserCreate(d)
        PROVE  \A x \in Deployments : Honest(server'[x].status)
    <2>1. Store(d, NewObject(d, Nobody(d)))
      BY <1>2 DEF UserCreate
    <2>2. NewObject(d, Nobody(d)) \in Objects
      BY <1>t, ObjectTypes, NewObjectTypes
    <2>3. NewObject(d, Nobody(d)).status = NoStatus
      BY DEF NewObject
    <2> QED BY <1>t, <1>h, <1>n, <2>1, <2>2, <2>3, HonestStore
  <1>3. ASSUME NEW d \in Deployments, RequestDelete(d)
        PROVE  \A x \in Deployments : Honest(server'[x].status)
    <2> DEFINE o == [server[d] EXCEPT !.deleting = TRUE]
    <2>1. Store(d, o) \/ Store(d, Removed(d))
      BY <1>3 DEF RequestDelete
    <2>s. server[d] \in Objects
      BY <1>t DEF TypeOK
    <2>2. o \in Objects /\ o.status = server[d].status
      BY <2>s DEF Objects
    <2>3. Removed(d) \in Objects
      BY <1>t, ObjectTypes, NewObjectTypes
    <2>4. Removed(d).status = NoStatus
      BY DEF Removed, NoObject
    <2> HIDE DEF o
    <2> QED BY <1>t, <1>h, <1>n, <2>1, <2>2, <2>3, <2>4, HonestStore
  <1>4. ASSUME NEW d \in Deployments, UserEdit(d)
        PROVE  \A x \in Deployments : Honest(server'[x].status)
    <2> DEFINE o == [server[d] EXCEPT !.ansible = ~@]
    <2>1. Store(d, o)
      BY <1>4 DEF UserEdit
    <2>s. server[d] \in Objects
      BY <1>t DEF TypeOK
    <2>2. o \in Objects /\ o.status = server[d].status
      BY <2>s DEF Objects
    <2> HIDE DEF o
    <2> QED BY <1>t, <1>h, <2>1, <2>2, HonestStore
  <1>5. \/ server' = server
        \/ \E d \in Deployments : UserCreate(d) \/ RequestDelete(d) \/ UserEdit(d)
    BY DEF ClusterStep, DeliverEvent, Resync, LoadFails, UserDelete, CollectChild,
           SyncRun, RunProgress, CollectRun, SyncBanner, Restart, objectVars
  <1> QED BY <1>h, <1>1, <1>2, <1>3, <1>4, <1>5

\* applyFailedStatus and applyCondition never leave a category beside a phase
\* other than Failed, although condition Unknown does not clear it.
THEOREM CategoriesAreHonest == Spec => []CategoryOnlyWhenFailed
  <1>1. Init => HonestInv
    <2> SUFFICES ASSUME Init PROVE HonestInv
      OBVIOUS
    <2>1. \A d \in Deployments :
            /\ server[d] = NoObject(d) /\ Seen(d) = {NoObject(d)} /\ pc[d] = "idle"
            /\ NoObject(d).status = NoStatus
      BY DEF Init, Seen, NoObject
    <2>2. Honest(NoStatus)
      BY DEF Honest, NoStatus
    <2>3. \A d \in Deployments : pc[d] # "saveStatus"
      BY <2>1
    <2> QED BY <2>1, <2>2, <2>3 DEF HonestInv
  <1>2. ASSUME IInv, HonestInv, [Next]_vars PROVE HonestInv'
    <2>1. \A x \in Deployments :
              /\ Honest(server'[x].status)
              /\ pc'[x] = "saveStatus" => Honest(todo'[x])
      <3>1. CASE UNCHANGED vars
        BY <1>2, <3>1 DEF vars, HonestInv
      <3> QED BY <1>2, <3>1, HonestReconcile, HonestCluster DEF Next
    <2>2. \A x \in Deployments : \A v \in Seen(x)' : Honest(v.status)
      BY <1>2, <2>1, NextSeen DEF HonestInv
    <2> QED BY <2>1, <2>2 DEF HonestInv
  <1>3. HonestInv => CategoryOnlyWhenFailed
    BY DEF HonestInv, Honest, CategoryOnlyWhenFailed
  <1> QED BY <1>1, <1>2, <1>3, Invariance, PTL DEF Spec
=============================================================================
