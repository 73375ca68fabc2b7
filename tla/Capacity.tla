------------------------------ MODULE Capacity ------------------------------
(***************************************************************************)
(* The capacity reconciler (internal/controller/capacity_controller.go):   *)
(* a polling loop that measures what share of the worker nodes the running *)
(* pods have requested, publishes it as gauges, and keeps the high         *)
(* watermark in a ConfigMap.                                               *)
(*                                                                         *)
(* Nodes and pods are listed from the API server, one after the other.     *)
(* The ConfigMap is read through the informer cache, twice per reconcile:  *)
(* by loadPeak and again by savePeak, whose Update carries the version     *)
(* that second read returned.                                              *)
(***************************************************************************)
EXTENDS Integers, Sequences, FiniteSetsExt

CONSTANTS
    Nodes,      \* name -> node: its allocatable resources, taints and labels
    Pods,       \* name -> pod: the requests of its containers and of its init
                \*   containers, each by container name
    Budget      \* bounds: how many failed calls, operator restarts and manual
                \*   edits of the ConfigMap a behaviour has

Resources == {"cpu", "memory"}

\* resource.Quantity, in milli-CPUs and in bytes.  A resource that is not listed
\* counts as zero.
Quantities == [Resources -> Nat]

RoleKeys == {"node-role.kubernetes.io/master",
             "node-role.kubernetes.io/control-plane"}

BudgetItems == {"fault", "restart", "admin"}

ASSUME ConstantsAssumption ==
    /\ IsFiniteSet(DOMAIN Nodes) /\ IsFiniteSet(DOMAIN Pods)
    /\ \A n \in DOMAIN Nodes :
          /\ Nodes[n].allocatable \in Quantities
          /\ Nodes[n].taints \subseteq RoleKeys
          /\ Nodes[n].labels \subseteq RoleKeys
    /\ \A p \in DOMAIN Pods :
          /\ IsFiniteSet(DOMAIN Pods[p].containers)
          /\ IsFiniteSet(DOMAIN Pods[p].initContainers)
          /\ \A c \in DOMAIN Pods[p].containers :
                Pods[p].containers[c] \in Quantities
          /\ \A c \in DOMAIN Pods[p].initContainers :
                Pods[p].initContainers[c] \in Quantities
    /\ Budget \in [BudgetItems -> Nat]

VARIABLES
    nodes,      \* names of the nodes of the cluster
    running,    \* names of the pods whose status.phase is Running
    cm,         \* the ConfigMap itz-cluster-capacity-peak
    cmCache,    \* the version of it in the informer cache
    cmWatch,    \* later versions the watch has still to deliver, in order
    gauges,     \* the exported current and peak ratios
    due,        \* the reconcile request is queued or waits out RequeueAfter
    pc,         \* the next step of the reconcile, or "idle"
    capacity,   \* what computeUtilization has summed over the nodes
    ratio,      \* cpuRatio and memRatio
    peak,       \* the CapacityPeak about to be saved
    readLatest, \* history: loadPeak read the version that was stored
    highest,    \* history: the highest ratios ever stored
    budget      \* what is left of Budget

vars == <<nodes, running, cm, cmCache, cmWatch, gauges, due, pc,
          capacity, ratio, peak, readLatest, highest, budget>>

cmVars    == <<cm, cmCache, cmWatch, highest>>
localVars == <<capacity, ratio, peak, readLatest>>

-----------------------------------------------------------------------------
(* Ratios, kept as fractions: JSON reproduces a float64 exactly *)

Ratios == [num : Nat, den : Nat \ {0}]

Exceeds(a, b) == a.num * b.den > b.num * a.den

\* No component of a exceeds that of b.
Within(a, b) == \A r \in Resources : ~Exceeds(a[r], b[r])

\* CapacityPeak, and what json.Unmarshal leaves for a missing one.
CapacityPeaks == [Resources -> Ratios]

ZeroPeak == [r \in Resources |-> [num |-> 0, den |-> 1]]

\* Mutant: a new peak of one resource overwrites both.
RaisedBoth(pk, now) ==
    IF \E r \in Resources : Exceeds(now[r], pk[r]) THEN now ELSE pk

\* The peak after the observation `now`, each resource by itself.
Raised(pk, now) ==
    [r \in Resources |-> IF Exceeds(now[r], pk[r]) THEN now[r] ELSE pk[r]]

\* The ConfigMap: absent, without the key "peak", with a value json cannot
\* decode, or with a peak.
ConfigMaps ==
    [state : {"absent", "empty", "malformed", "peak"}, peak : CapacityPeaks]

ConfigMap(state, pk) == [state |-> state, peak |-> pk]

Blank(state) == ConfigMap(state, ZeroPeak)

-----------------------------------------------------------------------------
(* Measuring *)

IsMasterNode(n) == (Nodes[n].taints \cup Nodes[n].labels) \cap RoleKeys # {}

\* max(sum of the containers, largest init container), resource by resource.
EffectivePodRequests(p) ==
    LET containers     == Pods[p].containers
        initContainers == Pods[p].initContainers
    IN  [r \in Resources |->
            Max({SumFunction([c \in DOMAIN containers |-> containers[c][r]])} \cup
                {initContainers[c][r] : c \in DOMAIN initContainers})]

WorkerCapacity(ns) ==
    [r \in Resources |->
        SumFunctionOnSet([n \in DOMAIN Nodes |-> Nodes[n].allocatable[r]],
                         {n \in ns : ~IsMasterNode(n)})]

Requested(ps) ==
    [r \in Resources |->
        SumFunctionOnSet([p \in DOMAIN Pods |-> EffectivePodRequests(p)[r]], ps)]

\* Mutant: no check.
HasCapacityUnchecked(total) == total \in Quantities

HasCapacity(total) == \A r \in Resources : total[r] # 0

Utilization(requested, total) ==
    [r \in Resources |-> [num |-> requested[r], den |-> total[r]]]

-----------------------------------------------------------------------------

Init ==
    /\ nodes \in SUBSET DOMAIN Nodes
    /\ running \in SUBSET DOMAIN Pods
    /\ cm = Blank("absent")
    /\ cmCache = cm
    /\ cmWatch = <<>>
    /\ gauges = [current |-> ZeroPeak, peak |-> ZeroPeak]
    /\ due = TRUE
    /\ pc = "idle"
    /\ capacity = [r \in Resources |-> 0]
    /\ ratio = ZeroPeak
    /\ peak = ZeroPeak
    /\ readLatest = TRUE
    /\ highest = ZeroPeak
    /\ budget = Budget

Spend(what) ==
    /\ budget[what] > 0
    /\ budget' = [budget EXCEPT ![what] = @ - 1]

Fault == Spend("fault")

NoFault == UNCHANGED budget

\* Store a version of the ConfigMap, unless it is the stored one.
Store(v) ==
    /\ cm' = v
    /\ cmWatch' = IF v = cm THEN cmWatch ELSE Append(cmWatch, v)
    /\ highest' = Raised(highest, v.peak)
    /\ UNCHANGED cmCache

\* Every return of Reconcile, errors included, asks for the next poll.
Finish ==
    /\ pc' = "idle"
    /\ due' = TRUE
    /\ capacity' = [r \in Resources |-> 0]
    /\ ratio' = ZeroPeak
    /\ peak' = ZeroPeak
    /\ readLatest' = TRUE

-----------------------------------------------------------------------------
(* Reconcile: one action per call *)

\* The first half of computeUtilization.  A cluster without worker capacity is
\* an error.
ListNodes ==
    /\ pc = "idle"
    /\ due
    /\ UNCHANGED <<nodes, running, cmVars, gauges>>
    /\ \/ /\ NoFault
          /\ HasCapacity(WorkerCapacity(nodes))
          /\ pc' = "listPods"
          /\ due' = FALSE
          /\ capacity' = WorkerCapacity(nodes)
          /\ UNCHANGED <<ratio, peak, readLatest>>
       \/ /\ IF HasCapacity(WorkerCapacity(nodes)) THEN Fault ELSE NoFault
          /\ Finish

\* Mutant: an error ends the polling.
ListPodsOnce ==
    /\ pc = "listPods"
    /\ UNCHANGED <<nodes, running, cmVars>>
    /\ \/ /\ NoFault
          /\ ratio' = Utilization(Requested(running), capacity)
          /\ gauges' = [gauges EXCEPT !.current = ratio']
          /\ pc' = "loadPeak"
          /\ UNCHANGED <<due, capacity, peak, readLatest>>
       \/ /\ Fault
          /\ pc' = "idle"
          /\ UNCHANGED <<due, localVars, gauges>>

\* The second half; the current ratios are published.
ListPods ==
    /\ pc = "listPods"
    /\ UNCHANGED <<nodes, running, cmVars>>
    /\ \/ /\ NoFault
          /\ ratio' = Utilization(Requested(running), capacity)
          /\ gauges' = [gauges EXCEPT !.current = ratio']
          /\ pc' = "loadPeak"
          /\ UNCHANGED <<due, capacity, peak, readLatest>>
       \/ /\ Fault
          /\ Finish
          /\ UNCHANGED gauges

\* Read the cached ConfigMap and compare.  A peak that stands is published.
LoadPeak ==
    /\ pc = "loadPeak"
    /\ UNCHANGED <<nodes, running, cmVars>>
    /\ \/ /\ cmCache.state # "malformed"
          /\ Raised(cmCache.peak, ratio) # cmCache.peak
          /\ NoFault
          /\ pc' = "savePeak"
          /\ peak' = Raised(cmCache.peak, ratio)
          /\ readLatest' = (cmWatch = <<>>)
          /\ UNCHANGED <<due, capacity, ratio, gauges>>
       \/ /\ cmCache.state # "malformed"
          /\ Raised(cmCache.peak, ratio) = cmCache.peak
          /\ NoFault
          /\ gauges' = [gauges EXCEPT !.peak = cmCache.peak]
          /\ Finish
       \/ /\ IF cmCache.state = "malformed" THEN NoFault ELSE Fault
          /\ Finish
          /\ UNCHANGED gauges

\* Whether the API server takes what savePeak sends: a Create when the cache has
\* no ConfigMap, an Update of the cached version otherwise.
SaveAccepted ==
    IF cmCache.state = "absent" THEN cm.state = "absent" ELSE cmWatch = <<>>

\* Mutant: a peak that could not be saved is published all the same.
SavePeakPublishes ==
    /\ pc = "savePeak"
    /\ UNCHANGED <<nodes, running>>
    /\ gauges' = [gauges EXCEPT !.peak = peak]
    /\ Finish
    /\ \/ /\ SaveAccepted
          /\ NoFault
          /\ Store(ConfigMap("peak", peak))
       \/ /\ IF SaveAccepted THEN Fault ELSE NoFault
          /\ UNCHANGED cmVars

\* Read the cached ConfigMap again, write it, and publish what was written.
SavePeak ==
    /\ pc = "savePeak"
    /\ UNCHANGED <<nodes, running>>
    /\ Finish
    /\ \/ /\ SaveAccepted
          /\ NoFault
          /\ Store(ConfigMap("peak", peak))
          /\ gauges' = [gauges EXCEPT !.peak = peak]
       \/ /\ IF SaveAccepted THEN Fault ELSE NoFault
          /\ UNCHANGED <<cmVars, gauges>>

ReconcileStep == ListNodes \/ ListPods \/ LoadPeak \/ SavePeak

-----------------------------------------------------------------------------
(* The cluster *)

\* The watch delivers the next version of the ConfigMap.
DeliverEvent ==
    /\ cmWatch # <<>>
    /\ cmCache' = Head(cmWatch)
    /\ cmWatch' = Tail(cmWatch)
    /\ UNCHANGED <<nodes, running, cm, gauges, due, pc, localVars, highest, budget>>

\* Nodes come and go, pods start and end.
NodeChange ==
    /\ \E n \in DOMAIN Nodes :
          nodes' = IF n \in nodes THEN nodes \ {n} ELSE nodes \cup {n}
    /\ UNCHANGED <<running, cmVars, gauges, due, pc, localVars, budget>>

PodChange ==
    /\ \E p \in DOMAIN Pods :
          running' = IF p \in running THEN running \ {p} ELSE running \cup {p}
    /\ UNCHANGED <<nodes, cmVars, gauges, due, pc, localVars, budget>>

\* Somebody deletes the ConfigMap, its key, or what makes the value JSON.
AdminEdit ==
    /\ Spend("admin")
    /\ \E state \in {"absent", "empty", "malformed"} :
          /\ cm.state # "absent"
          /\ cm.state # state
          /\ Store(Blank(state))
    /\ UNCHANGED <<nodes, running, gauges, due, pc, localVars>>

\* The process starts again: its gauges are zero, its cache is filled by a list,
\* and the event for the operator's own Deployment starts the polling.
Restart ==
    /\ Spend("restart")
    /\ Finish
    /\ gauges' = [current |-> ZeroPeak, peak |-> ZeroPeak]
    /\ cmCache' = cm
    /\ cmWatch' = <<>>
    /\ UNCHANGED <<nodes, running, cm, highest>>

Next ==
    \/ ReconcileStep
    \/ DeliverEvent \/ NodeChange \/ PodChange \/ AdminEdit \/ Restart

Spec == Init /\ [][Next]_vars

\* The work queue and the watch keep going.
Fairness == WF_vars(ReconcileStep) /\ WF_vars(DeliverEvent)

FairSpec == Spec /\ Fairness

-----------------------------------------------------------------------------
(* Properties *)

\* Every variable keeps its type; in particular computeUtilization never divides
\* by zero, whichever nodes have left.
TypeOK ==
    /\ nodes \subseteq DOMAIN Nodes
    /\ running \subseteq DOMAIN Pods
    /\ {cm, cmCache} \subseteq ConfigMaps
    /\ cmWatch \in Seq(ConfigMaps)
    /\ gauges \in [current : CapacityPeaks, peak : CapacityPeaks]
    /\ {due, readLatest} \subseteq BOOLEAN
    /\ pc \in {"idle", "listPods", "loadPeak", "savePeak"}
    /\ capacity \in Quantities
    /\ {ratio, peak, highest} \subseteq CapacityPeaks
    /\ budget \in [BudgetItems -> Nat]

\* A peak gauge never shows what the ConfigMap has never held: what Reconcile
\* publishes survived, or would have survived, a restart.
PublishedIsDurable == Within(gauges.peak, highest)

\* A step of Reconcile lowers a stored peak.
Lowers ==
    /\ cm.state = "peak" /\ cm'.state = "peak"
    /\ ~Within(cm.peak, cm'.peak)

\* savePeak lowers a stored peak only when loadPeak read an outdated ConfigMap.
FallsOnlyWhenStale == [][Lowers => ~readLatest]_vars

\* The versions of the ConfigMap that somebody can still read.
Versions == {cm, cmCache} \cup {cmWatch[i] : i \in DOMAIN cmWatch}

\* The watch ends in the stored version, and an idle watch means a current cache.
CacheTrails ==
    IF cmWatch = <<>> THEN cmCache = cm ELSE cmWatch[Len(cmWatch)] = cm

\* A peak computed from the stored version covers it until it is saved.
SaveCovers ==
    pc = "savePeak" /\ readLatest /\ cm.state = "peak" => Within(cm.peak, peak)

\* The inductive invariant.
IInv ==
    /\ TypeOK
    /\ CacheTrails
    /\ pc = "listPods" => HasCapacity(capacity)
    /\ SaveCovers
    /\ \A v \in Versions : Within(v.peak, highest)
    /\ PublishedIsDurable

\* What the nodes and pods there are now amount to.
UtilizationNow == Utilization(Requested(running), WorkerCapacity(nodes))

\* The stored peak covers it, unless there is nothing to measure or the ConfigMap
\* was spoilt.
Recorded ==
    \/ ~HasCapacity(WorkerCapacity(nodes))
    \/ cm.state = "malformed"
    \/ Within(UtilizationNow, cm.peak)

\* Load that lasts is recorded: once nodes and pods stop changing, the stored
\* peak reaches what they amount to and stays there, whatever failed before.
LastingLoadIsRecorded ==
    <>[][UNCHANGED <<nodes, running>>]_vars => <>[]Recorded

\* "the highest utilization ratios ever observed": the reconciler never lowers
\* the peak it stored.
PeakNeverFalls == [][~Lowers]_vars
=============================================================================
