-------------------------- MODULE Admission_proofs --------------------------
(***************************************************************************)
(* For any names, specs and numbers of requests: what the webhook has      *)
(* accepted once stays valid, the controller's copy agrees with the stored *)
(* CR on what to deploy, and the children of accepted parents are accepted. *)
(*                                                                         *)
(* The invariant speaks of each name alone, so it is proved for the pair   *)
(* of a cached and a stored version, and every write is an instance of one *)
(* lemma about the version it stores.                                       *)
(***************************************************************************)
EXTENDS Admission, TLAPS

\* The invariant of the cached version s and the stored version t, where w
\* says that the webhook is registered.
PairInv(s, t, w) ==
    /\ s \in Objects /\ t \in Objects
    /\ s.rv <= t.rv /\ s.uid <= t.uid
    /\ s.rv = t.rv => s = t
    /\ s.vetted \/ t.vetted => w
    /\ s.live /\ s.vetted => ValidSpec(s.spec)
    /\ t.live /\ t.vetted => ValidSpec(t.spec)
    /\ s.live /\ s.vetted /\ t.live /\ t.uid = s.uid
          => s.spec.repoName = t.spec.repoName /\ s.spec.release = t.spec.release

\* What a version o that replaces t has to satisfy.
Acceptable(s, t, o, w) ==
    /\ o \in Objects
    /\ o.rv = t.rv + 1
    /\ o.uid >= t.uid
    /\ o.vetted => w
    /\ o.live /\ o.vetted => ValidSpec(o.spec)
    /\ s.live /\ s.vetted /\ o.live /\ o.uid = s.uid
          => s.spec.repoName = o.spec.repoName /\ s.spec.release = o.spec.release

\* The invariant, name by name.
NameByName ==
    /\ store = [n \in Names |-> store[n]]
    /\ seen = [n \in Names |-> seen[n]]
    /\ saving \in [Names -> Nat]
    /\ webhook \in BOOLEAN
    /\ userWrites \in Nat
    /\ \A n \in Names : PairInv(seen[n], store[n], webhook)

\* It is the inductive invariant.
LEMMA Pairs == IInv <=> NameByName
  BY DEF NameByName, IInv, TypeOK, Versions, OnlyWebhookVets, StoredIsValid, SourceAgrees, PairInv

\* A write keeps the invariant of its name.
LEMMA Written ==
    ASSUME NEW s, NEW t, NEW w, PairInv(s, t, w), NEW o, Acceptable(s, t, o, w)
    PROVE  PairInv(s, o, w)
  <1>1. s.rv \in Nat /\ t.rv \in Nat /\ s.uid \in Nat /\ t.uid \in Nat /\ o.uid \in Nat
    BY DEF PairInv, Acceptable, Objects
  <1>2. s.rv < o.rv /\ s.uid <= o.uid /\ s.rv <= o.rv /\ s.rv # o.rv
    BY <1>1 DEF PairInv, Acceptable
  <1> QED BY <1>2 DEF PairInv, Acceptable

\* A step that stores o as n and does nothing else.
LEMMA StoreStep ==
    ASSUME IInv, NEW n \in Names, NEW o,
           Acceptable(seen[n], store[n], [o EXCEPT !.rv = store[n].rv + 1], webhook),
           Store(n, o), seen' = seen, saving' \in [Names -> Nat],
           webhook' = webhook, userWrites' \in Nat
    PROVE  IInv'
  <1>1. store' = [m \in Names |-> store'[m]] /\ seen' = [m \in Names |-> seen'[m]]
    BY Pairs DEF Store, NameByName
  <1>2. ASSUME NEW m \in Names PROVE PairInv(seen'[m], store'[m], webhook')
    <2>1. CASE m = n
      BY <2>1, Pairs, Written DEF Store, NameByName
    <2>2. CASE m # n
      BY <2>2, Pairs DEF Store, NameByName
    <2> QED BY <2>1, <2>2
  <1>3. webhook' \in BOOLEAN
    BY Pairs DEF NameByName
  <1>4. NameByName'
    BY <1>1, <1>2, <1>3 DEF NameByName
  <1> QED BY <1>4, Pairs, PTL


LEMMA NoObjectFacts == NoObject \in Objects /\ ~NoObject.live /\ ~NoObject.vetted
  BY DEF NoObject, Objects, NoSpec, Specs

-----------------------------------------------------------------------------
(* Steps *)

\* The facts about one name that the steps below use.
LEMMA NameFacts ==
    ASSUME IInv, NEW n \in Names
    PROVE  /\ PairInv(seen[n], store[n], webhook)
           /\ saving \in [Names -> Nat]
           /\ webhook \in BOOLEAN /\ userWrites \in Nat
           /\ seen[n] \in Objects /\ store[n] \in Objects
           /\ store[n].rv \in Nat /\ store[n].rv + 1 \in Nat
           /\ store[n].uid \in Nat /\ store[n].uid + 1 \in Nat
           /\ seen[n].uid \in Nat /\ seen[n].rv \in Nat
           /\ store[n].spec \in Specs /\ seen[n].spec \in Specs
           /\ store[n].vetted \in BOOLEAN /\ seen[n].vetted \in BOOLEAN
           /\ Current(n) => seen[n] = store[n] /\ store[n].live
  <1>1. /\ PairInv(seen[n], store[n], webhook) /\ saving \in [Names -> Nat]
        /\ webhook \in BOOLEAN /\ userWrites \in Nat
    BY Pairs DEF NameByName
  <1>2. seen[n] \in Objects /\ store[n] \in Objects
    BY <1>1 DEF PairInv
  <1>3. Current(n) => seen[n] = store[n] /\ store[n].live
    BY <1>1 DEF PairInv, Current
  <1> QED BY <1>1, <1>2, <1>3 DEF Objects

LEMMA InitIInv == Init => IInv
  <1> SUFFICES ASSUME Init PROVE IInv
    OBVIOUS
  <1>1. NoObject \in Objects /\ ~NoObject.live /\ ~NoObject.vetted
        /\ NoObject.rv <= NoObject.rv /\ NoObject.uid <= NoObject.uid
    BY DEF NoObject, Objects, NoSpec, Specs
  <1>2. \A n \in Names : PairInv(seen[n], store[n], webhook)
    BY <1>1 DEF Init, PairInv
  <1> QED BY <1>2, Pairs DEF Init, NameByName

\* The first version of an object, accepted when the webhook is registered.
LEMMA NewIsAcceptable ==
    ASSUME IInv, NEW n \in Names, NEW s \in Specs, ValidateCreate(s)
    PROVE  Acceptable(seen[n], store[n],
                      [NewObject(n, s) EXCEPT !.rv = store[n].rv + 1], webhook)
  <1> DEFINE new == [NewObject(n, s) EXCEPT !.rv = store[n].rv + 1]
  <1>1. /\ new \in Objects /\ new.rv = store[n].rv + 1 /\ new.uid = store[n].uid + 1
        /\ new.spec = s /\ new.vetted = webhook
    <2>1. NoObject \in Objects /\ store[n] \in Objects
      BY NameFacts DEF NoObject, Objects, NoSpec, Specs
    <2> QED BY <2>1, NameFacts DEF NewObject, Objects
  <1>2. new.uid >= store[n].uid /\ new.uid # seen[n].uid
    BY <1>1, NameFacts DEF PairInv
  <1>3. new.vetted => ValidSpec(new.spec)
    BY <1>1 DEF ValidateCreate
  <1> HIDE DEF new
  <1>4. Acceptable(seen[n], store[n], new, webhook)
    BY <1>1, <1>2, <1>3 DEF Acceptable
  <1> QED BY <1>4 DEF new

LEMMA UserCreateKeeps ==
    ASSUME IInv, NEW n \in Names, NEW s \in UserSpecs, UserCreate(n, s)
    PROVE  IInv'
  <1>1. s \in Specs /\ userWrites' \in Nat /\ saving' \in [Names -> Nat]
    BY AdmissionAssumption, NameFacts DEF UserCreate, CountWrite
  <1>2. Acceptable(seen[n], store[n],
                   [NewObject(n, s) EXCEPT !.rv = store[n].rv + 1], webhook)
    BY <1>1, NewIsAcceptable DEF UserCreate
  <1> QED BY <1>1, <1>2, StoreStep DEF UserCreate

LEMMA UserUpdateKeeps ==
    ASSUME IInv, NEW n \in Names, NEW s \in UserSpecs, UserUpdate(n, s)
    PROVE  IInv'
  <1> DEFINE v == store[n].vetted \/ webhook
             o == [store[n] EXCEPT !.spec = s, !.vetted = @ \/ webhook]
             new == [o EXCEPT !.rv = store[n].rv + 1]
  <1>1. s \in Specs /\ userWrites' \in Nat /\ saving' \in [Names -> Nat]
    BY AdmissionAssumption, NameFacts DEF UserUpdate, CountWrite
  <1>2. o = [store[n] EXCEPT !.spec = s, !.vetted = v]
    BY NameFacts DEF Objects
  <1>3. /\ new \in Objects /\ new.rv = store[n].rv + 1 /\ new.uid = store[n].uid
        /\ new.live = store[n].live /\ new.spec = s /\ new.vetted = v
    BY <1>1, <1>2, NameFacts DEF Objects
  <1>4. new.vetted <=> webhook
    BY <1>3, NameFacts DEF PairInv
  <1>5. webhook => /\ ValidSpec(s) /\ s.repoName = store[n].spec.repoName
                   /\ s.release = store[n].spec.release
    BY DEF UserUpdate, ValidateUpdate
  <1>6. store[n].live
    BY DEF UserUpdate
  <1>7. seen[n].vetted => webhook
    BY NameFacts DEF PairInv
  <1> HIDE DEF new, v
  <1>8. Acceptable(seen[n], store[n], new, webhook)
    BY <1>3, <1>4, <1>5, <1>6, <1>7, NameFacts DEF Acceptable, PairInv
  <1> QED BY <1>1, <1>8, StoreStep DEF UserUpdate, new

\* A version without live object.
LEMMA RemovedIsAcceptable ==
    ASSUME IInv, NEW n \in Names
    PROVE  Acceptable(seen[n], store[n],
                      [Removed(n) EXCEPT !.rv = store[n].rv + 1], webhook)
  <1> DEFINE new == [Removed(n) EXCEPT !.rv = store[n].rv + 1]
  <1>1. /\ new \in Objects /\ new.rv = store[n].rv + 1 /\ new.uid = store[n].uid
        /\ ~new.live /\ ~new.vetted
    BY NameFacts, NoObjectFacts DEF Removed, Objects
  <1> HIDE DEF new
  <1>2. Acceptable(seen[n], store[n], new, webhook)
    BY <1>1, NameFacts DEF Acceptable
  <1> QED BY <1>2 DEF new

\* A version with the spec of the one it replaces.
LEMMA SameSpecIsAcceptable ==
    ASSUME IInv, NEW n \in Names, NEW o \in Objects,
           o.rv = store[n].rv + 1, o.uid = store[n].uid, o.live = store[n].live,
           o.spec = store[n].spec,
           o.vetted => webhook,
           o.vetted /\ ~store[n].vetted => ValidSpec(o.spec)
    PROVE  Acceptable(seen[n], store[n], o, webhook)
  BY NameFacts DEF Acceptable, PairInv

LEMMA DeleteKeeps ==
    ASSUME IInv, NEW n \in Names, Delete(n)
    PROVE  IInv'
  <1>1. userWrites' \in Nat /\ saving' \in [Names -> Nat]
    BY NameFacts DEF Delete, CountWrite
  <1>2. CASE store[n].finalizer
    <2> DEFINE o == [store[n] EXCEPT !.deleting = TRUE]
               new == [o EXCEPT !.rv = store[n].rv + 1]
    <2>1. /\ new \in Objects /\ new.rv = store[n].rv + 1 /\ new.uid = store[n].uid
          /\ new.live = store[n].live /\ new.spec = store[n].spec
          /\ new.vetted = store[n].vetted
      BY NameFacts DEF Objects
    <2>2. store[n].vetted => webhook
      BY NameFacts DEF PairInv
    <2> HIDE DEF new
    <2>3. Acceptable(seen[n], store[n], new, webhook)
      BY <2>1, <2>2, SameSpecIsAcceptable
    <2> QED BY <1>1, <1>2, <2>3, StoreStep DEF Delete, new
  <1>3. CASE ~store[n].finalizer
    BY <1>1, <1>3, RemovedIsAcceptable, StoreStep DEF Delete
  <1> QED BY <1>2, <1>3

LEMMA AddFinalizerKeeps ==
    ASSUME IInv, NEW n \in Names, AddFinalizer(n)
    PROVE  IInv'
  <1> DEFINE v == store[n].vetted \/ webhook
             o == [seen[n] EXCEPT !.finalizer = TRUE, !.vetted = @ \/ webhook]
             new == [o EXCEPT !.rv = store[n].rv + 1]
  <1>1. seen[n] = store[n]
    BY NameFacts DEF AddFinalizer
  <1>2. o = [store[n] EXCEPT !.finalizer = TRUE, !.vetted = v]
    BY <1>1, NameFacts DEF Objects
  <1>3. /\ new \in Objects /\ new.rv = store[n].rv + 1 /\ new.uid = store[n].uid
        /\ new.live = store[n].live /\ new.spec = store[n].spec /\ new.vetted = v
    BY <1>2, NameFacts DEF Objects
  <1>4. new.vetted => webhook
    BY <1>3, NameFacts DEF PairInv
  <1>5. webhook => ValidSpec(store[n].spec)
    BY <1>1 DEF AddFinalizer, ValidateUpdate
  <1> HIDE DEF new, v
  <1>6. Acceptable(seen[n], store[n], new, webhook)
    BY <1>3, <1>4, <1>5, SameSpecIsAcceptable
  <1> QED BY <1>6, StoreStep, NameFacts DEF AddFinalizer, new

LEMMA RemoveFinalizerKeeps ==
    ASSUME IInv, NEW n \in Names, RemoveFinalizer(n)
    PROVE  IInv'
  BY RemovedIsAcceptable, StoreStep, NameFacts DEF RemoveFinalizer

LEMMA ReportSuccessKeeps ==
    ASSUME IInv, NEW n \in Names, ReportSuccess(n)
    PROVE  IInv'
  <1> DEFINE o == [seen[n] EXCEPT !.succeeded = TRUE]
             new == [o EXCEPT !.rv = store[n].rv + 1]
  <1>1. seen[n] = store[n]
    BY NameFacts DEF ReportSuccess
  <1>2. /\ new \in Objects /\ new.rv = store[n].rv + 1 /\ new.uid = store[n].uid
        /\ new.live = store[n].live /\ new.spec = store[n].spec
        /\ new.vetted = store[n].vetted
    BY <1>1, NameFacts DEF Objects
  <1>3. store[n].vetted => webhook
    BY NameFacts DEF PairInv
  <1> HIDE DEF new
  <1>4. Acceptable(seen[n], store[n], new, webhook)
    BY <1>2, <1>3, SameSpecIsAcceptable
  <1> QED BY <1>4, StoreStep, NameFacts DEF ReportSuccess, new

LEMMA CreateChildKeeps ==
    ASSUME IInv, NEW n \in Names, CreateChild(n)
    PROVE  IInv'
  <1> DEFINE child == PostDeployName[n]
             spec  == ChildSpec(seen[n].spec)
  <1>1. child \in Names
    BY AdmissionAssumption DEF CreateChild, WantsChild
  <1>2. spec \in Specs
    <2>1. seen[n].spec \in Specs
      BY NameFacts
    <2>2. << >> \in Seq(STRING)
      OBVIOUS
    <2>3. /\ seen[n].spec.postRepoName \in Seq(STRING)
          /\ seen[n].spec.postRelease \in Seq(STRING)
      BY <2>1 DEF Specs
    <2> QED BY <2>2, <2>3 DEF ChildSpec, Specs
  <1>3. Acceptable(seen[child], store[child],
                   [NewObject(child, spec) EXCEPT !.rv = store[child].rv + 1], webhook)
    BY <1>1, <1>2, NewIsAcceptable DEF CreateChild
  <1>4. saving' \in [Names -> Nat] /\ userWrites' \in Nat
    BY NameFacts DEF CreateChild
  <1> QED BY <1>1, <1>3, <1>4, StoreStep DEF CreateChild

LEMMA SaveMessageKeeps ==
    ASSUME IInv, NEW n \in Names, SaveMessage(n)
    PROVE  IInv'
  <1>1. saving' \in [Names -> Nat] /\ userWrites' \in Nat
    BY NameFacts DEF SaveMessage
  <1>2. CASE Store(n, [store[n] EXCEPT !.chained = TRUE])
    <2> DEFINE o == [store[n] EXCEPT !.chained = TRUE]
               new == [o EXCEPT !.rv = store[n].rv + 1]
    <2>1. /\ new \in Objects /\ new.rv = store[n].rv + 1 /\ new.uid = store[n].uid
          /\ new.live = store[n].live /\ new.spec = store[n].spec
          /\ new.vetted = store[n].vetted
      BY NameFacts DEF Objects
    <2>2. store[n].vetted => webhook
      BY NameFacts DEF PairInv
    <2> HIDE DEF new
    <2>3. Acceptable(seen[n], store[n], new, webhook)
      BY <2>1, <2>2, SameSpecIsAcceptable
    <2> QED BY <1>1, <1>2, <2>3, StoreStep DEF SaveMessage, new
  <1>3. CASE UNCHANGED store
    <2>1. NameByName'
      BY <1>1, <1>3, Pairs DEF SaveMessage, NameByName
    <2> QED BY <2>1, Pairs, PTL
  <1> QED BY <1>2, <1>3 DEF SaveMessage

LEMMA SyncKeeps ==
    ASSUME IInv, NEW n \in Names, Sync(n)
    PROVE  IInv'
  <1>1. PairInv(store[n], store[n], webhook)
    <2>1. store[n].rv <= store[n].rv /\ store[n].uid <= store[n].uid
      BY NameFacts
    <2> QED BY <2>1, NameFacts DEF PairInv
  <1>2. ASSUME NEW m \in Names PROVE PairInv(seen'[m], store'[m], webhook')
    <2>1. CASE m = n
      BY <1>1, <2>1, Pairs DEF Sync, NameByName
    <2>2. CASE m # n
      BY <2>2, Pairs DEF Sync, NameByName
    <2> QED BY <2>1, <2>2
  <1>3. NameByName'
    BY <1>2, Pairs DEF Sync, NameByName
  <1> QED BY <1>3, Pairs, PTL

LEMMA RegisterWebhookKeeps ==
    ASSUME IInv, RegisterWebhook
    PROVE  IInv'
  <1>1. ASSUME NEW m \in Names PROVE PairInv(seen'[m], store'[m], webhook')
    BY Pairs DEF RegisterWebhook, NameByName, PairInv
  <1>2. NameByName'
    BY <1>1, Pairs DEF RegisterWebhook, NameByName
  <1> QED BY <1>2, Pairs, PTL

LEMMA NextIInv == IInv /\ [Next]_vars => IInv'
  <1> SUFFICES ASSUME IInv, [Next]_vars PROVE IInv'
    OBVIOUS
  <1>1. CASE RegisterWebhook
    BY <1>1, RegisterWebhookKeeps
  <1>2. ASSUME NEW n \in Names, NEW s \in UserSpecs, UserCreate(n, s) \/ UserUpdate(n, s)
        PROVE  IInv'
    BY <1>2, UserCreateKeeps, UserUpdateKeeps
  <1>3. ASSUME NEW n \in Names, Delete(n) \/ Sync(n) \/ ControllerStep(n)
        PROVE  IInv'
    BY <1>3, DeleteKeeps, SyncKeeps, AddFinalizerKeeps, RemoveFinalizerKeeps,
       ReportSuccessKeeps, CreateChildKeeps, SaveMessageKeeps DEF ControllerStep
  <1>4. CASE UNCHANGED vars
    <2>1. NameByName'
      BY <1>4, Pairs DEF vars, NameByName
    <2> QED BY <2>1, Pairs, PTL
  <1> QED BY <1>1, <1>2, <1>3, <1>4 DEF Next

-----------------------------------------------------------------------------
(* Theorems *)

\* Every reachable state satisfies the inductive invariant: the versions of
\* store and cache are ordered, and only accepted versions are vetted.
THEOREM AdmissionInvariant == Spec => []IInv
  BY InitIInv, NextIInv, PTL DEF Spec

\* After validateDeploymentSpec has accepted an object once, every stored or
\* cached version of it passes.
THEOREM AcceptedStaysValid == Spec => []StoredIsValid
  <1>1. IInv => StoredIsValid
    BY DEF IInv
  <1> QED BY <1>1, AdmissionInvariant, PTL

\* The cached copy that Reconcile deploys from names the repository and the
\* release of the stored CR.
THEOREM CopyNamesTheSource == Spec => []SourceAgrees
  <1>1. IInv => SourceAgrees
    BY DEF IInv
  <1> QED BY <1>1, AdmissionInvariant, PTL

\* The child that reconcilePostDeployment builds from an accepted parent
\* passes ValidateCreate.
THEOREM ChildrenAreAccepted == Spec => []ChildAccepted
  <1>1. ASSUME NEW s \in Specs, ValidSpec(s), ~Blank(s.postRepoName)
        PROVE  ValidSpec(ChildSpec(s))
    <2>1. /\ ChildSpec(s).repoName = s.postRepoName
          /\ ChildSpec(s).release = s.postRelease
          /\ ChildSpec(s).postRepoName = << >> /\ ChildSpec(s).postRelease = << >>
      BY DEF ChildSpec
    <2>2. Blank(<< >>)
      BY DEF Blank
    <2> QED BY <1>1, <2>1, <2>2 DEF ValidSpec
  <1>2. IInv => ChildAccepted
    <2> SUFFICES ASSUME IInv, NEW n \in Names, WantsChild(n, seen[n]), seen[n].vetted,
                        ~Blank(seen[n].spec.postRepoName)
                 PROVE  ValidateCreate(ChildSpec(seen[n].spec))
      BY DEF ChildAccepted
    <2>1. seen[n].spec \in Specs /\ ValidSpec(seen[n].spec)
      BY NameFacts DEF PairInv, WantsChild
    <2> QED BY <1>1, <2>1 DEF ValidateCreate
  <1> QED BY <1>2, AdmissionInvariant, PTL

\* The finalizer updates of the controller pass ValidateUpdate, for any spec the
\* webhook has accepted and in any order with the edits of users.
THEOREM OwnUpdatesPass == Spec => []OwnUpdatesAccepted
  <1>1. IInv => OwnUpdatesAccepted
    <2> SUFFICES ASSUME IInv, NEW n \in Names, Current(n), seen[n].vetted
                 PROVE  ValidateUpdate(store[n].spec, seen[n].spec)
      BY DEF OwnUpdatesAccepted
    <2>1. seen[n] = store[n] /\ ValidSpec(seen[n].spec)
      BY NameFacts DEF PairInv, Current
    <2> QED BY <2>1 DEF ValidateUpdate
  <1> QED BY <1>1, AdmissionInvariant, PTL

=============================================================================
