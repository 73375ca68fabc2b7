------------------------------ MODULE Admission ------------------------------
(***************************************************************************)
(* The validating webhook (api/v1alpha1/deployment_webhook.go) and the     *)
(* writes that go through it: those of users, but also those of the        *)
(* controller, which registers and removes its finalizer by an UPDATE and   *)
(* starts a post-deployment by a CREATE.                                    *)
(*                                                                         *)
(* Deployment CRs may have been stored before the webhook was registered.   *)
(* A refused request changes nothing, so it is no step.                     *)
(***************************************************************************)
EXTENDS Naturals, Sequences

CONSTANTS
    Names,             \* names of Deployment CRs
    PostDeployName,    \* name -> "<name>-post-deploy", for the names users choose
    UserSpecs,         \* specs that users send; a field is a sequence of characters
                       \*   ("lock" is the four letters in one)
    MaxUserWrites      \* bound: requests of users that are accepted

Spaces == {" "}

\* invalidGitTagChars; the others are treated as these.
InvalidGitTagChars == Spaces \cup {"~", ":"}

\* spec.repoName, spec.release, spec.postDeployment.repoName and .release.
Specs == [repoName : Seq(STRING), release : Seq(STRING),
          postRepoName : Seq(STRING), postRelease : Seq(STRING)]

ASSUME AdmissionAssumption ==
    /\ UserSpecs \subseteq Specs
    /\ DOMAIN PostDeployName \subseteq Names
    /\ \A n \in DOMAIN PostDeployName :
          PostDeployName[n] \in Names \ DOMAIN PostDeployName
    /\ MaxUserWrites \in Nat

VARIABLES
    store,      \* store[n]: the Deployment stored as n
    seen,       \* seen[n]: the version of it in the controller's cache
    saving,     \* saving[n]: the resourceVersion of the copy by which a reconcile
                \*   that has created the child of n has yet to save that it did;
                \*   0 when there is none
    webhook,    \* the webhook is registered with the API server
    userWrites  \* requests of users accepted so far

vars == <<store, seen, saving, webhook, userWrites>>

-----------------------------------------------------------------------------
(* The rules *)

\* strings.TrimSpace(s) == ""
Blank(s) == \A i \in DOMAIN s : s[i] \in Spaces

HasPair(s, a, b) == \E i \in 1..(Len(s) - 1) : s[i] = a /\ s[i + 1] = b

validateGitTag(tag) ==
    /\ \A i \in DOMAIN tag : tag[i] \notin InvalidGitTagChars
    /\ tag # << >> => tag[1] \notin {".", "-"}
    /\ Len(tag) > 1 => ~(tag[Len(tag) - 1] = "." /\ tag[Len(tag)] = "lock")
    /\ ~HasPair(tag, ".", ".")
    /\ ~HasPair(tag, "@", "{")

\* Mutant: the release of the post-deployment is not looked at.
ValidSpecAlone(s) ==
    /\ ~Blank(s.repoName)
    /\ ~Blank(s.release) /\ validateGitTag(s.release)

\* validateDeploymentSpec on creation.
ValidSpec(s) ==
    /\ ~Blank(s.repoName)
    /\ ~Blank(s.release) /\ validateGitTag(s.release)
    /\ Blank(s.postRepoName) <=> Blank(s.postRelease)
    /\ ~Blank(s.postRelease) => validateGitTag(s.postRelease)

ValidateCreate(s) == webhook => ValidSpec(s)

\* Mutant: the fields are not immutable.
ValidateUpdateMutable(old, s) == webhook => ValidSpec(s)

\* Mutant: an update is only compared with the version stored.
ValidateUpdateOnlyImmutable(old, s) ==
    webhook => s.repoName = old.repoName /\ s.release = old.release

\* Mutant: the new name is trimmed before it is compared.
ValidateUpdateTrimmed(old, s) ==
    webhook => /\ ValidSpec(s)
               /\ SelectSeq(s.repoName, LAMBDA c : c \notin Spaces) = old.repoName
               /\ s.release = old.release

ValidateUpdate(old, s) ==
    webhook => /\ ValidSpec(s)
               /\ s.repoName = old.repoName
               /\ s.release = old.release

-----------------------------------------------------------------------------
(* Objects *)

\* `vetted`: the webhook has accepted a version of the object.
Objects ==
    [live : BOOLEAN, uid : Nat, rv : Nat, spec : Specs, finalizer : BOOLEAN,
     deleting : BOOLEAN, succeeded : BOOLEAN, chained : BOOLEAN, vetted : BOOLEAN]

NoSpec == [repoName |-> << >>, release |-> << >>, postRepoName |-> << >>,
           postRelease |-> << >>]

NoObject ==
    [live |-> FALSE, uid |-> 0, rv |-> 0, spec |-> NoSpec, finalizer |-> FALSE,
     deleting |-> FALSE, succeeded |-> FALSE, chained |-> FALSE, vetted |-> FALSE]

NewObject(n, s) ==
    [NoObject EXCEPT !.live = TRUE, !.uid = store[n].uid + 1, !.rv = store[n].rv,
                     !.spec = s, !.vetted = webhook]

Init ==
    /\ store = [n \in Names |-> NoObject]
    /\ seen = store
    /\ saving = [n \in Names |-> 0]
    /\ webhook \in BOOLEAN
    /\ userWrites = 0

Store(n, o) == store' = [store EXCEPT ![n] = [o EXCEPT !.rv = store[n].rv + 1]]

Removed(n) == [NoObject EXCEPT !.uid = store[n].uid]

\* The controller's copy is the version stored, so that its update is no conflict.
Current(n) == seen[n].live /\ seen[n].rv = store[n].rv

-----------------------------------------------------------------------------
(* Users and the cluster *)

\* The webhook comes with the operator; CRs may be older.
RegisterWebhook ==
    /\ ~webhook
    /\ webhook' = TRUE
    /\ UNCHANGED <<store, seen, saving, userWrites>>

CountWrite == userWrites < MaxUserWrites /\ userWrites' = userWrites + 1

\* Users may take the name of a child, too.
UserCreate(n, s) ==
    /\ ~store[n].live
    /\ ValidateCreate(s)
    /\ Store(n, NewObject(n, s))
    /\ CountWrite
    /\ UNCHANGED <<seen, saving, webhook>>

UserUpdate(n, s) ==
    /\ store[n].live
    /\ s # store[n].spec
    /\ ValidateUpdate(store[n].spec, s)
    /\ Store(n, [store[n] EXCEPT !.spec = s, !.vetted = @ \/ webhook])
    /\ CountWrite
    /\ UNCHANGED <<seen, saving, webhook>>

\* By a user or, for a child, the garbage collector.  ValidateDelete is a no-op.
Delete(n) ==
    /\ store[n].live
    /\ ~store[n].deleting
    /\ Store(n, IF store[n].finalizer THEN [store[n] EXCEPT !.deleting = TRUE]
                                      ELSE Removed(n))
    /\ CountWrite
    /\ UNCHANGED <<seen, saving, webhook>>

Sync(n) ==
    /\ seen[n] # store[n]
    /\ seen' = [seen EXCEPT ![n] = store[n]]
    /\ UNCHANGED <<store, saving, webhook, userWrites>>

-----------------------------------------------------------------------------
(* The controller *)

\* Update of a copy whose finalizers have changed.  The webhook sees an UPDATE
\* that leaves the spec alone.
AddFinalizer(n) ==
    /\ saving[n] = 0
    /\ Current(n)
    /\ ~seen[n].deleting /\ ~seen[n].finalizer
    /\ ValidateUpdate(store[n].spec, seen[n].spec)
    /\ Store(n, [seen[n] EXCEPT !.finalizer = TRUE, !.vetted = @ \/ webhook])
    /\ UNCHANGED <<seen, saving, webhook, userWrites>>

RemoveFinalizer(n) ==
    /\ saving[n] = 0
    /\ Current(n)
    /\ seen[n].deleting /\ seen[n].finalizer
    /\ ValidateUpdate(store[n].spec, seen[n].spec)
    /\ Store(n, Removed(n))
    /\ UNCHANGED <<seen, saving, webhook, userWrites>>

\* The outcome is reported on the status subresource, past the webhook.
ReportSuccess(n) ==
    /\ saving[n] = 0
    /\ Current(n)
    /\ ~seen[n].deleting /\ seen[n].finalizer /\ ~seen[n].succeeded
    /\ Store(n, [seen[n] EXCEPT !.succeeded = TRUE])
    /\ UNCHANGED <<seen, saving, webhook, userWrites>>

\* Whether Reconcile goes to reconcilePostDeployment with copy o: unlike the
\* webhook, it does not trim the name.
WantsChild(n, o) ==
    /\ n \in DOMAIN PostDeployName
    /\ o.live /\ ~o.deleting /\ o.finalizer
    /\ o.succeeded /\ ~o.chained
    /\ o.spec.postRepoName # << >>

ChildSpec(s) ==
    [repoName |-> s.postRepoName, release |-> s.postRelease,
     postRepoName |-> << >>, postRelease |-> << >>]

\* reconcilePostDeployment: first the child is created.
CreateChild(n) ==
    LET child == PostDeployName[n] IN
    /\ saving[n] = 0
    /\ WantsChild(n, seen[n])
    /\ ~store[child].live
    /\ ValidateCreate(ChildSpec(seen[n].spec))
    /\ Store(child, NewObject(child, ChildSpec(seen[n].spec)))
    /\ saving' = [saving EXCEPT ![n] = seen[n].rv]
    /\ UNCHANGED <<seen, webhook, userWrites>>

\* Then the message that says so is saved, unless the copy is outdated.
SaveMessage(n) ==
    /\ saving[n] # 0
    /\ IF store[n].live /\ store[n].rv = saving[n]
         THEN Store(n, [store[n] EXCEPT !.chained = TRUE])
         ELSE UNCHANGED store
    /\ saving' = [saving EXCEPT ![n] = 0]
    /\ UNCHANGED <<seen, webhook, userWrites>>

ControllerStep(n) ==
    \/ AddFinalizer(n) \/ RemoveFinalizer(n) \/ ReportSuccess(n)
    \/ CreateChild(n) \/ SaveMessage(n)

Next ==
    \/ RegisterWebhook
    \/ \E n \in Names :
          \/ \E s \in UserSpecs : UserCreate(n, s) \/ UserUpdate(n, s)
          \/ Delete(n) \/ Sync(n)
          \/ ControllerStep(n)

Spec == Init /\ [][Next]_vars

\* The controller retries and its cache follows; users and the outcome of a
\* deployment are free.
Fairness ==
    \A n \in Names :
        /\ WF_vars(Sync(n))
        /\ WF_vars(\/ AddFinalizer(n) \/ RemoveFinalizer(n)
                   \/ CreateChild(n) \/ SaveMessage(n))

FairSpec == Spec /\ Fairness

-----------------------------------------------------------------------------
(* Properties *)

TypeOK ==
    /\ store \in [Names -> Objects]
    /\ seen \in [Names -> Objects]
    /\ saving \in [Names -> Nat]
    /\ webhook \in BOOLEAN
    /\ userWrites \in Nat

\* Once the webhook has accepted a version of a Deployment, every version that
\* is stored, or cached by the controller, satisfies all of its rules: no
\* sequence of user edits and controller writes leads out of them.
StoredIsValid ==
    \A o \in {store[n] : n \in Names} \cup {seen[n] : n \in Names} :
        o.live /\ o.vetted => ValidSpec(o.spec)

\* What the controller deploys from its cached copy is what the stored CR
\* asks for, however old the copy: repoName and release never differ between
\* two versions of one incarnation that the webhook has accepted.
SourceAgrees ==
    \A n \in Names :
        /\ seen[n].live /\ seen[n].vetted
        /\ store[n].live /\ store[n].uid = seen[n].uid
        => /\ seen[n].spec.repoName = store[n].spec.repoName
           /\ seen[n].spec.release = store[n].spec.release

\* The child that the controller makes of an accepted parent is accepted in
\* its turn, provided that the name of its repository is more than spaces.
ChildAccepted ==
    \A n \in Names :
        WantsChild(n, seen[n]) /\ seen[n].vetted /\ ~Blank(seen[n].spec.postRepoName)
            => ValidateCreate(ChildSpec(seen[n].spec))

\* An update by which the controller registers or removes its finalizer writes
\* back a spec the webhook has accepted, and is never refused for that spec.
OwnUpdatesAccepted ==
    \A n \in Names :
        Current(n) /\ seen[n].vetted => ValidateUpdate(store[n].spec, seen[n].spec)

\* A version is known by its resource version.
Versions ==
    \A n \in Names :
        /\ seen[n].rv <= store[n].rv
        /\ seen[n].uid <= store[n].uid
        /\ seen[n].rv = store[n].rv => seen[n] = store[n]

OnlyWebhookVets ==
    \A n \in Names : store[n].vetted \/ seen[n].vetted => webhook

\* The inductive invariant.
IInv == TypeOK /\ Versions /\ OnlyWebhookVets /\ StoredIsValid /\ SourceAgrees

\* The webhook never locks the controller out of a Deployment it has accepted:
\* the finalizer is registered, and removed again after a deletion.
OwnUpdatesGetThrough ==
    \A n \in Names :
        /\ store[n].live /\ store[n].vetted ~> store[n].finalizer \/ ~store[n].live
        /\ store[n].deleting /\ store[n].vetted ~> ~store[n].live

\* A deployment that succeeded gets its post-deployment, or users have taken that
\* name, unless the parent is deleted or its postDeployment edited away.
ChildIsCreated ==
    \A n \in DOMAIN PostDeployName :
        LET o == store[n] IN
        o.live /\ o.vetted /\ o.succeeded
            ~> \/ store[PostDeployName[n]].uid > 0
               \/ store[n].deleting \/ ~store[n].live
               \/ Blank(store[n].spec.postRepoName)
=============================================================================
