---------------------------- MODULE UpdaterProofs ----------------------------
(***************************************************************************)
(* Theorems about Updater, for every value of its constants.               *)
(***************************************************************************)
EXTENDS Updater, TLAPS

USE ConstantsAssumption

------------------------------------------------------------------------------
(* Types *)

LEMMA Bounds == MaxPushes \in Nat /\ MaxEdits \in Nat /\ MaxRestarts \in Nat
BY DEF ConstantsAssumption

\* The empty values have the types of the values they stand for.
LEMMA EmptyValues ==
    /\ NoDigest \in MaybeDigest
    /\ NoDigests \in [Images -> MaybeDigest]
    /\ NoContainer \in Container
    /\ NoJob \in Job
    /\ NoVJob \in VJob
BY DEF MaybeDigest, NoDigests, NoContainer, Container, ContainerStates, NoJob, Job, NoVJob, VJob, Refs, NoRefs,
       Images

\* A caller that moves on with a job keeps the callers' types.
LEMMA GotoType ==
    ASSUME CallerOK, NEW c \in Callers, NEW label \in CallerPCs, NEW j \in Job, Goto(c, label, j)
    PROVE  CallerOK'
BY DEF CallerOK, Goto

LEMMA ReturnType ==
    ASSUME CallerOK, NEW c \in Callers, Return(c)
    PROVE  CallerOK'
BY EmptyValues, GotoType DEF Return, CallerPCs

LEMMA ReturnErrorType ==
    ASSUME CallerOK, NEW c \in Callers, NEW e \in Errors, errored \in Errors \union {"none"},
           ReturnError(c, e)
    PROVE  CallerOK' /\ errored' \in Errors \union {"none"}
BY ReturnType DEF ReturnError

LEMMA NextImageType ==
    ASSUME CallerOK, NEW c \in Callers, NEW j \in Job, errored \in Errors \union {"none"},
           NextImage(c, j)
    PROVE  CallerOK' /\ errored' \in Errors \union {"none"}
<1>1. CASE /\ j.img < NumImages
           /\ Goto(c, "fetch", [j EXCEPT !.img = @ + 1])
           /\ UNCHANGED errored
  <2>1. j.img \in 1 .. NumImages
    BY DEF Job, Images
  <2>2. j.img + 1 \in Images
    BY <1>1, <2>1 DEF Images
  <2>3. [j EXCEPT !.img = @ + 1] \in Job
    BY <2>2 DEF Job
  <2> QED BY <1>1, <2>3, GotoType DEF CallerPCs
<1>2. CASE Goto(c, "status", j) /\ UNCHANGED errored
  BY <1>2, GotoType DEF CallerPCs
<1>3. CASE Goto(c, "guard", j) /\ errored' = "none"
  BY <1>3, GotoType DEF CallerPCs
<1> QED BY <1>1, <1>2, <1>3 DEF NextImage

\* compose leaves the host in its type however far it got.
LEMMA ComposeType ==
    ASSUME HostOK, RegistryOK, NEW S \in SUBSET Images, NEW rest \in [Images -> Container],
           ComposeUp(S, rest) \/ ComposePull(S)
    PROVE  HostOK'
<1> USE DEF HostOK, RegistryOK, MaybeDigest
<1>1. \A i \in Images : ImageFor(i) \in MaybeDigest
  BY DEF ImageFor
<1>2. CASE ComposeUp(S, rest)
  <2>1. \A i \in Images : [digest |-> ImageFor(i), state |-> "running"] \in Container
    BY <1>1 DEF Container, ContainerStates
  <2> QED BY <1>1, <1>2, <2>1 DEF ComposeUp
<1>3. CASE ComposePull(S)
  BY <1>3 DEF ComposePull
<1> QED BY <1>2, <1>3

\* A verifier is started with the digests of its caller.
LEMMA VerifyType ==
    ASSUME VerifierOK, CallerOK, NEW c \in Callers, NEW kind \in {"deploy", "compose"}, Verify(c, kind)
    PROVE  VerifierOK'
BY DEF VerifierOK, CallerOK, Verify, VerifierPCs, VJob, Job

LEMMA VGotoType ==
    ASSUME VerifierOK, NEW v \in Verifiers, NEW label \in VerifierPCs, VGoto(v, label)
    PROVE  VerifierOK'
BY DEF VerifierOK, VGoto

LEMMA VReturnType ==
    ASSUME VerifierOK, NEW v \in Verifiers, VReturn(v)
    PROVE  VerifierOK' /\ deploying' \in BOOLEAN
BY EmptyValues DEF VerifierOK, VReturn, VerifierPCs, ClearDeploying

LEMMA InitType == Init => TypeOK
<1> SUFFICES ASSUME Init PROVE TypeOK
  OBVIOUS
<1> USE EmptyValues DEF Init, FreshProcess
<1>1. RegistryOK
  BY Bounds DEF RegistryOK
<1>2. HostOK
  <2>1. tag \in [Images -> MaybeDigest]
    <3>1. CASE tag = remote
      BY <3>1 DEF MaybeDigest
    <3>2. CASE tag = NoDigests
      BY <3>2
    <3> QED BY <3>1, <3>2
  <2>2. container \in [Images -> Container]
    <3>1. CASE container = [i \in Images |-> [digest |-> remote[i], state |-> "running"]]
      BY <3>1 DEF MaybeDigest, Container, ContainerStates
    <3>2. CASE container = [i \in Images |-> NoContainer]
      BY <3>2
    <3> QED BY <3>1, <3>2
  <2>3. rbTag \in [Images -> MaybeDigest]
    OBVIOUS
  <2> QED BY <2>1, <2>2, <2>3 DEF HostOK
<1>3. PollOK
  BY DEF PollOK
<1>4. DriftOK /\ ProcessOK
  <2>1. DriftOK /\ restarts \in 0 .. MaxRestarts
    BY Bounds DEF DriftOK
  <2>2. deploying \in BOOLEAN /\ cancelled \in BOOLEAN
    OBVIOUS
  <2> QED BY <2>1, <2>2 DEF ProcessOK
<1>5. CallerOK /\ VerifierOK
  BY DEF CallerOK, VerifierOK, CallerPCs, VerifierPCs
<1> QED BY <1>1, <1>2, <1>3, <1>4, <1>5 DEF TypeOK

\* What another service spoils is a history of the right type.
LEMMA SpoilType ==
    ASSUME CallerOK, VerifierOK, NEW r \in Images, UNCHANGED <<pc, vpc>>,
           job' = [c \in Callers |-> [job[c] EXCEPT !.old = Unsaved(@, r)]],
           vjob' = [v \in Verifiers |-> [vjob[v] EXCEPT !.old = Unsaved(@, r)]]
    PROVE  CallerOK' /\ VerifierOK'
<1>1. \A old \in [Images -> MaybeDigest] : Unsaved(old, r) \in [Images -> MaybeDigest]
  BY EmptyValues DEF Unsaved
<1>2. \A c \in Callers : [job[c] EXCEPT !.old = Unsaved(@, r)] \in Job
  BY <1>1 DEF CallerOK, Job
<1>3. \A v \in Verifiers : [vjob[v] EXCEPT !.old = Unsaved(@, r)] \in VJob
  BY <1>1 DEF VerifierOK, VJob
<1> QED BY <1>2, <1>3 DEF CallerOK, VerifierOK

\* The steps of the environment, one group of variables at a time.
LEMMA EnvironmentType == TypeOK /\ Environment => TypeOK'
<1> SUFFICES ASSUME TypeOK, Environment PROVE TypeOK'
  OBVIOUS
<1> USE DEF TypeOK, registryVars, hostVars, pollVars, driftVars, processVars, callerVars, verifierVars
<1>1. ASSUME NEW i \in Images, Push(i) PROVE TypeOK'
  <2>1. RegistryOK'
    BY <1>1, Bounds DEF Push, RegistryOK
  <2> QED BY <1>1, <2>1 DEF Push, HostOK, PollOK, DriftOK, ProcessOK, CallerOK, VerifierOK
<1>2. ASSUME NEW i \in Images, ContainerStops(i) PROVE TypeOK'
  <2>1. HostOK'
    BY <1>2 DEF ContainerStops, HostOK, Container, ContainerStates
  <2> QED BY <1>2, <2>1 DEF ContainerStops, RegistryOK, PollOK, DriftOK, ProcessOK, CallerOK, VerifierOK
<1>3. CASE EditSpec
  <2>1. DriftOK'
    BY <1>3, Bounds DEF EditSpec, DriftOK
  <2> QED BY <1>3, <2>1 DEF EditSpec, RegistryOK, HostOK, PollOK, ProcessOK, CallerOK, VerifierOK
<1>4. CASE ProjectDown
  <2>1. HostOK'
    BY <1>4, EmptyValues DEF ProjectDown, HostOK
  <2> QED BY <1>4, <2>1 DEF ProjectDown, RegistryOK, PollOK, DriftOK, ProcessOK, CallerOK, VerifierOK
<1>5. CASE UnblockService
  <2>1. PollOK'
    BY <1>5, EmptyValues DEF UnblockService, PollOK
  <2> QED BY <1>5, <2>1 DEF UnblockService, RegistryOK, HostOK, DriftOK, ProcessOK, CallerOK, VerifierOK
<1>6. CASE Cancel
  BY <1>6 DEF Cancel, RegistryOK, HostOK, PollOK, DriftOK, ProcessOK, CallerOK, VerifierOK
<1>7. CASE Restart
  <2>1. RegistryOK' /\ HostOK'
    BY <1>7 DEF Restart, RegistryOK, HostOK
  <2>2. PollOK'
    BY <1>7, EmptyValues DEF Restart, PollOK
  <2>3. DriftOK' /\ ProcessOK'
    <3>1. DriftOK' /\ restarts' \in 0 .. MaxRestarts
      BY <1>7, Bounds DEF Restart, DriftOK, ProcessOK
    <3>2. deploying' \in BOOLEAN /\ cancelled' \in BOOLEAN
      BY <1>7 DEF Restart
    <3> QED BY <3>1, <3>2 DEF ProcessOK
  <2>4. CallerOK' /\ VerifierOK'
    BY <1>7, EmptyValues DEF Restart, CallerOK, VerifierOK, CallerPCs, VerifierPCs
  <2> QED BY <2>1, <2>2, <2>3, <2>4
<1>8. ASSUME NEW r \in Images, OtherService(r) PROVE TypeOK'
  <2>1. HostOK'
    <3>1. rbTag' \in [Images -> MaybeDigest]
      BY <1>8 DEF OtherService, HostOK
    <3>2. tag' \in [Images -> MaybeDigest]
      BY <1>8 DEF OtherService, HostOK, RegistryOK, MaybeDigest
    <3> QED BY <1>8, <3>1, <3>2 DEF OtherService, HostOK
  <2>2. CallerOK' /\ VerifierOK'
    BY <1>8, SpoilType DEF OtherService
  <2> QED BY <1>8, <2>1, <2>2 DEF OtherService, RegistryOK, PollOK, DriftOK, ProcessOK
<1> QED BY <1>1, <1>2, <1>3, <1>4, <1>5, <1>6, <1>7, <1>8 DEF Environment

\* The steps of a check, which touch the maps of the poll and the callers.
LEMMA CheckType == TypeOK /\ (\E c \in Callers : Check(c)) => TypeOK'
<1> SUFFICES ASSUME TypeOK, NEW c \in Callers, Check(c) PROVE TypeOK'
  OBVIOUS
<1> USE DEF TypeOK, registryVars, hostVars, pollVars, driftVars, processVars, callerVars, verifierVars
<1>a. job[c] \in Job /\ job[c].img \in Images /\ errored \in Errors \union {"none"}
  BY DEF CallerOK, PollOK, Job
<1>b. \A d \in MaybeDigest : [job[c] EXCEPT !.seen = d] \in Job
  BY <1>a DEF Job
<1>1. CASE FetchFails(c)
  <2>1. CallerOK' /\ errored' \in Errors \union {"none"}
    BY <1>1, <1>a, ReturnErrorType DEF FetchFails, Errors
  <2> QED BY <1>1, <2>1 DEF FetchFails, RegistryOK, HostOK, PollOK, DriftOK, ProcessOK, VerifierOK
<1>2. CASE FetchAnswers(c)
  <2>1. remote[job[c].img] \in MaybeDigest
    BY <1>a DEF RegistryOK, MaybeDigest
  <2>2. CallerOK'
    BY <1>2, <1>b, <2>1, GotoType DEF FetchAnswers, CallerPCs
  <2> QED BY <1>2, <2>2 DEF FetchAnswers, RegistryOK, HostOK, PollOK, DriftOK, ProcessOK, VerifierOK
<1>3. CASE CheckBlocked(c)
  <2>1. CallerOK' /\ errored' \in Errors \union {"none"}
    BY <1>3, <1>a, <1>b, EmptyValues, NextImageType DEF CheckBlocked
  <2> QED BY <1>3, <2>1 DEF CheckBlocked, RegistryOK, HostOK, PollOK, DriftOK, ProcessOK, VerifierOK
<1>c. ASSUME ClearBlock(job[c].img)
      PROVE  blocked' \in [Images -> MaybeDigest] /\ blockedGauge' \in BOOLEAN
  <2>1. blocked' \in [Images -> MaybeDigest]
    BY <1>c, <1>a, EmptyValues DEF ClearBlock, PollOK
  <2>2. blockedGauge' \in BOOLEAN
    BY <1>c DEF ClearBlock, PollOK
  <2> QED BY <2>1, <2>2
<1>4. CASE CheckNotFound(c)
  <2>1. CallerOK' /\ errored' \in Errors \union {"none"}
    BY <1>4, <1>a, <1>b, EmptyValues, NextImageType DEF CheckNotFound
  <2> QED BY <1>4, <1>c, <2>1
          DEF CheckNotFound, RegistryOK, HostOK, PollOK, DriftOK, ProcessOK, VerifierOK
<1>5. CASE CheckCandidate(c)
  <2>1. CallerOK'
    BY <1>5, <1>a, GotoType DEF CheckCandidate, CallerPCs
  <2>2. notFound' \in [Images -> MaybeDigest]
    BY <1>5, <1>a, EmptyValues DEF CheckCandidate, PollOK
  <2> QED BY <1>5, <1>c, <2>1, <2>2
          DEF CheckCandidate, RegistryOK, HostOK, PollOK, DriftOK, ProcessOK, VerifierOK
<1>6. CASE ResolveMissing(c)
  <2>1. CallerOK' /\ errored' \in Errors \union {"none"}
    BY <1>6, <1>a, <1>b, EmptyValues, NextImageType DEF ResolveMissing
  <2>2. notFound' \in [Images -> MaybeDigest]
    BY <1>6, <1>a DEF ResolveMissing, PollOK, Job
  <2> QED BY <1>6, <2>1, <2>2
          DEF ResolveMissing, RegistryOK, HostOK, PollOK, DriftOK, ProcessOK, VerifierOK
<1>7. CASE ResolveSame(c)
  <2>1. [job[c] EXCEPT !.seen = NoDigest, !.rep = IF @ = NoDigest THEN job[c].seen ELSE @] \in Job
    BY <1>a, EmptyValues DEF Job
  <2>2. CallerOK' /\ errored' \in Errors \union {"none"}
    BY <1>7, <1>a, <2>1, NextImageType DEF ResolveSame
  <2> QED BY <1>7, <2>2 DEF ResolveSame, RegistryOK, HostOK, PollOK, DriftOK, ProcessOK, VerifierOK
<1>8. CASE ResolveChanged(c)
  <2>1. [job[c] EXCEPT !.seen = NoDigest, !.new[job[c].img] = job[c].seen] \in Job
    BY <1>a, EmptyValues DEF Job
  <2>2. CallerOK' /\ errored' \in Errors \union {"none"}
    BY <1>8, <1>a, <2>1, NextImageType DEF ResolveChanged
  <2> QED BY <1>8, <2>2 DEF ResolveChanged, RegistryOK, HostOK, PollOK, DriftOK, ProcessOK, VerifierOK
<1>9. CASE StatusRunning(c)
  <2>1. CallerOK'
    BY <1>9, ReturnType DEF StatusRunning
  <2> QED BY <1>9, <2>1, EmptyValues
          DEF StatusRunning, RegistryOK, HostOK, PollOK, DriftOK, ProcessOK, VerifierOK
<1>10. CASE StatusDown(c)
  <2>1. CallerOK'
    BY <1>10, ReturnType DEF StatusDown
  <2> QED BY <1>10, <2>1 DEF StatusDown, RegistryOK, HostOK, PollOK, DriftOK, ProcessOK, VerifierOK
<1>11. CASE StartSuppressed(c)
  <2>1. CallerOK'
    BY <1>11, ReturnType DEF StartSuppressed
  <2> QED BY <1>11, <2>1 DEF StartSuppressed, RegistryOK, HostOK, PollOK, DriftOK, ProcessOK, VerifierOK
<1>12. CASE AutoStarts(c)
  <2>1. \A b \in BOOLEAN : [job[c] EXCEPT !.stuck = b] \in Job
    BY <1>a DEF Job
  <2>2. CallerOK'
    BY <1>12, <2>1, GotoType DEF AutoStarts, CallerPCs
  <2>3. PollOK'
    BY <1>12, <1>a DEF AutoStarts, PollOK, Job
  <2> QED BY <1>12, <2>2, <2>3
          DEF AutoStarts, MarkDeploying, RegistryOK, HostOK, DriftOK, ProcessOK, VerifierOK
<1> QED BY <1>1, <1>2, <1>3, <1>4, <1>5, <1>6, <1>7, <1>8, <1>9, <1>10, <1>11, <1>12 DEF Check

LEMMA TagRollbackSplit ==
    ASSUME NEW c \in Callers, TagRollback(c)
    PROVE  \E N \in SUBSET {i \in Images : \E k \in Images : IsSource(k, Repo[i])}, S \in SUBSET Images :
             S \subseteq N /\ TagImages(c, N, S)
<1> DEFINE found == {i \in Changed(job[c]) : \E k \in Images : IsSource(k, Repo[i])}
<1>1. PICK N \in SUBSET found : \E S \in SUBSET N : TagImages(c, N, S)
  BY DEF TagRollback
<1>2. found \subseteq {i \in Images : \E k \in Images : IsSource(k, Repo[i])} /\ found \subseteq Images
  BY DEF Changed
<1> HIDE DEF found
<1> QED BY <1>1, <1>2

\* The container deploy takes for a repository is one of its containers.
LEMMA SourceExists ==
    ASSUME NEW r, \E k \in Images : IsSource(k, r)
    PROVE  Source(r) \in Images /\ IsSource(Source(r), r)
BY DEF Source

\* The steps of a deploy.
LEMMA DeployType == TypeOK /\ (\E c \in Callers : Deploy(c)) => TypeOK'
<1> SUFFICES ASSUME TypeOK, NEW c \in Callers, Deploy(c) PROVE TypeOK'
  OBVIOUS
<1> USE DEF TypeOK, registryVars, hostVars, pollVars, driftVars, processVars, callerVars, verifierVars
<1>a. job[c] \in Job /\ errored \in Errors \union {"none"} /\ container \in [Images -> Container]
  BY DEF CallerOK, PollOK, HostOK
<1>b. ASSUME NEW e \in Errors, AbortDeploy(c, e)
      PROVE  CallerOK' /\ errored' \in Errors \union {"none"} /\ deploying' \in BOOLEAN
  BY <1>a, <1>b, ReturnErrorType DEF AbortDeploy, ClearDeploying
<1>1. CASE DeployCancelled(c)
  <2>1. CallerOK' /\ errored' \in Errors \union {"none"}
    BY <1>1, <1>a, ReturnErrorType DEF DeployCancelled, Errors
  <2> QED BY <1>1, <2>1 DEF DeployCancelled, RegistryOK, HostOK, PollOK, DriftOK, ProcessOK, VerifierOK
<1>2. CASE DeploySkipped(c)
  <2>1. CallerOK'
    BY <1>2, ReturnType DEF DeploySkipped
  <2> QED BY <1>2, <2>1 DEF DeploySkipped, RegistryOK, HostOK, PollOK, DriftOK, ProcessOK, VerifierOK
<1>3. CASE DeployBegins(c)
  <2>1. CallerOK'
    BY <1>3, <1>a, GotoType DEF DeployBegins, CallerPCs
  <2> QED BY <1>3, <2>1
          DEF DeployBegins, TryStartDeploy, RegistryOK, HostOK, PollOK, DriftOK, ProcessOK, VerifierOK
<1>4. CASE TagRollback(c)
  <2>0. \A i \in Images : container[i].digest \in MaybeDigest
    BY <1>a DEF Container
  <2>1. PICK N \in SUBSET {i \in Images : \E k \in Images : IsSource(k, Repo[i])}, S \in SUBSET Images :
          S \subseteq N /\ TagImages(c, N, S)
    BY <1>4, TagRollbackSplit
  <2>2. \A i \in N : Source(Repo[i]) \in Images
    BY SourceExists
  <2>3. [i \in Images |-> IF i \in N THEN Source(Repo[i]) ELSE 0] \in Refs
    BY <2>2 DEF Refs, Images
  <2>4. [i \in Images |-> IF i \in S /\ Source(Repo[i]) = i THEN container[i].digest ELSE NoDigest]
          \in [Images -> MaybeDigest]
    BY <2>0, EmptyValues
  <2>5. [job[c] EXCEPT
           !.ref = [i \in Images |-> IF i \in N THEN Source(Repo[i]) ELSE 0],
           !.old = [i \in Images |-> IF i \in S /\ Source(Repo[i]) = i
                                     THEN container[i].digest ELSE NoDigest]] \in Job
    BY <1>a, <2>3, <2>4 DEF Job
  <2>6. CallerOK'
    BY <2>1, <2>5, GotoType DEF TagImages, CallerPCs
  <2>7. rbTag' \in [Images -> MaybeDigest]
    <3>1. ASSUME NEW r \in Images, NEW i \in S, Repo[i] = r
          PROVE  container[Source(r)].digest \in MaybeDigest
      <4>1. i \in N
        BY <2>1
      <4> QED BY <2>0, <2>2, <3>1, <4>1
    <3> QED BY <2>1, <3>1 DEF TagImages, HostOK
  <2>8. HostOK'
    BY <1>4, <2>7 DEF TagRollback, HostOK
  <2> QED BY <1>4, <2>6, <2>8 DEF TagRollback, RegistryOK, PollOK, DriftOK, ProcessOK, VerifierOK
<1>5. CASE Pull(c)
  <2>1. HostOK'
    BY <1>5, <1>a, ComposeType DEF Pull
  <2>2. CallerOK'
    BY <1>5, <1>a, GotoType DEF Pull, CallerPCs
  <2> QED BY <1>5, <2>1, <2>2 DEF Pull, RegistryOK, PollOK, DriftOK, ProcessOK, VerifierOK
<1>6. CASE PullFails(c)
  <2>1. HostOK'
    BY <1>6, <1>a, ComposeType DEF PullFails
  <2>2. CallerOK' /\ errored' \in Errors \union {"none"} /\ deploying' \in BOOLEAN
    BY <1>6, <1>b DEF PullFails, Errors
  <2> QED BY <1>6, <2>1, <2>2 DEF PullFails, RegistryOK, PollOK, DriftOK, ProcessOK, VerifierOK
<1>7. CASE Up(c)
  <2>1. HostOK'
    BY <1>7, <1>a, ComposeType DEF Up
  <2>2. CallerOK' /\ VerifierOK'
    BY <1>7, ReturnType, VerifyType DEF Up
  <2> QED BY <1>7, <2>1, <2>2 DEF Up, RegistryOK, PollOK, DriftOK, ProcessOK
<1>8. CASE UpFails(c)
  <2>1. HostOK'
    BY <1>8, <1>a, ComposeType DEF UpFails
  <2>2. CallerOK' /\ errored' \in Errors \union {"none"} /\ deploying' \in BOOLEAN
    BY <1>8, <1>b DEF UpFails, Errors
  <2> QED BY <1>8, <2>1, <2>2 DEF UpFails, RegistryOK, PollOK, DriftOK, ProcessOK, VerifierOK
<1> QED BY <1>1, <1>2, <1>3, <1>4, <1>5, <1>6, <1>7, <1>8 DEF Deploy

\* The steps of a drift check, and of the compose calls outside a deploy.
LEMMA RecomposeType == TypeOK /\ (\E c \in Callers : Compose(c)) => TypeOK'
<1> SUFFICES ASSUME TypeOK, NEW c \in Callers, Compose(c) PROVE TypeOK'
  OBVIOUS
<1> USE DEF TypeOK, registryVars, hostVars, pollVars, driftVars, processVars, callerVars, verifierVars
<1>a. errored \in Errors \union {"none"} /\ container \in [Images -> Container]
  BY DEF PollOK, HostOK
<1>1. CASE DriftNone(c)
  <2>1. CallerOK'
    BY <1>1, EmptyValues, GotoType DEF DriftNone, CallerPCs
  <2>2. DriftOK'
    BY <1>1, Bounds DEF DriftNone, DriftOK
  <2> QED BY <1>1, <2>1, <2>2 DEF DriftNone, RegistryOK, HostOK, PollOK, ProcessOK, VerifierOK
<1>2. CASE DriftFound(c)
  <2>1. CallerOK'
    BY <1>2, EmptyValues, GotoType DEF DriftFound, CallerPCs
  <2>2. DriftOK'
    BY <1>2, Bounds DEF DriftFound, DriftOK
  <2> QED BY <1>2, <2>1, <2>2
          DEF DriftFound, MarkDeploying, RegistryOK, HostOK, PollOK, ProcessOK, VerifierOK
<1>3. CASE Recompose(c)
  <2>1. HostOK'
    BY <1>3, <1>a, ComposeType DEF Recompose
  <2>2. CallerOK'
    BY <1>3, EmptyValues, GotoType, ReturnType DEF Recompose, CallerPCs
  <2>3. VerifierOK'
    BY <1>3, VerifyType DEF Recompose
  <2>4. errored' \in Errors \union {"none"}
    BY <1>3, <1>a DEF Recompose
  <2> QED BY <1>3, <2>1, <2>2, <2>3, <2>4 DEF Recompose, RegistryOK, PollOK, DriftOK, ProcessOK
<1>4. CASE RecomposeFails(c)
  <2>1. HostOK'
    <3>1. PICK S \in SUBSET Images, D \in SUBSET Images :
            ComposeUp(S, [i \in Images |-> IF i \in D THEN NoContainer ELSE container[i]])
      BY <1>4 DEF RecomposeFails
    <3>2. [i \in Images |-> IF i \in D THEN NoContainer ELSE container[i]] \in [Images -> Container]
      BY <1>a, EmptyValues
    <3> QED BY <3>1, <3>2, ComposeType
  <2>2. CallerOK' /\ errored' \in Errors \union {"none"}
    BY <1>4, <1>a, EmptyValues, GotoType, ReturnErrorType DEF RecomposeFails, CallerPCs, Errors
  <2> QED BY <1>4, <2>1, <2>2
          DEF RecomposeFails, ClearDeploying, RegistryOK, PollOK, DriftOK, ProcessOK, VerifierOK
<1> QED BY <1>1, <1>2, <1>3, <1>4 DEF Compose

\* rollback retags some images and goes on with their history, or returns.
LEMMA RetagSplit ==
    ASSUME NEW v \in Verifiers, Retag(v), vjob[v] \in VJob
    PROVE  \E T \in SUBSET Images : RetagImages(T) /\ (GoOn(v, T) \/ VReturn(v))
<1> DEFINE Retagged(S, R) == (S \ Aliased) \union {vjob[v].ref[i] : i \in R}
           tagged == {i \in Changed(vjob[v]) : rbTag[Repo[i]] # NoDigest}
           referred == {i \in tagged : vjob[v].ref[i] # 0 /\ (vjob[v].ref[i] # i \/ i \in Aliased)}
<1>1. PICK S \in SUBSET tagged, R \in SUBSET referred :
        RetagImages(Retagged(S, R)) /\ AfterRetag(v, S = Changed(vjob[v]), Retagged(S, R))
  BY DEF Retag
<1>2. Retagged(S, R) \in SUBSET Images
  <2>1. S \subseteq Images /\ R \subseteq Images /\ \A i \in R : vjob[v].ref[i] # 0
    BY DEF Changed
  <2>2. vjob[v].ref \in [Images -> 0 .. NumImages]
    BY DEF VJob, Refs
  <2> HIDE DEF tagged, referred
  <2>3. ASSUME NEW i \in R PROVE vjob[v].ref[i] \in Images
    <3>1. vjob[v].ref[i] \in 0 .. NumImages /\ vjob[v].ref[i] # 0
      BY <2>1, <2>2
    <3> QED BY <3>1 DEF Images
  <2> QED BY <2>1, <2>3
<1>3. GoOn(v, Retagged(S, R)) \/ VReturn(v)
  BY <1>1 DEF AfterRetag
<1> HIDE DEF Retagged
<1> QED BY <1>1, <1>2, <1>3

LEMMA VerifierType == TypeOK /\ (\E v \in Verifiers : VerifierStep(v)) => TypeOK'
<1> SUFFICES ASSUME TypeOK, NEW v \in Verifiers, VerifierStep(v) PROVE TypeOK'
  OBVIOUS
<1> USE DEF TypeOK, registryVars, hostVars, pollVars, driftVars, processVars, callerVars, verifierVars
<1>a. vjob[v] \in VJob /\ container \in [Images -> Container]
  BY DEF VerifierOK, HostOK
<1>1. CASE VerifyHealthy(v)
  <2>1. VerifierOK' /\ deploying' \in BOOLEAN
    BY <1>1, VGotoType, VReturnType DEF VerifyHealthy, VerifierPCs, ProcessOK
  <2> QED BY <1>1, <2>1 DEF VerifyHealthy, RegistryOK, HostOK, PollOK, DriftOK, ProcessOK, CallerOK
<1>2. CASE VerifyGivesUp(v)
  <2>1. VerifierOK' /\ deploying' \in BOOLEAN
    BY <1>2, VGotoType, VReturnType DEF VerifyGivesUp, VerifierPCs, ProcessOK
  <2>2. blocked' \in [Images -> MaybeDigest]
    BY <1>2, <1>a DEF VerifyGivesUp, BlockDigests, VJob, PollOK
  <2>3. blockedGauge' \in BOOLEAN
    BY <1>2 DEF VerifyGivesUp, PollOK
  <2> QED BY <1>2, <2>1, <2>2, <2>3 DEF VerifyGivesUp, RegistryOK, HostOK, PollOK, DriftOK, ProcessOK, CallerOK
<1>3. CASE VerifyCancelled(v)
  <2>1. VerifierOK' /\ deploying' \in BOOLEAN
    BY <1>3, VReturnType DEF VerifyCancelled
  <2> QED BY <1>3, <2>1 DEF VerifyCancelled, RegistryOK, HostOK, PollOK, DriftOK, ProcessOK, CallerOK
<1>4. CASE Retag(v)
  <2>1. PICK T \in SUBSET Images : RetagImages(T) /\ (GoOn(v, T) \/ VReturn(v))
    BY <1>4, <1>a, RetagSplit
  <2>2. HostOK'
    <3>1. \A i \in Images : rbTag[Repo[i]] \in MaybeDigest
      BY DEF HostOK, Images
    <3> QED BY <1>4, <2>1, <3>1 DEF Retag, RetagImages, HostOK
  <2>3. [i \in Images |-> IF i \in T THEN vjob[v].old[i] ELSE NoDigest] \in [Images -> MaybeDigest]
    BY <1>a, EmptyValues DEF VJob
  <2>4. ASSUME GoOn(v, T)
        PROVE  VerifierOK' /\ deploying' \in BOOLEAN
    <3>1. [vjob[v] EXCEPT !.old = [i \in Images |-> IF i \in T THEN vjob[v].old[i] ELSE NoDigest]] \in VJob
      BY <1>a, <2>3 DEF VJob
    <3> QED BY <2>4, <3>1 DEF GoOn, VerifierOK, VerifierPCs, ProcessOK
  <2>5. VerifierOK' /\ deploying' \in BOOLEAN
    BY <2>1, <2>4, VReturnType
  <2> QED BY <1>4, <2>2, <2>5 DEF Retag, RegistryOK, PollOK, DriftOK, ProcessOK, CallerOK
<1>5. CASE RollbackUp(v)
  <2>1. VerifierOK'
    BY <1>5, VGotoType DEF RollbackUp, VerifierPCs
  <2>2. HostOK'
    BY <1>5, <1>a, ComposeType DEF RollbackUp
  <2> QED BY <1>5, <2>1, <2>2 DEF RollbackUp, RegistryOK, PollOK, DriftOK, ProcessOK, CallerOK
<1>6. CASE RollbackUpFails(v)
  <2>1. VerifierOK' /\ deploying' \in BOOLEAN
    BY <1>6, VReturnType DEF RollbackUpFails
  <2>2. HostOK'
    BY <1>6, <1>a, ComposeType DEF RollbackUpFails
  <2> QED BY <1>6, <2>1, <2>2 DEF RollbackUpFails, RegistryOK, PollOK, DriftOK, ProcessOK, CallerOK
<1>7. CASE CleanupRollbacks(v)
  <2>1. VerifierOK' /\ deploying' \in BOOLEAN
    BY <1>7, VReturnType DEF CleanupRollbacks
  <2>2. HostOK'
    BY <1>7, EmptyValues DEF CleanupRollbacks, HostOK, MaybeDigest
  <2> QED BY <1>7, <2>1, <2>2 DEF CleanupRollbacks, RegistryOK, PollOK, DriftOK, ProcessOK, CallerOK
<1> QED BY <1>1, <1>2, <1>3, <1>4, <1>5, <1>6, <1>7 DEF VerifierStep

LEMMA StartType ==
    TypeOK /\ (StartPoll \/ \E c \in Triggers : StartTrigger(c) \/ StartForce(c)) => TypeOK'
<1> SUFFICES ASSUME TypeOK, StartPoll \/ \E c \in Triggers : StartTrigger(c) \/ StartForce(c)
             PROVE  TypeOK'
  OBVIOUS
<1> USE DEF TypeOK, registryVars, hostVars, pollVars, driftVars, processVars, callerVars, verifierVars
<1>a. \A k \in {"poll", "manual"} : [NoJob EXCEPT !.kind = k] \in Job
  BY EmptyValues DEF Job
<1>1. CASE StartPoll
  <2>1. CallerOK'
    BY <1>1, <1>a, GotoType DEF StartPoll, CallerPCs, Callers
  <2> QED BY <1>1, <2>1 DEF StartPoll, RegistryOK, HostOK, PollOK, DriftOK, ProcessOK, VerifierOK
<1>2. ASSUME NEW c \in Triggers, StartTrigger(c) PROVE TypeOK'
  <2>1. CallerOK'
    BY <1>2, <1>a, GotoType DEF StartTrigger, CallerPCs, Callers
  <2> QED BY <1>2, <2>1 DEF StartTrigger, RegistryOK, HostOK, PollOK, DriftOK, ProcessOK, VerifierOK
<1>3. ASSUME NEW c \in Triggers, StartForce(c) PROVE TypeOK'
  <2>1. CallerOK'
    BY <1>3, EmptyValues, GotoType DEF StartForce, CallerPCs, Callers
  <2> QED BY <1>3, <2>1
          DEF StartForce, MarkDeploying, RegistryOK, HostOK, PollOK, DriftOK, ProcessOK, VerifierOK
<1> QED BY <1>1, <1>2, <1>3

\* A step that changes nothing.
LEMMA StutterType == TypeOK /\ UNCHANGED vars => TypeOK'
BY DEF TypeOK, RegistryOK, HostOK, PollOK, DriftOK, ProcessOK, CallerOK, VerifierOK, vars, registryVars,
       hostVars, pollVars, driftVars, processVars, callerVars, verifierVars

\* Every variable of the updater stays in its range, for any number of images,
\* digests, HTTP requests and verifiers and any faults.
THEOREM TypeCorrect == Spec => []TypeOK
<1>1. TypeOK /\ [Next]_vars => TypeOK'
  BY EnvironmentType, CheckType, DeployType, RecomposeType, VerifierType, StartType, StutterType
     DEF Next, CallerStep
<1> QED BY InitType, <1>1, PTL DEF Spec

------------------------------------------------------------------------------
(* Steps outside the operations *)

\* A step that starts, ends and advances no operation: it leaves the guard, the
\* images, the verifiers and the operating callers alone, and adds no container.
Quiet ==
    /\ UNCHANGED <<tag, rbTag, deploying, vpc, vjob>>
    /\ Running' \in {Running, NoDigests}
    /\ \A d \in Callers : Operating(d)' <=> Operating(d)
    /\ \A d \in Callers : Operating(d) => pc'[d] = pc[d] /\ job'[d] = job[d]

LEMMA QuietGoto ==
    ASSUME CallerOK, NEW c \in Callers, NEW label, NEW j, ~Operating(c), Goto(c, label, j),
           label \notin {"tag", "pull", "up", "start", "driftUp", "forceUp"},
           UNCHANGED <<hostVars, deploying, verifierVars>>
    PROVE  Quiet
BY DEF CallerOK, Goto, Operating, Quiet, Running, hostVars, verifierVars

LEMMA QuietReturn ==
    ASSUME CallerOK, NEW c \in Callers, ~Operating(c), Return(c),
           UNCHANGED <<hostVars, deploying, verifierVars>>
    PROVE  Quiet
BY QuietGoto DEF Return

LEMMA QuietNextImage ==
    ASSUME CallerOK, NEW c \in Callers, NEW j, ~Operating(c), NextImage(c, j),
           UNCHANGED <<hostVars, deploying, verifierVars>>
    PROVE  Quiet
BY QuietGoto DEF NextImage

\* A check that does not end in an auto start.
LEMMA QuietCheck ==
    ASSUME CallerOK, NEW c \in Callers, Check(c), ~AutoStarts(c)
    PROVE  Quiet
<1>1. CASE FetchFails(c)
  BY <1>1, QuietReturn DEF FetchFails, ReturnError, Operating
<1>2. CASE FetchAnswers(c)
  BY <1>2, QuietGoto DEF FetchAnswers, Operating
<1>3. CASE CheckBlocked(c)
  BY <1>3, QuietNextImage DEF CheckBlocked, Operating
<1>4. CASE CheckNotFound(c)
  BY <1>4, QuietNextImage DEF CheckNotFound, Operating
<1>5. CASE CheckCandidate(c)
  BY <1>5, QuietGoto DEF CheckCandidate, Operating
<1>6. CASE ResolveMissing(c)
  BY <1>6, QuietNextImage DEF ResolveMissing, Operating
<1>7. CASE ResolveSame(c)
  BY <1>7, QuietNextImage DEF ResolveSame, Operating
<1>8. CASE ResolveChanged(c)
  BY <1>8, QuietNextImage DEF ResolveChanged, Operating
<1>9. CASE StatusRunning(c)
  BY <1>9, QuietReturn DEF StatusRunning, Operating
<1>10. CASE StatusDown(c)
  BY <1>10, QuietReturn DEF StatusDown, Operating
<1>11. CASE StartSuppressed(c)
  BY <1>11, QuietReturn DEF StartSuppressed, Operating
<1> QED BY <1>1, <1>2, <1>3, <1>4, <1>5, <1>6, <1>7, <1>8, <1>9, <1>10, <1>11 DEF Check

\* The environment, short of a restart of the process and of other services.
LEMMA QuietEnvironment ==
    ASSUME TypeOK, Environment, ~Restart, \A r \in Images : ~OtherService(r)
    PROVE  Quiet
<1> USE DEF Quiet, hostVars, callerVars, verifierVars, Operating, Running
<1>1. ASSUME NEW i \in Images, Push(i) PROVE Quiet
  BY <1>1 DEF Push
<1>2. ASSUME NEW i \in Images, ContainerStops(i) PROVE Quiet
  <2>1. \A j \in Images : container'[j].digest = container[j].digest
    BY <1>2 DEF ContainerStops, TypeOK, HostOK, Container
  <2> QED BY <1>2, <2>1 DEF ContainerStops
<1>3. CASE EditSpec
  BY <1>3 DEF EditSpec
<1>4. CASE ProjectDown
  BY <1>4 DEF ProjectDown, NoContainer, NoDigests
<1>5. CASE UnblockService
  BY <1>5 DEF UnblockService
<1>6. CASE Cancel
  BY <1>6 DEF Cancel
<1> QED BY <1>1, <1>2, <1>3, <1>4, <1>5, <1>6 DEF Environment

\* What can start, advance, end or spoil an operation.
OperationStep ==
    \/ Restart
    \/ \E r \in Images : OtherService(r)
    \/ \E c \in Callers :
        \/ StartForce(c) \/ AutoStarts(c) \/ DriftFound(c) \/ Recompose(c) \/ RecomposeFails(c)
        \/ DeployBegins(c) \/ TagRollback(c) \/ Pull(c) \/ PullFails(c) \/ Up(c) \/ UpFails(c)
    \/ \E v \in Verifiers : VerifierStep(v)

LEMMA QuietOrOperation == TypeOK /\ [Next]_vars => Quiet \/ OperationStep
<1> SUFFICES ASSUME TypeOK, [Next]_vars, ~OperationStep PROVE Quiet
  OBVIOUS
<1> USE DEF TypeOK
<1>1. CASE StartPoll
  BY <1>1, QuietGoto DEF StartPoll, Operating, Callers
<1>2. ASSUME NEW c \in Triggers, StartTrigger(c) \/ StartForce(c) PROVE Quiet
  <2>1. c \in Callers
    BY DEF Callers
  <2>2. StartTrigger(c)
    BY <1>2, <2>1 DEF OperationStep
  <2> QED BY <2>1, <2>2, QuietGoto DEF StartTrigger, Operating
<1>3. ASSUME NEW c \in Callers, CallerStep(c) PROVE Quiet
  <2>1. CASE Check(c)
    BY <2>1, QuietCheck DEF OperationStep
  <2>2. CASE DeployCancelled(c)
    BY <2>2, QuietReturn DEF DeployCancelled, ReturnError, Operating
  <2>3. CASE DeploySkipped(c)
    BY <2>3, QuietReturn DEF DeploySkipped, Operating
  <2>4. CASE DriftNone(c)
    BY <2>4, QuietGoto DEF DriftNone, Operating
  <2> QED BY <1>3, <2>1, <2>2, <2>3, <2>4 DEF CallerStep, Deploy, Compose, OperationStep
<1>4. CASE Environment
  BY <1>4, QuietEnvironment DEF OperationStep
<1>5. CASE UNCHANGED vars
  BY <1>5 DEF vars, Quiet, hostVars, callerVars, verifierVars, Operating, Running
<1> QED BY <1>1, <1>2, <1>3, <1>4, <1>5 DEF Next, OperationStep

------------------------------------------------------------------------------
(* The guard is never leaked *)

LEMMA VerifyStarts ==
    ASSUME VerifierOK, NEW c \in Callers, NEW kind, Verify(c, kind)
    PROVE  \E v \in Verifiers : Verifying(v)'
BY DEF VerifierOK, Verify, Verifying

LEMMA GotoOperates ==
    ASSUME CallerOK, NEW c \in Callers, NEW j,
           NEW label \in {"tag", "pull", "up", "start", "driftUp", "forceUp"}, Goto(c, label, j)
    PROVE  Operating(c)'
BY DEF CallerOK, Goto, Operating

\* A verifier step goes on or gives the guard back.
LEMMA VerifierGuard ==
    ASSUME VerifierOK, NEW v \in Verifiers, VerifierStep(v)
    PROVE  Verifying(v)' \/ deploying' = FALSE
<1>1. ASSUME NEW label \in VerifierPCs, label # "idle", VGoto(v, label) PROVE Verifying(v)'
  BY <1>1 DEF VGoto, Verifying, VerifierOK
<1>2. ASSUME VReturn(v) PROVE deploying' = FALSE
  BY <1>2 DEF VReturn, ClearDeploying
<1>3. ASSUME Retag(v) PROVE Verifying(v)' \/ deploying' = FALSE
  BY <1>2, <1>3 DEF Retag, AfterRetag, GoOn, Verifying, VerifierOK
<1> QED BY <1>1, <1>2, <1>3
        DEF VerifierStep, VerifyHealthy, VerifyGivesUp, VerifyCancelled, RollbackUp,
            RollbackUpFails, CleanupRollbacks, VerifierPCs

LEMMA NoLeakedGuardStep == TypeOK /\ NoLeakedGuard /\ [Next]_vars => NoLeakedGuard'
<1> SUFFICES ASSUME TypeOK, NoLeakedGuard, [Next]_vars PROVE NoLeakedGuard'
  OBVIOUS
<1> USE DEF TypeOK
<1>1. CASE Quiet
  BY <1>1 DEF Quiet, NoLeakedGuard, Verifying
<1>2. CASE Restart
  BY <1>2 DEF Restart, NoLeakedGuard
<1>3. ASSUME NEW c \in Callers,
             \/ StartForce(c) \/ AutoStarts(c) \/ DriftFound(c)
             \/ DeployBegins(c) \/ TagRollback(c) \/ Pull(c)
      PROVE  NoLeakedGuard'
  <2>1. ASSUME TagRollback(c) PROVE Operating(c)'
    <3>1. PICK j : Goto(c, "pull", j)
      BY <2>1, TagRollbackSplit DEF TagImages
    <3> QED BY <3>1, GotoOperates
  <2>2. ASSUME ~TagRollback(c) PROVE Operating(c)'
    BY <1>3, <2>2, GotoOperates DEF StartForce, AutoStarts, DriftFound, DeployBegins, Pull
  <2>3. Operating(c)'
    BY <2>1, <2>2
  <2> QED BY <2>3 DEF NoLeakedGuard
<1>4. ASSUME NEW c \in Callers, Up(c) \/ Recompose(c) PROVE NoLeakedGuard'
  <2>1. \E v \in Verifiers : Verifying(v)'
    BY <1>4, VerifyStarts DEF Up, Recompose
  <2> QED BY <2>1 DEF NoLeakedGuard
<1>5. ASSUME NEW c \in Callers, PullFails(c) \/ UpFails(c) \/ RecomposeFails(c) PROVE NoLeakedGuard'
  BY <1>5 DEF PullFails, UpFails, AbortDeploy, RecomposeFails, ClearDeploying, NoLeakedGuard
<1>6. ASSUME NEW v \in Verifiers, VerifierStep(v) PROVE NoLeakedGuard'
  BY <1>6, VerifierGuard DEF NoLeakedGuard
<1>7. ASSUME NEW r \in Images, OtherService(r) PROVE NoLeakedGuard'
  BY <1>7 DEF OtherService, NoLeakedGuard, Operating, Verifying
<1> QED BY <1>1, <1>2, <1>3, <1>4, <1>5, <1>6, <1>7, QuietOrOperation DEF OperationStep

\* In every configuration, forced redeploys, auto starts, compose drift, faults
\* and restarts included, a set flag belongs to an operation under way.
THEOREM GuardNeverLeaked == Spec => []NoLeakedGuard
<1>1. Init => NoLeakedGuard
  BY DEF Init, FreshProcess, NoLeakedGuard
<1> QED BY TypeCorrect, <1>1, NoLeakedGuardStep, PTL DEF Spec

------------------------------------------------------------------------------
(* Polls and manual triggers only: one operation at a time *)

\* The features that start an operation without looking at the guard are off.
GuardedConfig == ~AutoStart /\ ~ComposeWatch /\ ~ForceRedeploy

NeverUnguarded == \A c \in Callers : pc[c] \notin {"start", "drift", "driftUp", "forceUp"}

\* What a rollback retagged is what its compose up will run.
RetagHolds ==
    \A v \in Verifiers : vpc[v] = "rollbackUp" =>
        \A i \in Images : vjob[v].old[i] # NoDigest => tag[i] = vjob[v].old[i]

\* GuardInv is inductive with NeverUnguarded; RollbackRestores needs to know
\* that the saved digests survive in rbTag, and from the retag on in tag.
CycleInv ==
    /\ NeverUnguarded /\ GuardInv
    /\ RollbackTagIntact /\ RetagHolds /\ RollbackRestores

LEMMA GotoEffect ==
    ASSUME CallerOK, NEW c \in Callers, NEW label, NEW j, Goto(c, label, j)
    PROVE  /\ pc'[c] = label /\ job'[c] = j
           /\ \A d \in Callers \ {c} : pc'[d] = pc[d] /\ job'[d] = job[d]
BY DEF CallerOK, Goto

LEMMA GotoNever ==
    ASSUME CallerOK, NEW c \in Callers, NEW label, NEW j, Goto(c, label, j), NeverUnguarded,
           label \notin {"start", "drift", "driftUp", "forceUp"}
    PROVE  NeverUnguarded'
BY GotoEffect DEF NeverUnguarded

LEMMA ReturnNever ==
    ASSUME GuardedConfig, CallerOK, NEW c \in Callers, Return(c), NeverUnguarded
    PROVE  NeverUnguarded' /\ pc'[c] = "idle"
           /\ \A d \in Callers \ {c} : pc'[d] = pc[d] /\ job'[d] = job[d]
BY GotoEffect, GotoNever DEF Return, GuardedConfig

\* No step brings a caller to a place only the other features lead to.
LEMMA NeverUnguardedStep ==
    ASSUME GuardedConfig, TypeOK, NeverUnguarded, [Next]_vars
    PROVE  NeverUnguarded'
<1> USE DEF TypeOK
<1>1. CASE StartPoll \/ \E c \in Triggers : StartTrigger(c) \/ StartForce(c)
  BY <1>1, GotoNever DEF StartPoll, StartTrigger, StartForce, GuardedConfig, Callers
<1>2. ASSUME NEW c \in Callers, Check(c) PROVE NeverUnguarded'
  <2>1. ASSUME NEW j, NextImage(c, j) PROVE NeverUnguarded'
    BY <2>1, GotoNever DEF NextImage
  <2>2. CASE FetchFails(c) \/ StatusRunning(c) \/ StatusDown(c) \/ StartSuppressed(c)
    BY <2>2, ReturnNever DEF FetchFails, ReturnError, StatusRunning, StatusDown, StartSuppressed
  <2>3. CASE FetchAnswers(c) \/ CheckCandidate(c)
    BY <2>3, GotoNever DEF FetchAnswers, CheckCandidate
  <2>4. CASE CheckBlocked(c) \/ CheckNotFound(c)
    BY <2>1, <2>4 DEF CheckBlocked, CheckNotFound
  <2>5. CASE ResolveMissing(c) \/ ResolveSame(c) \/ ResolveChanged(c)
    BY <2>1, <2>5 DEF ResolveMissing, ResolveSame, ResolveChanged
  <2> QED BY <1>2, <2>2, <2>3, <2>4, <2>5 DEF Check, AutoStarts, GuardedConfig
<1>3. ASSUME NEW c \in Callers, Deploy(c) PROVE NeverUnguarded'
  <2>1. CASE DeployCancelled(c) \/ DeploySkipped(c) \/ Up(c)
    BY <2>1, ReturnNever DEF DeployCancelled, ReturnError, DeploySkipped, Up
  <2>2. CASE PullFails(c) \/ UpFails(c)
    BY <2>2, ReturnNever DEF PullFails, UpFails, AbortDeploy, ReturnError
  <2>3. CASE DeployBegins(c) \/ Pull(c)
    BY <2>3, GotoNever DEF DeployBegins, Pull
  <2>4. CASE TagRollback(c)
    <3>1. PICK j : Goto(c, "pull", j)
      BY <2>4, TagRollbackSplit DEF TagImages
    <3> QED BY <3>1, GotoNever
  <2> QED BY <1>3, <2>1, <2>2, <2>3, <2>4 DEF Deploy
<1>4. ASSUME NEW c \in Callers, Compose(c) PROVE FALSE
  BY <1>4 DEF Compose, DriftNone, DriftFound, Recompose, RecomposeFails, Recomposing, NeverUnguarded
<1>5. ASSUME NEW v \in Verifiers, VerifierStep(v) PROVE NeverUnguarded'
  BY <1>5 DEF VerifierStep, VerifyHealthy, VerifyGivesUp, VerifyCancelled, Retag, RollbackUp,
              RollbackUpFails, CleanupRollbacks, callerVars, NeverUnguarded
<1>6. CASE Environment
  BY <1>6 DEF Environment, Push, EditSpec, ContainerStops, OtherService, ProjectDown, UnblockService, Cancel,
              Restart, callerVars, NeverUnguarded
<1>7. CASE UNCHANGED vars
  BY <1>7 DEF vars, callerVars, NeverUnguarded
<1> QED BY <1>1, <1>2, <1>3, <1>4, <1>5, <1>6, <1>7 DEF Next, CallerStep

\* The operations that are left.
LEMMA GuardedOperation ==
    ASSUME GuardedConfig, NeverUnguarded, OperationStep
    PROVE  \/ Restart
           \/ \E r \in Images : OtherService(r)
           \/ \E c \in Callers :
                DeployBegins(c) \/ TagRollback(c) \/ Pull(c) \/ PullFails(c) \/ Up(c) \/ UpFails(c)
           \/ \E v \in Verifiers : VerifierStep(v)
BY DEF GuardedConfig, NeverUnguarded, OperationStep, StartForce, AutoStarts, DriftFound, Recompose,
       RecomposeFails, Recomposing

\* An operation in a caller, or in a verifier, is the only one.
LEMMA AloneCaller ==
    ASSUME GuardInv, NEW c \in Callers, Operating(c)
    PROVE  /\ \A d \in Callers \ {c} : ~Operating(d)
           /\ \A v \in Verifiers : ~Verifying(v)
BY DEF GuardInv, OneOperation

LEMMA AloneVerifier ==
    ASSUME GuardInv, NEW v \in Verifiers, Verifying(v)
    PROVE  /\ \A c \in Callers : ~Operating(c)
           /\ \A w \in Verifiers \ {v} : ~Verifying(w)
BY DEF GuardInv, OneOperation


\* What each step of an operation does to the callers and verifiers.
LEMMA TagRollbackEffect ==
    ASSUME TypeOK, NEW c \in Callers, TagRollback(c)
    PROVE  /\ pc[c] = "tag" /\ pc'[c] = "pull"
           /\ \A d \in Callers \ {c} : pc'[d] = pc[d] /\ job'[d] = job[d]
           /\ UNCHANGED <<tag, container, deploying, vpc, vjob>>
           /\ \A i \in Images : job'[c].old[i] # NoDigest =>
                 rbTag'[Repo[i]] = job'[c].old[i] /\ job'[c].old[i] = container[i].digest
<1> USE DEF TypeOK, CallerOK
<1>1. PICK N \in SUBSET Images, S \in SUBSET Images : TagImages(c, N, S)
  BY TagRollbackSplit
<1>2. pc[c] = "tag" /\ UNCHANGED <<tag, container, deploying, vpc, vjob>>
  BY DEF TagRollback, verifierVars
<1>3. /\ pc'[c] = "pull"
      /\ \A d \in Callers \ {c} : pc'[d] = pc[d] /\ job'[d] = job[d]
  BY <1>1, GotoEffect DEF TagImages
<1>4. \A i \in Images : job'[c].old[i] =
        IF i \in S /\ Source(Repo[i]) = i THEN container[i].digest ELSE NoDigest
  <2>1. job[c] \in Job
    OBVIOUS
  <2>2. job'[c] = [job[c] EXCEPT
            !.ref = [i \in Images |-> IF i \in N THEN Source(Repo[i]) ELSE 0],
            !.old = [i \in Images |-> IF i \in S /\ Source(Repo[i]) = i
                                      THEN container[i].digest ELSE NoDigest]]
    BY <1>1, GotoEffect DEF TagImages
  <2> QED BY <2>1, <2>2 DEF Job
<1>5. ASSUME NEW i \in Images, job'[c].old[i] # NoDigest
      PROVE  rbTag'[Repo[i]] = job'[c].old[i] /\ job'[c].old[i] = container[i].digest
  <2>1. i \in S /\ Source(Repo[i]) = i /\ job'[c].old[i] = container[i].digest
    BY <1>4, <1>5
  <2>2. Repo[i] \in Images
    BY DEF Images
  <2>3. rbTag' = [r \in Images |->
                    IF \E k \in S : Repo[k] = r THEN container[Source(r)].digest ELSE rbTag[r]]
    BY <1>1 DEF TagImages
  <2> QED BY <2>1, <2>2, <2>3
<1> QED BY <1>2, <1>3, <1>5

LEMMA UpEffect ==
    ASSUME TypeOK, GuardedConfig, NeverUnguarded, NEW c \in Callers, Up(c)
    PROVE  /\ pc[c] = "up" /\ pc'[c] = "idle"
           /\ \A d \in Callers \ {c} : pc'[d] = pc[d] /\ job'[d] = job[d]
           /\ UNCHANGED <<rbTag, deploying>>
           /\ \E v \in Verifiers :
                /\ vpc[v] = "idle" /\ vpc'[v] = "poll"
                /\ vjob'[v].old = job[c].old /\ vjob'[v].new = job[c].new
                /\ \A w \in Verifiers \ {v} : vpc'[w] = vpc[w] /\ vjob'[w] = vjob[w]
<1> USE DEF TypeOK
<1>1. pc[c] = "up" /\ UNCHANGED <<rbTag, deploying>>
  BY DEF Up, ComposeUp
<1>2. pc'[c] = "idle" /\ \A d \in Callers \ {c} : pc'[d] = pc[d] /\ job'[d] = job[d]
  BY ReturnNever DEF Up
<1>3. \E v \in Verifiers :
        /\ vpc[v] = "idle" /\ vpc'[v] = "poll"
        /\ vjob'[v].old = job[c].old /\ vjob'[v].new = job[c].new
        /\ \A w \in Verifiers \ {v} : vpc'[w] = vpc[w] /\ vjob'[w] = vjob[w]
  BY DEF Up, Verify, VerifierOK
<1> QED BY <1>1, <1>2, <1>3

LEMMA VGotoEffect ==
    ASSUME VerifierOK, NEW v \in Verifiers, NEW label, VGoto(v, label)
    PROVE  vpc'[v] = label /\ vjob' = vjob /\ \A w \in Verifiers \ {v} : vpc'[w] = vpc[w]
BY DEF VerifierOK, VGoto

LEMMA VReturnEffect ==
    ASSUME VerifierOK, NEW v \in Verifiers, VReturn(v)
    PROVE  /\ deploying' = FALSE /\ vpc'[v] = "idle"
           /\ \A w \in Verifiers \ {v} : vpc'[w] = vpc[w] /\ vjob'[w] = vjob[w]
BY DEF VerifierOK, VReturn, ClearDeploying

LEMMA GoOnEffect ==
    ASSUME VerifierOK, NEW v \in Verifiers, NEW T, GoOn(v, T)
    PROVE  /\ UNCHANGED deploying /\ vpc'[v] = "rollbackUp"
           /\ \A i \in Images : vjob'[v].old[i] = IF i \in T THEN vjob[v].old[i] ELSE NoDigest
           /\ \A w \in Verifiers \ {v} : vpc'[w] = vpc[w] /\ vjob'[w] = vjob[w]
BY DEF VerifierOK, GoOn, VJob

\* A verifier goes on with what it holds, or a part of it, or returns.
VerifierMoves(v) ==
    \/ /\ vpc'[v] # "idle" /\ UNCHANGED <<deploying, rbTag>>
       /\ \A i \in Images : vjob'[v].old[i] \in {vjob[v].old[i], NoDigest}
    \/ vpc'[v] = "idle" /\ deploying' = FALSE

LEMMA VerifierGoes ==
    ASSUME VerifierOK, NEW v \in Verifiers, NEW label, label # "idle", VGoto(v, label),
           UNCHANGED <<deploying, rbTag>>
    PROVE  /\ VerifierMoves(v)
           /\ \A w \in Verifiers \ {v} : vpc'[w] = vpc[w] /\ vjob'[w] = vjob[w]
BY VGotoEffect DEF VerifierMoves

LEMMA VerifierReturns ==
    ASSUME VerifierOK, NEW v \in Verifiers, VReturn(v)
    PROVE  /\ VerifierMoves(v)
           /\ \A w \in Verifiers \ {v} : vpc'[w] = vpc[w] /\ vjob'[w] = vjob[w]
BY VReturnEffect DEF VerifierMoves

LEMMA VerifierRetags ==
    ASSUME VerifierOK, NEW v \in Verifiers, Retag(v)
    PROVE  /\ VerifierMoves(v)
           /\ \A w \in Verifiers \ {v} : vpc'[w] = vpc[w] /\ vjob'[w] = vjob[w]
<1>1. PICK T \in SUBSET Images : GoOn(v, T) \/ VReturn(v)
  BY RetagSplit DEF VerifierOK
<1>2. CASE GoOn(v, T)
  <2>1. UNCHANGED rbTag
    BY DEF Retag
  <2> QED BY <1>2, <2>1, GoOnEffect DEF VerifierMoves
<1> QED BY <1>1, <1>2, VerifierReturns

LEMMA VerifierEffect ==
    ASSUME TypeOK, NEW v \in Verifiers, VerifierStep(v)
    PROVE  /\ Verifying(v) /\ UNCHANGED <<pc, job>>
           /\ VerifierMoves(v)
           /\ \A w \in Verifiers \ {v} : vpc'[w] = vpc[w] /\ vjob'[w] = vjob[w]
<1>1. Verifying(v) /\ UNCHANGED <<pc, job>>
  BY DEF VerifierStep, VerifyHealthy, VerifyGivesUp, VerifyCancelled, Retag, RollbackUp, RollbackUpFails,
         CleanupRollbacks, callerVars, Verifying
<1>2. \/ VReturn(v)
      \/ \E label : label # "idle" /\ VGoto(v, label) /\ UNCHANGED <<deploying, rbTag>>
      \/ Retag(v)
  <2>1. CASE VerifyHealthy(v)
    BY <2>1 DEF VerifyHealthy, hostVars
  <2>2. CASE VerifyGivesUp(v)
    BY <2>2 DEF VerifyGivesUp, hostVars
  <2>4. CASE RollbackUp(v)
    BY <2>4 DEF RollbackUp, ComposeUp
  <2> QED BY <2>1, <2>2, <2>4 DEF VerifierStep, VerifyCancelled, RollbackUpFails, CleanupRollbacks
<1> QED BY <1>1, <1>2, VerifierGoes, VerifierReturns, VerifierRetags DEF TypeOK

\* A deploy that fails gives the guard back and leaves the :rollback tags.
LEMMA FailEffect ==
    ASSUME TypeOK, GuardedConfig, NeverUnguarded, NEW c \in Callers, PullFails(c) \/ UpFails(c)
    PROVE  /\ Operating(c) /\ pc'[c] = "idle" /\ deploying' = FALSE
           /\ \A d \in Callers \ {c} : pc'[d] = pc[d] /\ job'[d] = job[d]
           /\ UNCHANGED <<rbTag, vpc, vjob>>
<1>1. Operating(c) /\ deploying' = FALSE /\ UNCHANGED <<rbTag, vpc, vjob>>
  BY DEF PullFails, UpFails, AbortDeploy, ClearDeploying, ComposePull, ComposeUp, Operating, verifierVars
<1>2. pc'[c] = "idle" /\ \A d \in Callers \ {c} : pc'[d] = pc[d] /\ job'[d] = job[d]
  BY ReturnNever DEF PullFails, UpFails, AbortDeploy, ReturnError, TypeOK
<1> QED BY <1>1, <1>2

\* Once the host is retagged what is left of the saved digests is what compose
\* up runs.
LEMMA RetagEffect ==
    ASSUME TypeOK, CycleInv, NEW v \in Verifiers, Retag(v), vpc'[v] = "rollbackUp"
    PROVE  \A i \in Images : vjob'[v].old[i] # NoDigest => tag'[i] = vjob'[v].old[i]
<1>1. Verifying(v)
  BY DEF Retag, Verifying
<1>2. PICK T \in SUBSET Images : RetagImages(T) /\ (GoOn(v, T) \/ VReturn(v))
  BY RetagSplit DEF TypeOK, VerifierOK
<1>3. \A i \in Images : vjob'[v].old[i] = IF i \in T THEN vjob[v].old[i] ELSE NoDigest
  BY <1>2, VReturnEffect, GoOnEffect DEF TypeOK
<1>4. \A i \in Images : vjob[v].old[i] # NoDigest => rbTag[Repo[i]] = vjob[v].old[i]
  BY <1>1 DEF CycleInv, RollbackTagIntact
<1> QED BY <1>2, <1>3, <1>4 DEF RetagImages

LEMMA RollbackUpEffect ==
    ASSUME TypeOK, CycleInv, NEW v \in Verifiers, RollbackUp(v)
    PROVE  \A i \in Images : vjob[v].old[i] # NoDigest => container'[i].digest = vjob[v].old[i]
<1>1. \A i \in Images : vjob[v].old[i] # NoDigest => tag[i] = vjob[v].old[i]
  BY DEF RollbackUp, CycleInv, RetagHolds
<1> QED BY <1>1 DEF RollbackUp, ComposeUp, ImageFor

\* Another service spoils the history of its repository and nothing else of ours.
LEMMA OtherServiceEffect ==
    ASSUME TypeOK, NEW r \in Images, OtherService(r)
    PROVE  /\ UNCHANGED <<pc, vpc, deploying, container>>
           /\ \A i \in Images : Repo[i] # r => rbTag'[Repo[i]] = rbTag[Repo[i]] /\ tag'[i] = tag[i]
           /\ \A c \in Callers, i \in Images :
                 job'[c].old[i] = IF Repo[i] = r THEN NoDigest ELSE job[c].old[i]
           /\ \A v \in Verifiers, i \in Images :
                 vjob'[v].old[i] = IF Repo[i] = r THEN NoDigest ELSE vjob[v].old[i]
<1>1. UNCHANGED <<pc, vpc, deploying, container>>
  BY DEF OtherService
<1>2. \A i \in Images : Repo[i] # r => rbTag'[Repo[i]] = rbTag[Repo[i]] /\ tag'[i] = tag[i]
  <2>1. \A i \in Images : Repo[i] \in Images
    BY DEF Images
  <2> QED BY <2>1 DEF OtherService, TypeOK, HostOK
<1>3. \A c \in Callers : job'[c].old = Unsaved(job[c].old, r)
  BY DEF OtherService, TypeOK, CallerOK, Job
<1>4. \A v \in Verifiers : vjob'[v].old = Unsaved(vjob[v].old, r)
  BY DEF OtherService, TypeOK, VerifierOK, VJob
<1>5. \A i \in Images : \A old :  Unsaved(old, r)[i] = IF Repo[i] = r THEN NoDigest ELSE old[i]
  BY DEF Unsaved
<1> QED BY <1>1, <1>2, <1>3, <1>4, <1>5

\* How the verifiers' part of CycleInv changes with a verifier's own step.
LEMMA VerifierCycleInv ==
    ASSUME TypeOK, CycleInv, NEW v \in Verifiers, VerifierStep(v)
    PROVE  GuardInv' /\ RollbackTagIntact' /\ RetagHolds' /\ RollbackRestores'
<1>1. /\ Verifying(v) /\ UNCHANGED <<pc, job>> /\ VerifierMoves(v)
      /\ \A w \in Verifiers \ {v} : vpc'[w] = vpc[w] /\ vjob'[w] = vjob[w]
  BY VerifierEffect
<1>2. /\ \A c \in Callers : ~Operating(c)
      /\ \A w \in Verifiers \ {v} : ~Verifying(w)
      /\ deploying
  BY <1>1, AloneVerifier DEF CycleInv, GuardInv, OperationHasGuard
<1>a. /\ \A c \in Callers : ~Operating(c)'
      /\ \A w \in Verifiers \ {v} : ~Verifying(w)'
  BY <1>1, <1>2 DEF Operating, Verifying
<1>3. GuardInv'
  <2>1. Verifying(v)' => deploying'
    BY <1>1, <1>2 DEF VerifierMoves, Verifying
  <2>2. deploying' => Verifying(v)'
    BY <1>1 DEF VerifierMoves, Verifying
  <2> QED BY <1>a, <2>1, <2>2 DEF GuardInv, OneOperation, OperationHasGuard, NoLeakedGuard
<1>b. Verifying(v)' => /\ rbTag' = rbTag
                       /\ \A i \in Images : vjob'[v].old[i] \in {vjob[v].old[i], NoDigest}
  BY <1>1 DEF VerifierMoves, Verifying
<1>4. RollbackTagIntact'
  <2>1. \A i \in Images : vjob[v].old[i] # NoDigest => rbTag[Repo[i]] = vjob[v].old[i]
    BY <1>1 DEF CycleInv, RollbackTagIntact
  <2> QED BY <1>a, <1>b, <2>1 DEF RollbackTagIntact, Operating
<1>6. RetagHolds'
  <2> SUFFICES ASSUME vpc'[v] = "rollbackUp"
               PROVE  \A i \in Images : vjob'[v].old[i] # NoDigest => tag'[i] = vjob'[v].old[i]
    BY <1>1, <1>2 DEF RetagHolds, Verifying
  <2>1. Retag(v)
    BY <1>1 DEF TypeOK, VerifierStep, VerifyHealthy, VerifyGivesUp, VerifyCancelled, RollbackUp,
                RollbackUpFails, CleanupRollbacks, VGoto, VReturn, VerifierOK
  <2> QED BY <2>1, RetagEffect
<1>7. RollbackRestores'
  <2> SUFFICES ASSUME vpc'[v] = "restored"
               PROVE  \A i \in Images : vjob'[v].old[i] # NoDigest =>
                         container'[i].digest \in {vjob'[v].old[i], NoDigest}
    BY <1>1, <1>2 DEF RollbackRestores, Verifying
  <2>1. RollbackUp(v)
    BY <1>1 DEF TypeOK, VerifierStep, VerifyHealthy, VerifyGivesUp, VerifyCancelled, Retag, AfterRetag, GoOn,
                RollbackUpFails, CleanupRollbacks, VGoto, VReturn, VerifierOK
  <2>2. vjob' = vjob
    BY <2>1 DEF RollbackUp, VGoto
  <2> QED BY <2>1, <2>2, RollbackUpEffect
<1> QED BY <1>3, <1>4, <1>6, <1>7

LEMMA CycleInvStep ==
    ASSUME GuardedConfig, TypeOK, CycleInv, [Next]_vars
    PROVE  CycleInv'
<1> USE DEF CycleInv
<1>0. NeverUnguarded'
  BY NeverUnguardedStep
<1>1. CASE Quiet
  <2>1. GuardInv'
    BY <1>1 DEF Quiet, GuardInv, OneOperation, OperationHasGuard, NoLeakedGuard, Verifying
  <2>2. RollbackTagIntact'
    BY <1>1 DEF Quiet, RollbackTagIntact, Operating, Verifying
  <2>3. RetagHolds'
    BY <1>1 DEF Quiet, RetagHolds
  <2>4. RollbackRestores'
    <3>1. \A i \in Images : container'[i].digest \in {container[i].digest, NoDigest}
      BY <1>1 DEF Quiet, Running, NoDigests
    <3> QED BY <1>1, <3>1 DEF Quiet, RollbackRestores
  <2> QED BY <1>0, <2>1, <2>2, <2>3, <2>4
<1>2. CASE Restart
  <2>1. /\ \A c \in Callers : pc'[c] = "idle"
        /\ \A v \in Verifiers : vpc'[v] = "idle"
        /\ deploying' = FALSE
    BY <1>2 DEF Restart
  <2> QED BY <1>0, <2>1 DEF GuardInv, OneOperation, OperationHasGuard, NoLeakedGuard, Operating, Verifying,
                            RollbackTagIntact, RetagHolds, RollbackRestores
<1>3. ASSUME NEW c \in Callers, DeployBegins(c) PROVE CycleInv'
  <2>1. /\ ~deploying /\ deploying' /\ pc'[c] = "tag" /\ UNCHANGED <<vpc, vjob>>
        /\ \A d \in Callers \ {c} : pc'[d] = pc[d] /\ job'[d] = job[d]
    BY <1>3, GotoEffect DEF DeployBegins, TryStartDeploy, verifierVars, TypeOK
  <2>2. (\A d \in Callers : ~Operating(d)) /\ (\A v \in Verifiers : ~Verifying(v))
    BY <2>1 DEF GuardInv, OperationHasGuard
  <2>3. GuardInv'
    BY <2>1, <2>2 DEF GuardInv, OneOperation, OperationHasGuard, NoLeakedGuard, Operating, Verifying
  <2> QED BY <1>0, <2>1, <2>2, <2>3 DEF RollbackTagIntact, RetagHolds, RollbackRestores,
                                      Operating, Verifying
<1>4. ASSUME NEW c \in Callers, TagRollback(c) PROVE CycleInv'
  <2>1. /\ pc[c] = "tag" /\ pc'[c] = "pull" /\ UNCHANGED <<deploying, vpc, vjob>>
        /\ \A d \in Callers \ {c} : pc'[d] = pc[d] /\ job'[d] = job[d]
        /\ \A i \in Images : job'[c].old[i] # NoDigest =>
              rbTag'[Repo[i]] = job'[c].old[i]
    BY <1>4, TagRollbackEffect
  <2>2. (\A d \in Callers \ {c} : ~Operating(d)) /\ (\A v \in Verifiers : ~Verifying(v)) /\ deploying
    BY <2>1, AloneCaller DEF Operating, GuardInv, OperationHasGuard
  <2>3. GuardInv'
    BY <2>1, <2>2 DEF GuardInv, OneOperation, OperationHasGuard, NoLeakedGuard, Operating, Verifying
  <2> QED BY <1>0, <2>1, <2>2, <2>3 DEF RollbackTagIntact, RetagHolds, RollbackRestores,
                                      Operating, Verifying
<1>5. ASSUME NEW c \in Callers, Pull(c) PROVE CycleInv'
  <2>1. /\ pc[c] = "pull" /\ pc'[c] = "up" /\ job'[c] = job[c]
        /\ UNCHANGED <<deploying, rbTag, container, vpc, vjob>>
        /\ \A d \in Callers \ {c} : pc'[d] = pc[d] /\ job'[d] = job[d]
    BY <1>5, GotoEffect DEF Pull, ComposePull, verifierVars, TypeOK
  <2>2. (\A d \in Callers \ {c} : ~Operating(d)) /\ (\A v \in Verifiers : ~Verifying(v)) /\ deploying
    BY <2>1, AloneCaller DEF Operating, GuardInv, OperationHasGuard
  <2>3. GuardInv'
    BY <2>1, <2>2 DEF GuardInv, OneOperation, OperationHasGuard, NoLeakedGuard, Operating, Verifying
  <2> QED BY <1>0, <2>1, <2>2, <2>3 DEF RollbackTagIntact, RetagHolds, RollbackRestores,
                                      Operating, Verifying
<1>6. ASSUME NEW c \in Callers, PullFails(c) \/ UpFails(c) PROVE CycleInv'
  <2>1. /\ Operating(c) /\ pc'[c] = "idle" /\ deploying' = FALSE /\ UNCHANGED <<vpc, vjob>>
        /\ \A d \in Callers \ {c} : pc'[d] = pc[d] /\ job'[d] = job[d]
    BY <1>6, FailEffect
  <2>2. (\A d \in Callers \ {c} : ~Operating(d)) /\ (\A v \in Verifiers : ~Verifying(v))
    BY <2>1, AloneCaller
  <2>3. GuardInv'
    BY <2>1, <2>2 DEF GuardInv, OneOperation, OperationHasGuard, NoLeakedGuard, Operating, Verifying
  <2>4. /\ \A d \in Callers : pc'[d] \notin {"pull", "up"}
        /\ \A v \in Verifiers : vpc'[v] = "idle"
    BY <2>1, <2>2 DEF Operating, Verifying
  <2> QED BY <1>0, <2>3, <2>4 DEF RollbackTagIntact, RetagHolds, RollbackRestores, Verifying
<1>7. ASSUME NEW c \in Callers, Up(c) PROVE CycleInv'
  <2>1. /\ pc[c] = "up" /\ pc'[c] = "idle" /\ UNCHANGED <<rbTag, deploying>>
        /\ \A d \in Callers \ {c} : pc'[d] = pc[d] /\ job'[d] = job[d]
    BY <1>7, UpEffect
  <2>2. PICK v \in Verifiers :
          /\ vpc'[v] = "poll" /\ vjob'[v].old = job[c].old /\ vjob'[v].new = job[c].new
          /\ \A w \in Verifiers \ {v} : vpc'[w] = vpc[w] /\ vjob'[w] = vjob[w]
    BY <1>7, UpEffect
  <2>3. (\A d \in Callers \ {c} : ~Operating(d)) /\ (\A w \in Verifiers : ~Verifying(w)) /\ deploying
    BY <2>1, AloneCaller DEF Operating, GuardInv, OperationHasGuard
  <2>4. GuardInv'
    BY <2>1, <2>2, <2>3 DEF GuardInv, OneOperation, OperationHasGuard, NoLeakedGuard, Operating, Verifying
  <2>5. RollbackTagIntact'
    <3>1. \A i \in Images : job[c].old[i] # NoDigest => rbTag'[Repo[i]] = job[c].old[i]
      BY <2>1 DEF RollbackTagIntact
    <3>2. \A d \in Callers : pc'[d] \notin {"pull", "up"}
      BY <2>1, <2>3 DEF Operating
    <3>3. \A w \in Verifiers : Verifying(w)' => w = v
      BY <2>2, <2>3 DEF Verifying
    <3> QED BY <2>2, <3>1, <3>2, <3>3 DEF RollbackTagIntact
  <2>6. RetagHolds' /\ RollbackRestores'
    BY <2>2, <2>3 DEF RetagHolds, RollbackRestores, Verifying
  <2> QED BY <1>0, <2>4, <2>5, <2>6
<1>8. ASSUME NEW v \in Verifiers, VerifierStep(v) PROVE CycleInv'
  BY <1>0, <1>8, VerifierCycleInv
<1>9. ASSUME NEW r \in Images, OtherService(r) PROVE CycleInv'
  <2>1. /\ UNCHANGED <<pc, vpc, deploying, container>>
        /\ \A i \in Images : Repo[i] # r => rbTag'[Repo[i]] = rbTag[Repo[i]] /\ tag'[i] = tag[i]
        /\ \A c \in Callers, i \in Images :
              job'[c].old[i] = IF Repo[i] = r THEN NoDigest ELSE job[c].old[i]
        /\ \A v \in Verifiers, i \in Images :
              vjob'[v].old[i] = IF Repo[i] = r THEN NoDigest ELSE vjob[v].old[i]
    BY <1>9, OtherServiceEffect
  <2>2. GuardInv'
    BY <2>1 DEF GuardInv, OneOperation, OperationHasGuard, NoLeakedGuard, Operating, Verifying
  <2>3. RollbackTagIntact'
    <3>1. ASSUME NEW c \in Callers, pc'[c] \in {"pull", "up"}, NEW i \in Images, job'[c].old[i] # NoDigest
          PROVE  rbTag'[Repo[i]] = job'[c].old[i]
      <4>1. Repo[i] # r /\ job'[c].old[i] = job[c].old[i]
        BY <2>1, <3>1
      <4>2. rbTag[Repo[i]] = job[c].old[i]
        BY <2>1, <3>1, <4>1 DEF RollbackTagIntact
      <4> QED BY <2>1, <4>1, <4>2
    <3>2. ASSUME NEW v \in Verifiers, Verifying(v)', NEW i \in Images, vjob'[v].old[i] # NoDigest
          PROVE  rbTag'[Repo[i]] = vjob'[v].old[i]
      <4>1. Repo[i] # r /\ vjob'[v].old[i] = vjob[v].old[i]
        BY <2>1, <3>2
      <4>2. rbTag[Repo[i]] = vjob[v].old[i]
        BY <2>1, <3>2, <4>1 DEF RollbackTagIntact, Verifying
      <4> QED BY <2>1, <4>1, <4>2
    <3> QED BY <3>1, <3>2 DEF RollbackTagIntact
  <2>4. \A v \in Verifiers, i \in Images : vjob'[v].old[i] # NoDigest =>
          vjob'[v].old[i] = vjob[v].old[i] /\ tag'[i] = tag[i]
    BY <2>1
  <2>5. RetagHolds'
    BY <2>1, <2>4 DEF RetagHolds
  <2>6. RollbackRestores'
    BY <2>1, <2>4 DEF RollbackRestores
  <2> QED BY <1>0, <2>2, <2>3, <2>5, <2>6
<1> QED BY <1>1, <1>2, <1>3, <1>4, <1>5, <1>6, <1>7, <1>8, <1>9, QuietOrOperation, GuardedOperation

LEMMA CycleInvInit == Init => CycleInv
BY DEF Init, FreshProcess, CycleInv, NeverUnguarded, GuardInv, OneOperation, OperationHasGuard, NoLeakedGuard,
       Operating, Verifying, RollbackTagIntact, RetagHolds, RollbackRestores

LEMMA CycleInvHolds == ASSUME GuardedConfig PROVE Spec => [](TypeOK /\ CycleInv)
<1>1. CycleInv /\ TypeOK /\ [Next]_vars => CycleInv'
  BY CycleInvStep
<1> QED BY TypeCorrect, CycleInvInit, <1>1, PTL DEF Spec

\* With polls and manual triggers only there is one operation at a time, it
\* holds the guard, and the guard is held by an operation.
THEOREM GuardCorrect == ASSUME GuardedConfig PROVE Spec => []GuardInv
<1>1. TypeOK /\ CycleInv => GuardInv
  BY DEF CycleInv
<1> QED BY CycleInvHolds, <1>1, PTL

\* No other operation, push, stop or restart disturbs the :rollback tag of a
\* deploy before it ends, however the images share repositories, unless another
\* service of the repository writes it.
THEOREM RollbackTagSafe == ASSUME GuardedConfig PROVE Spec => []RollbackTagIntact
<1>1. TypeOK /\ CycleInv => RollbackTagIntact
  BY DEF CycleInv
<1> QED BY CycleInvHolds, <1>1, PTL

\* A rollback that reaches its cleanup has put back what its deploy saved of the
\* images whose compose reference was retagged and that nobody else touched.
THEOREM RollbackCorrect == ASSUME GuardedConfig PROVE Spec => []RollbackRestores
<1>1. TypeOK /\ CycleInv => RollbackRestores
  BY DEF CycleInv
<1> QED BY CycleInvHolds, <1>1, PTL

------------------------------------------------------------------------------
(* When every operation goes through the guard, the goroutines implement
   DeployCycle. *)

LEMMA RunningType == TypeOK => Running \in [Images -> MaybeDigest]
BY DEF TypeOK, HostOK, Container, Running

\* The abstract state of each place an operation can be in.
LEMMA InCaller ==
    ASSUME GuardInv, NEW c \in Callers, Operating(c)
    PROVE  /\ deploying /\ CyclePhase = "composing"
           /\ \A i \in Images : CycleSaved[i] =
                IF pc[c] \in {"pull", "up"} THEN {job[c].old[i]} \ {NoDigest} ELSE {}
<1>1. (\A d \in Callers \ {c} : ~Operating(d)) /\ (\A v \in Verifiers : ~Verifying(v))
  BY AloneCaller
<1>2. \A d \in Callers : pc[d] \in {"pull", "up"} => d = c
  BY <1>1 DEF Operating
<1>3. {w \in Verifiers : Verifying(w)} = {}
  BY <1>1
<1>4. {d \in Callers : pc[d] \in {"pull", "up"}} = IF pc[c] \in {"pull", "up"} THEN {c} ELSE {}
  BY <1>2
<1>5. \A i \in Images : CycleSaved[i] =
        IF pc[c] \in {"pull", "up"} THEN {job[c].old[i]} \ {NoDigest} ELSE {}
  BY <1>3, <1>4 DEF CycleSaved
<1> QED BY <1>5 DEF GuardInv, OperationHasGuard, CyclePhase

LEMMA InVerifier ==
    ASSUME GuardInv, NEW v \in Verifiers, Verifying(v)
    PROVE  /\ deploying
           /\ CyclePhase = IF vpc[v] = "poll" THEN "verifying"
                           ELSE IF vpc[v] \in {"retag", "rollbackUp"} THEN "restoring" ELSE "done"
           /\ \A i \in Images : CycleSaved[i] = {vjob[v].old[i]} \ {NoDigest}
<1>1. (\A c \in Callers : ~Operating(c)) /\ (\A w \in Verifiers \ {v} : ~Verifying(w))
  BY AloneVerifier
<1>2. {d \in Callers : pc[d] \in {"pull", "up"}} = {}
  BY <1>1 DEF Operating
<1>3. {w \in Verifiers : Verifying(w)} = {v}
  BY <1>1
<1>4. \A i \in Images : CycleSaved[i] = {vjob[v].old[i]} \ {NoDigest}
  BY <1>2, <1>3 DEF CycleSaved
<1>5. CyclePhase = IF vpc[v] = "poll" THEN "verifying"
                   ELSE IF vpc[v] \in {"retag", "rollbackUp"} THEN "restoring" ELSE "done"
  BY <1>1 DEF CyclePhase, Verifying
<1> QED BY <1>4, <1>5 DEF GuardInv, OperationHasGuard

LEMMA InNone ==
    ASSUME GuardInv, \A c \in Callers : ~Operating(c), \A v \in Verifiers : ~Verifying(v)
    PROVE  ~deploying /\ CyclePhase = "free" /\ CycleSaved = [i \in Images |-> {}]
<1>1. {d \in Callers : pc[d] \in {"pull", "up"}} = {} /\ {w \in Verifiers : Verifying(w)} = {}
  BY DEF Operating
<1>2. CycleSaved = [i \in Images |-> {}]
  BY <1>1 DEF CycleSaved
<1> QED BY <1>2 DEF GuardInv, NoLeakedGuard, CyclePhase, Verifying

\* The same facts of the next state.
CallerView(c) ==
    Operating(c) =>
        /\ deploying /\ CyclePhase = "composing"
        /\ \A i \in Images : CycleSaved[i] =
             IF pc[c] \in {"pull", "up"} THEN {job[c].old[i]} \ {NoDigest} ELSE {}

VerifierView(v) ==
    Verifying(v) =>
        /\ deploying
        /\ CyclePhase = IF vpc[v] = "poll" THEN "verifying"
                        ELSE IF vpc[v] \in {"retag", "rollbackUp"} THEN "restoring" ELSE "done"
        /\ \A i \in Images : CycleSaved[i] = {vjob[v].old[i]} \ {NoDigest}

IdleView ==
    (\A c \in Callers : ~Operating(c)) /\ (\A v \in Verifiers : ~Verifying(v)) =>
        ~deploying /\ CyclePhase = "free" /\ CycleSaved = [i \in Images |-> {}]

View == (\A c \in Callers : CallerView(c)) /\ (\A v \in Verifiers : VerifierView(v)) /\ IdleView

LEMMA ViewHolds == GuardInv => View
BY InCaller, InVerifier, InNone DEF View, CallerView, VerifierView, IdleView

LEMMA ViewHoldsNext == GuardInv' => View'
BY ViewHolds, PTL

LEMMA RunningTypeNext == TypeOK' => Running' \in [Images -> MaybeDigest]
BY DEF TypeOK, HostOK, Container, Running

------------------------------------------------------------------------------
(* Every step is a step of DeployCycle or a stutter *)

USE DEF View, CallerView, VerifierView, IdleView

CycleStep == [Cycle!Next]_Cycle!vars

LEMMA Stutter ==
    ASSUME UNCHANGED <<deploying, CyclePhase, Running, CycleSaved>>
    PROVE  CycleStep
BY DEF CycleStep, Cycle!vars

\* An operation gives the guard back, and the containers are as they were or,
\* after a compose that failed, whatever they are.
LEMMA EndStep ==
    ASSUME GuardedConfig, TypeOK', CycleInv, CycleInv',
           \/ \E c \in Callers : Operating(c)
           \/ \E v \in Verifiers : Verifying(v),
           \A c \in Callers : ~Operating(c)',
           \A v \in Verifiers : ~Verifying(v)',
           \/ Running' = Running
           \/ \E c \in Callers : Operating(c)
           \/ \E v \in Verifiers : vpc[v] \in {"retag", "rollbackUp"}
    PROVE  CycleStep
<1>1. View /\ View' /\ Running' \in [Images -> MaybeDigest]
  BY ViewHolds, ViewHoldsNext, RunningTypeNext DEF CycleInv
<1>2. CyclePhase # "free"
  BY <1>1 DEF Verifying
<1>3. CyclePhase' = "free" /\ deploying' = FALSE /\ CycleSaved' = [i \in Images |-> {}]
  <2>1. ~deploying' /\ deploying' \in BOOLEAN
    BY <1>1 DEF TypeOK, ProcessOK
  <2> QED BY <1>1, <2>1
<1>4. Running' = Running \/ CyclePhase \in {"composing", "restoring"}
  BY <1>1 DEF Verifying
<1>5. Cycle!End
  BY <1>1, <1>2, <1>3, <1>4 DEF Cycle!End, Cycle!Recreated, Cycle!Nothing, Cycle!MaybeDigest, MaybeDigest
<1> QED BY <1>5 DEF CycleStep, Cycle!Next

LEMMA QuietStep == ASSUME Quiet PROVE CycleStep
<1>1. CyclePhase' = CyclePhase
  BY DEF Quiet, CyclePhase, Verifying
<1>2. CycleSaved' = CycleSaved
  <2>1. {d \in Callers : pc[d] \in {"pull", "up"}}' = {d \in Callers : pc[d] \in {"pull", "up"}}
    BY DEF Quiet, Operating
  <2>2. {w \in Verifiers : Verifying(w)}' = {w \in Verifiers : Verifying(w)}
    BY DEF Quiet, Verifying
  <2>3. \A d \in Callers : pc[d] \in {"pull", "up"} => job'[d] = job[d]
    BY DEF Quiet, Operating
  <2>4. \A i \in Images : {job'[c].old[i] : c \in {d \in Callers : pc'[d] \in {"pull", "up"}}}
                          = {job[c].old[i] : c \in {d \in Callers : pc[d] \in {"pull", "up"}}}
    BY <2>1, <2>3
  <2>5. \A i \in Images : {vjob'[v].old[i] : v \in {w \in Verifiers : Verifying(w)'}}
                          = {vjob[v].old[i] : v \in {w \in Verifiers : Verifying(w)}}
    BY <2>2 DEF Quiet
  <2> QED BY <2>4, <2>5 DEF CycleSaved
<1>3. CASE Running' = Running
  BY <1>1, <1>2, <1>3, Stutter DEF Quiet
<1>4. CASE Running' = NoDigests
  <2>1. Cycle!Down
    BY <1>1, <1>2, <1>4 DEF Cycle!Down, Quiet, NoDigests
  <2> QED BY <2>1 DEF CycleStep, Cycle!Next
<1> QED BY <1>3, <1>4 DEF Quiet

\* Another service takes a part of what was saved.
LEMMA LoseStep ==
    ASSUME UNCHANGED <<deploying, CyclePhase, Running>>, CycleSaved' \in [Images -> SUBSET Digests],
           \A i \in Images : CycleSaved'[i] \subseteq CycleSaved[i]
    PROVE  CycleStep
<1>1. Cycle!Lose
  BY DEF Cycle!Lose
<1> QED BY <1>1 DEF CycleStep, Cycle!Next

LEMMA SavedType == TypeOK => CycleSaved \in [Images -> SUBSET Digests]
<1> SUFFICES ASSUME TypeOK PROVE \A i \in Images :
      ({job[c].old[i] : c \in {d \in Callers : pc[d] \in {"pull", "up"}}}
          \union {vjob[v].old[i] : v \in {w \in Verifiers : Verifying(w)}}) \ {NoDigest} \in SUBSET Digests
  BY DEF CycleSaved
<1>1. \A c \in Callers, i \in Images : job[c].old[i] \in MaybeDigest
  BY DEF TypeOK, CallerOK, Job
<1>2. \A v \in Verifiers, i \in Images : vjob[v].old[i] \in MaybeDigest
  BY DEF TypeOK, VerifierOK, VJob
<1> QED BY <1>1, <1>2 DEF MaybeDigest

LEMMA SavedTypeNext == TypeOK' => CycleSaved' \in [Images -> SUBSET Digests]
<1> SUFFICES ASSUME TypeOK' PROVE \A i \in Images :
      ({job'[c].old[i] : c \in {d \in Callers : pc'[d] \in {"pull", "up"}}}
          \union {vjob'[v].old[i] : v \in {w \in Verifiers : Verifying(w)'}}) \ {NoDigest} \in SUBSET Digests
  BY DEF CycleSaved
<1>1. \A c \in Callers, i \in Images : job'[c].old[i] \in MaybeDigest
  BY DEF TypeOK, CallerOK, Job
<1>2. \A v \in Verifiers, i \in Images : vjob'[v].old[i] \in MaybeDigest
  BY DEF TypeOK, VerifierOK, VJob
<1> QED BY <1>1, <1>2 DEF MaybeDigest

LEMMA OtherServiceStep ==
    ASSUME TypeOK, TypeOK', NEW r \in Images, OtherService(r)
    PROVE  CycleStep
<1>1. /\ UNCHANGED <<pc, vpc, deploying, container>>
      /\ \A c \in Callers, i \in Images : job'[c].old[i] \in {job[c].old[i], NoDigest}
      /\ \A v \in Verifiers, i \in Images : vjob'[v].old[i] \in {vjob[v].old[i], NoDigest}
  BY OtherServiceEffect
<1>2. CyclePhase' = CyclePhase /\ Running' = Running
  BY <1>1 DEF CyclePhase, Running, Operating, Verifying
<1>3. CycleSaved' \in [Images -> SUBSET Digests]
  BY SavedTypeNext
<1>4. \A i \in Images : CycleSaved'[i] \subseteq CycleSaved[i]
  <2>1. {d \in Callers : pc'[d] \in {"pull", "up"}} = {d \in Callers : pc[d] \in {"pull", "up"}}
    BY <1>1
  <2>2. {w \in Verifiers : Verifying(w)'} = {w \in Verifiers : Verifying(w)}
    BY <1>1 DEF Verifying
  <2> QED BY <1>1, <2>1, <2>2 DEF CycleSaved
<1> QED BY <1>1, <1>2, <1>3, <1>4, LoseStep

LEMMA RestartStep ==
    ASSUME GuardedConfig, TypeOK, TypeOK', CycleInv, CycleInv', Restart
    PROVE  CycleStep
<1>1. /\ \A c \in Callers : ~Operating(c)'
      /\ \A v \in Verifiers : ~Verifying(v)'
      /\ Running' = Running
  BY DEF Restart, Operating, Verifying, Running, hostVars
<1>2. CASE (\E c \in Callers : Operating(c)) \/ (\E v \in Verifiers : Verifying(v))
  BY <1>1, <1>2, EndStep
<1>3. CASE (\A c \in Callers : ~Operating(c)) /\ (\A v \in Verifiers : ~Verifying(v))
  <2>1. View /\ View'
    BY ViewHolds, ViewHoldsNext DEF CycleInv
  <2>a. CyclePhase = "free" /\ CycleSaved = [i \in Images |-> {}]
    BY <1>3, <2>1
  <2>b. CyclePhase' = "free" /\ CycleSaved' = [i \in Images |-> {}]
    BY <1>1, <2>1
  <2>2. UNCHANGED <<CyclePhase, CycleSaved>>
    BY <2>a, <2>b
  <2>3. deploying' = deploying
    <3>1. ~deploying /\ deploying \in BOOLEAN /\ deploying' = FALSE
      BY <1>3, <2>1 DEF Restart, TypeOK, ProcessOK
    <3> QED BY <3>1
  <2> QED BY <1>1, <2>2, <2>3, Stutter
<1> QED BY <1>2, <1>3

\* The steps of a deploy in a caller.
LEMMA DeployStep ==
    ASSUME GuardedConfig, TypeOK, TypeOK', CycleInv, CycleInv', NEW c \in Callers,
           \/ DeployBegins(c) \/ TagRollback(c) \/ Pull(c) \/ PullFails(c) \/ Up(c) \/ UpFails(c)
    PROVE  CycleStep
<1>0. View /\ View'
  BY ViewHolds, ViewHoldsNext DEF CycleInv
<1>1. CASE DeployBegins(c)
  <2>1. ~deploying /\ deploying' = TRUE /\ pc'[c] = "tag" /\ Running' = Running
    BY <1>1, GotoEffect DEF DeployBegins, TryStartDeploy, Running, hostVars, TypeOK
  <2>2. (\A d \in Callers : ~Operating(d)) /\ (\A v \in Verifiers : ~Verifying(v))
    BY <2>1 DEF CycleInv, GuardInv, OperationHasGuard
  <2>3. CyclePhase = "free" /\ CycleSaved = [i \in Images |-> {}]
    BY <1>0, <2>2
  <2>4. CyclePhase' = "composing" /\ \A i \in Images : CycleSaved'[i] = {}
    BY <1>0, <2>1 DEF Operating
  <2>5. CycleSaved' = CycleSaved
    BY <2>3, <2>4 DEF CycleSaved
  <2>6. Cycle!Begin
    BY <2>1, <2>3, <2>4, <2>5 DEF Cycle!Begin
  <2> QED BY <2>6 DEF CycleStep, Cycle!Next
<1>2. CASE TagRollback(c)
  <2>1. /\ pc[c] = "tag" /\ pc'[c] = "pull" /\ UNCHANGED <<deploying, container>>
        /\ \A i \in Images : job'[c].old[i] # NoDigest => job'[c].old[i] = container[i].digest
    BY <1>2, TagRollbackEffect
  <2>2. CyclePhase = "composing" /\ CyclePhase' = "composing"
    BY <1>0, <2>1 DEF Operating
  <2>3. \A i \in Images : CycleSaved'[i] = {job'[c].old[i]} \ {NoDigest}
    BY <1>0, <2>1 DEF Operating
  <2>4. \A i \in Images : CycleSaved'[i] \subseteq {Running[i]}
    BY <2>1, <2>3 DEF Running
  <2>5. CycleSaved' \in [Images -> SUBSET Digests]
    <3>1. \A i \in Images : job'[c].old[i] \in MaybeDigest
      BY DEF TypeOK, CallerOK, Job
    <3>2. \A i \in Images : CycleSaved'[i] \in SUBSET Digests
      BY <2>3, <3>1 DEF MaybeDigest
    <3> QED BY <3>2 DEF CycleSaved
  <2>6. Running' = Running
    BY <2>1 DEF Running
  <2>7. Cycle!Save
    BY <2>1, <2>2, <2>4, <2>5, <2>6 DEF Cycle!Save
  <2> QED BY <2>7 DEF CycleStep, Cycle!Next
<1>3. CASE Pull(c)
  <2>1. /\ pc[c] = "pull" /\ pc'[c] = "up" /\ job'[c] = job[c] /\ UNCHANGED <<deploying, container>>
    BY <1>3, GotoEffect DEF Pull, ComposePull, TypeOK
  <2>2. Operating(c) /\ Operating(c)'
    BY <2>1 DEF Operating
  <2>3. CyclePhase' = CyclePhase
    BY <1>0, <2>2
  <2>4. \A i \in Images : CycleSaved[i] = {job[c].old[i]} \ {NoDigest}
    BY <1>0, <2>1, <2>2
  <2>5. \A i \in Images : CycleSaved'[i] = {job'[c].old[i]} \ {NoDigest}
    <3>1. CallerView(c)' /\ pc'[c] = "up"
      BY <1>0, <2>1
    <3> QED BY <2>2, <3>1
  <2>6. CycleSaved' = CycleSaved
    BY <2>1, <2>4, <2>5 DEF CycleSaved
  <2>7. Running' = Running
    BY <2>1 DEF Running
  <2> QED BY <2>1, <2>3, <2>6, <2>7, Stutter
<1>4. CASE PullFails(c) \/ UpFails(c)
  <2>1. /\ Operating(c) /\ pc'[c] = "idle" /\ UNCHANGED <<vpc, vjob>>
        /\ \A d \in Callers \ {c} : pc'[d] = pc[d]
    BY <1>4, FailEffect DEF CycleInv
  <2>2. /\ \A d \in Callers : ~Operating(d)'
        /\ \A v \in Verifiers : ~Verifying(v)'
    BY <2>1, AloneCaller DEF CycleInv, Operating, Verifying
  <2> QED BY <2>1, <2>2, EndStep
<1>5. CASE Up(c)
  <2>1. pc[c] = "up" /\ UNCHANGED deploying
    BY <1>5, UpEffect DEF CycleInv
  <2>2. PICK v \in Verifiers : vpc'[v] = "poll" /\ vjob'[v].old = job[c].old
    BY <1>5, UpEffect DEF CycleInv
  <2>3. CyclePhase = "composing" /\ CyclePhase' = "verifying"
    BY <1>0, <2>1, <2>2 DEF Operating, Verifying
  <2>a. \A i \in Images : CycleSaved[i] = {job[c].old[i]} \ {NoDigest}
    BY <1>0, <2>1 DEF Operating
  <2>b. \A i \in Images : CycleSaved'[i] = {vjob'[v].old[i]} \ {NoDigest}
    <3>1. VerifierView(v)' /\ Verifying(v)'
      BY <1>0, <2>2 DEF Verifying
    <3> QED BY <3>1
  <2>4. \A i \in Images : CycleSaved'[i] = CycleSaved[i]
    BY <2>2, <2>a, <2>b
  <2>5. CycleSaved' = CycleSaved
    BY <2>4 DEF CycleSaved
  <2>6. Cycle!Compose
    BY <2>1, <2>3, <2>5, RunningTypeNext
       DEF Cycle!Compose, Cycle!Recreated, Cycle!MaybeDigest, MaybeDigest
  <2> QED BY <2>6 DEF CycleStep, Cycle!Next
<1> QED BY <1>1, <1>2, <1>3, <1>4, <1>5

\* The steps of a verifier.  The container changes only in compose up.
LEMMA VerifierKeeps ==
    ASSUME NEW v \in Verifiers, VerifierStep(v), vpc[v] # "rollbackUp"
    PROVE  Running' = Running
BY DEF VerifierStep, VerifyHealthy, VerifyGivesUp, VerifyCancelled, Retag, RollbackUp, RollbackUpFails,
       CleanupRollbacks, hostVars, Running

LEMMA VerifierCycleStep ==
    ASSUME GuardedConfig, TypeOK, TypeOK', CycleInv, CycleInv', NEW v \in Verifiers, VerifierStep(v)
    PROVE  CycleStep
<1>0. View /\ View'
  BY ViewHolds, ViewHoldsNext DEF CycleInv
<1>1. /\ Verifying(v) /\ UNCHANGED <<pc, job>> /\ VerifierMoves(v)
      /\ \A w \in Verifiers \ {v} : vpc'[w] = vpc[w] /\ vjob'[w] = vjob[w]
  BY VerifierEffect
<1>2. /\ \A c \in Callers : ~Operating(c)'
      /\ \A w \in Verifiers \ {v} : ~Verifying(w)'
  BY <1>1, AloneVerifier DEF CycleInv, Operating, Verifying
<1>3. CASE vpc'[v] = "idle"
  <2>1. \A w \in Verifiers : ~Verifying(w)'
    BY <1>2, <1>3 DEF Verifying
  <2>2. Running' = Running \/ vpc[v] = "rollbackUp"
    BY VerifierKeeps
  <2> QED BY <1>1, <1>2, <2>1, <2>2, EndStep
<1>4. CASE vpc'[v] # "idle"
  <2>1. /\ UNCHANGED deploying /\ Verifying(v)'
        /\ \A i \in Images : vjob'[v].old[i] \in {vjob[v].old[i], NoDigest}
    BY <1>1, <1>4 DEF VerifierMoves, Verifying
  <2>a. \A i \in Images : CycleSaved[i] = {vjob[v].old[i]} \ {NoDigest}
    BY <1>0, <1>1
  <2>b. \A i \in Images : CycleSaved'[i] = {vjob'[v].old[i]} \ {NoDigest}
    BY <1>0, <2>1
  <2>3. ASSUME vjob' = vjob PROVE CycleSaved' = CycleSaved
    BY <2>a, <2>b, <2>3 DEF CycleSaved
  <2>c. ASSUME NEW label, VGoto(v, label) PROVE CycleSaved' = CycleSaved
    BY <2>3, <2>c DEF VGoto
  <2>4. ASSUME NEW label, VGoto(v, label) PROVE vpc'[v] = label
    BY <2>4, VGotoEffect DEF TypeOK
  <2>5. ASSUME VReturn(v) PROVE FALSE
    BY <1>4, <2>5, VReturnEffect DEF TypeOK
  <2>6. CASE VerifyHealthy(v)
    <3>1. vpc[v] = "poll" /\ vpc'[v] = "accepted"
      BY <2>4, <2>5, <2>6 DEF VerifyHealthy
    <3>2. CycleSaved' = CycleSaved
      BY <2>5, <2>6, <2>c DEF VerifyHealthy
    <3>3. Cycle!Accept
      BY <1>0, <1>1, <2>1, <3>1, <3>2, VerifierKeeps DEF Cycle!Accept
    <3> QED BY <3>3 DEF CycleStep, Cycle!Next
  <2>7. CASE VerifyGivesUp(v)
    <3>1. vpc[v] = "poll" /\ vpc'[v] = "retag"
      BY <2>4, <2>5, <2>7 DEF VerifyGivesUp
    <3>2. CycleSaved' = CycleSaved
      BY <2>5, <2>7, <2>c DEF VerifyGivesUp
    <3>3. Cycle!RollBack
      BY <1>0, <1>1, <2>1, <3>1, <3>2, VerifierKeeps DEF Cycle!RollBack
    <3> QED BY <3>3 DEF CycleStep, Cycle!Next
  <2>8. CASE Retag(v)
    <3>1. vpc[v] = "retag" /\ vpc'[v] = "rollbackUp"
      BY <2>5, <2>8, GoOnEffect DEF TypeOK, Retag, AfterRetag
    <3>2. CyclePhase' = CyclePhase
      BY <1>0, <1>1, <2>1, <3>1
    <3>3. \A i \in Images : CycleSaved'[i] \subseteq CycleSaved[i]
      BY <2>1, <2>a, <2>b
    <3> QED BY <2>1, <3>1, <3>2, <3>3, VerifierKeeps, SavedTypeNext, LoseStep
  <2>9. CASE RollbackUp(v)
    <3>1. vpc[v] = "rollbackUp" /\ vpc'[v] = "restored"
      BY <2>4, <2>9 DEF RollbackUp
    <3>2. \A i \in Images : CycleSaved[i] \subseteq {Running'[i]}
      BY <1>0, <1>1, <2>9, RollbackUpEffect DEF Running
    <3>3. CyclePhase = "restoring" /\ CyclePhase' = "done"
      BY <1>0, <1>1, <2>1, <3>1
    <3>5. CycleSaved' = CycleSaved
      BY <2>9, <2>c DEF RollbackUp
    <3>4. Cycle!Restore
      BY <2>1, <3>2, <3>3, <3>5, RunningTypeNext
         DEF Cycle!Restore, Cycle!Restored, Cycle!Recreated, Cycle!MaybeDigest, MaybeDigest
    <3> QED BY <3>4 DEF CycleStep, Cycle!Next
  <2>10. CASE VerifyCancelled(v) \/ RollbackUpFails(v) \/ CleanupRollbacks(v)
    BY <2>5, <2>10 DEF VerifyCancelled, RollbackUpFails, CleanupRollbacks
  <2> QED BY <2>6, <2>7, <2>8, <2>9, <2>10 DEF VerifierStep
<1> QED BY <1>3, <1>4

LEMMA CycleInit == ASSUME Init PROVE Cycle!Init
<1>1. TypeOK /\ GuardInv
  BY InitType, CycleInvInit DEF CycleInv
<1>2. deploying = FALSE /\ CyclePhase = "free" /\ CycleSaved = [i \in Images |-> {}]
  BY <1>1, ViewHolds DEF Init, FreshProcess, Operating, Verifying
<1> QED BY <1>1, <1>2, RunningType DEF Cycle!Init, Cycle!Nothing, Cycle!MaybeDigest, MaybeDigest

\* The goroutines together behave as one guarded operation after another, which
\* loses what it saved at most to another service, for every number of images,
\* digests, requests and verifiers, every fault, and restarts of the process at
\* any point.
THEOREM UpdaterImplementsCycle == ASSUME GuardedConfig PROVE Spec => CycleSpec
<1>1. TypeOK /\ TypeOK' /\ CycleInv /\ CycleInv' /\ [Next]_vars => [Cycle!Next]_Cycle!vars
  BY QuietOrOperation, GuardedOperation, QuietStep, RestartStep, OtherServiceStep, DeployStep,
     VerifierCycleStep
     DEF CycleInv, CycleStep
<1> QED BY CycleInvHolds, CycleInit, <1>1, PTL DEF Spec, CycleSpec, Cycle!Spec

=============================================================================
