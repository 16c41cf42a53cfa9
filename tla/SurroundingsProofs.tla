------------------------- MODULE SurroundingsProofs -------------------------
(***************************************************************************)
(* Theorems about Accounts.tla and Publishing.tla, for any users, requests *)
(* in flight, builds and versions; and about MCSurroundings.tla, whose one *)
(* behaviour explores these two and the five components whose theorems are *)
(* in RateLimiterProofs.tla, ArrivalProofs.tla and FeedProofs.tla.         *)
(***************************************************************************)
EXTENDS MCSurroundings, RateLimiterProofs, ArrivalProofs, FeedProofs, TLAPS

-----------------------------------------------------------------------------
(* Accounts.                                                               *)

\* Nobody asks for a change of their own account.
AccountsInv ==
    /\ AccountsTypeOK
    /\ change \in [Changes -> [by : Users \cup {NoUser}, of : Users \cup {NoUser},
                               column : {"admin", "active"}, to : BOOLEAN]]
    /\ \A x \in Changes : change[x] # NoChange => change[x].by # change[x].of

\* Every variable keeps its type, and rights belong to accounts that exist
\* (bootstrap_admin, login_submit, user_action).
THEOREM AccountsTypeCorrect == AccountsSpec => []AccountsInv
<1> USE AccountsAssumption DEF AccountsInv, AccountsTypeOK
<1>1. AccountsInit => AccountsInv
  <2> SUFFICES ASSUME AccountsInit PROVE AccountsInv
    OBVIOUS
  <2>1. NoChange \in [by : Users \cup {NoUser}, of : Users \cup {NoUser},
                      column : {"admin", "active"}, to : BOOLEAN]
    BY DEF NoChange
  <2>2. lapsed \in BOOLEAN
    BY Zenon DEF AccountsInit
  <2> QED BY <2>1, <2>2 DEF AccountsInit
<1>2. AccountsInv /\ [AccountsNext]_accountVars => AccountsInv'
  <2> SUFFICES ASSUME AccountsInv, [AccountsNext]_accountVars PROVE AccountsInv'
    OBVIOUS
  <2>1. ASSUME NEW u \in Users, Boots(u) PROVE AccountsInv'
    <3>1. /\ accounts' = accounts \cup {u} /\ admin' = admin \cup {u}
          /\ active' \subseteq accounts' /\ cookie' = cookie
      BY <2>1 DEF Boots
    <3>2. change' = [x \in Changes |-> NoChange]
      BY <2>1 DEF Boots
    <3>3. NoChange \in [by : Users \cup {NoUser}, of : Users \cup {NoUser},
                        column : {"admin", "active"}, to : BOOLEAN]
      BY DEF NoChange
    <3>4. lapsed' \in BOOLEAN
      BY <2>1, Zenon DEF Boots
    <3> QED BY <3>1, <3>2, <3>3, <3>4
  <2>2. ASSUME NEW u \in Users, SignsIn(u) \/ SignsOut(u) PROVE AccountsInv'
    BY <2>2 DEF SignsIn, SignsOut, InCharge
  <2>3. ASSUME NEW x \in Changes, NEW u \in Users, NEW t \in Users,
               NEW column \in {"admin", "active"}, ChangeBegins(x, u, t, column)
        PROVE  AccountsInv'
    <3> DEFINE asked == [by |-> u, of |-> t, column |-> column,
                         to |-> IF column = "admin" THEN t \notin admin ELSE t \notin active]
    <3>1. change' = [change EXCEPT ![x] = asked] /\ u # t /\ u \in accounts /\ t \in accounts
      BY <2>3 DEF ChangeBegins, MayChange, Admitted
    <3>2. asked.to \in BOOLEAN
      BY Zenon
    <3>3. asked \in [by : accounts, of : accounts, column : {"admin", "active"}, to : BOOLEAN]
      BY <3>1, <3>2
    <3>4. UNCHANGED <<accounts, active, admin, cookie, lapsed>>
      BY <2>3 DEF ChangeBegins
    <3>5. asked.by # asked.of
      BY <3>1
    <3> HIDE DEF asked
    <3> QED BY <3>1, <3>3, <3>4, <3>5
  <2>4. ASSUME NEW x \in Changes, ChangeCommits(x) PROVE AccountsInv'
    <3>1. change[x].of \in accounts
      BY <2>4 DEF ChangeCommits
    <3>2. admin' \subseteq accounts /\ active' \subseteq accounts
      BY <2>4, <3>1 DEF ChangeCommits, Turned
    <3>3. change' = [change EXCEPT ![x] = NoChange] /\ UNCHANGED <<accounts, cookie>>
      BY <2>4 DEF ChangeCommits
    <3>4. NoChange \in [by : Users \cup {NoUser}, of : Users \cup {NoUser},
                        column : {"admin", "active"}, to : BOOLEAN]
      BY DEF NoChange
    <3>5. lapsed' \in BOOLEAN
      BY <2>4, Zenon DEF ChangeCommits
    <3> QED BY <3>2, <3>3, <3>4, <3>5
  <2>5. CASE UNCHANGED accountVars
    BY <2>5 DEF accountVars
  <2> QED BY <2>1, <2>2, <2>3, <2>4, <2>5 DEF AccountsNext
<1> QED BY <1>1, <1>2, PTL DEF AccountsSpec

\* Nobody can take the last active administrator's rights away but through a
\* request that outlived its author's own (user_action, bootstrap_admin).
THEOREM SomebodyStaysInCharge == AccountsSpec => []SomebodyInCharge
<1>1. AccountsInit => SomebodyInCharge
  BY DEF AccountsInit, SomebodyInCharge
<1>2. AccountsInv /\ SomebodyInCharge /\ [AccountsNext]_accountVars => SomebodyInCharge'
  <2> SUFFICES ASSUME AccountsInv, SomebodyInCharge, [AccountsNext]_accountVars
               PROVE  SomebodyInCharge'
    OBVIOUS
  <2> USE DEF SomebodyInCharge, InCharge
  <2>1. ASSUME NEW u \in Users, Boots(u) PROVE SomebodyInCharge'
    BY <2>1 DEF Boots, AccountsInv, AccountsTypeOK
  <2>2. ASSUME NEW x \in Changes, ChangeCommits(x) PROVE SomebodyInCharge'
    <3> SUFFICES ASSUME ~lapsed' PROVE InCharge' # {}
      OBVIOUS
    <3>1. change[x].by \in InCharge /\ change[x].by # change[x].of
      BY <2>2 DEF ChangeCommits, AccountsInv
    <3>2. change[x].by \in InCharge'
      BY <2>2, <3>1 DEF ChangeCommits, Turned
    <3> QED BY <3>2
  <2>3. CASE UNCHANGED <<accounts, active, admin, lapsed>>
    BY <2>3
  <2> QED
    BY <2>1, <2>2, <2>3 DEF AccountsNext, SignsIn, SignsOut, ChangeBegins, accountVars
<1> QED BY <1>1, <1>2, AccountsTypeCorrect, PTL DEF AccountsSpec

-----------------------------------------------------------------------------
(* Publishing.                                                             *)

\* Every variable keeps its type, and nobody announces the digest of a file
\* that is not there (publish_package, unpublish, main).
THEOREM PublishingTypeCorrect == PublishingSpec => []PublishingTypeOK
<1> USE PublishingAssumption DEF PublishingTypeOK, Contents
<1>1. PublishingInit => PublishingTypeOK
  <2> SUFFICES ASSUME PublishingInit PROVE PublishingTypeOK
    OBVIOUS
  <2>1. alone \in BOOLEAN
    BY Zenon DEF PublishingInit
  <2> QED BY <2>1 DEF PublishingInit, NoManifest, Resting
<1>2. PublishingTypeOK /\ [PublishingNext]_publishVars => PublishingTypeOK'
  <2> SUFFICES ASSUME PublishingTypeOK, [PublishingNext]_publishVars PROVE PublishingTypeOK'
    OBVIOUS
  <2> DEFINE Operations == [step : {"idle", "writing", "written", "announcing", "announced", "unlinking"},
                            build : Builds \cup {"absent"}, digest : Contents, left : SUBSET Versions]
  <2>1. ASSUME NEW w \in Writers, NEW b \in Builds, PublishBegins(w, b) PROVE PublishingTypeOK'
    <3>1. alone' \in BOOLEAN
      BY <2>1, Zenon DEF PublishBegins, Begun
    <3>2. work' = [work EXCEPT ![w] = [step |-> "writing", build |-> b, digest |-> "absent", left |-> {}]]
      BY <2>1 DEF PublishBegins
    <3>3. /\ outcome' = "unknown" /\ manifest' = manifest
          /\ file' = [file EXCEPT ![Version[b]] = "torn"]
      BY <2>1 DEF PublishBegins, Begun
    <3> QED BY <3>1, <3>2, <3>3
  <2>2. ASSUME NEW w \in Writers, PackageWritten(w) PROVE PublishingTypeOK'
    BY <2>2 DEF PackageWritten, Step, Target
  <2>3. ASSUME NEW w \in Writers, ManifestOpened(w) PROVE PublishingTypeOK'
    <3>1. work[w].build \in Builds /\ Target(w) \in Versions
      BY <2>3 DEF ManifestOpened, Target
    <3>2. Digest(w) \in Contents /\ Digest(w) # "absent"
      BY <2>3, <3>1 DEF ManifestOpened, CanDigest, Digest
    <3>3. work' = [work EXCEPT ![w] = [work[w] EXCEPT !.step = "announcing", !.digest = Digest(w)]]
      BY <2>3 DEF ManifestOpened
    <3>4. manifest' = [state |-> "torn", version |-> "absent", digest |-> "absent"]
      BY <2>3 DEF ManifestOpened, NoManifest
    <3>5. UNCHANGED <<file, alone, outcome>>
      BY <2>3 DEF ManifestOpened
    <3>6. [work[w] EXCEPT !.step = "announcing", !.digest = Digest(w)] \in Operations
      <4>1. work[w] \in Operations /\ Digest(w) \in Contents
        BY <3>2
      <4> QED BY ONLY <4>1
    <3>7. work' \in [Writers -> Operations]
      BY <3>3, <3>6
    <3>8. ASSUME NEW z \in Writers
          PROVE  /\ work'[z].step \in {"writing", "written", "announcing"} => work'[z].build \in Builds
                 /\ work'[z].step = "announcing" => work'[z].digest # "absent"
      BY <3>1, <3>2, <3>3
    <3> QED BY <3>4, <3>5, <3>7, <3>8
  <2>4. ASSUME NEW w \in Writers, ManifestWritten(w) PROVE PublishingTypeOK'
    BY <2>4 DEF ManifestWritten, Step, Target
  <2>5. ASSUME NEW w \in Writers, UnpublishBegins(w) PROVE PublishingTypeOK'
    <3>1. alone' \in BOOLEAN
      BY <2>5, Zenon DEF UnpublishBegins, Begun
    <3> QED BY <2>5, <3>1 DEF UnpublishBegins, Begun, Resting, NoManifest
  <2>6. ASSUME NEW w \in Writers, StaleListed(w) PROVE PublishingTypeOK'
    <3>1. {v \in Stale(w) : file[v] # "absent"} \in SUBSET Versions
      BY DEF Stale
    <3>2. work' = [work EXCEPT ![w] = [work[w] EXCEPT !.step = "unlinking",
                                     !.left = {v \in Stale(w) : file[v] # "absent"}]]
      BY <2>6 DEF StaleListed
    <3>3. UNCHANGED <<file, manifest, alone, outcome>>
      BY <2>6 DEF StaleListed
    <3>4. [work[w] EXCEPT !.step = "unlinking", !.left = {v \in Stale(w) : file[v] # "absent"}] \in Operations
      <4> DEFINE superseded == {v \in Stale(w) : file[v] # "absent"}
      <4>1. work[w] \in Operations /\ superseded \in SUBSET Versions
        BY <3>1
      <4> HIDE DEF superseded
      <4>2. [work[w] EXCEPT !.step = "unlinking", !.left = superseded] \in Operations
        BY ONLY <4>1
      <4> QED BY <4>2 DEF superseded
    <3>5. work' \in [Writers -> Operations]
      BY <3>2, <3>4
    <3>6. ASSUME NEW z \in Writers
          PROVE  /\ work'[z].step \in {"writing", "written", "announcing"} => work'[z].build \in Builds
                 /\ work'[z].step = "announcing" => work'[z].digest # "absent"
      BY <3>1, <3>2
    <3> QED BY <3>3, <3>5, <3>6
  <2>7. ASSUME NEW w \in Writers, NEW v \in Versions, Unlinked(w, v) PROVE PublishingTypeOK'
    BY <2>7 DEF Unlinked
  <2>8. ASSUME NEW w \in Writers, Finishes(w) \/ Dies(w) PROVE PublishingTypeOK'
    BY <2>8 DEF Finishes, Dies, Resting
  <2>9. CASE UNCHANGED publishVars
    BY <2>9 DEF publishVars
  <2> QED
    BY <2>1, <2>2, <2>3, <2>4, <2>5, <2>6, <2>7, <2>8, <2>9 DEF PublishingNext
<1> QED BY <1>1, <1>2, PTL DEF PublishingSpec

\* What a finished publication of b, or a withdrawal, leaves behind.
Serves(b) ==
    /\ b \in Builds => /\ manifest = [state |-> "whole", version |-> Version[b], digest |-> b]
                       /\ file[Version[b]] = b
    /\ b = "absent" => manifest.state = "absent"

\* How far an operation that nobody disturbs has come.
OnCourse(w) ==
    /\ work[w].step = "writing" => file[Target(w)] # "absent"
    /\ work[w].step \in {"written", "announcing"} => file[Target(w)] = work[w].build
    /\ work[w].step = "announcing" => work[w].digest = work[w].build /\ manifest.state = "torn"
    /\ work[w].step \in {"announced", "unlinking"} => Serves(work[w].build)
    /\ work[w].left # {} => work[w].step = "unlinking" /\ work[w].left \subseteq Stale(w)

\* UndisturbedHolds is inductive once it says how each step of an operation
\* that is alone prepares the next.
PublishingInv ==
    /\ alone => \A w, z \in Writers : work[w] # Resting /\ work[z] # Resting => w = z
    /\ alone => \A w \in Writers : OnCourse(w)
    /\ outcome # "unknown" => Serves(outcome) /\ \A w \in Writers : work[w] = Resting

\* Nobody writes the same file as an operation that is alone.
LEMMA NobodyContests ==
    ASSUME PublishingInv, alone, NEW w \in Writers, work[w] # Resting,
           NEW step \in {"writing", "announcing"}
    PROVE  ~Contested(w, step)
BY DEF PublishingInv, Contested, Resting

\* Steps of one operation, after it began.
Proceeds(w) ==
    \/ PackageWritten(w) \/ ManifestOpened(w) \/ ManifestWritten(w) \/ StaleListed(w)
    \/ \E v \in Versions : Unlinked(w, v)

\* Each of its steps leaves on disk what the next one needs (publish_package).
LEMMA ProceedsOnCourse ==
    ASSUME PublishingTypeOK, PublishingInv, alone, NEW w \in Writers, Proceeds(w)
    PROVE  OnCourse(w)'
<1> USE PublishingAssumption DEF PublishingTypeOK, Contents, OnCourse, Serves
<1>0. OnCourse(w)
  BY DEF PublishingInv
<1>1. CASE PackageWritten(w)
  <2>1. work[w].step = "writing" /\ work' = [work EXCEPT ![w].step = "written"]
    BY <1>1 DEF PackageWritten, Step
  <2>2. ~Contested(w, "writing")
    BY <2>1, NobodyContests DEF Resting
  <2>3. file' = [file EXCEPT ![Target(w)] = work[w].build]
    BY <1>0, <1>1, <2>1, <2>2 DEF PackageWritten
  <2>4. work[w].left = {} /\ work[w].build \in Builds
    BY <1>0, <2>1
  <2>5. work'[w].step = "written" /\ work'[w].build = work[w].build /\ work'[w].left = {}
    BY <2>1, <2>4
  <2>6. file'[Target(w)] = work[w].build
    BY <2>3, <2>4 DEF Target
  <2> QED BY <2>5, <2>6 DEF Target
<1>2. CASE ManifestOpened(w)
  <2>1. /\ work[w].step = "written" /\ manifest'.state = "torn" /\ file' = file
        /\ work' = [work EXCEPT ![w] = [work[w] EXCEPT !.step = "announcing", !.digest = Digest(w)]]
    BY <1>2 DEF ManifestOpened, NoManifest
  <2>2. Digest(w) = work[w].build
    BY <1>0, <2>1 DEF Digest
  <2> QED BY <1>0, <2>1, <2>2 DEF Target
<1>3. CASE ManifestWritten(w)
  <2>1. work[w].step = "announcing" /\ work' = [work EXCEPT ![w].step = "announced"] /\ file' = file
    BY <1>3 DEF ManifestWritten, Step
  <2>2. ~Contested(w, "announcing")
    BY <2>1, NobodyContests DEF Resting
  <2>3. manifest' = [state |-> "whole", version |-> Target(w), digest |-> work[w].digest]
    BY <1>0, <1>3, <2>1, <2>2 DEF ManifestWritten
  <2> QED BY <1>0, <2>1, <2>3 DEF Target
<1>4. CASE StaleListed(w)
  <2>1. /\ work[w].step = "announced" /\ UNCHANGED <<file, manifest>>
        /\ work' = [work EXCEPT ![w] = [work[w] EXCEPT !.step = "unlinking",
                                 !.left = {v \in Stale(w) : file[v] # "absent"}]]
    BY <1>4 DEF StaleListed
  <2> QED BY <1>0, <2>1 DEF Target, Stale
<1>5. ASSUME NEW v \in Versions, Unlinked(w, v) PROVE OnCourse(w)'
  <2>1. /\ v \in work[w].left /\ manifest' = manifest
        /\ work' = [work EXCEPT ![w].left = @ \ {v}]
        /\ file' = [file EXCEPT ![v] = "absent"]
    BY <1>5 DEF Unlinked
  <2>2. /\ work'[w].step = work[w].step /\ work'[w].build = work[w].build
        /\ work'[w].left \subseteq work[w].left
    BY <2>1
  <2>3. work[w].step = "unlinking" /\ v \in Stale(w)
    BY <1>0, <2>1
  <2>4. work[w].build \in Builds => file'[Target(w)] = file[Target(w)]
    BY <2>1, <2>3 DEF Stale, Target
  <2>5. Serves(work[w].build)'
    BY <1>0, <2>1, <2>2, <2>3, <2>4 DEF Target
  <2> HIDE DEF Serves
  <2> QED BY <1>0, <2>2, <2>3, <2>5 DEF Target, Stale
<1> QED BY <1>1, <1>2, <1>3, <1>4, <1>5 DEF Proceeds

\* A publication or withdrawal that overlapped no other has its effect,
\* whatever crashes, clashes and torn files came before it (publish_package,
\* unpublish, main).
THEOREM UndisturbedOnesHold == PublishingSpec => []UndisturbedHolds
<1> USE PublishingAssumption
<1>1. PublishingInit => PublishingInv
  BY DEF PublishingInit, PublishingInv, OnCourse, Resting
<1>2. PublishingTypeOK /\ PublishingInv /\ [PublishingNext]_publishVars => PublishingInv'
  <2> SUFFICES ASSUME PublishingTypeOK, PublishingInv, [PublishingNext]_publishVars
               PROVE  PublishingInv'
    OBVIOUS
  <2>1. ASSUME NEW w \in Writers, NEW b \in Builds, PublishBegins(w, b) PROVE PublishingInv'
    <3>1. /\ work[w] = Resting
          /\ work' = [work EXCEPT ![w] = [step |-> "writing", build |-> b, digest |-> "absent", left |-> {}]]
          /\ alone' = (\A z \in Writers : work[z] = Resting)
          /\ outcome' = "unknown" /\ file' = [file EXCEPT ![Version[b]] = "torn"]
      BY <2>1 DEF PublishBegins, Begun
    <3>2. \A z \in Writers \ {w} : work'[z] = work[z]
      BY <3>1 DEF PublishingTypeOK
    <3>3. work'[w] = [step |-> "writing", build |-> b, digest |-> "absent", left |-> {}]
      BY <3>1 DEF PublishingTypeOK
    <3>4. OnCourse(w)'
      BY <3>1, <3>3 DEF OnCourse, Target, PublishingTypeOK
    <3>5. alone' => \A z \in Writers \ {w} : work'[z] = Resting
      BY <3>1, <3>2
    <3>6. \A z \in Writers \ {w} : work'[z] = Resting => OnCourse(z)'
      BY DEF OnCourse, Resting
    <3> QED BY <3>1, <3>4, <3>5, <3>6 DEF PublishingInv
  <2>2. ASSUME NEW w \in Writers, UnpublishBegins(w) PROVE PublishingInv'
    <3>1. /\ work[w] = Resting /\ work' = [work EXCEPT ![w].step = "announced"]
          /\ alone' = (\A z \in Writers : work[z] = Resting)
          /\ outcome' = "unknown" /\ manifest' = NoManifest
      BY <2>2 DEF UnpublishBegins, Begun
    <3>2. \A z \in Writers \ {w} : work'[z] = work[z]
      BY <3>1 DEF PublishingTypeOK
    <3>3. work'[w].step = "announced" /\ work'[w].build = "absent"
      BY <3>1 DEF PublishingTypeOK, Resting
    <3>4. OnCourse(w)'
      <4>1. work'[w].left = {}
        BY <3>1 DEF PublishingTypeOK, Resting
      <4> QED BY <3>1, <3>3, <4>1 DEF OnCourse, Serves, NoManifest
    <3>5. alone' => \A z \in Writers \ {w} : work'[z] = Resting
      BY <3>1, <3>2
    <3>6. \A z \in Writers \ {w} : work'[z] = Resting => OnCourse(z)'
      BY DEF OnCourse, Resting
    <3> QED BY <3>1, <3>4, <3>5, <3>6 DEF PublishingInv
  <2>3. ASSUME NEW w \in Writers, Proceeds(w) PROVE PublishingInv'
    <3>1. UNCHANGED <<alone, outcome>> /\ work[w] # Resting
      BY <2>3 DEF Proceeds, PackageWritten, ManifestOpened, ManifestWritten, StaleListed,
                  Unlinked, Step, Resting
    <3>2. outcome = "unknown"
      BY <3>1 DEF PublishingInv
    <3>3. \A z \in Writers \ {w} : work'[z] = work[z]
      BY <2>3 DEF Proceeds, PackageWritten, ManifestOpened, ManifestWritten, StaleListed,
                  Unlinked, Step, PublishingTypeOK
    <3>4. ASSUME alone PROVE \A z \in Writers : OnCourse(z)'
      <4>1. OnCourse(w)'
        BY <2>3, <3>4, ProceedsOnCourse
      <4>2. \A z \in Writers \ {w} : work'[z] = Resting
        BY <3>1, <3>3, <3>4 DEF PublishingInv
      <4> QED BY <4>1, <4>2 DEF OnCourse, Resting
    <3>5. ASSUME alone PROVE \A y, z \in Writers : work'[y] # Resting /\ work'[z] # Resting => y = z
      BY <3>1, <3>3, <3>5 DEF PublishingInv
    <3> QED BY <3>1, <3>2, <3>4, <3>5 DEF PublishingInv
  <2>4. ASSUME NEW w \in Writers, Finishes(w) PROVE PublishingInv'
    <3>1. /\ work[w].step = "unlinking" /\ work' = [work EXCEPT ![w] = Resting]
          /\ outcome' = (IF alone THEN work[w].build ELSE "unknown")
          /\ UNCHANGED <<file, manifest, alone>>
      BY <2>4 DEF Finishes
    <3>2. alone => Serves(work[w].build)
      BY <3>1 DEF PublishingInv, OnCourse
    <3>3. alone => \A z \in Writers : work'[z] = Resting
      BY <3>1 DEF PublishingInv, Resting, PublishingTypeOK
    <3>4. alone => \A z \in Writers : OnCourse(z)'
      <4>1. Resting.step = "idle" /\ Resting.left = {}
        BY DEF Resting
      <4> QED BY <3>3, <4>1 DEF OnCourse
    <3>5. alone => Serves(outcome)'
      BY <3>1, <3>2 DEF Serves
    <3> QED BY <3>1, <3>3, <3>4, <3>5 DEF PublishingInv
  <2>5. ASSUME NEW w \in Writers, Dies(w) PROVE PublishingInv'
    <3>1. /\ work[w] # Resting /\ work' = [work EXCEPT ![w] = Resting]
          /\ UNCHANGED <<file, manifest, alone, outcome>>
      BY <2>5 DEF Dies
    <3>2. \A z \in Writers : work'[z] = Resting \/ work'[z] = work[z]
      BY <3>1 DEF PublishingTypeOK
    <3>3. outcome = "unknown"
      BY <3>1 DEF PublishingInv
    <3>4. alone => \A z \in Writers : OnCourse(z)'
      BY <3>1, <3>2 DEF PublishingInv, OnCourse, Resting, Target, Serves, Stale
    <3> QED BY <3>1, <3>2, <3>3, <3>4 DEF PublishingInv
  <2>6. CASE UNCHANGED publishVars
    BY <2>6 DEF publishVars, PublishingInv, OnCourse, Serves, Target, Stale
  <2> QED
    BY <2>1, <2>2, <2>3, <2>4, <2>5, <2>6 DEF PublishingNext, Proceeds
<1>3. PublishingInv => UndisturbedHolds
  BY DEF PublishingInv, UndisturbedHolds, Installable, Offered, Serves
<1> QED BY <1>1, <1>2, <1>3, PublishingTypeCorrect, PTL DEF PublishingSpec

-----------------------------------------------------------------------------
(***************************************************************************)
(* The seven components side by side.                                      *)
(***************************************************************************)
\* Whatever the run's behaviour is about, each component's part of it is a
\* behaviour of that component's own specification: what is proved of the
\* component holds in the run, and what the run refuted would be refuted of it.
THEOREM SideBySide ==
    MCSpec => /\ RateSpec /\ JoinSpec /\ CodesSpec
              /\ RolesSpec /\ AccountsSpec /\ PublishingSpec /\ FeedSpec
<1>1. MCInit => /\ RateInit /\ JoinInit /\ CodesInit
                /\ RolesInit /\ AccountsInit /\ PublishingInit /\ FeedInit
  BY DEF MCInit
<1>2. [MCNext]_mcVars => [RateNext]_rateVars
  BY DEF MCNext, Rest, mcVars
<1>3. [MCNext]_mcVars => [JoinNext]_joinVars
  BY DEF MCNext, Rest, mcVars
<1>4. [MCNext]_mcVars => [CodesNext]_codeVars
  BY DEF MCNext, Rest, mcVars
<1>5. [MCNext]_mcVars => [RolesNext]_roleVars
  BY DEF MCNext, Rest, mcVars
<1>6. [MCNext]_mcVars => [AccountsNext]_accountVars
  BY DEF MCNext, Rest, mcVars
<1>7. [MCNext]_mcVars => [PublishingNext]_publishVars
  BY DEF MCNext, Rest, mcVars
<1>8. [MCNext]_mcVars => [FeedNext]_feedVars
  BY DEF MCNext, Rest, mcVars
<1> QED
  BY <1>1, <1>2, <1>3, <1>4, <1>5, <1>6, <1>7, <1>8, PTL
     DEF MCSpec, RateSpec, JoinSpec, CodesSpec, RolesSpec, AccountsSpec, PublishingSpec,
         FeedSpec

\* Every variable of the seven keeps its type.
THEOREM TypesCorrect == MCSpec => []TypesOK
<1>1. RateInv => RateTypeOK
  BY DEF RateInv
<1>2. JoinTyped => JoinTypeOK
  BY DEF JoinTyped
<1>3. CodesInv => CodesTypeOK
  BY DEF CodesInv
<1>4. RolesInv => RolesTypeOK
  BY DEF RolesInv
<1>5. AccountsInv => AccountsTypeOK
  BY DEF AccountsInv
<1> QED
  BY <1>1, <1>2, <1>3, <1>4, <1>5, SideBySide, RateTypeCorrect, JoinTypeCorrect,
     CodesTypeCorrect, RolesTypeCorrect, AccountsTypeCorrect, PublishingTypeCorrect,
     FeedTypeCorrect, PTL
     DEF TypesOK
=============================================================================
