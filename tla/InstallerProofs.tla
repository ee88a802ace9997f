-------------------------- MODULE InstallerProofs --------------------------
(***************************************************************************)
(* Proofs about Installer for every configuration that satisfies          *)
(* InstallerAssumption and ListsAssumption: the type invariant, that a    *)
(* dry run never changes the host, and that a clean install repairs      *)
(* whatever earlier invocations left behind (RerunRepairs), through the  *)
(* inductive invariant IInv.                                               *)
(***************************************************************************)
EXTENDS Installer, TLAPS

-----------------------------------------------------------------------------
(* Lemmas on the operators the steps are built from. *)

LEMMA LoopSteps ==
  ToSet(Loops) = {"groups", "users", "dirs", "exes", "cfgs", "units", "sockets"}
BY DEF ToSet, Loops

(* The lists the steps walk: sockets walks the unit list again. *)
LEMMA ItemsOfLists ==
  /\ ItemsOf["groups"] = GroupList /\ ItemsOf["users"] = UserList
  /\ ItemsOf["dirs"] = DirList /\ ItemsOf["exes"] = ExeList
  /\ ItemsOf["cfgs"] = CfgList /\ ItemsOf["units"] = UnitList
  /\ ItemsOf["sockets"] = UnitList
BY DEF ItemsOf

(* The item at a position of a list is one of the configured items. *)
LEMMA ItemType ==
  ASSUME NEW j \in Nat, j >= 1
  PROVE  /\ j <= Len(GroupList) => GroupList[j] \in Groups
         /\ j <= Len(UserList) => UserList[j] \in Users
         /\ j <= Len(DirList) => DirList[j] \in Dirs
         /\ j <= Len(ExeList) => ExeList[j] \in Exes
         /\ j <= Len(CfgList) => CfgList[j] \in Cfgs
         /\ j <= Len(UnitList) => UnitList[j] \in Units
BY ListsAssumption

(* Every step's list of items has a length. *)
LEMMA ItemsLen ==
  ASSUME NEW s \in ToSet(Loops) PROVE Len(ItemsOf[s]) \in Nat
BY LoopSteps, ListsAssumption, ItemsOfLists

(* Where EndLoop goes next. *)
LEMMA AfterPhase ==
  ASSUME NEW s \in ToSet(Loops) PROVE After[s] \in Phases
BY LoopSteps DEF After, Phases

LEMMA MaxRunsNat == MaxRuns \in Nat
BY InstallerAssumption

-----------------------------------------------------------------------------
(* Type correctness. *)

LEMMA InitTypeOK == Init => TypeOK
<1>. SUFFICES ASSUME Init PROVE TypeOK
  OBVIOUS
<1>1. runs \in 0 .. MaxRuns /\ k \in Nat /\ k >= 1
  BY MaxRunsNat DEF Init
<1>2. pc \in Phases /\ pc \notin ToSet(Loops)
  BY LoopSteps DEF Init, Phases
<1>3. /\ groups \subseteq Groups /\ users \subseteq Users /\ dirs \subseteq Dirs
      /\ chowned \subseteq Owned /\ exes \subseteq Exes /\ cfgs \subseteq Cfgs
      /\ unitfiles \subseteq Units /\ enabled \subseteq Units /\ active \subseteq Units
  BY DEF Init
<1>4. /\ dry \in BOOLEAN /\ faulty \in BOOLEAN /\ verified \in BOOLEAN
      /\ mode \in {"install", "verify", "uninstall"}
      /\ exit \in {"none", "0", "1", "crash"}
  BY DEF Init
<1>. QED  BY <1>1, <1>2, <1>3, <1>4 DEF TypeOK

(* The three parts of the type invariant: the host, the control flow of *)
(* the current invocation, and its flags.                                  *)
HostTypeOK ==
  /\ groups \subseteq Groups /\ users \subseteq Users /\ dirs \subseteq Dirs
  /\ chowned \subseteq Owned /\ exes \subseteq Exes /\ cfgs \subseteq Cfgs
  /\ unitfiles \subseteq Units /\ enabled \subseteq Units /\ active \subseteq Units
FlowTypeOK ==
  /\ pc \in Phases
  /\ k \in Nat /\ k >= 1
  /\ pc \in ToSet(Loops) => k <= Len(ItemsOf[pc]) + 1
FlagsTypeOK ==
  /\ dry \in BOOLEAN /\ faulty \in BOOLEAN /\ verified \in BOOLEAN
  /\ mode \in {"install", "verify", "uninstall"}
  /\ exit \in {"none", "0", "1", "crash"}
  /\ runs \in 0 .. MaxRuns

LEMMA TypeOKParts ==
  /\ TypeOK => HostTypeOK /\ FlowTypeOK /\ FlagsTypeOK
  /\ HostTypeOK' /\ FlowTypeOK' /\ FlagsTypeOK' => TypeOK'
BY DEF TypeOK, HostTypeOK, FlowTypeOK, FlagsTypeOK

(* A step of one invocation leaves the invocation's flags but exit and   *)
(* faulty alone.                                                            *)
LEMMA StepFlags ==
  ASSUME FlagsTypeOK, Step
  PROVE  /\ UNCHANGED <<dry, verified, mode, runs>> \/ Finish
         /\ faulty' \in BOOLEAN /\ exit' \in {"none", "0", "1", "crash"}
BY DEF FlagsTypeOK, Step, PreflightFails, PreflightPasses, EndLoop, SkipItem,
       CreateGroup, CreateUser, CreateDirectory, InstallExecutable,
       InstallConfigFile, InstallUnit, DaemonReload, EnableStartSocket, Finish,
       Command, InstallOwned, Outcomes, Attempt

LEMMA NextFlagsTypeOK == FlagsTypeOK /\ [Next]_vars => FlagsTypeOK'
<1>. SUFFICES ASSUME FlagsTypeOK, [Next]_vars PROVE FlagsTypeOK'
  OBVIOUS
<1>1. CASE InvokeInstall
  <2>1. runs' \in 0 .. MaxRuns
    BY <1>1, MaxRunsNat DEF InvokeInstall, Idle, FlagsTypeOK
  <2>2. /\ dry' \in BOOLEAN /\ faulty' \in BOOLEAN /\ verified' \in BOOLEAN
        /\ mode' \in {"install", "verify", "uninstall"}
        /\ exit' \in {"none", "0", "1", "crash"}
    BY <1>1 DEF InvokeInstall
  <2>. QED  BY <2>1, <2>2 DEF FlagsTypeOK
<1>5. CASE InvokeVerify
  <2>1. runs' \in 0 .. MaxRuns
    BY <1>5, MaxRunsNat DEF InvokeVerify, Idle, FlagsTypeOK
  <2>2. /\ dry' \in BOOLEAN /\ faulty' \in BOOLEAN /\ verified' \in BOOLEAN
        /\ mode' \in {"install", "verify", "uninstall"}
        /\ exit' \in {"none", "0", "1", "crash"}
    BY <1>5 DEF InvokeVerify
  <2>. QED  BY <2>1, <2>2 DEF FlagsTypeOK
<1>6. CASE InvokeUninstall
  <2>1. runs' \in 0 .. MaxRuns
    BY <1>6, MaxRunsNat DEF InvokeUninstall, Idle, FlagsTypeOK
  <2>2. /\ dry' \in BOOLEAN /\ faulty' \in BOOLEAN /\ verified' \in BOOLEAN
        /\ mode' \in {"install", "verify", "uninstall"}
        /\ exit' \in {"none", "0", "1", "crash"}
    BY <1>6 DEF InvokeUninstall
  <2>. QED  BY <2>1, <2>2 DEF FlagsTypeOK
<1>2. CASE Finish
  BY <1>2 DEF Finish, FlagsTypeOK
<1>3. CASE Step /\ ~Finish
  BY <1>3, StepFlags DEF FlagsTypeOK
<1>4. CASE UNCHANGED vars
  BY <1>4 DEF vars, proc, FlagsTypeOK
<1>. QED  BY <1>1, <1>2, <1>3, <1>4, <1>5, <1>6 DEF Next

(* Each step adds at most its configured item to the one host set it     *)
(* changes.                                                                 *)
LEMMA NextHostTypeOK ==
  ASSUME HostTypeOK, FlowTypeOK, [Next]_vars PROVE HostTypeOK'
<1>. USE LoopSteps
<1>1. CASE UNCHANGED host
  BY <1>1 DEF host, HostTypeOK
<1>2. CASE CreateGroup
  <2>1. Item \in Groups
    BY <1>2, ItemType, ItemsOfLists DEF CreateGroup, Item, FlowTypeOK
  <2>. QED  BY <1>2, <2>1 DEF CreateGroup, Command, Outcomes, HostTypeOK
<1>3. CASE CreateUser
  <2>1. Item \in Users
    BY <1>3, ItemType, ItemsOfLists DEF CreateUser, Item, FlowTypeOK
  <2>. QED  BY <1>3, <2>1 DEF CreateUser, Command, Outcomes, HostTypeOK
<1>4. CASE CreateDirectory
  <2>1. Item \in Dirs /\ Item \in Owned
    BY <1>4, ItemType, ItemsOfLists DEF CreateDirectory, Item, FlowTypeOK, Owned
  <2>. QED  BY <1>4, <2>1 DEF CreateDirectory, InstallOwned, HostTypeOK
<1>5. CASE InstallExecutable
  <2>1. Item \in Exes /\ Item \in Owned
    BY <1>5, ItemType, ItemsOfLists DEF InstallExecutable, Item, FlowTypeOK, Owned
  <2>. QED  BY <1>5, <2>1 DEF InstallExecutable, InstallOwned, HostTypeOK
<1>6. CASE InstallConfigFile
  <2>1. Item \in Cfgs
    BY <1>6, ItemType, ItemsOfLists DEF InstallConfigFile, Item, FlowTypeOK
  <2>. QED  BY <1>6, <2>1 DEF InstallConfigFile, HostTypeOK
<1>7. CASE InstallUnit
  <2>1. Item \in Units
    BY <1>7, ItemType, ItemsOfLists DEF InstallUnit, Item, FlowTypeOK
  <2>. QED  BY <1>7, <2>1 DEF InstallUnit, HostTypeOK
<1>8. CASE EnableStartSocket
  <2>1. Item \in Units
    BY <1>8, ItemType, ItemsOfLists DEF EnableStartSocket, Item, FlowTypeOK
  <2>. QED  BY <1>8, <2>1 DEF EnableStartSocket, HostTypeOK
<1>9. CASE InvokeInstall \/ InvokeVerify \/ InvokeUninstall \/ PreflightFails
           \/ PreflightPasses \/ EndLoop \/ SkipItem \/ DaemonReload \/ Finish
  BY <1>9, <1>1 DEF InvokeInstall, InvokeVerify, InvokeUninstall, PreflightFails,
                    PreflightPasses, EndLoop, SkipItem, DaemonReload, Finish
<1>. QED  BY <1>1, <1>2, <1>3, <1>4, <1>5, <1>6, <1>7, <1>8, <1>9 DEF Next, Step, vars

(* The loop position moves by one within a step, is reset to 1 when a     *)
(* step begins, and is left where it was when chown() raises.             *)
LEMMA NextFlowTypeOK ==
  ASSUME FlowTypeOK, [Next]_vars PROVE FlowTypeOK'
<1>. USE LoopSteps
<1>1. CASE InvokeInstall \/ InvokeVerify \/ InvokeUninstall \/ PreflightFails
           \/ Finish
  BY <1>1 DEF InvokeInstall, InvokeVerify, InvokeUninstall, PreflightFails,
              Finish, FlowTypeOK, Phases
<1>2. CASE PreflightPasses \/ DaemonReload
  <2>1. Len(GroupList) \in Nat /\ Len(UnitList) \in Nat
    BY ListsAssumption
  <2>2. pc' \in {"groups", "sockets"} /\ k' = 1
    BY <1>2 DEF PreflightPasses, DaemonReload
  <2>. QED  BY <2>1, <2>2, ItemsOfLists DEF FlowTypeOK, Phases
<1>3. CASE EndLoop
  <2>1. pc \in ToSet(Loops)
    BY <1>3 DEF EndLoop
  <2>2. After[pc] \in Phases
    BY <2>1, AfterPhase
  <2>3. After[pc] \in ToSet(Loops) => Len(ItemsOf[After[pc]]) \in Nat
    BY ItemsLen
  <2>. QED  BY <1>3, <2>2, <2>3 DEF EndLoop, FlowTypeOK
<1>4. CASE SkipItem \/ CreateGroup \/ CreateUser \/ InstallConfigFile
           \/ InstallUnit \/ EnableStartSocket
  <2>1. pc \in ToSet(Loops) /\ k <= Len(ItemsOf[pc])
    <3>1. CASE SkipItem
      BY <3>1 DEF SkipItem
    <3>2. CASE CreateGroup \/ CreateUser \/ InstallConfigFile
      BY <3>2, ItemsOfLists DEF CreateGroup, CreateUser, InstallConfigFile
    <3>3. CASE InstallUnit \/ EnableStartSocket
      BY <3>3, ItemsOfLists DEF InstallUnit, EnableStartSocket
    <3>. QED  BY <1>4, <3>1, <3>2, <3>3
  <2>2. pc' = pc /\ k' = k + 1
    BY <1>4 DEF SkipItem, CreateGroup, CreateUser, InstallConfigFile,
                InstallUnit, EnableStartSocket
  <2>. QED  BY <2>1, <2>2 DEF FlowTypeOK
<1>5. CASE CreateDirectory \/ InstallExecutable
  <2>1. pc \in ToSet(Loops) /\ k <= Len(ItemsOf[pc])
    BY <1>5 DEF CreateDirectory, InstallExecutable, ItemsOf
  <2>2. InstallOwned(dirs) \/ InstallOwned(exes)
    BY <1>5 DEF CreateDirectory, InstallExecutable
  <2>3. (pc' = pc /\ k' = k + 1) \/ (pc' = "exited" /\ k' = k)
    BY <2>2 DEF InstallOwned
  <2>. QED  BY <2>1, <2>3 DEF FlowTypeOK, Phases
<1>6. CASE UNCHANGED vars
  BY <1>6 DEF vars, proc, FlowTypeOK
<1>. QED  BY <1>1, <1>2, <1>3, <1>4, <1>5, <1>6 DEF Next, Step

LEMMA NextTypeOK == TypeOK /\ [Next]_vars => TypeOK'
BY TypeOKParts, NextHostTypeOK, NextFlowTypeOK, NextFlagsTypeOK

(* Every reachable state of the installer is well typed; in particular   *)
(* the loop position stays within one past the list of the current step, *)
(* also when chown() ended an invocation in the middle of a loop.        *)
THEOREM TypeCorrect == Spec => []TypeOK
BY InitTypeOK, NextTypeOK, PTL DEF Spec

-----------------------------------------------------------------------------
(* Dry runs.  run_command() returns True before subprocess.run, and the   *)
(* file steps only print, so no step of a dry invocation changes the host. *)

LEMMA DryStep == [Next]_vars => [dry => UNCHANGED host]_vars
<1>. SUFFICES ASSUME [Next]_vars, dry PROVE UNCHANGED host
  BY DEF vars
<1>1. CASE CreateGroup \/ CreateUser
  BY <1>1 DEF CreateGroup, CreateUser, Command, Outcomes, host
<1>2. CASE EnableStartSocket
  BY <1>2 DEF EnableStartSocket, host
<1>3. CASE CreateDirectory \/ InstallExecutable \/ InstallConfigFile \/ InstallUnit
  BY <1>3 DEF CreateDirectory, InstallExecutable, InstallConfigFile, InstallUnit
<1>4. CASE InvokeInstall \/ InvokeVerify \/ InvokeUninstall \/ PreflightFails
           \/ PreflightPasses \/ EndLoop \/ SkipItem \/ DaemonReload \/ Finish
  BY <1>4 DEF InvokeInstall, InvokeVerify, InvokeUninstall, PreflightFails,
              PreflightPasses, EndLoop, SkipItem, DaemonReload, Finish
<1>5. CASE UNCHANGED vars
  BY <1>5 DEF vars
<1>. QED  BY <1>1, <1>2, <1>3, <1>4, <1>5 DEF Next, Step

(* --dry-run never changes the host: no step of a dry invocation adds an  *)
(* account, a directory, a file, an owner or a unit state, whatever the   *)
(* configuration.                                                           *)
THEOREM DryRunChangesNothingHolds == Spec => DryRunChangesNothing
<1>1. [Next]_vars => [dry => UNCHANGED host]_vars
  BY DryStep
<1>. QED  BY <1>1, PTL DEF Spec, DryRunChangesNothing

-----------------------------------------------------------------------------
(* Lemmas for RerunRepairs: the host only grows, and what is in place     *)
(* stays in place.                                                          *)

HostGrows ==
  /\ groups \subseteq groups' /\ users \subseteq users' /\ dirs \subseteq dirs'
  /\ chowned \subseteq chowned' /\ exes \subseteq exes' /\ cfgs \subseteq cfgs'
  /\ unitfiles \subseteq unitfiles' /\ enabled \subseteq enabled'
  /\ active \subseteq active'

(* No step of the installer removes anything from the host. *)
LEMMA NextHostGrows == [Next]_vars => HostGrows
<1>. SUFFICES ASSUME [Next]_vars PROVE HostGrows
  OBVIOUS
<1>1. CASE CreateGroup \/ CreateUser
  BY <1>1 DEF CreateGroup, CreateUser, Command, HostGrows
<1>2. CASE EnableStartSocket
  BY <1>2 DEF EnableStartSocket, HostGrows
<1>3. CASE CreateDirectory \/ InstallExecutable
  BY <1>3 DEF CreateDirectory, InstallExecutable, InstallOwned, HostGrows
<1>4. CASE InstallConfigFile \/ InstallUnit
  BY <1>4 DEF InstallConfigFile, InstallUnit, HostGrows
<1>5. CASE InvokeInstall \/ InvokeVerify \/ InvokeUninstall \/ PreflightFails
           \/ PreflightPasses \/ EndLoop \/ SkipItem \/ DaemonReload \/ Finish
  BY <1>5 DEF InvokeInstall, InvokeVerify, InvokeUninstall, PreflightFails,
              PreflightPasses, EndLoop, SkipItem, DaemonReload, Finish, host,
              HostGrows
<1>6. CASE UNCHANGED vars
  BY <1>6 DEF vars, host, HostGrows
<1>. QED  BY <1>1, <1>2, <1>3, <1>4, <1>5, <1>6 DEF Next, Step

(* What InPlace says for each step, now and after a step. *)
LEMMA InPlaceDefs ==
  ASSUME NEW x
  PROVE  /\ InPlace("groups", x) <=> x \in groups
         /\ InPlace("users", x) <=> x \in users
         /\ InPlace("dirs", x) <=> x \in dirs /\ HasOwner(x)
         /\ InPlace("exes", x) <=> (x \in Built => x \in exes /\ HasOwner(x))
         /\ InPlace("cfgs", x) <=> (x \in Built => x \in cfgs)
         /\ InPlace("units", x) <=> (x \in Built => x \in unitfiles)
         /\ InPlace("sockets", x) <=>
              (x \in Sockets \cap Built =>
                 /\ x \in EnabledUnits => x \in enabled
                 /\ x \in StartedUnits => x \in active)
BY DEF InPlace

LEMMA InPlaceDefsPrimed ==
  ASSUME NEW x
  PROVE  /\ InPlace("groups", x)' <=> x \in groups'
         /\ InPlace("users", x)' <=> x \in users'
         /\ InPlace("dirs", x)' <=> x \in dirs' /\ HasOwner(x)'
         /\ InPlace("exes", x)' <=> (x \in Built => x \in exes' /\ HasOwner(x)')
         /\ InPlace("cfgs", x)' <=> (x \in Built => x \in cfgs')
         /\ InPlace("units", x)' <=> (x \in Built => x \in unitfiles')
         /\ InPlace("sockets", x)' <=>
              (x \in Sockets \cap Built =>
                 /\ x \in EnabledUnits => x \in enabled'
                 /\ x \in StartedUnits => x \in active')
BY DEF InPlace

(* An item in place stays in place, since the host only grows. *)
LEMMA InPlaceStays ==
  ASSUME HostGrows, NEW s \in ToSet(Loops), NEW x, InPlace(s, x)
  PROVE  InPlace(s, x)'
<1>1. HasOwner(x) => HasOwner(x)'
  BY DEF HostGrows, HasOwner
<1>. QED  BY <1>1, LoopSteps, InPlaceDefs, InPlaceDefsPrimed DEF HostGrows

LEMMA DoneStays ==
  ASSUME HostGrows, NEW s \in ToSet(Loops), NEW m, Done(s, m)
  PROVE  Done(s, m)'
BY InPlaceStays DEF Done

(* A step's list is a sequence: its positions are 1 .. Len. *)
LEMMA ItemsDomain ==
  ASSUME NEW s \in ToSet(Loops)
  PROVE  DOMAIN ItemsOf[s] = 1 .. Len(ItemsOf[s])
BY LoopSteps, ListsAssumption, ItemsOfLists

(* A step that is done has every one of its configured items in place. *)
LEMMA DoneCovers ==
  ASSUME NEW s \in ToSet(Loops), Done(s, Len(ItemsOf[s])),
         NEW x \in ToSet(ItemsOf[s])
  PROVE  InPlace(s, x)
<1>1. PICK j \in DOMAIN ItemsOf[s] : ItemsOf[s][j] = x
  BY DEF ToSet
<1>. QED  BY <1>1, ItemsDomain DEF Done

(* The configured sets are the items of the steps' lists. *)
LEMMA StepSets ==
  /\ Groups = ToSet(ItemsOf["groups"]) /\ Users = ToSet(ItemsOf["users"])
  /\ Dirs = ToSet(ItemsOf["dirs"]) /\ Exes = ToSet(ItemsOf["exes"])
  /\ Cfgs = ToSet(ItemsOf["cfgs"]) /\ Units = ToSet(ItemsOf["units"])
  /\ Units = ToSet(ItemsOf["sockets"])
BY ItemsOfLists DEF Groups, Users, Dirs, Exes, Cfgs, Units

LEMMA SocketsAreUnits == Sockets \cup StartedUnits \subseteq Units
BY InstallerAssumption

(* With every step done, the host is installed as configured, and in a   *)
(* verifiable configuration every unit expected active is active.        *)
LEMMA AllDoneInstalled ==
  ASSUME \A s \in ToSet(Loops) : Done(s, Len(ItemsOf[s]))
  PROVE  /\ Installed
         /\ VerifiableConfig => ExpectedActive \subseteq active
<1>. DEFINE AllIn(s) == \A x \in ToSet(ItemsOf[s]) : InPlace(s, x)
<1>1. \A s \in ToSet(Loops) : AllIn(s)
  BY DoneCovers
<1>2. Groups \subseteq groups /\ Users \subseteq users
  BY <1>1, LoopSteps, StepSets, InPlaceDefs
<1>3. Dirs \subseteq dirs /\ \A x \in Dirs : HasOwner(x)
  BY <1>1, LoopSteps, StepSets, InPlaceDefs
<1>4. Exes \cap Built \subseteq exes /\ \A x \in Exes \cap Built : HasOwner(x)
  BY <1>1, LoopSteps, StepSets, InPlaceDefs
<1>5. Cfgs \cap Built \subseteq cfgs /\ Units \cap Built \subseteq unitfiles
  BY <1>1, LoopSteps, StepSets, InPlaceDefs
<1>6. /\ Sockets \cap EnabledUnits \cap Built \subseteq enabled
      /\ Sockets \cap StartedUnits \cap Built \subseteq active
  <2>1. \A x \in Units : InPlace("sockets", x)
    BY <1>1, LoopSteps, StepSets
  <2>. QED  BY <2>1, SocketsAreUnits, InPlaceDefs
<1>7. VerifiableConfig => ExpectedActive \subseteq active
  BY <1>6 DEF VerifiableConfig
<1>. QED  BY <1>2, <1>3, <1>4, <1>5, <1>6, <1>7 DEF Installed

-----------------------------------------------------------------------------
(* The induction step for Progress. *)

(* An invocation that is not failing so far. *)
Clean == mode = "install" /\ ~dry /\ ~faulty

(* The order of install()'s steps: EndLoop moves one step on. *)
LEMMA RankFacts ==
  /\ ToSet(Loops) \subseteq DOMAIN Rank
  /\ \A s \in DOMAIN Rank : Rank[s] \in Nat /\ Rank[s] >= 1
  /\ \A p \in {"idle", "preflight", "exited"} : p \notin DOMAIN Rank
  /\ \A s \in ToSet(Loops) : After[s] \in DOMAIN Rank /\ Rank[After[s]] = Rank[s] + 1
  /\ Rank["groups"] = 1 /\ Rank["reload"] = 7 /\ Rank["sockets"] = 8
  /\ Rank["verify"] = 9
  /\ \A s \in ToSet(Loops) : Rank[s] < 7 <=> s # "sockets"
  /\ "reload" \notin ToSet(Loops) /\ "verify" \notin ToSet(Loops)
  /\ \A s, t \in ToSet(Loops) : Rank[s] = Rank[t] => s = t
  /\ \A s \in ToSet(Loops) : Rank[s] <= 8
  /\ {"reload", "sockets", "verify"} \subseteq DOMAIN Rank
<1>1. DOMAIN Rank = {"groups", "users", "dirs", "exes", "cfgs", "units",
                     "reload", "sockets", "verify"}
  BY DEF Rank
<1>2. /\ Rank["groups"] = 1 /\ Rank["users"] = 2 /\ Rank["dirs"] = 3
      /\ Rank["exes"] = 4 /\ Rank["cfgs"] = 5 /\ Rank["units"] = 6
      /\ Rank["reload"] = 7 /\ Rank["sockets"] = 8 /\ Rank["verify"] = 9
  BY DEF Rank
<1>3. /\ After["groups"] = "users" /\ After["users"] = "dirs"
      /\ After["dirs"] = "exes" /\ After["exes"] = "cfgs"
      /\ After["cfgs"] = "units" /\ After["units"] = "reload"
      /\ After["sockets"] = "verify"
  BY DEF After
<1>4. \A s \in DOMAIN Rank : Rank[s] \in Nat /\ Rank[s] >= 1
  BY <1>1, <1>2
<1>5. \A s \in ToSet(Loops) : After[s] \in DOMAIN Rank /\ Rank[After[s]] = Rank[s] + 1
  BY <1>1, <1>2, <1>3, LoopSteps
<1>6. /\ \A s \in ToSet(Loops) : Rank[s] < 7 <=> s # "sockets"
      /\ \A s, t \in ToSet(Loops) : Rank[s] = Rank[t] => s = t
      /\ \A s \in ToSet(Loops) : Rank[s] <= 8
  BY <1>2, LoopSteps
<1>. QED  BY <1>1, <1>2, <1>4, <1>5, <1>6, LoopSteps

(* Progress holds vacuously once the invocation has stopped without a    *)
(* successful exit, or before it reached its first step.                  *)
LEMMA StoppedProgress ==
  ASSUME pc' \in {"idle", "preflight", "exited"}, pc' = "exited" => exit' # "0"
  PROVE  Progress'
BY RankFacts DEF Progress, Passed

(* A step of a loop that leaves the current item in place keeps Progress. *)
(* The current step p and position j are named as constants, so that     *)
(* Done(p, j)' speaks of the next host and not of the next position.     *)
LEMMA AdvanceProgress ==
  ASSUME IInv, HostGrows, NEW p \in ToSet(Loops), NEW j \in Nat,
         pc = p, k = j, j <= Len(ItemsOf[p]),
         pc' = p, k' = j + 1, UNCHANGED <<mode, dry>>, faulty => faulty',
         Clean' => InPlace(p, ItemsOf[p][j])'
  PROVE  Progress'
<1>. SUFFICES ASSUME Clean' PROVE
       /\ \A s \in ToSet(Loops) : Passed(s)' => Done(s, Len(ItemsOf[s]))'
       /\ Done(p, j)'
       /\ pc' # "exited"
  BY LoopSteps DEF Progress, Clean
<1>1. Clean
  BY DEF Clean
<1>2. /\ \A s \in ToSet(Loops) : Passed(s) => Done(s, Len(ItemsOf[s]))
      /\ Done(p, j - 1)
  BY <1>1 DEF IInv, Progress, Clean
<1>3. ASSUME NEW s \in ToSet(Loops), Passed(s)' PROVE Done(s, Len(ItemsOf[s]))'
  <2>1. Passed(s)
    BY <1>3 DEF Passed
  <2>. QED  BY <2>1, <1>2, DoneStays
<1>4. Done(p, j)'
  <2>1. Done(p, j - 1)'
    BY <1>2, DoneStays
  <2>. QED  BY <2>1 DEF Done
<1>5. pc' # "exited"
  BY LoopSteps
<1>. QED  BY <1>3, <1>4, <1>5

(* The same for a step that stays at the current item: a stutter. *)
LEMMA AdvanceProgressStutter ==
  ASSUME IInv, HostGrows, NEW p \in ToSet(Loops), NEW j \in Nat,
         pc = p, k = j, pc' = p, k' = j, UNCHANGED <<mode, dry, faulty>>
  PROVE  Progress'
<1>. SUFFICES ASSUME Clean' PROVE
       /\ \A s \in ToSet(Loops) : Passed(s)' => Done(s, Len(ItemsOf[s]))'
       /\ Done(p, j - 1)'
       /\ pc' # "exited"
  BY LoopSteps DEF Progress, Clean
<1>1. Clean
  BY DEF Clean
<1>2. /\ \A s \in ToSet(Loops) : Passed(s) => Done(s, Len(ItemsOf[s]))
      /\ Done(p, j - 1)
  BY <1>1 DEF IInv, Progress, Clean
<1>3. ASSUME NEW s \in ToSet(Loops), Passed(s)' PROVE Done(s, Len(ItemsOf[s]))'
  <2>1. Passed(s)
    BY <1>3 DEF Passed
  <2>. QED  BY <2>1, <1>2, DoneStays
<1>4. Done(p, j - 1)'
  BY <1>2, DoneStays
<1>5. pc' # "exited"
  BY LoopSteps
<1>. QED  BY <1>3, <1>4, <1>5

(* Accounts: an existing one is left alone, a new one is created unless   *)
(* the command fails, which makes the invocation faulty.                  *)
LEMMA CreateGroupProgress ==
  ASSUME IInv, CreateGroup PROVE Progress'
<1>1. PICK j \in Nat : j = k
  BY DEF IInv, TypeOK
<1>2. HostGrows
  BY NextHostGrows DEF Next, Step
<1>3. Clean' => InPlace("groups", ItemsOf["groups"][j])'
  <2>1. Clean' => Item \in groups'
    BY DEF CreateGroup, Command, Outcomes, Clean
  <2>. QED  BY <2>1, <1>1, InPlaceDefsPrimed DEF Item, CreateGroup
<1>4. faulty => faulty'
  BY DEF CreateGroup, Command
<1>. QED  BY <1>1, <1>2, <1>3, <1>4, LoopSteps, ItemsOfLists, AdvanceProgress
          DEF CreateGroup

LEMMA CreateUserProgress ==
  ASSUME IInv, CreateUser PROVE Progress'
<1>1. PICK j \in Nat : j = k
  BY DEF IInv, TypeOK
<1>2. HostGrows
  BY NextHostGrows DEF Next, Step
<1>3. Clean' => InPlace("users", ItemsOf["users"][j])'
  <2>1. Clean' => Item \in users'
    BY DEF CreateUser, Command, Outcomes, Clean
  <2>. QED  BY <2>1, <1>1, InPlaceDefsPrimed DEF Item, CreateUser
<1>4. faulty => faulty'
  BY DEF CreateUser, Command
<1>. QED  BY <1>1, <1>2, <1>3, <1>4, LoopSteps, ItemsOfLists, AdvanceProgress
          DEF CreateUser

(* CreateDirectory: the item is created and chowned, or chown() raises and the   *)
(* invocation ends with a traceback.                                        *)
LEMMA CreateDirectoryProgress ==
  ASSUME IInv, CreateDirectory PROVE Progress'
<1>1. PICK j \in Nat : j = k
  BY DEF IInv, TypeOK
<1>2. HostGrows
  BY NextHostGrows DEF Next, Step
<1>3. CASE pc' = "exited" /\ exit' = "crash"
  BY <1>3, StoppedProgress
<1>4. CASE ~ChownRaises(Item) /\ k' = k + 1 /\ UNCHANGED <<pc, exit>>
  <2>0. PICK x : x = Item
    OBVIOUS
  <2>1. x \in dirs' /\ HasOwner(x)'
    BY <1>4, <2>0 DEF CreateDirectory, InstallOwned, HasOwner
  <2>2. InPlace("dirs", ItemsOf["dirs"][j])'
    BY <2>0, <2>1, <1>1, InPlaceDefsPrimed DEF Item, CreateDirectory
  <2>. QED  BY <1>1, <1>2, <1>4, <2>2, LoopSteps, ItemsOfLists, AdvanceProgress
            DEF CreateDirectory
<1>. QED  BY <1>3, <1>4 DEF CreateDirectory, InstallOwned

(* InstallExecutable: the item is created and chowned, or chown() raises and the   *)
(* invocation ends with a traceback.                                        *)
LEMMA InstallExecutableProgress ==
  ASSUME IInv, InstallExecutable PROVE Progress'
<1>1. PICK j \in Nat : j = k
  BY DEF IInv, TypeOK
<1>2. HostGrows
  BY NextHostGrows DEF Next, Step
<1>3. CASE pc' = "exited" /\ exit' = "crash"
  BY <1>3, StoppedProgress
<1>4. CASE ~ChownRaises(Item) /\ k' = k + 1 /\ UNCHANGED <<pc, exit>>
  <2>0. PICK x : x = Item
    OBVIOUS
  <2>1. x \in exes' /\ HasOwner(x)'
    BY <1>4, <2>0 DEF InstallExecutable, InstallOwned, HasOwner
  <2>2. InPlace("exes", ItemsOf["exes"][j])'
    BY <2>0, <2>1, <1>1, InPlaceDefsPrimed DEF Item, InstallExecutable
  <2>. QED  BY <1>1, <1>2, <1>4, <2>2, LoopSteps, ItemsOfLists, AdvanceProgress
            DEF InstallExecutable
<1>. QED  BY <1>3, <1>4 DEF InstallExecutable, InstallOwned

(* Configuration files and unit files are copied without an owner. *)
LEMMA InstallConfigFileProgress ==
  ASSUME IInv, InstallConfigFile PROVE Progress'
<1>1. PICK j \in Nat : j = k
  BY DEF IInv, TypeOK
<1>2. HostGrows
  BY NextHostGrows DEF Next, Step
<1>3. InPlace("cfgs", ItemsOf["cfgs"][j])'
  BY <1>1, InPlaceDefsPrimed DEF Item, InstallConfigFile
<1>. QED  BY <1>1, <1>2, <1>3, LoopSteps, ItemsOfLists, AdvanceProgress
          DEF InstallConfigFile

LEMMA InstallUnitProgress ==
  ASSUME IInv, InstallUnit PROVE Progress'
<1>1. PICK j \in Nat : j = k
  BY DEF IInv, TypeOK
<1>2. HostGrows
  BY NextHostGrows DEF Next, Step
<1>3. InPlace("units", ItemsOf["units"][j])'
  BY <1>1, InPlaceDefsPrimed DEF Item, InstallUnit
<1>. QED  BY <1>1, <1>2, <1>3, LoopSteps, ItemsOfLists, AdvanceProgress
          DEF InstallUnit

(* A socket's enable and start either succeed or make the invocation      *)
(* faulty; no unit file means the command fails.                           *)
LEMMA EnableStartSocketProgress ==
  ASSUME IInv, EnableStartSocket PROVE Progress'
<1>1. PICK j \in Nat : j = k
  BY DEF IInv, TypeOK
<1>2. HostGrows
  BY NextHostGrows DEF Next, Step
<1>3. Clean' => InPlace("sockets", ItemsOf["sockets"][j])'
  <2>1. Clean' => /\ Item \in EnabledUnits => Item \in enabled'
                  /\ Item \in StartedUnits => Item \in active'
    BY DEF EnableStartSocket, Clean
  <2>. QED  BY <2>1, <1>1, InPlaceDefsPrimed DEF Item, EnableStartSocket
<1>4. faulty => faulty'
  BY DEF EnableStartSocket
<1>. QED  BY <1>1, <1>2, <1>3, <1>4, LoopSteps, ItemsOfLists, AdvanceProgress
          DEF EnableStartSocket

(* A skipped item needs nothing: a unit that is not a socket, or a file  *)
(* whose source was not built.  A dry run also skips, but is not clean.  *)
LEMMA SkipItemProgress ==
  ASSUME IInv, SkipItem PROVE Progress'
<1>1. PICK j \in Nat : j = k
  BY DEF IInv, TypeOK
<1>2. PICK p \in ToSet(Loops) : p = pc
  BY LoopSteps DEF SkipItem
<1>3. HostGrows
  BY NextHostGrows DEF Next, Step
<1>4. Clean' => InPlace(p, ItemsOf[p][j])'
  <2>. SUFFICES ASSUME Clean' PROVE InPlace(p, ItemsOf[p][j])'
    OBVIOUS
  <2>1. ~dry
    BY DEF SkipItem, Clean
  <2>2. /\ p = "sockets" => ItemsOf[p][j] \notin Sockets
        /\ p \in {"exes", "cfgs", "units"} => ItemsOf[p][j] \notin Built
        /\ p # "dirs"
    BY <1>1, <1>2, <2>1 DEF SkipItem, Item
  <2>. QED  BY <2>2, <1>2, LoopSteps, InPlaceDefsPrimed DEF SkipItem
<1>. QED  BY <1>1, <1>2, <1>3, <1>4, AdvanceProgress DEF SkipItem

(* The first step begins with nothing behind it. *)
LEMMA PreflightPassesProgress ==
  ASSUME IInv, PreflightPasses PROVE Progress'
<1>1. \A s \in ToSet(Loops) : ~Passed(s)'
  BY RankFacts DEF PreflightPasses, Passed
<1>2. Done("groups", 0)'
  BY DEF Done
<1>. QED  BY <1>1, <1>2, LoopSteps DEF PreflightPasses, Progress

(* The end of a loop: with the last item visited, the step is done and   *)
(* is behind the next one.                                                  *)
LEMMA EndLoopProgress ==
  ASSUME IInv, EndLoop PROVE Progress'
<1>1. PICK p \in ToSet(Loops) : p = pc
  BY DEF EndLoop
<1>. SUFFICES ASSUME Clean' PROVE
       /\ \A s \in ToSet(Loops) : Passed(s)' => Done(s, Len(ItemsOf[s]))'
       /\ After[p] \in ToSet(Loops) => Done(After[p], 0)'
       /\ pc' # "exited"
  BY <1>1, LoopSteps DEF Progress, Clean, EndLoop
<1>2. Clean
  BY DEF Clean, EndLoop
<1>3. /\ \A s \in ToSet(Loops) : Passed(s) => Done(s, Len(ItemsOf[s]))
      /\ Done(p, k - 1)
  BY <1>1, <1>2 DEF IInv, Progress, Clean
<1>4. Done(p, Len(ItemsOf[p]))
  <2>1. k - 1 = Len(ItemsOf[p])
    BY <1>1, ItemsLen DEF EndLoop, IInv, TypeOK
  <2>. QED  BY <1>3, <2>1
<1>5. ASSUME NEW s \in ToSet(Loops), Passed(s)' PROVE Done(s, Len(ItemsOf[s]))'
  <2>1. Rank[s] < Rank[p] \/ s = p
    BY <1>1, <1>5, RankFacts DEF EndLoop, Passed
  <2>2. Passed(s) \/ s = p
    BY <1>1, <2>1, RankFacts DEF Passed
  <2>3. Done(s, Len(ItemsOf[s]))
    BY <1>3, <1>4, <2>2
  <2>. QED  BY <2>3, DoneStays DEF EndLoop, HostGrows, host
<1>6. After[p] \in ToSet(Loops) => Done(After[p], 0)'
  BY DEF Done
<1>7. pc' # "exited"
  BY <1>1, RankFacts DEF EndLoop
<1>. QED  BY <1>5, <1>6, <1>7

(* daemon-reload passes on to the sockets: every file step is behind. *)
LEMMA DaemonReloadProgress ==
  ASSUME IInv, DaemonReload PROVE Progress'
<1>. SUFFICES ASSUME Clean' PROVE
       /\ \A s \in ToSet(Loops) : Passed(s)' => Done(s, Len(ItemsOf[s]))'
       /\ Done("sockets", 0)'
  BY LoopSteps DEF Progress, Clean, DaemonReload
<1>1. Clean
  BY DEF Clean, DaemonReload
<1>2. \A s \in ToSet(Loops) : Passed(s) => Done(s, Len(ItemsOf[s]))
  BY <1>1 DEF IInv, Progress, Clean
<1>3. ASSUME NEW s \in ToSet(Loops), Passed(s)' PROVE Done(s, Len(ItemsOf[s]))'
  <2>1. s # "sockets"
    BY <1>3, RankFacts DEF DaemonReload, Passed
  <2>2. Passed(s)
    BY <2>1, RankFacts DEF DaemonReload, Passed
  <2>3. HostGrows
    BY DEF DaemonReload, HostGrows, host
  <2>. QED  BY <1>2, <2>2, <2>3, DoneStays
<1>. QED  BY <1>3 DEF Done

(* The end of install(): after a clean run every step is done, so the   *)
(* host is installed, and verify_installation() finds every expected     *)
(* unit active.                                                             *)
LEMMA FinishProgress ==
  ASSUME IInv, Finish, VerifiableConfig PROVE Progress'
<1>. SUFFICES ASSUME Clean' PROVE Installed' /\ verified'
  BY RankFacts, LoopSteps DEF Progress, Clean, Finish, Passed
<1>1. Clean
  BY DEF Clean, Finish
<1>2. \A s \in ToSet(Loops) : Done(s, Len(ItemsOf[s]))
  <2>1. \A s \in ToSet(Loops) : Passed(s)
    BY RankFacts DEF Finish, Passed
  <2>. QED  BY <1>1, <2>1 DEF IInv, Progress, Clean
<1>3. Installed /\ ExpectedActive \subseteq active
  BY <1>2, AllDoneInstalled
<1>4. Installed'
  BY <1>3 DEF Finish, host, Installed, HasOwner
<1>5. verified'
  BY <1>1, <1>3 DEF Finish, Clean
<1>. QED  BY <1>4, <1>5

(* A new invocation: --verify and --uninstall are not installs, and an   *)
(* install starts with its preflight checks.                                *)
LEMMA InvokeProgress ==
  ASSUME InvokeInstall \/ InvokeVerify \/ InvokeUninstall \/ PreflightFails
  PROVE  Progress'
<1>1. CASE InvokeInstall \/ PreflightFails
  BY <1>1, StoppedProgress DEF InvokeInstall, PreflightFails
<1>2. CASE InvokeVerify \/ InvokeUninstall
  BY <1>2 DEF InvokeVerify, InvokeUninstall, Progress
<1>. QED  BY <1>1, <1>2

(* Progress is preserved by every step, in a verifiable configuration. *)
LEMMA NextProgress ==
  ASSUME IInv, [Next]_vars, VerifiableConfig PROVE Progress'
<1>1. CASE UNCHANGED vars
  <2>1. CASE pc \in ToSet(Loops)
    <3>1. PICK p \in ToSet(Loops) : p = pc
      BY <2>1
    <3>2. PICK j \in Nat : j = k
      BY DEF IInv, TypeOK
    <3>3. HostGrows
      BY <1>1 DEF vars, host, HostGrows
    <3>. QED  BY <1>1, <3>1, <3>2, <3>3, AdvanceProgressStutter DEF vars, proc
  <2>2. CASE pc \notin ToSet(Loops)
    <3>1. SUFFICES ASSUME Clean' PROVE
            /\ \A s \in ToSet(Loops) : Passed(s)' => Done(s, Len(ItemsOf[s]))'
            /\ (pc = "exited" /\ exit = "0") => Installed' /\ verified'
      BY <1>1, <2>2 DEF Progress, Clean, vars, host, proc
    <3>2. Clean' => Clean
      BY <1>1 DEF Clean, vars, host, proc
    <3>3. /\ \A s \in ToSet(Loops) : Passed(s) => Done(s, Len(ItemsOf[s]))
          /\ (pc = "exited" /\ exit = "0") => Installed /\ verified
      BY <3>1, <3>2 DEF IInv, Progress, Clean
    <3>4. HostGrows
      BY <1>1 DEF vars, host, HostGrows
    <3>5. ASSUME NEW s \in ToSet(Loops), Passed(s)' PROVE Done(s, Len(ItemsOf[s]))'
      BY <1>1, <3>3, <3>4, <3>5, DoneStays DEF vars, proc, Passed
    <3>6. (pc = "exited" /\ exit = "0") => Installed' /\ verified'
      BY <1>1, <3>3 DEF vars, host, proc, Installed, HasOwner
    <3>. QED  BY <3>5, <3>6
  <2>. QED  BY <2>1, <2>2
<1>. QED  BY <1>1, InvokeProgress, PreflightPassesProgress, EndLoopProgress,
             SkipItemProgress, CreateGroupProgress, CreateUserProgress,
             CreateDirectoryProgress, InstallExecutableProgress,
             InstallConfigFileProgress, InstallUnitProgress,
             DaemonReloadProgress, EnableStartSocketProgress, FinishProgress
          DEF Next, Step

LEMMA InitIInv == Init => IInv
<1>. SUFFICES ASSUME Init PROVE IInv
  OBVIOUS
<1>1. TypeOK
  BY InitTypeOK
<1>2. Progress /\ ExitedOnce
  BY LoopSteps, RankFacts DEF Init, Progress, Passed, ExitedOnce
<1>. QED  BY <1>1, <1>2 DEF IInv

(* Only Finish, a failing preflight, a raising chown() and --verify or   *)
(* --uninstall set an exit status, and each of them exits.                 *)
LEMMA NextExitedOnce == ExitedOnce /\ [Next]_vars => ExitedOnce'
<1>. SUFFICES ASSUME ExitedOnce, [Next]_vars PROVE ExitedOnce'
  OBVIOUS
<1>1. CASE InvokeInstall \/ InvokeUninstall \/ PreflightFails \/ Finish
  BY <1>1 DEF InvokeInstall, InvokeUninstall, PreflightFails, Finish, ExitedOnce
<1>2. CASE InvokeVerify
  BY <1>2 DEF InvokeVerify, ExitedOnce
<1>3. CASE CreateDirectory \/ InstallExecutable
  BY <1>3 DEF CreateDirectory, InstallExecutable, InstallOwned, ExitedOnce
<1>4. CASE PreflightPasses \/ DaemonReload
  BY <1>4 DEF PreflightPasses, DaemonReload, ExitedOnce
<1>5. CASE EndLoop
  <2>1. pc' \in ToSet(Loops) \cup {"reload", "verify"}
    BY <1>5, LoopSteps DEF EndLoop, After
  <2>. QED  BY <1>5, <2>1, LoopSteps DEF EndLoop, ExitedOnce
<1>6. CASE SkipItem \/ CreateGroup \/ CreateUser \/ InstallConfigFile
           \/ InstallUnit \/ EnableStartSocket
  <2>1. UNCHANGED <<pc, exit>>
    BY <1>6 DEF SkipItem, CreateGroup, CreateUser, InstallConfigFile,
                InstallUnit, EnableStartSocket
  <2>. QED  BY <2>1 DEF ExitedOnce
<1>7. CASE UNCHANGED vars
  BY <1>7 DEF vars, proc, ExitedOnce
<1>. QED  BY <1>1, <1>2, <1>3, <1>4, <1>5, <1>6, <1>7 DEF Next, Step

LEMMA NextIInv == VerifiableConfig => (IInv /\ [Next]_vars => IInv')
BY NextTypeOK, NextExitedOnce, NextProgress DEF IInv

(* Crash recovery by re-running install(): in every configuration in    *)
(* which the units verify_installation() expects active are built,       *)
(* started sockets, whatever earlier invocations left behind (failed     *)
(* useradd, a chown() that raised, units never started), an install that *)
(* exits 0 with no failed command leaves the host installed as configured *)
(* and verified.                                                            *)
THEOREM RerunRepairsHolds ==
  ASSUME VerifiableConfig PROVE Spec => []RerunRepairs
<1>1. Init => IInv
  BY InitIInv
<1>2. IInv /\ [Next]_vars => IInv'
  BY NextIInv
<1>3. IInv => RerunRepairs
  BY DEF IInv, ExitedOnce, Progress, RerunRepairs
<1>. QED  BY <1>1, <1>2, <1>3, PTL DEF Spec

=============================================================================
