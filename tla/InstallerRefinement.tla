------------------------- MODULE InstallerRefinement -------------------------
(***************************************************************************)
(* Proof that Installer implements InstallerSpec under the mapping        *)
(* AbsInst of Installer (the phase pc seen as idle, running or exited),   *)
(* for every configuration satisfying InstallerAssumption,                *)
(* ListsAssumption and VerifiableConfig.  The step proof rests on three   *)
(* invariants: the host stays consistent (Consistent, the abstract        *)
(* HostOK), a running invocation is an install (RunningInstall), and the *)
(* inductive invariant IInv of InstallerProofs, which gives the promise  *)
(* of a clean exit 0.                                                      *)
(***************************************************************************)
EXTENDS InstallerProofs

(* The host is within the configuration and consistent. *)
Consistent == AbsInst!HostOK

(* A running invocation is an install: --verify and --uninstall end in    *)
(* the step that starts them.                                              *)
RunningInstall == status = "running" => mode = "install"

LEMMA InitConsistent == Init => Consistent
BY DEF Init, Consistent, AbsInst!HostOK

(* The item a step works on, with its type. *)
LEMMA CurrentItem ==
  ASSUME FlowTypeOK
  PROVE  /\ pc = "groups" /\ k <= Len(GroupList) => Item \in Groups
         /\ pc = "users" /\ k <= Len(UserList) => Item \in Users
         /\ pc = "dirs" /\ k <= Len(DirList) => Item \in Dirs
         /\ pc = "exes" /\ k <= Len(ExeList) => Item \in Exes
         /\ pc \in {"units", "sockets"} /\ k <= Len(UnitList) => Item \in Units
         /\ pc = "cfgs" /\ k <= Len(CfgList) => Item \in Cfgs
BY ItemType, ItemsOfLists DEF FlowTypeOK, Item

(* A chown() that does not raise finds the owner and group. *)
LEMMA ChownFinds ==
  ASSUME NEW x, ~ChownRaises(x), NeedsChown(x)
  PROVE  /\ Owner[x] \in users \cup {Root}
         /\ OwnerGroup[x] \in groups \cup {Root}
BY DEF ChownRaises

(* Installing an owned item (a directory or an executable) into v keeps  *)
(* the host consistent: the item is created before it is chowned, and    *)
(* it is chowned only when chown() finds its owner and group.             *)
LEMMA InstallOwnedConsistent ==
  ASSUME Consistent, TypeOK,
         \/ CreateDirectory /\ Item \in Dirs
         \/ InstallExecutable /\ Item \in Exes
  PROVE  Consistent'
<1>. USE DEF Consistent, AbsInst!HostOK
<1>1. UNCHANGED <<groups, users, cfgs, unitfiles, enabled, active>>
  BY DEF CreateDirectory, InstallExecutable
<1>2. /\ dirs' \subseteq Dirs /\ exes' \subseteq Exes \cap Built
      /\ dirs \subseteq dirs' /\ exes \subseteq exes'
  BY DEF CreateDirectory, InstallExecutable, InstallOwned
<1>3. chowned' \subseteq dirs' \cup exes'
  BY <1>2 DEF CreateDirectory, InstallExecutable, InstallOwned
<1>4. \A x \in chowned' : /\ Owner[x] \in users' \cup {Root}
                          /\ OwnerGroup[x] \in groups' \cup {Root}
  <2>1. CASE chowned' = chowned
    BY <1>1, <2>1
  <2>2. CASE chowned' # chowned
    <3>1. ~ChownRaises(Item) /\ NeedsChown(Item) /\ chowned' = chowned \cup {Item}
      BY <2>2 DEF CreateDirectory, InstallExecutable, InstallOwned
    <3>. QED  BY <1>1, <3>1, ChownFinds
  <2>. QED  BY <2>1, <2>2
<1>. QED  BY <1>1, <1>2, <1>3, <1>4

(* Every step of the installer keeps the host consistent. *)
LEMMA NextConsistent ==
  ASSUME Consistent, TypeOK, [Next]_vars PROVE Consistent'
<1>0. FlowTypeOK
  BY TypeOKParts
<1>. USE DEF Consistent, AbsInst!HostOK
<1>1. CASE UNCHANGED host
  BY <1>1 DEF host
<1>2. CASE CreateGroup
  <2>1. Item \in Groups
    BY <1>0, <1>2, CurrentItem DEF CreateGroup
  <2>. QED  BY <1>2, <2>1 DEF CreateGroup, Command
<1>3. CASE CreateUser
  <2>1. Item \in Users
    BY <1>0, <1>3, CurrentItem DEF CreateUser
  <2>. QED  BY <1>3, <2>1 DEF CreateUser, Command
<1>4. CASE CreateDirectory
  BY <1>0, <1>4, CurrentItem, InstallOwnedConsistent DEF CreateDirectory
<1>5. CASE InstallExecutable
  BY <1>0, <1>5, CurrentItem, InstallOwnedConsistent DEF InstallExecutable
<1>6. CASE InstallConfigFile
  <2>1. Item \in Cfgs \cap Built
    BY <1>0, <1>6, CurrentItem DEF InstallConfigFile
  <2>. QED  BY <1>6, <2>1 DEF InstallConfigFile
<1>7. CASE InstallUnit
  <2>1. Item \in Units \cap Built
    BY <1>0, <1>7, CurrentItem DEF InstallUnit
  <2>. QED  BY <1>7, <2>1 DEF InstallUnit
<1>8. CASE EnableStartSocket
  <2>1. UNCHANGED <<groups, users, dirs, chowned, exes, cfgs, unitfiles>>
    BY <1>8 DEF EnableStartSocket
  <2>2. PICK okE \in Attempt(EnabledUnits), okS \in Attempt(StartedUnits) :
          /\ enabled' = IF Item \in EnabledUnits /\ okE /\ ~dry
                          THEN enabled \cup {Item} ELSE enabled
          /\ active' = IF Item \in StartedUnits /\ okS /\ ~dry
                         THEN active \cup {Item} ELSE active
    BY <1>8 DEF EnableStartSocket
  <2>3. Item \in Sockets
    BY <1>8 DEF EnableStartSocket
  <2>4. Item \in EnabledUnits /\ okE /\ ~dry => Item \in unitfiles
    BY <2>2 DEF Attempt, Outcomes
  <2>5. Item \in StartedUnits /\ okS /\ ~dry => Item \in unitfiles
    BY <2>2 DEF Attempt, Outcomes
  <2>. QED  BY <2>1, <2>2, <2>3, <2>4, <2>5
<1>9. CASE InvokeInstall \/ InvokeVerify \/ InvokeUninstall \/ PreflightFails
           \/ PreflightPasses \/ EndLoop \/ SkipItem \/ DaemonReload \/ Finish
  BY <1>9, <1>1 DEF InvokeInstall, InvokeVerify, InvokeUninstall, PreflightFails,
                    PreflightPasses, EndLoop, SkipItem, DaemonReload, Finish
<1>10. CASE UNCHANGED vars
  BY <1>10, <1>1 DEF vars
<1>. QED  BY <1>2, <1>3, <1>4, <1>5, <1>6, <1>7, <1>8, <1>9, <1>10 DEF Next, Step

(* Every step of an invocation is taken while it runs, and keeps its     *)
(* mode and its dry-run flag.                                               *)
LEMMA StepRunning ==
  ASSUME Step PROVE status = "running" /\ UNCHANGED <<mode, dry>>
<1>1. pc \notin {"idle", "exited"}
  BY LoopSteps DEF Step, PreflightFails, PreflightPasses, EndLoop, SkipItem,
                   CreateGroup, CreateUser, CreateDirectory, InstallExecutable,
                   InstallConfigFile, InstallUnit, DaemonReload,
                   EnableStartSocket, Finish
<1>2. UNCHANGED <<mode, dry>>
  BY DEF Step, PreflightFails, PreflightPasses, EndLoop, SkipItem,
         CreateGroup, CreateUser, CreateDirectory, InstallExecutable,
         InstallConfigFile, InstallUnit, DaemonReload, EnableStartSocket,
         Finish, InstallOwned
<1>. QED  BY <1>1, <1>2 DEF status

(* Where the steps that stay in one invocation lead: the phases after a  *)
(* step of a for-loop are running ones.                                     *)
LEMMA StaysRunning ==
  ASSUME PreflightPasses \/ EndLoop \/ SkipItem \/ CreateGroup \/ CreateUser
         \/ InstallConfigFile \/ InstallUnit \/ DaemonReload \/ EnableStartSocket
  PROVE  status' = "running"
<1>1. CASE EndLoop
  <2>1. pc' \in ToSet(Loops) \cup {"reload", "verify"}
    BY <1>1, LoopSteps DEF EndLoop, After
  <2>. QED  BY <2>1, LoopSteps DEF status
<1>2. CASE ~EndLoop
  BY <1>2, LoopSteps DEF PreflightPasses, SkipItem, CreateGroup, CreateUser,
                          InstallConfigFile, InstallUnit, DaemonReload,
                          EnableStartSocket, status
<1>. QED  BY <1>1, <1>2

LEMMA NextRunningInstall ==
  RunningInstall /\ [Next]_vars => RunningInstall'
<1>. SUFFICES ASSUME RunningInstall, [Next]_vars PROVE RunningInstall'
  OBVIOUS
<1>1. CASE InvokeInstall \/ InvokeVerify \/ InvokeUninstall
  BY <1>1 DEF InvokeInstall, InvokeVerify, InvokeUninstall, RunningInstall, status
<1>2. CASE Step
  BY <1>2, StepRunning DEF RunningInstall
<1>3. CASE UNCHANGED vars
  BY <1>3 DEF vars, proc, RunningInstall, status
<1>. QED  BY <1>1, <1>2, <1>3 DEF Next

-----------------------------------------------------------------------------
(* The invariant of the refinement proof. *)
RInv == IInv /\ Consistent /\ RunningInstall

LEMMA InitRInv == Init => RInv
<1>1. Init => RunningInstall
  BY DEF Init, RunningInstall, status
<1>. QED  BY <1>1, InitIInv, InitConsistent DEF RInv

LEMMA NextRInv == VerifiableConfig => (RInv /\ [Next]_vars => RInv')
<1>. SUFFICES ASSUME VerifiableConfig, RInv, [Next]_vars PROVE RInv'
  OBVIOUS
<1>1. IInv'
  BY NextIInv DEF RInv
<1>2. Consistent'
  BY NextConsistent DEF RInv, IInv
<1>3. RunningInstall'
  BY NextRunningInstall DEF RInv
<1>. QED  BY <1>1, <1>2, <1>3 DEF RInv

-----------------------------------------------------------------------------
(* The steps of the installer mapped to steps of InstallerSpec. *)

LEMMA InitRefines == Init => AbsInst!Init
BY DEF Init, AbsInst!Init, status

(* Installed, as the abstract spec states it, is Installed. *)
LEMMA InstalledAbs == AbsInst!Installed <=> Installed
BY DEF AbsInst!Installed, AbsInst!HasOwner, AbsInst!NeedsChown, Installed,
       HasOwner, NeedsChown

(* A new invocation of the script. *)
LEMMA InvokeRefines ==
  ASSUME InvokeInstall \/ InvokeVerify \/ InvokeUninstall
  PROVE  AbsInst!Invoke \/ AbsInst!Verify \/ AbsInst!Uninstall
<1>1. Idle => AbsInst!Idle
  BY DEF Idle, AbsInst!Idle, status
<1>2. CASE InvokeInstall
  BY <1>1, <1>2 DEF InvokeInstall, AbsInst!Invoke, status, host, AbsInst!host
<1>3. CASE InvokeVerify
  BY <1>1, <1>3 DEF InvokeVerify, AbsInst!Verify, status, host, AbsInst!host
<1>4. CASE InvokeUninstall
  BY <1>1, <1>4 DEF InvokeUninstall, AbsInst!Uninstall, status, host,
                    AbsInst!host
<1>. QED  BY <1>2, <1>3, <1>4

(* A step of a running install that may change the host satisfies the   *)
(* abstract HostStep.                                                      *)
LEMMA HostStepHolds ==
  ASSUME RInv, [Next]_vars PROVE AbsInst!HostStep
<1>1. HostGrows
  BY NextHostGrows
<1>2. Consistent'
  BY NextConsistent DEF RInv, IInv
<1>3. dry => UNCHANGED host
  BY DryStep DEF vars
<1>. QED  BY <1>1, <1>2, <1>3 DEF HostGrows, Consistent, AbsInst!HostStep,
                                  AbsInst!host, host

(* The steps that stay inside one invocation and change no abstract      *)
(* variable: the loop position and the phase are not seen by the spec.   *)
LEMMA InnerStutters ==
  ASSUME PreflightPasses \/ EndLoop \/ SkipItem
  PROVE  UNCHANGED AbsInst!vars
<1>1. status = "running" /\ status' = "running"
  BY StepRunning, StaysRunning DEF Step
<1>. QED  BY <1>1 DEF PreflightPasses, EndLoop, SkipItem, AbsInst!vars,
                      AbsInst!host, host

(* The steps of a for-loop that change the host and do not end the      *)
(* process are work of the running install; a failed command sets faulty.*)
LEMMA WorkRefines ==
  ASSUME RInv, [Next]_vars,
         CreateGroup \/ CreateUser \/ InstallConfigFile \/ InstallUnit
         \/ EnableStartSocket \/ DaemonReload
  PROVE  AbsInst!Work
<1>1. status = "running" /\ status' = "running" /\ mode = "install"
  BY StepRunning, StaysRunning DEF Step, RInv, RunningInstall
<1>2. AbsInst!HostStep
  BY HostStepHolds
<1>3. faulty \in BOOLEAN
  BY DEF RInv, IInv, TypeOK
<1>4. faulty' \in {faulty, TRUE}
  BY <1>3 DEF CreateGroup, CreateUser, InstallConfigFile, InstallUnit,
              EnableStartSocket, DaemonReload, Command
<1>5. UNCHANGED <<dry, verified, mode, exit, runs>>
  BY DEF CreateGroup, CreateUser, InstallConfigFile, InstallUnit,
         EnableStartSocket, DaemonReload
<1>. QED  BY <1>1, <1>2, <1>4, <1>5 DEF AbsInst!Work

(* Installing a directory or an executable: the item is created and      *)
(* chowned as part of the running install, or chown() raises and the     *)
(* process dies with a traceback after creating the item.                 *)
LEMMA OwnedRefines ==
  ASSUME RInv, [Next]_vars, CreateDirectory \/ InstallExecutable
  PROVE  AbsInst!Work \/ AbsInst!Abort
<1>1. status = "running" /\ mode = "install"
  BY StepRunning DEF Step, RInv, RunningInstall
<1>2. AbsInst!HostStep
  BY HostStepHolds
<1>3. UNCHANGED <<dry, faulty, verified, mode, runs>>
  BY DEF CreateDirectory, InstallExecutable
<1>4. CASE ~ChownRaises(Item)
  <2>1. UNCHANGED <<pc, exit>>
    BY <1>4 DEF CreateDirectory, InstallExecutable, InstallOwned
  <2>. QED  BY <1>1, <1>2, <1>3, <2>1 DEF AbsInst!Work, status
<1>5. CASE ChownRaises(Item)
  <2>1. pc' = "exited" /\ exit' = "crash"
    BY <1>5 DEF CreateDirectory, InstallExecutable, InstallOwned
  <2>. QED  BY <1>1, <1>2, <1>3, <2>1 DEF AbsInst!Abort, status
<1>. QED  BY <1>4, <1>5

(* A failed preflight check ends the install with 1. *)
LEMMA PreflightFailsRefines ==
  ASSUME RInv, [Next]_vars, PreflightFails PROVE AbsInst!Abort
<1>1. status = "running" /\ mode = "install"
  BY StepRunning DEF Step, RInv, RunningInstall
<1>2. AbsInst!HostStep
  BY HostStepHolds
<1>. QED  BY <1>1, <1>2 DEF PreflightFails, AbsInst!Abort, status

(* The end of install() keeps the promise of a clean exit 0: every step  *)
(* is behind it, so the host is installed and verify_installation()      *)
(* passes.                                                                  *)
LEMMA FinishRefines ==
  ASSUME RInv, Finish, VerifiableConfig PROVE AbsInst!Succeed
<1>1. status = "running" /\ mode = "install"
  BY StepRunning DEF Step, RInv, RunningInstall
<1>2. ASSUME ~dry, ~faulty PROVE Installed /\ ExpectedActive \subseteq active
  <2>1. \A s \in ToSet(Loops) : Passed(s)
    BY RankFacts DEF Finish, Passed
  <2>2. \A s \in ToSet(Loops) : Done(s, Len(ItemsOf[s]))
    BY <1>1, <1>2, <2>1 DEF RInv, IInv, Progress
  <2>. QED  BY <2>2, AllDoneInstalled
<1>3. (~dry /\ ~faulty) => AbsInst!Installed /\ verified'
  BY <1>2, InstalledAbs DEF Finish
<1>. QED  BY <1>1, <1>3 DEF Finish, AbsInst!Succeed, status, host, AbsInst!host

(* Every step of the installer is a step of InstallerSpec or leaves its  *)
(* variables unchanged.                                                      *)
LEMMA StepRefines ==
  ASSUME VerifiableConfig, RInv, [Next]_vars
  PROVE  [AbsInst!Next]_AbsInst!vars
<1>1. CASE InvokeInstall \/ InvokeVerify \/ InvokeUninstall
  BY <1>1, InvokeRefines DEF AbsInst!Next
<1>2. CASE PreflightPasses \/ EndLoop \/ SkipItem
  BY <1>2, InnerStutters
<1>3. CASE CreateGroup \/ CreateUser \/ InstallConfigFile \/ InstallUnit
           \/ EnableStartSocket \/ DaemonReload
  BY <1>3, WorkRefines DEF AbsInst!Next
<1>4. CASE CreateDirectory \/ InstallExecutable
  BY <1>4, OwnedRefines DEF AbsInst!Next
<1>5. CASE PreflightFails
  BY <1>5, PreflightFailsRefines DEF AbsInst!Next
<1>6. CASE Finish
  BY <1>6, FinishRefines DEF AbsInst!Next
<1>7. CASE UNCHANGED vars
  BY <1>7 DEF vars, host, proc, AbsInst!vars, AbsInst!host, status
<1>. QED  BY <1>1, <1>2, <1>3, <1>4, <1>5, <1>6, <1>7 DEF Next, Step

(* The installer implements InstallerSpec: in every configuration whose  *)
(* expected-active units are built, started sockets, each run of main()  *)
(* and install() only adds to the host and keeps it consistent (no chown  *)
(* before the item and its owner exist, no unbuilt file installed, no     *)
(* unit enabled or started without its unit file), a dry run changes     *)
(* nothing, and a clean exit 0 means installed and verified.              *)
THEOREM ImplementsInstallerSpecHolds ==
  ASSUME VerifiableConfig PROVE Spec => ImplementsInstallerSpec
<1>1. Init => RInv
  BY InitRInv
<1>2. RInv /\ [Next]_vars => RInv'
  BY NextRInv
<1>3. Init => AbsInst!Init
  BY InitRefines
<1>4. RInv /\ [Next]_vars => [AbsInst!Next]_AbsInst!vars
  BY StepRefines
<1>. QED  BY <1>1, <1>2, <1>3, <1>4, PTL
          DEF Spec, ImplementsInstallerSpec, AbsInst!Spec

=============================================================================
