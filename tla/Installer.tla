------------------------------ MODULE Installer ------------------------------
(***************************************************************************)
(* src/daemon/systemd/install_yaml.py: Installer.install() and main().    *)
(*                                                                         *)
(* The host is the persistent state: groups and users that exist,        *)
(* runtime directories and installed files, which of them carry the       *)
(* configured owner, the unit files in the systemd directory, and which  *)
(* units are enabled and active.  It survives the process, so a second   *)
(* invocation starts from whatever the first one left, including the     *)
(* state of a run that died half-way.                                     *)
(*                                                                         *)
(* One invocation walks the steps of install() in order, one configured  *)
(* item per action (one iteration of the step's for-loop).  The outside  *)
(* world is nondeterministic: a groupadd, useradd or systemctl command   *)
(* may fail (run_command() then returns False), and a source file may be *)
(* missing.  shutil.chown() raises when the owner or group does not      *)
(* exist, which nothing catches.  Messages and colours are left out.     *)
(***************************************************************************)
EXTENDS Naturals, Sequences

CONSTANTS
  GroupList, UserList,      \* installation.groups / users, in config order
  DirList,                  \* installation.runtime_directories
  ExeList, CfgList,         \* installation.executables / config_files
  UnitList,                 \* installation.systemd_units
  Root,                     \* the name 'root'
  Owner, OwnerGroup,        \* configured owner and group of dirs and executables
  Sockets,                  \* units of type 'socket'
  EnabledUnits, StartedUnits, \* units with enabled: true / started: true
  ExpectedActive,           \* verification.checks: units expected 'active'
  Built,                    \* items whose source file exists
  MaxRuns                   \* bound on the number of invocations (model bound)

ToSet(s) == {s[n] : n \in DOMAIN s}

Groups == ToSet(GroupList)
Users  == ToSet(UserList)
Dirs   == ToSet(DirList)
Exes   == ToSet(ExeList)
Cfgs   == ToSet(CfgList)
Units  == ToSet(UnitList)
Owned  == Dirs \cup Exes   \* the items install() may chown

ASSUME InstallerAssumption ==
  /\ Root \notin Users \cup Groups
  /\ Owner \in [Owned -> Users \cup {Root}]
  /\ OwnerGroup \in [Owned -> Groups \cup {Root}]
  /\ Sockets \cup EnabledUnits \cup StartedUnits \cup ExpectedActive \subseteq Units
  /\ Built \subseteq Exes \cup Cfgs \cup Units
  /\ MaxRuns \in Nat

(* The configuration lists are YAML lists. *)
ASSUME ListsAssumption ==
  /\ GroupList \in Seq(Groups) /\ UserList \in Seq(Users)
  /\ DirList \in Seq(Dirs) /\ ExeList \in Seq(Exes)
  /\ CfgList \in Seq(Cfgs) /\ UnitList \in Seq(Units)

VARIABLES
  groups, users,   \* accounts that exist on the host
  dirs,            \* runtime directories that exist
  chowned,         \* owned items that carry their configured owner and group
  exes, cfgs,      \* installed executables and configuration files
  unitfiles,       \* unit files in installation.paths.systemd_unit_dir
  enabled, active, \* units systemd has enabled / started
  pc,              \* where the current invocation is
  k,               \* position in the current step's for-loop (1-based)
  dry,             \* --dry-run of the current invocation
  faulty,          \* history: a command of this invocation failed
  verified,        \* the value verify_installation() returned, if it ran
  mode,            \* "install", "verify" (--verify) or "uninstall"
  exit,            \* "none", "0", "1" (exit status), "crash" (traceback)
  runs             \* invocations so far

host == <<groups, users, dirs, chowned, exes, cfgs, unitfiles, enabled, active>>
proc == <<pc, k, dry, faulty, verified, mode, exit, runs>>
vars == <<host, proc>>

(* The for-loop steps of install(), in the order install() calls them. *)
Loops == <<"groups", "users", "dirs", "exes", "cfgs", "units", "sockets">>
ItemsOf == [groups |-> GroupList, users |-> UserList, dirs |-> DirList,
            exes |-> ExeList, cfgs |-> CfgList, units |-> UnitList,
            sockets |-> UnitList]
(* The step install() calls after the given one. *)
After == [groups |-> "users", users |-> "dirs", dirs |-> "exes",
          exes |-> "cfgs", cfgs |-> "units", units |-> "reload",
          sockets |-> "verify"]

Phases == ToSet(Loops) \cup {"idle", "preflight", "reload", "verify", "exited"}

Init ==
  /\ groups = {} /\ users = {} /\ dirs = {} /\ chowned = {}
  /\ exes = {} /\ cfgs = {} /\ unitfiles = {} /\ enabled = {} /\ active = {}
  /\ pc = "idle" /\ k = 1 /\ dry = FALSE /\ faulty = FALSE
  /\ verified = FALSE /\ mode = "install" /\ exit = "none" /\ runs = 0

Item == ItemsOf[pc][k]

(* The outcomes run_command() can return for a command that can only      *)
(* succeed when pre holds: always True in a dry run (lines 80-82).         *)
Outcomes(pre) == IF dry THEN {TRUE} ELSE IF pre THEN BOOLEAN ELSE {FALSE}

(* shutil.chown() needs the owner and the group to exist (lines 170-171,  *)
(* 221-222); it is only called when one of them is not root.               *)
NeedsChown(x) == Owner[x] # Root \/ OwnerGroup[x] # Root
ChownRaises(x) ==
  NeedsChown(x) /\ (Owner[x] \notin users \cup {Root}
                    \/ OwnerGroup[x] \notin groups \cup {Root})

(* An owned item carries its configured owner: it was chowned, or the     *)
(* configuration says root:root and install() created it as root.         *)
HasOwner(x) == x \in chowned \/ ~NeedsChown(x)

(* The outcomes of the systemctl enable or start of the current unit when *)
(* its flag is in the set, and no command otherwise.                       *)
Attempt(flag) == IF Item \in flag THEN Outcomes(Item \in unitfiles) ELSE {TRUE}

-----------------------------------------------------------------------------
(* main() (lines 361-402): a new invocation of the script on the host as  *)
(* the last one left it.  Without --verify or --uninstall it calls        *)
(* install() with or without --dry-run.                                    *)
Idle == pc \in {"idle", "exited"} /\ runs < MaxRuns

InvokeInstall ==
  /\ Idle
  /\ \E dr \in BOOLEAN : dry' = dr
  /\ pc' = "preflight" /\ k' = 1 /\ mode' = "install"
  /\ faulty' = FALSE /\ verified' = FALSE /\ exit' = "none" /\ runs' = runs + 1
  /\ UNCHANGED host

(* --verify (lines 392-395): load the configuration, run                  *)
(* verify_installation() and exit with its result.  Its checks are        *)
(* abstracted to "every unit expected active is active" (a socket file     *)
(* exists exactly when its socket unit listens).                          *)
InvokeVerify ==
  /\ Idle
  /\ verified' = (ExpectedActive \subseteq active)
  /\ exit' = IF verified' THEN "0" ELSE "1"
  /\ pc' = "exited" /\ mode' = "verify" /\ runs' = runs + 1
  /\ dry' = FALSE /\ faulty' = FALSE
  /\ UNCHANGED <<host, k>>

(* --uninstall (lines 397-399) is not implemented and exits with 1. *)
InvokeUninstall ==
  /\ Idle
  /\ pc' = "exited" /\ mode' = "uninstall" /\ exit' = "1" /\ runs' = runs + 1
  /\ dry' = FALSE /\ faulty' = FALSE /\ verified' = FALSE
  /\ UNCHANGED <<host, k>>

(* The early exits with 1 before anything is changed: the config file is  *)
(* missing (main, 386-388), not root outside a dry run (check_root,       *)
(* 320-321), systemctl cannot be run (check_systemd, 323-324), the YAML   *)
(* cannot be loaded (load_config calls sys.exit(1), 69-71).               *)
PreflightFails ==
  /\ pc = "preflight"
  /\ pc' = "exited" /\ exit' = "1"
  /\ UNCHANGED <<host, k, dry, faulty, verified, mode, runs>>

PreflightPasses ==
  /\ pc = "preflight"
  /\ pc' = "groups" /\ k' = 1
  /\ UNCHANGED <<host, dry, faulty, verified, mode, exit, runs>>

(* The end of one step's for-loop: install() calls the next step. *)
EndLoop ==
  /\ pc \in ToSet(Loops)
  /\ k > Len(ItemsOf[pc])
  /\ pc' = After[pc] /\ k' = 1
  /\ UNCHANGED <<host, dry, faulty, verified, mode, exit, runs>>

(* An iteration that changes nothing: a dry run prints the mkdir or cp    *)
(* it would do, a missing source is reported and skipped ('continue',     *)
(* lines 187-189, 206-208, 236-238), a unit that is not a socket is       *)
(* skipped by enable_start_sockets() (261-262).                           *)
SkipItem ==
  /\ pc \in {"dirs", "exes", "cfgs", "units", "sockets"}
  /\ k <= Len(ItemsOf[pc])
  /\ IF pc = "sockets" THEN Item \notin Sockets
     ELSE dry \/ (pc # "dirs" /\ Item \notin Built)
  /\ k' = k + 1
  /\ UNCHANGED <<host, pc, dry, faulty, verified, mode, exit, runs>>

(* run_command() with the effect new on v: nothing in a dry run, else the *)
(* command succeeds or fails; a failure is printed and returns False,     *)
(* which no caller looks at (lines 73-90).                                *)
Command(v, pre, new) ==
  \E ok \in Outcomes(pre) :
    /\ v' = IF ok /\ ~dry THEN new ELSE v
    /\ faulty' = (faulty \/ ~ok)

(* create_users_groups() (lines 111-150): an account that exists is left  *)
(* alone; otherwise groupadd / useradd is run.                            *)
CreateGroup ==
  /\ pc = "groups" /\ k <= Len(GroupList)
  /\ IF Item \in groups THEN UNCHANGED <<groups, faulty>>
     ELSE Command(groups, TRUE, groups \cup {Item})
  /\ k' = k + 1
  /\ UNCHANGED <<users, dirs, chowned, exes, cfgs, unitfiles, enabled, active,
                 pc, dry, verified, mode, exit, runs>>

CreateUser ==
  /\ pc = "users" /\ k <= Len(UserList)
  /\ IF Item \in users THEN UNCHANGED <<users, faulty>>
     ELSE Command(users, TRUE, users \cup {Item})
  /\ k' = k + 1
  /\ UNCHANGED <<groups, dirs, chowned, exes, cfgs, unitfiles, enabled, active,
                 pc, dry, verified, mode, exit, runs>>

(* Mutation variant: owner and group are only set on an item this run    *)
(* created, as if mkdir/copy and chown sat under "if not exists".         *)
InstallOwnedIfNew(v) ==
  /\ v' = v \cup {Item}
  /\ \/ /\ ~ChownRaises(Item)
        /\ chowned' = IF NeedsChown(Item) /\ Item \notin v
                        THEN chowned \cup {Item} ELSE chowned
        /\ k' = k + 1
        /\ UNCHANGED <<pc, exit>>
     \/ /\ ChownRaises(Item)
        /\ pc' = "exited" /\ exit' = "crash"
        /\ UNCHANGED <<chowned, k>>

(* mkdir or copy2, then the chown of create_directories() (157-171) and   *)
(* install_executables() (203-222) into v.  A copy over an existing file  *)
(* keeps that file's owner; shutil.chown() raising ends the process       *)
(* after the item was created and before it got its owner.                *)
InstallOwned(v) ==
  /\ v' = v \cup {Item}
  /\ \/ /\ ~ChownRaises(Item)
        /\ chowned' = IF NeedsChown(Item) THEN chowned \cup {Item} ELSE chowned
        /\ k' = k + 1
        /\ UNCHANGED <<pc, exit>>
     \/ /\ ChownRaises(Item)
        /\ pc' = "exited" /\ exit' = "crash"
        /\ UNCHANGED <<chowned, k>>

(* Mutation variant: the 'if not self.dry_run' test is missing. *)
CreateDirectoryInDryRun ==
  /\ pc = "dirs" /\ k <= Len(DirList)
  /\ InstallOwned(dirs)
  /\ UNCHANGED <<groups, users, exes, cfgs, unitfiles, enabled, active,
                 dry, faulty, verified, mode, runs>>

(* create_directories() (152-175) for one directory. *)
CreateDirectory ==
  /\ pc = "dirs" /\ k <= Len(DirList) /\ ~dry
  /\ InstallOwned(dirs)
  /\ UNCHANGED <<groups, users, exes, cfgs, unitfiles, enabled, active,
                 dry, faulty, verified, mode, runs>>

(* Mutation variant: the missing-source check before copy2 is dropped. *)
InstallExecutableUnbuilt ==
  /\ pc = "exes" /\ k <= Len(ExeList) /\ ~dry
  /\ InstallOwned(exes)
  /\ UNCHANGED <<groups, users, dirs, cfgs, unitfiles, enabled, active,
                 dry, faulty, verified, mode, runs>>

InstallExecutable ==
  /\ pc = "exes" /\ k <= Len(ExeList) /\ ~dry /\ Item \in Built
  /\ InstallOwned(exes)
  /\ UNCHANGED <<groups, users, dirs, cfgs, unitfiles, enabled, active,
                 dry, faulty, verified, mode, runs>>

(* install_config_files() (228-247): copy2 and chmod, no owner. *)
InstallConfigFile ==
  /\ pc = "cfgs" /\ k <= Len(CfgList) /\ ~dry /\ Item \in Built
  /\ cfgs' = cfgs \cup {Item} /\ k' = k + 1
  /\ UNCHANGED <<groups, users, dirs, chowned, exes, unitfiles, enabled, active,
                 pc, dry, faulty, verified, mode, exit, runs>>

(* install_systemd_units() (177-194): copy2 into the unit directory. *)
InstallUnit ==
  /\ pc = "units" /\ k <= Len(UnitList) /\ ~dry /\ Item \in Built
  /\ unitfiles' = unitfiles \cup {Item} /\ k' = k + 1
  /\ UNCHANGED <<groups, users, dirs, chowned, exes, cfgs, enabled, active,
                 pc, dry, faulty, verified, mode, exit, runs>>

(* systemd_daemon_reload() (251-254): its only outcome the model tells    *)
(* apart is success or an ignored failure; systemd loads a unit file it   *)
(* has not seen on the next enable or start anyway.                        *)
DaemonReload ==
  /\ pc = "reload"
  /\ \E ok \in Outcomes(TRUE) : faulty' = (faulty \/ ~ok)
  /\ pc' = "sockets" /\ k' = 1
  /\ UNCHANGED <<host, dry, verified, mode, exit, runs>>

(* enable_start_sockets() (256-272) for one socket unit: systemctl enable *)
(* if enabled, systemctl start if started; each needs the unit file and  *)
(* may fail, and neither failure is looked at.                             *)
EnableStartSocket ==
  /\ pc = "sockets" /\ k <= Len(UnitList) /\ Item \in Sockets
  /\ \E okE \in Attempt(EnabledUnits), okS \in Attempt(StartedUnits) :
       /\ enabled' = IF Item \in EnabledUnits /\ okE /\ ~dry
                       THEN enabled \cup {Item} ELSE enabled
       /\ active' = IF Item \in StartedUnits /\ okS /\ ~dry
                      THEN active \cup {Item} ELSE active
       /\ faulty' = (faulty \/ ~okE \/ ~okS)
  /\ k' = k + 1
  /\ UNCHANGED <<groups, users, dirs, chowned, exes, cfgs, unitfiles,
                 pc, dry, verified, mode, exit, runs>>

(* The end of install() (350-358): "Installation complete!", then         *)
(* verify_installation() outside a dry run, whose result is dropped, and  *)
(* return True, so main() exits with 0.                                    *)
Finish ==
  /\ pc = "verify"
  /\ verified' = IF dry THEN verified ELSE ExpectedActive \subseteq active
  /\ exit' = "0" /\ pc' = "exited"
  /\ UNCHANGED <<host, k, dry, faulty, mode, runs>>

(* The steps of one invocation, as opposed to starting a new one. *)
Step ==
  \/ PreflightFails \/ PreflightPasses \/ EndLoop \/ SkipItem
  \/ CreateGroup \/ CreateUser \/ CreateDirectory \/ InstallExecutable
  \/ InstallConfigFile \/ InstallUnit \/ DaemonReload \/ EnableStartSocket
  \/ Finish

Next == InvokeInstall \/ InvokeVerify \/ InvokeUninstall \/ Step

(* Invocations of the script on one host, one after the other.  Only    *)
(* safety is checked of it, so no fairness is assumed.                     *)
Spec == Init /\ [][Next]_vars

-----------------------------------------------------------------------------
TypeOK ==
  /\ groups \subseteq Groups /\ users \subseteq Users /\ dirs \subseteq Dirs
  /\ chowned \subseteq Owned /\ exes \subseteq Exes /\ cfgs \subseteq Cfgs
  /\ unitfiles \subseteq Units /\ enabled \subseteq Units /\ active \subseteq Units
  /\ pc \in Phases
  /\ k \in Nat /\ k >= 1
  /\ pc \in ToSet(Loops) => k <= Len(ItemsOf[pc]) + 1
  /\ dry \in BOOLEAN /\ faulty \in BOOLEAN /\ verified \in BOOLEAN
  /\ mode \in {"install", "verify", "uninstall"}
  /\ exit \in {"none", "0", "1", "crash"}
  /\ runs \in 0 .. MaxRuns

(* The host as the configuration describes it: every account, directory *)
(* and built file in place with its configured owner, every built socket *)
(* unit enabled and started as configured.                                *)
Installed ==
  /\ Groups \subseteq groups /\ Users \subseteq users /\ Dirs \subseteq dirs
  /\ Exes \cap Built \subseteq exes /\ Cfgs \cap Built \subseteq cfgs
  /\ Units \cap Built \subseteq unitfiles
  /\ \A x \in Dirs \cup (Exes \cap Built) : HasOwner(x)
  /\ Sockets \cap EnabledUnits \cap Built \subseteq enabled
  /\ Sockets \cap StartedUnits \cap Built \subseteq active

(* Crash recovery by re-running: whatever earlier invocations left behind *)
(* (a user whose useradd failed, a directory created and then abandoned  *)
(* by a chown that raised, units never started), an install() in which   *)
(* no command fails leaves the host fully installed and verified.  This  *)
(* rests on create_directories() and install_executables() redoing mkdir, *)
(* copy and chown for items that already exist, and on accounts being    *)
(* looked up before they are created.                                     *)
RerunRepairs ==
  (mode = "install" /\ exit = "0" /\ ~dry /\ ~faulty) => (Installed /\ verified)

(* --dry-run touches nothing on the host: every step of a dry invocation *)
(* leaves accounts, files and units as they were (run_command() returns  *)
(* before subprocess.run, the file steps only print).                      *)
DryRunChangesNothing == [][dry => UNCHANGED host]_vars

(* main() exits with 0 only when install() succeeded, and the module's   *)
(* docstring promises to verify the installation: exit 0 of an install   *)
(* should mean the host is installed as configured.                       *)
ReportedSuccessComplete == (mode = "install" /\ exit = "0" /\ ~dry) => Installed

(* The verification install() runs decides nothing: exit 0 of an install *)
(* should imply that verify_installation() returned True.                  *)
VerifyResultHonoured == (mode = "install" /\ exit = "0" /\ ~dry) => verified

(* The abstract view of the invocation: idle before the first one,      *)
(* exited after one ended, running in between.                            *)
status == IF pc = "idle" THEN "idle" ELSE IF pc = "exited" THEN "exited"
          ELSE "running"

AbsInst == INSTANCE InstallerSpec

(* The code keeps the promises of InstallerSpec: every step of main() and *)
(* install() only adds to the host, installs only built files, chowns an  *)
(* item only after creating it and while its owner and group exist,       *)
(* enables or starts only a socket whose unit file was copied, changes    *)
(* nothing in a dry run, and exits 0 from a clean install only with the  *)
(* host installed and verify_installation() passing.                       *)
ImplementsInstallerSpec == AbsInst!Spec

-----------------------------------------------------------------------------
(* The inductive invariant behind RerunRepairs.  The position of each     *)
(* step of install() in the order it calls them.                          *)
Rank == [groups |-> 1, users |-> 2, dirs |-> 3, exes |-> 4, cfgs |-> 5,
         units |-> 6, reload |-> 7, sockets |-> 8, verify |-> 9]

(* Step s is behind the current one. *)
Passed(s) == pc \in DOMAIN Rank /\ Rank[s] < Rank[pc]

(* Item x of step s is as the configuration describes it. *)
InPlace(s, x) ==
  CASE s = "groups"  -> x \in groups
    [] s = "users"   -> x \in users
    [] s = "dirs"    -> x \in dirs /\ HasOwner(x)
    [] s = "exes"    -> x \in Built => x \in exes /\ HasOwner(x)
    [] s = "cfgs"    -> x \in Built => x \in cfgs
    [] s = "units"   -> x \in Built => x \in unitfiles
    [] s = "sockets" -> x \in Sockets \cap Built =>
                          /\ x \in EnabledUnits => x \in enabled
                          /\ x \in StartedUnits => x \in active

(* The first m items of step s are in place. *)
Done(s, m) == \A j \in 1 .. m : InPlace(s, ItemsOf[s][j])

(* The configurations verify_installation() can accept after a clean     *)
(* install: every unit it expects active is a built socket that is       *)
(* started.                                                                *)
VerifiableConfig == ExpectedActive \subseteq Sockets \cap StartedUnits \cap Built

(* While an install runs with no failed command, every step behind it    *)
(* and the items of the current step already visited are in place, and  *)
(* a clean install that exited 0 left the host installed and verified.   *)
Progress ==
  (mode = "install" /\ ~dry /\ ~faulty) =>
    /\ \A s \in ToSet(Loops) : Passed(s) => Done(s, Len(ItemsOf[s]))
    /\ pc \in ToSet(Loops) => Done(pc, k - 1)
    /\ (pc = "exited" /\ exit = "0") => Installed /\ verified

(* An exit status is set only once the invocation has exited. *)
ExitedOnce == exit # "none" => pc = "exited"

IInv == TypeOK /\ ExitedOnce /\ Progress

=============================================================================
