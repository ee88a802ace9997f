---------------------------- MODULE InstallerSpec ----------------------------
(***************************************************************************)
(* What one invocation of install_yaml.py promises, with the for-loops of *)
(* install() and the order of its steps abstracted away.  An install      *)
(* invocation is running until it exits; while it runs it only adds to   *)
(* the host, within the configuration and never in a dry run, and it     *)
(* keeps the host consistent: an item gets its owner only once it exists  *)
(* and its owner and group exist, only built files are installed, and    *)
(* systemd only enables or starts a configured socket whose unit file is *)
(* in place.  It exits with 1 or a traceback at any point, or with 0;    *)
(* exit 0 of an install in which no command failed means the host is     *)
(* installed as configured and the verification passed.                  *)
(*                                                                         *)
(* Installer (the detailed model of the code) implements this module     *)
(* under the mapping of its phase to status; see Installer!AbsInst.       *)
(***************************************************************************)
EXTENDS Naturals

CONSTANTS
  Groups, Users, Dirs, Exes, Cfgs, Units,  \* the configured items
  Root, Owner, OwnerGroup,                 \* as in Installer
  Sockets, EnabledUnits, StartedUnits, ExpectedActive, Built, MaxRuns

VARIABLES
  groups, users, dirs, chowned, exes, cfgs, unitfiles, enabled, active,
  status,          \* "idle", "running" or "exited"
  dry, faulty, verified, mode, exit, runs

host == <<groups, users, dirs, chowned, exes, cfgs, unitfiles, enabled, active>>
vars == <<host, status, dry, faulty, verified, mode, exit, runs>>

NeedsChown(x) == Owner[x] # Root \/ OwnerGroup[x] # Root
HasOwner(x) == x \in chowned \/ ~NeedsChown(x)

(* The host within the configuration, and consistent. *)
HostOK ==
  /\ groups \subseteq Groups /\ users \subseteq Users /\ dirs \subseteq Dirs
  /\ exes \subseteq Exes \cap Built /\ cfgs \subseteq Cfgs \cap Built
  /\ unitfiles \subseteq Units \cap Built
  /\ chowned \subseteq dirs \cup exes
  /\ \A x \in chowned : /\ Owner[x] \in users \cup {Root}
                        /\ OwnerGroup[x] \in groups \cup {Root}
  /\ enabled \subseteq unitfiles \cap Sockets \cap EnabledUnits
  /\ active \subseteq unitfiles \cap Sockets \cap StartedUnits

(* The host as the configuration describes it (as in Installer). *)
Installed ==
  /\ Groups \subseteq groups /\ Users \subseteq users /\ Dirs \subseteq dirs
  /\ Exes \cap Built \subseteq exes /\ Cfgs \cap Built \subseteq cfgs
  /\ Units \cap Built \subseteq unitfiles
  /\ \A x \in Dirs \cup (Exes \cap Built) : HasOwner(x)
  /\ Sockets \cap EnabledUnits \cap Built \subseteq enabled
  /\ Sockets \cap StartedUnits \cap Built \subseteq active

Init ==
  /\ groups = {} /\ users = {} /\ dirs = {} /\ chowned = {}
  /\ exes = {} /\ cfgs = {} /\ unitfiles = {} /\ enabled = {} /\ active = {}
  /\ status = "idle" /\ dry = FALSE /\ faulty = FALSE
  /\ verified = FALSE /\ mode = "install" /\ exit = "none" /\ runs = 0

(* A change of the host by a running install: nothing is removed, the    *)
(* host stays consistent, and a dry run changes nothing.                 *)
HostStep ==
  /\ groups \subseteq groups' /\ users \subseteq users' /\ dirs \subseteq dirs'
  /\ chowned \subseteq chowned' /\ exes \subseteq exes' /\ cfgs \subseteq cfgs'
  /\ unitfiles \subseteq unitfiles' /\ enabled \subseteq enabled'
  /\ active \subseteq active'
  /\ HostOK'
  /\ dry => UNCHANGED host

Idle == status \in {"idle", "exited"} /\ runs < MaxRuns

Invoke ==
  /\ Idle
  /\ status' = "running" /\ dry' \in BOOLEAN /\ mode' = "install"
  /\ faulty' = FALSE /\ verified' = FALSE /\ exit' = "none" /\ runs' = runs + 1
  /\ UNCHANGED host

Verify ==
  /\ Idle
  /\ verified' = (ExpectedActive \subseteq active)
  /\ exit' = IF verified' THEN "0" ELSE "1"
  /\ status' = "exited" /\ mode' = "verify" /\ runs' = runs + 1
  /\ dry' = FALSE /\ faulty' = FALSE
  /\ UNCHANGED host

Uninstall ==
  /\ Idle
  /\ status' = "exited" /\ mode' = "uninstall" /\ exit' = "1"
  /\ runs' = runs + 1 /\ dry' = FALSE /\ faulty' = FALSE /\ verified' = FALSE
  /\ UNCHANGED host

(* Part of the work of a running install; a command may fail. *)
Work ==
  /\ status = "running" /\ mode = "install"
  /\ HostStep
  /\ faulty' \in {faulty, TRUE}
  /\ UNCHANGED <<status, dry, verified, mode, exit, runs>>

(* The install ends with 1 or a traceback, possibly half-way through a   *)
(* change of the host.                                                     *)
Abort ==
  /\ status = "running" /\ mode = "install"
  /\ HostStep
  /\ status' = "exited" /\ exit' \in {"1", "crash"}
  /\ UNCHANGED <<dry, faulty, verified, mode, runs>>

(* The install ends with 0; outside a dry run it verified the host, and  *)
(* if no command failed the host is installed and the verification       *)
(* passed.                                                                 *)
Succeed ==
  /\ status = "running" /\ mode = "install"
  /\ verified' = IF dry THEN verified ELSE ExpectedActive \subseteq active
  /\ (~dry /\ ~faulty) => Installed /\ verified'
  /\ status' = "exited" /\ exit' = "0"
  /\ UNCHANGED <<host, dry, faulty, mode, runs>>

Next == Invoke \/ Verify \/ Uninstall \/ Work \/ Abort \/ Succeed

Spec == Init /\ [][Next]_vars

=============================================================================
