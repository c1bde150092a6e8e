----------------------------- MODULE AppProcess -----------------------------
(* Dictatem as processes of one user's session: daemons that start, take    *)
(* the single-instance lock, load config.toml and reconcile the start-at-   *)
(* login entry; the tray's settings, Restart and Quit; `dictatem            *)
(* --uninstall` and the installer that an upgrade runs, both of which stop   *)
(* the running daemon.  Processes are numbered in the order they start, so  *)
(* that the number also tells the time of creation; Alien is a process of   *)
(* another program, older than all of them.                                 *)
EXTENDS ConfigFile, FiniteSets

CONSTANTS
  MaxPid,      \* how many processes may start
  AlienParent, \* the number that Alien's dead parent had
  Unlockable,  \* the processes for which no lock file can be established
  Nobody       \* owner of a free lock, parent of a process started by the user

Pids == 1..MaxPid
Alien == 0

ASSUME ProcessAssumption ==
  /\ MaxPid \in Nat /\ AlienParent \in Pids
  /\ Unlockable \subseteq Pids /\ Nobody \notin Pids

VARIABLES
  platform,    \* "win32" or "darwin"
  at,          \* the statement a process has reached
  kind,        \* "daemon", "uninstall" or "installer"
  parent,      \* the parent's number, as the system's table has it
  waiting,     \* daemons launched by a tray Restart (RESTART_ENV_VAR)
  lock,        \* the owner written in daemon.lock
  guarded,     \* daemons that went on because they got the lock
  registrars,  \* daemons that have an autostart registrar
  file,        \* config.toml
  conf,        \* a daemon's Config
  protected,   \* daemons whose load reported a problem
  registered,  \* what the system remembers of Dictatem
  service,     \* launchd's job: not loaded, or the number it last started
  victims,     \* what a stopper has decided to terminate
  \* an observer's notes
  edits,       \* the newest edit by the user
  read,        \* the edit a daemon found in the file it loaded
  quiet,       \* uninstalls that nothing has interfered with
  handing      \* a Restart was accepted and no daemon has come up since

vars == <<platform, at, kind, parent, waiting, lock, guarded, registrars, file,
          conf, protected, registered, service, victims, edits, read, quiet, handing>>

NotLoaded == Nobody
Entries == {"autostart", "identity", "bundle"}
Ended == {"gone"}
Alive(p) == at[p] \notin Ended \union {"unborn"}
IsDaemon(p) == kind[p] = "daemon"
Starting == {"helper", "born", "starting", "locked", "baking", "loaded"}
Up(p) == IsDaemon(p) /\ at[p] \in {"running", "writing"}
PastLock(p) == IsDaemon(p) /\ at[p] \in {"locked", "baking", "loaded", "running",
                                         "writing", "quitting"}

Init ==
  /\ platform \in {"win32", "darwin"}
  /\ at = [p \in 0..MaxPid |-> IF p = Alien THEN "running" ELSE "unborn"]
  /\ kind = [p \in 0..MaxPid |-> IF p = Alien THEN "other" ELSE "daemon"]
  /\ parent = [p \in 0..MaxPid |-> IF p = Alien THEN AlienParent ELSE Nobody]
  /\ waiting = {} /\ guarded = {} /\ registrars = {} /\ protected = {}
  /\ lock = Nobody
  /\ file = Missing
  /\ conf = [p \in Pids |-> DefaultConfig]
  /\ registered = IF platform = "win32" THEN {} ELSE {"bundle"}
  /\ service = NotLoaded
  /\ victims = [p \in Pids |-> {}]
  /\ edits = 0 /\ read = [p \in Pids |-> 0] /\ quiet = {}
  /\ handing = FALSE

-----------------------------------------------------------------------------
(* Starting processes.  The next number is the next process.                *)
Unborn == {p \in Pids : at[p] = "unborn"}
IsNext(p) == p \in Unborn /\ \A q \in Unborn : p <= q

Spawn(p, k, from, where) ==
  /\ IsNext(p)
  /\ kind' = [kind EXCEPT ![p] = k]
  /\ parent' = [parent EXCEPT ![p] = from]
  /\ at' = [at EXCEPT ![p] = where]
  /\ quiet' = {}

memory == <<conf, protected, guarded, registrars, read>>
disk == <<file, lock, edits, registered>>

(* What a process knew ends with it.                                        *)
Outlive(S) == {p \in S : at'[p] \notin Ended}
Forgets ==
  /\ conf' = [p \in Pids |-> IF at'[p] \in Ended THEN DefaultConfig ELSE conf[p]]
  /\ read' = [p \in Pids |-> IF at'[p] \in Ended THEN 0 ELSE read[p]]
  /\ victims' = [p \in Pids |-> IF at'[p] \in Ended THEN {} ELSE victims[p]]
  /\ protected' = Outlive(protected) /\ guarded' = Outlive(guarded)
  /\ registrars' = Outlive(registrars) /\ waiting' = Outlive(waiting)

UserStarts ==
  /\ \E p \in Pids : Spawn(p, "daemon", Nobody, "born")
  /\ UNCHANGED <<platform, handing, waiting, service, victims, memory, disk>>

(* The entry runs the daemon at login; launchd loads the agent's job then.  *)
LogsIn ==
  /\ "autostart" \in registered
  /\ \A p \in Pids : IsDaemon(p) => ~Alive(p)
  /\ \E p \in Pids : /\ Spawn(p, "daemon", Nobody, "born")
                     /\ service' = IF platform = "darwin" THEN p ELSE service
  /\ UNCHANGED <<platform, handing, waiting, victims, memory, disk>>

Dies(p) ==
  /\ IsDaemon(p) /\ Alive(p) /\ at[p] # "helper"
  /\ at' = [at EXCEPT ![p] = "gone"]
  /\ Forgets
  /\ handing' = FALSE
  /\ UNCHANGED <<platform, kind, parent, service, quiet, disk>>

-----------------------------------------------------------------------------
(* A daemon starts.                                                         *)
Moves(p, from, to) ==
  /\ IsDaemon(p) /\ at[p] = from
  /\ at' = [at EXCEPT ![p] = to]
  /\ handing' = (handing /\ from # "loaded" /\ to # "quitting")
  /\ UNCHANGED <<platform, kind, parent, service, edits>>

(* _start_windows_daemon and _start_macos_daemon, up to _run_daemon.  On    *)
(* macOS the daemon owns the login entry only beside the app bundle or      *)
(* while an entry is left over.                                             *)
BeginsOnWindows(p) ==
  /\ Moves(p, "born", "starting")
  /\ platform = "win32"
  /\ registered' = registered \union {"identity"}
  /\ registrars' = registrars \union {p}
  /\ UNCHANGED <<conf, protected, guarded, read, waiting, victims, file, lock, quiet>>

BeginsOnMac(p) ==
  /\ Moves(p, "born", "starting")
  /\ platform = "darwin"
  /\ registrars' = IF registered \cap {"bundle", "autostart"} # {}
                   THEN registrars \union {p} ELSE registrars
  /\ UNCHANGED <<conf, protected, guarded, read, waiting, victims, file, lock,
                 registered, quiet>>

(* QLockFile takes a free lock, and one whose owner is not running.         *)
LockIsFreeOnQuit == lock \notin {p \in Pids : Alive(p) /\ at[p] # "quitting"}
LockIsFree == lock \notin {p \in Pids : Alive(p)}

GetsLock(p) ==
  /\ Moves(p, "starting", "locked")
  /\ p \notin Unlockable /\ LockIsFree
  /\ lock' = p
  /\ guarded' = guarded \union {p}
  /\ waiting' = waiting \ {p}
  /\ UNCHANGED <<conf, protected, registrars, read, victims, file, registered, quiet>>

(* A launch that did not come from a Restart is refused at once.  One that  *)
(* did waits; RESTART_LOCK_WAIT_MS is far longer than a daemon that quits   *)
(* needs, so it gives up only on an owner that is not about to exit.        *)
MayWaitNever(p) == FALSE
MayWait(p) == p \in waiting

LosesLock(p) ==
  /\ Moves(p, "starting", "gone")
  /\ p \notin Unlockable /\ ~LockIsFree
  /\ MayWait(p) => at[lock] # "quitting"
  /\ Forgets
  /\ UNCHANGED <<file, lock, registered, quiet>>

(* The lock file cannot be established: no guard for this daemon.           *)
StartsUnguarded(p) ==
  /\ Moves(p, "starting", "locked")
  /\ p \in Unlockable
  /\ waiting' = waiting \ {p}
  /\ UNCHANGED <<memory, victims, file, lock, registered, quiet>>

(* load_config_with_report; a first run writes the file, which begins with  *)
(* truncating it.                                                           *)
LoadsConfig(p) ==
  /\ \/ /\ Moves(p, "locked", "baking")
        /\ file = Missing /\ file' = EmptyFile
     \/ /\ Moves(p, "locked", "loaded")
        /\ file # Missing /\ UNCHANGED file
  /\ conf' = [conf EXCEPT ![p] = LoadConfig(file)]
  /\ read' = [read EXCEPT ![p] = Shows(file)]
  /\ protected' = IF WriteProtected(Report(file)) THEN protected \union {p} ELSE protected
  /\ UNCHANGED <<guarded, registrars, waiting, victims, lock, registered, quiet>>

BakesConfig(p) ==
  /\ Moves(p, "baking", "loaded")
  /\ file' \in Serialize(conf[p])
  /\ UNCHANGED <<memory, waiting, victims, lock, registered, quiet>>

(* apply_autostart: the entry follows the flag.  A registrar that raises is *)
(* logged.                                                                  *)
Follows(desired) == IF desired = "on" THEN registered \union {"autostart"}
                                      ELSE registered \ {"autostart"}
ReconcilesAutostart(p) ==
  /\ Moves(p, "loaded", "running")
  /\ registered' \in {registered} \union
       (IF p \in registrars THEN {Follows(conf[p].autostart)} ELSE {})
  /\ UNCHANGED <<memory, waiting, victims, file, lock, quiet>>

-----------------------------------------------------------------------------
(* A running daemon.                                                        *)

(* write_config truncates the file and then writes it.  Either may fail;    *)
(* that is caught and logged, and the daemon goes on with the new setting.  *)
BeginsWrite(p, c) ==
  /\ conf' = [conf EXCEPT ![p] = c]
  /\ \/ file' = EmptyFile /\ Moves(p, "running", "writing")
     \/ file' = file /\ Moves(p, "running", "running")

EndsWrite(p) ==
  /\ Moves(p, "writing", "running")
  /\ file' \in Serialize(conf[p]) \union {file}
  /\ UNCHANGED <<memory, waiting, victims, lock, registered, quiet>>

(* on_tray_set_autostart: the entry first, then the file unless this        *)
(* session's is protected.                                                  *)
SetsAutostart(p, desired) ==
  /\ at[p] = "running" /\ IsDaemon(p)
  /\ registered' = IF p \in registrars THEN Follows(desired) ELSE registered
  /\ quiet' = {}
  /\ IF p \in protected
     THEN UNCHANGED <<at, platform, handing, kind, parent, service, edits, conf, file>>
     ELSE BeginsWrite(p, [conf[p] EXCEPT !.autostart = desired])
  /\ UNCHANGED <<protected, guarded, registrars, read, waiting, victims, lock>>

(* _select_microphone; the menu is there on Windows only.                   *)
PicksMicrophone(p, device) ==
  /\ platform = "win32" /\ at[p] = "running" /\ IsDaemon(p)
  /\ IF p \in protected
     THEN /\ conf' = [conf EXCEPT ![p].device = device]
          /\ UNCHANGED <<at, platform, handing, kind, parent, service, edits, file>>
     ELSE BeginsWrite(p, [conf[p] EXCEPT !.device = device])
  /\ UNCHANGED <<protected, guarded, registrars, read, waiting, victims, lock,
                 registered, quiet>>

(* _on_tray_restart on Windows: the successor is spawned first and told to  *)
(* wait.  When it cannot be spawned nothing changes.                        *)
SpawnsSuccessor(p) ==
  /\ platform = "win32" /\ at[p] = "running" /\ IsDaemon(p)
  /\ \E q \in Pids :
       /\ IsNext(q)
       /\ parent' = [parent EXCEPT ![q] = p]
       /\ at' = [at EXCEPT ![q] = "born", ![p] = "quitting"]
       /\ waiting' = waiting \union {q}
  /\ quiet' = {} /\ handing' = TRUE
  /\ UNCHANGED <<platform, kind, service, victims, memory, disk>>

(* spawn_launchd_relaunch: only if launchd has the job.  The helper sleeps  *)
(* and will be the successor.                                               *)
SpawnsHelper(p) ==
  /\ platform = "darwin" /\ at[p] = "running" /\ IsDaemon(p)
  /\ service # NotLoaded
  /\ \E q \in Pids : /\ IsNext(q)
                     /\ at' = [at EXCEPT ![q] = "helper", ![p] = "quitting"]
  /\ quiet' = {} /\ handing' = (service = p /\ p \in guarded)
  /\ UNCHANGED <<platform, kind, parent, waiting, service, victims, memory, disk>>

(* launchctl kickstart -k: what is left of the job is killed, and a new     *)
(* process started.                                                         *)
Kickstarts(q) ==
  /\ at[q] = "helper" /\ service # NotLoaded
  /\ at' = [p \in 0..MaxPid |-> IF p = q THEN "born"
                               ELSE IF p = service /\ Alive(p) THEN "gone" ELSE at[p]]
  /\ service' = q
  /\ Forgets
  /\ UNCHANGED <<platform, handing, kind, parent, quiet, disk>>

(* on_tray_quit, and the return from app.exec().                            *)
Quits(p) ==
  /\ Moves(p, "running", "quitting")
  /\ UNCHANGED <<memory, waiting, victims, file, lock, registered, quiet>>

Exits(p) ==
  /\ Moves(p, "quitting", "gone")
  /\ lock' = IF lock = p THEN Nobody ELSE lock
  /\ Forgets
  /\ UNCHANGED <<file, registered, quiet>>

-----------------------------------------------------------------------------
(* The uninstaller and the installer.                                       *)

(* pids_to_stop.  On Windows a daemon and an uninstaller are two processes  *)
(* of the system: uv's launcher, and the base interpreter it runs as its    *)
(* child, which does the work, starts what is started and exits with it.    *)
(* Only the launcher's program is in Dictatem's directory.                  *)
HasLauncher(p) == p # Alien /\ kind[p] \in {"daemon", "uninstall"}
ProcessTable ==
  {n \in (0..MaxPid) \X {"launcher", "worker"} :
     Alive(n[1]) /\ (n[2] = "launcher" => HasLauncher(n[1]))}
IsRoot(n) == n[2] = "launcher"

(* Who has n's number as its parent's.  The dead parent of Alien had that   *)
(* of either; a child older than its parent belonged to an earlier process. *)
AnyChild(c, n) ==
  IF c[2] = "worker" /\ HasLauncher(c[1])
  THEN n = <<c[1], "launcher">>
  ELSE n[1] = parent[c[1]] /\ (n[2] = "worker" \/ c[1] = Alien)
GenuineChild(c, n) == AnyChild(c, n) /\ c[1] >= n[1]

(* The roots and what they started, but not the caller and not what only it *)
(* started: the processes in every set that has the roots and lacks no      *)
(* child of a member.                                                       *)
PidsToStop(self) ==
  LET others == ProcessTable \ {<<self, "worker">>}
      roots == {r \in others : IsRoot(r)}
      Closed(S) == ~\E c \in others \ S, r \in S : GenuineChild(c, r)
  IN {p \in 0..MaxPid : \A more \in SUBSET (others \ roots) :
        Closed(roots \union more) => <<p, "worker">> \in roots \union more}

UserUninstalls ==
  /\ \E u \in Pids :
       /\ IsNext(u)
       /\ kind' = [kind EXCEPT ![u] = "uninstall"]
       /\ at' = [at EXCEPT ![u] = "born"]
       /\ quiet' = IF \E p \in Pids : IsDaemon(p) /\ at[p] \in Starting
                   THEN quiet ELSE quiet \union {u}
  /\ UNCHANGED <<platform, handing, parent, waiting, service, victims, memory, disk>>

(* run_uninstall, and on Windows the app identity.                          *)
(* A step that raises does not keep the later ones from being tried, but    *)
(* the app bundle is removed in the same step as the entry.                 *)
Cleanup == IF platform = "win32"
           THEN {{"autostart"}, {"identity"}} ELSE {{"autostart", "bundle"}}
Removes(u) ==
  /\ kind[u] = "uninstall" /\ at[u] = "born"
  /\ \E done \in SUBSET Cleanup :
       /\ registered' = registered \ UNION done
       /\ quiet' = IF done = Cleanup THEN quiet ELSE quiet \ {u}
  /\ at' = [at EXCEPT ![u] = IF platform = "win32" THEN "stopping" ELSE "gone"]
  /\ UNCHANGED <<platform, handing, kind, parent, waiting, service, victims, memory, file,
                 lock, edits>>

(* stop_running_daemons and Stop-DictatemDaemon: a snapshot of the process  *)
(* table, then one termination after the other.  No snapshot, no stop.      *)
TakesSnapshot(u) ==
  /\ at[u] = "stopping"
  /\ \/ /\ victims' = [victims EXCEPT ![u] = PidsToStop(u)]
        /\ UNCHANGED quiet
     \/ /\ victims' = victims
        /\ quiet' = quiet \ {u}
  /\ at' = [at EXCEPT ![u] = "killing"]
  /\ UNCHANGED <<platform, handing, kind, parent, waiting, service, memory, disk>>

(* The system may refuse to terminate some, launcher and worker alike.      *)
Terminates(u) ==
  /\ at[u] = "killing"
  /\ \E refused \in SUBSET victims[u] :
       /\ at' = [p \in 0..MaxPid |->
                   IF p = u THEN IF kind[u] = "uninstall" THEN "gone" ELSE "installing"
                   ELSE IF p \in victims[u] \ refused /\ Alive(p) THEN "gone" ELSE at[p]]
       /\ quiet' = {v \in quiet : IF v = u THEN refused = {} ELSE at'[v] = at[v]}
  /\ Forgets
  /\ handing' = (handing /\ victims[u] = {})
  /\ UNCHANGED <<platform, kind, parent, service, disk>>

(* The installer, run by the user or as a child of a daemon whose update    *)
(* check was confirmed.  UpdateChecker stays busy once it has started one.  *)
UserInstalls ==
  /\ platform = "win32"
  /\ \E u \in Pids : Spawn(u, "installer", Nobody, "stopping")
  /\ UNCHANGED <<platform, handing, waiting, service, victims, memory, disk>>

StartsUpgrade(p) ==
  /\ platform = "win32" /\ IsDaemon(p) /\ at[p] = "running"
  /\ ~\E u \in Pids : kind[u] = "installer" /\ parent[u] = p
  /\ \E u \in Pids : Spawn(u, "installer", p, "stopping")
  /\ UNCHANGED <<platform, handing, waiting, service, victims, memory, disk>>

(* uv installs or fails; only after an install is the daemon launched.      *)
InstallEnds(u) ==
  /\ at[u] = "installing"
  /\ \/ \E p \in Pids :
          /\ IsNext(p)
          /\ at' = [at EXCEPT ![u] = "gone", ![p] = "born"]
          /\ parent' = [parent EXCEPT ![p] = u]
          /\ quiet' = {}
     \/ /\ at' = [at EXCEPT ![u] = "gone"]
        /\ UNCHANGED <<parent, quiet>>
  /\ Forgets
  /\ UNCHANGED <<platform, handing, kind, service, disk>>

(* `dictatem --install-macos-app`: the bundle, and a fresh copy of an entry *)
(* that is there.                                                           *)
InstallsMacApp ==
  /\ platform = "darwin" /\ "bundle" \notin registered
  /\ registered' = registered \union {"bundle"}
  /\ quiet' = {}
  /\ UNCHANGED <<platform, handing, at, kind, parent, waiting, service, victims, memory,
                 file, lock, edits>>

(* The user edits the file: good settings, a bad one, or a syntax error.    *)
UserEdits ==
  /\ edits < MaxEdits /\ file # Missing
  /\ edits' = edits + 1
  /\ file' \in {Broken(edits')} \union
       {TableFile([autostart |-> "off", device |-> "absent",
                   other |-> [is |-> o, edit |-> edits']]) : o \in {"good", "invalid"}}
  /\ UNCHANGED <<platform, handing, at, kind, parent, waiting, service, victims, memory,
                 lock, registered, quiet>>

-----------------------------------------------------------------------------
StartsUp(p) == \/ BeginsOnWindows(p) \/ BeginsOnMac(p)
               \/ GetsLock(p) \/ LosesLock(p) \/ StartsUnguarded(p)
               \/ LoadsConfig(p) \/ BakesConfig(p) \/ ReconcilesAutostart(p)

(* What a daemon does without being asked, and what the tools do.           *)
DaemonGoesOn(p) == StartsUp(p) \/ EndsWrite(p) \/ Exits(p) \/ Kickstarts(p)
ToolGoesOn(u) == Removes(u) \/ TakesSnapshot(u) \/ Terminates(u) \/ InstallEnds(u)

TrayAction(p) ==
  \/ \E desired \in {"on", "off"} : SetsAutostart(p, desired)
  \/ \E device \in Microphones \union {NoDevice} : PicksMicrophone(p, device)
  \/ SpawnsSuccessor(p) \/ SpawnsHelper(p) \/ Quits(p) \/ StartsUpgrade(p)

Next ==
  \/ UserStarts \/ LogsIn \/ UserUninstalls \/ UserInstalls
  \/ InstallsMacApp \/ UserEdits
  \/ \E p \in Pids : DaemonGoesOn(p) \/ ToolGoesOn(p) \/ TrayAction(p) \/ Dies(p)

Spec == Init /\ [][Next]_vars

-----------------------------------------------------------------------------
(* Properties.                                                              *)

(* Types of the variables.                                                  *)
TypeOK ==
  /\ platform \in {"win32", "darwin"}
  /\ at \in [0..MaxPid -> Starting \union Ended \union
              {"unborn", "running", "writing", "quitting", "stopping", "killing",
               "installing"}]
  /\ kind \in [0..MaxPid -> {"daemon", "uninstall", "installer", "other"}]
  /\ parent \in [0..MaxPid -> Pids \union {Nobody}]
  /\ waiting \subseteq Pids /\ guarded \subseteq Pids /\ registrars \subseteq Pids
  /\ protected \subseteq Pids /\ quiet \subseteq Pids
  /\ lock \in Pids \union {Nobody}
  /\ file \in File
  /\ conf \in [Pids -> Config]
  /\ registered \subseteq Entries
  /\ service \in Pids \union {NotLoaded}
  /\ victims \in [Pids -> SUBSET (0..MaxPid)]
  /\ edits \in Edits /\ read \in [Pids -> Edits]

(* restart.py: "never two hooked daemons at once".  Of the daemons that     *)
(* were given the lock at most one is past it, through Restart, upgrades,   *)
(* crashes and owners that died with the lock.                              *)
NeverTwoDaemons ==
  \A p, q \in guarded : PastLock(p) /\ PastLock(q) => p = q

(* A stop ends nothing but Dictatem: not the process of another program     *)
(* whose dead parent had a number that is a daemon's now, and not the       *)
(* installer that does the stopping.  And it ends all of it: after an       *)
(* uninstall that no step of was refused, and with nothing started or       *)
(* switched on meanwhile and no daemon still starting, nothing is left: no  *)
(* entry, and on Windows no daemon.                                         *)
StopIsExact ==
  /\ at[Alien] = "running"
  /\ \A u \in Pids : u \notin victims[u] /\ Alien \notin victims[u]
  /\ \A u \in quiet : at[u] = "gone" =>
       /\ registered = {}
       /\ platform = "win32" => \A p \in Pids : IsDaemon(p) => ~Alive(p)

(* A daemon that saves a setting saves the user's edit it had loaded with   *)
(* it: the next load gives that edit back, unless the write failed or some  *)
(* text among the settings is one that _toml_value does not write as it is. *)
(* What could not wholly be read is never saved over.                       *)
SavesWhatItRead ==
  [][\A p \in Pids :
       at[p] = "writing" /\ at'[p] = "running" /\ read[p] = edits /\ Plain(conf[p])
         => file' = file \/ LoadConfig(file').other = edits]_vars

(* Once a Restart was accepted there is always a daemon that is up or will  *)
(* be, until something kills a daemon or the user quits one.  On macOS it   *)
(* must be launchd's own daemon that restarts, and it must hold the lock:   *)
(* the successor does not wait there, so another daemon that is about to    *)
(* exit would turn it away.                                                 *)
RestartHandsOver ==
  handing => \E p \in Pids : IsDaemon(p) /\ (Up(p) \/ at[p] \in Starting)
=============================================================================
