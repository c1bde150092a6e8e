-------------------------- MODULE AppProcessProofs --------------------------
(* What AppProcess promises, for any number of processes: one daemon holds  *)
(* the lock, a save gives back what was loaded, a stop ends Dictatem and    *)
(* nothing else, and a Restart hands over.  The places and the types come   *)
(* first; every other part has an invariant of its own, over these.         *)
EXTENDS AppProcess, TLAPS

(***************************************************************************)
(* The single-instance lock keeps a second daemon out.  The invariant that  *)
(* makes this inductive is that a daemon that was given the lock and still  *)
(* runs is the owner written in the file: QLockFile gives away a lock only  *)
(* when no living process owns it, and what a daemon was given is forgotten *)
(* exactly when it ends.                                                    *)
(***************************************************************************)

Past == {"locked", "baking", "loaded", "running", "writing", "quitting"}
Places == Starting \union Ended \union Past \union
  {"unborn", "stopping", "killing", "installing"}

(* What of TypeOK the argument needs.                                       *)
PlacesTyped == at \in [0..MaxPid -> Places] /\ guarded \subseteq Pids

OwnersRun == \A p \in guarded : at[p] \in Past /\ lock = p

LockInv == PlacesTyped /\ OwnersRun

LEMMA PidsAreNumbers == Pids \subseteq 0..MaxPid /\ MaxPid \in Nat
BY ProcessAssumption DEF Pids

LEMMA PlacesAreDistinct ==
  /\ Past \subseteq Places /\ Ended \subseteq Places
  /\ Past \cap (Ended \union {"unborn", "helper", "born", "starting", "stopping", "killing",
                              "installing"}) = {}
BY DEF Past, Places, Ended

(* A step by which nobody gets the lock: who is guarded afterwards was so   *)
(* before, runs, and finds the same owner in the file.                      *)
NobodyGetsIt ==
  /\ at' \in [0..MaxPid -> Places]
  /\ guarded' \subseteq guarded
  /\ \A q \in guarded' : at'[q] \in Past /\ lock' = lock

LEMMA NobodyGetsItKeeps == LockInv /\ NobodyGetsIt => LockInv'
BY DEF LockInv, PlacesTyped, OwnersRun, NobodyGetsIt

-----------------------------------------------------------------------------
(* The ways to leave the lock alone.                                        *)
LEMMA StaysPut ==
  ASSUME LockInv, guarded' = guarded, lock' = lock, at' = at
  PROVE  NobodyGetsIt
BY DEF LockInv, PlacesTyped, OwnersRun, NobodyGetsIt

LEMMA MovesSome ==
  ASSUME LockInv, guarded' = guarded, lock' = lock,
         at' \in [0..MaxPid -> Places],
         \A q \in guarded : at'[q] = at[q] \/ at'[q] \in Past
  PROVE  NobodyGetsIt
BY DEF LockInv, PlacesTyped, OwnersRun, NobodyGetsIt

LEMMA EndsSome ==
  ASSUME LockInv, Forgets, lock' = lock,
         at' \in [0..MaxPid -> Places],
         \A q \in guarded : at'[q] = at[q] \/ at'[q] \in Past \union Ended
  PROVE  NobodyGetsIt
BY DEF LockInv, PlacesTyped, OwnersRun, NobodyGetsIt, Forgets, Outlive

LEMMA GuardedAreSettled ==
  ASSUME LockInv
  PROVE  \A q \in guarded : q \in 0..MaxPid /\ at[q] \in Past
BY PidsAreNumbers DEF LockInv, PlacesTyped, OwnersRun

LEMMA SpawnKeeps ==
  ASSUME LockInv, NEW p \in Pids, NEW k, NEW from, NEW where \in Places,
         Spawn(p, k, from, where), guarded' = guarded, lock' = lock
  PROVE  NobodyGetsIt
<1>1. at' \in [0..MaxPid -> Places]
  BY DEF Spawn, LockInv, PlacesTyped
<1>2. \A q \in guarded : at'[q] = at[q]
  BY GuardedAreSettled, PlacesAreDistinct DEF Spawn, IsNext, Unborn, LockInv, PlacesTyped
<1> QED BY <1>1, <1>2, MovesSome

LEMMA MovesTyped ==
  ASSUME LockInv, NEW p \in Pids, NEW from, NEW to \in Places, Moves(p, from, to)
  PROVE  /\ at' \in [0..MaxPid -> Places]
         /\ \A q \in guarded : at'[q] = at[q] \/ at'[q] = to
BY GuardedAreSettled DEF Moves, LockInv, PlacesTyped

LEMMA MovesKeeps ==
  ASSUME LockInv, NEW p \in Pids, NEW from, NEW to \in Past, Moves(p, from, to),
         guarded' = guarded, lock' = lock
  PROVE  NobodyGetsIt
<1>1. to \in Places
  BY PlacesAreDistinct
<1> QED BY <1>1, MovesTyped, MovesSome

(* A daemon that has not got the lock yet moves on.                         *)
LEMMA EarlyMoveKeeps ==
  ASSUME LockInv, NEW p \in Pids, NEW from \in {"born", "starting"}, NEW to \in Places,
         Moves(p, from, to), guarded' = guarded, lock' = lock
  PROVE  NobodyGetsIt
<1>1. at' \in [0..MaxPid -> Places]
  BY MovesTyped
<1>2. \A q \in guarded : at'[q] = at[q]
  BY GuardedAreSettled, PlacesAreDistinct DEF Moves, LockInv, PlacesTyped
<1> QED BY <1>1, <1>2, MovesSome

-----------------------------------------------------------------------------
(* The one step that gives the lock away.                                   *)
LEMMA GetsLockKeeps ==
  ASSUME LockInv, NEW p \in Pids, GetsLock(p)
  PROVE  LockInv'
<1>1. guarded = {}
  BY GuardedAreSettled, PlacesAreDistinct
     DEF GetsLock, LockIsFree, Alive, LockInv, OwnersRun, PlacesTyped
<1>2. guarded' = {p} /\ lock' = p
  BY <1>1 DEF GetsLock
<1>3. at' \in [0..MaxPid -> Places] /\ at'[p] = "locked"
  BY PidsAreNumbers DEF GetsLock, Moves, LockInv, PlacesTyped, Places, Past
<1> QED
  BY <1>2, <1>3 DEF LockInv, PlacesTyped, OwnersRun, Past

(* A daemon that exits gives its lock back; had it been another's, nobody   *)
(* else is guarded.                                                         *)
LEMMA ExitsKeeps ==
  ASSUME LockInv, NEW p \in Pids, Exits(p)
  PROVE  NobodyGetsIt
<1>1. at' \in [0..MaxPid -> Places] /\ at'[p] = "gone"
  BY PidsAreNumbers DEF Exits, Moves, LockInv, PlacesTyped, Places, Ended
<1>2. guarded' = {q \in guarded : at'[q] \notin Ended}
  BY DEF Exits, Forgets, Outlive
<1>3. p \notin guarded'
  BY <1>1, <1>2 DEF Ended
<1>4. \A q \in guarded' : at'[q] = at[q] /\ lock # p
  BY <1>2, <1>3, GuardedAreSettled DEF Exits, Moves, LockInv, PlacesTyped, OwnersRun
<1> QED
  BY <1>1, <1>2, <1>4 DEF Exits, NobodyGetsIt, LockInv, OwnersRun

LEMMA StartsUpKeeps ==
  ASSUME LockInv, NEW p \in Pids, StartsUp(p), ~GetsLock(p)
  PROVE  NobodyGetsIt
<1>1. CASE BeginsOnWindows(p)
  BY <1>1, EarlyMoveKeeps DEF BeginsOnWindows, Places, Starting
<1>2. CASE BeginsOnMac(p)
  BY <1>2, EarlyMoveKeeps DEF BeginsOnMac, Places, Starting
<1>3. CASE LosesLock(p)
  <2>1. at' \in [0..MaxPid -> Places] /\ \A q \in guarded : at'[q] = at[q] \/ at'[q] = "gone"
    BY <1>3, MovesTyped DEF LosesLock, Places, Ended
  <2> QED
    BY <1>3, <2>1, EndsSome DEF LosesLock, Ended
<1>4. CASE StartsUnguarded(p)
  BY <1>4, MovesKeeps DEF StartsUnguarded, memory, Past
<1>5. CASE LoadsConfig(p)
  <2>1. PICK to \in Past : Moves(p, "locked", to)
    BY <1>5 DEF LoadsConfig, Past
  <2> QED BY <1>5, <2>1, MovesKeeps DEF LoadsConfig
<1>6. CASE BakesConfig(p)
  BY <1>6, MovesKeeps DEF BakesConfig, memory, Past
<1>7. CASE ReconcilesAutostart(p)
  BY <1>7, MovesKeeps DEF ReconcilesAutostart, memory, Past
<1> QED
  BY <1>1, <1>2, <1>3, <1>4, <1>5, <1>6, <1>7 DEF StartsUp

LEMMA GoesOnKeeps ==
  ASSUME LockInv, NEW p \in Pids, DaemonGoesOn(p), ~GetsLock(p)
  PROVE  NobodyGetsIt
<1>1. CASE StartsUp(p)
  BY <1>1, StartsUpKeeps
<1>2. CASE EndsWrite(p)
  BY <1>2, MovesKeeps DEF EndsWrite, memory, Past
<1>3. CASE Exits(p)
  BY <1>3, ExitsKeeps
<1>4. CASE Kickstarts(p)
  <2>1. at' \in [0..MaxPid -> Places]
    BY <1>4 DEF Kickstarts, LockInv, PlacesTyped, Places, Starting, Ended
  <2>2. \A q \in guarded : at'[q] = at[q] \/ at'[q] \in Ended
    BY <1>4, GuardedAreSettled, PlacesAreDistinct DEF Kickstarts, Ended
  <2> QED
    BY <1>4, <2>1, <2>2, EndsSome DEF Kickstarts, disk
<1> QED
  BY <1>1, <1>2, <1>3, <1>4 DEF DaemonGoesOn

LEMMA ToolKeeps ==
  ASSUME LockInv, NEW u \in Pids, ToolGoesOn(u)
  PROVE  NobodyGetsIt
<1>1. CASE Removes(u)
  <2>1. at' \in [0..MaxPid -> Places]
    BY <1>1 DEF Removes, LockInv, PlacesTyped, Places, Ended
  <2>2. \A q \in guarded : at'[q] = at[q]
    BY <1>1, GuardedAreSettled, PlacesAreDistinct DEF Removes, LockInv, PlacesTyped
  <2> QED
    BY <1>1, <2>1, <2>2, MovesSome DEF Removes, memory
<1>2. CASE TakesSnapshot(u)
  <2>1. at' \in [0..MaxPid -> Places]
    BY <1>2 DEF TakesSnapshot, LockInv, PlacesTyped, Places
  <2>2. \A q \in guarded : at'[q] = at[q]
    BY <1>2, GuardedAreSettled, PlacesAreDistinct DEF TakesSnapshot, LockInv, PlacesTyped
  <2> QED
    BY <1>2, <2>1, <2>2, MovesSome DEF TakesSnapshot, memory, disk
<1>3. CASE Terminates(u)
  <2>1. at' \in [0..MaxPid -> Places]
    BY <1>3 DEF Terminates, LockInv, PlacesTyped, Places, Ended
  <2>2. \A q \in guarded : at'[q] = at[q] \/ at'[q] \in Ended
    BY <1>3, GuardedAreSettled, PlacesAreDistinct DEF Terminates, Ended
  <2> QED
    BY <1>3, <2>1, <2>2, EndsSome DEF Terminates, disk
<1>4. CASE InstallEnds(u)
  <2>1. at' \in [0..MaxPid -> Places]
    BY <1>4 DEF InstallEnds, LockInv, PlacesTyped, Places, Starting, Ended
  <2>2. \A q \in guarded : at'[q] = at[q]
    BY <1>4, GuardedAreSettled, PlacesAreDistinct
       DEF InstallEnds, IsNext, Unborn, LockInv, PlacesTyped
  <2> QED
    BY <1>4, <2>1, <2>2, EndsSome DEF InstallEnds, disk
<1> QED
  BY <1>1, <1>2, <1>3, <1>4 DEF ToolGoesOn

LEMMA TrayKeeps ==
  ASSUME LockInv, NEW p \in Pids, TrayAction(p)
  PROVE  NobodyGetsIt
<1>1. ASSUME NEW desired, SetsAutostart(p, desired) PROVE NobodyGetsIt
  <2>1. CASE p \in protected
    BY <1>1, <2>1, StaysPut DEF SetsAutostart
  <2>2. CASE p \notin protected
    BY <1>1, <2>2, MovesKeeps DEF SetsAutostart, BeginsWrite, Past
  <2> QED BY <2>1, <2>2
<1>2. ASSUME NEW device, PicksMicrophone(p, device) PROVE NobodyGetsIt
  <2>1. CASE p \in protected
    BY <1>2, <2>1, StaysPut DEF PicksMicrophone
  <2>2. CASE p \notin protected
    BY <1>2, <2>2, MovesKeeps DEF PicksMicrophone, BeginsWrite, Past
  <2> QED BY <2>1, <2>2
<1>3. CASE SpawnsSuccessor(p)
  <2>1. at' \in [0..MaxPid -> Places]
    BY <1>3 DEF SpawnsSuccessor, LockInv, PlacesTyped, Places, Starting, Past
  <2>2. \A q \in guarded : at'[q] = at[q] \/ at'[q] \in Past
    BY <1>3, GuardedAreSettled, PlacesAreDistinct
       DEF SpawnsSuccessor, IsNext, Unborn, LockInv, PlacesTyped, Past
  <2> QED
    BY <1>3, <2>1, <2>2, MovesSome DEF SpawnsSuccessor, memory, disk
<1>4. CASE SpawnsHelper(p)
  <2>1. at' \in [0..MaxPid -> Places]
    BY <1>4 DEF SpawnsHelper, LockInv, PlacesTyped, Places, Starting, Past
  <2>2. \A q \in guarded : at'[q] = at[q] \/ at'[q] \in Past
    BY <1>4, GuardedAreSettled, PlacesAreDistinct
       DEF SpawnsHelper, IsNext, Unborn, LockInv, PlacesTyped, Past
  <2> QED
    BY <1>4, <2>1, <2>2, MovesSome DEF SpawnsHelper, memory, disk
<1>5. CASE Quits(p)
  BY <1>5, MovesKeeps DEF Quits, memory, Past
<1>6. CASE StartsUpgrade(p)
  BY <1>6, SpawnKeeps DEF StartsUpgrade, memory, disk, Places
<1> QED
  BY <1>1, <1>2, <1>3, <1>4, <1>5, <1>6 DEF TrayAction

LEMMA UserKeeps ==
  ASSUME LockInv,
         UserStarts \/ LogsIn \/ UserUninstalls \/ UserInstalls \/ InstallsMacApp \/ UserEdits
  PROVE  NobodyGetsIt
<1>1. CASE UserStarts
  BY <1>1, SpawnKeeps DEF UserStarts, memory, disk, Places, Starting
<1>2. CASE LogsIn
  BY <1>2, SpawnKeeps DEF LogsIn, memory, disk, Places, Starting
<1>3. CASE UserUninstalls
  <2>1. at' \in [0..MaxPid -> Places]
    BY <1>3 DEF UserUninstalls, LockInv, PlacesTyped, Places, Starting
  <2>2. \A q \in guarded : at'[q] = at[q]
    BY <1>3, GuardedAreSettled, PlacesAreDistinct
       DEF UserUninstalls, IsNext, Unborn, LockInv, PlacesTyped
  <2> QED
    BY <1>3, <2>1, <2>2, MovesSome DEF UserUninstalls, memory, disk
<1>4. CASE UserInstalls
  BY <1>4, SpawnKeeps DEF UserInstalls, memory, disk, Places
<1>5. CASE InstallsMacApp
  BY <1>5, StaysPut DEF InstallsMacApp, memory
<1>6. CASE UserEdits
  BY <1>6, StaysPut DEF UserEdits, memory
<1> QED
  BY <1>1, <1>2, <1>3, <1>4, <1>5, <1>6

LEMMA DiesKeeps ==
  ASSUME LockInv, NEW p \in Pids, Dies(p)
  PROVE  NobodyGetsIt
<1>1. at' \in [0..MaxPid -> Places]
  BY DEF Dies, LockInv, PlacesTyped, Places, Ended
<1>2. \A q \in guarded : at'[q] = at[q] \/ at'[q] \in Ended
  BY GuardedAreSettled DEF Dies, Ended, LockInv, PlacesTyped
<1> QED
  BY <1>1, <1>2, EndsSome DEF Dies, disk

LEMMA LockInvStep == LockInv /\ [Next]_vars => LockInv'
<1> SUFFICES ASSUME LockInv, [Next]_vars PROVE LockInv'
  OBVIOUS
<1>1. CASE UNCHANGED vars
  BY <1>1, StaysPut, NobodyGetsItKeeps DEF vars
<1>2. CASE UserStarts \/ LogsIn \/ UserUninstalls \/ UserInstalls \/ InstallsMacApp \/ UserEdits
  BY <1>2, UserKeeps, NobodyGetsItKeeps
<1>3. ASSUME NEW p \in Pids, DaemonGoesOn(p) PROVE LockInv'
  BY <1>3, GetsLockKeeps, GoesOnKeeps, NobodyGetsItKeeps
<1>4. ASSUME NEW p \in Pids, ToolGoesOn(p) PROVE LockInv'
  BY <1>4, ToolKeeps, NobodyGetsItKeeps
<1>5. ASSUME NEW p \in Pids, TrayAction(p) PROVE LockInv'
  BY <1>5, TrayKeeps, NobodyGetsItKeeps
<1>6. ASSUME NEW p \in Pids, Dies(p) PROVE LockInv'
  BY <1>6, DiesKeeps, NobodyGetsItKeeps
<1> QED
  BY <1>1, <1>2, <1>3, <1>4, <1>5, <1>6 DEF Next

(* restart.py: "never two hooked daemons at once", for every number of      *)
(* processes and whatever starts, dies, restarts, upgrades or uninstalls.   *)
THEOREM OneDaemon == Spec => []NeverTwoDaemons
<1>1. Init => LockInv
  BY DEF Init, LockInv, PlacesTyped, OwnersRun, Places, Past
<1>2. LockInv => NeverTwoDaemons
  BY DEF LockInv, OwnersRun, NeverTwoDaemons
<1> QED
  BY <1>1, <1>2, LockInvStep, PTL DEF Spec

-----------------------------------------------------------------------------
(* Types.  The places and the guarded are typed by LockInv; here is the     *)
(* rest, a lemma for each group of actions.                                 *)
LEMMA EditsAreNumbers == MaxEdits \in Nat /\ 0 \in Edits
<1>1. MaxEdits \in Nat
  BY ConfigAssumption, Zenon
<1>. QED BY <1>1 DEF Edits

LEMMA DeviceNames ==
  ASSUME NEW d \in Microphones
  PROVE  d # NoDevice /\ d # Misread /\ d # "absent" /\ d # "wrong type" /\ d # "invalid"
BY ConfigAssumption, Zenon

LEMMA ConfigTypes ==
  ASSUME NEW f \in File
  PROVE  LoadConfig(f) \in Config /\ Shows(f) \in Edits
<1>1. CASE f.state = "table"
  <2>1. f.table \in Tables
    BY <1>1 DEF File
  <2>2. /\ f.table.autostart \in Raw({"on", "off"}) \ {"invalid"}
        /\ f.table.device \in Raw(Microphones \union {Misread}) \ {"invalid"}
        /\ f.table.other.edit \in Edits
    BY <2>1 DEF Tables
  <2>3. /\ BuildConfig(f.table).autostart \in {"on", "off"}
        /\ BuildConfig(f.table).device \in Microphones \union {NoDevice, Misread}
        /\ BuildConfig(f.table).other \in Edits
    BY <2>2, EditsAreNumbers DEF BuildConfig, CheckField, Refused, Raw, DefaultConfig, Edits
  <2>4. BuildConfig(f.table) \in Config
    BY <2>3 DEF BuildConfig, Config
  <2>. QED BY <1>1, <2>2, <2>4 DEF LoadConfig, Shows
<1>2. CASE f.state # "table"
  BY <1>2, EditsAreNumbers DEF File, LoadConfig, Shows, DefaultConfig, Config
<1>. QED BY <1>1, <1>2

LEMMA TableFileTyped ==
  ASSUME NEW t \in Tables
  PROVE  TableFile(t) \in File
BY DEF TableFile, File

LEMMA FileTypes ==
  /\ Missing \in File /\ EmptyFile \in File
  /\ \A e \in Edits : Broken(e) \in File
  /\ \A c \in Config : Serialize(c) \subseteq File
<1>1. 0 \in Edits
  BY EditsAreNumbers
<1>2. EmptyFile \in File
  <2>1. [is |-> "absent", edit |-> 0] \in [is : Raw({"good"}), edit : Edits]
    BY <1>1 DEF Raw
  <2>. QED BY <2>1, TableFileTyped DEF EmptyFile, Tables, Raw
<1>3. ASSUME NEW c \in Config PROVE Serialize(c) \subseteq File
  <2>1. /\ c.autostart \in {"on", "off"} /\ c.other \in Edits
        /\ c.device \in Microphones \union {NoDevice, Misread}
    BY <1>3 DEF Config
  <2> DEFINE edit == IF c.other \in AwkwardEdits THEN 0 ELSE c.other
             device == CASE c.device = NoDevice -> "absent"
                         [] c.device \in AwkwardNames -> Misread
                         [] OTHER -> c.device
  <2>2. [is |-> "good", edit |-> edit] \in [is : Raw({"good"}), edit : Edits]
    BY <1>1, <2>1 DEF Raw
  <2>3. c.autostart \in Raw({"on", "off"}) \ {"invalid"}
    BY <2>1 DEF Raw
  <2>4. device \in Raw(Microphones \union {Misread}) \ {"invalid"}
    BY <2>1, DeviceNames DEF Raw, Misread
  <2>5. Rewritten(c) \in File
    <3> HIDE DEF edit, device
    <3>1. [autostart |-> c.autostart, device |-> device,
           other |-> [is |-> "good", edit |-> edit]] \in Tables
      BY <2>2, <2>3, <2>4 DEF Tables
    <3>. QED BY <3>1, TableFileTyped DEF Rewritten, edit, device
  <2>6. Broken(c.other) \in File
    BY <2>1 DEF Broken, File
  <2>. QED BY <2>5, <2>6 DEF Serialize
<1>. QED BY <1>2, <1>3 DEF Missing, Broken, File

LEMMA DefaultTyped == DefaultConfig \in Config /\ 0 \in Edits
BY EditsAreNumbers DEF DefaultConfig, Config

(* TypeOK without the places and the guarded.                               *)
RestTyped ==
  /\ platform \in {"win32", "darwin"}
  /\ kind \in [0..MaxPid -> {"daemon", "uninstall", "installer", "other"}]
  /\ parent \in [0..MaxPid -> Pids \union {Nobody}]
  /\ waiting \subseteq Pids /\ registrars \subseteq Pids
  /\ protected \subseteq Pids /\ quiet \subseteq Pids
  /\ lock \in Pids \union {Nobody}
  /\ file \in File
  /\ conf \in [Pids -> Config]
  /\ registered \subseteq Entries
  /\ service \in Pids \union {NotLoaded}
  /\ victims \in [Pids -> SUBSET (0..MaxPid)]
  /\ edits \in Edits /\ read \in [Pids -> Edits]

LEMMA AllTyped == PlacesTyped /\ RestTyped <=> TypeOK
BY DEF PlacesTyped, RestTyped, TypeOK, Places, Past, Starting, Ended

(* What ending processes leaves is typed as it was.                         *)
LEMMA ForgetsTyped ==
  ASSUME RestTyped, Forgets
  PROVE  /\ conf' \in [Pids -> Config] /\ read' \in [Pids -> Edits]
         /\ victims' \in [Pids -> SUBSET (0..MaxPid)]
         /\ protected' \subseteq Pids /\ registrars' \subseteq Pids /\ waiting' \subseteq Pids
BY DefaultTyped DEF RestTyped, Forgets, Outlive

LEMMA EntriesTyped ==
  ASSUME registered \subseteq Entries, NEW d
  PROVE  Follows(d) \subseteq Entries
BY DEF Follows, Entries

-----------------------------------------------------------------------------
(* What pids_to_stop gives: living processes of Dictatem's only, the caller *)
(* not among them, and every living daemon.                                 *)
Stoppable(self) == {p \in 0..MaxPid : Alive(p)} \ {self, Alien}
Daemons(self) == {p \in Pids : IsDaemon(p) /\ Alive(p)} \ {self}

LEMMA StopsTheRight ==
  ASSUME NEW self \in Pids
  PROVE  PidsToStop(self) \subseteq Stoppable(self) /\ Daemons(self) \subseteq PidsToStop(self)
<1> DEFINE others == ProcessTable \ {<<self, "worker">>}
           roots == {r \in others : IsRoot(r)}
           Closed(S) == ~\E c \in others \ S, r \in S : GenuineChild(c, r)
           Stops(p) == \A more \in SUBSET (others \ roots) :
                         Closed(roots \union more) => <<p, "worker">> \in roots \union more
<1>1. PidsToStop(self) = {p \in 0..MaxPid : Stops(p)}
  BY DEF PidsToStop
<1>2. ASSUME NEW p \in 0..MaxPid, Stops(p) PROVE p \in Stoppable(self)
  \* Everything but Alien is closed: whoever Alien's number would make its
  \* parent is younger.
  <2> DEFINE ours == others \ {<<Alien, "worker">>}
  <2>1. roots \subseteq ours
    BY DEF IsRoot
  <2>2. Closed(ours)
    <3>1. SUFFICES ASSUME NEW c \in others \ ours, NEW r \in ours, GenuineChild(c, r)
                   PROVE  FALSE
      OBVIOUS
    <3>2. c = <<Alien, "worker">>
      OBVIOUS
    <3>3. PICK q \in 0..MaxPid, part \in {"launcher", "worker"} :
            r = <<q, part>> /\ (part = "launcher" => HasLauncher(q))
      BY DEF ProcessTable
    <3>4. q <= 0
      BY <3>1, <3>2, <3>3 DEF GenuineChild, Alien
    <3>5. q = Alien
      BY <3>3, <3>4, PidsAreNumbers DEF Alien
    <3>. QED BY <3>3, <3>5 DEF HasLauncher
  <2>3. ours = roots \union (ours \ roots) /\ ours \ roots \in SUBSET (others \ roots)
    BY <2>1
  <2>4. <<p, "worker">> \in ours
    <3> HIDE DEF ours, Closed, roots
    <3>. QED BY <1>2, <2>2, <2>3
  <2>. QED BY <2>4 DEF ProcessTable, Stoppable
<1>3. ASSUME NEW p \in Daemons(self) PROVE p \in 0..MaxPid /\ Stops(p)
  \* Its launcher is a root, and it is the launcher's child.
  <2>1. p \in 0..MaxPid /\ p # Alien /\ p # self /\ HasLauncher(p) /\ Alive(p)
    BY PidsAreNumbers DEF Daemons, HasLauncher, IsDaemon, Alien, Pids
  <2>2. <<p, "launcher">> \in roots /\ <<p, "worker">> \in others
    BY <2>1 DEF ProcessTable, IsRoot
  <2>3. GenuineChild(<<p, "worker">>, <<p, "launcher">>)
    BY <2>1, PidsAreNumbers DEF GenuineChild, AnyChild
  <2>4. Stops(p)
    <3> HIDE DEF others, roots
    <3>. QED BY <2>2, <2>3
  <2>. QED BY <2>1, <2>4
<1> HIDE DEF Stops
<1>. QED BY <1>1, <1>2, <1>3

LEMMA UserTyped ==
  ASSUME RestTyped,
         UserStarts \/ LogsIn \/ UserUninstalls \/ UserInstalls \/ InstallsMacApp \/ UserEdits
  PROVE  RestTyped'
<1>1. CASE UserStarts
  BY <1>1 DEF RestTyped, UserStarts, Spawn, memory, disk
<1>2. CASE LogsIn
  BY <1>2 DEF RestTyped, LogsIn, Spawn, memory, disk
<1>3. CASE UserUninstalls
  BY <1>3 DEF RestTyped, UserUninstalls, memory, disk
<1>4. CASE UserInstalls
  BY <1>4 DEF RestTyped, UserInstalls, Spawn, memory, disk
<1>5. CASE InstallsMacApp
  BY <1>5 DEF RestTyped, InstallsMacApp, memory, Entries
<1>6. CASE UserEdits
  <2>1. edits' \in Edits
    BY <1>6, EditsAreNumbers DEF UserEdits, RestTyped, Edits
  <2>2. file' \in File
    <3>1. ASSUME NEW o \in {"good", "invalid"}
          PROVE  TableFile([autostart |-> "off", device |-> "absent",
                            other |-> [is |-> o, edit |-> edits']]) \in File
      <4>1. [is |-> o, edit |-> edits'] \in [is : Raw({"good"}), edit : Edits]
        BY <2>1, <3>1 DEF Raw
      <4>. QED BY <4>1, TableFileTyped DEF Tables, Raw
    <3>. QED BY <1>6, <2>1, <3>1, FileTypes DEF UserEdits
  <2>. QED BY <1>6, <2>1, <2>2 DEF RestTyped, UserEdits, memory
<1>. QED BY <1>1, <1>2, <1>3, <1>4, <1>5, <1>6

LEMMA GoesOnTyped ==
  ASSUME RestTyped, NEW p \in Pids, DaemonGoesOn(p)
  PROVE  RestTyped'
<1>1. CASE BeginsOnWindows(p) \/ BeginsOnMac(p)
  BY <1>1 DEF RestTyped, BeginsOnWindows, BeginsOnMac, Moves, Entries
<1>2. CASE GetsLock(p) \/ StartsUnguarded(p)
  BY <1>2 DEF RestTyped, GetsLock, StartsUnguarded, Moves, memory
<1>3. CASE LosesLock(p) \/ Exits(p)
  BY <1>3, ForgetsTyped DEF RestTyped, LosesLock, Exits, Moves
<1>4. CASE LoadsConfig(p)
  <2>1. conf' \in [Pids -> Config] /\ read' \in [Pids -> Edits] /\ file' \in File
    BY <1>4, ConfigTypes, FileTypes DEF RestTyped, LoadsConfig
  <2>2. UNCHANGED <<platform, kind, parent, service, edits>> /\ protected' \subseteq Pids
    BY <1>4 DEF RestTyped, LoadsConfig, Moves
  <2>. QED BY <1>4, <2>1, <2>2 DEF RestTyped, LoadsConfig
<1>5. CASE BakesConfig(p) \/ EndsWrite(p)
  BY <1>5, FileTypes DEF RestTyped, BakesConfig, EndsWrite, Moves, memory
<1>6. CASE ReconcilesAutostart(p)
  <2>1. registered' \subseteq Entries
    BY <1>6, EntriesTyped DEF RestTyped, ReconcilesAutostart
  <2>. QED BY <1>6, <2>1 DEF RestTyped, ReconcilesAutostart, Moves, memory
<1>7. CASE Kickstarts(p)
  BY <1>7, ForgetsTyped DEF RestTyped, Kickstarts, disk
<1>. QED
  BY <1>1, <1>2, <1>3, <1>4, <1>5, <1>6, <1>7 DEF DaemonGoesOn, StartsUp

LEMMA ToolTyped ==
  ASSUME RestTyped, NEW u \in Pids, ToolGoesOn(u)
  PROVE  RestTyped'
<1>1. CASE Removes(u)
  BY <1>1 DEF RestTyped, Removes, memory
<1>2. CASE TakesSnapshot(u)
  <2>1. PidsToStop(u) \subseteq 0..MaxPid
    BY StopsTheRight DEF Stoppable
  <2>. QED BY <1>2, <2>1 DEF RestTyped, TakesSnapshot, memory, disk
<1>3. CASE Terminates(u)
  BY <1>3, ForgetsTyped DEF RestTyped, Terminates, disk
<1>4. CASE InstallEnds(u)
  BY <1>4, ForgetsTyped DEF RestTyped, InstallEnds, disk
<1>. QED BY <1>1, <1>2, <1>3, <1>4 DEF ToolGoesOn

LEMMA TrayTyped ==
  ASSUME RestTyped, NEW p \in Pids, TrayAction(p)
  PROVE  RestTyped'
<1>1. ASSUME NEW d \in {"on", "off"}, SetsAutostart(p, d) PROVE RestTyped'
  <2>1. registered' \subseteq Entries
    BY <1>1, EntriesTyped DEF RestTyped, SetsAutostart
  <2>2. [conf[p] EXCEPT !.autostart = d] \in Config
    BY <1>1 DEF RestTyped, Config
  <2>. QED BY <1>1, <2>1, <2>2, FileTypes DEF RestTyped, SetsAutostart, BeginsWrite, Moves
<1>2. ASSUME NEW d \in Microphones \union {NoDevice}, PicksMicrophone(p, d) PROVE RestTyped'
  <2>1. [conf[p] EXCEPT !.device = d] \in Config
    BY <1>2 DEF RestTyped, Config
  <2>2. conf' \in [Pids -> Config]
    <3>1. conf' = [conf EXCEPT ![p] = [conf[p] EXCEPT !.device = d]]
      BY <1>2 DEF PicksMicrophone, BeginsWrite
    <3>. QED BY <2>1, <3>1 DEF RestTyped
  <2>. QED BY <1>2, <2>2, FileTypes DEF RestTyped, PicksMicrophone, BeginsWrite, Moves
<1>3. CASE SpawnsSuccessor(p)
  BY <1>3 DEF RestTyped, SpawnsSuccessor, memory, disk
<1>4. CASE SpawnsHelper(p)
  BY <1>4 DEF RestTyped, SpawnsHelper, memory, disk
<1>5. CASE Quits(p)
  BY <1>5 DEF RestTyped, Quits, Moves, memory
<1>6. CASE StartsUpgrade(p)
  BY <1>6 DEF RestTyped, StartsUpgrade, Spawn, memory, disk
<1>. QED BY <1>1, <1>2, <1>3, <1>4, <1>5, <1>6 DEF TrayAction

LEMMA DiesTyped ==
  ASSUME RestTyped, NEW p \in Pids, Dies(p)
  PROVE  RestTyped'
BY ForgetsTyped DEF RestTyped, Dies, disk
LEMMA TypesStep == LockInv /\ RestTyped /\ [Next]_vars => RestTyped'
<1> SUFFICES ASSUME LockInv, RestTyped, [Next]_vars PROVE RestTyped'
  OBVIOUS
<1>1. CASE UNCHANGED vars
  BY <1>1 DEF vars, RestTyped
<1>2. CASE UserStarts \/ LogsIn \/ UserUninstalls \/ UserInstalls \/ InstallsMacApp \/ UserEdits
  BY <1>2, UserTyped
<1>3. ASSUME NEW p \in Pids, DaemonGoesOn(p) \/ ToolGoesOn(p) \/ TrayAction(p) \/ Dies(p)
      PROVE  RestTyped'
  BY <1>3, GoesOnTyped, ToolTyped, TrayTyped, DiesTyped
<1>. QED BY <1>1, <1>2, <1>3 DEF Next

LEMMA TypesHold == Spec => [](LockInv /\ RestTyped)
<1>1. Init => LockInv
  BY DEF Init, LockInv, PlacesTyped, OwnersRun, Places, Past
<1>2. Init => RestTyped
  BY DefaultTyped, FileTypes, ProcessAssumption DEF Init, RestTyped, NotLoaded, Entries
<1>. QED BY <1>1, <1>2, LockInvStep, TypesStep, PTL DEF Spec

(* Every variable keeps its type, whatever processes start, stop, crash and *)
(* write; for the file and the configurations this says that what a load    *)
(* makes of any text is a configuration and what a save writes is a file.   *)
THEOREM TypeCorrect == Spec => []TypeOK
<1>1. LockInv /\ RestTyped => TypeOK
  BY AllTyped DEF LockInv
<1>. QED BY <1>1, TypesHold, PTL

-----------------------------------------------------------------------------
(* A save gives back what was loaded.  The invariant: a file in which the   *)
(* user's setting is absent shows no edit; a daemon that has loaded a file  *)
(* without a problem has the setting of the edit it read; and a daemon that *)
(* is saving had such a file.                                               *)
Loaded == {"baking", "loaded", "running", "writing", "quitting"}

AbsentIsUnedited ==
  file.state = "table" /\ file.table.other.is = "absent" => file.table.other.edit = 0
KnowsTheEdit ==
  \A p \in Pids : at[p] \in Loaded /\ p \notin protected => conf[p].other = read[p]
WritersMay == \A p \in Pids : at[p] = "writing" => p \notin protected

SaveInv == AbsentIsUnedited /\ KnowsTheEdit /\ WritersMay

(* A step by which no daemon loads the file: those that have loaded it know *)
(* what they knew, and nobody starts to save who may not.                   *)
NobodyLoads ==
  /\ AbsentIsUnedited'
  /\ \A p \in Pids : at'[p] \in Loaded =>
       /\ at[p] \in Loaded
       /\ conf'[p].other = conf[p].other /\ read'[p] = read[p]
       /\ p \in protected' <=> p \in protected
       /\ at'[p] = "writing" => at[p] = "writing" \/ p \notin protected

LEMMA NobodyLoadsKeeps == SaveInv /\ NobodyLoads => SaveInv'
BY DEF SaveInv, KnowsTheEdit, WritersMay, NobodyLoads, Loaded

LEMMA LoadedPlaces ==
  /\ Loaded \cap (Ended \union {"unborn", "helper", "born", "starting", "locked", "stopping",
                                "killing", "installing"}) = {}
  /\ "writing" \in Loaded
BY DEF Loaded, Ended

(* The ways not to load: the file stays, and so does what is in memory,     *)
(* except that of those who end.                                            *)
LEMMA RemembersAll ==
  ASSUME SaveInv, file' = file, UNCHANGED <<conf, read, protected>>,
         \A p \in Pids : at'[p] \in Loaded
                          => at[p] = at'[p] \/ (at[p] \in Loaded /\ at'[p] # "writing")
  PROVE  NobodyLoads
BY DEF SaveInv, NobodyLoads, AbsentIsUnedited

LEMMA ForgetsSome ==
  ASSUME SaveInv, file' = file, Forgets,
         \A p \in Pids : at'[p] \in Loaded => at[p] = at'[p]
  PROVE  NobodyLoads
BY LoadedPlaces DEF SaveInv, NobodyLoads, AbsentIsUnedited, Forgets, Outlive

LEMMA WrittenFile ==
  ASSUME NEW c, NEW f \in Serialize(c)
  PROVE  /\ f.state = "table" => f.table.other.is # "absent"
         /\ Plain(c) => LoadConfig(f).other = c.other
<1>1. CASE f = Rewritten(c)
  BY <1>1 DEF Rewritten, TableFile, LoadConfig, BuildConfig, CheckField, Refused, Plain
<1>2. CASE f = Broken(c.other) /\ ~Plain(c)
  BY <1>2 DEF Broken
<1>. QED BY <1>1, <1>2 DEF Serialize

LEMMA TruncatedFile == EmptyFile.table.other.edit = 0
BY DEF TableFile, EmptyFile

LEMMA SaveUser ==
  ASSUME LockInv, RestTyped, SaveInv,
         UserStarts \/ LogsIn \/ UserUninstalls \/ UserInstalls \/ InstallsMacApp \/ UserEdits
  PROVE  NobodyLoads
<1>1. CASE UserStarts \/ LogsIn \/ UserUninstalls \/ UserInstalls
  <2>1. \A p \in Pids : at'[p] \in Loaded => at[p] = at'[p]
    BY <1>1, LoadedPlaces, PidsAreNumbers
       DEF UserStarts, LogsIn, UserUninstalls, UserInstalls, Spawn, LockInv, PlacesTyped
  <2>. QED
    BY <1>1, <2>1, RemembersAll
       DEF UserStarts, LogsIn, UserUninstalls, UserInstalls, memory, disk
<1>2. CASE InstallsMacApp
  BY <1>2, RemembersAll DEF InstallsMacApp, memory
<1>3. CASE UserEdits
  <2>1. AbsentIsUnedited'
    BY <1>3 DEF UserEdits, AbsentIsUnedited, Broken, TableFile
  <2>. QED BY <1>3, <2>1 DEF UserEdits, memory, NobodyLoads
<1>. QED BY <1>1, <1>2, <1>3

(* Of a daemon that moves.                                                  *)
LEMMA OnlyTheMover ==
  ASSUME LockInv, NEW p \in Pids, NEW from, NEW to, Moves(p, from, to)
  PROVE  /\ at[p] = from /\ at'[p] = to
         /\ \A q \in 0..MaxPid : q # p => at'[q] = at[q]
BY PidsAreNumbers DEF Moves, LockInv, PlacesTyped

LEMMA SaveGoesOn ==
  ASSUME LockInv, RestTyped, SaveInv, NEW p \in Pids, DaemonGoesOn(p), ~LoadsConfig(p)
  PROVE  NobodyLoads
<1>0. \A q \in Pids : q \in 0..MaxPid
  BY PidsAreNumbers
<1>1. CASE BeginsOnWindows(p) \/ BeginsOnMac(p)
  <2>1. Moves(p, "born", "starting")
    BY <1>1 DEF BeginsOnWindows, BeginsOnMac
  <2>2. \A q \in Pids : at'[q] \in Loaded => at[q] = at'[q]
    BY <1>0, <2>1, OnlyTheMover, LoadedPlaces
  <2>. QED BY <1>1, <2>2, RemembersAll DEF BeginsOnWindows, BeginsOnMac
<1>2. CASE GetsLock(p) \/ StartsUnguarded(p)
  <2>1. Moves(p, "starting", "locked")
    BY <1>2 DEF GetsLock, StartsUnguarded
  <2>2. \A q \in Pids : at'[q] \in Loaded => at[q] = at'[q]
    BY <1>0, <2>1, OnlyTheMover, LoadedPlaces
  <2>. QED BY <1>2, <2>2, RemembersAll DEF GetsLock, StartsUnguarded, memory
<1>3. CASE LosesLock(p) \/ Exits(p)
  <2>1. PICK from : Moves(p, from, "gone")
    BY <1>3 DEF LosesLock, Exits
  <2>2. \A q \in Pids : at'[q] \in Loaded => at[q] = at'[q]
    BY <1>0, <2>1, OnlyTheMover, LoadedPlaces DEF Ended
  <2>. QED BY <1>3, <2>2, ForgetsSome DEF LosesLock, Exits
<1>4. CASE BakesConfig(p)
  <2>1. Moves(p, "baking", "loaded")
    BY <1>4 DEF BakesConfig
  <2>2. AbsentIsUnedited'
    BY <1>4, WrittenFile DEF BakesConfig, AbsentIsUnedited
  <2>. QED
    BY <1>0, <1>4, <2>1, <2>2, OnlyTheMover DEF BakesConfig, memory, NobodyLoads, Loaded
<1>5. CASE EndsWrite(p)
  <2>1. Moves(p, "writing", "running")
    BY <1>5 DEF EndsWrite
  <2>2. AbsentIsUnedited'
    BY <1>5, WrittenFile DEF EndsWrite, SaveInv, AbsentIsUnedited
  <2>. QED
    BY <1>0, <1>5, <2>1, <2>2, OnlyTheMover DEF EndsWrite, memory, NobodyLoads, Loaded
<1>6. CASE ReconcilesAutostart(p)
  <2>1. Moves(p, "loaded", "running")
    BY <1>6 DEF ReconcilesAutostart
  <2>2. \A q \in Pids : at'[q] \in Loaded
                         => at[q] = at'[q] \/ (at[q] \in Loaded /\ at'[q] # "writing")
    BY <1>0, <2>1, OnlyTheMover DEF Loaded
  <2>. QED BY <1>6, <2>2, RemembersAll DEF ReconcilesAutostart, memory
<1>7. CASE Kickstarts(p)
  <2>1. \A q \in Pids : at'[q] \in Loaded => at[q] = at'[q]
    BY <1>0, <1>7, LoadedPlaces DEF Kickstarts, Ended
  <2>. QED BY <1>7, <2>1, ForgetsSome DEF Kickstarts, disk
<1>. QED
  BY <1>1, <1>2, <1>3, <1>4, <1>5, <1>6, <1>7 DEF DaemonGoesOn, StartsUp

(* A load: without a problem the setting is that of the edit the file       *)
(* shows.                                                                   *)
LEMMA LoadTakesTheEdit ==
  ASSUME NEW f \in File, ~WriteProtected(Report(f)),
         f.state = "table" /\ f.table.other.is = "absent" => f.table.other.edit = 0
  PROVE  LoadConfig(f).other = Shows(f)
<1>1. CASE f.state = "table"
  <2>1. ~Refused(f.table.other.is)
    BY <1>1 DEF WriteProtected, Report, Problems
  <2>. QED
    BY <1>1, <2>1 DEF LoadConfig, BuildConfig, CheckField, DefaultConfig, Shows
<1>2. CASE f.state = "missing"
  BY <1>2 DEF LoadConfig, DefaultConfig, Shows
<1>3. CASE f.state = "broken"
  BY <1>3 DEF WriteProtected, Report
<1>. QED BY <1>1, <1>2, <1>3 DEF File

LEMMA SaveLoads ==
  ASSUME LockInv, RestTyped, SaveInv, NEW p \in Pids, LoadsConfig(p)
  PROVE  SaveInv'
<1>0. \A q \in Pids : q \in 0..MaxPid
  BY PidsAreNumbers
<1>1. PICK to \in {"baking", "loaded"} : Moves(p, "locked", to)
  BY DEF LoadsConfig
<1>2. \A q \in Pids : /\ at'[q] = "writing" => at[q] = "writing"
                      /\ q # p => at'[q] = at[q]
  BY <1>0, <1>1, OnlyTheMover
<1>3. \A q \in Pids : q # p => /\ conf'[q] = conf[q] /\ read'[q] = read[q]
                               /\ (q \in protected' <=> q \in protected)
  BY DEF LoadsConfig, RestTyped
<1>4. at[p] # "writing" /\ at'[p] # "writing"
  BY <1>1, OnlyTheMover
<1>5. p \notin protected' => conf'[p].other = read'[p]
  <2>1. conf'[p] = LoadConfig(file) /\ read'[p] = Shows(file)
    BY DEF LoadsConfig, RestTyped
  <2>2. p \notin protected' => ~WriteProtected(Report(file))
    BY DEF LoadsConfig
  <2>3. file \in File /\ AbsentIsUnedited
    BY DEF RestTyped, SaveInv
  <2>. QED BY <2>1, <2>2, <2>3, LoadTakesTheEdit DEF AbsentIsUnedited
<1>6. AbsentIsUnedited'
  BY TruncatedFile DEF LoadsConfig, SaveInv, AbsentIsUnedited
<1>7. KnowsTheEdit'
  BY <1>2, <1>3, <1>5 DEF KnowsTheEdit, SaveInv
<1>8. WritersMay'
  BY <1>2, <1>3, <1>4 DEF WritersMay, SaveInv
<1>. QED BY <1>6, <1>7, <1>8 DEF SaveInv

LEMMA SaveTools ==
  ASSUME LockInv, RestTyped, SaveInv, NEW u \in Pids, ToolGoesOn(u)
  PROVE  NobodyLoads
<1>0. \A q \in Pids : q \in 0..MaxPid
  BY PidsAreNumbers
<1>1. CASE Removes(u) \/ TakesSnapshot(u)
  <2>1. \A q \in Pids : at'[q] \in Loaded => at[q] = at'[q]
    BY <1>0, <1>1, LoadedPlaces DEF Removes, TakesSnapshot, Ended, LockInv, PlacesTyped
  <2>. QED BY <1>1, <2>1, RemembersAll DEF Removes, TakesSnapshot, memory, disk
<1>2. CASE Terminates(u)
  <2>1. \A q \in Pids : at'[q] \in Loaded => at[q] = at'[q]
    BY <1>0, <1>2, LoadedPlaces DEF Terminates, Ended
  <2>. QED BY <1>2, <2>1, ForgetsSome DEF Terminates, disk
<1>3. CASE InstallEnds(u)
  <2>1. \A q \in Pids : at'[q] \in Loaded => at[q] = at'[q]
    BY <1>0, <1>3, LoadedPlaces DEF InstallEnds, Ended, LockInv, PlacesTyped
  <2>. QED BY <1>3, <2>1, ForgetsSome DEF InstallEnds, disk
<1>. QED BY <1>1, <1>2, <1>3 DEF ToolGoesOn

LEMMA SaveTray ==
  ASSUME LockInv, RestTyped, SaveInv, NEW p \in Pids, TrayAction(p)
  PROVE  NobodyLoads
<1>0. \A q \in Pids : q \in 0..MaxPid
  BY PidsAreNumbers
<1>1. ASSUME NEW c, c.other = conf[p].other, BeginsWrite(p, c), p \notin protected,
             UNCHANGED <<protected, read>>
      PROVE  NobodyLoads
  <2>1. PICK to \in {"writing", "running"} : Moves(p, "running", to)
    BY <1>1 DEF BeginsWrite
  <2>2. \A q \in Pids : conf'[q].other = conf[q].other
    BY <1>1 DEF BeginsWrite, RestTyped
  <2>3. AbsentIsUnedited'
    BY <1>1, TruncatedFile DEF BeginsWrite, SaveInv, AbsentIsUnedited
  <2>. QED
    BY <1>0, <1>1, <2>1, <2>2, <2>3, OnlyTheMover DEF NobodyLoads, Loaded
<1>2. ASSUME NEW d, SetsAutostart(p, d) PROVE NobodyLoads
  <2>1. CASE p \in protected
    BY <1>2, <2>1, RemembersAll DEF SetsAutostart
  <2>2. CASE p \notin protected
    <3> DEFINE c == [conf[p] EXCEPT !.autostart = d]
    <3>1. c.other = conf[p].other
      BY DEF RestTyped, Config
    <3>2. BeginsWrite(p, c) /\ UNCHANGED <<protected, read>>
      BY <1>2, <2>2 DEF SetsAutostart
    <3> HIDE DEF c
    <3>. QED BY <1>1, <2>2, <3>1, <3>2
  <2>. QED BY <2>1, <2>2
<1>3. ASSUME NEW d, PicksMicrophone(p, d) PROVE NobodyLoads
  <2>1. CASE p \in protected
    <3>1. \A q \in Pids : conf'[q].other = conf[q].other
      BY <1>3, <2>1 DEF PicksMicrophone, RestTyped, Config
    <3>. QED BY <1>3, <2>1, <3>1 DEF PicksMicrophone, NobodyLoads, SaveInv, AbsentIsUnedited
  <2>2. CASE p \notin protected
    <3> DEFINE c == [conf[p] EXCEPT !.device = d]
    <3>1. c.other = conf[p].other
      BY DEF RestTyped, Config
    <3>2. BeginsWrite(p, c) /\ UNCHANGED <<protected, read>>
      BY <1>3, <2>2 DEF PicksMicrophone
    <3> HIDE DEF c
    <3>. QED BY <1>1, <2>2, <3>1, <3>2
  <2>. QED BY <2>1, <2>2
<1>4. CASE SpawnsSuccessor(p) \/ SpawnsHelper(p)
  <2>1. \A q \in Pids : at'[q] \in Loaded
                         => at[q] = at'[q] \/ (at[q] \in Loaded /\ at'[q] # "writing")
    BY <1>0, <1>4, LoadedPlaces
       DEF SpawnsSuccessor, SpawnsHelper, Loaded, LockInv, PlacesTyped
  <2>. QED BY <1>4, <2>1, RemembersAll DEF SpawnsSuccessor, SpawnsHelper, memory, disk
<1>5. CASE Quits(p)
  <2>1. Moves(p, "running", "quitting")
    BY <1>5 DEF Quits
  <2>2. \A q \in Pids : at'[q] \in Loaded
                         => at[q] = at'[q] \/ (at[q] \in Loaded /\ at'[q] # "writing")
    BY <1>0, <2>1, OnlyTheMover DEF Loaded
  <2>. QED BY <1>5, <2>2, RemembersAll DEF Quits, memory
<1>6. CASE StartsUpgrade(p)
  <2>1. \A q \in Pids : at'[q] \in Loaded => at[q] = at'[q]
    BY <1>0, <1>6, LoadedPlaces DEF StartsUpgrade, Spawn, LockInv, PlacesTyped
  <2>. QED BY <1>6, <2>1, RemembersAll DEF StartsUpgrade, memory, disk
<1>. QED BY <1>2, <1>3, <1>4, <1>5, <1>6 DEF TrayAction

LEMMA SaveDies ==
  ASSUME LockInv, RestTyped, SaveInv, NEW p \in Pids, Dies(p)
  PROVE  NobodyLoads
<1>1. \A q \in Pids : at'[q] \in Loaded => at[q] = at'[q]
  BY PidsAreNumbers, LoadedPlaces DEF Dies, Ended, LockInv, PlacesTyped
<1>. QED BY <1>1, ForgetsSome DEF Dies, disk

LEMMA SaveStep == LockInv /\ RestTyped /\ SaveInv /\ [Next]_vars => SaveInv'
<1> SUFFICES ASSUME LockInv, RestTyped, SaveInv, [Next]_vars PROVE SaveInv'
  OBVIOUS
<1>1. CASE UNCHANGED vars
  BY <1>1, RemembersAll, NobodyLoadsKeeps DEF vars
<1>2. CASE UserStarts \/ LogsIn \/ UserUninstalls \/ UserInstalls \/ InstallsMacApp \/ UserEdits
  BY <1>2, SaveUser, NobodyLoadsKeeps
<1>3. ASSUME NEW p \in Pids, DaemonGoesOn(p) PROVE SaveInv'
  BY <1>3, SaveGoesOn, SaveLoads, NobodyLoadsKeeps
<1>4. ASSUME NEW p \in Pids, ToolGoesOn(p) \/ TrayAction(p) \/ Dies(p) PROVE SaveInv'
  BY <1>4, SaveTools, SaveTray, SaveDies, NobodyLoadsKeeps
<1>. QED BY <1>1, <1>2, <1>3, <1>4 DEF Next
(* A daemon that was saving and is running again has ended its write: no    *)
(* other action puts a process there.                                       *)
LEMMA OnlyEndsWrite ==
  ASSUME LockInv, Next, NEW w \in Pids, at[w] = "writing", at'[w] = "running"
  PROVE  EndsWrite(w)
<1>0. w \in 0..MaxPid
  BY PidsAreNumbers
<1>1. ~(UserStarts \/ LogsIn \/ UserUninstalls \/ UserInstalls \/ InstallsMacApp \/ UserEdits)
  BY <1>0 DEF UserStarts, LogsIn, UserUninstalls, UserInstalls, InstallsMacApp, UserEdits,
              Spawn, memory, LockInv, PlacesTyped
<1>2. ASSUME NEW p \in Pids, StartsUp(p) PROVE FALSE
  <2>1. PICK from, to : from \in Starting /\ Moves(p, from, to)
    BY <1>2 DEF StartsUp, BeginsOnWindows, BeginsOnMac, GetsLock, LosesLock, StartsUnguarded,
                LoadsConfig, BakesConfig, ReconcilesAutostart, Starting
  <2>. QED BY <1>0, <2>1, OnlyTheMover DEF Starting
<1>3. ASSUME NEW p \in Pids, EndsWrite(p) PROVE EndsWrite(w)
  <2>1. Moves(p, "writing", "running")
    BY <1>3 DEF EndsWrite
  <2>2. w = p
    BY <1>0, <2>1, OnlyTheMover
  <2>. QED BY <1>3, <2>2
<1>4. ASSUME NEW p \in Pids, Exits(p) \/ Quits(p) PROVE FALSE
  <2>1. PICK from : Moves(p, from, "gone") \/ Moves(p, from, "quitting")
    BY <1>4 DEF Exits, Quits
  <2>. QED BY <1>0, <2>1, OnlyTheMover
<1>5. ASSUME NEW p \in Pids, Kickstarts(p) \/ Dies(p) PROVE FALSE
  BY <1>0, <1>5 DEF Kickstarts, Dies, LockInv, PlacesTyped
<1>6. ASSUME NEW p \in Pids, ToolGoesOn(p) PROVE FALSE
  BY <1>0, <1>6 DEF ToolGoesOn, Removes, TakesSnapshot, Terminates, InstallEnds,
                    LockInv, PlacesTyped
<1>7. ASSUME NEW p \in Pids, NEW d, SetsAutostart(p, d) \/ PicksMicrophone(p, d) PROVE FALSE
  <2>1. CASE p \in protected
    BY <1>7, <2>1 DEF SetsAutostart, PicksMicrophone
  <2>2. CASE p \notin protected
    <3>1. Moves(p, "running", "writing") \/ Moves(p, "running", "running")
      BY <1>7, <2>2 DEF SetsAutostart, PicksMicrophone, BeginsWrite
    <3>. QED BY <1>0, <3>1, OnlyTheMover
  <2>. QED BY <2>1, <2>2
<1>8. ASSUME NEW p \in Pids, SpawnsSuccessor(p) \/ SpawnsHelper(p) \/ StartsUpgrade(p)
      PROVE  FALSE
  BY <1>0, <1>8 DEF SpawnsSuccessor, SpawnsHelper, StartsUpgrade, Spawn, LockInv, PlacesTyped
<1>. QED
  BY <1>1, <1>2, <1>3, <1>4, <1>5, <1>6, <1>7, <1>8 DEF Next, DaemonGoesOn, TrayAction

(* A daemon that saves a setting saves the user's edit it had loaded with   *)
(* it, so that a load of what it wrote gives that edit back, and what could *)
(* not wholly be read is never saved over: for any number of daemons, saves *)
(* that succeed or fail, and edits, whichever of the texts are awkward; a   *)
(* save of an awkward text is the exception the property names.             *)
THEOREM SavesCorrect == Spec => SavesWhatItRead
<1>1. LockInv /\ RestTyped /\ SaveInv /\ [Next]_vars
        => [\A p \in Pids : at[p] = "writing" /\ at'[p] = "running" /\ read[p] = edits
                              /\ Plain(conf[p])
                              => file' = file \/ LoadConfig(file').other = edits]_vars
  <2> SUFFICES ASSUME LockInv, RestTyped, SaveInv, Next,
                      NEW p \in Pids, at[p] = "writing", at'[p] = "running", read[p] = edits,
                      Plain(conf[p])
               PROVE  file' = file \/ LoadConfig(file').other = edits
    OBVIOUS
  <2>1. file' \in Serialize(conf[p]) \union {file}
    BY OnlyEndsWrite DEF EndsWrite
  <2>2. conf[p].other = read[p]
    BY DEF SaveInv, KnowsTheEdit, WritersMay, Loaded
  <2>. QED BY <2>1, <2>2, WrittenFile
<1>2. Init => SaveInv
  BY PidsAreNumbers
     DEF Init, SaveInv, AbsentIsUnedited, KnowsTheEdit, WritersMay, Missing, Loaded, Alien, Pids
<1>. QED BY <1>1, <1>2, SaveStep, TypesHold, PTL DEF Spec, SavesWhatItRead

-----------------------------------------------------------------------------
(* The places that only daemons reach, and a process not yet started.       *)
DaemonPlaces == Past \union {"unborn", "helper", "starting"}
KindsAreKnown == \A p \in Pids : at[p] \in DaemonPlaces => IsDaemon(p)

LEMMA DaemonPlacesAre ==
  /\ DaemonPlaces \cap (Ended \union {"born", "stopping", "killing", "installing"}) = {}
  /\ "unborn" \in DaemonPlaces /\ "running" \in DaemonPlaces
BY DEF DaemonPlaces, Past, Ended

(* A step after which whoever is in such a place is what it was, and was    *)
(* there before or is a daemon that moved.                                  *)
KindsStay ==
  \A p \in Pids : at'[p] \in DaemonPlaces =>
    kind'[p] = kind[p] /\ (at[p] \in DaemonPlaces \/ IsDaemon(p))

LEMMA KindsStayKeeps == KindsAreKnown /\ KindsStay => KindsAreKnown'
BY DEF KindsAreKnown, KindsStay, IsDaemon

LEMMA KindsUser ==
  ASSUME LockInv, RestTyped,
         UserStarts \/ LogsIn \/ UserUninstalls \/ UserInstalls \/ InstallsMacApp \/ UserEdits
  PROVE  KindsStay
BY PidsAreNumbers, DaemonPlacesAre
   DEF KindsStay, UserStarts, LogsIn, UserUninstalls, UserInstalls, InstallsMacApp, UserEdits,
       Spawn, LockInv, PlacesTyped, RestTyped

LEMMA KindsGoOn ==
  ASSUME LockInv, RestTyped, NEW p \in Pids, DaemonGoesOn(p)
  PROVE  KindsStay
<1>0. \A q \in Pids : q \in 0..MaxPid
  BY PidsAreNumbers
<1>1. ASSUME NEW from, NEW to, Moves(p, from, to) PROVE KindsStay
  BY <1>0, <1>1, OnlyTheMover DEF KindsStay, Moves
<1>2. CASE Kickstarts(p)
  BY <1>0, <1>2, DaemonPlacesAre DEF Kickstarts, KindsStay, Ended
<1>3. CASE StartsUp(p) \/ EndsWrite(p) \/ Exits(p)
  BY <1>1, <1>3
     DEF StartsUp, EndsWrite, Exits, BeginsOnWindows, BeginsOnMac, GetsLock, LosesLock,
         StartsUnguarded, LoadsConfig, BakesConfig, ReconcilesAutostart
<1>. QED BY <1>2, <1>3 DEF DaemonGoesOn

LEMMA KindsTools ==
  ASSUME LockInv, RestTyped, NEW u \in Pids, ToolGoesOn(u)
  PROVE  KindsStay
<1>0. \A q \in Pids : q \in 0..MaxPid
  BY PidsAreNumbers
<1>1. CASE Removes(u) \/ TakesSnapshot(u)
  BY <1>0, <1>1, DaemonPlacesAre
     DEF Removes, TakesSnapshot, KindsStay, Ended, LockInv, PlacesTyped
<1>2. CASE Terminates(u)
  BY <1>0, <1>2, DaemonPlacesAre DEF Terminates, KindsStay, Ended
<1>3. CASE InstallEnds(u)
  BY <1>0, <1>3, DaemonPlacesAre DEF InstallEnds, KindsStay, Ended, LockInv, PlacesTyped
<1>. QED BY <1>1, <1>2, <1>3 DEF ToolGoesOn

LEMMA KindsTray ==
  ASSUME LockInv, RestTyped, NEW p \in Pids, TrayAction(p)
  PROVE  KindsStay
<1>0. \A q \in Pids : q \in 0..MaxPid
  BY PidsAreNumbers
<1>1. ASSUME NEW from, NEW to, Moves(p, from, to) PROVE KindsStay
  BY <1>0, <1>1, OnlyTheMover DEF KindsStay, Moves
<1>2. ASSUME UNCHANGED <<at, kind>> PROVE KindsStay
  BY <1>2 DEF KindsStay
<1>3. ASSUME NEW d, SetsAutostart(p, d) \/ PicksMicrophone(p, d) PROVE KindsStay
  <2>1. CASE p \in protected
    BY <1>2, <1>3, <2>1 DEF SetsAutostart, PicksMicrophone
  <2>2. CASE p \notin protected
    BY <1>1, <1>3, <2>2 DEF SetsAutostart, PicksMicrophone, BeginsWrite
  <2>. QED BY <2>1, <2>2
<1>4. CASE SpawnsSuccessor(p) \/ SpawnsHelper(p)
  BY <1>0, <1>4, DaemonPlacesAre
     DEF SpawnsSuccessor, SpawnsHelper, IsNext, Unborn, KindsStay, LockInv, PlacesTyped
<1>5. CASE Quits(p)
  BY <1>1, <1>5 DEF Quits
<1>6. CASE StartsUpgrade(p)
  BY <1>0, <1>6, DaemonPlacesAre
     DEF StartsUpgrade, Spawn, KindsStay, LockInv, PlacesTyped, RestTyped
<1>. QED BY <1>3, <1>4, <1>5, <1>6 DEF TrayAction

LEMMA KindsStep == LockInv /\ RestTyped /\ KindsAreKnown /\ [Next]_vars => KindsAreKnown'
<1> SUFFICES ASSUME LockInv, RestTyped, KindsAreKnown, [Next]_vars PROVE KindsAreKnown'
  OBVIOUS
<1>1. CASE UNCHANGED vars
  BY <1>1 DEF vars, KindsAreKnown, IsDaemon
<1>2. CASE UserStarts \/ LogsIn \/ UserUninstalls \/ UserInstalls \/ InstallsMacApp \/ UserEdits
  BY <1>2, KindsUser, KindsStayKeeps
<1>3. ASSUME NEW p \in Pids, Dies(p) PROVE KindsStay
  BY <1>3, PidsAreNumbers, DaemonPlacesAre DEF Dies, KindsStay, Ended, LockInv, PlacesTyped
<1>4. ASSUME NEW p \in Pids, DaemonGoesOn(p) \/ ToolGoesOn(p) \/ TrayAction(p) \/ Dies(p)
      PROVE  KindsAreKnown'
  BY <1>3, <1>4, KindsGoOn, KindsTools, KindsTray, KindsStayKeeps
<1>. QED BY <1>1, <1>2, <1>4 DEF Next

LEMMA KindsHold == Spec => []KindsAreKnown
<1>1. Init => KindsAreKnown
  BY PidsAreNumbers DEF Init, KindsAreKnown, IsDaemon, Alien, Pids
<1>. QED BY <1>1, KindsStep, TypesHold, PTL DEF Spec

-----------------------------------------------------------------------------
(* A stop ends Dictatem, all of it and nothing else.  The invariant follows *)
(* an uninstall that nothing has interfered with from statement to          *)
(* statement: while it is under way no daemon is starting; past the removal *)
(* there is no entry; between the snapshot and the terminations every       *)
(* living daemon is among the victims; and after them none lives.           *)
SparesOthers ==
  /\ at[Alien] = "running"
  /\ \A u \in Pids : u \notin victims[u] /\ Alien \notin victims[u]

OwnEntries == {"autostart"} \union (IF platform = "win32" THEN {"identity"} ELSE {"bundle"})
EntriesAreOwn == registered \subseteq OwnEntries

NoneStarting == \A p \in Pids : IsDaemon(p) => at[p] \notin Starting
SparesNone(u) == \A p \in Pids : IsDaemon(p) /\ Alive(p) => p \in victims[u]
NoneLives == \A p \in Pids : IsDaemon(p) => ~Alive(p)

Undoes(u) ==
  /\ kind[u] = "uninstall" /\ at[u] \in {"born", "stopping", "killing", "gone"}
  /\ NoneStarting
  /\ at[u] \in {"stopping", "killing", "gone"} => registered = {}
  /\ at[u] = "killing" => SparesNone(u)
  /\ at[u] = "gone" /\ platform = "win32" => NoneLives
QuietUndo == \A u \in quiet : Undoes(u)

StopInv == SparesOthers /\ EntriesAreOwn /\ QuietUndo

LEMMA AlienIsNoPid ==
  /\ Alien \in 0..MaxPid /\ Alien \notin Pids
  /\ \A p \in Pids : p \in 0..MaxPid /\ p # Alien
BY ProcessAssumption DEF Alien, Pids

(* What every step but a snapshot leaves of the victims.                    *)
LEMMA FewerVictims ==
  ASSUME RestTyped, SparesOthers, at'[Alien] = "running", Forgets \/ victims' = victims
  PROVE  SparesOthers'
BY DEF RestTyped, SparesOthers, Forgets

LEMMA AlienStays ==
  ASSUME LockInv, SparesOthers, NEW p \in Pids, NEW from, NEW to, Moves(p, from, to)
  PROVE  at'[Alien] = "running"
BY OnlyTheMover, AlienIsNoPid DEF SparesOthers

LEMMA SparesUser ==
  ASSUME LockInv, RestTyped, SparesOthers,
         UserStarts \/ LogsIn \/ UserUninstalls \/ UserInstalls \/ InstallsMacApp \/ UserEdits
  PROVE  SparesOthers'
<1>1. at'[Alien] = "running"
  BY AlienIsNoPid
     DEF UserStarts, LogsIn, UserUninstalls, UserInstalls, InstallsMacApp, UserEdits, Spawn,
         LockInv, PlacesTyped, SparesOthers
<1>2. victims' = victims
  BY DEF UserStarts, LogsIn, UserUninstalls, UserInstalls, InstallsMacApp, UserEdits
<1>. QED BY <1>1, <1>2, FewerVictims

LEMMA SparesGoOn ==
  ASSUME LockInv, RestTyped, SparesOthers, NEW p \in Pids, DaemonGoesOn(p)
  PROVE  SparesOthers'
<1>1. CASE StartsUp(p) \/ EndsWrite(p) \/ Exits(p)
  <2>1. \E from, to : Moves(p, from, to)
    BY <1>1 DEF StartsUp, EndsWrite, Exits, BeginsOnWindows, BeginsOnMac, GetsLock, LosesLock,
                StartsUnguarded, LoadsConfig, BakesConfig, ReconcilesAutostart
  <2>2. Forgets \/ victims' = victims
    BY <1>1 DEF StartsUp, EndsWrite, Exits, BeginsOnWindows, BeginsOnMac, GetsLock, LosesLock,
                StartsUnguarded, LoadsConfig, BakesConfig, ReconcilesAutostart
  <2>. QED BY <2>1, <2>2, AlienStays, FewerVictims
<1>2. CASE Kickstarts(p)
  <2>1. at'[Alien] = "running"
    BY <1>2, AlienIsNoPid DEF Kickstarts, SparesOthers, RestTyped, NotLoaded
  <2>. QED BY <1>2, <2>1, FewerVictims DEF Kickstarts
<1>. QED BY <1>1, <1>2 DEF DaemonGoesOn

LEMMA SparesTools ==
  ASSUME LockInv, RestTyped, SparesOthers, NEW u \in Pids, ToolGoesOn(u)
  PROVE  SparesOthers'
<1>1. at'[Alien] = "running"
  BY AlienIsNoPid
     DEF ToolGoesOn, Removes, TakesSnapshot, Terminates, InstallEnds, SparesOthers,
         LockInv, PlacesTyped
<1>2. CASE Removes(u) \/ Terminates(u) \/ InstallEnds(u)
  BY <1>1, <1>2, FewerVictims DEF Removes, Terminates, InstallEnds
<1>3. CASE TakesSnapshot(u)
  <2>1. u \notin PidsToStop(u) /\ Alien \notin PidsToStop(u)
    BY StopsTheRight DEF Stoppable
  <2>. QED BY <1>1, <1>3, <2>1 DEF TakesSnapshot, SparesOthers, RestTyped
<1>. QED BY <1>2, <1>3 DEF ToolGoesOn

LEMMA SparesTray ==
  ASSUME LockInv, RestTyped, SparesOthers, NEW p \in Pids, TrayAction(p)
  PROVE  SparesOthers'
<1> SUFFICES at'[Alien] = "running"
  BY FewerVictims
     DEF TrayAction, SetsAutostart, PicksMicrophone, SpawnsSuccessor, SpawnsHelper, Quits,
         StartsUpgrade
<1>1. ASSUME NEW d, SetsAutostart(p, d) \/ PicksMicrophone(p, d) PROVE at'[Alien] = "running"
  <2>1. CASE p \in protected
    BY <1>1, <2>1 DEF SetsAutostart, PicksMicrophone, SparesOthers
  <2>2. CASE p \notin protected
    BY <1>1, <2>2, AlienStays DEF SetsAutostart, PicksMicrophone, BeginsWrite
  <2>. QED BY <2>1, <2>2
<1>2. CASE SpawnsSuccessor(p) \/ SpawnsHelper(p) \/ StartsUpgrade(p)
  BY <1>2, AlienIsNoPid
     DEF SpawnsSuccessor, SpawnsHelper, StartsUpgrade, Spawn, SparesOthers, LockInv, PlacesTyped
<1>3. CASE Quits(p)
  <2>1. Moves(p, "running", "quitting")
    BY <1>3 DEF Quits
  <2>. QED BY <2>1, AlienStays
<1>. QED BY <1>1, <1>2, <1>3 DEF TrayAction

LEMMA SparesDies ==
  ASSUME LockInv, RestTyped, SparesOthers, NEW p \in Pids, Dies(p)
  PROVE  SparesOthers'
BY AlienIsNoPid, FewerVictims DEF Dies, SparesOthers, LockInv, PlacesTyped

(* Only what this system has is registered.                                 *)
LEMMA EntriesStep ==
  ASSUME EntriesAreOwn, Next
  PROVE  EntriesAreOwn'
<1> USE DEF EntriesAreOwn, OwnEntries
<1>1. CASE UserStarts \/ LogsIn \/ UserUninstalls \/ UserInstalls \/ InstallsMacApp \/ UserEdits
  BY <1>1 DEF UserStarts, LogsIn, UserUninstalls, UserInstalls, InstallsMacApp, UserEdits,
              Spawn, disk
<1>2. ASSUME NEW p \in Pids, DaemonGoesOn(p) PROVE EntriesAreOwn'
  <2>1. platform' = platform
    BY <1>2 DEF DaemonGoesOn, StartsUp, EndsWrite, Exits, BeginsOnWindows, BeginsOnMac,
                GetsLock, LosesLock, StartsUnguarded, LoadsConfig, BakesConfig,
                ReconcilesAutostart, Moves, Kickstarts
  <2>2. CASE BeginsOnWindows(p)
    BY <2>1, <2>2 DEF BeginsOnWindows
  <2>3. CASE ReconcilesAutostart(p)
    BY <2>1, <2>3 DEF ReconcilesAutostart, Follows
  <2>4. CASE ~BeginsOnWindows(p) /\ ~ReconcilesAutostart(p)
    BY <1>2, <2>1, <2>4
       DEF DaemonGoesOn, StartsUp, EndsWrite, Exits, BeginsOnMac, GetsLock, LosesLock,
           StartsUnguarded, LoadsConfig, BakesConfig, Kickstarts, disk
  <2>. QED BY <2>2, <2>3, <2>4
<1>3. ASSUME NEW u \in Pids, ToolGoesOn(u) PROVE EntriesAreOwn'
  BY <1>3 DEF ToolGoesOn, Removes, TakesSnapshot, Terminates, InstallEnds, disk
<1>4. ASSUME NEW p \in Pids, TrayAction(p) PROVE EntriesAreOwn'
  <2>1. ASSUME NEW d, SetsAutostart(p, d) PROVE EntriesAreOwn'
    BY <2>1 DEF SetsAutostart, BeginsWrite, Moves, Follows
  <2>2. ASSUME NEW d, PicksMicrophone(p, d) PROVE EntriesAreOwn'
    BY <2>2 DEF PicksMicrophone, BeginsWrite, Moves
  <2>3. CASE SpawnsSuccessor(p) \/ SpawnsHelper(p) \/ Quits(p) \/ StartsUpgrade(p)
    BY <2>3 DEF SpawnsSuccessor, SpawnsHelper, Quits, StartsUpgrade, Moves, disk
  <2>. QED BY <1>4, <2>1, <2>2, <2>3 DEF TrayAction
<1>5. ASSUME NEW p \in Pids, Dies(p) PROVE EntriesAreOwn'
  BY <1>5 DEF Dies, disk
<1>. QED BY <1>1, <1>2, <1>3, <1>4, <1>5 DEF Next

-----------------------------------------------------------------------------
(* A step that adds nothing a quiet uninstall would have to undo.           *)
StaysQuiet ==
  /\ quiet' \subseteq quiet
  /\ platform' = platform /\ registered' \subseteq registered
  /\ \A u \in quiet' :
       /\ kind'[u] = kind[u]
       /\ \/ at'[u] = at[u] /\ victims'[u] = victims[u]
          \/ at'[u] = at[u] /\ at[u] # "killing"
  /\ \A p \in Pids : IsDaemon(p)' =>
       /\ IsDaemon(p)
       /\ at'[p] \in Starting => at[p] \in Starting
       /\ Alive(p)' => Alive(p)

LEMMA StaysQuietKeeps == RestTyped /\ QuietUndo /\ StaysQuiet => QuietUndo'
<1> SUFFICES ASSUME RestTyped, QuietUndo, StaysQuiet, NEW u \in quiet'
             PROVE  Undoes(u)'
  BY DEF QuietUndo
<1>1. Undoes(u)
  BY DEF QuietUndo, StaysQuiet
<1>2. NoneStarting' /\ (NoneLives => NoneLives')
  BY <1>1 DEF Undoes, NoneStarting, NoneLives, StaysQuiet
<1>3. at'[u] = "killing" => at[u] = "killing" /\ victims'[u] = victims[u]
  BY DEF StaysQuiet
<1>4. at'[u] = "killing" => SparesNone(u)'
  BY <1>1, <1>3 DEF Undoes, SparesNone, StaysQuiet
<1>5. at'[u] = at[u]
  BY DEF StaysQuiet
<1>. QED BY <1>1, <1>2, <1>4, <1>5 DEF Undoes, StaysQuiet

(* A daemon that is starting, or a helper, is noted.                        *)
LEMMA NoQuietStart ==
  ASSUME QuietUndo, NEW p \in Pids, IsDaemon(p), at[p] \in Starting
  PROVE  quiet = {}
BY DEF QuietUndo, Undoes, NoneStarting

LEMMA NoQuiet ==
  ASSUME quiet' = {}
  PROVE  QuietUndo'
BY DEF QuietUndo

LEMMA QuietUser ==
  ASSUME LockInv, RestTyped, QuietUndo,
         UserStarts \/ LogsIn \/ UserUninstalls \/ UserInstalls \/ InstallsMacApp \/ UserEdits
  PROVE  QuietUndo'
<1>1. CASE UserStarts \/ LogsIn \/ UserInstalls \/ InstallsMacApp
  BY <1>1, NoQuiet DEF UserStarts, LogsIn, UserInstalls, InstallsMacApp, Spawn
<1>2. CASE UserEdits
  <2>1. StaysQuiet
    BY <1>2 DEF UserEdits, StaysQuiet, IsDaemon, Alive
  <2>. QED BY <2>1, StaysQuietKeeps
<1>3. CASE UserUninstalls
  <2>1. PICK u \in Pids :
          /\ IsNext(u)
          /\ kind' = [kind EXCEPT ![u] = "uninstall"]
          /\ at' = [at EXCEPT ![u] = "born"]
          /\ quiet' = IF \E p \in Pids : IsDaemon(p) /\ at[p] \in Starting
                      THEN quiet ELSE quiet \union {u}
    BY <1>3 DEF UserUninstalls
  <2>2. at[u] = "unborn" /\ at'[u] = "born" /\ kind'[u] = "uninstall"
    BY <2>1, PidsAreNumbers DEF IsNext, Unborn, LockInv, PlacesTyped, RestTyped
  <2>3. \A q \in Pids : q # u => at'[q] = at[q] /\ kind'[q] = kind[q]
    BY <2>1, PidsAreNumbers DEF LockInv, PlacesTyped, RestTyped
  <2>4. u \notin quiet
    BY <2>2 DEF QuietUndo, Undoes
  <2>5. CASE \E p \in Pids : IsDaemon(p) /\ at[p] \in Starting
    BY <2>1, <2>5, NoQuietStart, NoQuiet
  <2>6. CASE NoneStarting
    <3>1. NoneStarting' /\ (NoneLives => NoneLives')
      BY <2>2, <2>3, <2>6 DEF NoneStarting, NoneLives, IsDaemon, Alive
    <3>2. Undoes(u)'
      BY <2>2, <3>1 DEF Undoes
    <3>3. ASSUME NEW v \in quiet PROVE Undoes(v)'
      <4>1. v # u /\ v \in Pids /\ Undoes(v)
        BY <2>4, <3>3 DEF QuietUndo, RestTyped
      <4>2. SparesNone(v) => SparesNone(v)'
        BY <1>3, <2>2, <2>3 DEF SparesNone, IsDaemon, Alive, UserUninstalls
      <4>3. platform' = platform /\ registered' = registered
        BY <1>3 DEF UserUninstalls, disk
      <4>. QED BY <2>3, <3>1, <4>1, <4>2, <4>3 DEF Undoes
    <3>. QED BY <2>1, <3>2, <3>3 DEF QuietUndo
  <2>. QED BY <2>5, <2>6 DEF NoneStarting
<1>. QED BY <1>1, <1>2, <1>3

LEMMA QuietMoves ==
  ASSUME LockInv, RestTyped, NEW p \in Pids, NEW from, NEW to,
         Moves(p, from, to), p \notin quiet, to \notin Starting, Alive(p),
         quiet' = quiet, registered' = registered, Forgets \/ victims' = victims
  PROVE  StaysQuiet
<1>1. \A q \in Pids : q # p => at'[q] = at[q]
  BY OnlyTheMover, PidsAreNumbers
<1>2. at'[p] = to /\ kind' = kind /\ platform' = platform
  BY OnlyTheMover DEF Moves
<1>3. \A u \in quiet : u \in Pids /\ u # p /\ at'[u] = at[u]
  BY <1>1 DEF RestTyped
<1>4. \A u \in quiet : at[u] # "killing" \/ victims'[u] = victims[u]
  BY <1>3 DEF Forgets, Ended
<1>5. \A q \in Pids : /\ at'[q] \in Starting => at[q] \in Starting
                      /\ Alive(q)' => Alive(q)
  BY <1>1, <1>2 DEF Alive
<1>. QED BY <1>2, <1>3, <1>4, <1>5 DEF StaysQuiet, IsDaemon

LEMMA QuietGoesOn ==
  ASSUME LockInv, RestTyped, KindsAreKnown, QuietUndo, NEW p \in Pids, DaemonGoesOn(p)
  PROVE  QuietUndo'
<1>1. CASE StartsUp(p)
  <2>1. \E from \in Starting : \E to : Moves(p, from, to)
    BY <1>1 DEF StartsUp, BeginsOnWindows, BeginsOnMac, GetsLock, LosesLock, StartsUnguarded,
                LoadsConfig, BakesConfig, ReconcilesAutostart, Starting
  <2>2. IsDaemon(p) /\ at[p] \in Starting
    BY <2>1 DEF Moves
  <2>3. quiet' = quiet
    BY <1>1 DEF StartsUp, BeginsOnWindows, BeginsOnMac, GetsLock, LosesLock, StartsUnguarded,
                LoadsConfig, BakesConfig, ReconcilesAutostart
  <2>. QED BY <2>2, <2>3, NoQuietStart, NoQuiet
<1>2. CASE EndsWrite(p) \/ Exits(p)
  <2>1. \/ Moves(p, "writing", "running")
        \/ Moves(p, "quitting", "gone")
    BY <1>2 DEF EndsWrite, Exits
  <2>2. p \notin quiet /\ Alive(p)
    BY <2>1 DEF QuietUndo, Undoes, Moves, IsDaemon, Alive, Ended
  <2>3. "running" \notin Starting /\ "gone" \notin Starting
    BY DEF Starting
  <2>4. StaysQuiet
    BY <1>2, <2>1, <2>2, <2>3, QuietMoves DEF EndsWrite, Exits
  <2>. QED BY <2>4, StaysQuietKeeps
<1>3. CASE Kickstarts(p)
  <2>1. IsDaemon(p) /\ at[p] \in Starting
    BY <1>3 DEF Kickstarts, KindsAreKnown, DaemonPlaces, Starting
  <2>. QED BY <1>3, <2>1, NoQuietStart, NoQuiet DEF Kickstarts
<1>. QED BY <1>1, <1>2, <1>3 DEF DaemonGoesOn

LEMMA QuietTray ==
  ASSUME LockInv, RestTyped, QuietUndo, NEW p \in Pids, TrayAction(p)
  PROVE  QuietUndo'
<1>1. ASSUME NEW d, SetsAutostart(p, d) PROVE QuietUndo'
  BY <1>1, NoQuiet DEF SetsAutostart
<1>2. ASSUME NEW to \in {"writing", "running", "quitting"}, Moves(p, "running", to),
             quiet' = quiet, registered' = registered, victims' = victims
      PROVE  QuietUndo'
  <2>1. p \notin quiet /\ Alive(p)
    BY <1>2 DEF QuietUndo, Undoes, Moves, IsDaemon, Alive, Ended
  <2>2. to \notin Starting
    BY DEF Starting
  <2>. QED BY <1>2, <2>1, <2>2, QuietMoves, StaysQuietKeeps
<1>3. ASSUME NEW d, PicksMicrophone(p, d) PROVE QuietUndo'
  <2>1. CASE p \in protected
    <3>1. StaysQuiet
      BY <1>3, <2>1 DEF PicksMicrophone, StaysQuiet, IsDaemon, Alive
    <3>. QED BY <3>1, StaysQuietKeeps
  <2>2. CASE p \notin protected
    BY <1>2, <1>3, <2>2 DEF PicksMicrophone, BeginsWrite
  <2>. QED BY <2>1, <2>2
<1>4. CASE SpawnsSuccessor(p) \/ SpawnsHelper(p) \/ StartsUpgrade(p)
  BY <1>4, NoQuiet DEF SpawnsSuccessor, SpawnsHelper, StartsUpgrade, Spawn
<1>5. CASE Quits(p)
  BY <1>2, <1>5 DEF Quits
<1>. QED BY <1>1, <1>3, <1>4, <1>5 DEF TrayAction

LEMMA QuietDies ==
  ASSUME LockInv, RestTyped, QuietUndo, NEW p \in Pids, Dies(p)
  PROVE  QuietUndo'
<1>1. \A q \in Pids : q # p => at'[q] = at[q]
  BY PidsAreNumbers DEF Dies, LockInv, PlacesTyped
<1>2. at'[p] = "gone" /\ Alive(p) /\ p \notin quiet
  BY PidsAreNumbers DEF Dies, LockInv, PlacesTyped, QuietUndo, Undoes, IsDaemon
<1>3. \A u \in quiet : u \in Pids /\ at'[u] = at[u]
  BY <1>1, <1>2 DEF RestTyped
<1>4. \A u \in quiet : at[u] # "killing" \/ victims'[u] = victims[u]
  BY <1>3 DEF Dies, Forgets, Ended
<1>5. \A q \in Pids : /\ at'[q] \in Starting => at[q] \in Starting
                      /\ Alive(q)' => Alive(q)
  BY <1>1, <1>2 DEF Alive, Starting
<1>6. StaysQuiet
  BY <1>3, <1>4, <1>5 DEF Dies, StaysQuiet, IsDaemon, disk
<1>. QED BY <1>6, StaysQuietKeeps

(* The uninstaller's own steps.                                             *)
LEMMA QuietRemoves ==
  ASSUME LockInv, RestTyped, EntriesAreOwn, QuietUndo, NEW u \in Pids, Removes(u)
  PROVE  QuietUndo'
<1>1. PICK done \in SUBSET Cleanup :
        /\ registered' = registered \ UNION done
        /\ quiet' = IF done = Cleanup THEN quiet ELSE quiet \ {u}
  BY DEF Removes
<1>2. /\ at'[u] = IF platform = "win32" THEN "stopping" ELSE "gone"
      /\ kind[u] = "uninstall"
      /\ \A q \in Pids : q # u => at'[q] = at[q]
      /\ kind' = kind /\ victims' = victims /\ platform' = platform
  BY PidsAreNumbers DEF Removes, LockInv, PlacesTyped
<1>3. \A p \in Pids : IsDaemon(p)' => IsDaemon(p) /\ p # u /\ at'[p] = at[p]
  BY <1>2 DEF IsDaemon
<1>4. /\ NoneStarting => NoneStarting'
      /\ NoneLives => NoneLives'
      /\ \A v : SparesNone(v) => SparesNone(v)'
  BY <1>2, <1>3 DEF NoneStarting, NoneLives, SparesNone, IsDaemon, Alive
<1>5. done = Cleanup => registered' = {}
  BY <1>1 DEF Cleanup, EntriesAreOwn, OwnEntries
<1>6. ASSUME NEW v \in quiet', v # u PROVE Undoes(v)'
  <2>1. v \in quiet /\ v \in Pids /\ Undoes(v)
    BY <1>1, <1>6 DEF QuietUndo, RestTyped
  <2>2. registered = {} => registered' = {}
    BY <1>1
  <2>. QED BY <1>2, <1>4, <1>6, <2>1, <2>2 DEF Undoes
<1>7. ASSUME u \in quiet' PROVE Undoes(u)'
  <2>1. u \in quiet /\ done = Cleanup
    BY <1>1, <1>7
  <2>2. Undoes(u)
    BY <2>1 DEF QuietUndo
  <2>. QED BY <1>2, <1>4, <1>5, <2>1, <2>2 DEF Undoes
<1>. QED BY <1>6, <1>7 DEF QuietUndo

LEMMA QuietSnapshot ==
  ASSUME LockInv, RestTyped, QuietUndo, NEW u \in Pids, TakesSnapshot(u)
  PROVE  QuietUndo'
<1>1. /\ at[u] = "stopping" /\ at'[u] = "killing"
      /\ \A q \in Pids : q # u => at'[q] = at[q] /\ victims'[q] = victims[q]
      /\ kind' = kind /\ platform' = platform /\ registered' = registered
      /\ quiet' \subseteq quiet
      /\ u \in quiet' => victims'[u] = PidsToStop(u)
  BY PidsAreNumbers DEF TakesSnapshot, LockInv, PlacesTyped, RestTyped, disk
<1>2. \A p \in Pids : /\ IsDaemon(p)' <=> IsDaemon(p)
                      /\ Alive(p)' <=> Alive(p)
                      /\ at'[p] \in Starting => at[p] \in Starting
  BY <1>1 DEF IsDaemon, Alive, Starting, Ended
<1>3. NoneStarting => NoneStarting'
  BY <1>2 DEF NoneStarting
<1>4. NoneLives => NoneLives'
  BY <1>2 DEF NoneLives
<1>5. ASSUME NEW v \in quiet', v # u PROVE Undoes(v)'
  <2>1. v \in quiet /\ v \in Pids /\ Undoes(v)
    BY <1>1, <1>5 DEF QuietUndo, RestTyped
  <2>2. SparesNone(v) => SparesNone(v)'
    BY <1>1, <1>2, <1>5, <2>1 DEF SparesNone
  <2>. QED BY <1>1, <1>3, <1>4, <1>5, <2>1, <2>2 DEF Undoes
<1>6. ASSUME u \in quiet' PROVE Undoes(u)'
  <2>1. Undoes(u)
    BY <1>1, <1>6 DEF QuietUndo
  <2>2. kind[u] # "daemon"
    BY <2>1 DEF Undoes
  <2>3. \A p \in Pids : IsDaemon(p) /\ Alive(p) => p \in PidsToStop(u)
    BY <2>2, StopsTheRight DEF Daemons, IsDaemon
  <2>4. SparesNone(u)'
    BY <1>1, <1>2, <1>6, <2>3 DEF SparesNone
  <2>. QED BY <1>1, <1>3, <2>1, <2>4 DEF Undoes
<1>. QED BY <1>5, <1>6 DEF QuietUndo

LEMMA QuietTerminates ==
  ASSUME LockInv, RestTyped, QuietUndo, NEW u \in Pids, Terminates(u)
  PROVE  QuietUndo'
<1>1. /\ at[u] = "killing"
      /\ at'[u] = IF kind[u] = "uninstall" THEN "gone" ELSE "installing"
      /\ \A q \in Pids : q # u => at'[q] = at[q] \/ at'[q] = "gone"
      /\ kind' = kind /\ platform' = platform /\ registered' = registered
      /\ \A v \in quiet' : v \in quiet /\ (v # u => at'[v] = at[v])
      /\ u \in quiet' => \A q \in Pids : q # u /\ q \in victims[u] => ~Alive(q)'
  BY PidsAreNumbers DEF Terminates, Alive, Ended, disk
<1>2. \A p \in Pids : /\ IsDaemon(p)' <=> IsDaemon(p)
                      /\ Alive(p)' => Alive(p)
                      /\ at'[p] \in Starting => at[p] \in Starting
  BY <1>1 DEF IsDaemon, Alive, Starting, Ended
<1>3. NoneStarting => NoneStarting'
  BY <1>2 DEF NoneStarting
<1>4. NoneLives => NoneLives'
  BY <1>2 DEF NoneLives
<1>5. ASSUME NEW v \in quiet', v # u PROVE Undoes(v)'
  <2>1. v \in Pids /\ Undoes(v)
    BY <1>1, <1>5 DEF QuietUndo, RestTyped
  <2>2. at'[v] = "killing" => victims'[v] = victims[v]
    BY <2>1 DEF Terminates, Forgets, Ended
  <2>3. at'[v] = "killing" /\ SparesNone(v) => SparesNone(v)'
    BY <1>2, <2>2 DEF SparesNone
  <2>. QED BY <1>1, <1>3, <1>4, <1>5, <2>1, <2>3 DEF Undoes
<1>6. ASSUME u \in quiet' PROVE Undoes(u)'
  <2>1. Undoes(u)
    BY <1>1, <1>6 DEF QuietUndo
  <2>2. kind[u] = "uninstall" /\ SparesNone(u) /\ NoneStarting /\ registered = {}
    BY <1>1, <2>1 DEF Undoes
  <2>3. NoneLives'
    BY <1>1, <1>2, <1>6, <2>2 DEF NoneLives, SparesNone, IsDaemon
  <2>. QED BY <1>1, <1>3, <2>2, <2>3 DEF Undoes
<1>. QED BY <1>5, <1>6 DEF QuietUndo

LEMMA QuietInstallEnds ==
  ASSUME LockInv, RestTyped, QuietUndo, NEW u \in Pids, InstallEnds(u)
  PROVE  QuietUndo'
<1>1. CASE quiet' = {}
  BY <1>1, NoQuiet
<1>2. CASE at' = [at EXCEPT ![u] = "gone"] /\ quiet' = quiet
  <2>1. at[u] = "installing" /\ u \notin quiet
    BY DEF InstallEnds, QuietUndo, Undoes
  <2>2. at'[u] = "gone" /\ \A q \in Pids : q # u => at'[q] = at[q]
    BY <1>2, PidsAreNumbers DEF LockInv, PlacesTyped
  <2>3. \A v \in quiet : v \in Pids /\ at'[v] = at[v]
    BY <2>1, <2>2 DEF RestTyped
  <2>4. \A v \in quiet : at[v] # "killing" \/ victims'[v] = victims[v]
    BY <2>3 DEF InstallEnds, Forgets, Ended
  <2>5. \A q \in Pids : /\ at'[q] \in Starting => at[q] \in Starting
                        /\ Alive(q)' => Alive(q)
    BY <2>2 DEF Alive, Starting, Ended
  <2>6. StaysQuiet
    BY <1>2, <2>3, <2>4, <2>5 DEF InstallEnds, StaysQuiet, IsDaemon, disk
  <2>. QED BY <2>6, StaysQuietKeeps
<1>. QED BY <1>1, <1>2 DEF InstallEnds

LEMMA StopStep ==
  LockInv /\ RestTyped /\ KindsAreKnown /\ StopInv /\ [Next]_vars => StopInv'
<1> SUFFICES ASSUME LockInv, RestTyped, KindsAreKnown, StopInv, [Next]_vars PROVE StopInv'
  OBVIOUS
<1> USE DEF StopInv
<1>1. CASE UNCHANGED vars
  <2>1. SparesOthers' /\ EntriesAreOwn'
    BY <1>1 DEF vars, SparesOthers, EntriesAreOwn, OwnEntries
  <2>2. StaysQuiet
    BY <1>1 DEF vars, StaysQuiet, IsDaemon, Alive
  <2>. QED BY <2>1, <2>2, StaysQuietKeeps
<1>2. CASE UserStarts \/ LogsIn \/ UserUninstalls \/ UserInstalls \/ InstallsMacApp \/ UserEdits
  BY <1>2, SparesUser, EntriesStep, QuietUser DEF Next
<1>3. ASSUME NEW p \in Pids, DaemonGoesOn(p) PROVE StopInv'
  BY <1>3, SparesGoOn, EntriesStep, QuietGoesOn DEF Next
<1>4. ASSUME NEW p \in Pids, ToolGoesOn(p) PROVE StopInv'
  <2>1. QuietUndo'
    BY <1>4, QuietRemoves, QuietSnapshot, QuietTerminates, QuietInstallEnds DEF ToolGoesOn
  <2>. QED BY <1>4, <2>1, SparesTools, EntriesStep DEF Next
<1>5. ASSUME NEW p \in Pids, TrayAction(p) PROVE StopInv'
  BY <1>5, SparesTray, EntriesStep, QuietTray DEF Next
<1>6. ASSUME NEW p \in Pids, Dies(p) PROVE StopInv'
  BY <1>6, SparesDies, EntriesStep, QuietDies DEF Next
<1>. QED BY <1>1, <1>2, <1>3, <1>4, <1>5, <1>6 DEF Next

(* A stop ends no process of another program and not its own caller, and    *)
(* after an uninstall with which nothing interfered there is no entry and,  *)
(* on Windows, no daemon: for any number of processes and any family tree,  *)
(* whatever numbers the dead have left in it.                               *)
THEOREM StopCorrect == Spec => []StopIsExact
<1>1. Init => StopInv
  BY AlienIsNoPid
     DEF Init, StopInv, SparesOthers, EntriesAreOwn, OwnEntries, QuietUndo
<1>2. StopInv => StopIsExact
  BY DEF StopInv, StopIsExact, SparesOthers, QuietUndo, Undoes, NoneLives
<1>. QED BY <1>1, <1>2, StopStep, TypesHold, KindsHold, PTL DEF Spec

-----------------------------------------------------------------------------
(* Restart hands over.  An heir is a daemon that is past the lock and not   *)
(* about to exit, one that will wait for the lock or is launchd's own, or   *)
(* the helper that will have launchd start one.  To stay an heir until it   *)
(* is up, a waiting daemon must only ever be turned away by an owner that   *)
(* is itself one, and launchd's must not meet a quitting owner at all:      *)
(* while a Restart is handing over, the only owner that quits is launchd's  *)
(* previous process, which is gone or killed before the next one starts.    *)
Heir(p) ==
  /\ IsDaemon(p)
  /\ \/ at[p] \in Past \ {"quitting"}
     \/ at[p] \in {"born", "starting"} /\ (p \in waiting \/ p = service)
     \/ at[p] = "helper" /\ service # NotLoaded

OwnersHold == lock \in Pids => at[lock] \in Past \union Ended
NoJobOnWindows == platform = "win32" => service = NotLoaded
QuitterIsTheJob ==
  handing /\ service # NotLoaded /\ lock \in Pids /\ at[lock] = "quitting" => lock = service
HasHeir == handing => \E p \in Pids : Heir(p)

RestartInv == OwnersHold /\ NoJobOnWindows /\ QuitterIsTheJob /\ HasHeir

LEMMA HeirsLive ==
  ASSUME NEW p, Heir(p)
  PROVE  /\ Alive(p) /\ IsDaemon(p) /\ at[p] \in Past \union {"born", "starting", "helper"}
         /\ at[p] \notin {"quitting", "unborn", "gone", "stopping", "killing", "installing"}
BY DEF Heir, Alive, Past, Ended

(* A process with which nothing happens.                                    *)
LEMMA HeirStays ==
  ASSUME NEW p, Heir(p), at'[p] = at[p], kind'[p] = kind[p], service' = service,
         p \in waiting => p \in waiting'
  PROVE  Heir(p)'
BY DEF Heir, IsDaemon

(* A step that ends no owner's quitting and no heir.                        *)
LEMMA HandsOn ==
  ASSUME RestartInv, lock' = lock \/ lock' = Nobody, platform' = platform,
         service' = service, handing' => handing,
         lock \in Pids => at'[lock] \in {at[lock]} \union Ended,
         handing' => \A p \in Pids : Heir(p) => Heir(p)'
  PROVE  RestartInv'
<1>1. OwnersHold'
  BY ProcessAssumption DEF RestartInv, OwnersHold, Past, Ended
<1>2. NoJobOnWindows'
  BY DEF RestartInv, NoJobOnWindows, NotLoaded
<1>3. QuitterIsTheJob'
  BY ProcessAssumption DEF RestartInv, QuitterIsTheJob, NotLoaded, Ended
<1>4. HasHeir'
  BY DEF RestartInv, HasHeir
<1>. QED BY <1>1, <1>2, <1>3, <1>4 DEF RestartInv

LEMMA RestartUser ==
  ASSUME LockInv, RestTyped, RestartInv,
         UserStarts \/ LogsIn \/ UserUninstalls \/ UserInstalls \/ InstallsMacApp \/ UserEdits
  PROVE  RestartInv'
<1>1. ASSUME NEW u \in Pids, IsNext(u), NEW where, at' = [at EXCEPT ![u] = where],
             NEW k, kind' = [kind EXCEPT ![u] = k]
      PROVE  /\ \A p \in Pids : p # u => at'[p] = at[p] /\ kind'[p] = kind[p]
             /\ at[u] = "unborn"
  BY <1>1, PidsAreNumbers DEF IsNext, Unborn, LockInv, PlacesTyped, RestTyped
<1>2. CASE UserStarts \/ UserUninstalls \/ UserInstalls
  <2>1. PICK u \in Pids :
          /\ at[u] = "unborn"
          /\ \A p \in Pids : p # u => at'[p] = at[p] /\ kind'[p] = kind[p]
    BY <1>1, <1>2 DEF UserStarts, UserUninstalls, UserInstalls, Spawn
  <2>2. UNCHANGED <<platform, service, waiting, lock, handing>>
    BY <1>2 DEF UserStarts, UserUninstalls, UserInstalls, disk
  <2>3. lock \in Pids => at'[lock] = at[lock]
    BY <2>1 DEF RestartInv, OwnersHold, Past, Ended
  <2>4. \A p \in Pids : Heir(p) => Heir(p)'
    BY <2>1, <2>2, HeirsLive, HeirStays
  <2>. QED BY <2>2, <2>3, <2>4, HandsOn
<1>3. CASE LogsIn
  <2>1. PICK u \in Pids :
          /\ at[u] = "unborn"
          /\ \A p \in Pids : p # u => at'[p] = at[p] /\ kind'[p] = kind[p]
          /\ service' = IF platform = "darwin" THEN u ELSE service
    BY <1>1, <1>3 DEF LogsIn, Spawn
  <2>2. UNCHANGED <<platform, waiting, lock, handing>>
    BY <1>3 DEF LogsIn, disk
  <2>3. ~handing
    BY <1>3, HeirsLive DEF LogsIn, RestartInv, HasHeir
  <2>4. lock \in Pids => at'[lock] = at[lock]
    BY <2>1 DEF RestartInv, OwnersHold, Past, Ended
  <2>. QED
    BY <2>1, <2>2, <2>3, <2>4
       DEF RestartInv, OwnersHold, NoJobOnWindows, QuitterIsTheJob, HasHeir, NotLoaded
<1>4. CASE InstallsMacApp \/ UserEdits
  <2>1. UNCHANGED <<platform, at, kind, service, waiting, lock, handing>>
    BY <1>4 DEF InstallsMacApp, UserEdits
  <2>. QED BY <2>1, HeirStays, HandsOn
<1>. QED BY <1>2, <1>3, <1>4

(* A daemon moves on; whoever it was, it stays an heir or becomes one.      *)
LEMMA RestartMoves ==
  ASSUME LockInv, RestTyped, RestartInv, NEW p \in Pids, NEW from, NEW to, Moves(p, from, to),
         \/ to \in Past \ {"quitting"}
         \/ from = "born" /\ to = "starting" /\ waiting' = waiting
         \/ to = "quitting" /\ from \in Past,
         lock' = lock \/ (lock' = p /\ to = "locked"), waiting \ {p} \subseteq waiting'
  PROVE  RestartInv'
<1>1. /\ at[p] = from /\ at'[p] = to /\ IsDaemon(p) /\ IsDaemon(p)'
      /\ \A q \in Pids : q # p => at'[q] = at[q]
      /\ UNCHANGED <<platform, service, kind>>
      /\ handing' => handing /\ to # "quitting"
  BY OnlyTheMover, PidsAreNumbers DEF Moves, IsDaemon
<1>2. OwnersHold'
  BY <1>1 DEF RestartInv, OwnersHold, Past, Ended
<1>3. NoJobOnWindows'
  BY <1>1 DEF RestartInv, NoJobOnWindows, NotLoaded
<1>4. QuitterIsTheJob'
  BY <1>1 DEF RestartInv, QuitterIsTheJob, NotLoaded
<1>5. ASSUME handing', NEW q \in Pids, Heir(q) PROVE Heir(q)'
  <2>1. CASE q # p
    BY <1>1, <1>5, <2>1, HeirStays
  <2>2. CASE q = p
    BY <1>1, <1>5, <2>2 DEF Heir, Past
  <2>. QED BY <2>1, <2>2
<1>6. HasHeir'
  BY <1>1, <1>5 DEF RestartInv, HasHeir
<1>. QED BY <1>2, <1>3, <1>4, <1>6 DEF RestartInv

(* Whom a daemon that is turned away meets.                                 *)
LEMMA RestartLosesLock ==
  ASSUME LockInv, RestTyped, KindsAreKnown, RestartInv, NEW p \in Pids, LosesLock(p)
  PROVE  RestartInv'
<1>1. /\ at[p] = "starting" /\ at'[p] = "gone"
      /\ \A q \in Pids : q # p => at'[q] = at[q]
      /\ UNCHANGED <<platform, service, kind, lock>>
      /\ handing' => handing
  BY OnlyTheMover, PidsAreNumbers DEF LosesLock, Moves
<1>2. lock \in Pids /\ at[lock] \in Past
  BY DEF LosesLock, LockIsFree, RestartInv, OwnersHold, Alive
<1>3. lock # p /\ IsDaemon(lock)
  BY <1>1, <1>2 DEF Past, KindsAreKnown, DaemonPlaces
<1>4. ASSUME NEW q \in Pids, q # p, Heir(q) PROVE Heir(q)'
  <2>1. at'[q] = at[q] /\ at[q] \notin Ended
    BY <1>1, <1>4, HeirsLive DEF Alive
  <2>. QED BY <1>1, <1>4, <2>1, HeirStays DEF LosesLock, Forgets, Outlive
<1>5. ASSUME at[lock] = "quitting" PROVE HasHeir'
  <2>1. handing => ~Heir(p)
    BY <1>1, <1>2, <1>3, <1>5, ProcessAssumption
       DEF LosesLock, MayWait, Heir, RestartInv, QuitterIsTheJob, NotLoaded, Past
  <2>. QED BY <1>1, <1>4, <2>1 DEF RestartInv, HasHeir
<1>6. ASSUME at[lock] # "quitting" PROVE HasHeir'
  <2>1. Heir(lock)'
    BY <1>1, <1>2, <1>3, <1>6 DEF Heir, IsDaemon
  <2>. QED BY <1>1, <1>2, <2>1 DEF HasHeir
<1>7. HasHeir'
  BY <1>5, <1>6
<1>8. OwnersHold' /\ QuitterIsTheJob' /\ NoJobOnWindows'
  BY <1>1, <1>2, <1>3 DEF RestartInv, OwnersHold, QuitterIsTheJob, NoJobOnWindows, NotLoaded
<1>. QED BY <1>7, <1>8 DEF RestartInv

LEMMA RestartExits ==
  ASSUME LockInv, RestTyped, RestartInv, NEW p \in Pids, Exits(p)
  PROVE  RestartInv'
<1>1. /\ at[p] = "quitting" /\ at'[p] = "gone"
      /\ \A q \in Pids : q # p => at'[q] = at[q]
      /\ UNCHANGED <<platform, service, kind>>
      /\ lock' = lock \/ lock' = Nobody
      /\ handing' => handing
  BY OnlyTheMover, PidsAreNumbers DEF Exits, Moves
<1>2. ASSUME NEW q \in Pids, Heir(q) PROVE Heir(q)'
  <2>1. q # p /\ at'[q] = at[q] /\ at[q] \notin Ended
    BY <1>1, <1>2, HeirsLive DEF Alive
  <2>. QED BY <1>1, <1>2, <2>1, HeirStays DEF Exits, Forgets, Outlive
<1>. QED BY <1>1, <1>2, HandsOn DEF Ended

(* launchd kills what is left of the job and starts the next process: the   *)
(* owner that was quitting, if any, was that job.                           *)
LEMMA RestartKickstarts ==
  ASSUME LockInv, RestTyped, KindsAreKnown, RestartInv, NEW q \in Pids, Kickstarts(q)
  PROVE  RestartInv'
<1>1. /\ at[q] = "helper" /\ service # NotLoaded /\ service \in Pids
      /\ at'[q] = "born" /\ service' = q
      /\ \A p \in Pids : p # q =>
            at'[p] = IF p = service /\ Alive(p) THEN "gone" ELSE at[p]
      /\ UNCHANGED <<platform, kind, lock, handing>>
  BY PidsAreNumbers DEF Kickstarts, RestTyped, disk
<1>2. IsDaemon(q)
  BY <1>1 DEF KindsAreKnown, DaemonPlaces
<1>3. lock \in Pids => lock # q /\ at'[lock] \in {at[lock], "gone"}
  BY <1>1 DEF RestartInv, OwnersHold, Past, Ended
<1>4. OwnersHold'
  BY <1>1, <1>3 DEF RestartInv, OwnersHold, Ended
<1>5. QuitterIsTheJob'
  <2>1. lock \in Pids /\ handing => at'[lock] # "quitting"
    BY <1>1, <1>3 DEF RestartInv, QuitterIsTheJob, Alive, Ended
  <2>. QED BY <1>1, <2>1 DEF QuitterIsTheJob
<1>6. NoJobOnWindows'
  BY <1>1 DEF RestartInv, NoJobOnWindows, NotLoaded
<1>7. Heir(q)'
  BY <1>1, <1>2 DEF Heir, IsDaemon
<1>. QED BY <1>4, <1>5, <1>6, <1>7 DEF RestartInv, HasHeir

LEMMA RestartGoesOn ==
  ASSUME LockInv, RestTyped, KindsAreKnown, RestartInv, NEW p \in Pids, DaemonGoesOn(p)
  PROVE  RestartInv'
<1>1. CASE BeginsOnWindows(p) \/ BeginsOnMac(p)
  <2>1. /\ Moves(p, "born", "starting") /\ waiting' = waiting /\ lock' = lock
    BY <1>1 DEF BeginsOnWindows, BeginsOnMac
  <2>. QED BY <2>1, RestartMoves
<1>2. CASE GetsLock(p) \/ StartsUnguarded(p)
  <2>1. /\ Moves(p, "starting", "locked") /\ waiting' = waiting \ {p}
        /\ lock' = lock \/ lock' = p
    BY <1>2 DEF GetsLock, StartsUnguarded
  <2>2. "locked" \in Past \ {"quitting"}
    BY DEF Past
  <2>. QED BY <2>1, <2>2, RestartMoves
<1>3. CASE LoadsConfig(p) \/ BakesConfig(p) \/ ReconcilesAutostart(p) \/ EndsWrite(p)
  <2>1. PICK from, to : /\ Moves(p, from, to) /\ to \in {"baking", "loaded", "running"}
    BY <1>3 DEF LoadsConfig, BakesConfig, ReconcilesAutostart, EndsWrite
  <2>2. to \in Past \ {"quitting"}
    BY <2>1 DEF Past
  <2>3. waiting' = waiting /\ lock' = lock
    BY <1>3 DEF LoadsConfig, BakesConfig, ReconcilesAutostart, EndsWrite
  <2>. QED BY <2>1, <2>2, <2>3, RestartMoves
<1>. QED
  BY <1>1, <1>2, <1>3, RestartLosesLock, RestartExits, RestartKickstarts
     DEF DaemonGoesOn, StartsUp

LEMMA RestartTools ==
  ASSUME LockInv, RestTyped, RestartInv, NEW u \in Pids, ToolGoesOn(u)
  PROVE  RestartInv'
<1>1. at[u] \in {"born", "stopping", "killing", "installing"} /\ (lock \in Pids => lock # u)
  BY DEF ToolGoesOn, Removes, TakesSnapshot, Terminates, InstallEnds, RestartInv, OwnersHold,
         Past, Ended
<1>2. UNCHANGED <<platform, service, kind, lock>> /\ (handing' => handing)
  <2>1. UNCHANGED <<platform, service, kind, lock>>
    BY DEF ToolGoesOn, Removes, TakesSnapshot, Terminates, InstallEnds, disk
  <2>2. handing' => handing
    BY DEF ToolGoesOn, Removes, TakesSnapshot, Terminates, InstallEnds
  <2>. QED BY <2>1, <2>2
<1>3. CASE Removes(u) \/ TakesSnapshot(u)
  <2>1. \A q \in Pids : q # u => at'[q] = at[q]
    BY <1>3, PidsAreNumbers DEF Removes, TakesSnapshot, LockInv, PlacesTyped
  <2>2. ~Heir(u) /\ waiting' = waiting
    BY <1>3 DEF Removes, TakesSnapshot, Heir, IsDaemon, Past
  <2>. QED BY <1>1, <1>2, <2>1, <2>2, HeirStays, HandsOn
<1>4. CASE Terminates(u)
  <2>1. /\ \A q \in Pids : q # u => at'[q] \in {at[q]} \union Ended
        /\ handing' => \A q \in Pids : q # u => at'[q] = at[q]
    BY <1>4, PidsAreNumbers DEF Terminates, Ended
  <2>2. ASSUME handing', NEW q \in Pids, Heir(q) PROVE Heir(q)'
    <3>1. q # u /\ at[q] \notin Ended
      BY <1>4, <2>2, HeirsLive DEF Terminates, Alive
    <3>. QED BY <1>2, <1>4, <2>1, <2>2, <3>1, HeirStays DEF Terminates, Forgets, Outlive
  <2>. QED BY <1>1, <1>2, <2>1, <2>2, HandsOn
<1>5. CASE InstallEnds(u)
  <2>1. \A q \in Pids : q # u /\ at[q] # "unborn" => at'[q] = at[q]
    BY <1>5, PidsAreNumbers DEF InstallEnds, IsNext, Unborn, LockInv, PlacesTyped
  <2>2. ASSUME NEW q \in Pids, Heir(q) PROVE Heir(q)'
    <3>1. q # u /\ at[q] \notin Ended /\ at[q] # "unborn"
      BY <1>5, <2>2, HeirsLive DEF InstallEnds, Alive
    <3>. QED BY <1>2, <1>5, <2>1, <2>2, <3>1, HeirStays DEF InstallEnds, Forgets, Outlive
  <2>3. lock \in Pids => at[lock] # "unborn"
    BY DEF RestartInv, OwnersHold, Past, Ended
  <2>. QED BY <1>1, <1>2, <2>1, <2>2, <2>3, HandsOn
<1>. QED BY <1>3, <1>4, <1>5 DEF ToolGoesOn

(* Accepting a Restart makes the heir.                                      *)
LEMMA RestartTray ==
  ASSUME LockInv, RestTyped, KindsAreKnown, RestartInv, NEW p \in Pids, TrayAction(p)
  PROVE  RestartInv'
<1>1. ASSUME NEW d, SetsAutostart(p, d) \/ PicksMicrophone(p, d) PROVE RestartInv'
  <2>1. waiting' = waiting /\ lock' = lock
    BY <1>1 DEF SetsAutostart, PicksMicrophone
  <2>2. CASE p \in protected
    <3>1. UNCHANGED <<platform, at, kind, service, handing>>
      BY <1>1, <2>2 DEF SetsAutostart, PicksMicrophone
    <3>. QED BY <2>1, <3>1, HeirStays, HandsOn
  <2>3. CASE p \notin protected
    <3>1. PICK to \in {"writing", "running"} : Moves(p, "running", to)
      BY <1>1, <2>3 DEF SetsAutostart, PicksMicrophone, BeginsWrite
    <3>2. to \in Past \ {"quitting"}
      BY DEF Past
    <3>. QED BY <2>1, <3>1, <3>2, RestartMoves
  <2>. QED BY <2>2, <2>3
<1>2. CASE SpawnsSuccessor(p) \/ SpawnsHelper(p)
  <2>1. PICK q \in Pids :
          /\ IsNext(q)
          /\ at' = [at EXCEPT ![q] = IF platform = "win32" THEN "born" ELSE "helper",
                              ![p] = "quitting"]
          /\ platform = "win32" => waiting' = waiting \union {q}
    BY <1>2 DEF SpawnsSuccessor, SpawnsHelper
  <2>2. /\ at[p] = "running" /\ at[q] = "unborn" /\ q # p /\ IsDaemon(q)
        /\ at'[p] = "quitting"
        /\ at'[q] = IF platform = "win32" THEN "born" ELSE "helper"
        /\ \A r \in Pids : r # p /\ r # q => at'[r] = at[r]
    BY <1>2, <2>1, PidsAreNumbers
       DEF SpawnsSuccessor, SpawnsHelper, IsNext, Unborn, LockInv, PlacesTyped, KindsAreKnown,
           DaemonPlaces
  <2>3. UNCHANGED <<platform, kind, service, lock>>
    BY <1>2 DEF SpawnsSuccessor, SpawnsHelper, disk
  <2>4. OwnersHold'
    BY <2>2, <2>3 DEF RestartInv, OwnersHold, Past, Ended
  <2>5. NoJobOnWindows'
    BY <2>3 DEF RestartInv, NoJobOnWindows, NotLoaded
  <2>6. Heir(q)'
    BY <1>2, <2>1, <2>2, <2>3 DEF SpawnsSuccessor, SpawnsHelper, Heir, IsDaemon, NotLoaded
  <2>7. QuitterIsTheJob'
    <3>1. CASE SpawnsSuccessor(p)
      BY <2>3, <3>1 DEF SpawnsSuccessor, RestartInv, NoJobOnWindows, QuitterIsTheJob, NotLoaded
    <3>2. CASE SpawnsHelper(p)
      <4>1. handing' => service = p /\ lock = p
        BY <3>2 DEF SpawnsHelper, LockInv, OwnersRun
      <4>. QED BY <2>3, <4>1 DEF QuitterIsTheJob
    <3>. QED BY <1>2, <3>1, <3>2
  <2>. QED BY <2>4, <2>5, <2>6, <2>7 DEF RestartInv, HasHeir
<1>3. CASE Quits(p)
  <2>1. Moves(p, "running", "quitting") /\ waiting' = waiting /\ lock' = lock
    BY <1>3 DEF Quits, disk
  <2>2. "running" \in Past
    BY DEF Past
  <2>. QED BY <2>1, <2>2, RestartMoves
<1>4. CASE StartsUpgrade(p)
  <2>1. PICK u \in Pids :
          /\ at[u] = "unborn"
          /\ \A q \in Pids : q # u => at'[q] = at[q] /\ kind'[q] = kind[q]
    BY <1>4, PidsAreNumbers
       DEF StartsUpgrade, Spawn, IsNext, Unborn, LockInv, PlacesTyped, RestTyped
  <2>2. UNCHANGED <<platform, service, waiting, lock, handing>>
    BY <1>4 DEF StartsUpgrade, disk
  <2>3. lock \in Pids => at'[lock] = at[lock]
    BY <2>1 DEF RestartInv, OwnersHold, Past, Ended
  <2>4. \A q \in Pids : Heir(q) => Heir(q)'
    BY <2>1, <2>2, HeirsLive, HeirStays
  <2>. QED BY <2>2, <2>3, <2>4, HandsOn
<1>. QED BY <1>1, <1>2, <1>3, <1>4 DEF TrayAction

LEMMA RestartDies ==
  ASSUME LockInv, RestTyped, RestartInv, NEW p \in Pids, Dies(p)
  PROVE  RestartInv'
<1>1. lock \in Pids => at'[lock] \in {at[lock]} \union Ended
  BY PidsAreNumbers DEF Dies, LockInv, PlacesTyped, Ended
<1>. QED BY <1>1, HandsOn DEF Dies, disk

LEMMA RestartStep ==
  LockInv /\ RestTyped /\ KindsAreKnown /\ RestartInv /\ [Next]_vars => RestartInv'
<1> SUFFICES ASSUME LockInv, RestTyped, KindsAreKnown, RestartInv, [Next]_vars
             PROVE  RestartInv'
  OBVIOUS
<1>1. CASE UNCHANGED vars
  BY <1>1, HeirStays, HandsOn DEF vars
<1>2. CASE UserStarts \/ LogsIn \/ UserUninstalls \/ UserInstalls \/ InstallsMacApp \/ UserEdits
  BY <1>2, RestartUser
<1>3. ASSUME NEW p \in Pids, DaemonGoesOn(p) \/ ToolGoesOn(p) \/ TrayAction(p) \/ Dies(p)
      PROVE  RestartInv'
  BY <1>3, RestartGoesOn, RestartTools, RestartTray, RestartDies
<1>. QED BY <1>1, <1>2, <1>3 DEF Next

(* Once a Restart was accepted there is a daemon that is up or will be,     *)
(* until something kills a daemon or the user quits one: for any number of  *)
(* processes, and whoever else starts or exits meanwhile.                   *)
THEOREM RestartCorrect == Spec => []RestartHandsOver
<1>1. Init => RestartInv
  BY ProcessAssumption
     DEF Init, RestartInv, OwnersHold, NoJobOnWindows, QuitterIsTheJob, HasHeir, NotLoaded
<1>2. RestartInv => RestartHandsOver
  BY DEF RestartInv, HasHeir, RestartHandsOver, Heir, Up, Past, Starting
<1>. QED BY <1>1, <1>2, RestartStep, TypesHold, KindsHold, PTL DEF Spec
=============================================================================
