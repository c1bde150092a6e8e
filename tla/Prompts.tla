------------------------------- MODULE Prompts -------------------------------
(* What the daemon tells the user when it may not, or cannot, listen or     *)
(* paste, and when there is an update: the adapters that report a failure   *)
(* from threads of their own, the queues the GUI thread drains, the         *)
(* throttle of permissions/reprompt.py, the modal dialogs, which run the    *)
(* event loop inside and so nest, the tray's hotkey row and its entries for *)
(* recording by hand.  A version is the sequence of its numbers.            *)
EXTENDS Integers, Sequences, SequencesExt

CONSTANTS
  DialogCooldown, NotifyCooldown,  \* in steps of the clock
  MaxReports,                      \* reports that wait at one time
  Installed,                       \* what the installed version may be
  Latest,                          \* the tags GitHub may answer
  Width, Radix                     \* no version has more numbers, or a greater

ACCESSIBILITY == "Accessibility"
INPUT_MONITORING == "Input Monitoring"
MacPermission == <<ACCESSIBILITY, INPUT_MONITORING>>
Permissions == Range(MacPermission)

Unparsable == <<>>                 \* no version, or text that is none

ASSUME PromptsAssumption ==
  /\ DialogCooldown \in Nat /\ NotifyCooldown \in 1..DialogCooldown
  /\ MaxReports \in Nat
  /\ Installed \union Latest \subseteq Seq(Nat)
  /\ Width \in Nat /\ Radix \in Nat
  /\ \A v \in Installed \union Latest :
       Len(v) <= Width /\ \A i \in 1..Len(v) : v[i] < Radix

VARIABLES
  platform,
  missing,      \* grants the system does not have (macOS)
  keyboard,     \* the keyboard hook or event tap: "installing", "live" or "off"
  mouse,        \* the mouse hook (Windows)
  failures,     \* HookFailureReporter._queue
  surfaced,     \* HookFailureReporter._surfaced
  reports,      \* permission_reports
  deferred,     \* deferred_permission_reports
  check,        \* the startup check: "pending", "showing" or "done"
  throttle,     \* PermissionRepromptThrottle
  due,          \* the dialogs scheduled with a timer of 0 ms
  stack,        \* the modal dialogs that are up, the innermost last
  hint,         \* the tray's hotkey row
  manual,       \* the tray offers Start and Stop recording
  guideSeen,    \* the Usage Guide's marker
  installed,    \* current_version
  checker,      \* what UpdateChecker's thread does, or its decision
  busy,         \* UpdateChecker._busy
  upgrading,    \* the tag the installer was started for
  \* an observer's notes
  told,         \* how long ago a permission's dialog or notification was there
  rested,       \* how long ago its dialog was closed
  unheard,      \* permissions whose last report the user was told nothing of
  abandoned     \* permissions whose dialog was given up with the list it was in

hooks == <<missing, keyboard, mouse, failures, surfaced>>
tray == <<hint, manual>>
upgrade == <<installed, checker, busy, upgrading>>
notes == <<told, rested, unheard, abandoned>>
vars == <<platform, hooks, reports, deferred, check, throttle, due, stack, tray,
          guideSeen, upgrade, notes>>

(* A dialog that is up: a list of permissions still to show, the first of   *)
(* which is up, or the tag of an update.                                    *)
Frame(kind, items) == [kind |-> kind, items |-> items]
Top == stack[Len(stack)]
Below == SubSeq(stack, 1, Len(stack) - 1)
IsPermissionFrame(f) == f.kind \in {"startup", "on use"}
Shown(s) == {Head(s[i].items) : i \in {j \in DOMAIN s : IsPermissionFrame(s[j])}}
Listed(s) == UNION {Range(s[i].items) : i \in {j \in DOMAIN s : IsPermissionFrame(s[j])}}

(* The user has a dialog of this permission before him, or will have.       *)
Coming(s, scheduled) == Listed(s) \union Range(scheduled)

Init ==
  /\ platform \in {"darwin", "win32"}
  /\ missing \in IF platform = "darwin" THEN SUBSET Permissions ELSE {{}}
  /\ keyboard = "installing"
  /\ mouse = IF platform = "win32" THEN "installing" ELSE "off"
  /\ failures = <<>> /\ surfaced = FALSE
  /\ reports = <<>> /\ deferred = <<>>
  /\ check = IF platform = "darwin" THEN "pending" ELSE "done"
  /\ throttle = [open |-> {}, dialogAge |-> [p \in Permissions |-> DialogCooldown],
                 noteAge |-> [p \in Permissions |-> NotifyCooldown]]
  /\ due = <<>> /\ stack = <<>>
  /\ hint = "combo" /\ manual = FALSE
  /\ guideSeen \in BOOLEAN
  /\ installed \in Installed /\ checker = [step |-> "idle"] /\ busy = FALSE
  /\ upgrading = Unparsable
  /\ told = [p \in Permissions |-> NotifyCooldown]
  /\ rested = [p \in Permissions |-> DialogCooldown]
  /\ unheard = {} /\ abandoned = {}

-----------------------------------------------------------------------------
(* The adapters' threads.                                                   *)

(* CGEventTapHook._run_tap: the tap needs Input Monitoring.                 *)
TapFailsQuietly ==                     \* fault: the failure is not reported
  /\ platform = "darwin" /\ keyboard = "installing"
  /\ keyboard' = IF INPUT_MONITORING \in missing THEN "off" ELSE "live"
  /\ UNCHANGED <<platform, missing, mouse, failures, surfaced, reports, deferred, check,
                 throttle, due, stack, tray, guideSeen, upgrade, notes>>
TapRuns ==
  /\ platform = "darwin" /\ keyboard = "installing"
  /\ IF INPUT_MONITORING \in missing
     THEN keyboard' = "off" /\ reports' = Append(reports, INPUT_MONITORING)
     ELSE keyboard' = "live" /\ UNCHANGED reports
  /\ UNCHANGED <<platform, missing, mouse, failures, surfaced, deferred, check, throttle,
                 due, stack, tray, guideSeen, upgrade, notes>>

(* LowLevelHookThread._run: SetWindowsHookExW may be refused.               *)
KeyboardHookRuns ==
  /\ platform = "win32" /\ keyboard = "installing"
  /\ \/ keyboard' = "live" /\ UNCHANGED failures
     \/ keyboard' = "off" /\ failures' = Append(failures, "keyboard")
  /\ UNCHANGED <<platform, missing, mouse, surfaced, reports, deferred, check, throttle,
                 due, stack, tray, guideSeen, upgrade, notes>>

MouseHookRuns ==
  /\ mouse = "installing"
  /\ \/ mouse' = "live" /\ UNCHANGED failures
     \/ mouse' = "off" /\ failures' = Append(failures, "mouse")
  /\ UNCHANGED <<platform, missing, keyboard, surfaced, reports, deferred, check, throttle,
                 due, stack, tray, guideSeen, upgrade, notes>>

(* MacKeystrokeSender._check_access, before the keys of a paste.            *)
PasteIsBlocked ==
  /\ ACCESSIBILITY \in missing
  /\ Len(reports) + Len(deferred) < MaxReports
  /\ reports' = Append(reports, ACCESSIBILITY)
  /\ UNCHANGED <<platform, hooks, deferred, check, throttle, due, stack, tray, guideSeen,
                 upgrade, notes>>

UserGrants ==
  /\ \E p \in missing : missing' = missing \ {p}
  /\ UNCHANGED <<platform, keyboard, mouse, failures, surfaced, reports, deferred, check,
                 throttle, due, stack, tray, guideSeen, upgrade, notes>>

-----------------------------------------------------------------------------
(* PermissionRepromptThrottle.  What was never stamped has its cool-down    *)
(* behind it.                                                               *)
DialogDue(t, p) == t.dialogAge[p] >= DialogCooldown

OpenDialogUnmarked(t, p) == [t EXCEPT !.dialogAge[p] = 0]           \* fault
OpenDialog(t, p) == [t EXCEPT !.open = @ \union {p}, !.dialogAge[p] = 0]

OnUse(t, p) ==
  IF p \in t.open THEN "NONE"
  ELSE IF DialogDue(t, p) THEN "DIALOG"
  ELSE IF t.noteAge[p] >= NotifyCooldown THEN "NOTIFY" ELSE "NONE"

DueAtStartup(t, lacking) ==
  LET Asked(p) == IF p \in lacking /\ p \notin t.open /\ DialogDue(t, p)
                  THEN <<p>> ELSE <<>>
  IN Asked(MacPermission[1]) \o Asked(MacPermission[2])

DialogClosedUnstamped(t, p) == [t EXCEPT !.open = @ \ {p}]           \* fault
DialogStaysOpen(t, p) ==                                           \* fault
  [t EXCEPT !.dialogAge[p] = 0, !.noteAge[p] = 0]
DialogClosed(t, p) ==
  [t EXCEPT !.open = @ \ {p}, !.dialogAge[p] = 0, !.noteAge[p] = 0]

(* _handle_permission_report, for one report after the other.  A dialog is  *)
(* scheduled, a notification shown.                                         *)
HandleReport(s, p) ==
  LET action == OnUse(s.throttle, p)
  IN CASE action = "DIALOG" -> [s EXCEPT !.throttle = OpenDialog(@, p),
                                         !.due = Append(@, p)]
       [] action = "NOTIFY" -> [s EXCEPT !.throttle.noteAge[p] = 0, !.told[p] = 0]
       [] action = "NONE"   -> s

HandleReports(t, ages, rs) ==
  LET s == FoldLeft(HandleReport, [throttle |-> t, due |-> due, told |-> ages], rs)
  IN /\ throttle' = s.throttle
     /\ due' = s.due
     /\ told' = s.told

Listens(rs, s) ==
  unheard' = (unheard \ Range(rs)) \union
             {p \in Range(rs) : p \notin Coming(s, due') /\ told'[p] >= NotifyCooldown}

-----------------------------------------------------------------------------
(* The GUI thread, in the event loop or in that of a dialog.                *)

(* _drain_permission_reports; before the startup check they are put off.    *)
DrainPermissionReports ==
  /\ reports # <<>> /\ reports' = <<>>
  /\ IF INPUT_MONITORING \in Range(reports)
     THEN hint' = "allow Input Monitoring" /\ manual' = TRUE
     ELSE UNCHANGED tray
  /\ IF check = "done"
     THEN /\ HandleReports(throttle, told, reports)
          /\ Listens(reports, stack)
          /\ UNCHANGED deferred
     ELSE /\ deferred' = deferred \o reports
          /\ UNCHANGED <<throttle, due, told, unheard>>
  /\ UNCHANGED <<platform, hooks, check, stack, guideSeen, upgrade, rested, abandoned>>

(* HookFailureReporter.drain: only the first failure is told.               *)
DrainHookFailures ==
  /\ failures # <<>> /\ failures' = <<>>
  /\ surfaced' = TRUE
  /\ hint' = IF surfaced THEN hint ELSE "dictate from the tray menu"
  /\ UNCHANGED <<platform, missing, keyboard, mouse, reports, deferred, check, throttle,
                 due, stack, manual, guideSeen, upgrade, notes>>

(* The end of _show_permission_guidance: what was put off, then the guide,  *)
(* unless grants were missing or it was seen.  It may fail to open.         *)
StartupCheckEnds(t, ages, pending) ==
  /\ check' = "done"
  /\ HandleReports(t, ages, deferred)
  /\ deferred' = <<>>
  /\ guideSeen' \in {guideSeen, guideSeen \/ ~pending}

(* _show_permission_guidance.  The probe may raise.                         *)
StartupCheck ==
  /\ check = "pending"
  /\ LET list == DueAtStartup(throttle, missing)
     IN \/ /\ list # <<>>
           /\ check' = "showing"
           /\ throttle' = FoldLeft(OpenDialog, throttle, list)
           /\ stack' = Append(stack, Frame("startup", list))
           /\ UNCHANGED <<due, deferred, guideSeen, told, unheard>>
        \/ \E raised \in BOOLEAN :
             /\ raised \/ list = <<>>
             /\ UNCHANGED stack
             /\ StartupCheckEnds(throttle, told, ~raised /\ missing # {})
             /\ Listens(deferred, stack)
  /\ UNCHANGED <<platform, hooks, reports, tray, upgrade, rested, abandoned>>

(* The timer of a scheduled dialog, in whatever loop is running.            *)
DialogIsShown ==
  /\ due # <<>>
  /\ stack' = Append(stack, Frame("on use", <<Head(due)>>))
  /\ due' = Tail(due)
  /\ UNCHANGED <<platform, hooks, reports, deferred, check, throttle, tray, guideSeen,
                 upgrade, notes>>

(* show_permission_dialogs: the innermost dialog is dismissed, or raises,   *)
(* which ends its list.  on_closed is called either way.                    *)
DialogEnds(raises) ==
  /\ stack # <<>> /\ IsPermissionFrame(Top)
  /\ LET p == Head(Top.items)
         rest == IF raises THEN <<>> ELSE Tail(Top.items)
         t == DialogClosed(throttle, p)
         ages == [told EXCEPT ![p] = 0]
     IN /\ stack' = IF rest = <<>> THEN Below ELSE Append(Below, Frame(Top.kind, rest))
        /\ rested' = [rested EXCEPT ![p] = 0]
        /\ abandoned' = IF raises THEN abandoned \union Range(Tail(Top.items))
                                  ELSE abandoned
        /\ IF Top.kind = "startup" /\ rest = <<>>
           THEN /\ StartupCheckEnds(t, ages, TRUE)
                /\ Listens(deferred, Below)
           ELSE /\ throttle' = t
                /\ told' = ages
                /\ UNCHANGED <<due, deferred, check, guideSeen, unheard>>
  /\ UNCHANGED <<platform, hooks, reports, tray, upgrade>>

(* Ages end at their cool-down; a dialog that is up does not age.           *)
Older(age, limit) == IF age < limit THEN age + 1 ELSE age
TimePasses ==
  /\ throttle' = [throttle EXCEPT
        !.dialogAge = [p \in Permissions |-> Older(@[p], DialogCooldown)],
        !.noteAge = [p \in Permissions |-> Older(@[p], NotifyCooldown)]]
  /\ told' = [p \in Permissions |->
                IF p \in Shown(stack) THEN told[p] ELSE Older(told[p], NotifyCooldown)]
  /\ rested' = [p \in Permissions |-> Older(rested[p], DialogCooldown)]
  /\ UNCHANGED <<platform, hooks, reports, deferred, check, due, stack, tray, guideSeen,
                 upgrade, unheard, abandoned>>

-----------------------------------------------------------------------------
(* UpdateChecker.                                                           *)

(* is_newer: the shorter version is padded with zeros.                      *)
ComparesUnpadded(candidate, current) ==     \* fault: tuples as they are
  \/ IsStrictPrefix(current, candidate)
  \/ \E i \in 1..Len(candidate) \cap 1..Len(current) :
       candidate[i] > current[i] /\ \A j \in 1..(i - 1) : candidate[j] = current[j]
Part(version, i) == IF i <= Len(version) THEN version[i] ELSE 0
ComparesNewer(candidate, current) ==
  \E i \in 1..Len(candidate) :
    /\ Part(candidate, i) > Part(current, i)
    /\ \A j \in 1..(i - 1) : Part(candidate, j) = Part(current, j)
IsNewer(candidate, current) ==
  candidate # Unparsable /\ current # Unparsable /\ ComparesNewer(candidate, current)

DecideUpgrade(current, latest) ==
  CASE latest = Unparsable \/ current = Unparsable -> [kind |-> "unknown"]
    [] latest # Unparsable /\ current # Unparsable ->
         IF IsNewer(latest, current) THEN [kind |-> "available", tag |-> latest]
         ELSE [kind |-> "up to date"]

Checks ==
  /\ ~busy /\ busy' = TRUE
  /\ checker' = [step |-> "fetching"]
  /\ UNCHANGED <<platform, hooks, reports, deferred, check, throttle, due, stack, tray,
                 guideSeen, installed, upgrading, notes>>

(* The worker; an error of the network is an answer without a tag.          *)
Fetches ==
  /\ checker.step = "fetching"
  /\ \E latest \in Latest \union {Unparsable} :
       checker' = [step |-> "decided", decision |-> DecideUpgrade(installed, latest)]
  /\ UNCHANGED <<platform, hooks, reports, deferred, check, throttle, due, stack, tray,
                 guideSeen, installed, busy, upgrading, notes>>

(* _on_finished, up to the dialog: a confirmation on Windows, a command to  *)
(* copy on macOS.                                                           *)
OnFinished ==
  /\ checker.step = "decided"
  /\ checker' = [step |-> "idle"]
  /\ IF checker.decision.kind = "available"
     THEN /\ stack' = Append(stack, Frame("update", checker.decision.tag))
          /\ UNCHANGED busy
     ELSE /\ busy' = FALSE
          /\ UNCHANGED stack
  /\ UNCHANGED <<platform, hooks, reports, deferred, check, throttle, due, tray, guideSeen,
                 installed, upgrading, notes>>

(* The dialog is answered or raises.  The installer is started for a tag    *)
(* that was confirmed; if that raises, nothing is started.                  *)
UpdateDialogEnds ==
  /\ stack # <<>> /\ Top.kind = "update"
  /\ stack' = Below
  /\ \/ /\ platform = "win32"
        /\ upgrading' = Top.items
        /\ UNCHANGED busy
     \/ busy' = FALSE /\ UNCHANGED upgrading
  /\ UNCHANGED <<platform, hooks, reports, deferred, check, throttle, due, tray, guideSeen,
                 installed, checker, notes>>

-----------------------------------------------------------------------------
Next ==
  \/ TapRuns \/ KeyboardHookRuns \/ MouseHookRuns \/ PasteIsBlocked \/ UserGrants
  \/ DrainPermissionReports \/ DrainHookFailures \/ StartupCheck
  \/ DialogIsShown \/ (\E raises \in BOOLEAN : DialogEnds(raises)) \/ TimePasses
  \/ Checks \/ Fetches \/ OnFinished \/ UpdateDialogEnds

Spec == Init /\ [][Next]_vars

-----------------------------------------------------------------------------
(* Properties.                                                              *)

(* reprompt.py: "a repeat failure is still never silent".  Whenever a report*)
(* has been handled its dialog is up or coming, or the user saw one, or a   *)
(* notification, within the notification's cool-down; and a permission is   *)
(* marked open exactly as long as a dialog of it is up or coming.  Except   *)
(* for a dialog given up because one before it in its list raised.          *)
NoReportIsSilent ==
  /\ unheard \subseteq abandoned
  /\ throttle.open = Coming(stack, due) \union abandoned

OneDialogEach(s) ==
  \A i, j \in {k \in DOMAIN s : IsPermissionFrame(s[k])} :
     Head(s[i].items) = Head(s[j].items) => i = j

(* "so it never nags on every dictation": no dialog of a permission comes   *)
(* up within the cool-down after the user closed the last one, and never    *)
(* while another dialog of it is still up, though reports, timers and lists *)
(* of dialogs interleave in nested event loops.                             *)
NeverNags ==
  [][/\ \A p \in Permissions :
          p \in Shown(stack') \ Shown(stack) => rested[p] >= DialogCooldown
     /\ OneDialogEach(stack')]_vars

(* A version as a number, its parts the digits in base Radix.               *)
Release(v) ==
  LET value[n \in 0..Width] ==
        IF n = 0 THEN 0 ELSE Radix * value[n - 1] + Part(v, n)
  IN value[Width]

(* No check for updates is left behind: while _busy keeps the next one from *)
(* being made, a thread is asking, a dialog is up, or the installer was     *)
(* started; and that only for a tag whose release is later.                 *)
UpdateChecksEnd ==
  /\ busy <=> \/ checker.step # "idle"
              \/ upgrading # Unparsable
              \/ \E i \in DOMAIN stack : stack[i].kind = "update"
  /\ upgrading # Unparsable => Release(upgrading) > Release(installed)

(* The tray's row says that the hotkey is off when the keyboard hook is,    *)
(* once the GUI thread has heard of it, and only when some hook is; on a Mac*)
(* the menu then offers Start and Stop.                                     *)
HintIsHonest ==
  /\ keyboard = "off" => \/ hint # "combo"
                         \/ failures # <<>> \/ INPUT_MONITORING \in Range(reports)
  /\ hint # "combo" => keyboard = "off" \/ (platform = "win32" /\ mouse = "off")
  /\ platform = "darwin" /\ hint # "combo" => manual

(* hook_failure.py:29: "Hotkey off — dictate from the tray menu".           *)
DictatesFromTheMenu == hint # "combo" => manual

(* Types of the variables.                                                  *)
TypeOK ==
  /\ missing \subseteq Permissions
  /\ {keyboard, mouse} \subseteq {"installing", "live", "off"}
  /\ throttle.open \subseteq Permissions
  /\ Len(stack) <= 3 /\ Len(due) <= 2
=============================================================================
