# A TLA+ verification of Dictatem

Dictatem is a push-to-talk dictation daemon: a hotkey starts a recording, a
speech model on a worker thread turns it into text, and the text is pasted into
the window that had the focus when the user started to speak.  A dictation may
also be a *command*: a trigger word re-pastes the last dictation or has an LLM
rewrite the text that was just pasted (a *Transform*, whose *Trigger Fire*
erases the old text and types the new one).

The code is Python, in `src/src/dictatem`.  All paths below are relative to it.

## The system

| Component | State it keeps | Operations | What is hard about it |
|---|---|---|---|
| Keyboard and mouse hooks (`hotkey/wh_*_ll.py`, `mac_hook.py`) | none to speak of | deliver key events on a hook thread | events are missed over elevated windows and on the lock screen |
| `HotkeyClassifier` (`hotkey/classifier.py`) | keys down, start of the combo, hold emitted, menu-mask sessions, suppressed buttons | `process_event`, `tick` | tap or hold, stale keys, balancing what is suppressed |
| `_HotkeyBridge` (`daemon.py` 269-429) | `_combo_active`, a queue of events | `enqueue_key_event`, `process_mouse_event`, `tick` | two threads; decisions under a lock, deliveries without it |
| `StateMachine` (`state.py`) | state, time of the press | `handle`, `reset` | it must agree with everything around it |
| `DaemonCore` (`daemon.py` 491-1790) | session, Last Paste, Most-recent dictation, flags of the pill | handlers of the hotkey, the tray, the 50 ms and the 5 s timer | results of workers arrive late; every handler has error paths |
| `DictationSession` (`session.py`) | epoch and the fields of one dictation | `begin`, `end` | what a late result may still touch |
| Worker threads (`daemon.py` 867, 1109, 1258, 1596) | none; each posts one result | recognise, confirm, transform, warm | outlive the session that started them |
| `TranscribeLifecycle` (`transcribe/lifecycle.py`) | loaded, loading, in flight, unload pending, last activity | `transcribe`, `preload`, `unload`, `check_idle` | two locks, four kinds of caller |
| Backends and fallback (`transcribe/fallback.py`, engines) | which backend is in use | load, transcribe, unload, latch | a GPU that fails after it worked |
| Recogniser (`transform/recognizer.py`, `phonetic.py`, `collisions.py`, `prompts.py`) | the lexicon | `decide`, `confirm`, the warnings at start | ambiguity bands, two passes, words that are not armed |
| Engines and language (`hardware/`, `transcribe/backend_selection.py`, `transcribe/language.py`) | the engine of the session; the last language chosen, the last one sure | probe, resolve, reconcile; `choose`, `confirm_pass_language` | machines that change under a saved configuration; workers that share one selector |
| Paste pipeline (`paste/pipeline.py`, clipboards, keystrokes) | saved clipboard, pending restore | `paste` | the user's clipboard under overlapping pastes |
| Overlay (`overlay/state.py`) | phase, colour, timers | `show_*`, `flash_*`, `hide`, `tick` | several writers, timed exits |
| Audio (`audio/`) | buffer of chunks, stream or tap, resampler history | start, stop, rescan, the callback, `check_silence`'s look | a callback thread; late blocks; block boundaries |
| Configuration (`config.py`) and autostart (`autostart/`) | `config.toml`, the session's `Config`, the login entry | load, bake, rewrite, reconcile | files that cannot be read, edits made beside a running daemon |
| Process control, upgrade (`process/`, `upgrade/`, `macapp/`) | the lock file, the process table, launchd's job | start, Restart, Quit, `--uninstall`, the installer | crashes, reused process numbers, two generations of a daemon at once |
| Permissions, prompts, hook failures (`permissions/`, `hotkey/hook_failure.py`, `upgrade/qt_update_check.py`) | queues of reports, throttle, modal dialogs, the tray's row | report, drain, show, close | nested event loops, dialogs that raise, two kinds of cool-down |
| Tray, overlay drawing, vocabulary, latency monitor, logging | menus, captions, figures | | |

**How they interact.**  The hook thread calls the classifier through the bridge,
under the bridge's lock, and leaves events in its queue.  The GUI thread's 50 ms
tick (`_on_tick`, daemon.py 3080) drains that queue into
`DaemonCore.on_hotkey_event`, refreshes the loading pill, and polls the two
result queues; a 5 s tick looks for silence and idleness.  Each handler of
`DaemonCore` asks the state machine for commands and runs them to the end, so
the handlers are atomic with respect to each other.  Workers share nothing with
them but the queues and the lifecycle; a result carries the epoch of its
session, and a result of another epoch is dropped.

**What makes each part correct.**
The bridge and classifier: a recording starts on a real press of the whole combo
and only then, a press is a tap or a hold, the system's picture of keys and
buttons is never left wrong.  `DaemonCore`: exactly one leg carries a waiting
session on; the microphone, the tray and the pill follow the machine on every
error path; cancelled text never lands; a replacement erases only the daemon's
own paste; the newest dictation stays recoverable; everything that starts ends.
The lifecycle: a model in use is never unloaded, loads do not overlap, a deferred
unload is not lost.  The pipeline: the user's clipboard comes back.  Audio: a
recording is its own audio, whole and in order.  Engines: what the program chose
runs, what the user chose is not lost, a clip is heard in an allowed language.
The recogniser: a word the user was not warned of runs no command but its own.
Processes: one daemon at a time, a Restart is never lost, a stop hits Dictatem and
nothing else, saving does not undo what was loaded.  Prompts: never silent, never
nagging.
`PROJECT.json` lists all components, also those not modelled, and under `hazards`
each thing that is hard to test, at its line, with the property that watches it.

## The modules

| Module | Models |
|---|---|
| `StateMachine` | `state.py`: one operator per handler, `Handle` for the table. No variables, so that both modules below drive the same definitions. |
| `Dictation` | The abstract promise: utterances one at a time, one final fate each, the newest dictation recoverable. |
| `DaemonCore` | `DaemonCore`, `DictationSession`, `LastPaste`, `focus_drifted`: one action per handler and per step of a worker. |
| `DaemonCoreProofs` | Theorems about `DaemonCore`. |
| `HotkeyPath` | Classifier, bridge and state machine, with the hook thread and the GUI tick interleaved. |
| `HotkeyPathProofs` | Theorems about `HotkeyPath`. |
| `TranscribeLifecycle` | `transcribe/lifecycle.py`: transcribing threads, the background load, the unloads, under the two locks; the first-run download and the daemon's poll for it. |
| `ModelMemory` | The abstract promise of the lifecycle: gigabytes that are borrowed, and given back when nobody has them borrowed. |
| `FallbackTranscriber` | `transcribe/fallback.py` beneath the lifecycle: an engine that is given up for another while others may be using it. It extends `TranscribeLifecycle`, whose threads, locks and actions it shares. |
| `TranscribeLifecycleProofs` | Theorems about `TranscribeLifecycle` and `FallbackTranscriber`. |
| `PastePipeline` | `paste/pipeline.py` with the Windows clipboard, focus and keystroke adapters, the deferred restore and the tray's copy. |
| `PastePipelineProofs` | Theorems about `PastePipeline`. |
| `AudioCapture` | `audio/`: both capture backends, `AudioBuffer`, the streaming resampler, the silence cut-off. |
| `AudioCaptureProofs` | Theorems about `AudioCapture`. |
| `Hardware` | `hardware/`, `backend_selection.py`: probes, tiers, reconciliation. Pure. |
| `Language` | `transcribe/language.py`: the session's rule and the choice for a clip. Pure. |
| `Recognizer` | `transform/recognizer.py`, `collisions.py`, `prompts.py`, `alias.py`: lexicon, decision, warnings. Pure. |
| `Engine` | The composition of the three: starts of the daemon on machines that change, clips on worker threads, their language, their decision and their confirm pass. |
| `EngineProofs` | Theorems about `Engine`, `Hardware`, `Language` and `Recognizer`. |
| `ConfigFile` | `config.py`: what a load makes of a file, what is reported, what is written back. Pure. |
| `AppProcess` | `ConfigFile` composed with the processes of one session: lock, Restart, autostart, tray settings, uninstaller, installer. |
| `AppProcessProofs` | Theorems about `AppProcess`. |
| `Prompts` | `permissions/`, `hook_failure.py`, `qt_update_check.py`: reports, throttle, nested dialogs, the tray's hint, update checks. |
| `PromptsProofs` | Theorems about `Prompts`. |
| `MC...` | Instances for TLC. |

### DaemonCore and the code

A handler is one action: `OnHotkeyEvent`, `CheckSilence`, `OnTrayStartRecording`,
`OnTrayStopRecording`, `CheckTranscriptionResult`, `CheckTransformResult`,
`CheckLoadingOverlay`.  `Execute` is `_execute_commands`; its disjuncts are the
commands, and `DoPaste` has one disjunct per way out of `_do_paste` (nothing to
paste, focus drifted, fire discarded, and an attempt that returns, finds modifiers
held, fails with a clipboard or OS error, or raises something else and ends in
`_recover_to_idle`).  An attempt that returns need not have put the text in its
window: `SendInput` may have refused keys, or the focus been refused, which is only
logged.  The daemon cannot tell and arms the Last Paste all the same; an observer's
field, `lastPaste.reached`, which no guard reads, records whether all keys arrived.  `TranscribeWorker` and `TransformWorker` are the worker
threads' single visible step.  `LifecycleLoads`, `PreloadEnds`,
`LifecycleUnloads`, `LlmWarmEnds`, `LlmCools`, `LastPasteAges`, `PillTimesOut` and
`FocusMoves` are the surroundings.  The model is preloaded at startup only: `on_tray_preload` is
called in one place (daemon.py:2958), and the tray has no item for it
(tray/state.py:66-67).

`micOpen` says that the capture was started and has not been told to stop since.
Both backends catch what the audio system raises in `stop()`
(sounddevice_capture.py:135-160, mac_audio_capture.py:178-192), so a stream that goes
on although it was told to stop is not seen by the daemon; it is `leaked` in
`AudioCapture`.

Data is reduced.  A text is the epoch of the session that spoke it (the LLM's
answer is the text of the session that asked).  The number of backspaces is named
by the text it was counted for, so "erases the right number" becomes "erases the
right text".  `caret[w]` is the daemon's text in front of the caret of window
`w`; what the user types is not modelled, the code's protection against it being
the time to live alone.  `fate` records for each utterance what became of it and
is read by properties only.  The lease of the Last Paste is a flag that
`LastPasteAges` may withdraw at any time, which covers every clock.  The
recogniser's verdict is a free choice, except that a trigger fire needs
transforms armed, as in `_transforms_armed`.

### HotkeyPath and the code

`Press`, `AutoRepeat`, `Release` are one call of the hook under the bridge's lock
(`Advance` is `_advance_locked`); `MissedRelease` is a release the hook is not
shown.  The tick is three actions because keys arrive between its parts:
`TickStarts` (under the lock), `TickDelivers` (one queued event each), `TickEnds`
(the hold decided at the start).  `DaemonEvent` stands for what other handlers do
to the state machine, on the same thread.  `osDown`, `typed`, `used` and
`maskOwed` are an observer outside the program: they follow what the operating
system has been shown, not the classifier's own books.

### TranscribeLifecycle, FallbackTranscriber and the code

`pc[t]` is where a thread is in `_run_transcription` or `_background_load`; what
happens between two accesses of shared state is one action (`Ensures` the first
look at `is_loaded`, `TakesLock` the second one under `_load_lock`, `Loads`,
`Calls`, `Finishes`).  A section under `_state_lock` is one action.  Time is a
count of ticks up to the timeout.

`ModelMemory` is what remains when locks, counter, timers and threads are left out:
`Promise` maps `loaded` to its `resident`, the threads between the two locked sections
of `_run_transcription` (`Users`) to its borrowers, those inside the engine (`Inside`)
to its users, and `unloadPending` to the request to give the memory back.

In `FallbackTranscriber` `loaded` is what the composite's `is_loaded` answers
(`IsLoaded`), kept up to date by every step.  The lifecycle's own actions are reused
where the composite is asked nothing or only to unload (`LifecycleStep`, `BeginsCall`,
`FinishesCall`, `UnloadsEngine`, `ChecksIdleEngine`); `Loads`, `LoadFails` and `Calls`
are replaced by the steps of a thread inside the composite (`at[t]`, `EngineStep`).
The composite does *not* implement the lifecycle's picture of a backend: the switch
takes `is_loaded` away in the middle of a call, the retry loads the fallback outside
`_load_lock`, and a thread may come late out of a load of the primary.  These three
steps are `OutOfTurn`; that there is no fourth is a theorem (`FallbackActsAsLifecycle`).
Both engines answer `EmptyResult` when they have no model, which is recorded as
`"lost"`.

### PastePipeline and the code

`gui` is the call of `paste()` under way on the GUI thread, `gui.at` the statement
it has reached: `wait` (`_wait_for_modifier_release`), `save`, `open`
(`_open_with_retry`), `set`, `close`, `focus`, `send` for a dictation, and `wait`,
`focus`, `erase`, `type` for a typed Trigger Fire.  The thread sleeps inside
`paste()`, and the calls themselves take time, so between two statements other
programs may do anything: open the clipboard, copy, take the focus, answer a
Ctrl+V late, press or release a modifier.  A second paste, a restore or the
tray's copy may not, since each is a callback of the same thread (`Idle`).
A write that fails may have emptied the clipboard already, be it the paste's, the
restore's or the tray's copy (`WriteFails`, `Restore`, `OnlyEmpties`).
`timers` are the single-shot restores and `keys` the Ctrl+Vs no window has
answered yet.  A text is the number of the paste it belongs to, or of the user's
copy.  `own`, `disturbed`, `excuses` and `gui.aim` are an observer's notes: what
the user would call the content of their clipboard, whose text another writer
removed, what has gone wrong since, whether the focus was refused or left.

### AudioCapture and the code

A sample is its index in the 16 kHz signal of its take, a chunk a range of
indices that is loud or quiet as a whole; so "nothing of another take, once, in
order" and "the filter reads only inputs it has" are statements about numbers.
`Block` is the callback (sounddevice) or the tap (AVAudioEngine), `Process` with
it `PolyphaseResampler.process`.  `removeTapOnBus_` does not wait for the block
being delivered, hence `LateBlock`; it is assumed to land before the microphone
is opened again, which takes a key press.  `CloseStream` may fail and leave the
stream running, as `_close_stream` does when PortAudio raises (`leaked` notes
it).  `ReadsLength`, then `ReadsSilence`, then `CutsOff` or `LetsGoOn` are
`check_silence`: two readings, each under the buffer's lock, and decisions without it.

### Engine, Hardware, Language, Recognizer and the code

`Starts` is `_run_daemon` from `load_config_with_report` to the language
selector: `Loaded` the configuration (baked on a first run, for this session only
when the file is broken), `Reconcile` and `SelectBackend` the engine, `LanguagePolicy`
the rule.  `SavesSetting` is any tray setting: it rewrites the file from `conf`,
never from the engine that runs.  A machine is what the probes can see of it and
what they cannot: NVML may be silent, wrong about the driver, or right while the
environment hides the card; whether the libraries of `runtime-gpu` were installed and
whether the card computes in half precision is asked by nobody.  `Runnable`, of
CTranslate2 and mlx-whisper, is external and depends on all of it, so that the chosen
engine may well not run: `LacksRuntime` are the machines on which that happens.

A clip goes `called`, `heard` (speech cut out, language detected), `running`
(`LanguageSelector.choose`, which writes the shared selector), then an answer;
the text of the dictation that is waited for is judged by `Decide`, and a
borderline one is heard again (`ConfirmPass`, `Ends`).  Cancelled dictations'
clips go on beside it.  MLX does one pass at a time on its thread; faster-whisper
does not care.  Whether Transforms are armed is free in each pass, since the Last
Paste may expire in between.

Words are abstract; how alike two are is a pair of tables, `Letters` and `Sounds`,
over which `Recognizer` is defined.  The instance uses the scores `phonetic.py`
gives to seven words.  Words are of the letters a to z: the fuzzy tier compares the
letters of an utterance only (recognizer.py:261), the collision check whole aliases,
so of an alias with a digit or a hyphen in it (`e-mail`) nothing is said here.
Probabilities of languages are tenths.

### ConfigFile, AppProcess and the code

Processes have numbers in the order of their creation, so that a number also
tells the creation time `pids_to_stop` compares; `Alien` is another program whose
dead parent's number a daemon may get.  `at[p]` is the statement a process has
reached: a daemon goes `born`, `starting`, `locked`, (`baking`), `loaded`,
`running`, `writing`, `quitting`; the stoppers `stopping`, `killing`.  A process
may be killed at each of them (`Dies`).  `write_config` truncates and then
writes: two actions, with a crash in between, and either may fail, which the daemon
logs and survives.  Restart is the Windows successor that waits for the lock or
launchd's helper on macOS.

On Windows a daemon and an uninstaller are two processes of the system, uv's launcher
and the base interpreter that it runs as its child, does the work and exits with it.
`ProcessTable` is the table with both.  Only the launcher's program lies in Dictatem's
directory (`IsRoot`); the worker is reached as a child (`GenuineChild`), by creation
time and parent's number.  `PidsToStop` is what the walk from the roots reaches, said
as the least set closed under children, without the caller.  The system may refuse
any termination (`Terminates`); launcher and worker have the same rights and are
refused alike.  The uninstaller's own launcher is a root too; that its end does not
end the uninstaller is taken from the code, which stops it on every uninstall.

A file is missing, not TOML, or a table with three settings, one of each kind the
program treats in its own way: written by the toggle, written by the microphone
menu and perhaps unset, and changed only by the user's editor, whose value is the
number of the edit, which is how a lost edit shows.  `AwkwardNames` and `AwkwardEdits`
are the texts with a backslash or a quote, which `_toml_value` writes as they are:
`Serialize` is the set of files a write may leave, with such a text misread or the
whole file no longer TOML.

### Prompts and the code

Reports come from the hook's threads and from `_check_access` before a paste; the
GUI thread drains them, also in the event loop of a modal dialog, which is why
the dialogs are a stack.  `StartupCheck` and `StartupCheckEnds` are
`_show_permission_guidance`, `HandleReport` one step of `_handle_permission_report`
with `on_use`, `DialogEnds` a dialog dismissed or raising, with `dialog_closed`
in the `finally`.  Time is ages up to the cool-downs.  `told`, `rested`, `unheard`
and `abandoned` are an observer's notes of what the user has seen.  The update
check has its thread, its decision over versions as sequences of numbers, its
dialog and the `_busy` flag.  `Release` reads a version as one number, so that "a
later release" is not said with the comparison that decides it.

## The runs

| Run | Question | Result |
|---|---|---|
| `daemon_safety` | Does the daemon keep its books under every interleaving of workers, ticks, Esc, focus changes and pastes that fail or return with keys refused, and implement `Dictation`? | holds (165,691 states) |
| `daemon_liveness` | With the startup preload: does every transcription, recording and loading pill end (`SessionsEnd`), and is the pill honest? | holds |
| `hotkey` | Two combos on one model. With missed releases and a letter: no start on a stale key or without a fresh press, a held press becomes a hold. With a mouse button and Esc: the menu mask is exact, a suppressed button is balanced | holds |
| `lost_release` | README: "a hold records only while held" | violated: a release between the threshold and the next tick is neither tap nor hold |
| `lifecycle` | Overlapping transcriptions, a background load, the tray's and the idle timer's unload, loads that fail and calls out of memory: is the model loaded once and never freed in use, does everything that starts end (`WorkEnds`), is an unused model freed, and is all this no more than a resource that is borrowed (`ImplementsModelMemory`)? | holds |
| `fallback` | Two transcriptions and a load failing together: one switch, told once, no way back (`SwitchIsFinal`), and nobody loses a recording but a call that was under way at the switch | holds |
| `paste` | Two pastes, late readers, other programs on the clipboard, refused keys and writes that raise or only empty it: does each dictation stay for its reader, does the user's content come back unless a named event excuses it, do keys go to the captured window, does every restore end? | holds |
| `audio` | Two takes on either backend, blocks of any size while the daemon reads, stops, fails to start, rescans, closes: is a take its own audio, is streaming the same as batch, is a recording cut off exactly when it deserves it? | holds |
| `engine` | Twelve machines that change between starts, settings edited, broken and saved back, two workers on both engines, words that sound alike: does the chosen engine run where a probe can tell, does the GPU come back, is the language kept, are commands meant? | holds |
| `process` | Up to three processes on either platform, started, crashed, restarted, quit, stopped by an installer or uninstaller with terminations refused, beside the user's edits and writes that fail: one daemon, exact stops, no lost Restart, no undone edit that was loaded? | holds (635,587 states) |
| `prompts` | Threads that report, a throttle, dialogs that nest and may raise, hooks that are refused, update checks: is no report silent, does none nag or stand twice, is the tray's row true, does every check end? | holds |
| `hook_failed` | `hook_failure.py:29`: "Hotkey off — dictate from the tray menu" | violated: on Windows a refused hook leaves the menu without those entries |

Each module that is run states its types as `TypeOK`; no run spends time on them, since they are
proved.

**Bounds.**  `MaxEpoch` bounds the sessions: the epoch also advances when a
session is cancelled or fails, so three allow a paste, a cancelled session whose
worker is still running, and a Transform of the paste; every hazard
listed needs at most two live sessions' worth of results.  Three windows tell the one
of the last paste, the one a session is anchored in and the one with the focus apart;
the run uses their symmetry, which no definition breaks.  With two windows and four
sessions (1,265,043 states) nothing else was found.  The liveness run has two sessions and no symmetry.  The
hotkey run has a combo of two groups of one key each (Win and Alt) beside a
letter, with releases that are missed, and one of three with a mouse button,
beside Esc; a threshold of 2 ticks, a clock of 4 (a press must leave time for a
hold, the guard in `Press`) and a queue of 4 (`MaxQueue`); at that size every
order of two overlapping presses and a tick occurs.

The lifecycle has two workers beside the background load: both locks are then
contended by three threads of the two kinds there are, a deferred unload can
outlive one worker and be run by the other, and the theorems below cover any
number.  The idle timeout is one tick, since only its expiry matters.  In the code
it is the workers of cancelled dictations that overlap.

`MaxPastes` is two: a paste meets at most the restore, the key and the open
clipboard that the one before has left, and one more dictation's snapshot would
repeat what the second one's is.  The restore is due after two ticks and a window
answers within one, the smallest numbers with room for a late answer before and
for an early restore after.  Two tries, two chunks and one tick of waiting give
each loop a first, a middle and a last turn.

In `audio` two takes are what a stray block can mix up; four inputs in blocks of
one or two at the ratio 2/3 put every phase of the filter at a block boundary,
and the limits of two and three samples lie below and at what a take can hold.
The ratio of a real 44.1 or 48 kHz device differs in the numbers, not in the
index arithmetic.  In `engine` the machines are one for each branch of the probes
and tiers that a change can reach, the settings one per kind of device, the
detections one per outcome of the confidence rule, the words the pairs that lie
in each band; two clips are an overlap.  In `process` three numbers suffice for a
daemon, its successor and what stops them, and, as `AlienParent` is 2, for a
reused number; one lock file cannot be established (`Unlockable`).  The user edits
twice, the second time with a text that needs escaping, as the microphone's name does.
The constraint `FewEvents` bounds how much of this comes together: a third process only
beside at most one edit and no picked microphone, and a picked one beside two processes
only without an edit.  Nothing in the rules about locks, stops and Restart reads the
device or the edits, and what a save does to the file takes one daemon; the theorems
need no such bound.  In `prompts`
there are two permissions, three reports waiting, and dialog and notification
cool-downs of 4 and 2, so that a notification can fall due twice before a dialog.
Versions have at most `Width` numbers, each below `Radix`.  `hook_failed` needs none
of that and bounds it further.

Deadlock is checked in `lifecycle`, `fallback`, `paste`, `engine` and `prompts`.
In the others the world may stop: with nothing pressed the daemon waits, and in
`hotkey`, `audio` and `process` the clock, the takes and the process numbers are
used up.

**Fairness.**  In `DaemonCore` it is weak fairness of the timers' handlers and of
the workers: the Qt timers fire for ever, every worker ends in a result because
each exception is turned into one and the LLM request has a timeout, a load and a
warm-up end, and a recording nobody stops reaches `max_recording_s`.  No fairness
is assumed of the user, the focus or the loading model's success.  In
`HotkeyPath` it is weak fairness of the clock and of the tick's parts.  In the
lifecycle every thread runs on (an engine's call returns or raises) and the two
timers tick; `_load_lock` is granted in the end to a thread that waits for it, a
strong fairness, because other threads may take it again and again in between.
Nobody is obliged to transcribe, preload or unload.  `FallbackTranscriber` needs
only the daemon's tick.  In `PastePipeline` the GUI thread runs on and fires a
due timer when it is free, a window answers a Ctrl+V, and time passes; other
programs owe nothing, not even to close the clipboard.  That a window answers
within `Lag` ticks, and that `Lag` is below the restore's delay, is an assumption
the code makes too ("long enough", pipeline.py:38).  The other modules have safety
properties only, and no fairness.

### Disagreements seen without a run of their own

*Dictation and hotkey.*
* "Last Paste is armed only on a SUCCESSFUL paste — it arms Trigger Words against text
  that actually landed (invariant kept by #190)" (daemon.py:1536-1537): it is armed
  whenever `paste()` returns, also when `SendInput` refused keys
  (win32_keystroke.py:392-406 only logs it) or the focus was refused.  A Transform then
  erases as many characters as that text has from whatever stands before the caret.
  `LastPasteIsOnScreen` and `ReplacesOnlyItsOwnPaste` therefore speak of pastes that
  `reached` their window; without that condition TLC refutes both.
* The end of the startup preload hides the pill of a recording (daemon.py:1691,
  against README:140; `PillIsHonest` speaks of a pill that is shown).
* After Esc with the combo still down, the next key event records again
  (daemon.py:427, 379-381, against "Press Esc to cancel").  If a release of the combo
  was missed as well, that happens with nothing held: the theorem about
  `ArmsOnARealPress` leaves this keyboard out (`EscIsSeen`), as the run does.
* A hold decided by the tick for one press is delivered after the lock is dropped
  and may meet a newer press (daemon.py:400-406, against the Hold of CONTEXT.md:21).
* After a missed release of the trigger's mouse button its next press is passed on
  and the release suppressed (classifier.py:196, against the comment at :122); hence
  the hypothesis `ButtonsAreSeen` of the theorem about `NoButtonStuck`.
* A hook whose message loop ends with an error of GetMessage is logged and nothing
  else (win32_ll_hook.py:197).

*Model, engines, language, words.*
* "the shortcut must never claim a GPU CTranslate2 would reject" (cuda_presence.py:25-26),
  and CTranslate2 counts cards whose libraries are missing: after an installation
  without `runtime-gpu` (pyproject.toml:63-67, install.ps1:56-64) on an NVIDIA PC, or on a
  card without half precision, NVML confirms CUDA, the first run writes cuda with
  float16 or int8_float16, and the first operation fails
  (faster_whisper_backend.py:29-40); for cuda there is no fallback at run time.
  The repository's README:576-579 warns of the first case.  `ChosenEngineRuns` leaves
  these machines out by name (`LacksRuntime`); without that TLC refutes it.
* The switch to the fallback engine takes the engine from another transcription
  under way, whose recording is lost (fallback.py:145, against "the dictation is
  never lost", :21-22); `OnlyTheCaughtAreLost` says that nobody else is.
* A failed use leaves its time in `_last_activity` (lifecycle.py:201, 285), so a
  model preloaded later may be freed at the next look at the idle clock; the next
  dictation loads it again.  An unload asked for during a load is lost
  (lifecycle.py:283) until the idle clock frees the model.
* When another clip was chosen for in between, the confirm pass listens in that
  clip's language (faster_whisper_backend.py:246-247, language.py:296-298).
* An alias of four letters such as "pate" is exact-only; while its Transform is not
  armed it is scored like any other word, 0.80 against "paste", and fires that one
  without a collision warning (collisions.py:125-128, recognizer.py:261-272).  The
  user is warned that the alias is exact-only, and `CommandsAreMeant` excludes it.
* `FUZZY_MIN_EQUAL_KEY_LEN` does not affect the score, because equal keys already
  have the similarity 1.0 (recognizer.py:270-272, against the comment at :58).

*Paste and audio.*
* A second dictation before the restore of the first saves that one's text as the
  user's content (pipeline.py:216, 248, against README:247; one of the excuses of
  `RestoredUnlessExcused`), and the first restore may fire between the second's
  write and its reader (`QuietPasteLands` counts it as another writer).
* When `set_text` or `close` raises, the clipboard stays open and nothing is
  restored (pipeline.py:218); what the user copies within 1.5 s after a paste is
  overwritten by its restore.
* A PortAudio stream that cannot be closed goes on delivering into the next take
  (`_close_stream` of sounddevice_capture.py; `leaked` excuses it).
* The first microphone whose name contains the wanted one is opened, although the
  menu ticks an exact match that comes later (input_devices.py:105-110 against
  131-141).

*Configuration and processes.*
* A tray setting rewrites the file from the session's `Config` and so undoes an edit
  made since the load (daemon.py:2662, against "never reverts a hand edit",
  config.py:181-183); `SavesWhatItRead` covers edits that had been loaded.
* `_toml_value` puts a text between quotes as it is (config.py:669-670): a model
  directory or a device name with a backslash or a quote, loaded without a problem, is
  saved as another text or as a file that does not parse, again against
  config.py:181-183.  `SavesWhatItRead` speaks of configurations without such a text
  (`Plain`); without that TLC refutes it.
* A crash, or a full disk, between truncation and write leaves an empty file, which
  parses as the defaults and is not reported (config.py:513).  A file that cannot be read counts as autostart = on,
  so the entry of a user who had it off is registered again (config.py:405).
* The uninstaller removes the entries and then stops the daemons (daemon.py:1878,
  1917-1922): one that is starting in between registers again.  On macOS it stops
  none.  `StopIsExact` names these conditions.
* On macOS, Restart of a daemon run from a terminal while launchd has the job may
  leave none, when launchd's one loses the lock (relaunch.py:44); so may that of launchd's
  own daemon when it runs without the lock.  `RestartHandsOver` leaves both out.
* A lock whose dead owner's number another process has now is not taken over, a
  limitation the code states (daemon.py:2206).  The model leaves it out.

*Prompts.*
* `UpdateChecker` stays busy after an installer that then failed
  (qt_update_check.py:142): no further check until a restart.
* A permission dialog that raises ends its list; the later ones stay marked open and
  are never shown again (qt_dialog.py:86-91; `abandoned` excuses them).
* `UpdateChecker.check` is busy before it tells the user that it checks
  (qt_update_check.py:102-104); should the tray's notification raise, it stays busy.
  The model takes that notification not to raise.

## The proofs

`DaemonCoreProofs` proves, for any set of windows and any number of sessions:

* `TypeCorrect`: `Spec => []TypeOK`
* `MicAndTrayCorrect`, `MostRecentCorrect`, `CancelIsFinal`, `LastPasteCorrect`,
  `OneLegCorrect`, `ReplacementCorrect`, `TouchCorrect`, `PillCorrect`: the safety
  properties of the two runs
* `DaemonImplementsDictation`: `Spec => ImplementsDictation`

They use only `ConstantsAssumption` of `DaemonCore`.

None of the invariants is inductive.  `TypeInv` adds to `TypeOK` that an open
session has a number in `Utterance`, which the recording bound gives only when
the epoch is remembered.  `HistoryInv` then ties the histories together: the
microphone and the tray follow the machine, a result is awaited only in
TRANSCRIBING, exactly the current utterance is open and only while the machine is
not idle, later ones are unspoken, the Most-recent dictation is the newest one
pasted or held, and whatever a window shows is settled.  With `OneIsOpen` and
`LaterUnspoken` a step can only open the next utterance or give the open one its
fate, which is what both the abstract specification and the invariants about
cancelled text need.

Instead of looking at each conjunct for each action, every step is first
classified: `Outcome` says that it opens an utterance, fails to open one, goes on
or closes one (`NextOutcome`, one step per action; `ExecuteOutcome` per command).
`OutcomeKeepsHistory` and `OutcomeImplements` then no longer mention the actions.
`LastPasteIsOnScreen` has a classification of its own, `ScreenOutcome`.
`DrainFacts` proves what `_next_current_result` leaves of a queue; it needs that a
non-empty set of positions has a least element (`LeastElement`, by well-founded
induction on the naturals from the library).

`AwaitsExactlyOneLeg` rests on `LegInv`: workers and results never have an epoch
ahead of the session's (`NothingAhead`), so that an epoch that moves on leaves every
leg behind; and while a Transform runs the Last Paste is held, aged or not, and its
length is what the leg carries (`LegErasesLastPaste`), from which the two focus
properties follow.

`TranscribeLifecycleProofs` proves `LifecycleTypeCorrect`,
`NeverPulledAwayHolds`, `LoadsOnlyOnceHolds` and `DeferredUnloadOwned` for every
finite set of workers and every timeout, from `ThreadsAssumption`.  The invariant
that makes them inductive is `Counted`: `_in_flight` is the number of threads
between the two locked sections of `_run_transcription`.  An unload acts on a
count of zero, so nobody is in a call; the deferred one acts on a count of one
within that one's own last section.

With it `LifecycleImplementsModelMemory` goes through step by step (`WorkerImplements`,
`PreloaderImplements`, `OthersImplement`): a count of zero is an empty set of borrowers,
and a count of one in `Finishes` is the last borrower, who frees what an earlier unload
asked for.  `NobodyWaitsInVain` and `TheIdleClockRuns` are the safety that the liveness
properties rest on: whoever holds `_load_lock` is loading, "Loading" is shown only
while the background thread has work left, a finished download is announced or still
polled for, and a model left in memory is being timed.  `HopeInv` says the same of every
state on the way there.

For the composite the same module proves, again for every set of workers,
`FallbackTypeCorrect`, `OnlyTheCaughtAreLostHolds`, `TheUserIsToldOnce` and
`TheFailedEngineIsNotRetried` (the safety half of `SwitchIsFinal`).  `Books` carries the
lifecycle's count and locks over to a composite that takes `is_loaded` away.  `Placed`
says which places inside the composite go with which step of the lifecycle.  `Served`
says of each transcription why it will find a model: the primary's before the switch,
the fallback's after it, unless it was caught or is on the way to loading it.
`Overtaken` says that whoever is still with the primary after the switch is caught,
which is what a late `PrimaryRuns` needs.  `FallbackActsAsLifecycle` shows that every step is one of the
lifecycle, a stutter or `OutOfTurn`.  None of these three leaves `fellBack` false, so
the lifecycle's own invariant holds up to the switch (`LifecycleUntilTheSwitch`, by
`NextInductive` of the lifecycle).  `NobodyElseIsWithoutAModel` is what is left of
`NeverPulledAway` after it.

`PastePipelineProofs` proves `TypeCorrect`, `ClipboardReturns`, `DictationsLand`
and `KeysGoToTheTarget` for any number of pastes and copies and any delay above
the lag, from `PasteAssumption`.  `Shape` says what kind of paste reaches which
statement and that the one under way has the newest number.  Two invariants carry
the argument.  `OwedInv`: while nothing excuses it, every snapshot that is out
equals `own`, and without one the clipboard does.  `AgeInv`: pastes have one key
and one restore, and the age of the key plus what is left of the restore is at
least the delay; a restore that is due would meet its unanswered key only at an
age above the lag.  The records of `gui` are typed first (`GuiTyped`, one lemma
per group of fields), and what a step does to them is said once (`GuiFollows`).
`PastesRunDown` is the termination argument behind `RestoresEnd`: `Work` counts what
the paste under way can still do, tries, ticks of the wait and chunks included; it is
0 just when the GUI thread is free, every step of the paste and every tick it waits
lowers it, and no other program raises it.

`HotkeyPathProofs` proves `TypeCorrect`, `MaskCorrect`, `ButtonsCorrect` and
`ArmsCorrect` for any combos, keyboards and tap threshold, from `SetupsAssumption`.
The invariant `HookInv` relates the classifier's books to the observer's: the keys it
believes down are at least the real ones and, if it sees every release, exactly these
(`KnowsTheKeys`); the company each masked key had is then known exactly
(`KnowsTheCompany`); a button whose press was suppressed is up for the system
(`KnowsTheButtons`).  Two theorems have a hypothesis, since without it TLC refutes
them (see the disagreements): `ButtonsAreSeen`, a hook that sees every release or a
combo without a button, and `EscIsSeen`, a hook that sees every release or a keyboard
whose Esc is not a key beside the combo.  Both runs' setups are of that kind.  What a
missed release does to `ArmsOnARealPress` is the point of `KeysAfterDown`: a fresh
press drops what is stale before it looks for a combo.

`WatchCorrect` is the safety that `HeldPressBecomesPtt` rests on: an undecided press
whose combo is still held is being watched.  Classifier and state machine decide about
a hold at two moments of a tick, with key events in between; `Settled` says that a hold
which was emitted and is not on its way has been heard, and that nothing queued leads
back to PRESSED, because a new press of the combo is a new hold to emit.

`AudioCaptureProofs` proves `TypeCorrect`, `TakeCorrect`, `StreamingCorrect` and
`CutOffCorrect` for any number of takes, any blocks, any ratio, filter length and
limits. `TakeIsItsOwn` speaks of a recording; what makes it hold at the start of one
is what the stop before left behind, in which the backends differ (`NothingLeaks`).
`Seamless` chains the chunks, `QuietIsCounted` ties them to the observer's count of
quiet samples. `ResamplerInv` says that a stream's next output is the first one whose
inputs are not all there; `Due` and `ProcessFacts` are its index arithmetic.
`CutOffCorrect` needs what `_snapshot_tail` collects from the newest chunks, a fold
over them: `FoldIsASum`.

`AppProcessProofs` proves, for any number of processes and from `ProcessAssumption`
and `ConfigAssumption`, `OneDaemon`, `TypeCorrect`, `SavesCorrect`, `StopCorrect` and
`RestartCorrect`.  `NeverTwoDaemons` looks only at daemons past the lock; the invariant
`OwnersRun` adds that each of those it was given to is the owner in the file.  Every
step but `GetsLock` is of the kind `NobodyGetsIt` (nobody new is guarded, the guarded
go on or are forgotten with the process), one lemma per action; `GetsLock` needs that
no guarded daemon is left, which is what `LockIsFree` says once the guarded own the
lock and run.  `SaveInv` follows the user's setting from the file into the
configuration (an absent one shows no edit, a file with a problem is never written)
and back, where nothing needs escaping (`WrittenFile`).
`StopInv` follows an uninstall that nothing has disturbed from statement to statement;
that every set with the launchers and the children of its members contains each
daemon to be ended, while one of them contains no other program, is `StopsTheRight`.  `RestartInv` names the heir: a daemon past the lock and
not quitting, one that waits for the lock or is launchd's, or the helper.  A waiting
one is only turned away by an owner that is itself an heir, and launchd's never meets
a quitting owner but its own predecessor (`QuitterIsTheJob`).

`PromptsProofs` proves `TypeCorrect`, `ReportsCorrect`, `RestCorrect`, `UpdatesCorrect`
and `HintCorrect` for any cool-downs, length of the queue and versions, from
`PromptsAssumption`; that dialogs nest at most three deep is part of the first.  `Coherent` is the invariant of the throttle: a permission is
in one place at most, a timer that is due or one dialog's list (`OnePlace`), it is
marked open exactly then (`KnowsTheOpen`), so no two dialogs of it stand
(`ApartIsOneEach`), the observer's ages do not run ahead of the
stamps (`KnowsTheAges`), and what still waits for its dialog had its rest (`Rested`).
One handled report keeps it (`ReportHandled`), and so does a list of them, and a
dialog, wherever in the stack it ends.  `UpdateInv` is `_busy` with its owner and that
whatever is offered is later; `TrayInv` that every refused hook is on its way to the
tray or shown there.

`EngineProofs` proves `TypeCorrect`, `TheGpuComesBack`, `WhatItChoseRuns`,
`LanguageCorrect` and `CommandsCorrect` for all machines, settings, workers, codes and
lexicons, from `EngineAssumption`, `LanguageAssumption` and `RecognizerAssumption`.
The first two after the types rest on `EngineInv`: a session's engine and its notice
are functions (`Chosen`, `Reconcile`) of its configuration and the machine, and what
the first run wrote stays in the file because a tray setting writes back the
configuration and not the engine.  `TierEngineRuns` is a case analysis of the tier
table, with `CudaIsUsable` for the half of the claim of cuda_presence.py that holds: a
GPU that is claimed is one CUDA counts; what is then left out is `LacksRuntime`.  `LanguageInv` says that the selector
remembers the language last detected with confidence and that the rule allows it; that
a clip that is alone is the only one under way (`NobodyElse`); and that of such a clip
the selector's last choice is its own (`Follows`).  `ChoiceIsAllowed` is about
`choose_language` alone; it needs that tenths have a largest one in every set
(`MostLikely`), by induction.  `FiredIsMeant` is about `decide` alone: exactly heard
words have one action, since of equal aliases one is kept (`OneEntryEach`, by induction
over the files and their aliases), and a word that is not armed can only come near a
built-in one, which is near enough to have been warned of (`NearIsWarned`).

*Induction over data.*  The library's induction theorems have an operator as their
parameter, which the provers cannot instantiate.  Each proofs module that needs
induction therefore proves `SetInduction`, the principle for a *set* of numbers, from
the well-foundedness of the naturals.  With it the function inside a fold exists
(`FoldExists`), and a fold takes its elements in turn (`HandlesInTurn`, `OpensInTurn`)
or stays in a set that its step does not leave (`StaysIn`).

**Model-checked only.**  The liveness properties (`SessionsEnd`, `HeldPressBecomesPtt`,
`WorkEnds`, `IdleModelIsFreed`, `RestoresEnd` and the first half of `SwitchIsFinal`),
since the prover knows neither ENABLED nor fairness.  For each of them
the safety part is proved, that what is awaited is always on its way
(`OneLegCorrect`, `WatchCorrect`, `NobodyWaitsInVain`, `TheIdleClockRuns`,
`TheUserIsToldOnce`) or that each step brings it nearer (`PastesRunDown`); what TLC
adds is that it arrives.  Every safety property a run
checks is proved; the two violated ones are not theorems.

## What is not modelled

Inference, audio samples, HTTP, Win32 and macOS calls, Qt drawing, the texts of
notifications and logs.  The user's own typing.

* Vocabulary and replacements (`transcribe/vocabulary.py`, `replacements.py`):
  functions on strings whose result only changes the wording; that it may be empty
  is in `DaemonCore`.
* Latency monitor: figures that only the log reads.
* Tray menu layout, overlay captions and fades, the Usage Guide's window.
* In the paste pipeline the macOS adapters (synchronous in the same way, with a
  pasteboard nobody can hold open), which formats a snapshot keeps, and the wait for
  pending input before an injection.
* Key maps and message loops of the hooks; arrow-key suppression.
* The ranges and normalisers of single settings; the phonetic code itself (its
  scores are a table); the syntax of prompt files; file and registry layout of the
  entries; the app bundle's content; which microphone is opened.
* Exceptions a handler could only raise through a defect of a library are covered
  where the code has a handler for them (`PasteRaises`), not elsewhere.

## The plan

1. Done: `StateMachine`, `Dictation`, `DaemonCore`, `HotkeyPath`, the first proofs.
2. Done: `TranscribeLifecycle` with its proofs, `FallbackTranscriber`.
3. Done: `PastePipeline` with its proofs, `AudioCapture`.
4. Done: `ConfigFile` and `AppProcess`; `Hardware`, `Language`, `Recognizer` and
   `Engine`; `Prompts`.
5. Done: the proofs of every safety property that a run checks, the refinement of
   `ModelMemory`, and the safety behind the liveness properties.
6. That the rest of `daemon.py` the components share (the wiring of `_run_daemon`,
   the notifications) keeps to the order the modules assume.
