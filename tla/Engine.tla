------------------------------- MODULE Engine -------------------------------
(* What a daemon makes of a clip: the engine, chosen at every start from    *)
(* the configuration and the machine as it is that day; the language,       *)
(* chosen by the LanguageSelector that all workers and both engines of a    *)
(* session share; and the decision whether it was a command, which may ask  *)
(* for a second listen.                                                     *)
EXTENDS Hardware, Language, Recognizer

CONSTANTS
  Machines,    \* what the user's machine may be, one start after the other
  Settings,    \* the [model] sections a user may write
  Detections,  \* what the language detection may find
  Clips,       \* the threads that transcribe a clip
  Heard        \* the utterances an engine may recognise

DefaultModel == Row("large", "cuda", "float16")
Section(model, language, languages) ==
  [state |-> "table", model |-> model, language |-> language, languages |-> languages]
Missing == [state |-> "missing"]
Broken == [state |-> "broken"]
EmptyFile == Section(DefaultModel, None, <<>>)

ASSUME EngineAssumption ==
  /\ \A m \in Machines : m.os \in {"win32", "darwin"}
  /\ \A s \in Settings : DOMAIN s = DOMAIN EmptyFile /\ s.languages \in Seq(STRING)
  /\ \A p \in Detections : p \in [Codes -> 0..10]
  /\ Heard \subseteq Utterance

VARIABLES
  machine,
  file,            \* the [model] section of config.toml
  up,              \* a daemon runs
  conf,            \* its Config
  protected,       \* config_report.read_only
  reason,          \* fallback_reason
  engine,          \* the engine it has built
  switched,        \* FallbackTranscriber has latched on the CPU
  policy,
  lastConfident, lastChoice,  \* LanguageSelector
  clip,            \* what each thread is doing
  current,         \* the clip of the dictation that is waited for
  \* an observer's notes
  baked,           \* the machine and engine of the first run, or what has become of it
  sure             \* the language last detected with confidence in this session

selector == <<lastConfident, lastChoice, sure>>
session == <<conf, protected, reason, engine, switched, policy>>
vars == <<machine, file, up, session, selector, clip, current, baked>>

Resting == [step |-> "idle"]
NotBaked == [state |-> "no"]

Init ==
  /\ machine \in Machines
  /\ file = Missing
  /\ up = FALSE
  /\ conf = EmptyFile /\ protected = FALSE /\ reason = "none" /\ switched = FALSE
  /\ engine = DefaultModel /\ policy = Policy(DefaultLanguage, <<>>, None)
  /\ lastConfident = None /\ lastChoice = None /\ sure = None
  /\ clip = [w \in Clips |-> Resting] /\ current = None
  /\ baked = NotBaked

-----------------------------------------------------------------------------
(* Between two runs of the daemon.                                          *)
MachineChanges ==
  /\ ~up
  /\ machine' \in {m \in Machines : m.os = machine.os}
  /\ UNCHANGED <<file, up, session, selector, clip, current, baked>>

UserEdits ==
  /\ ~up /\ file # Missing
  /\ file' \in Settings \union {Broken, EmptyFile}
  /\ baked' = NotBaked
  /\ UNCHANGED <<machine, up, session, selector, clip, current>>

-----------------------------------------------------------------------------
(* load_config_with_report, reconcile, select_backend, build_transcriber    *)
(* and _build_language_selector, as _run_daemon calls them.                 *)

(* _bake_first_run_config: also for this session of an unreadable file.     *)
BakeFirstRunConfig == Section(Resolve(Probe(machine)), None, <<>>)
Loaded == IF file.state = "table" THEN file ELSE BakeFirstRunConfig

(* _build_language_selector: the system is asked for its language only      *)
(* where the rule needs one, and may not say.                               *)
BuildsPolicy(config) ==
  \E ui \in IF config.languages = <<>> /\ config.language = AUTO
             THEN Codes \union {None} ELSE {None} :
    policy' = LanguagePolicy(config.language, config.languages, ui)

Starts ==
  /\ ~up /\ up' = TRUE
  /\ conf' = Loaded
  /\ protected' = (file = Broken)
  /\ file' = IF file = Missing THEN Loaded ELSE file
  /\ LET reconciliation == Reconcile(Loaded.model, Probe(machine))
     IN /\ reason' = reconciliation.reason
        /\ engine' = Built(SelectBackend(reconciliation.resolved))
  /\ BuildsPolicy(Loaded)
  /\ baked' = IF file = Missing THEN [state |-> "yes", machine |-> machine, engine |-> engine']
              ELSE baked
  /\ UNCHANGED <<machine, switched, selector, clip, current>>

(* Threads and the selector end with the process.                           *)
Stops ==
  /\ up /\ up' = FALSE
  /\ conf' = EmptyFile /\ protected' = FALSE /\ reason' = "none" /\ switched' = FALSE
  /\ engine' = DefaultModel /\ policy' = Policy(DefaultLanguage, <<>>, None)
  /\ lastConfident' = None /\ lastChoice' = None /\ sure' = None
  /\ clip' = [w \in Clips |-> Resting] /\ current' = None
  /\ UNCHANGED <<machine, file, baked>>

(* A setting saved from the tray rewrites the whole file from the Config.   *)
SavesWhatRuns ==                       \* fault: the session's engine is saved
  /\ up /\ ~protected
  /\ file' = [conf EXCEPT !.model = engine]
  /\ UNCHANGED <<machine, up, session, selector, clip, current, baked>>

SavesSetting ==
  /\ up /\ ~protected
  /\ file' = conf
  /\ UNCHANGED <<machine, up, session, selector, clip, current, baked>>

-----------------------------------------------------------------------------
(* A clip.                                                                  *)
Engine == IF switched THEN CpuFallbackSelection ELSE engine
OnMlx == Engine.device = "mlx"

Becomes(w, c) == clip' = [clip EXCEPT ![w] = c]
Under(w) == clip[w].step \notin {"idle", "fires"}

(* A dictation's clip is handed to a worker; an earlier one, cancelled,     *)
(* may still be at work.                                                    *)
Begins(w) ==
  /\ up /\ clip[w].step = "idle"
  /\ clip' = [v \in Clips |->
       IF v = w THEN [step |-> "called", alone |-> \A x \in Clips : ~Under(x)]
       ELSE IF Under(v) THEN [clip[v] EXCEPT !.alone = FALSE] ELSE clip[v]]
  /\ current' = w
  /\ UNCHANGED <<machine, file, up, session, selector, baked>>

(* MlxBackend has one thread of its own, so a pass runs on it from end to   *)
(* end.                                                                     *)
MlxIsFree == \A v \in Clips : clip[v].step \notin {"heard", "running", "confirming"}

(* The speech is cut out and, if need be, its language detected.  The VAD   *)
(* of faster-whisper may fail; MLX answers silence at once.                 *)
Hears(w) ==
  /\ clip[w].step = "called"
  /\ OnMlx => MlxIsFree
  /\ \E speech \in Speech : \E p \in Detections \union {Undetected} :
       /\ OnMlx => speech # "unknown"
       /\ ~NeedsDetection(policy, speech) => p = Undetected
       /\ Becomes(w, [step |-> "heard", alone |-> clip[w].alone, speech |-> speech,
                      probabilities |-> p])
  /\ UNCHANGED <<machine, file, up, session, selector, current, baked>>

MlxHearsNothing(w) ==
  /\ clip[w].step = "called" /\ OnMlx /\ MlxIsFree
  /\ Becomes(w, Resting)
  /\ UNCHANGED <<machine, file, up, session, selector, current, baked>>

(* LanguageSelector.choose, under its lock.                                 *)
RemembersFirst(choice) ==              \* fault: the first, not the last
  lastConfident' = IF choice.reason = "detected" /\ lastConfident = None
                   THEN choice.language ELSE lastConfident
Remembers(choice) ==
  lastConfident' = IF choice.reason = "detected" THEN choice.language ELSE lastConfident

Chooses(w) ==
  /\ clip[w].step = "heard"
  /\ LET choice == ChooseLanguage(policy, clip[w].probabilities, clip[w].speech, lastConfident)
     IN /\ Remembers(choice)
        /\ lastChoice' = choice.language
        /\ sure' = IF choice.reason = "detected" THEN choice.language ELSE sure
        /\ Becomes(w, [step |-> "running", alone |-> clip[w].alone, choice |-> choice])
  /\ UNCHANGED <<machine, file, up, session, current, baked>>

(* The engine answers, and the text of the dictation that is waited for is  *)
(* judged: a Borderline gets a confirm pass.  Whether Transforms are armed  *)
(* is for the Last Paste to say, which may change between the passes.       *)
Fires(w, said, decision, first) ==
  \E action \in decision.actions :
    Becomes(w, [step |-> "fires", said |-> said, action |-> action, first |-> first])

Answers(w) ==
  /\ clip[w].step = "running"
  /\ \/ Becomes(w, Resting)
     \/ /\ current = w
        /\ \E said \in Heard : \E armed \in BOOLEAN :
             LET decision == Decide(said, armed)
             IN \/ decision.kind = "fire" /\ Fires(w, said, decision, {})
                \/ /\ decision.kind = "borderline"
                   /\ Becomes(w, [step |-> "borderline", alone |-> clip[w].alone,
                                  choice |-> clip[w].choice, first |-> decision.actions])
  /\ UNCHANGED <<machine, file, up, session, selector, current, baked>>

(* _route_fire: the action is run, in DaemonCore.                           *)
Routes(w) ==
  /\ clip[w].step = "fires"
  /\ Becomes(w, Resting)
  /\ UNCHANGED <<machine, file, up, session, selector, current, baked>>

(* The second listen, in the language of confirm_pass_language().           *)
ConfirmPassLanguage ==
  IF ~Detects(policy) THEN policy.pinned
  ELSE IF lastChoice # None THEN lastChoice
  ELSE FallbackLanguage(policy, lastConfident)

ConfirmPass(w) ==
  /\ clip[w].step = "borderline"
  /\ OnMlx => MlxIsFree
  /\ Becomes(w, [step |-> "confirming", alone |-> clip[w].alone, choice |-> clip[w].choice,
                 first |-> clip[w].first, language |-> ConfirmPassLanguage])
  /\ UNCHANGED <<machine, file, up, session, selector, current, baked>>

(* _finish_confirm_pass: unless it is confirmed, the user must say it again.*)
Ends(w) ==
  /\ clip[w].step = "confirming"
  /\ \/ Becomes(w, Resting)
     \/ /\ current = w
        /\ \E said \in Heard : \E armed \in BOOLEAN :
             LET decision == Confirm(clip[w].first, [said EXCEPT !.short = TRUE], armed)
             IN decision.kind = "fire" /\ Fires(w, said, decision, clip[w].first)
  /\ UNCHANGED <<machine, file, up, session, selector, current, baked>>

(* An engine that fails to load or to transcribe.  MLX is left for the CPU  *)
(* for the rest of the session and the clip's pass begins again.            *)
Again(c) == IF c.step \in {"called", "heard", "running"}
            THEN [step |-> "called", alone |-> c.alone]
            ELSE [step |-> "borderline", alone |-> c.alone, choice |-> c.choice,
                  first |-> c.first]
Fails(w) ==
  /\ Under(w)
  /\ IF OnMlx THEN switched' = TRUE /\ Becomes(w, Again(clip[w]))
              ELSE UNCHANGED switched /\ Becomes(w, Resting)
  /\ UNCHANGED <<machine, file, up, conf, protected, reason, engine, policy, selector,
                 current, baked>>

ClipStep(w) ==
  \/ Begins(w) \/ Hears(w) \/ MlxHearsNothing(w) \/ Chooses(w) \/ Answers(w)
  \/ Routes(w) \/ ConfirmPass(w) \/ Ends(w) \/ Fails(w)

Next ==
  \/ MachineChanges \/ UserEdits \/ Starts \/ Stops \/ SavesSetting
  \/ \E w \in Clips : ClipStep(w)

Spec == Init /\ [][Next]_vars

-----------------------------------------------------------------------------
(* Properties.                                                              *)

(* ADR-0009, cuda_presence.py ("must never claim a GPU CTranslate2 would    *)
(* reject"): an engine the program chose itself, on a first run, for a      *)
(* broken file or in place of an absent GPU, can be run on this machine.    *)
(* The same holds as long as nobody edits what the first run wrote, however *)
(* the machine changes.  Not so where CUDA counts the card but the          *)
(* libraries for it were not installed, or it lacks half precision: no      *)
(* probe looks, the first run writes cuda, and no CPU takes its place.      *)
ChosenEngineRuns ==
  up /\ (protected \/ reason # "none" \/ baked.state = "yes") =>
    Runnable(Engine, machine) \/ LacksRuntime(Engine, machine)

(* "restore the GPU to use it again": sessions on the CPU, and settings     *)
(* saved during them, leave the configured engine as it is; back on the     *)
(* machine of the first run, the daemon uses the engine of the first run.   *)
GpuComesBack ==
  up /\ baked.state = "yes" /\ machine = baked.machine => engine = baked.engine

(* A clip is transcribed in a language the session's rule allows, and one   *)
(* that was not detected with confidence in the language last detected so,  *)
(* whichever worker and engine heard it.  Its confirm pass listens to the   *)
(* same audio again in the same language, if no other clip was at work at   *)
(* any time since this one was begun.                                       *)
LanguageIsKept ==
  \A w \in Clips :
    /\ clip[w].step = "heard" =>
         LET choice == ChooseLanguage(policy, clip[w].probabilities, clip[w].speech,
                                      lastConfident)
         IN /\ policy.preferred # <<>> => choice.language \in Range(policy.preferred)
            /\ choice.reason = "fallback" /\ sure # None => choice.language = sure
    /\ clip[w].step = "confirming" /\ clip[w].alone =>
         clip[w].language = clip[w].choice.language

(* A word that stands in the lexicon, and that no warning of the start names,*)
(* is safe to say: exactly heard, in either pass, armed or not, in whatever *)
(* quality, it never runs another action than its own (collisions.py: "a    *)
(* missed one costs a wrong Trigger Fire").  A command of the second listen *)
(* is one that the first thought possible.                                  *)
CommandsAreMeant ==
  \A w \in Clips : clip[w].step = "fires" =>
    /\ \A e \in Builtins \union Transforms :
         clip[w].said.text = <<e.word>> /\ ~Warned(e.word) => clip[w].action = e.action
    /\ clip[w].first # {} => clip[w].action \in clip[w].first

(* Types of the variables.                                                  *)
TypeOK ==
  /\ machine \in Machines /\ up \in BOOLEAN /\ protected \in BOOLEAN
  /\ switched \in BOOLEAN
  /\ reason \in {"none", "cuda", "mlx"}
  /\ {lastConfident, lastChoice, sure} \subseteq Codes \union {None}
  /\ current \in Clips \union {None}
=============================================================================
