----------------------------- MODULE Recognizer -----------------------------
(* transform/recognizer.py, collisions.py and prompts.py: the trigger words *)
(* of a session, what the daemon warns of when it starts, and the decision  *)
(* whether an utterance is a command.  A word is as alias.py leaves it; how *)
(* alike two words are is a table of percents, of their letters and of      *)
(* their phonetic keys (phonetic.py).                                       *)
EXTENDS Integers, Sequences, SequencesExt, FiniteSets

CONSTANTS
  Words,        \* what may be an alias or be heard
  Long,         \* those of FUZZY_MIN_ALIAS_LEN letters and more
  LongKey,      \* those whose key has FUZZY_MIN_EQUAL_KEY_LEN symbols and more
  Letters,      \* similarity() of two words ...
  Sounds,       \* ... and of their keys
  PromptFiles,  \* in the order of their names; an ill-formed one has no aliases
  PasteAliases  \* [trigger_words].paste_aliases

Blank == "blank"      \* what normalises to nothing
Paste == "paste"      \* PASTE_ACTION, the word and the action

FUZZY_MAX_TOKENS == 3
FUZZY_STRONG_SCORE == 80
FUZZY_WEAK_SCORE == 70
FUZZY_TIE_MARGIN == 5
COLLISION_SCORE == 60

Percents == [Words \X Words -> 0..100]

(* A file that is called *.md.                                              *)
PromptFile == [name : STRING \ {Paste}, aliases : Seq(Words \union {Blank}), body : STRING]

ASSUME RecognizerAssumption ==
  /\ Paste \in Words /\ Blank \notin Words
  /\ Long \subseteq Words /\ LongKey \subseteq Words
  /\ Letters \in Percents /\ Sounds \in Percents
  /\ \A a, b \in Words : Letters[a, b] = Letters[b, a] /\ Sounds[a, b] = Sounds[b, a]
  /\ PasteAliases \in Seq(Words \union {Blank})
  /\ PromptFiles \in Seq(PromptFile)

-----------------------------------------------------------------------------
(* The lexicon of a session.                                                *)

(* load_prompts: of equal aliases the first is kept.                        *)
Load(entries, file, word) ==
  IF word = Blank \/ \E e \in entries : e.word = word THEN entries
  ELSE entries \union {[word |-> word, file |-> file.name, body |-> file.body]}
LoadedFrom(entries, file) ==
  FoldLeft(LAMBDA es, word : Load(es, file, word), entries, file.aliases)
LoadPrompts == FoldLeft(LoadedFrom, {}, PromptFiles)

Kept(word, file) == \E e \in LoadPrompts : e.word = word /\ e.file = file.name

(* The built-in action's words win over the aliases of prompt files.        *)
BuiltinAliases == {Paste} \union (Range(PasteAliases) \ {Blank})
ShadowedBuiltinAliases == {e \in LoadPrompts : e.word \in BuiltinAliases}
Builtins == {[word |-> w, action |-> Paste, file |-> Paste] : w \in BuiltinAliases}
Transforms == {[word |-> e.word, action |-> e.body, file |-> e.file] :
                 e \in LoadPrompts \ ShadowedBuiltinAliases}
ExactAliases == {e.word : e \in Builtins \union Transforms}

Eligible(armed) == Builtins \union (IF armed THEN Transforms ELSE {})
TriggerWords(armed) == {e.word : e \in Eligible(armed)}

-----------------------------------------------------------------------------
(* decide(): an utterance has its words in [text], some of them blank, the  *)
(* letters of all of them run together in [joined], and whether it was      *)
(* short and recognised with confidence.                                    *)
Utterance ==
  {u \in [text : Seq(Words \union {Blank}), joined : Words \union {Blank},
          short : BOOLEAN, confident : BOOLEAN] :
     \A word \in Words : u.text = <<word>> => u.joined = word}

Larger(a, b) == IF a >= b THEN a ELSE b
SameKey(a, b) == Sounds[a, b] = 100 /\ a \in LongKey /\ b \in LongKey
Score(heard, alias) ==
  IF SameKey(heard, alias) THEN 100 ELSE Larger(Letters[heard, alias], Sounds[heard, alias])

Fire(action) == [kind |-> "fire", actions |-> {action}]
Dictation == [kind |-> "dictation", actions |-> {}]
Borderline(actions) == [kind |-> "borderline", actions |-> actions]

(* Only something short may be a command misheard; and not an alias that is *)
(* followed by more words, which is the beginning of a sentence.            *)
MayBeFuzzy(u) ==
  LET tokens == SelectSeq(u.text, LAMBDA t : t # Blank)
  IN /\ tokens # <<>> /\ Len(tokens) <= FUZZY_MAX_TOKENS /\ u.short
     /\ Len(tokens) > 1 => tokens[1] \notin ExactAliases
     /\ u.joined # Blank

Near(u, armed) ==
  {e \in Eligible(armed) : e.word \in Long /\ Score(u.joined, e.word) >= FUZZY_WEAK_SCORE}

(* The actions of the best score, and of those it does not beat clearly.    *)
Contenders(u, near) ==
  {e.action : e \in {e \in near : \A d \in near :
     Score(u.joined, d.word) - Score(u.joined, e.word) <= FUZZY_TIE_MARGIN}}

DecideFuzzy(u, armed) ==
  LET near == Near(u, armed)
      actions == Contenders(u, near)
      strong == \E e \in near : Score(u.joined, e.word) >= FUZZY_STRONG_SCORE
  IN IF ~MayBeFuzzy(u) \/ near = {} THEN Dictation
     ELSE IF strong /\ u.confident /\ Cardinality(actions) = 1
     THEN [kind |-> "fire", actions |-> actions]
     ELSE Borderline(actions)

Exactly(u, armed) == {e \in Eligible(armed) : u.text = <<e.word>>}

Decide(u, armed) ==
  IF \E e \in Exactly(u, armed) : TRUE
  THEN Fire((CHOOSE e \in Exactly(u, armed) : TRUE).action)
  ELSE DecideFuzzy(u, armed)

(* confirm(): the second listen counts only for what the first one heard.   *)
Confirm(candidates, u, armed) ==
  LET decision == Decide(u, armed)
  IN IF decision.kind = "fire" /\ decision.actions \subseteq candidates
     THEN decision ELSE Borderline(candidates)

-----------------------------------------------------------------------------
(* The warnings of a start: log_trigger_lexicon_warnings and what           *)
(* load_prompts and shadowed_builtin_aliases say.                           *)
SpeltAlike(a, b) ==                    \* fault: the sound is not compared
  a = b \/ (a \in Long /\ b \in Long /\ Letters[a, b] >= COLLISION_SCORE)
SoundAlike(a, b) ==
  \/ a = b
  \/ SameKey(a, b)
  \/ /\ a \in Long /\ b \in Long
     /\ Larger(Letters[a, b], Sounds[a, b]) >= COLLISION_SCORE

Collides(word) ==
  \E a, b \in Builtins \union Transforms :
    a.word = word /\ a.file # b.file /\ SoundAlike(a.word, b.word)
ExactOnly(word) == word \notin Long
Doubled(word) ==
  \E i \in DOMAIN PromptFiles : word \in Range(PromptFiles[i].aliases)
                                 /\ ~Kept(word, PromptFiles[i])
Warned(word) ==
  \/ Collides(word) \/ ExactOnly(word) \/ Doubled(word)
  \/ \E e \in ShadowedBuiltinAliases : e.word = word
=============================================================================
