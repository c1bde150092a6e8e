------------------------------ MODULE Language ------------------------------
(* transcribe/language.py: the language a clip is transcribed in.  The      *)
(* probabilities Whisper gives to languages are tenths.                     *)
EXTENDS Integers, Sequences, SequencesExt

CONSTANT Codes     \* the codes Whisper knows, of which "en" is the default

None == "none"
AUTO == "auto"
DefaultLanguage == "en"
ASSUME LanguageAssumption == DefaultLanguage \in Codes /\ {None, AUTO} \cap Codes = {}

Threshold == 6     \* LANGUAGE_CONFIDENCE_THRESHOLD
Speech == {"short", "long", "unknown"}
Undetected == [c \in Codes |-> 0]

-----------------------------------------------------------------------------
(* The rule of a session, from language and languages of [model].           *)
Policy(pinned, preferred, ui) == [pinned |-> pinned, preferred |-> preferred, ui |-> ui]

(* normalise_language_list, and what language_policy keeps of it: of equal  *)
(* codes the first, and none that Whisper does not know.                    *)
Prefer(out, v) == IF v \notin Codes \/ v \in Range(out) THEN out ELSE Append(out, v)
PreferredLanguages(languages) == FoldLeft(Prefer, <<>>, languages)

LanguagePolicy(language, languages, ui) ==
  LET preferred == PreferredLanguages(languages)
  IN IF preferred # <<>> THEN Policy(None, preferred, None)
     ELSE IF language = AUTO THEN Policy(None, <<>>, IF ui \in Codes THEN ui ELSE None)
     ELSE IF language \in Codes THEN Policy(language, <<>>, None)
     ELSE Policy(DefaultLanguage, <<>>, None)

Detects(policy) == policy.pinned = None

Allows(policy, code) ==
  IF policy.preferred # <<>> THEN code \in Range(policy.preferred) ELSE code \in Codes

NeedsDetection(policy, speech) == Detects(policy) /\ speech # "short"

FallbackLanguage(policy, lastConfident) ==
  IF lastConfident # None /\ Allows(policy, lastConfident) THEN lastConfident
  ELSE IF policy.preferred # <<>> THEN Head(policy.preferred)
  ELSE IF policy.ui # None THEN policy.ui ELSE DefaultLanguage

-----------------------------------------------------------------------------
(* choose_language: sure, or the fallback.                                  *)
Candidates(policy) == IF policy.preferred # <<>> THEN Range(policy.preferred) ELSE Codes

Total(policy, probabilities) ==
  FoldLeft(LAMBDA sum, c : sum + probabilities[c], 0, SetToSeq(Candidates(policy)))

(* The most likely candidate; of equals, the earlier Preferred Language.    *)
Likeliest(policy, probabilities) ==
  {c \in Candidates(policy) :
     \A d \in Candidates(policy) : probabilities[c] >= probabilities[d]}
Winner(policy, probabilities) ==
  LET best == Likeliest(policy, probabilities)
  IN IF policy.preferred = <<>> THEN CHOOSE c \in best : TRUE
     ELSE policy.preferred[SelectInSeq(policy.preferred, LAMBDA c : c \in best)]

(* A Preferred Language is judged by its share among the preferred ones.    *)
Sure(policy, probabilities) ==
  LET p == probabilities[Winner(policy, probabilities)]
  IN IF policy.preferred # <<>> THEN 10 * p >= Threshold * Total(policy, probabilities)
                                ELSE p >= Threshold

Choice(language, reason) == [language |-> language, reason |-> reason]

ChooseLanguage(policy, probabilities, speech, lastConfident) ==
  IF ~Detects(policy) THEN Choice(policy.pinned, "pinned")
  ELSE IF /\ NeedsDetection(policy, speech)
          /\ Total(policy, probabilities) > 0
          /\ Sure(policy, probabilities)
  THEN Choice(Winner(policy, probabilities), "detected")
  ELSE Choice(FallbackLanguage(policy, lastConfident), "fallback")
=============================================================================
