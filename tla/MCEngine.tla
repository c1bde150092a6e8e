------------------------------ MODULE MCEngine ------------------------------
(* A PC whose card is exchanged, loses its driver, is hidden, is too old    *)
(* for half precision or was installed without the libraries for it, and a  *)
(* Mac that gains or loses the apple-gpu package; three languages.          *)
EXTENDS Engine

MCMachines ==
  {Pc(8, driver, FALSE, TRUE, TRUE) : driver \in {"good", "silent", "old"}} \union
  {Pc(2, "good", FALSE, TRUE, FALSE), Pc(8, "good", FALSE, FALSE, TRUE),
   Pc(8, "good", TRUE, TRUE, TRUE), Pc(0, "silent", FALSE, FALSE, FALSE),
   Mac(TRUE, 14, TRUE, 16), Mac(TRUE, 14, TRUE, 8), Mac(TRUE, 13, TRUE, 16),
   Mac(TRUE, 14, FALSE, 16), Mac(FALSE, 14, FALSE, 16)}

MCSettings ==
  {Section(Row("small", "mlx", "int8_float16"), AUTO, <<>>),
   Section(Row("large", "cuda", "float16"), "zh", <<"zh", "en", "zh">>),
   Section(Row("large", "tpu", "float16"), "zh", <<>>)}

Found(en, zh, de) == [c \in Codes |-> CASE c = "en" -> en [] c = "zh" -> zh [] c = "de" -> de]
MCDetections == {Found(7, 2, 1), Found(2, 3, 5), Found(3, 3, 4), Found(0, 0, 10)}

(* The scores of phonetic.py for these words: of letters, and of keys.      *)
MCWords == {"paste", "insert", "paused", "pate", "polish", "cleanup", "palace"}
MCLong == MCWords \ {"pate"}       \* and the only key of two symbols
Pair(a, b) == {<<a, b>>, <<b, a>>}
Table(scores) == [p \in MCWords \X MCWords |->
  IF p[1] = p[2] THEN 100
  ELSE IF \E s \in scores : p \in s[1] THEN (CHOOSE s \in scores : p \in s[1])[2] ELSE 20]
MCLetters == Table({<<Pair("paste", "paused"), 50>>,
                     <<Pair("paste", "pate"), 80>>,
                     <<Pair("paste", "palace"), 50>>,
                     <<Pair("paused", "pate"), 50>>,
                     <<Pair("pate", "palace"), 50>>})
MCSounds == Table({<<Pair("paste", "paused"), 100>>,
                     <<Pair("paste", "pate"), 66>>,
                     <<Pair("paused", "pate"), 66>>,
                     <<Pair("polish", "palace"), 66>>})

(* notes.md has a word too short, one that sounds like paste, one it takes  *)
(* from polish.md, and the built-in word itself.                            *)
MCPromptFiles ==
  <<[name |-> "broken.md", aliases |-> <<>>, body |-> "none"],
    [name |-> "notes.md", aliases |-> <<"paused", "pate", Blank, "palace", "paste">>, body |-> "n"],
    [name |-> "polish.md", aliases |-> <<"polish", "palace", "cleanup">>, body |-> "p"]>>
MCPasteAliases == <<"insert">>

Said(text, joined, confident) ==
  [text |-> text, joined |-> joined, short |-> TRUE, confident |-> confident]
MCHeard ==
  {Said(<<w>>, w, TRUE) : w \in {"paste", "insert", "paused", "cleanup"}} \union
  {Said(<<"polish">>, "polish", FALSE), Said(<<"paused">>, "paused", FALSE),
   Said(<<"pate", Blank>>, "pate", TRUE), Said(<<"paste", "polish">>, "paused", TRUE)}
=============================================================================
