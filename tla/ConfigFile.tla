----------------------------- MODULE ConfigFile -----------------------------
(* config.py: what the daemon makes of config.toml and what it writes back. *)
(* A file is what the loader can tell apart: there is none, it is text that *)
(* does not parse, or a table with a raw value for each setting.  Settings  *)
(* are represented by three, one of each kind the program treats in a way   *)
(* of its own: "autostart", which the tray's toggle writes; "device", which *)
(* its microphone menu writes and which may be unset; and "other", which    *)
(* only the user's editor changes.                                          *)
EXTENDS Naturals

CONSTANTS
  Microphones,   \* the names of input devices a user may pick
  MaxEdits,      \* the user's edits of the file are numbered up to this
  AwkwardNames,  \* the names that hold a backslash or a quote
  AwkwardEdits   \* the edits whose setting is a text that holds one

NoDevice == "no device"
Misread == "misread"       \* a text that is the name of no microphone
Edits == 0..MaxEdits       \* 0 is the default, and a text misread

(* None of the words that stand for a raw value is a microphone's name.     *)
ASSUME ConfigAssumption ==
  /\ MaxEdits \in Nat
  /\ {NoDevice, Misread, "absent", "wrong type", "invalid"} \cap Microphones = {}
  /\ AwkwardNames \subseteq Microphones /\ AwkwardEdits \subseteq Edits \ {0}

-----------------------------------------------------------------------------
(* The tuned values, with the defaults of the dataclasses.                  *)
Config == [autostart : {"on", "off"}, device : Microphones \union {NoDevice, Misread},
           other : Edits]
DefaultConfig == [autostart |-> "on", device |-> NoDevice, other |-> 0]

(* A raw value of a TOML table: missing, of a wrong type, of the right type *)
(* but refused by the range and enumeration checks, or good.                *)
Raw(good) == {"absent", "wrong type", "invalid"} \union good
Tables == [autostart : Raw({"on", "off"}) \ {"invalid"},
           device : Raw(Microphones \union {Misread}) \ {"invalid"},
           other : [is : Raw({"good"}), edit : Edits]]
File == [state : {"missing"}] \union [state : {"broken"}, edit : Edits] \union
        [state : {"table"}, table : Tables]

Missing == [state |-> "missing"]
Broken(edit) == [state |-> "broken", edit |-> edit]
TableFile(t) == [state |-> "table", table |-> t]

(* An empty file parses: a table without a section.                         *)
EmptyFile == TableFile([autostart |-> "absent", device |-> "absent",
                        other |-> [is |-> "absent", edit |-> 0]])

(* _coerce_type and _value_is_valid.                                        *)
Refused(raw) == raw \in {"wrong type", "invalid"}

(* _check_field over a section's fields: what is absent or refused is the   *)
(* default, the rest is taken.                                              *)
CheckField(raw, value, default) ==
  IF raw = "absent" \/ Refused(raw) THEN default ELSE value

BuildConfig(t) ==
  [autostart |-> CheckField(t.autostart, t.autostart, DefaultConfig.autostart),
   device    |-> CheckField(t.device, t.device, DefaultConfig.device),
   other     |-> CheckField(t.other.is, t.other.edit, DefaultConfig.other)]

(* Each refused value is a ConfigProblem; an unknown key is none.           *)
Problems(t) == {k \in {"autostart", "device"} : Refused(t[k])} \union
               (IF Refused(t.other.is) THEN {"other"} ELSE {})

(* ConfigLoadReport of a load; "file" is the problem with an empty key.     *)
Report(f) == CASE f.state = "broken" -> {"file"}
               [] f.state = "table"  -> Problems(f.table)
               [] OTHER -> {}

WriteProtectedIfBroken(report) == "file" \in report
WriteProtected(report) == report # {}

(* load_config_with_report: a missing and an unreadable file give the       *)
(* defaults of this machine.                                                *)
LoadConfig(f) == IF f.state = "table" THEN BuildConfig(f.table) ELSE DefaultConfig

(* _serialize_toml writes every setting; one without a value is left out,   *)
(* and what the user wrote beside the settings is gone.  _toml_value puts a *)
(* text between quotes as it is: a backslash or a quote in it makes it      *)
(* another text, or a file that does not parse.                             *)
Rewritten(conf) ==
  TableFile([autostart |-> conf.autostart,
             device |-> CASE conf.device = NoDevice -> "absent"
                          [] conf.device \in AwkwardNames -> Misread
                          [] OTHER -> conf.device,
             other |-> [is |-> "good",
                        edit |-> IF conf.other \in AwkwardEdits THEN 0 ELSE conf.other]])

Plain(conf) ==
  conf.device \notin AwkwardNames \union {Misread} /\ conf.other \notin AwkwardEdits

(* The files a write may leave.                                             *)
Serialize(conf) ==
  {Rewritten(conf)} \union IF Plain(conf) THEN {} ELSE {Broken(conf.other)}

(* The user's edit that the text of a file still shows (for properties).    *)
Shows(f) == CASE f.state = "missing" -> 0
              [] f.state = "broken"  -> f.edit
              [] f.state = "table"   -> f.table.other.edit
=============================================================================
