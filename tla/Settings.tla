------------------------------ MODULE Settings ------------------------------
(***************************************************************************)
(* The thresholds of firmware/main/settings.c: a copy in RAM that every    *)
(* task reads, a blob in flash (NVS) that a boot loads, and the PUT        *)
(* handler of api.c that patches, sanitizes, applies and persists them.    *)
(* The server runs one handler at a time, so one request is in progress at *)
(* most; a reset may come between any two of its steps.                    *)
(***************************************************************************)
EXTENDS Integers

CONSTANTS
  START_DEFAULT_X10, STOP_DEFAULT_X10, CRITICAL_DEFAULT_X10,
  START_MIN_X10, START_MAX_X10,
  STOP_MIN_X10,
  HYSTERESIS_MIN_X10,        \* stop stays at least this far below start
  CRITICAL_MARGIN_MIN_X10,   \* critical stays at least this far above start
  CRITICAL_MAX_X10,
  Patches,                   \* what a request may ask for
  StoredBlobs,               \* what an earlier firmware may have left in flash
  NoBlob, NoValue            \* an empty flash, a field the request leaves out

SettingsT == [start_x10: Int, stop_x10: Int, critical_x10: Int]

Patch == LET Value == Int \cup {NoValue}
         IN  [start_x10: Value, stop_x10: Value, critical_x10: Value]

ASSUME SettingsConstants ==
  /\ {START_DEFAULT_X10, STOP_DEFAULT_X10, CRITICAL_DEFAULT_X10} \subseteq Int
  /\ {START_MIN_X10, START_MAX_X10, STOP_MIN_X10, CRITICAL_MAX_X10} \subseteq Int
  /\ {HYSTERESIS_MIN_X10, CRITICAL_MARGIN_MIN_X10} \subseteq Nat \ {0}
  /\ START_MIN_X10 <= START_MAX_X10
  /\ STOP_MIN_X10 <= START_MIN_X10 - HYSTERESIS_MIN_X10
  /\ START_MAX_X10 + CRITICAL_MARGIN_MIN_X10 <= CRITICAL_MAX_X10
  /\ Patches \subseteq Patch
  /\ StoredBlobs \subseteq SettingsT
  /\ NoBlob \notin SettingsT
  /\ NoValue \notin Int

VARIABLES
  s_settings,   \* the thresholds in RAM
  nvs,          \* the blob in flash, or NoBlob
  pc,           \* where the request is: "idle", "set", "persist" or "answer"
  in_out,       \* the request's own copy of the thresholds
  asked,        \* history: what the request asks for, until it is applied
  err,          \* whether the last save since boot failed
  promised      \* history: what the last 200 answer reported, or NoBlob

vars == <<s_settings, nvs, pc, in_out, asked, err, promised>>

-----------------------------------------------------------------------------
clamp(v, lo, hi) == IF v < lo THEN lo ELSE IF v > hi THEN hi ELSE v

Unasked == [start_x10 |-> NoValue, stop_x10 |-> NoValue, critical_x10 |-> NoValue]

Thresholds(start, stop, critical) ==
  [start_x10 |-> start, stop_x10 |-> stop, critical_x10 |-> critical]

SlipSanitizeAsRequested(s) ==
  LET start == clamp(s.start_x10, START_MIN_X10, START_MAX_X10)
  IN  Thresholds(start,
                 clamp(s.stop_x10, STOP_MIN_X10, start - HYSTERESIS_MIN_X10),
                 clamp(s.critical_x10, s.start_x10 + CRITICAL_MARGIN_MIN_X10, CRITICAL_MAX_X10))

(* The start threshold wins: stop and critical keep their margins from it. *)
sanitize(s) ==
  LET start == clamp(s.start_x10, START_MIN_X10, START_MAX_X10)
  IN  Thresholds(start,
                 clamp(s.stop_x10, STOP_MIN_X10, start - HYSTERESIS_MIN_X10),
                 clamp(s.critical_x10, start + CRITICAL_MARGIN_MIN_X10, CRITICAL_MAX_X10))

Defaults == Thresholds(START_DEFAULT_X10, STOP_DEFAULT_X10, CRITICAL_DEFAULT_X10)

(* What settings_init brings into force: nothing it finds can fail it.     *)
Load(blob) == sanitize(IF blob = NoBlob THEN Defaults ELSE blob)

SlipPatchedWhole(s, patch) == patch

Patched(s, patch) ==
  LET Asked(new, old) == IF new = NoValue THEN old ELSE new
  IN  Thresholds(Asked(patch.start_x10, s.start_x10),
                 Asked(patch.stop_x10, s.stop_x10),
                 Asked(patch.critical_x10, s.critical_x10))

-----------------------------------------------------------------------------
Init ==
  /\ nvs \in StoredBlobs \cup {NoBlob}
  /\ s_settings = Load(nvs)
  /\ pc = "idle"
  /\ in_out = s_settings
  /\ asked = Unasked
  /\ err = FALSE
  /\ promised = NoBlob

SlipGetDefaults(patch) ==
  /\ pc = "idle"
  /\ pc' = "set"
  /\ in_out' = Patched(Defaults, patch)
  /\ asked' = patch
  /\ UNCHANGED <<s_settings, nvs, err, promised>>

(* apply_settings: settings_get and the fields of the request.             *)
Get(patch) ==
  /\ pc = "idle"
  /\ pc' = "set"
  /\ in_out' = Patched(s_settings, patch)
  /\ asked' = patch
  /\ UNCHANGED <<s_settings, nvs, err, promised>>

(* settings_set: sanitized, and effective even if saving fails.            *)
Apply ==
  /\ pc = "set"
  /\ pc' = "persist"
  /\ in_out' = sanitize(in_out)
  /\ asked' = Unasked
  /\ s_settings' = in_out'
  /\ promised' = NoBlob
  /\ UNCHANGED <<nvs, err>>

Save ==
  /\ pc = "persist"
  /\ pc' = "answer"
  /\ nvs' = in_out
  /\ err' = FALSE
  /\ UNCHANGED <<s_settings, in_out, asked, promised>>

SlipSaveFailsUnnoticed ==
  /\ pc = "persist"
  /\ pc' = "answer"
  /\ nvs' \in {nvs, in_out}
  /\ err' = FALSE
  /\ UNCHANGED <<s_settings, in_out, asked, promised>>

(* Opening, writing or committing failed; the flash holds the old blob, or *)
(* the new one when only the commit failed.                                *)
SaveFails ==
  /\ pc = "persist"
  /\ pc' = "answer"
  /\ nvs' \in {nvs, in_out}
  /\ err' = TRUE
  /\ UNCHANGED <<s_settings, in_out, asked, promised>>

SlipAnswerAlwaysOk ==
  /\ pc = "answer"
  /\ pc' = "idle"
  /\ promised' = s_settings
  /\ UNCHANGED <<s_settings, nvs, in_out, asked, err>>

(* 200 with the state document, or 500.                                    *)
Answer ==
  /\ pc = "answer"
  /\ pc' = "idle"
  /\ promised' = IF err THEN promised ELSE s_settings
  /\ UNCHANGED <<s_settings, nvs, in_out, asked, err>>

(* A reset drops the request and loads the blob; an interrupted write may  *)
(* or may not have reached the flash.                                      *)
Reboot ==
  /\ nvs' \in {nvs} \cup (IF pc = "persist" THEN {in_out} ELSE {})
  /\ s_settings' = Load(nvs')
  /\ pc' = "idle"
  /\ err' = FALSE
  /\ asked' = Unasked
  /\ UNCHANGED <<in_out, promised>>

(* The boot found the flash unusable and erased it (hi_nvs_init).          *)
EraseAndReboot ==
  /\ nvs' = NoBlob
  /\ s_settings' = Load(NoBlob)
  /\ pc' = "idle"
  /\ promised' = NoBlob
  /\ err' = FALSE
  /\ asked' = Unasked
  /\ UNCHANGED in_out

Put == \E patch \in Patches : Get(patch)

Next == Put \/ Apply \/ Save \/ SaveFails \/ Answer \/ Reboot \/ EraseAndReboot

Spec == Init /\ [][Next]_vars

-----------------------------------------------------------------------------
TypeOK ==
  /\ s_settings \in SettingsT
  /\ nvs \in SettingsT \cup {NoBlob}
  /\ pc \in {"idle", "set", "persist", "answer"}
  /\ in_out \in SettingsT
  /\ asked \in Patches \cup {Unasked}
  /\ err \in BOOLEAN
  /\ promised \in SettingsT \cup {NoBlob}

Sane(s) ==
  /\ s.start_x10 \in START_MIN_X10..START_MAX_X10
  /\ s.stop_x10 >= STOP_MIN_X10
  /\ s.stop_x10 + HYSTERESIS_MIN_X10 <= s.start_x10
  /\ s.start_x10 + CRITICAL_MARGIN_MIN_X10 <= s.critical_x10
  /\ s.critical_x10 <= CRITICAL_MAX_X10

(* Whatever a request asks for and whatever a boot finds in flash, the     *)
(* thresholds that the control task reads keep their order and margins.    *)
AlwaysSane == Sane(s_settings)

(* What a 200 answer reported stays in force until a later request takes   *)
(* effect: through any number of resets, and through later requests that   *)
(* were cut off before they were applied.                                  *)
AnsweredInForce == promised # NoBlob => s_settings = promised

(* The thresholds in force and those a reset would bring differ only while *)
(* a request is being saved, or after one whose saving failed.             *)
UnsavedIsKnown == s_settings # Load(nvs) => pc = "persist" \/ err

(* A request that leaves start alone leaves what else it does not ask for  *)
(* as it was, whatever it asks of the rest; one that moves start may push  *)
(* the others to keep their margins.                                       *)
UnaskedKept ==
  [][pc = "set" /\ pc' = "persist" /\ asked.start_x10 = NoValue
       => \A field \in DOMAIN asked :
            asked[field] = NoValue => s_settings'[field] = s_settings[field]]_vars

(* The inductive invariant: the three copies agree wherever no save is due.*)
IInv ==
  /\ TypeOK
  /\ AlwaysSane
  /\ AnsweredInForce
  /\ UnsavedIsKnown
  /\ pc \in {"persist", "answer"} => s_settings = in_out /\ promised = NoBlob
  /\ pc = "set" => in_out = Patched(s_settings, asked)
  /\ pc = "answer" /\ ~err => Load(nvs) = s_settings
  /\ promised # NoBlob => Load(nvs) = promised

=============================================================================
