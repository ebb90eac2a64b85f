--------------------------- MODULE SettingsProofs ---------------------------
(***************************************************************************)
(* Proofs about Settings: what sanitize returns for every integer input,   *)
(* and the invariant that carries the properties of the stored thresholds. *)
(***************************************************************************)
EXTENDS Settings, TLAPS

LEMMA ClampBounds ==
  ASSUME NEW v \in Int, NEW lo \in Int, NEW hi \in Int, lo <= hi
  PROVE  /\ clamp(v, lo, hi) \in lo..hi
         /\ v \in lo..hi => clamp(v, lo, hi) = v
  BY DEF clamp

(* sanitize accepts any three integers and returns ordered thresholds with *)
(* their margins; what is already so it leaves alone.                      *)
THEOREM SanitizeIsSane ==
  ASSUME NEW s \in SettingsT
  PROVE  sanitize(s) \in SettingsT /\ Sane(sanitize(s))
<1> DEFINE start == clamp(s.start_x10, START_MIN_X10, START_MAX_X10)
           stop == clamp(s.stop_x10, STOP_MIN_X10, start - HYSTERESIS_MIN_X10)
           critical == clamp(s.critical_x10, start + CRITICAL_MARGIN_MIN_X10, CRITICAL_MAX_X10)
<1>1. s.start_x10 \in Int /\ s.stop_x10 \in Int /\ s.critical_x10 \in Int
  BY DEF SettingsT
<1>2. start \in START_MIN_X10..START_MAX_X10
  BY <1>1, ClampBounds, SettingsConstants
<1> HIDE DEF start
<1>3. stop \in STOP_MIN_X10..(start - HYSTERESIS_MIN_X10)
  <2>1. /\ STOP_MIN_X10 \in Int /\ start - HYSTERESIS_MIN_X10 \in Int
        /\ STOP_MIN_X10 <= start - HYSTERESIS_MIN_X10
    BY <1>2, SettingsConstants
  <2> QED BY <1>1, <2>1, ClampBounds
<1>4. critical \in (start + CRITICAL_MARGIN_MIN_X10)..CRITICAL_MAX_X10
  <2>1. /\ start + CRITICAL_MARGIN_MIN_X10 \in Int /\ CRITICAL_MAX_X10 \in Int
        /\ start + CRITICAL_MARGIN_MIN_X10 <= CRITICAL_MAX_X10
    BY <1>2, SettingsConstants
  <2> QED BY <1>1, <2>1, ClampBounds
<1>5. sanitize(s) = [start_x10 |-> start, stop_x10 |-> stop, critical_x10 |-> critical]
  BY DEF sanitize, Thresholds, start
<1> HIDE DEF stop, critical
<1>6. start \in Int /\ stop \in Int /\ critical \in Int
  BY <1>2, <1>3, <1>4, SettingsConstants
<1>7. sanitize(s) \in SettingsT
  BY <1>5, <1>6 DEF SettingsT
<1>8. Sane(sanitize(s))
  BY <1>2, <1>3, <1>4, <1>5, <1>6, SettingsConstants DEF Sane
<1> QED BY <1>7, <1>8

(* Loading what was saved gives back what was in force when it was saved.  *)
THEOREM SanitizeKeepsSane ==
  ASSUME NEW s \in SettingsT, Sane(s)
  PROVE  sanitize(s) = s
<1>1. /\ s.start_x10 \in Int /\ s.stop_x10 \in Int /\ s.critical_x10 \in Int
      /\ HYSTERESIS_MIN_X10 \in Int /\ CRITICAL_MARGIN_MIN_X10 \in Int
  BY SettingsConstants DEF SettingsT
<1>2. clamp(s.start_x10, START_MIN_X10, START_MAX_X10) = s.start_x10
  BY <1>1, SettingsConstants DEF Sane, clamp
<1>3. clamp(s.stop_x10, STOP_MIN_X10, s.start_x10 - HYSTERESIS_MIN_X10) = s.stop_x10
  BY <1>1, SettingsConstants DEF Sane, clamp
<1>4. clamp(s.critical_x10, s.start_x10 + CRITICAL_MARGIN_MIN_X10, CRITICAL_MAX_X10)
        = s.critical_x10
  BY <1>1, SettingsConstants DEF Sane, clamp
<1>5. sanitize(s) = [start_x10 |-> s.start_x10, stop_x10 |-> s.stop_x10,
                     critical_x10 |-> s.critical_x10]
  BY <1>2, <1>3, <1>4 DEF sanitize, Thresholds
<1> QED BY <1>5 DEF SettingsT

(* What the pump logic assumes of its thresholds (PumpLogic!ConfigsAreSane)*)
(* follows from the margins, as long as an overheat ends above start.      *)
THEOREM SaneForTheLogic ==
  ASSUME NEW s \in SettingsT, Sane(s), NEW clear \in Nat, clear < CRITICAL_MARGIN_MIN_X10
  PROVE  s.stop_x10 < s.start_x10 /\ s.start_x10 < s.critical_x10 - clear
  BY SettingsConstants DEF Sane, SettingsT

-----------------------------------------------------------------------------
LEMMA LoadIsSane ==
  ASSUME NEW blob \in SettingsT \cup {NoBlob}
  PROVE  Load(blob) \in SettingsT /\ Sane(Load(blob))
<1>1. Defaults \in SettingsT
  BY SettingsConstants DEF Defaults, Thresholds, SettingsT
<1> QED BY <1>1, SanitizeIsSane DEF Load

LEMMA LoadKeepsSane ==
  ASSUME NEW s \in SettingsT, Sane(s)
  PROVE  Load(s) = s
  BY SettingsConstants, SanitizeKeepsSane DEF Load

LEMMA PatchedType ==
  ASSUME NEW s \in SettingsT, NEW patch \in Patches \cup {Unasked}
  PROVE  patch \in Patch /\ Patched(s, patch) \in SettingsT
<1>1. /\ patch.start_x10 \in Int \cup {NoValue}
      /\ patch.stop_x10 \in Int \cup {NoValue}
      /\ patch.critical_x10 \in Int \cup {NoValue}
  BY SettingsConstants DEF Patch, Unasked
<1>2. patch \in Patch
  BY SettingsConstants DEF Patch, Unasked
<1> QED BY <1>1, <1>2 DEF Patched, Thresholds, SettingsT

LEMMA InitHolds == Init => IInv
<1> SUFFICES ASSUME Init PROVE IInv
  OBVIOUS
<1>1. nvs \in SettingsT \cup {NoBlob}
  BY SettingsConstants DEF Init
<1>2. s_settings \in SettingsT /\ Sane(s_settings)
  BY <1>1, LoadIsSane DEF Init
<1> QED BY <1>1, <1>2 DEF Init, IInv, TypeOK, AlwaysSane, AnsweredInForce, UnsavedIsKnown

LEMMA NextPreserves == IInv /\ [Next]_vars => IInv'
<1> SUFFICES ASSUME IInv, [Next]_vars PROVE IInv'
  OBVIOUS
<1> USE DEF IInv, TypeOK, AlwaysSane, AnsweredInForce, UnsavedIsKnown
<1>1. ASSUME NEW patch \in Patches, Get(patch)
      PROVE  IInv'
  BY <1>1, PatchedType DEF Get
<1>2. CASE Apply
  <2>1. in_out' \in SettingsT /\ Sane(in_out')
    BY <1>2, SanitizeIsSane DEF Apply
  <2> QED BY <1>2, <2>1 DEF Apply
<1>3. CASE Save
  <2>1. Load(nvs') = s_settings
    BY <1>3, LoadKeepsSane DEF Save
  <2> QED BY <1>3, <2>1 DEF Save
<1>4. CASE SaveFails
  BY <1>4 DEF SaveFails
<1>5. CASE Answer
  <2>1. CASE err
    BY <1>5, <2>1 DEF Answer
  <2>2. CASE ~err
    BY <1>5, <2>2 DEF Answer
  <2> QED BY <2>1, <2>2
<1>6. CASE Reboot
  <2>1. nvs' \in SettingsT \cup {NoBlob} /\ (nvs' = nvs \/ pc = "persist")
    BY <1>6 DEF Reboot
  <2>2. s_settings' \in SettingsT /\ Sane(s_settings')
    BY <1>6, <2>1, LoadIsSane DEF Reboot
  <2> QED BY <1>6, <2>1, <2>2 DEF Reboot
<1>7. CASE EraseAndReboot
  <2>1. s_settings' \in SettingsT /\ Sane(s_settings')
    BY <1>7, LoadIsSane DEF EraseAndReboot
  <2> QED BY <1>7, <2>1 DEF EraseAndReboot
<1>8. CASE UNCHANGED vars
  BY <1>8 DEF vars
<1> QED BY <1>1, <1>2, <1>3, <1>4, <1>5, <1>6, <1>7, <1>8 DEF Next, Put

(* The thresholds in force are always sane, and what a 200 answer reported *)
(* stays in force and in flash until a later request takes effect.         *)
THEOREM Invariant == Spec => []IInv
  BY InitHolds, NextPreserves, PTL DEF Spec

(* Whatever is asked for or found in flash, the thresholds in force are    *)
(* ordered and keep their margins.                                         *)
THEOREM InForceIsSane == Spec => []AlwaysSane
<1>1. IInv => AlwaysSane
  BY DEF IInv
<1> QED BY <1>1, Invariant, PTL

(* An answered request is durable: it survives resets and requests that    *)
(* were never applied.                                                     *)
THEOREM AnsweredIsDurable == Spec => []AnsweredInForce
<1>1. IInv => AnsweredInForce
  BY DEF IInv
<1> QED BY <1>1, Invariant, PTL

(* RAM and flash differ only while saving, or after a save that failed.    *)
THEOREM UnsavedOnlyOnError == Spec => []UnsavedIsKnown
<1>1. IInv => UnsavedIsKnown
  BY DEF IInv
<1> QED BY <1>1, Invariant, PTL

LEMMA UnaskedFieldKept ==
  ASSUME NEW s \in SettingsT, Sane(s), NEW patch \in Patch, patch.start_x10 = NoValue
  PROVE  LET set == sanitize(Patched(s, patch))
         IN  /\ set.start_x10 = s.start_x10
             /\ patch.stop_x10 = NoValue => set.stop_x10 = s.stop_x10
             /\ patch.critical_x10 = NoValue => set.critical_x10 = s.critical_x10
<1> DEFINE asks == Patched(s, patch)
<1>1. /\ asks.start_x10 = s.start_x10
      /\ patch.stop_x10 = NoValue => asks.stop_x10 = s.stop_x10
      /\ patch.critical_x10 = NoValue => asks.critical_x10 = s.critical_x10
  BY DEF Patched, Thresholds
<1>2. /\ s.start_x10 \in Int /\ s.stop_x10 \in Int /\ s.critical_x10 \in Int
      /\ HYSTERESIS_MIN_X10 \in Int /\ CRITICAL_MARGIN_MIN_X10 \in Int
  BY SettingsConstants DEF SettingsT
<1>3. clamp(s.start_x10, START_MIN_X10, START_MAX_X10) = s.start_x10
  BY <1>2, SettingsConstants DEF Sane, clamp
<1>4. clamp(s.stop_x10, STOP_MIN_X10, s.start_x10 - HYSTERESIS_MIN_X10) = s.stop_x10
  BY <1>2, SettingsConstants DEF Sane, clamp
<1>5. clamp(s.critical_x10, s.start_x10 + CRITICAL_MARGIN_MIN_X10, CRITICAL_MAX_X10)
        = s.critical_x10
  BY <1>2, SettingsConstants DEF Sane, clamp
<1> HIDE DEF asks
<1>6. sanitize(asks) = [start_x10 |-> s.start_x10,
         stop_x10 |-> clamp(asks.stop_x10, STOP_MIN_X10, s.start_x10 - HYSTERESIS_MIN_X10),
         critical_x10 |-> clamp(asks.critical_x10, s.start_x10 + CRITICAL_MARGIN_MIN_X10,
                                CRITICAL_MAX_X10)]
  BY <1>1, <1>3 DEF sanitize, Thresholds
<1> QED BY <1>1, <1>4, <1>5, <1>6 DEF asks

(* A request that leaves start alone leaves alone whatever else it does    *)
(* not ask for.                                                            *)
THEOREM UnaskedIsKept == Spec => UnaskedKept
<1> DEFINE Kept == pc = "set" /\ pc' = "persist" /\ asked.start_x10 = NoValue
                     => \A field \in DOMAIN asked :
                          asked[field] = NoValue => s_settings'[field] = s_settings[field]
<1>1. IInv /\ [Next]_vars => [Kept]_vars
  <2> SUFFICES ASSUME IInv, Next, pc = "set", pc' = "persist", asked.start_x10 = NoValue
               PROVE  Kept
    OBVIOUS
  <2>1. Apply
    BY DEF Next, Put, Get, Save, SaveFails, Answer, Reboot, EraseAndReboot
  <2>2. asked \in Patch /\ s_settings \in SettingsT /\ Sane(s_settings)
    BY PatchedType DEF IInv, TypeOK, AlwaysSane
  <2>3. s_settings' = sanitize(Patched(s_settings, asked))
    BY <2>1 DEF IInv, Apply
  <2>4. DOMAIN asked = {"start_x10", "stop_x10", "critical_x10"}
    BY <2>2 DEF Patch
  <2> QED BY <2>2, <2>3, <2>4, UnaskedFieldKept
<1> QED BY <1>1, Invariant, PTL DEF Spec, UnaskedKept

=============================================================================
