-------------------------------- MODULE Api ---------------------------------
(***************************************************************************)
(* The HTTP API (firmware/main/api.c): requests wait on connections, the   *)
(* server runs one handler at a time, and a handler that changes something *)
(* answers with a status document, for which it copies the controller      *)
(* under s_lock.  The control task goes on between any two of these steps. *)
(*                                                                         *)
(* The thresholds are in Settings; here a request for them only takes its  *)
(* time and may fail.  The state task of MQTT builds the same document on  *)
(* its own (Events).                                                       *)
(*                                                                         *)
(* The controller behind the handlers is the one PumpPromise describes.    *)
(***************************************************************************)
EXTENDS Integers

CONSTANTS
  Worlds,       \* the sets of demands the controller may come to
  Conns,        \* the connections of the page
  STARTS_MOD,   \* the pump starts since boot are counted modulo this (2^32)
  NoRequest,    \* nothing is asked on a connection
  NoDocument    \* no status document yet

VARIABLES
  demands, serving,   \* the controller, see PumpPromise
  starts,             \* s_starts_boot
  conn                \* conn[c]: the request on c and how far its handler is

device == <<demands, serving, starts>>

Pump == INSTANCE PumpPromise

Overrides == {"manual_on", "manual_off"}

(* What each pump command makes of the override.                           *)
Asks == [start |-> {"manual_on"}, stop |-> {"manual_off"}, auto |-> {}]

(* A command is only a "pump" request once its answer is complete.         *)
Commands == {"start", "stop", "auto", "pump"}

(* The controller's part of a status document.                             *)
Document == [demands: SUBSET Pump!Demands, starts: Int]

(* A request is "sent" until its handler runs, "saving" thresholds to      *)
(* flash, "acted" when the change is made, "copied" with the controller's  *)
(* part of the document, "ok" or "error" when it is answered.              *)
Request == [kind: Commands \cup {"status", "events", "settings"},
            stage: {"sent", "saving", "acted", "copied", "ok", "error"},
            doc: Document \cup {NoDocument}]

ASSUME ApiConstants ==
  /\ Worlds \subseteq SUBSET Pump!Demands /\ {} \in Worlds
  /\ STARTS_MOD \in Nat \ {0}
  /\ NoRequest \notin Request
  /\ NoDocument \notin Document

Ask(kind) == [kind |-> kind, stage |-> "sent", doc |-> NoDocument]

At(c, stage) == conn[c] # NoRequest /\ conn[c].stage = stage

InHandler(c) == \E stage \in {"saving", "acted", "copied"} : At(c, stage)

SlipAlwaysFree == TRUE

(* httpd runs one handler at a time.                                       *)
ServerFree == \A c \in Conns : ~InHandler(c)

(* The request on c goes on to a stage. *)
Goes(c, kind, stage, doc) ==
  conn' = [conn EXCEPT ![c] = [kind |-> kind, stage |-> stage, doc |-> doc]]

Taken(c, kinds) == ServerFree /\ At(c, "sent") /\ conn[c].kind \in kinds

status == [demands |-> demands, starts |-> starts]

-----------------------------------------------------------------------------
(* The controller comes to the demands D, and counts a start of the pump.  *)
Decides(D) ==
  /\ D \in Worlds
  /\ Pump!Change(D)
  /\ starts' = IF Pump!Pumping(serving') /\ ~Pump!Pumping(serving)
               THEN (starts + 1) % STARTS_MOD ELSE starts

(* control_manual: the override is replaced and decided on at once; a stop *)
(* is refused while the water is overheated.                               *)
control_manual(override) ==
  /\ ~(override = {"manual_off"} /\ "overheat" \in demands)
  /\ \E D \in Worlds :
       /\ D \cap Overrides = override
       /\ D \ (Overrides \cup {"maintenance"}) = demands \ (Overrides \cup {"maintenance"})
       /\ Decides(D)

(* A tick: it may end an override, but begins none.                        *)
ControlTask ==
  /\ \E D \in Worlds \ {demands} : D \cap Overrides \subseteq demands /\ Decides(D)
  /\ UNCHANGED conn

(* A request that a handler had begun is cut off.                          *)
Restart ==
  /\ Pump!Restart
  /\ starts' = 0
  /\ conn' = [c \in Conns |->
                IF InHandler(c)
                THEN [kind |-> conn[c].kind, stage |-> "error", doc |-> NoDocument]
                ELSE conn[c]]

-----------------------------------------------------------------------------
pump_command(c) ==
  /\ Taken(c, DOMAIN Asks)
  /\ control_manual(Asks[conn[c].kind])
  /\ Goes(c, conn[c].kind, "acted", NoDocument)

Refused(c) ==
  /\ Taken(c, {"stop"})
  /\ "overheat" \in demands
  /\ Goes(c, "pump", "error", NoDocument)
  /\ UNCHANGED device

(* The thresholds are in force before they are saved; the controller makes *)
(* of them what it will in its own time.                                   *)
apply_settings(c) ==
  /\ Taken(c, {"settings"})
  /\ Goes(c, "settings", "saving", NoDocument)
  /\ UNCHANGED device

Saved(c) ==
  /\ At(c, "saving")
  /\ \E outcome \in {"acted", "error"} : Goes(c, conn[c].kind, outcome, NoDocument)
  /\ UNCHANGED device

(* Another client's command, from its first step to its answer: only the   *)
(* control task could tell the steps apart.                                *)
OtherClient ==
  /\ ServerFree
  /\ \E command \in DOMAIN Asks : control_manual(Asks[command])
  /\ UNCHANGED conn

(* api_status_json: control_status, then settings_get, the rest and the    *)
(* answer.                                                                 *)
control_status(c) ==
  /\ At(c, "acted") \/ Taken(c, {"status"})
  /\ Goes(c, conn[c].kind, "copied", status)
  /\ UNCHANGED device

settings_get(c) ==
  /\ At(c, "copied")
  /\ Goes(c, IF conn[c].kind \in Commands THEN "pump" ELSE conn[c].kind, "ok", conn[c].doc)
  /\ UNCHANGED device

events_handler(c) ==
  /\ Taken(c, {"events"})
  /\ Goes(c, "events", "ok", NoDocument)
  /\ UNCHANGED device

Handler(c) == \/ pump_command(c) \/ Refused(c) \/ apply_settings(c) \/ Saved(c)
              \/ control_status(c) \/ settings_get(c) \/ events_handler(c)

-----------------------------------------------------------------------------
(* The answer to a pump command shows that command's override, or that the *)
(* controller has already ended it, and never the override of another      *)
(* client.                                                                 *)
AnswerShowsCommand ==
  \A c \in Conns :
    At(c, "copied") /\ conn[c].kind \in DOMAIN Asks
      => conn[c].doc.demands \cap Overrides \subseteq Asks[conn[c].kind]

=============================================================================
