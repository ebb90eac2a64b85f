-------------------------------- MODULE App ---------------------------------
(***************************************************************************)
(* The page the device serves (firmware/web/app.html): it polls the status *)
(* every three seconds while it is visible, loads the event list when the  *)
(* document looks different, and sends commands and thresholds.  Several   *)
(* requests may be under way at once, and each is answered, or fails, in   *)
(* its own time.                                                           *)
(***************************************************************************)
EXTENDS Api

CONSTANT MaxStrays   \* bound on the timers the page has lost track of

VARIABLES
  shown,     \* state: the last document received
  seen,      \* eventsSeen: the marker of the document the events were loaded for
  timer,     \* the timer in the variable timer is pending
  strays,    \* pending timers that timer no longer refers to
  visible,   \* ~document.hidden
  busy,      \* the page waits for a pump command
  sliding,   \* the slide is being dragged
  raced      \* history: the auto chip was tapped during a drag, and a
             \* command has been under way ever since

page == <<shown, seen, timer, strays>>
slide == <<busy, sliding, raced>>
vars == <<device, conn, page, slide, visible>>

Idle == {c \in Conns : conn[c] = NoRequest}
Pick(S) == CHOOSE c \in S : TRUE

(* A request on a connection, or on one the browser has to spare.          *)
SendOn(c, kind) == conn' = [conn EXCEPT ![c] = Ask(kind)]
Send(kind) == Idle # {} /\ SendOn(Pick(Idle), kind)
Drop(c) == conn' = [conn EXCEPT ![c] = NoRequest]

(* The pump's state is told by the reason, which comes first in it.        *)
Marker(doc) ==
  [reason |-> Pump!Top(doc.demands),
   manual |-> doc.demands \cap Overrides,
   sensor_failed |-> "sensor_fail" \in doc.demands,
   overheat |-> "overheat" \in doc.demands,
   starts |-> doc.starts]

Init ==
  /\ Pump!Init
  /\ starts = 0
  /\ \E c \in Conns : conn = [d \in Conns |-> IF d = c THEN Ask("status") ELSE NoRequest]
  /\ shown = NoDocument /\ seen = NoDocument
  /\ timer = FALSE /\ strays = 0
  /\ visible = TRUE
  /\ busy = FALSE /\ sliding = FALSE /\ raced = FALSE

-----------------------------------------------------------------------------
(* refresh, up to its request; it clears the timer it knows of.            *)
refresh ==
  /\ Send("status")
  /\ timer' = FALSE
  /\ UNCHANGED <<device, shown, seen, slide>>

TimerFires ==
  /\ timer
  /\ refresh
  /\ UNCHANGED <<strays, visible>>

StrayFires ==
  /\ strays > 0
  /\ strays' = strays - 1
  /\ refresh
  /\ UNCHANGED visible

TabClick ==
  /\ visible
  /\ refresh
  /\ UNCHANGED <<strays, visible>>

(* The history tab loads the events, whatever the marker, then refreshes.  *)
HistoryTab ==
  /\ visible
  /\ Idle # {}
  /\ LET c == Pick(Idle) rest == Idle \ {c}
     IN  /\ rest # {}
         /\ conn' = [conn EXCEPT ![c] = Ask("events"), ![Pick(rest)] = Ask("status")]
  /\ timer' = FALSE
  /\ UNCHANGED <<device, shown, seen, strays, visible, slide>>

Show ==
  /\ ~visible
  /\ visible' = TRUE
  /\ refresh
  /\ UNCHANGED strays

Hide ==
  /\ visible
  /\ visible' = FALSE
  /\ UNCHANGED <<device, conn, page, slide>>

(* The end of refresh: a timer for the next poll; one that is pending is   *)
(* forgotten, not cleared.                                                 *)
NextPoll ==
  /\ strays + (IF timer THEN 1 ELSE 0) <= MaxStrays
  /\ timer' = (timer \/ visible)
  /\ strays' = IF timer /\ visible THEN strays + 1 ELSE strays

render(c) == shown' = conn[c].doc

(* The marker is remembered before the events are asked for.               *)
StatusAnswered(c) ==
  /\ At(c, "ok") /\ conn[c].kind = "status"
  /\ render(c)
  /\ seen' = Marker(conn[c].doc)
  /\ IF seen' # seen THEN SendOn(c, "events") ELSE Drop(c)
  /\ NextPoll
  /\ UNCHANGED <<device, slide, visible>>

EventsAnswered(c) ==
  /\ At(c, "ok") /\ conn[c].kind = "events"
  /\ Drop(c)
  /\ UNCHANGED <<device, page, slide, visible>>

UnderWay(c) == conn[c] # NoRequest /\ conn[c].kind \in Commands

(* The end of command on c frees the slide, whoever else is under way.     *)
CommandEnds(c) ==
  /\ busy' = FALSE
  /\ raced' = (raced /\ \E d \in Conns \ {c} : UnderWay(d))
  /\ UNCHANGED sliding

(* command leaves the marker alone: the next poll loads the events again.  *)
CommandAnswered(c) ==
  /\ At(c, "ok") /\ conn[c].kind = "pump"
  /\ render(c)
  /\ CommandEnds(c)
  /\ SendOn(c, "events")
  /\ UNCHANGED <<device, seen, timer, strays, visible>>

SettingsAnswered(c) ==
  /\ At(c, "ok") /\ conn[c].kind = "settings"
  /\ render(c)
  /\ Drop(c)
  /\ UNCHANGED <<device, seen, timer, strays, slide, visible>>

SlipGivesUpPolling(c) ==
  /\ Drop(c)
  /\ IF UnderWay(c) THEN CommandEnds(c) ELSE UNCHANGED slide
  /\ UNCHANGED <<device, page, visible>>

SlipGivesUpBusy(c) ==
  /\ Drop(c)
  /\ IF conn[c].kind = "status" THEN NextPoll ELSE UNCHANGED <<timer, strays>>
  /\ UNCHANGED <<device, shown, seen, slide, visible>>

(* What the page makes of a request that failed; a failed load of the      *)
(* events is passed over.                                                  *)
GivesUp(c) ==
  /\ Drop(c)
  /\ IF UnderWay(c) THEN CommandEnds(c) ELSE UNCHANGED slide
  /\ IF conn[c].kind = "status" THEN NextPoll ELSE UNCHANGED <<timer, strays>>
  /\ UNCHANGED <<device, shown, seen, visible>>

Failed(c) == At(c, "error") /\ GivesUp(c)

(* A request, or its answer, does not arrive.                              *)
Lost(c) == (At(c, "sent") \/ At(c, "ok")) /\ GivesUp(c)

Answered(c) == StatusAnswered(c) \/ EventsAnswered(c) \/ CommandAnswered(c)
               \/ SettingsAnswered(c) \/ Failed(c)

-----------------------------------------------------------------------------
SlipSlideBeginsLocked ==
  /\ visible /\ ~sliding /\ shown # NoDocument
  /\ ~("overheat" \in shown.demands /\ Pump!Pumping(Pump!Top(shown.demands)))
  /\ sliding' = TRUE
  /\ UNCHANGED <<device, conn, page, visible, busy, raced>>

(* canStart is asked when a drag begins, and never again.                  *)
SlideBegins ==
  /\ visible /\ ~sliding /\ ~busy /\ shown # NoDocument
  /\ ~("overheat" \in shown.demands /\ Pump!Pumping(Pump!Top(shown.demands)))
  /\ sliding' = TRUE
  /\ UNCHANGED <<device, conn, page, visible, busy, raced>>

SlideLetGo ==
  /\ sliding
  /\ sliding' = FALSE
  /\ UNCHANGED <<device, conn, page, visible, busy, raced>>

(* onFire asks for the opposite of what is shown by now.                   *)
SlideFires ==
  /\ visible /\ sliding
  /\ Send(IF Pump!Pumping(Pump!Top(shown.demands)) THEN "stop" ELSE "start")
  /\ busy' = TRUE /\ sliding' = FALSE
  /\ UNCHANGED <<device, page, visible, raced>>

AutoChip ==
  /\ visible /\ ~busy /\ shown # NoDocument
  /\ shown.demands \cap Overrides # {}
  /\ Send("auto")
  /\ busy' = TRUE
  /\ raced' = (raced \/ sliding)
  /\ UNCHANGED <<device, page, visible, sliding>>

Stepper ==
  /\ visible /\ shown # NoDocument
  /\ Send("settings")
  /\ UNCHANGED <<device, page, slide, visible>>

Device == ControlTask \/ Restart \/ OtherClient \/ \E c \in Conns : Handler(c)

Page == TimerFires \/ StrayFires \/ \E c \in Conns : Answered(c)

User == \/ TabClick \/ HistoryTab \/ Show \/ Hide \/ Stepper
        \/ SlideBegins \/ SlideLetGo \/ SlideFires \/ AutoChip

Next == \/ Device /\ UNCHANGED <<page, slide, visible>>
        \/ Page \/ User
        \/ \E c \in Conns : Lost(c)

Spec == Init /\ [][Next]_vars

-----------------------------------------------------------------------------
TypeOK ==
  /\ demands \in Worlds /\ starts \in Int
  /\ conn \in [Conns -> Request \cup {NoRequest}]
  /\ busy \in BOOLEAN /\ sliding \in BOOLEAN /\ raced \in BOOLEAN

OneHandler == \A c, d \in Conns : InHandler(c) /\ InHandler(d) => c = d

(* A visible page never stops polling: a timer is pending or a poll is     *)
(* under way, however hiding, tab clicks, failures and answers overlap.    *)
PollingAlive ==
  visible => \/ timer
             \/ strays > 0
             \/ \E c \in Conns : conn[c] # NoRequest /\ conn[c].kind = "status"

(* However answers are lost, refused or late, the slide is never locked    *)
(* with no command under way.  It is locked whenever one is, and commands  *)
(* follow one another, unless the auto chip was tapped during a drag: the  *)
(* end of a drag does not ask whether the slide is still free.             *)
BusyWithOne ==
  /\ busy => \E c \in Conns : UnderWay(c)
  /\ ~raced => /\ (\E c \in Conns : UnderWay(c)) => busy
               /\ \A c, d \in Conns : UnderWay(c) /\ UnderWay(d) => c = d

DragIsFree == sliding /\ ~raced => ~busy

(* The inductive invariant.                                                *)
IInv == TypeOK /\ OneHandler /\ DragIsFree /\ BusyWithOne

=============================================================================
