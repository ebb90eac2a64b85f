----------------------------- MODULE AppProofs ------------------------------
(***************************************************************************)
(* Proofs about the page and the HTTP API, for every number of connections *)
(* and whatever order requests are served, answered and lost in: one       *)
(* handler runs at a time, the slide is not locked without a command under *)
(* way, and one command is under way at a time unless one was begun during *)
(* a drag.                                                                 *)
(***************************************************************************)
EXTENDS App, TLAPS

Handled(r) == r # NoRequest /\ r.stage \in {"saving", "acted", "copied"}

IsCommand(r) == r # NoRequest /\ r.kind \in Commands

LEMMA InHandlerIsHandled == \A c \in Conns : InHandler(c) <=> Handled(conn[c])
  BY DEF InHandler, At, Handled

LEMMA AskIsRequest ==
  ASSUME NEW kind \in Commands \cup {"status", "events", "settings"}
  PROVE  Ask(kind) \in Request /\ ~Handled(Ask(kind)) /\ Ask(kind).kind = kind
  BY DEF Ask, Request, Handled

(* What a step that puts r on c does to the slide: nothing, when it begins *)
(* and ends no command; it frees it when it ends one, and locks it when it *)
(* begins one, by the chip or at the end of a drag.                        *)
SlideFollows(c, r) ==
  \/ UNCHANGED slide /\ (IsCommand(r) <=> IsCommand(conn[c]))
  \/ CommandEnds(c) /\ IsCommand(conn[c]) /\ ~IsCommand(r)
  \/ /\ IsCommand(r) /\ ~IsCommand(conn[c])
     /\ busy' = TRUE
     /\ \/ ~busy /\ raced' = (raced \/ sliding) /\ sliding' = sliding
        \/ sliding /\ sliding' = FALSE /\ raced' = raced

(* The part of the invariant about the slide, in terms of the requests.    *)
SlideInv ==
  /\ busy => \E x \in Conns : IsCommand(conn[x])
  /\ ~raced => /\ (\E x \in Conns : IsCommand(conn[x])) => busy
               /\ \A x, y \in Conns : IsCommand(conn[x]) /\ IsCommand(conn[y]) => x = y
               /\ ~(sliding /\ busy)

LEMMA SlideInvMeans == DragIsFree /\ BusyWithOne <=> SlideInv
  BY DEF DragIsFree, BusyWithOne, SlideInv, UnderWay, IsCommand

(* A step that changes one connection keeps the invariant when it begins   *)
(* no second handler and the slide follows it.                             *)
LEMMA OneConnection ==
  ASSUME IInv, NEW c \in Conns, NEW r \in Request \cup {NoRequest},
         conn' = [conn EXCEPT ![c] = r],
         demands' \in Worlds, starts' \in Int,
         Handled(r) => ServerFree \/ Handled(conn[c]),
         SlideFollows(c, r)
  PROVE  IInv'
<1>1. /\ conn \in [Conns -> Request \cup {NoRequest}]
      /\ conn' \in [Conns -> Request \cup {NoRequest}]
      /\ conn'[c] = r
      /\ \A d \in Conns \ {c} : conn'[d] = conn[d]
  BY DEF IInv, TypeOK
<1>2. busy \in BOOLEAN /\ sliding \in BOOLEAN /\ raced \in BOOLEAN
  BY DEF IInv, TypeOK
<1>3. busy' \in BOOLEAN /\ sliding' \in BOOLEAN /\ raced' \in BOOLEAN
  BY <1>2, Zenon DEF SlideFollows, CommandEnds, slide
<1>4. TypeOK'
  BY <1>1, <1>3 DEF TypeOK
<1>5. OneHandler'
  <2> SUFFICES ASSUME NEW d \in Conns, NEW e \in Conns,
                      Handled(conn'[d]), Handled(conn'[e]), d # e
               PROVE  FALSE
    BY DEF OneHandler, InHandler, At, Handled
  <2>1. \A x, y \in Conns : Handled(conn[x]) /\ Handled(conn[y]) => x = y
    BY InHandlerIsHandled DEF IInv, OneHandler
  <2>2. ServerFree => \A x \in Conns : ~Handled(conn[x])
    BY InHandlerIsHandled DEF ServerFree
  <2> QED BY <1>1, <2>1, <2>2
<1>6. SlideInv'
  <2>1. SlideInv
    BY SlideInvMeans DEF IInv
  <2>2. CASE UNCHANGED slide /\ (IsCommand(r) <=> IsCommand(conn[c]))
    <3>1. \A x \in Conns : IsCommand(conn'[x]) <=> IsCommand(conn[x])
      BY <1>1, <2>2
    <3>2. busy' = busy /\ sliding' = sliding /\ raced' = raced
      BY <2>2 DEF slide
    <3> QED BY <2>1, <3>1, <3>2 DEF SlideInv
  <2>3. CASE CommandEnds(c) /\ IsCommand(conn[c]) /\ ~IsCommand(r)
    <3>1. /\ busy' = FALSE
          /\ ~raced' => ~raced \/ \A d \in Conns \ {c} : ~IsCommand(conn[d])
      BY <2>3 DEF CommandEnds, UnderWay, IsCommand
    <3>2. ~raced' => \A d \in Conns : ~IsCommand(conn'[d])
      BY <1>1, <2>1, <2>3, <3>1 DEF SlideInv
    <3> QED BY <3>1, <3>2 DEF SlideInv
  <2>4. CASE /\ IsCommand(r) /\ ~IsCommand(conn[c])
             /\ busy' = TRUE
             /\ \/ ~busy /\ raced' = (raced \/ sliding) /\ sliding' = sliding
                \/ sliding /\ sliding' = FALSE /\ raced' = raced
    <3>1. IsCommand(conn'[c])
      BY <1>1, <2>4
    <3>2. ~raced' => ~raced /\ ~busy /\ ~sliding'
      BY <1>2, <2>1, <2>4 DEF SlideInv
    <3>3. ~raced' => \A d \in Conns \ {c} : ~IsCommand(conn'[d])
      BY <1>1, <2>1, <3>2 DEF SlideInv
    <3> QED BY <2>4, <3>1, <3>2, <3>3 DEF SlideInv
  <2> QED BY <2>2, <2>3, <2>4 DEF SlideFollows
<1>7. (DragIsFree /\ BusyWithOne)'
  BY <1>6, SlideInvMeans, PTL
<1> QED BY <1>4, <1>5, <1>7 DEF IInv

LEMMA PickIsIdle ==
  ASSUME NEW S \in SUBSET Idle, S # {}
  PROVE  Pick(S) \in S /\ Pick(S) \in Conns /\ conn[Pick(S)] = NoRequest
  BY DEF Pick, Idle

LEMMA InitHolds == Init => IInv
<1> SUFFICES ASSUME Init PROVE IInv
  OBVIOUS
<1>1. PICK c \in Conns : conn = [d \in Conns |-> IF d = c THEN Ask("status") ELSE NoRequest]
  BY DEF Init
<1>2. Ask("status") \in Request /\ ~Handled(Ask("status")) /\ ~IsCommand(Ask("status"))
  BY AskIsRequest DEF IsCommand, Commands
<1>3. \A d \in Conns : conn[d] \in Request \cup {NoRequest} /\ ~Handled(conn[d]) /\ ~IsCommand(conn[d])
  BY <1>1, <1>2 DEF Handled, IsCommand
<1>4. TypeOK
  <2>1. demands \in Worlds
    BY ApiConstants, Zenon DEF ApiConstants, Init, Pump!Init
  <2>2. starts \in Int
    BY DEF Init
  <2>3. conn \in [Conns -> Request \cup {NoRequest}]
    BY <1>1, <1>3
  <2> QED BY <2>1, <2>2, <2>3 DEF TypeOK, Init
<1>5. OneHandler
  BY <1>3, InHandlerIsHandled DEF OneHandler
<1>6. \A d \in Conns : ~(conn[d] # NoRequest /\ conn[d].kind \in Commands)
  BY <1>3 DEF IsCommand
<1>7. DragIsFree /\ BusyWithOne
  BY <1>6 DEF DragIsFree, BusyWithOne, UnderWay, Init
<1> QED BY <1>4, <1>5, <1>7 DEF IInv

-----------------------------------------------------------------------------
(* The steps of the device.                                                *)
LEMMA NothingAsked ==
  ASSUME IInv, conn' = conn, UNCHANGED slide, demands' \in Worlds, starts' \in Int
  PROVE  IInv'
  BY DEF IInv, TypeOK, OneHandler, InHandler, At, DragIsFree, BusyWithOne, UnderWay, slide

LEMMA DecidesTypes ==
  ASSUME IInv, NEW D \in Worlds, Decides(D)
  PROVE  demands' \in Worlds /\ starts' \in Int
  BY ApiConstants DEF ApiConstants, IInv, TypeOK, Decides, Pump!Change

LEMMA ManualTypes ==
  ASSUME IInv, NEW override, control_manual(override)
  PROVE  demands' \in Worlds /\ starts' \in Int
  BY DecidesTypes DEF control_manual

LEMMA StatusIsDocument == IInv => status \in Document
  BY ApiConstants DEF ApiConstants, IInv, TypeOK, status, Document

LEMMA RestartPreserves ==
  ASSUME IInv, Restart, UNCHANGED slide
  PROVE  IInv'
<1>1. \A c \in Conns : /\ conn'[c] \in Request \cup {NoRequest}
                       /\ ~Handled(conn'[c])
                       /\ IsCommand(conn'[c]) <=> IsCommand(conn[c])
  <2> TAKE c \in Conns
  <2>1. conn[c] \in Request \cup {NoRequest}
    BY DEF IInv, TypeOK
  <2>2. CASE Handled(conn[c])
    <3>1. conn'[c] = [kind |-> conn[c].kind, stage |-> "error", doc |-> NoDocument]
      BY <2>2, InHandlerIsHandled DEF Restart
    <3>2. conn[c] \in Request /\ conn'[c] \in Request
          /\ conn'[c].stage = "error" /\ conn'[c].kind = conn[c].kind
      BY <2>1, <2>2, <3>1 DEF Request, Handled
    <3> QED BY <3>2, ApiConstants DEF ApiConstants, Handled, IsCommand
  <2>3. CASE ~Handled(conn[c])
    <3>1. conn'[c] = conn[c]
      BY <2>3, InHandlerIsHandled DEF Restart
    <3> QED BY <2>1, <2>3, <3>1
  <2> QED BY <2>2, <2>3
<1>2. TypeOK'
  <2>1. conn' \in [Conns -> Request \cup {NoRequest}]
    BY <1>1 DEF Restart
  <2>2. demands' \in Worlds
    BY ApiConstants, Zenon DEF ApiConstants, Restart, Pump!Restart
  <2>3. starts' \in Int
    BY DEF Restart
  <2> QED BY <2>1, <2>2, <2>3 DEF IInv, TypeOK, slide
<1>3. OneHandler'
  BY <1>1 DEF OneHandler, InHandler, At, Handled
<1>4. (DragIsFree /\ BusyWithOne)'
  BY <1>1 DEF IInv, DragIsFree, BusyWithOne, UnderWay, IsCommand, slide
<1> QED BY <1>2, <1>3, <1>4 DEF IInv

-----------------------------------------------------------------------------
(* The steps of a handler, each on its own connection.                     *)
LEMMA AtIsRequest ==
  ASSUME IInv, NEW c \in Conns, NEW stage, At(c, stage)
  PROVE  conn[c] \in Request /\ conn[c] # NoRequest /\ conn[c].stage = stage
  BY DEF IInv, TypeOK, At

(* The request goes on to another stage, as the same kind of request.      *)
LEMMA Advances ==
  ASSUME IInv, NEW c \in Conns, conn[c] \in Request,
         NEW kind \in Commands \cup {"status", "events", "settings"},
         kind \in Commands <=> conn[c].kind \in Commands,
         NEW stage \in {"sent", "saving", "acted", "copied", "ok", "error"},
         stage \in {"saving", "acted", "copied"} => ServerFree \/ InHandler(c),
         NEW doc \in Document \cup {NoDocument},
         Goes(c, kind, stage, doc),
         demands' \in Worlds, starts' \in Int, UNCHANGED slide
  PROVE  IInv'
<1> DEFINE r == [kind |-> kind, stage |-> stage, doc |-> doc]
<1>1. r \in Request /\ r # NoRequest /\ conn[c] # NoRequest
  BY ApiConstants DEF ApiConstants, Request
<1>2. (Handled(r) => ServerFree \/ Handled(conn[c])) /\ (IsCommand(r) <=> IsCommand(conn[c]))
  BY <1>1, InHandlerIsHandled DEF Handled, IsCommand
<1>3. conn' = [conn EXCEPT ![c] = r]
  BY DEF Goes
<1> HIDE DEF r
<1>4. SlideFollows(c, r)
  BY <1>2 DEF SlideFollows
<1> QED BY <1>1, <1>2, <1>3, <1>4, OneConnection

LEMMA HandlerPreserves ==
  ASSUME IInv, NEW c \in Conns, Handler(c), UNCHANGED slide
  PROVE  IInv'
<1>1. demands \in Worlds /\ starts \in Int
  BY DEF IInv, TypeOK
<1>2. \A stage : At(c, stage) => conn[c] \in Request
  BY AtIsRequest
<1>3. conn[c] \in Request => /\ conn[c].kind \in Commands \cup {"status", "events", "settings"}
                            /\ conn[c].doc \in Document \cup {NoDocument}
  BY DEF Request
<1>4. CASE pump_command(c)
  <2>1. conn[c] \in Request /\ ServerFree /\ demands' \in Worlds /\ starts' \in Int
    BY <1>2, <1>4, ManualTypes DEF pump_command, Taken
  <2> QED BY <1>3, <1>4, <2>1, Advances DEF pump_command
<1>5. CASE Refused(c)
  <2>1. conn[c] \in Request /\ conn[c].kind = "stop"
    BY <1>2, <1>5 DEF Refused, Taken
  <2> QED BY <1>1, <1>5, <2>1, Advances DEF Refused, Commands, device
<1>6. CASE apply_settings(c)
  <2>1. conn[c] \in Request /\ ServerFree /\ conn[c].kind = "settings"
    BY <1>2, <1>6 DEF apply_settings, Taken
  <2> QED BY <1>1, <1>6, <2>1, Advances DEF apply_settings, Commands, device
<1>7. CASE Saved(c)
  <2>1. conn[c] \in Request /\ InHandler(c)
    BY <1>2, <1>7 DEF Saved, InHandler
  <2>2. PICK outcome \in {"acted", "error"} : Goes(c, conn[c].kind, outcome, NoDocument)
    BY <1>7 DEF Saved
  <2>3. demands' \in Worlds /\ starts' \in Int
    BY <1>1, <1>7 DEF Saved, device
  <2> QED BY <1>3, <2>1, <2>2, <2>3, Advances
<1>8. CASE control_status(c)
  <2>1. conn[c] \in Request /\ (ServerFree \/ InHandler(c))
    BY <1>2, <1>8 DEF control_status, Taken, InHandler
  <2> QED BY <1>1, <1>3, <1>8, <2>1, StatusIsDocument, Advances DEF control_status, device
<1>9. CASE settings_get(c)
  <2> DEFINE kind == IF conn[c].kind \in Commands THEN "pump" ELSE conn[c].kind
  <2>1. conn[c] \in Request
    BY <1>2, <1>9 DEF settings_get
  <2>2. /\ kind \in Commands \cup {"status", "events", "settings"}
        /\ kind \in Commands <=> conn[c].kind \in Commands
    BY <1>3, <2>1 DEF Commands
  <2> QED BY <1>1, <1>3, <1>9, <2>1, <2>2, Advances DEF settings_get, device
<1>10. CASE events_handler(c)
  <2>1. conn[c] \in Request /\ conn[c].kind = "events"
    BY <1>2, <1>10 DEF events_handler, Taken
  <2> QED BY <1>1, <1>10, <2>1, Advances DEF events_handler, Commands, device
<1> QED BY <1>4, <1>5, <1>6, <1>7, <1>8, <1>9, <1>10 DEF Handler

-----------------------------------------------------------------------------
(* The steps of the page.                                                  *)
LEMMA AskPreserves ==
  ASSUME IInv, Idle # {},
         NEW kind \in Commands \cup {"status", "events", "settings"},
         Send(kind), demands' = demands, starts' = starts,
         \/ kind \notin Commands /\ UNCHANGED slide
         \/ /\ kind \in Commands /\ busy' = TRUE
            /\ \/ ~busy /\ raced' = (raced \/ sliding) /\ sliding' = sliding
               \/ sliding /\ sliding' = FALSE /\ raced' = raced
  PROVE  IInv'
<1>1. Pick(Idle) \in Conns /\ conn[Pick(Idle)] = NoRequest
  BY PickIsIdle
<1>2. conn' = [conn EXCEPT ![Pick(Idle)] = Ask(kind)]
  BY DEF Send, SendOn
<1>3. Ask(kind) \in Request /\ ~Handled(Ask(kind)) /\ Ask(kind).kind = kind
  BY AskIsRequest
<1>4. Ask(kind) # NoRequest
  BY <1>3, ApiConstants DEF ApiConstants
<1>5. demands' \in Worlds /\ starts' \in Int
  BY DEF IInv, TypeOK
<1>6. (IsCommand(Ask(kind)) <=> kind \in Commands) /\ ~IsCommand(conn[Pick(Idle)])
  BY <1>1, <1>3, <1>4 DEF IsCommand
<1>7. SlideFollows(Pick(Idle), Ask(kind))
  BY <1>6 DEF SlideFollows
<1> QED BY <1>1, <1>2, <1>3, <1>5, <1>7, OneConnection

(* An answer is let go, or followed by a load of the events on its         *)
(* connection; that ends a command if it was one.                          *)
LEMMA LetGo ==
  ASSUME IInv, NEW c \in Conns, conn[c] # NoRequest,
         Drop(c) \/ SendOn(c, "events"),
         demands' = demands, starts' = starts,
         IF conn[c].kind \in Commands THEN CommandEnds(c) ELSE UNCHANGED slide
  PROVE  IInv'
<1>1. PICK r \in {NoRequest, Ask("events")} : conn' = [conn EXCEPT ![c] = r]
  BY DEF Drop, SendOn
<1>2. r \in Request \cup {NoRequest} /\ ~Handled(r) /\ ~IsCommand(r)
  BY AskIsRequest DEF Handled, IsCommand, Commands
<1>3. demands' \in Worlds /\ starts' \in Int
  BY DEF IInv, TypeOK
<1>4. SlideFollows(c, r)
  BY <1>2 DEF SlideFollows, IsCommand
<1> QED BY <1>1, <1>2, <1>3, <1>4, OneConnection

LEMMA HistoryTabPreserves ==
  ASSUME IInv, HistoryTab
  PROVE  IInv'
<1> DEFINE c == Pick(Idle)
           d == Pick(Idle \ {Pick(Idle)})
<1>1. /\ c \in Conns /\ d \in Conns /\ c # d
      /\ conn[c] = NoRequest /\ conn[d] = NoRequest
      /\ conn' = [conn EXCEPT ![c] = Ask("events"), ![d] = Ask("status")]
  BY PickIsIdle DEF HistoryTab
<1> HIDE DEF c, d
<1>2. \A kind \in {"events", "status"} : Ask(kind) \in Request /\ ~Handled(Ask(kind)) /\ ~IsCommand(Ask(kind))
  BY AskIsRequest DEF IsCommand, Commands
<1>3. /\ conn \in [Conns -> Request \cup {NoRequest}]
      /\ conn' \in [Conns -> Request \cup {NoRequest}]
  BY <1>1, <1>2 DEF IInv, TypeOK
<1>4. \A e \in Conns : conn'[e] = IF e = d THEN Ask("status")
                               ELSE IF e = c THEN Ask("events") ELSE conn[e]
  BY <1>1, <1>3
<1>5. \A e \in Conns : /\ Handled(conn'[e]) => Handled(conn[e])
                       /\ IsCommand(conn'[e]) <=> IsCommand(conn[e])
  BY <1>1, <1>2, <1>4 DEF Handled, IsCommand
<1>6. /\ demands' = demands /\ starts' = starts
      /\ busy' = busy /\ sliding' = sliding /\ raced' = raced
  BY DEF HistoryTab, device, slide
<1>7. TypeOK'
  BY <1>3, <1>6 DEF IInv, TypeOK
<1>8. OneHandler'
  BY <1>5, InHandlerIsHandled DEF IInv, OneHandler, InHandler, At, Handled
<1>9. (DragIsFree /\ BusyWithOne)'
  BY <1>5, <1>6 DEF IInv, DragIsFree, BusyWithOne, UnderWay, IsCommand
<1> QED BY <1>7, <1>8, <1>9 DEF IInv

LEMMA AnsweredPreserves ==
  ASSUME IInv, NEW c \in Conns, Answered(c) \/ Lost(c)
  PROVE  IInv'
<1>1. conn[c] # NoRequest
  BY DEF Answered, StatusAnswered, EventsAnswered, CommandAnswered, SettingsAnswered,
         Failed, Lost, At
<1>2. CASE StatusAnswered(c) \/ EventsAnswered(c) \/ SettingsAnswered(c)
  <2>1. conn[c].kind \notin Commands /\ UNCHANGED slide
    BY <1>2 DEF StatusAnswered, EventsAnswered, SettingsAnswered, Commands
  <2>2. /\ Drop(c) \/ SendOn(c, "events")
        /\ demands' = demands /\ starts' = starts
    BY <1>2 DEF StatusAnswered, EventsAnswered, SettingsAnswered, device
  <2> QED BY <1>1, <2>1, <2>2, LetGo
<1>3. CASE CommandAnswered(c)
  <2>1. conn[c].kind \in Commands /\ CommandEnds(c)
    BY <1>3 DEF CommandAnswered, Commands
  <2>2. SendOn(c, "events") /\ demands' = demands /\ starts' = starts
    BY <1>3 DEF CommandAnswered, device
  <2> QED BY <1>1, <2>1, <2>2, LetGo
<1>4. CASE Failed(c) \/ Lost(c)
  <2>1. /\ Drop(c) /\ demands' = demands /\ starts' = starts
        /\ IF conn[c].kind \in Commands THEN CommandEnds(c) ELSE UNCHANGED slide
    BY <1>1, <1>4 DEF Failed, Lost, GivesUp, UnderWay, device
  <2> QED BY <1>1, <2>1, LetGo
<1> QED BY <1>2, <1>3, <1>4 DEF Answered

LEMMA AsksPreserve ==
  ASSUME IInv, refresh \/ SlideFires \/ AutoChip \/ Stepper
  PROVE  IInv'
<1>1. CASE refresh \/ Stepper
  <2>1. PICK kind \in {"status", "settings"} : Send(kind)
    BY <1>1 DEF refresh, Stepper
  <2>2. demands' = demands /\ starts' = starts /\ UNCHANGED slide
    BY <1>1 DEF refresh, Stepper, device
  <2> QED BY <2>1, <2>2, AskPreserves DEF Commands, Send
<1>2. CASE SlideFires \/ AutoChip
  <2>1. PICK kind \in {"start", "stop", "auto"} : Send(kind)
    BY <1>2 DEF SlideFires, AutoChip
  <2>2. demands' = demands /\ starts' = starts
    BY <1>2 DEF SlideFires, AutoChip, device
  <2>3. /\ busy' = TRUE
        /\ \/ ~busy /\ raced' = (raced \/ sliding) /\ sliding' = sliding
           \/ sliding /\ sliding' = FALSE /\ raced' = raced
    BY <1>2 DEF SlideFires, AutoChip
  <2> QED BY <2>1, <2>2, <2>3, AskPreserves DEF Commands, Send
<1> QED BY <1>1, <1>2

(* A drag that begins found the slide free.                                *)
LEMMA DragPreserves ==
  ASSUME IInv, SlideBegins \/ SlideLetGo
  PROVE  IInv'
<1>1. /\ conn' = conn /\ demands' = demands /\ starts' = starts
      /\ busy' = busy /\ raced' = raced
      /\ sliding' \in BOOLEAN /\ (sliding' => ~busy)
  BY DEF SlideBegins, SlideLetGo, device
<1> QED BY <1>1 DEF IInv, TypeOK, OneHandler, InHandler, At, DragIsFree, BusyWithOne, UnderWay

LEMMA NextPreserves == IInv /\ [Next]_vars => IInv'
<1> SUFFICES ASSUME IInv, [Next]_vars PROVE IInv'
  OBVIOUS
<1>1. demands \in Worlds /\ starts \in Int
  BY DEF IInv, TypeOK
<1>2. CASE Device /\ UNCHANGED <<page, slide, visible>>
  <2>1. UNCHANGED slide
    BY <1>2
  <2>2. CASE ControlTask
    BY <2>1, <2>2, DecidesTypes, NothingAsked DEF ControlTask
  <2>3. CASE Restart
    BY <2>1, <2>3, RestartPreserves
  <2>4. CASE OtherClient
    <3>1. demands' \in Worlds /\ starts' \in Int
      BY <1>1, <2>4, ManualTypes DEF OtherClient
    <3> QED BY <2>1, <2>4, <3>1, NothingAsked DEF OtherClient
  <2>5. CASE \E c \in Conns : Handler(c)
    BY <2>1, <2>5, HandlerPreserves
  <2> QED BY <1>2, <2>2, <2>3, <2>4, <2>5 DEF Device
<1>3. CASE Page
  BY <1>3, AsksPreserve, AnsweredPreserves DEF Page, TimerFires, StrayFires
<1>4. CASE User
  <2>1. CASE Hide
    BY <1>1, <2>1, NothingAsked DEF Hide, device
  <2> QED BY <1>4, <2>1, AsksPreserve, DragPreserves, HistoryTabPreserves DEF User, TabClick, Show
<1>5. CASE \E c \in Conns : Lost(c)
  BY <1>5, AnsweredPreserves
<1>6. CASE UNCHANGED vars
  BY <1>1, <1>6, NothingAsked DEF vars, device
<1> QED BY <1>2, <1>3, <1>4, <1>5, <1>6 DEF Next

-----------------------------------------------------------------------------
(* Requests keep their types, one handler runs at a time, a drag began     *)
(* with the slide free, and the slide follows the commands (httpd of       *)
(* api.c, canStart and command of app.html).                               *)
THEOREM Invariant == Spec => []IInv
<1>1. Init => IInv
  BY InitHolds
<1>2. IInv /\ [Next]_vars => IInv'
  BY NextPreserves
<1> QED BY <1>1, <1>2, PTL DEF Spec

(* Whatever is lost, refused or answered late, the page never stays locked *)
(* without a command under way, and commands follow one another unless one *)
(* is begun during a drag (canStart, the auto chip and command of          *)
(* app.html).                                                              *)
THEOREM SlideFollowsCommands == Spec => []BusyWithOne
<1>1. IInv => BusyWithOne
  BY DEF IInv
<1> QED BY <1>1, Invariant, PTL

-----------------------------------------------------------------------------
(* Only the handler's own step, or none, moves a request that is handled.  *)
LEMMA GoesTo ==
  ASSUME IInv, NEW c \in Conns, NEW kind, NEW stage, NEW doc, Goes(c, kind, stage, doc)
  PROVE  /\ conn'[c] = [kind |-> kind, stage |-> stage, doc |-> doc]
         /\ \A d \in Conns \ {c} : conn'[d] = conn[d]
  BY DEF IInv, TypeOK, Goes

LEMMA AsksTo ==
  ASSUME IInv, NEW kind \in Commands \cup {"status", "events", "settings"}, Send(kind)
  PROVE  /\ Pick(Idle) \in Conns /\ conn[Pick(Idle)] = NoRequest
         /\ conn'[Pick(Idle)] = Ask(kind)
         /\ \A d \in Conns : d # Pick(Idle) => conn'[d] = conn[d]
  BY PickIsIdle DEF IInv, TypeOK, Send, SendOn

LEMMA AnsweredTo ==
  ASSUME IInv, NEW c \in Conns, Answered(c) \/ Lost(c)
  PROVE  /\ conn'[c] \in {NoRequest, Ask("events")}
         /\ \A d \in Conns \ {c} : conn'[d] = conn[d]
<1>1. Drop(c) \/ SendOn(c, "events")
  BY DEF Answered, StatusAnswered, EventsAnswered, CommandAnswered, SettingsAnswered,
         Failed, Lost, GivesUp
<1> QED BY <1>1 DEF Drop, SendOn, IInv, TypeOK

LEMMA HistoryTabTo ==
  ASSUME IInv, HistoryTab
  PROVE  /\ \A e \in Conns : conn'[e] \in {conn[e], Ask("events"), Ask("status")}
         /\ \E e \in Conns : conn'[e] = Ask("status")
<1> DEFINE c == Pick(Idle)
           d == Pick(Idle \ {Pick(Idle)})
<1>1. /\ c \in Conns /\ d \in Conns /\ c # d
      /\ conn' = [conn EXCEPT ![c] = Ask("events"), ![d] = Ask("status")]
  BY PickIsIdle DEF HistoryTab
<1> HIDE DEF c, d
<1>2. conn \in [Conns -> Request \cup {NoRequest}]
  BY DEF IInv, TypeOK
<1>3. \A e \in Conns : conn'[e] = IF e = d THEN Ask("status")
                               ELSE IF e = c THEN Ask("events") ELSE conn[e]
  BY <1>1, <1>2
<1> QED BY <1>1, <1>3

LEMMA PageMovesNothing ==
  ASSUME IInv, Page \/ User \/ \E c \in Conns : Lost(c)
  PROVE  /\ demands' = demands
         /\ \A c \in Conns : conn'[c] = conn[c] \/ ~Handled(conn'[c])
<1>1. demands' = demands
  BY DEF device, Page, User, TimerFires, StrayFires, refresh,
     Answered, StatusAnswered, EventsAnswered, CommandAnswered, SettingsAnswered,
     Failed, Lost, GivesUp, TabClick, HistoryTab, Show, Hide,
     SlideBegins, SlideLetGo, SlideFires, AutoChip, Stepper
<1>2. \A kind \in Commands \cup {"status", "events", "settings"} : ~Handled(Ask(kind))
  BY AskIsRequest
<1>3. ~Handled(NoRequest)
  BY DEF Handled
<1>4. ASSUME NEW c \in Conns, Answered(c) \/ Lost(c)
      PROVE  \A d \in Conns : conn'[d] = conn[d] \/ ~Handled(conn'[d])
  BY <1>2, <1>3, <1>4, AnsweredTo
<1>5. ASSUME NEW kind \in Commands \cup {"status", "events", "settings"}, Send(kind)
      PROVE  \A d \in Conns : conn'[d] = conn[d] \/ ~Handled(conn'[d])
  BY <1>2, <1>5, AsksTo
<1>6. CASE refresh \/ SlideFires \/ AutoChip \/ Stepper
  BY <1>1, <1>5, <1>6 DEF refresh, SlideFires, AutoChip, Stepper, Commands
<1>7. CASE HistoryTab
  BY <1>1, <1>2, <1>7, HistoryTabTo
<1>8. CASE Hide \/ SlideBegins \/ SlideLetGo
  BY <1>1, <1>8 DEF Hide, SlideBegins, SlideLetGo
<1> QED BY <1>1, <1>4, <1>6, <1>7, <1>8 DEF Page, User, TimerFires, StrayFires, TabClick, Show

-----------------------------------------------------------------------------
(* The answer to a command.                                                *)

(* Between a command and the copy for its answer, the controller has that  *)
(* command's override or has ended it; thresholds are no command.          *)
ActedShows ==
  \A c \in Conns :
    /\ At(c, "saving") => conn[c].kind = "settings"
    /\ At(c, "acted") /\ conn[c].kind \in DOMAIN Asks
         => demands \cap Overrides \subseteq Asks[conn[c].kind]

AInv == IInv /\ ActedShows /\ AnswerShowsCommand

(* A request that no step has moved, or one that is not handled any more,  *)
(* is as good as before if no override has begun.                          *)
LEMMA StaysShown ==
  ASSUME AInv, demands' \cap Overrides \subseteq demands,
         \A c \in Conns : conn'[c] = conn[c] \/ ~Handled(conn'[c])
  PROVE  ActedShows' /\ AnswerShowsCommand'
<1>1. ActedShows'
  BY DEF AInv, ActedShows, At, Handled
<1>2. AnswerShowsCommand'
  BY DEF AInv, AnswerShowsCommand, At, Handled
<1> QED BY <1>1, <1>2

LEMMA HandlerShown ==
  ASSUME AInv, NEW c \in Conns, Handler(c)
  PROVE  ActedShows' /\ AnswerShowsCommand'
<1>1. IInv
  BY DEF AInv
<1>2. \A d \in Conns \ {c} : conn'[d] = conn[d] /\ ~InHandler(d)
  <2>1. PICK kind, stage, doc : Goes(c, kind, stage, doc)
    BY DEF Handler, pump_command, Refused, apply_settings, Saved, control_status,
       settings_get, events_handler
  <2>2. ServerFree \/ InHandler(c)
    BY DEF Handler, pump_command, Refused, apply_settings, Saved, control_status,
       settings_get, events_handler, Taken, InHandler
  <2> QED BY <1>1, <2>1, <2>2, GoesTo DEF ServerFree, IInv, OneHandler
<1>3. \A d \in Conns \ {c} : ~At(d, "saving")' /\ ~At(d, "acted")' /\ ~At(d, "copied")'
  BY <1>2 DEF InHandler, At
<1>4. /\ At(c, "saving")' => conn'[c].kind = "settings"
      /\ At(c, "acted")' /\ conn'[c].kind \in DOMAIN Asks
           => demands' \cap Overrides \subseteq Asks[conn'[c].kind]
      /\ At(c, "copied")' /\ conn'[c].kind \in DOMAIN Asks
           => conn'[c].doc.demands \cap Overrides \subseteq Asks[conn'[c].kind]
  <2>1. CASE pump_command(c)
    <3>1. conn'[c] = [kind |-> conn[c].kind, stage |-> "acted", doc |-> NoDocument]
      BY <1>1, <2>1, GoesTo DEF pump_command
    <3>2. demands' \cap Overrides = Asks[conn[c].kind]
      BY <2>1 DEF pump_command, control_manual, Decides, Pump!Change
    <3> QED BY <3>1, <3>2 DEF At
  <2>2. CASE Refused(c) \/ apply_settings(c) \/ settings_get(c) \/ events_handler(c)
    <3>1. PICK kind, stage, doc :
            /\ Goes(c, kind, stage, doc)
            /\ stage \in {"error", "ok"} \/ (stage = "saving" /\ kind = "settings")
      BY <2>2 DEF Refused, apply_settings, settings_get, events_handler
    <3>2. conn'[c] = [kind |-> kind, stage |-> stage, doc |-> doc]
      BY <1>1, <3>1, GoesTo
    <3> QED BY <3>1, <3>2 DEF At
  <2>3. CASE Saved(c)
    <3>1. conn[c].kind = "settings"
      BY <2>3 DEF Saved, AInv, ActedShows
    <3>2. PICK outcome \in {"acted", "error"} : Goes(c, conn[c].kind, outcome, NoDocument)
      BY <2>3 DEF Saved
    <3>3. conn'[c] = [kind |-> "settings", stage |-> outcome, doc |-> NoDocument]
      BY <1>1, <3>1, <3>2, GoesTo
    <3> QED BY <3>3 DEF At, Asks
  <2>4. CASE control_status(c)
    <3>1. conn'[c] = [kind |-> conn[c].kind, stage |-> "copied", doc |-> status]
      BY <1>1, <2>4, GoesTo DEF control_status
    <3>2. conn[c].kind \in DOMAIN Asks => demands \cap Overrides \subseteq Asks[conn[c].kind]
      BY <2>4 DEF control_status, Taken, AInv, ActedShows, Asks
    <3> QED BY <3>1, <3>2 DEF At, status
  <2> QED BY <2>1, <2>2, <2>3, <2>4 DEF Handler
<1> QED BY <1>3, <1>4 DEF ActedShows, AnswerShowsCommand

LEMMA NextShows == AInv /\ [Next]_vars => AInv'
<1> SUFFICES ASSUME AInv, [Next]_vars PROVE ActedShows' /\ AnswerShowsCommand'
  BY NextPreserves DEF AInv
<1>1. IInv
  BY DEF AInv
<1>2. CASE ControlTask
  <2>1. demands' \cap Overrides \subseteq demands /\ conn' = conn
    BY <1>2 DEF ControlTask, Decides, Pump!Change
  <2> QED BY <2>1, StaysShown
<1>3. CASE Restart
  <2>1. demands' = {} /\ \A c \in Conns : conn'[c] = conn[c] \/ conn'[c].stage = "error"
    BY <1>3 DEF Restart, Pump!Restart
  <2> QED BY <2>1, StaysShown DEF Handled
<1>4. CASE OtherClient
  <2>1. conn' = conn /\ \A c \in Conns : ~InHandler(c)
    BY <1>4 DEF OtherClient, ServerFree
  <2>2. \A c \in Conns : ~At(c, "saving")' /\ ~At(c, "acted")' /\ ~At(c, "copied")'
    BY <2>1 DEF InHandler, At
  <2> QED BY <2>2 DEF ActedShows, AnswerShowsCommand
<1>5. CASE \E c \in Conns : Handler(c)
  BY <1>5, HandlerShown
<1>6. CASE Page \/ User \/ \E c \in Conns : Lost(c)
  BY <1>1, <1>6, PageMovesNothing, StaysShown
<1>7. CASE UNCHANGED vars
  BY <1>7, StaysShown DEF vars, device
<1> QED BY <1>2, <1>3, <1>4, <1>5, <1>6, <1>7 DEF Next, Device

(* The page never takes another client's override for the one it asked     *)
(* for (pump_command of api.c answers before any other handler runs).      *)
THEOREM OwnAnswer == Spec => []AnswerShowsCommand
<1>1. Init => AInv
  <2>1. ASSUME Init PROVE \A c \in Conns : ~Handled(conn[c])
    BY <2>1, AskIsRequest DEF Init, Handled
  <2>2. (\A c \in Conns : ~Handled(conn[c])) => ActedShows /\ AnswerShowsCommand
    BY DEF ActedShows, AnswerShowsCommand, At, Handled
  <2> QED BY <2>1, <2>2, InitHolds DEF AInv
<1>2. AInv /\ [Next]_vars => AInv'
  BY NextShows
<1>3. AInv => AnswerShowsCommand
  BY DEF AInv
<1> QED BY <1>1, <1>2, <1>3, PTL DEF Spec

-----------------------------------------------------------------------------
(* Polling.                                                                *)
IsPoll(r) == r # NoRequest /\ r.kind = "status"

(* What the page polls with, or waits to.                                  *)
Polls == timer \/ strays > 0 \/ \E c \in Conns : IsPoll(conn[c])

LEMMA RequestIsNotNone == NoRequest \notin Request
  BY ApiConstants DEF ApiConstants

LEMMA PollAsked == IsPoll(Ask("status"))
<1>1. Ask("status") \in Request /\ Ask("status").kind = "status"
  BY AskIsRequest
<1> QED BY <1>1, RequestIsNotNone DEF IsPoll

(* A handler makes no other request of a poll, nor does a restart.         *)
LEMMA DeviceKeepsPolls ==
  ASSUME IInv, Device, NEW c \in Conns, IsPoll(conn[c])
  PROVE  IsPoll(conn'[c])
<1>1. conn[c] \in Request /\ conn[c].kind = "status"
  BY DEF IInv, TypeOK, IsPoll
<1>2. ASSUME NEW stage \in {"error", "acted", "copied", "ok"}, NEW doc \in Document \cup {NoDocument},
             conn'[c] = [kind |-> "status", stage |-> stage, doc |-> doc]
      PROVE  IsPoll(conn'[c])
  BY <1>2, RequestIsNotNone DEF IsPoll, Request
<1>3. CASE ControlTask \/ OtherClient
  BY <1>3 DEF ControlTask, OtherClient
<1>4. CASE Restart
  BY <1>1, <1>2, <1>4 DEF Restart
<1>5. ASSUME NEW d \in Conns, Handler(d) PROVE IsPoll(conn'[c])
  <2>1. CASE d # c
    <3>1. PICK kind, stage, doc : Goes(d, kind, stage, doc)
      BY <1>5 DEF Handler, pump_command, Refused, apply_settings, Saved, control_status,
         settings_get, events_handler
    <3> QED BY <2>1, <3>1, GoesTo
  <2>2. CASE d = c
    <3>1. Saved(c) \/ control_status(c) \/ settings_get(c)
      BY <1>1, <1>5, <2>2 DEF Handler, pump_command, Refused, apply_settings,
         events_handler, Taken, Asks
    <3>2. status \in Document /\ conn[c].doc \in Document \cup {NoDocument}
      BY <1>1, StatusIsDocument DEF Request
    <3>3. PICK stage \in {"error", "acted", "copied", "ok"}, doc \in Document \cup {NoDocument} :
            Goes(c, "status", stage, doc)
      <4>1. CASE Saved(c)
        BY <1>1, <4>1 DEF Saved
      <4>2. CASE control_status(c)
        BY <1>1, <3>2, <4>2 DEF control_status
      <4>3. CASE settings_get(c)
        <5>1. Goes(c, "status", "ok", conn[c].doc)
          BY <1>1, <4>3 DEF settings_get, Commands
        <5>2. \E doc \in Document \cup {NoDocument} : Goes(c, "status", "ok", doc)
          BY <3>2, <5>1
        <5> QED BY <5>2
      <4> QED BY <3>1, <4>1, <4>2, <4>3
    <3>4. conn'[c] = [kind |-> "status", stage |-> stage, doc |-> doc]
      BY <3>3, GoesTo
    <3> QED BY <1>2, <3>4
  <2> QED BY <2>1, <2>2
<1> QED BY <1>3, <1>4, <1>5 DEF Device

(* An answer that is not one to a poll takes no poll away.                 *)
LEMMA OthersKeepPolls ==
  ASSUME IInv, NEW c \in Conns, ~IsPoll(conn[c]), Answered(c) \/ Lost(c),
         NEW d \in Conns, IsPoll(conn[d])
  PROVE  IsPoll(conn'[d])
  BY AnsweredTo

LEMMA NextPollWaits ==
  ASSUME NextPoll, visible
  PROVE  timer'
  BY DEF NextPoll

LEMMA AsksKeepPolls ==
  ASSUME IInv, NEW kind \in Commands \cup {"status", "events", "settings"}, Send(kind)
  PROVE  /\ \A c \in Conns : IsPoll(conn[c]) => IsPoll(conn'[c])
         /\ kind = "status" => \E c \in Conns : IsPoll(conn'[c])
  BY AsksTo, PollAsked DEF IsPoll

LEMMA NextPolls == IInv /\ PollingAlive /\ [Next]_vars => PollingAlive'
<1> SUFFICES ASSUME IInv, visible => Polls, [Next]_vars, visible' PROVE Polls'
  BY DEF PollingAlive, Polls, IsPoll
<1>1. CASE Device /\ UNCHANGED <<page, slide, visible>>
  BY <1>1, DeviceKeepsPolls DEF Polls, page
<1>2. CASE refresh
  <2>1. \E c \in Conns : IsPoll(conn'[c])
    BY <1>2, AsksKeepPolls DEF refresh
  <2> QED BY <2>1 DEF Polls
<1>3. CASE HistoryTab
  <2>1. \E c \in Conns : IsPoll(conn'[c])
    BY <1>3, HistoryTabTo, PollAsked
  <2> QED BY <2>1 DEF Polls
<1>4. CASE SlideFires \/ AutoChip \/ Stepper
  <2>1. PICK kind \in Commands \cup {"settings"} : Send(kind)
    BY <1>4 DEF SlideFires, AutoChip, Stepper, Commands
  <2>2. visible' = visible /\ timer' = timer /\ strays' = strays
    BY <1>4 DEF SlideFires, AutoChip, Stepper, page
  <2> QED BY <2>1, <2>2, AsksKeepPolls DEF Polls
<1>5. CASE Hide \/ SlideBegins \/ SlideLetGo
  BY <1>5 DEF Hide, SlideBegins, SlideLetGo, page, Polls
<1>6. ASSUME NEW c \in Conns, Answered(c) \/ Lost(c) PROVE Polls'
  <2>1. visible' = visible
    BY <1>6 DEF Answered, StatusAnswered, EventsAnswered, CommandAnswered,
       SettingsAnswered, Failed, Lost, GivesUp
  <2>2. conn[c] # NoRequest
    BY <1>6 DEF Answered, StatusAnswered, EventsAnswered, CommandAnswered,
       SettingsAnswered, Failed, Lost, At
  <2>3. CASE conn[c].kind = "status"
    <3>1. NextPoll
      BY <1>6, <2>3 DEF Answered, StatusAnswered, EventsAnswered, CommandAnswered,
         SettingsAnswered, Failed, Lost, GivesUp
    <3> QED BY <2>1, <3>1, NextPollWaits DEF Polls
  <2>4. CASE conn[c].kind # "status"
    <3>1. timer' = timer /\ strays' = strays
      BY <1>6, <2>4 DEF Answered, StatusAnswered, EventsAnswered, CommandAnswered,
         SettingsAnswered, Failed, Lost, GivesUp, page
    <3> QED BY <1>6, <2>1, <2>4, <3>1, OthersKeepPolls DEF Polls, IsPoll
  <2> QED BY <2>3, <2>4
<1>7. CASE UNCHANGED vars
  BY <1>7 DEF vars, page, Polls
<1> QED BY <1>1, <1>2, <1>3, <1>4, <1>5, <1>6, <1>7
        DEF Next, Page, User, TimerFires, StrayFires, TabClick, Show

(* However polls, clicks, hiding and failures overlap, a page in view goes *)
(* on polling (the finally branch of refresh in app.html).                 *)
THEOREM KeepsPolling == Spec => []PollingAlive
<1>1. Init => PollingAlive
  <2> SUFFICES ASSUME Init PROVE \E c \in Conns : IsPoll(conn[c])
    BY DEF PollingAlive, IsPoll
  <2>1. PICK c \in Conns : conn = [d \in Conns |-> IF d = c THEN Ask("status") ELSE NoRequest]
    BY DEF Init
  <2> QED BY <2>1, PollAsked
<1>2. IInv /\ PollingAlive /\ [Next]_vars => PollingAlive'
  BY NextPolls
<1> QED BY <1>1, <1>2, Invariant, PTL DEF Spec

=============================================================================
