-------------------------------- MODULE Input --------------------------------
(***************************************************************************)
(* Keys and mouse buttons on their way from the user of a viewer into the  *)
(* system of the server: clntwnd.c, clntconn.c and os2xkey.c on one side,  *)
(* rfbserver.c, main.c and rfbsrv.c on the other.                          *)
(*                                                                         *)
(* A viewer sees its user only through its window: keys while the window   *)
(* is active, buttons while the pointer is over it or captured.  A server  *)
(* has several clients and one keyboard and one mouse.  What may go wrong  *)
(* is that a key or a button stays down that nobody holds.                 *)
(*                                                                         *)
(* Symbols are those of the protocol; the two levels of a key are two      *)
(* symbols, and may be on different keys of the server.  Positions, toggle *)
(* keys (CapsLock, Pause) and the text of WM_CHAR are left out.            *)
(*                                                                         *)
(* Assumed of users: they hold no more keys than aKeysPressed has slots,   *)
(* turn view-only mode on and off with nothing held and no sequence under  *)
(* way, and do not press Shift while a key repeats whose two symbols are   *)
(* on two keys of the server.  Otherwise keys and buttons do stay down.    *)
(***************************************************************************)
EXTENDS Integers, FiniteSets, SequencesExt

CONSTANTS Clients,    \* viewers connected to the server
          Scenes,     \* hands: what each user uses, "keys", "mouse" or "none"; driver:
                      \* VNCKBD$ is installed; cad: a program is set for Ctrl-Alt-Del;
                      \* defer: deferPtrUpdateTime is not 0; watchers: clients the
                      \* server lets watch only (cl->viewOnly)
          Keys,       \* keys of a viewer's keyboard
          Symbol,     \* [Keys \X BOOLEAN -> symbols]: of a key, without and with Shift
          Scan,       \* [symbols -> scan codes]: the server's keyboard table
          Sequences,  \* key sequences of the menu: [symbol, down]
          Slots,      \* size of aKeysPressed
          Buttons,    \* buttons of the mouse, in the order _cbPtrEvent looks at them
          MaxKeys,    \* bound: keys of pRFBKeySeq not sent yet
          MaxQueue    \* bound: messages under way before a viewer waits

Nobody == "nobody"
Wheel == "wheel"
Moved == <<"move", TRUE>>

Strokes == [symbol : DOMAIN Scan, down : BOOLEAN]

\* A key that is pressed is released later.
Releases(s) ==
  \A i \in DOMAIN s : s[i].down =>
    \E j \in DOMAIN s : j > i /\ ~s[j].down /\ Scan[s[j].symbol] = Scan[s[i].symbol]

ASSUME ScenesAssumption ==
  Scenes \subseteq [hands : [Clients -> {"keys", "mouse", "none"}], driver : BOOLEAN,
                   cad : BOOLEAN, defer : BOOLEAN, watchers : SUBSET Clients]
ASSUME KeysAssumption == Slots \in Nat \ {0} /\ Symbol \in [Keys \X BOOLEAN -> DOMAIN Scan]
\* The four sequences of the menu (clntwnd.c:1300-1335) release what they press.
ASSUME SequencesAssumption == \A s \in Sequences : s \in Seq(Strokes) /\ Releases(s)
ASSUME NamesAssumption ==
  /\ Buttons \in Seq(ToSet(Buttons)) /\ {Wheel, Moved[1]} \cap ToSet(Buttons) = {}
  /\ Nobody \notin Clients

VARIABLES scene,
  present,        \* clients connected
  viewOnly,       \* client->appData.viewOnly
  kb,             \* keyboard of each viewer
  ms,             \* mouse of each viewer
  toServer,       \* messages under way
  cl,             \* the server's record of each client
  pointerClient,  \* screen->pointerClient
  keysDown,       \* keys down for VNCKBD$ or in the shift state of KBD$
  buttonsDown     \* buttons whose last posted message is WM_BUTTONxDOWN

serverVars == <<cl, pointerClient, keysDown, buttonsDown>>
vars == <<scene, present, viewOnly, kb, ms, toServer, serverVars>>

Shift == "Shift"        \* a key
CtrlAlt == {"Ctrl", "Alt"}
ShiftKeys == {"Ctrl", "Alt", "Shift"}
Special == ShiftKeys \cup {"Esc", "Tab"}
Delete == "Del"

\* held: keys the user holds; active: fActivated; pressed: aKeysPressed;
\* seq: what pRFBKeySeq still has to send; at: where the thread is with it.
NoKeys == [held |-> {}, active |-> FALSE, pressed |-> <<>>, seq |-> <<>>, at |-> "null"]

\* down: buttons the user holds; over: the pointer is over the window; other:
\* another window has captured it; lMouseButtonsDown; last: ulMouseLastButton;
\* same: the pointer is at ptMouseLastPos; buttons: iRFBButtons.
NoMouse == [down |-> {}, over |-> FALSE, other |-> FALSE, lMouseButtonsDown |-> 0,
            last |-> Moved, same |-> FALSE, buttons |-> {}]

\* abState: scan codes with bit 1; deferred: lastPtrX >= 0.
NoClient == [abState |-> {}, lastPtrButtons |-> {}, deferred |-> FALSE, ulBtnFlags |-> {}]

Init ==
  /\ scene \in Scenes
  /\ present = Clients
  /\ viewOnly = [c \in Clients |-> FALSE]
  /\ kb = [c \in Clients |-> NoKeys] /\ ms = [c \in Clients |-> NoMouse]
  /\ toServer = [c \in Clients |-> <<>>]
  /\ cl = [c \in Clients |-> NoClient]
  /\ pointerClient = Nobody /\ keysDown = {} /\ buttonsDown = {}

KeyMsg(s, d) == [t |-> "key", symbol |-> s, down |-> d]
PointerMsg(mask) == [t |-> "pointer", mask |-> mask]

\* The user of c does something, unless the viewer waits for the socket.
Acts(c, device) == c \in present /\ scene.hands[c] = device /\ Len(toServer[c]) < MaxQueue

\* ccSendKeyEvent, ccSendMouseEvent: nothing is sent in view-only mode.
Sends(c, messages) ==
  toServer' = [toServer EXCEPT ![c] = IF viewOnly[c] THEN @ ELSE @ \o messages]

-----------------------------------------------------------------------------
(* The viewer's keyboard *)

\* The slot of a key, 0 if it has none.
Slot(pressed, k) ==
  LET I == {i \in DOMAIN pressed : pressed[i].key = k}
  IN IF I = {} THEN 0 ELSE CHOOSE i \in I : \A j \in I : i <= j

\* The slots of I moved together.
SlotsOf(pressed, I) ==
  [n \in 1..Cardinality(I) |->
     pressed[CHOOSE i \in I : Cardinality({j \in I : j <= i}) = n]]

\* Faulty variant: every press takes a new slot.
RegisterTwice(pressed, k, s) == Append(pressed, [key |-> k, symbol |-> s])
\* A pressed key takes its slot, a free one, or the place of the oldest.
Register(pressed, k, s) ==
  LET r == [key |-> k, symbol |-> s] IN
  IF Slot(pressed, k) # 0 THEN [pressed EXCEPT ![Slot(pressed, k)] = r]
  ELSE Append(IF Len(pressed) = Slots THEN Tail(pressed) ELSE pressed, r)

\* The symbol of a key: that of the level the user holds Shift for.
SymbolNow(c, k) ==
  IF Shift \in kb[c].held /\ k # Shift THEN Symbol[k, TRUE] ELSE Symbol[k, FALSE]

\* xkKeysymFromMP for a pressed key.  PM repeats a key that is held.
Pressed(c, k) ==
  LET s == SymbolNow(c, k)
  IN /\ kb' = [kb EXCEPT ![c].held = @ \cup {k}, ![c].pressed = Register(@, k, s)]
     /\ Sends(c, <<KeyMsg(s, TRUE)>>)

\* The symbols of a key that is repeated are on one key of the server.
SameKey(c, k) ==
  LET i == Slot(kb[c].pressed, k) IN
  i # 0 => Scan[kb[c].pressed[i].symbol] = Scan[SymbolNow(c, k)]

KeyPress(c, k) ==
  /\ Acts(c, "keys") /\ k \notin kb[c].held
  /\ Cardinality(kb[c].held) < Slots       \* assumed of the user
  /\ IF kb[c].active THEN Pressed(c, k)
     ELSE kb' = [kb EXCEPT ![c].held = @ \cup {k}] /\ UNCHANGED toServer
  /\ UNCHANGED <<scene, present, viewOnly, ms, serverVars>>

KeyRepeat(c, k) ==
  /\ Acts(c, "keys") /\ k \in kb[c].held /\ kb[c].active
  /\ SameKey(c, k)
  /\ Pressed(c, k)
  /\ UNCHANGED <<scene, present, viewOnly, ms, serverVars>>

\* A released key has the symbol it was pressed with.
SymbolThen(c, k) == kb[c].pressed[Slot(kb[c].pressed, k)].symbol

KeyRelease(c, k) ==
  /\ Acts(c, "keys") /\ k \in kb[c].held
  /\ IF kb[c].active /\ Slot(kb[c].pressed, k) # 0
     THEN /\ kb' = [kb EXCEPT ![c].held = @ \ {k},
                              ![c].pressed = RemoveAt(@, Slot(@, k))]
          /\ Sends(c, <<KeyMsg(SymbolThen(c, k), FALSE)>>)
     ELSE kb' = [kb EXCEPT ![c].held = @ \ {k}] /\ UNCHANGED toServer
  /\ UNCHANGED <<scene, present, viewOnly, ms, serverVars>>

\* WM_ACTIVATE: "Send events for keys released while the window has been
\* inactive" (clntwnd.c:1121), xkKeysymFromMPCheck.
Activate(c) ==
  /\ Acts(c, "keys") /\ ~kb[c].active
  /\ LET pressed == kb[c].pressed
         held == {i \in DOMAIN pressed : pressed[i].key \in kb[c].held}
         gone == SlotsOf(pressed, DOMAIN pressed \ held)
     IN /\ kb' = [kb EXCEPT ![c].active = TRUE, ![c].pressed = SlotsOf(@, held)]
        /\ Sends(c, [i \in DOMAIN gone |-> KeyMsg(gone[i].symbol, FALSE)])
  /\ UNCHANGED <<scene, present, viewOnly, ms, serverVars>>

Deactivate(c) ==
  /\ Acts(c, "keys") /\ kb[c].active
  /\ kb' = [kb EXCEPT ![c].active = FALSE]
  /\ UNCHANGED <<scene, present, viewOnly, ms, toServer, serverVars>>

\* ccSendKeySequence appends to a sequence that is still being sent.
SendKeySequence(c, s) ==
  /\ Acts(c, "keys") /\ kb[c].active /\ ~viewOnly[c]
  /\ Len(kb[c].seq) + Len(s) <= MaxKeys
  /\ kb' = [kb EXCEPT ![c].seq = @ \o s, ![c].at = IF @ = "null" THEN "next" ELSE @]
  /\ UNCHANGED <<scene, present, viewOnly, ms, toServer, serverVars>>

\* The RFB thread sends one key in a round of its loop...
SequenceKey(c) ==
  /\ c \in present /\ Len(toServer[c]) < MaxQueue
  /\ kb[c].at = "next" /\ kb[c].seq # <<>>
  /\ Sends(c, <<KeyMsg(Head(kb[c].seq).symbol, Head(kb[c].seq).down)>>)
  /\ kb' = [kb EXCEPT ![c].seq = Tail(@)]
  /\ UNCHANGED <<scene, present, viewOnly, ms, serverVars>>

\* ... sees that all are sent...
SequenceEnd(c) ==
  /\ c \in present
  /\ kb[c].at = "next" /\ kb[c].seq = <<>>
  /\ kb' = [kb EXCEPT ![c].at = "free"]
  /\ UNCHANGED <<scene, present, viewOnly, ms, toServer, serverVars>>

\* ... and frees the record, with what the other thread has added meanwhile.
SequenceFree(c) ==
  /\ c \in present
  /\ kb[c].at = "free"
  /\ kb' = [kb EXCEPT ![c].at = "null", ![c].seq = <<>>]
  /\ UNCHANGED <<scene, present, viewOnly, ms, toServer, serverVars>>

-----------------------------------------------------------------------------
(* The viewer's mouse *)

\* Does the window get the messages of the mouse?  It has captured it while
\* buttons are down; other windows do the same.
Seen(m) == m.lMouseButtonsDown > 0 \/ (m.over /\ ~m.other)

\* ccSendMouseEvent: "Only 'pressed' events for Wheel" (clntconn.c:1679).
Mouse(c, m, buttons, wheel) ==
  /\ ms' = [ms EXCEPT ![c] = [m EXCEPT !.buttons = IF viewOnly[c] THEN @ ELSE buttons]]
  /\ Sends(c, IF wheel THEN <<PointerMsg(buttons \cup {Wheel}), PointerMsg(buttons)>>
              ELSE <<PointerMsg(buttons)>>)

\* _wmMouse for the message b: the same again is dropped.
WmMouse(c, m, b, buttons, count) ==
  IF m.same /\ m.last = b THEN ms' = [ms EXCEPT ![c] = m] /\ UNCHANGED toServer
  ELSE Mouse(c, [m EXCEPT !.same = TRUE, !.last = b, !.lMouseButtonsDown = @ + count],
             buttons, FALSE)

\* The pointer goes anywhere, back to where it was seen last too.
Move(c, over) ==
  /\ Acts(c, "mouse")
  /\ \E same \in BOOLEAN :
       LET m == [ms[c] EXCEPT !.over = over, !.same = same]
       IN IF Seen(m) THEN WmMouse(c, m, Moved, m.buttons, 0)
          ELSE ms' = [ms EXCEPT ![c] = m] /\ UNCHANGED toServer
  /\ UNCHANGED <<scene, present, viewOnly, kb, serverVars>>

ButtonDown(c, b) ==
  /\ Acts(c, "mouse") /\ b \notin ms[c].down
  /\ LET m == [ms[c] EXCEPT !.down = @ \cup {b}]
     IN IF Seen(ms[c]) THEN WmMouse(c, m, <<b, TRUE>>, m.buttons \cup {b}, 1)
        ELSE ms' = [ms EXCEPT ![c] = [m EXCEPT !.other = TRUE]] /\ UNCHANGED toServer
  /\ UNCHANGED <<scene, present, viewOnly, kb, serverVars>>

ButtonUp(c, b) ==
  /\ Acts(c, "mouse") /\ b \in ms[c].down
  /\ LET m == [ms[c] EXCEPT !.down = @ \ {b}]
     IN IF Seen(ms[c]) THEN WmMouse(c, m, <<b, FALSE>>, m.buttons \ {b}, -1)
        ELSE /\ ms' = [ms EXCEPT ![c] = [m EXCEPT !.other = m.down # {}]]
             /\ UNCHANGED toServer
  /\ UNCHANGED <<scene, present, viewOnly, kb, serverVars>>

TurnWheel(c) ==
  /\ Acts(c, "mouse") /\ Seen(ms[c])
  /\ Mouse(c, [ms[c] EXCEPT !.same = TRUE, !.last = <<Wheel, TRUE>>], ms[c].buttons, TRUE)
  /\ UNCHANGED <<scene, present, viewOnly, kb, serverVars>>

\* ccSetViewOnly, by a user who has let everything go.
ToggleViewOnly(c) ==
  /\ c \in present
  /\ kb[c].pressed = <<>> /\ kb[c].at = "null" /\ ms[c].buttons = {} /\ ms[c].down = {}
  /\ viewOnly' = [viewOnly EXCEPT ![c] = ~@]
  /\ UNCHANGED <<scene, present, kb, ms, toServer, serverVars>>

-----------------------------------------------------------------------------
(* The server *)

Receive(c, t) ==
  /\ c \in present /\ toServer[c] # <<>> /\ Head(toServer[c]).t = t
  /\ toServer' = [toServer EXCEPT ![c] = Tail(@)]

\* _cbKeyEvent: what goes through a keyboard driver; the rest is posted.
Routed(scan, state) ==
  IF scene.driver THEN scan \in Special \/ state \cap CtrlAlt # {} ELSE scan \in ShiftKeys

\* Ctrl-Alt-Del runs a program instead.
RunsProgram(scan, down, state) == scene.cad /\ down /\ scan = Delete /\ CtrlAlt \subseteq state

\* rfbKeyEvent, xkMPFromKeysym, _cbKeyEvent
KeyEvent(c) ==
  /\ Receive(c, "key")
  /\ LET m == Head(toServer[c])
         scan == Scan[m.symbol]
         With(set) == IF m.down THEN set \cup {scan} ELSE set \ {scan}
         state == With(cl[c].abState)
     IN IF c \in scene.watchers THEN UNCHANGED <<cl, keysDown>>
        ELSE /\ cl' = [cl EXCEPT ![c].abState = state]
             /\ keysDown' = IF Routed(scan, state) /\ ~RunsProgram(scan, m.down, state)
                            THEN With(keysDown) ELSE keysDown
  /\ UNCHANGED <<scene, present, viewOnly, kb, ms, pointerClient, buttonsDown>>

\* _cbPtrEvent posts a message for the last button that differs, if the wheel
\* does not.
PtrEvent(c, mask, k) ==
  LET differ == {i \in DOMAIN Buttons : (Buttons[i] \in mask) # (Buttons[i] \in k.ulBtnFlags)}
      b == Buttons[CHOOSE i \in differ : \A j \in differ : j <= i]
  IN IF mask = k.ulBtnFlags \/ Wheel \in mask
     THEN cl' = [cl EXCEPT ![c] = k] /\ UNCHANGED buttonsDown
     ELSE /\ cl' = [cl EXCEPT ![c] = [k EXCEPT !.ulBtnFlags = mask]]
          /\ buttonsDown' = IF b \in mask THEN buttonsDown \cup {b} ELSE buttonsDown \ {b}

\* Faulty variant: a client may take the pointer of another one.
MineAny(c) == TRUE
\* The pointer is the client's whose buttons are down.
Mine(c) == pointerClient \in {Nobody, c}

\* rfbPointerEvent
PointerEvent(c) ==
  /\ Receive(c, "pointer")
  /\ LET mask == Head(toServer[c]).mask
         k == [cl[c] EXCEPT !.lastPtrButtons = mask]
     IN IF ~Mine(c) THEN UNCHANGED <<cl, pointerClient, buttonsDown>>
        ELSE /\ pointerClient' = IF mask = {} THEN Nobody ELSE c
             /\ IF c \in scene.watchers THEN UNCHANGED <<cl, buttonsDown>>
                ELSE IF mask # cl[c].lastPtrButtons \/ ~scene.defer THEN PtrEvent(c, mask, k)
                ELSE cl' = [cl EXCEPT ![c].deferred = TRUE] /\ UNCHANGED buttonsDown
  /\ UNCHANGED <<scene, present, viewOnly, kb, ms, keysDown>>

\* rfbUpdateClient, when the time of the deferred position has come.
UpdatePointer(c) ==
  /\ c \in present /\ cl[c].deferred
  /\ PtrEvent(c, cl[c].lastPtrButtons, [cl[c] EXCEPT !.deferred = FALSE])
  /\ UNCHANGED <<scene, present, viewOnly, kb, ms, toServer, pointerClient, keysDown>>

\* rfbClientConnectionGone lets the pointer go, but no button and no key.
Gone(c) ==
  /\ c \in present
  /\ present' = present \ {c}
  /\ pointerClient' = IF pointerClient = c THEN Nobody ELSE pointerClient
  /\ toServer' = [toServer EXCEPT ![c] = <<>>]
  /\ UNCHANGED <<scene, viewOnly, kb, ms, cl, keysDown, buttonsDown>>

-----------------------------------------------------------------------------
UserStep(c) ==
  \/ \E k \in Keys : KeyPress(c, k) \/ KeyRepeat(c, k) \/ KeyRelease(c, k)
  \/ Activate(c) \/ Deactivate(c) \/ \E s \in Sequences : SendKeySequence(c, s)
  \/ \E b \in ToSet(Buttons) : ButtonDown(c, b) \/ ButtonUp(c, b)
  \/ TurnWheel(c) \/ \E over \in BOOLEAN : Move(c, over)
  \/ ToggleViewOnly(c)

ThreadStep(c) == SequenceKey(c) \/ SequenceEnd(c) \/ SequenceFree(c)
ServerStep(c) == KeyEvent(c) \/ PointerEvent(c) \/ UpdatePointer(c) \/ Gone(c)

Next == \E c \in Clients : UserStep(c) \/ ThreadStep(c) \/ ServerStep(c)

Spec == Init /\ [][Next]_vars

-----------------------------------------------------------------------------
(* Properties *)

Masks == SUBSET (ToSet(Buttons) \cup {Wheel})
Scans == Range(Scan)

Keyboards ==
  [held : SUBSET Keys, active : BOOLEAN, pressed : Seq([key : Keys, symbol : DOMAIN Scan]),
   seq : Seq(Strokes), at : {"null", "next", "free"}]
Mice ==
  [down : SUBSET ToSet(Buttons), over : BOOLEAN, other : BOOLEAN,
   lMouseButtonsDown : 0..Len(Buttons),
   last : (ToSet(Buttons) \X BOOLEAN) \cup {Moved, <<Wheel, TRUE>>},
   same : BOOLEAN, buttons : SUBSET ToSet(Buttons)]
Messages ==
  [t : {"key"}, symbol : DOMAIN Scan, down : BOOLEAN] \cup [t : {"pointer"}, mask : Masks]
Records ==
  [abState : SUBSET Scans, lastPtrButtons : Masks, deferred : BOOLEAN,
   ulBtnFlags : SUBSET ToSet(Buttons)]

\* No key has two slots, and there are never more buttons down than there are.
TypeOK ==
  /\ scene \in Scenes
  /\ present \subseteq Clients /\ viewOnly \in [Clients -> BOOLEAN]
  /\ kb \in [Clients -> Keyboards] /\ ms \in [Clients -> Mice]
  /\ \A c \in Clients : LET pressed == kb[c].pressed IN
       Len(pressed) <= Slots /\ IsInjective([i \in DOMAIN pressed |-> pressed[i].key])
  /\ toServer \in [Clients -> Seq(Messages)]
  /\ cl \in [Clients -> Records]
  /\ pointerClient \in Clients \cup {Nobody}
  /\ keysDown \subseteq Scans /\ buttonsDown \subseteq ToSet(Buttons)

Quiet(c) == c \in present /\ toServer[c] = <<>> /\ kb[c].at = "null"

\* "Send events for keys released while the window has been inactive"
\* (clntwnd.c:1121): when all has arrived the server takes no key for pressed
\* that the viewer does not, and an active viewer none that its user does not
\* hold, whatever symbols the key had on the way and whatever the thread sent
\* in between; and of the keys that always go through a driver none is down in
\* the server's system that no client has pressed.
KeysReleased ==
  /\ \A c \in Clients : Quiet(c) =>
       /\ \A x \in cl[c].abState : \E r \in ToSet(kb[c].pressed) : Scan[r.symbol] = x
       /\ kb[c].active => \A r \in ToSet(kb[c].pressed) : r.key \in kb[c].held
  /\ keysDown \cap Special \subseteq UNION {cl[c].abState : c \in Clients}

\* Who drags owns the pointer: no other client moves a button meanwhile, no
\* button stays down in the system that no client has down, and when all has
\* arrived none that its user does not hold, wherever he let it go.
DragOwned ==
  /\ \A c \in present : cl[c].ulBtnFlags # {} => pointerClient = c
  /\ buttonsDown \subseteq UNION {cl[c].ulBtnFlags : c \in Clients}
  /\ \A c \in Clients : Quiet(c) =>
       cl[c].ulBtnFlags \subseteq ms[c].buttons /\ ms[c].buttons \subseteq ms[c].down
=============================================================================
