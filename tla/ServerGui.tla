------------------------------- MODULE ServerGui -------------------------------
(***************************************************************************)
(* The two threads of the VNC server and the messages between them: the    *)
(* main thread (VNCServer/main.c, rfbsrv.c), which owns the clients, and   *)
(* the GUI thread (gui.c, clientsdlg.c, common/chatwin.c), which owns the  *)
(* list of clients and the chat windows.                                   *)
(*                                                                         *)
(* Each calls the other with WinSendMsg and waits for the answer.  A       *)
(* thread that waits still runs the handlers of what is sent to it, so     *)
(* that handlers nest on both sides: a thread is a stack of frames, each a *)
(* handler that runs or waits.  Only sent messages are handled so; what is *)
(* posted, the user's commands and the clients wait until the stack is     *)
(* empty, or until a message box is on its top.                            *)
(*                                                                         *)
(* The GUI names a client by the address of its record.  A member of       *)
(* Clients is one connection, a member of Addrs an address that may serve  *)
(* several of them, one after the other; the same holds for the records of *)
(* the list window (Slots).                                                *)
(***************************************************************************)
EXTENDS Integers, Sequences, SequencesExt, FiniteSets

CONSTANTS MaxClients, \* bound: connections, numbered as they come
          Addrs,      \* addresses of client records
          Slots,      \* addresses of records of the list window
          Wins,       \* handles of chat windows
          None        \* NULL and NULLHANDLE

ASSUME BoundsAssumption == MaxClients \in Nat

Clients == 1..MaxClients
Threads == {"srv", "gui"}

VARIABLES
  stack,    \* frames of each thread, the innermost last
  inbox,    \* messages sent to a thread and not taken yet
  quit,     \* threads whose queue holds WM_QUIT
  down,     \* threads that have ended; hwndGUI is NULLHANDLE when "gui" has
  phase,    \* "new", in the library's list, in its gone hook, freed
  at,       \* address of a client's record
  hwndChat, \* chat window of a client
  cClients, \* counter of rfbsrv.c
  viewer,   \* whether the main window is the clipboard viewer
  dlg,      \* list window: "none", in WM_INITDLG, "open" (hwndClients is set)
  recs,     \* records of the list window
  win,      \* chat windows
  shown     \* cClients of the GUI window and whether its icon is the one for clients

threadVars == <<stack, inbox>>
clientVars == <<phase, at, hwndChat, cClients, viewer>>
guiVars    == <<dlg, recs, win, shown>>
endVars    == <<quit, down>>
vars == <<threadVars, clientVars, guiVars, endVars>>

\* A frame, or the message that will become one: the handler or the place in
\* it, its arguments, the clients it has still to list, whether it waits, and
\* the frame of the other thread that waits for it (0: none).
Blank == [op |-> "", c |-> 0, a |-> None, w |-> None, s |-> None, n |-> 0, on |-> FALSE,
          rest |-> {}, wait |-> FALSE, back |-> 0]
F(op, c)    == [Blank EXCEPT !.op = op, !.c = c, !.a = IF c = 0 THEN None ELSE at[c]]
Closed      == [a |-> None, c |-> 0, on |-> FALSE, visible |-> FALSE]
NoRecord    == [live |-> FALSE, a |-> None, c |-> 0]
NoRecords   == [s \in Slots |-> NoRecord]

Listed      == {c \in Clients : phase[c] = "listed"}
Allocated   == {c \in Clients : phase[c] \in {"listed", "going"}}

Init ==
  /\ stack = [t \in Threads |-> <<>>] /\ inbox = [t \in Threads |-> <<>>]
  /\ quit = {} /\ down = {}
  /\ phase = [c \in Clients |-> "new"] /\ at = [c \in Clients |-> None]
  /\ hwndChat = [c \in Clients |-> None]
  /\ cClients = 0 /\ viewer = FALSE
  /\ dlg = "none" /\ recs = NoRecords
  /\ win = [w \in Wins |-> Closed]
  /\ shown = [n |-> 0, online |-> FALSE]

-----------------------------------------------------------------------------
(* Sent messages. *)

Other(t) == IF t = "srv" THEN "gui" ELSE "srv"
Top(t) == IF stack[t] = <<>> THEN Blank ELSE Last(stack[t])
At(t, op) == Top(t).op = op /\ ~Top(t).wait

\* In the loop of the thread, or in that of a message box.
Free(t) == t \notin down /\ Top(t).op \in {"", "box"}
Idle(t) == t \notin down /\ stack[t] = <<>>

\* Thread t is left with frames fs below frame f, which sends m.  A window
\* that is gone answers at once.
SendFrom(t, fs, f, m) ==
  LET alive == Other(t) \notin down IN
  /\ stack' = [stack EXCEPT ![t] = Append(fs, [f EXCEPT !.wait = alive])]
  /\ inbox' = IF alive THEN [inbox EXCEPT ![Other(t)] = Append(@, [m EXCEPT !.back = Len(fs) + 1])]
              ELSE inbox
Send(t, f, m)  == SendFrom(t, Front(stack[t]), [f EXCEPT !.back = Top(t).back], m)
Start(t, f, m) == SendFrom(t, stack[t], f, m)

\* The frame on top ends; the one that waits for it gets the answer w.
Answer(t, w) ==
  LET back == Top(t).back
      rest == [stack EXCEPT ![t] = Front(@)] IN
  /\ stack' = IF back = 0 THEN rest
              ELSE [rest EXCEPT ![Other(t)][back] = [@ EXCEPT !.wait = FALSE, !.w = w]]
  /\ UNCHANGED inbox
Return(t) == Answer(t, IF Top(t).back = 0 THEN None ELSE stack[Other(t)][Top(t).back].w)

\* Faulty variant: a thread that waits for an answer serves nobody.
TakeWhenFree(t) ==
  /\ inbox[t] # <<>>
  /\ Free(t)
  /\ stack' = [stack EXCEPT ![t] = Append(@, Head(inbox[t]))]
  /\ inbox' = [inbox EXCEPT ![t] = Tail(@)]
  /\ UNCHANGED <<clientVars, guiVars, endVars>>

\* A sent message is taken by a thread that looks into its queue or waits.
Take(t) ==
  /\ inbox[t] # <<>>
  /\ Free(t) \/ Top(t).wait
  /\ stack' = [stack EXCEPT ![t] = Append(@, Head(inbox[t]))]
  /\ inbox' = [inbox EXCEPT ![t] = Tail(@)]
  /\ UNCHANGED <<clientVars, guiVars, endVars>>

-----------------------------------------------------------------------------
(* The main thread: clients come and go. *)

\* _wmSrvClntNumChanged, called by the hooks: the main window is clipboard
\* viewer as long as there are clients, and the GUI window is told.
NumChanged(n) ==
  /\ viewer' = (n # 0)
  /\ cClients' = n
NumMessage(n, new, c) == [F("num", c) EXCEPT !.n = n, !.on = new]

\* A client's record is allocated, linked and accepted by the hook; the next
\* frame is left with frames fs below it.
ClientNew(fs, back) ==
  \E c \in Clients, a \in Addrs \ {at[d] : d \in Allocated} :
    /\ phase[c] = "new" /\ \A d \in 1..(c - 1) : phase[d] # "new"
    /\ phase' = [phase EXCEPT ![c] = "listed"]
    /\ at' = [at EXCEPT ![c] = a]
    /\ NumChanged(cClients + 1)
    /\ SendFrom("srv", fs, [Blank EXCEPT !.op = "joined", !.back = back],
                [NumMessage(cClients + 1, TRUE, c) EXCEPT !.a = a])
    /\ UNCHANGED <<hwndChat, guiVars, endVars>>

\* A connection is accepted; a connected socket is attached for the GUI.
Accept == Idle("srv") /\ ClientNew(<<>>, 0)
Attach == At("srv", "attach") /\ ClientNew(Front(stack["srv"]), Top("srv").back)
\* rfbsAttach: the socket cannot be used.
AttachFails == At("srv", "attach") /\ Return("srv") /\ UNCHANGED <<clientVars, guiVars, endVars>>
Joined == At("srv", "joined") /\ Return("srv") /\ UNCHANGED <<clientVars, guiVars, endVars>>

\* rfbClientConnectionGone unlinks the client; _cbClientGone first tells its
\* chat window, which stays on the screen without input.
ConnectionGone ==
  /\ Idle("srv")
  /\ \E c \in Listed :
       /\ phase' = [phase EXCEPT ![c] = "going"]
       /\ IF hwndChat[c] # None
          THEN Start("srv", F("gone", c), [F("system", c) EXCEPT !.w = hwndChat[c]])
          ELSE stack' = [stack EXCEPT !["srv"] = <<F("gone", c)>>] /\ UNCHANGED inbox
  /\ UNCHANGED <<at, hwndChat, cClients, viewer, guiVars, endVars>>

\* Faulty variant: the number is told before it is lowered.
CountDownLate ==
  /\ At("srv", "gone")
  /\ LET c == Top("srv").c IN
       /\ NumChanged(cClients - 1)
       /\ Send("srv", F("free", c), NumMessage(cClients, FALSE, c))
  /\ UNCHANGED <<phase, at, hwndChat, guiVars, endVars>>

\* Faulty variant: the counter is lowered once more after the message.
CountDownTwice ==
  /\ At("srv", "gone")
  /\ LET c == Top("srv").c IN
       /\ NumChanged(cClients - 2)
       /\ Send("srv", F("free", c), NumMessage(cClients - 1, FALSE, c))
  /\ UNCHANGED <<phase, at, hwndChat, guiVars, endVars>>

\* The counter goes down and the windows are told.
CountDown ==
  /\ At("srv", "gone")
  /\ LET c == Top("srv").c IN
       IF cClients = 0
       THEN /\ stack' = [stack EXCEPT !["srv"] = Append(Front(@), F("free", c))]
            /\ UNCHANGED <<inbox, cClients, viewer>>
       ELSE /\ NumChanged(cClients - 1)
            /\ Send("srv", F("free", c), NumMessage(cClients - 1, FALSE, c))
  /\ UNCHANGED <<phase, at, hwndChat, guiVars, endVars>>

\* The client's data and its record are freed.
FreeClient ==
  /\ At("srv", "free")
  /\ LET c == Top("srv").c IN
       /\ phase' = [phase EXCEPT ![c] = "freed"]
       /\ at' = [at EXCEPT ![c] = None]
       /\ hwndChat' = [hwndChat EXCEPT ![c] = None]
  /\ Return("srv")
  /\ UNCHANGED <<cClients, viewer, guiVars, endVars>>

-----------------------------------------------------------------------------
(* The main thread: chat messages of the clients. *)

System(c, w, allow) == [F("system", c) EXCEPT !.w = w, !.on = allow]

\* _cbSetTextChat, rfbTextChatOpen: a window is opened unless the client has
\* one, and input is allowed.
TextChatOpen ==
  /\ Idle("srv")
  /\ \E c \in Listed :
       IF hwndChat[c] = None
       THEN Start("srv", F("opening", c), F("chatopen", c))
       ELSE Start("srv", F("showing", c), System(c, hwndChat[c], TRUE))
  /\ UNCHANGED <<clientVars, guiVars, endVars>>

ChatOpened ==
  /\ At("srv", "opening")
  /\ LET f == Top("srv") IN
       /\ hwndChat' = [hwndChat EXCEPT ![f.c] = f.w]
       /\ IF f.w = None THEN Return("srv")
          ELSE Send("srv", F("showing", f.c), System(f.c, f.w, TRUE))
  /\ UNCHANGED <<phase, at, cClients, viewer, guiVars, endVars>>

\* The title is set and the window shown, if the client still has it.
ShowChat ==
  /\ At("srv", "showing")
  /\ LET w == hwndChat[Top("srv").c] IN
       win' = IF w = None THEN win
              ELSE [win EXCEPT ![w].visible = @ \/ win[w] # Closed]
  /\ Return("srv")
  /\ UNCHANGED <<clientVars, dlg, recs, shown, endVars>>

\* rfbTextChatClose and rfbTextChatFinished: input is not allowed any more.
TextChatLeft ==
  /\ Idle("srv")
  /\ \E c \in Listed :
       /\ hwndChat[c] # None
       /\ Start("srv", F("joined", c), System(c, hwndChat[c], FALSE))
  /\ UNCHANGED <<clientVars, guiVars, endVars>>

-----------------------------------------------------------------------------
(* The main thread: requests of the GUI, which name a client by address. *)

\* _isClientExists: the client in the list that has this address.
ClientAt(a) == {c \in Listed : at[c] = a}

\* rfbsForEachClient goes on with the clients of rest: one message back for
\* each of them.
ListNext(rest) ==
  /\ IF rest = {} THEN Return("srv")
     ELSE LET c == CHOOSE d \in rest : \A e \in rest : e <= d IN
          Send("srv", [F("list", 0) EXCEPT !.rest = rest \ {c}], F("listclient", c))
  /\ UNCHANGED <<clientVars, guiVars, endVars>>

\* Faulty variant: a client that is going is still in the list.
StartListAll == At("srv", "listing") /\ ListNext(Allocated)

\* WMSRV_LIST_CLIENTS.
StartList == At("srv", "listing") /\ ListNext(Listed)
ListClients == At("srv", "list") /\ ListNext(Top("srv").rest)

\* WMSRV_CHAT_MESSAGE without text: the client is asked to open a chat.
ChatAsk == At("srv", "ask") /\ Return("srv") /\ UNCHANGED <<clientVars, guiVars, endVars>>

\* WMSRV_CHAT_WINDOW: the client is told, and has no chat window any more.
SetChatWindow ==
  /\ At("srv", "chatwindow")
  /\ hwndChat' = [c \in Clients |-> IF c \in ClientAt(Top("srv").a) THEN None ELSE hwndChat[c]]
  /\ Return("srv")
  /\ UNCHANGED <<phase, at, cClients, viewer, guiVars, endVars>>

-----------------------------------------------------------------------------
(* The GUI thread: messages of the main thread. *)

RecordsOf(a) == {s \in Slots : recs[s].live /\ recs[s].a = a}

\* A record is made for a client that has none; its memory may have been that
\* of another record.  Without memory there is no record.
AddRecord(a, c) ==
  LET room == {s \in Slots : ~recs[s].live} IN
  IF RecordsOf(a) # {} \/ room = {} THEN recs' = recs
  ELSE \E s \in room : recs' = [recs EXCEPT ![s] = [live |-> TRUE, a |-> a, c |-> c]]

\* A removed record is freed; what was in its memory stays there for one who
\* still looks at it.
Boxed == {stack["gui"][i].s : i \in DOMAIN stack["gui"]}
RemoveRecord(a) ==
  recs' = [s \in Slots |-> IF s \notin RecordsOf(a) THEN recs[s]
                           ELSE IF s \in Boxed THEN [recs[s] EXCEPT !.live = FALSE]
                           ELSE NoRecord]

\* _wmGUIClntNumChanged: the icon changes with the first and the last client,
\* the list window is told when it is known.
GuiNumChanged ==
  /\ At("gui", "num")
  /\ LET f == Top("gui") IN
       /\ shown' = [n |-> f.n, online |-> IF f.on /\ f.n = 1 THEN TRUE
                                          ELSE IF ~f.on /\ f.n = 0 THEN FALSE
                                          ELSE shown.online]
       /\ IF dlg # "open" THEN recs' = recs
          ELSE IF f.on THEN AddRecord(f.a, f.c) ELSE RemoveRecord(f.a)
  /\ Return("gui")
  /\ UNCHANGED <<clientVars, dlg, win, endVars>>

\* WMCLNT_LISTCLIENT.
ListClient ==
  /\ At("gui", "listclient")
  /\ AddRecord(Top("gui").a, Top("gui").c)
  /\ Return("gui")
  /\ UNCHANGED <<clientVars, dlg, win, shown, endVars>>

\* chatwinCreate: the window is not shown yet.
ChatOpen ==
  /\ At("gui", "chatopen")
  /\ LET f == Top("gui")
         room == {w \in Wins : win[w] = Closed} IN
     IF room = {} THEN Answer("gui", None) /\ UNCHANGED win
     ELSE \E w \in room :
            /\ win' = [win EXCEPT ![w] = [a |-> f.a, c |-> f.c, on |-> TRUE, visible |-> FALSE]]
            /\ Answer("gui", w)
  /\ UNCHANGED <<clientVars, dlg, recs, shown, endVars>>

\* WMCHAT_MESSAGE with CWMT_SYSTEM allows input or not.
ChatSystem ==
  /\ At("gui", "system")
  /\ LET f == Top("gui") IN
       win' = IF win[f.w] = Closed THEN win ELSE [win EXCEPT ![f.w].on = f.on]
  /\ Return("gui")
  /\ UNCHANGED <<clientVars, dlg, recs, shown, endVars>>

-----------------------------------------------------------------------------
(* The GUI thread: commands of the user. *)

\* A message that was posted before WM_QUIT.
Commanded == "gui" \notin quit

Sent(op, next) ==
  /\ Start("gui", F(next, 0), F(op, 0))
  /\ UNCHANGED <<clientVars, recs, win, shown, endVars>>

\* CMD_CLIENTS_OPEN: the list is asked for in WM_INITDLG, before the GUI
\* window knows the dialog.
OpenList  == Idle("gui") /\ Commanded /\ dlg = "none" /\ dlg' = "creating" /\ Sent("listing", "listed")
\* WM_TIMER of the dialog.
Timer     == Free("gui") /\ Commanded /\ dlg = "open" /\ Sent("listing", "refreshed") /\ UNCHANGED dlg
\* The dialog of avdlg.c has connected a socket.
SendSocket == Free("gui") /\ Commanded /\ Sent("attach", "refreshed") /\ UNCHANGED dlg

\* The dialog is shown and the GUI window gets to know it.
ListShown ==
  /\ At("gui", "listed")
  /\ dlg' = "open"
  /\ Return("gui")
  /\ UNCHANGED <<clientVars, recs, win, shown, endVars>>

Refreshed == At("gui", "refreshed") /\ Return("gui") /\ UNCHANGED <<clientVars, guiVars, endVars>>

CloseList ==
  /\ Idle("gui") /\ Commanded /\ dlg = "open"
  /\ dlg' = "none" /\ recs' = NoRecords
  /\ UNCHANGED <<threadVars, clientVars, win, shown, endVars>>

\* _cmdChat for the record s, that of client c: WMSRV_CHAT_MESSAGE takes the
\* address from the record.
Ask(s, c) == [Blank EXCEPT !.op = "ask", !.a = recs[s].a, !.c = c]

\* The user is asked first when the protocol of the client may have no chat.
CmdChat ==
  /\ Idle("gui") /\ Commanded /\ dlg = "open"
  /\ \E s \in Slots :
       /\ recs[s].live
       /\ \/ Start("gui", F("refreshed", 0), Ask(s, recs[s].c))
          \/ /\ stack' = [stack EXCEPT !["gui"] = <<[Blank EXCEPT !.op = "box", !.s = s,
                                                                  !.c = recs[s].c]>>]
             /\ UNCHANGED inbox
  /\ UNCHANGED <<clientVars, guiVars, endVars>>

\* Yes, or No.
BoxAnswered ==
  /\ At("gui", "box")
  /\ \/ Send("gui", F("refreshed", 0), Ask(Top("gui").s, Top("gui").c))
     \/ Return("gui")
  /\ UNCHANGED <<clientVars, guiVars, endVars>>

\* A chat window is closed: its client is told, then it is destroyed.
CloseChat ==
  /\ Free("gui") /\ Commanded
  /\ \E w \in Wins :
       /\ win[w].visible
       /\ Start("gui", [Blank EXCEPT !.op = "closing", !.w = w],
                [Blank EXCEPT !.op = "chatwindow", !.a = win[w].a, !.c = win[w].c])
  /\ UNCHANGED <<clientVars, guiVars, endVars>>

ChatClosed ==
  /\ At("gui", "closing")
  /\ win' = [win EXCEPT ![Top("gui").w] = Closed]
  /\ Return("gui")
  /\ UNCHANGED <<clientVars, dlg, recs, shown, endVars>>

-----------------------------------------------------------------------------
(* The end of the program, as the user asks for it. *)

CmdQuit ==
  /\ Idle("gui") /\ "gui" \notin quit
  /\ quit' = quit \cup {"gui"}
  /\ UNCHANGED <<threadVars, clientVars, guiVars, down>>

\* Faulty variant: the GUI window does not tell the main window.
GuiEndsAlone ==
  /\ Idle("gui") /\ "gui" \in quit
  /\ down' = down \cup {"gui"} /\ quit' = quit
  /\ dlg' = "none" /\ recs' = NoRecords /\ win' = [w \in Wins |-> Closed]
  /\ inbox' = [inbox EXCEPT !["gui"] = <<>>]
  /\ stack' = [stack EXCEPT !["srv"] = [i \in DOMAIN @ |-> [@[i] EXCEPT !.wait = FALSE]]]
  /\ UNCHANGED <<clientVars, shown>>

\* The windows are destroyed, WM_CLOSE is posted to the main window and the
\* thread ends; what was sent to its windows comes back unanswered.
GuiEnds ==
  /\ Idle("gui") /\ "gui" \in quit
  /\ down' = down \cup {"gui"} /\ quit' = quit \cup {"srv"}
  /\ dlg' = "none" /\ recs' = NoRecords /\ win' = [w \in Wins |-> Closed]
  /\ inbox' = [inbox EXCEPT !["gui"] = <<>>]
  /\ stack' = [stack EXCEPT !["srv"] = [i \in DOMAIN @ |-> [@[i] EXCEPT !.wait = FALSE]]]
  /\ UNCHANGED <<clientVars, shown>>

\* rfbsDone: every client goes; guiDone has no thread to wait for.
ServerEnds ==
  /\ Idle("srv") /\ "srv" \in quit
  /\ down' = down \cup {"srv"}
  /\ phase' = [c \in Clients |-> IF phase[c] = "listed" THEN "freed" ELSE phase[c]]
  /\ at' = [c \in Clients |-> None] /\ hwndChat' = [c \in Clients |-> None]
  /\ cClients' = 0 /\ viewer' = FALSE
  /\ UNCHANGED <<threadVars, guiVars, quit>>

-----------------------------------------------------------------------------
\* What a thread does on its own once it has begun.
SrvStep ==
  \/ Attach \/ AttachFails \/ Joined \/ CountDown \/ FreeClient
  \/ ChatOpened \/ ShowChat \/ StartList \/ ListClients \/ ChatAsk \/ SetChatWindow
GuiStep ==
  \/ GuiNumChanged \/ ListClient \/ ChatOpen \/ ChatSystem
  \/ ListShown \/ Refreshed \/ ChatClosed

Environment ==
  \/ Accept \/ ConnectionGone \/ TextChatOpen \/ TextChatLeft
  \/ OpenList \/ CloseList \/ SendSocket \/ CmdChat \/ BoxAnswered
  \/ CloseChat \/ CmdQuit

Next ==
  \/ SrvStep \/ GuiStep \/ Environment
  \/ Timer \/ GuiEnds \/ ServerEnds
  \/ \E t \in Threads : Take(t)

Spec == Init /\ [][Next]_vars

\* The threads run, and both loops look at sent messages, timers and WM_QUIT
\* again and again, however often they are busy in between.  The user answers
\* a message box.
Fairness ==
  /\ WF_vars(SrvStep) /\ WF_vars(GuiStep) /\ SF_vars(BoxAnswered)
  /\ \A t \in Threads : SF_vars(Take(t))
  /\ SF_vars(Timer) /\ SF_vars(GuiEnds) /\ SF_vars(ServerEnds)

LiveSpec == Spec /\ Fairness

-----------------------------------------------------------------------------
Ops == {"num", "joined", "attach", "gone", "free", "opening", "showing", "chatopen", "system",
        "listing", "list", "listclient", "ask", "chatwindow", "listed",
        "refreshed", "box", "closing"}

FrameOK(f) ==
  /\ f.op \in Ops /\ f.c \in Clients \cup {0} /\ f.a \in Addrs \cup {None}
  /\ f.w \in Wins \cup {None} /\ f.s \in Slots \cup {None}
  /\ f.n \in 0..MaxClients /\ f.on \in BOOLEAN /\ f.rest \subseteq Clients
  /\ f.wait \in BOOLEAN /\ f.back \in Nat

\* Every variable holds what the code can put into it; the counter is never
\* below zero, and a thread waits for each message that is under way.
TypeOK ==
  /\ \A t \in Threads : /\ \A i \in DOMAIN stack[t] : FrameOK(stack[t][i])
                        /\ \A i \in DOMAIN inbox[t] : /\ FrameOK(inbox[t][i])
                                                      /\ stack[Other(t)][inbox[t][i].back].wait
  /\ quit \subseteq Threads /\ down \subseteq quit
  /\ phase \in [Clients -> {"new", "listed", "going", "freed"}]
  /\ at \in [Clients -> Addrs \cup {None}]
  /\ hwndChat \in [Clients -> Wins \cup {None}]
  /\ cClients \in 0..MaxClients /\ viewer \in BOOLEAN
  /\ dlg \in {"none", "creating", "open"}
  /\ \A s \in Slots : recs[s].live \in BOOLEAN /\ recs[s].a \in Addrs \cup {None}
  /\ \A w \in Wins : win[w].a \in Addrs \cup {None} /\ win[w].on \in BOOLEAN
  /\ shown.n \in 0..MaxClients /\ shown.online \in BOOLEAN

\* A record of the list window is that of one client whose memory is still
\* allocated, under the host name it has, and no client has two: the window
\* reads the client's fields without asking (clientsdlg.c:303, 365, 439).
RecordsLive ==
  \A s \in Slots : recs[s].live =>
    /\ \E c \in Allocated : at[c] = recs[s].a /\ recs[s].c = c
    /\ RecordsOf(recs[s].a) = {s}

\* When nothing is under way the number and the icon in the tray and the
\* clipboard viewer agree with the clients there are, however the messages of
\* clients that came and went were nested (rfbsrv.c:464, main.c:61, gui.c:374).
Quiet == \A t \in Threads : Idle(t) /\ inbox[t] = <<>>
Told ==
  Quiet => /\ cClients = Cardinality(Listed)
           /\ viewer = (cClients # 0)
           /\ shown.n = cClients /\ shown.online = (cClients # 0)

\* Both threads come back to their loops again and again, whatever they were
\* sending each other, and a client that stays is listed while the list window
\* is open and there is memory for its record (main.c:90, clientsdlg.c:237).
InList(c) == \/ \E s \in Slots : recs[s].live /\ recs[s].c = c
             \/ \A s \in Slots : recs[s].live
Settles ==
  /\ \A t \in Threads : []<>(Free(t) \/ t \in down)
  /\ \A c \in Clients : []<>(c \in Listed /\ dlg = "open" => InList(c))

\* Once the user has asked for the end both threads end, whatever they were
\* waiting for (gui.c:341, main.c:254).
QuitEnds == quit # {} ~> down = Threads
=============================================================================
