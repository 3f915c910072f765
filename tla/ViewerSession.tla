--------------------------- MODULE ViewerSession ---------------------------
(***************************************************************************)
(* One session of the viewer: the progress dialog (VNCViewer/progress.c)   *)
(* with its password dialog and reconnect timer, the client window         *)
(* (VNCViewer/clntwnd.c) and the message loop (VNCViewer/main.c), which    *)
(* all run in the GUI thread and use the connection objects of ClientConn. *)
(*                                                                         *)
(* Window handlers ignore the object named in a WM_VNC_STATE message and   *)
(* use the one their window holds (dlgCC, winCC).  A handler that goes on  *)
(* after a cc* call that may block says where in task.                     *)
(***************************************************************************)
EXTENDS ClientConn

CONSTANTS MaxAttempts,  \* stHostData.ulAttempts, for which there are objects
          PMFails       \* whether ccCreate and cwCreate may fail

\* The options dialog (optionsdlg.c:561) and the switch -a (lnchpad.c:1181) take
\* nothing below 1.
ASSUME AttemptsAssumption == MaxAttempts \in Nat \ {0} /\ MaxAttempts <= Cardinality(Conns)
ASSUME PMFailsAssumption == PMFails \in BOOLEAN

VARIABLES
  dlg,      \* progress dialog: "open", "box": it shows a message box, "closed"
  dlgCC,    \* pDlgData->pCC
  memo,     \* pDlgData->fUseMemorizedPswd
  pswd,     \* pDlgData->hwndPswd # NULLHANDLE
  attempt,  \* pDlgData->ulAttempt
  timer,    \* the reconnect timer runs
  cancel,   \* WM_COMMAND, MBID_CANCEL is in the queue
  win,      \* client window: "open" or "closed"
  winCC,    \* pWinData->pCC
  task      \* what the GUI thread does when the cc* call it is in returns

dlgVars  == <<dlg, dlgCC, memo, pswd, attempt, timer, cancel>>
winVars  == <<win, winCC>>
connVars == <<objVars, syncVars, dataVars, rfbVars, posted, gui>>
svars    == <<vars, dlgVars, winVars, task>>

Tasks == {"none", "create", "lockReady", "window", "unlock", "sendStored",
          "sendTyped", "closeDlg", "closeWin", "disconnect", "exit", "done"}

\* prStart: the dialog is loaded and starts the first connection.
SInit ==
  /\ Init
  /\ dlg = "open" /\ dlgCC = NoConn /\ memo \in BOOLEAN /\ pswd = FALSE
  /\ attempt = 0 /\ timer = FALSE /\ cancel = FALSE
  /\ win = "closed" /\ winCC = NoConn
  /\ task = "create"

Free == gui = Idle /\ task = "none"

\* The message at the head of the queue is state s for window w.
Received(w, s) == /\ posted # <<>>
                  /\ Head(posted).to = w /\ Head(posted).state = s

-----------------------------------------------------------------------------
(* Progress dialog. *)

\* _startConnection after the old object is destroyed.
StartConnection ==
  /\ gui = Idle /\ task = "create"
  /\ \E c \in Conns : CreateThread(c) /\ dlgCC' = c
  /\ attempt' = attempt + 1
  /\ task' = "none"
  /\ UNCHANGED <<dlg, memo, pswd, timer, cancel, winVars>>

\* ccCreate returns NULL: the dialog stays, without a connection.
StartFails ==
  /\ PMFails
  /\ gui = Idle /\ task = "create"
  /\ dlgCC' = NoConn
  /\ task' = "none"
  /\ UNCHANGED <<connVars, dlg, memo, pswd, attempt, timer, cancel, winVars>>

\* WM_VNC_STATE, RFBSTATE_READY: the object goes over to a client window while
\* its state is held.
OnReady ==
  /\ Free /\ dlg = "open" /\ Received("dlg", "READY")
  /\ Dispatch
  /\ task' = "lockReady"
  /\ UNCHANGED <<dlgVars, winVars>>

LockReady ==
  /\ task = "lockReady"
  /\ ccLockReadyState(dlgCC)
  /\ task' = "window"
  /\ UNCHANGED <<dlgVars, winVars>>

\* WinDestroyWindow: the password dialog is owned, the timers are stopped.
CloseDlg ==
  /\ dlg' = "closed" /\ dlgCC' = NoConn
  /\ pswd' = FALSE /\ timer' = FALSE /\ cancel' = FALSE
  /\ UNCHANGED <<memo, attempt>>

\* The state is READY no more: no window, and the object is left alone.
ReadyLost ==
  /\ gui = Idle /\ task = "lockReady"
  /\ MayLock(dlgCC, "gui") /\ ulRFBState[dlgCC] # "READY"
  /\ CloseDlg
  /\ task' = "none"
  /\ UNCHANGED <<connVars, winVars>>

CreateWindow ==
  /\ task = "window"
  /\ ccSetWindow(dlgCC)
  /\ win' = "open" /\ winCC' = dlgCC
  /\ task' = "unlock"
  /\ UNCHANGED dlgVars

CreateWindowFails ==
  /\ PMFails
  /\ task = "window"
  /\ task' = "unlock"
  /\ UNCHANGED <<connVars, dlgVars, winVars>>

UnlockReady ==
  /\ task = "unlock"
  /\ ccUnlockReadyState(dlgCC)
  /\ CloseDlg
  /\ task' = "none"
  /\ UNCHANGED winVars

\* RFBSTATE_WAITPASSWORD with a memorised password...
OnWaitPasswordStored ==
  /\ Free /\ dlg = "open" /\ Received("dlg", "WAITPASSWORD")
  /\ memo
  /\ Dispatch
  /\ task' = "sendStored"
  /\ UNCHANGED <<dlgVars, winVars>>

\* ... and without, or when none is found in the profile.
OnWaitPasswordAsk ==
  /\ Free /\ dlg = "open" /\ Received("dlg", "WAITPASSWORD")
  /\ Dispatch
  /\ memo' = FALSE
  /\ pswd' = TRUE
  /\ UNCHANGED <<dlg, dlgCC, attempt, timer, cancel, winVars, task>>

\* ccSendLogonInfo does nothing unless the object waits.
SendAnswer(c) ==
  \/ ccSendLogonInfo(c, "password")
  \/ /\ MayCall(c) /\ MayLock(c, "gui")
     /\ ulRFBState[c] # "WAITPASSWORD"
     /\ UNCHANGED connVars

SendStored ==
  /\ task = "sendStored"
  /\ SendAnswer(dlgCC)
  /\ task' = "none"
  /\ UNCHANGED <<dlgVars, winVars>>

\* The user presses Ok in the password dialog...
PswdEnter ==
  /\ Free /\ dlg = "open" /\ pswd
  /\ task' = "sendTyped"
  /\ UNCHANGED <<connVars, dlgVars, winVars>>

SendTyped ==
  /\ task = "sendTyped"
  /\ SendAnswer(dlgCC)
  /\ pswd' = FALSE
  /\ task' = "none"
  /\ UNCHANGED <<dlg, dlgCC, memo, attempt, timer, cancel, winVars>>

\* ... or Cancel in either dialog: a command is posted to the progress dialog.
PressCancel ==
  /\ Free /\ dlg = "open"
  /\ cancel' = TRUE
  /\ UNCHANGED <<connVars, dlg, dlgCC, memo, pswd, attempt, timer, winVars, task>>

\* _cmdCancel.  The loop of a message box dispatches the command as well.
OnCancel ==
  /\ Free /\ dlg # "closed" /\ cancel
  /\ cancel' = FALSE
  /\ IF dlgCC = NoConn THEN UNCHANGED connVars ELSE DestroyUnlist(dlgCC)
  /\ task' = "closeDlg"
  /\ UNCHANGED <<dlg, dlgCC, memo, pswd, attempt, timer, winVars>>

CloseDlgDone ==
  /\ gui = Idle /\ task = "closeDlg"
  /\ CloseDlg
  /\ task' = "none"
  /\ UNCHANGED <<connVars, winVars>>

\* RFBSTATE_FINISH.  The last log record is read under the mutex: an error
\* that may be temporary starts the reconnect timer...
OnFinishRetry ==
  /\ Free /\ dlg = "open" /\ Received("dlg", "FINISH")
  /\ MayLock(dlgCC, "gui")
  /\ attempt < MaxAttempts
  /\ Dispatch
  /\ \E keep \in BOOLEAN : memo' = (memo /\ keep)
  /\ timer' = TRUE
  /\ UNCHANGED <<dlg, dlgCC, pswd, attempt, cancel, winVars, task>>

\* ... another one, or the last attempt's, is shown in a message box ...
OnFinishShow ==
  /\ Free /\ dlg = "open" /\ Received("dlg", "FINISH")
  /\ MayLock(dlgCC, "gui")
  /\ Dispatch
  /\ dlg' = "box"
  /\ timer' = FALSE
  /\ UNCHANGED <<dlgCC, memo, pswd, attempt, cancel, winVars, task>>

\* ... after which the object and the dialog go.  (When a cancel command has
\* destroyed both before, the code does so again: that is undefined, and the
\* model has no such step.)
BoxClosed ==
  /\ Free /\ dlg = "box"
  /\ dlg' = "open"
  /\ DestroyUnlist(dlgCC)
  /\ task' = "closeDlg"
  /\ UNCHANGED <<dlgCC, memo, pswd, attempt, timer, cancel, winVars>>

\* There is no log record: no message box.
OnFinishQuiet ==
  /\ Free /\ dlg = "open" /\ Received("dlg", "FINISH")
  /\ MayLock(dlgCC, "gui")
  /\ posted' = Tail(posted)
  /\ lsCCList' = lsCCList \ {dlgCC}
  /\ Call(dlgCC, IF iRFBTid[dlgCC] THEN "signal" ELSE "free")
  /\ task' = "closeDlg"
  /\ UNCHANGED <<life, hwnd, syncVars, dataVars, rfbVars, dlgVars, winVars>>

\* Faulty variant: the timer is not stopped.
ReconnectAgain ==
  /\ Free /\ dlg = "open" /\ timer /\ dlgCC # NoConn
  /\ DestroyUnlist(dlgCC)
  /\ task' = "create"
  /\ UNCHANGED <<dlgVars, winVars>>

\* Faulty variant: the old object is not destroyed.
ReconnectLeave ==
  /\ Free /\ dlg = "open" /\ timer
  /\ timer' = FALSE
  /\ task' = "create"
  /\ UNCHANGED <<connVars, dlg, dlgCC, memo, pswd, attempt, cancel, winVars>>

\* WM_TIMER of the reconnect timer: _startConnection destroys the old object.
Reconnect ==
  /\ Free /\ dlg = "open" /\ timer
  /\ timer' = FALSE
  /\ DestroyUnlist(dlgCC)
  /\ task' = "create"
  /\ UNCHANGED <<dlg, dlgCC, memo, pswd, attempt, cancel, winVars>>

-----------------------------------------------------------------------------
(* Client window. *)

\* WM_CLOSE: the connection is told to end; its last message closes the window.
PressClose ==
  /\ Free /\ win = "open"
  /\ task' = "disconnect"
  /\ UNCHANGED <<connVars, dlgVars, winVars>>

Disconnect ==
  /\ task = "disconnect"
  /\ \/ ccDisconnectSignal(winCC)
     \/ /\ MayCall(winCC) /\ MayLock(winCC, "gui")
        /\ ulRFBState[winCC] = "FINISH"
        /\ UNCHANGED connVars
  /\ task' = "none"
  /\ UNCHANGED <<dlgVars, winVars>>

\* WM_PAINT, the screen shot and the scroll bars draw from the memory bitmap.
Paint ==
  /\ Free /\ win = "open"
  /\ ccGetHPS(winCC)
  /\ UNCHANGED <<dlgVars, winVars, task>>

Painted ==
  /\ win = "open"
  /\ ccReleaseHPS(winCC)
  /\ UNCHANGED <<dlgVars, winVars, task>>

\* WM_VNC_STATE, RFBSTATE_FINISH.
OnWinFinish ==
  /\ Free /\ win = "open" /\ Received("win", "FINISH")
  /\ posted' = Tail(posted)
  /\ lsCCList' = lsCCList \ {winCC}
  /\ Call(winCC, IF iRFBTid[winCC] THEN "signal" ELSE "free")
  /\ task' = "closeWin"
  /\ UNCHANGED <<life, hwnd, syncVars, dataVars, rfbVars, dlgVars, winVars>>

CloseWinDone ==
  /\ gui = Idle /\ task = "closeWin"
  /\ win' = "closed" /\ winCC' = NoConn
  /\ task' = "none"
  /\ UNCHANGED <<connVars, dlgVars>>

-----------------------------------------------------------------------------
(* Message loop. *)

\* A message without effect: for a window that is gone, or of another state.
OnOther ==
  /\ Free
  /\ Dispatch
  /\ LET m == Head(posted) IN
       ~ (IF m.to = "dlg" THEN dlg = "open" /\ m.state \in {"READY", "WAITPASSWORD", "FINISH"}
                          ELSE win = "open" /\ m.state = "FINISH")
  /\ UNCHANGED <<dlgVars, winVars, task>>

\* A message sent by a connection thread is processed in any message loop.
OnSent(c) ==
  /\ task = "none"
  /\ AnswerSent(c)
  /\ UNCHANGED <<dlgVars, winVars, task>>

\* _appGetMsg finds the queue empty; the loop of a message box is not this one.
Watchdog(c) ==
  /\ task = "none" /\ dlg # "box"
  /\ WatchdogExpired(c)
  /\ UNCHANGED <<dlgVars, winVars, task>>

\* No window is open, the loop ends, ccDone destroys what is left.
Exit ==
  /\ Free /\ posted = <<>>
  /\ dlg = "closed" /\ win = "closed"
  /\ task' = "exit"
  /\ UNCHANGED <<connVars, dlgVars, winVars>>

ccDone ==
  /\ gui = Idle /\ task = "exit"
  /\ \/ /\ \E c \in lsCCList : DestroyUnlist(c)
        /\ UNCHANGED task
     \/ /\ lsCCList = {}
        /\ task' = "done"
        /\ UNCHANGED connVars
  /\ UNCHANGED <<dlgVars, winVars>>

\* The steps of a cc* function after the one that enters it.
CallGoesOn(c) ==
  /\ \/ CreateList(c) \/ CreateWaitState(c) \/ CreateWaitEvent(c)
     \/ DestroySignal(c) \/ DestroyWait(c) \/ DestroyCheck(c)
     \/ DestroyKill(c) \/ DestroyFree(c)
     \/ WatchdogFinish(c) \/ WatchdogNotify(c) \/ WatchdogKill(c)
  /\ UNCHANGED <<dlgVars, winVars, task>>

\* The process has ended: its threads with it.
Running(c) ==
  /\ task # "done"
  /\ RfbStep(c) \/ TimePasses(c)
  /\ UNCHANGED <<dlgVars, winVars, task>>

\* The message at the head of the queue is dispatched.
FromQueue ==
  \/ OnReady \/ OnWaitPasswordStored \/ OnWaitPasswordAsk
  \/ OnFinishRetry \/ OnFinishShow \/ OnFinishQuiet
  \/ OnWinFinish \/ OnOther

\* A handler goes on, after a cc* call has returned or to make one.
HandlerGoesOn ==
  \/ StartConnection \/ StartFails
  \/ LockReady \/ ReadyLost \/ CreateWindow \/ CreateWindowFails \/ UnlockReady
  \/ SendStored \/ SendTyped
  \/ CloseDlgDone \/ Disconnect \/ Painted \/ CloseWinDone \/ ccDone

User == PswdEnter \/ PressCancel \/ BoxClosed \/ PressClose \/ Paint

SNext ==
  \/ FromQueue \/ HandlerGoesOn \/ OnCancel \/ Reconnect \/ User \/ Exit
  \/ \E c \in Conns : OnSent(c) \/ Watchdog(c) \/ CallGoesOn(c) \/ Running(c)

SSpec == SInit /\ [][SNext]_svars

-----------------------------------------------------------------------------
(* Fairness.  The GUI thread goes on with what it is doing, dispatches the *)
(* messages of its queue in their order, whatever the user does, and gets  *)
(* a mutex that is released again and again.                               *)
(* A connection thread takes the steps that do not depend on the server;   *)
(* in its loop it tests the stop signal every 50 ms.  Nothing is assumed   *)
(* of the user.                                                            *)

ThreadGoesOn(c) ==
  \/ RfbPost(c) \/ RfbStart(c) \/ RfbNoQueue(c) \/ RfbQueue(c)
  \/ RfbAskState(c) \/ RfbAskReset(c) \/ RfbAskWait(c)
  \/ RfbAskTake(c) \/ RfbAskRefuse(c) \/ RfbAskBack(c)
  \/ RfbForget(c) \/ RfbReady(c) \/ RfbResized(c) \/ RfbUpdated(c) \/ RfbFinish(c)
  \/ ulStopSigTime[c] # "zero" /\ RfbLeaveLoop(c)

SFairness ==
  /\ SF_svars(FromQueue) /\ SF_svars(HandlerGoesOn) /\ SF_svars(OnCancel)
  /\ \A c \in Conns :
       /\ SF_svars(CallGoesOn(c))
       /\ SF_svars(OnSent(c))
       /\ SF_svars(ThreadGoesOn(c) /\ Running(c))

SFairSpec == SSpec /\ SFairness

\* Of the server: it does not stop for ever in the middle of a message.
ServerGoesOn == \A c \in Conns : WF_svars(RfbUnblock(c) /\ Running(c))

SLiveSpec == SFairSpec /\ ServerGoesOn

-----------------------------------------------------------------------------
(* Properties. *)

STypeOK ==
  /\ TypeOK
  /\ dlg \in {"open", "box", "closed"} /\ dlgCC \in Conns \cup {NoConn}
  /\ memo \in BOOLEAN /\ pswd \in BOOLEAN
  /\ attempt \in 0 .. MaxAttempts
  /\ timer \in BOOLEAN /\ cancel \in BOOLEAN
  /\ win \in {"open", "closed"} /\ winCC \in Conns \cup {NoConn}
  /\ task \in Tasks

\* The handlers of the progress dialog apply a message to the object the dialog
\* holds: no message of an earlier attempt's object is left when it is replaced.
\* And between two handlers an open client window has an object with a live
\* rfbClient, which ccQueryViewOnly and others read without the mutex.
HeldObjects ==
  /\ dlg # "closed" => \A i \in DOMAIN posted : posted[i].to = "dlg" => posted[i].cc = dlgCC
  /\ win = "open" /\ Free => life[winCC] = "live" /\ pRFBClient[winCC] = "live"

\* The session implements the life cycle of Connection.
phaseOf == [c \in Conns |->
  CASE life[c] = "none"  -> "absent"
    [] life[c] = "freed" -> "gone"
    [] life[c] = "live" /\ ulRFBState[c] \in {"NOTINIT", "INITPROGRESS"} -> "connecting"
    [] life[c] = "live" /\ ulRFBState[c] \in {"WAITPASSWORD", "WAITCREDENTIAL"} -> "asking"
    [] life[c] = "live" /\ ulRFBState[c] = "READY"  -> "ready"
    [] life[c] = "live" /\ ulRFBState[c] = "FINISH" -> "finished"]

Abstract == INSTANCE Connection WITH phase <- phaseOf

\* One attempt at a time, asked again and again, established once, discarded.
Implements == Abstract!Spec

\* What the user ends comes to its end: Cancel closes the dialog whatever the
\* connection thread is blocked in, and closing the client window ends the
\* connection and the window: the last message of the thread arrives, is for
\* this window and destroys both.
UserEnds ==
  /\ cancel ~> dlg = "closed"
  /\ task = "disconnect" ~> win = "closed"

\* "Post event semaphore to inform thread that name and password can be
\* readed..." (clntconn.c:1641): the thread takes an answer it was sent, or the
\* object goes.
AnswerRead ==
  \A c \in Conns : pLogonInfo[c] # 0 ~> pLogonInfo[c] = 0 \/ life[c] # "live"
=============================================================================
