----------------------------- MODULE ClientConn -----------------------------
(***************************************************************************)
(* The connection object of the viewer (VNCViewer/clntconn.c): the RFB     *)
(* thread that runs libvncclient for one CLNTCONN object, and the cc*      *)
(* functions by which the GUI thread creates, feeds, watches and destroys  *)
(* it.  The two threads share the object through the mutex hmtxRFB and the *)
(* auto-reset event semaphore hevRFBState; the RFB thread reports each     *)
(* state with a WM_VNC_STATE message posted to a window.                   *)
(*                                                                         *)
(* The caller here is the most general one: the GUI thread may call any    *)
(* function on any existing object.  ViewerSession restricts it to what    *)
(* the windows of the viewer do.                                           *)
(*                                                                         *)
(* A critical section that contains no call that can block is one step.    *)
(* A thread takes no further step once its object has been freed: what it  *)
(* would do then is undefined.                                             *)
(***************************************************************************)
EXTENDS Naturals, Sequences, FiniteSets

CONSTANTS Conns,     \* the CLNTCONN objects that may be created
          NoConn,    \* not an object: the GUI thread is in no cc* call
          MaxAsk,    \* bound: logon requests libvncclient makes per object
          GpiFails   \* whether GpiQueryBitmapInfoHeader() may fail

ASSUME ConnsAssumption == NoConn \notin Conns
ASSUME MaxAskAssumption == MaxAsk \in Nat
ASSUME GpiAssumption == GpiFails \in BOOLEAN

VARIABLES
  life,           \* "none" before ccCreate, "live", "freed" by ccDestroy
  ulRFBState,     \* pCC->ulRFBState
  hmtxRFB,        \* owner of the mutex: "free", "rfb" or "gui"; "leaked":
                  \* the RFB thread owns it and will never release it
  hevRFBState,    \* is the auto-reset event posted
  pLogonInfo,     \* pCC->pLogonInfo: 0 (NULL), or the request it answers
  ulStopSigTime,  \* "zero", "set", or "late": set _WAIT_THREAD_TIME ago
  iRFBTid,        \* FALSE: -1
  pRFBClient,     \* "live", "freed" by rfbInitClient (pointer kept), "null"
  hwnd,           \* window WM_VNC_STATE goes to: "dlg" or "win"
  pc,             \* where the RFB thread is
  cont,           \* _ccSetThreadState in progress: what it posts, what follows
  asked,          \* logon requests made so far, for the bound
  request,        \* what the running libvncclient callback asks for
  lsCCList,       \* objects in the list
  posted,         \* WM_VNC_STATE messages in the GUI thread's queue
  gui             \* the cc* call the GUI thread is in, and its object

objVars  == <<life, hwnd, lsCCList>>
syncVars == <<ulRFBState, hmtxRFB, hevRFBState>>
dataVars == <<pLogonInfo, ulStopSigTime, iRFBTid, pRFBClient>>
rfbVars  == <<pc, cont, asked, request>>
vars     == <<objVars, syncVars, dataVars, rfbVars, posted, gui>>

RFBStates == {"NOTINIT", "INITPROGRESS", "WAITPASSWORD", "WAITCREDENTIAL",
              "READY", "FINISH"}
LogonKinds == {"password", "credential"}
Owners     == {"free", "rfb", "gui", "leaked"}
Windows    == {"dlg", "win"}

\* Points of threadClient and of the callbacks libvncclient calls from it.
RFBPoints == {"none", "start", "pmInit", "init", "ask", "askReset", "askWait",
              "askTake", "askBack", "cleanup", "initFailed", "initDone",
              "loop", "resize", "update", "blocked", "sending", "finish", "post",
              "ended", "killed"}

\* Points of the GUI thread inside the cc* functions that take several steps.
GuiPoints == {"idle", "listed", "waitState", "waitEvent",
              "signal", "waitThread", "checkState", "kill", "free",
              "ready", "hps", "expired", "notify", "killLate"}

Idle == [at |-> "idle", cc |-> NoConn]

Init ==
  /\ life          = [c \in Conns |-> "none"]
  /\ ulRFBState    = [c \in Conns |-> "NOTINIT"]
  /\ hmtxRFB       = [c \in Conns |-> "free"]
  /\ hevRFBState   = [c \in Conns |-> FALSE]
  /\ pLogonInfo    = [c \in Conns |-> 0]
  /\ ulStopSigTime = [c \in Conns |-> "zero"]
  /\ iRFBTid       = [c \in Conns |-> FALSE]
  /\ pRFBClient    = [c \in Conns |-> "null"]
  /\ hwnd          = [c \in Conns |-> "dlg"]
  /\ pc            = [c \in Conns |-> "none"]
  /\ cont          = [c \in Conns |-> [state |-> "NOTINIT", next |-> "none"]]
  /\ asked         = [c \in Conns |-> 0]
  /\ request       = [c \in Conns |-> "password"]
  /\ lsCCList      = {}
  /\ posted        = <<>>
  /\ gui           = Idle

-----------------------------------------------------------------------------
(* Helpers.  OS/2 mutex semaphores may be requested again by their owner. *)

MayLock(c, t) == \/ hmtxRFB[c] \in {"free", t}
                 \/ t = "rfb" /\ hmtxRFB[c] = "leaked"

At(c, p) == life[c] = "live" /\ pc[c] = p

Goto(c, p) == /\ pc' = [pc EXCEPT ![c] = p]
              /\ UNCHANGED <<cont, asked, request>>

\* A mutex whose owner, a connection thread, died no longer blocks a request.
DiedWith(owner) == IF owner = "gui" THEN "gui" ELSE "free"

\* Faulty variant: the state changes without the mutex.
SetStateUnlocked(c, t, s) ==
  /\ ulRFBState' = [ulRFBState EXCEPT ![c] = s]
  /\ hevRFBState' = [hevRFBState EXCEPT ![c] = TRUE]
  /\ UNCHANGED hmtxRFB

\* The locked part of _ccSetThreadState: the state changes, the event is posted.
SetState(c, t, s) ==
  /\ MayLock(c, t)
  /\ ulRFBState' = [ulRFBState EXCEPT ![c] = s]
  /\ hevRFBState' = [hevRFBState EXCEPT ![c] = TRUE]
  /\ UNCHANGED hmtxRFB

PostState(c, s) ==
  posted' = Append(posted, [cc |-> c, to |-> hwnd[c], state |-> s])

\* _ccSetThreadState called by the RFB thread; the message follows in RfbPost.
RfbSetState(c, s, next) ==
  /\ SetState(c, "rfb", s)
  /\ pc' = [pc EXCEPT ![c] = "post"]
  /\ cont' = [cont EXCEPT ![c] = [state |-> s, next |-> next]]
  /\ UNCHANGED <<asked, request>>

-----------------------------------------------------------------------------
(* The RFB thread. *)

\* After the mutex is released, pCC->hwnd is read and the message posted.  The
\* thread may end with that, and lose a mutex it still owns.
RfbPost(c) ==
  /\ At(c, "post")
  /\ PostState(c, cont[c].state)
  /\ hmtxRFB' = [hmtxRFB EXCEPT ![c] = IF cont[c].next = "ended" THEN DiedWith(@) ELSE @]
  /\ Goto(c, cont[c].next)
  /\ UNCHANGED <<objVars, ulRFBState, hevRFBState, dataVars, gui>>

RfbStart(c) ==
  /\ At(c, "start")
  /\ RfbSetState(c, "INITPROGRESS", "pmInit")
  /\ UNCHANGED <<objVars, dataVars, posted, gui>>

\* WinCreateMsgQueue fails: the thread ends at once.
RfbNoQueue(c) ==
  /\ At(c, "pmInit")
  /\ RfbSetState(c, "FINISH", "ended")
  /\ UNCHANGED <<objVars, dataVars, posted, gui>>

RfbQueue(c) ==
  /\ At(c, "pmInit")
  /\ Goto(c, "init")
  /\ UNCHANGED <<objVars, syncVars, dataVars, posted, gui>>

\* Faulty variant: an answer that is there is kept.
RfbAskKeep(c, k) ==
  /\ At(c, "init")
  /\ asked[c] < MaxAsk
  /\ asked' = [asked EXCEPT ![c] = @ + 1]
  /\ request' = [request EXCEPT ![c] = k]
  /\ pc' = [pc EXCEPT ![c] = "ask"]
  /\ UNCHANGED <<objVars, syncVars, dataVars, cont, posted, gui>>

\* rfbInitClient calls GetPassword or GetCredential; a previous answer that
\* nobody took is dropped, without the mutex.
RfbAsk(c, k) ==
  /\ At(c, "init")
  /\ asked[c] < MaxAsk
  /\ asked' = [asked EXCEPT ![c] = @ + 1]
  /\ request' = [request EXCEPT ![c] = k]
  /\ pLogonInfo' = [pLogonInfo EXCEPT ![c] = 0]
  /\ pc' = [pc EXCEPT ![c] = "ask"]
  /\ UNCHANGED <<objVars, syncVars, ulStopSigTime, iRFBTid, pRFBClient, cont,
                 posted, gui>>

\* Both callbacks pass fCredential = FALSE to _logonInfoToThread.
RfbAskState(c) ==
  /\ At(c, "ask")
  /\ RfbSetState(c, "WAITPASSWORD", "askReset")
  /\ UNCHANGED <<objVars, dataVars, posted, gui>>

RfbAskReset(c) ==
  /\ At(c, "askReset")
  /\ hevRFBState' = [hevRFBState EXCEPT ![c] = FALSE]
  /\ Goto(c, "askWait")
  /\ UNCHANGED <<objVars, ulRFBState, hmtxRFB, dataVars, posted, gui>>

RfbAskWait(c) ==
  /\ At(c, "askWait")
  /\ hevRFBState[c]
  /\ hevRFBState' = [hevRFBState EXCEPT ![c] = FALSE]
  /\ Goto(c, "askTake")
  /\ UNCHANGED <<objVars, ulRFBState, hmtxRFB, dataVars, posted, gui>>

\* The answer is taken, without the mutex.
RfbAskTake(c) ==
  /\ At(c, "askTake")
  /\ pLogonInfo[c] # 0
  /\ pLogonInfo' = [pLogonInfo EXCEPT ![c] = 0]
  /\ pc' = [pc EXCEPT ![c] = "askBack"]
  /\ cont' = [cont EXCEPT ![c] = [state |-> "INITPROGRESS", next |-> "init"]]
  /\ UNCHANGED <<objVars, syncVars, ulStopSigTime, iRFBTid, pRFBClient, asked,
                 request, posted, gui>>

\* There is no answer, or its kind is compared with a field of the caller's
\* uninitialised structure and found different: the callback returns NULL.
RfbAskRefuse(c) ==
  /\ At(c, "askTake")
  /\ pc' = [pc EXCEPT ![c] = "askBack"]
  /\ cont' = [cont EXCEPT ![c] = [state |-> "INITPROGRESS", next |-> "cleanup"]]
  /\ UNCHANGED <<objVars, syncVars, dataVars, asked, request, posted, gui>>

RfbAskBack(c) ==
  /\ At(c, "askBack")
  /\ RfbSetState(c, "INITPROGRESS", cont[c].next)
  /\ UNCHANGED <<objVars, dataVars, posted, gui>>

\* rfbInitClient fails: it destroys the rfbClient, pCC->pRFBClient dangles...
RfbInitFail(c) ==
  /\ At(c, "init") \/ At(c, "cleanup")
  /\ pRFBClient' = [pRFBClient EXCEPT ![c] = "freed"]
  /\ Goto(c, "initFailed")
  /\ UNCHANGED <<objVars, syncVars, pLogonInfo, ulStopSigTime, iRFBTid, posted,
                 gui>>

\* ... until the thread clears it.
RfbForget(c) ==
  /\ At(c, "initFailed")
  /\ pRFBClient' = [pRFBClient EXCEPT ![c] = "null"]
  /\ Goto(c, "finish")
  /\ UNCHANGED <<objVars, syncVars, pLogonInfo, ulStopSigTime, iRFBTid, posted,
                 gui>>

\* rfbInitClient succeeds and the stop signal is tested, without the mutex.
RfbInitDone(c) ==
  /\ At(c, "init")
  /\ Goto(c, IF ulStopSigTime[c] = "zero" THEN "initDone" ELSE "finish")
  /\ UNCHANGED <<objVars, syncVars, dataVars, posted, gui>>

RfbReady(c) ==
  /\ At(c, "initDone")
  /\ RfbSetState(c, "READY", "loop")
  /\ UNCHANGED <<objVars, dataVars, posted, gui>>

\* Faulty variant: the branch of the source that is compiled out, which reports
\* RFBSTATE_ERROR.
RfbLeaveLoopError(c) ==
  /\ At(c, "loop")
  /\ RfbSetState(c, "ERROR", "finish")
  /\ UNCHANGED <<objVars, dataVars, posted, gui>>

\* The stop signal, an error of fxWaitForMessage or a closed socket.
RfbLeaveLoop(c) ==
  /\ At(c, "loop")
  /\ Goto(c, "finish")
  /\ UNCHANGED <<objVars, syncVars, dataVars, posted, gui>>

\* MallocFrameBuffer: the server has a new frame size.  The bitmap is destroyed
\* and created again with the mutex owned...
RfbResize(c) ==
  /\ At(c, "loop") /\ ulStopSigTime[c] = "zero"
  /\ MayLock(c, "rfb")
  /\ hmtxRFB' = [hmtxRFB EXCEPT ![c] = IF @ = "free" THEN "rfb" ELSE @]
  /\ Goto(c, "resize")
  /\ UNCHANGED <<objVars, ulRFBState, hevRFBState, dataVars, posted, gui>>

\* ... which every branch releases; the loop ignores that it failed.
RfbResized(c) ==
  /\ At(c, "resize")
  /\ hmtxRFB' = [hmtxRFB EXCEPT ![c] = IF @ = "rfb" THEN "free" ELSE @]
  /\ Goto(c, "loop")
  /\ UNCHANGED <<objVars, ulRFBState, hevRFBState, dataVars, posted, gui>>

\* Faulty variant: the bitmap is written without the mutex.
RfbUpdateUnlocked(c) ==
  /\ At(c, "loop") /\ ulStopSigTime[c] = "zero"
  /\ Goto(c, "update")
  /\ UNCHANGED <<objVars, syncVars, dataVars, posted, gui>>

\* GotFrameBufferUpdate: ccGetHPS locks the object...
RfbUpdate(c) ==
  /\ At(c, "loop") /\ ulStopSigTime[c] = "zero"
  /\ MayLock(c, "rfb")
  /\ hmtxRFB' = [hmtxRFB EXCEPT ![c] = IF @ = "free" THEN "rfb" ELSE @]
  /\ Goto(c, "update")
  /\ UNCHANGED <<objVars, ulRFBState, hevRFBState, dataVars, posted, gui>>

\* Faulty variant: the mutex is not released.
RfbUpdatedKeep(c) ==
  /\ At(c, "update")
  /\ Goto(c, "loop")
  /\ UNCHANGED <<objVars, syncVars, dataVars, posted, gui>>

\* ... and ccReleaseHPS unlocks it, after the lines are copied.  One release
\* does not undo the request of an earlier update that failed.
RfbUpdated(c) ==
  /\ At(c, "update")
  /\ hmtxRFB' = [hmtxRFB EXCEPT ![c] = IF @ = "rfb" THEN "free" ELSE @]
  /\ Goto(c, "loop")
  /\ UNCHANGED <<objVars, ulRFBState, hevRFBState, dataVars, posted, gui>>

\* GpiQueryBitmapInfoHeader fails: the callback returns, the mutex stays owned.
RfbUpdateError(c) ==
  /\ GpiFails
  /\ At(c, "update")
  /\ hmtxRFB' = [hmtxRFB EXCEPT ![c] = "leaked"]
  /\ Goto(c, "loop")
  /\ UNCHANGED <<objVars, ulRFBState, hevRFBState, dataVars, posted, gui>>

\* A chat, clipboard or file transfer message is sent to the window: the
\* thread waits until the GUI thread has processed it.
RfbSend(c) ==
  /\ At(c, "loop") /\ ulStopSigTime[c] = "zero"
  /\ Goto(c, "sending")
  /\ UNCHANGED <<objVars, syncVars, dataVars, posted, gui>>

\* The server stops in the middle of a message: a blocking read, which lasts
\* until the server goes on.
RfbBlock(c) ==
  /\ At(c, "loop") /\ ulStopSigTime[c] = "zero"
  /\ Goto(c, "blocked")
  /\ UNCHANGED <<objVars, syncVars, dataVars, posted, gui>>

RfbUnblock(c) ==
  /\ At(c, "blocked")
  /\ Goto(c, "loop")
  /\ UNCHANGED <<objVars, syncVars, dataVars, posted, gui>>

RfbFinish(c) ==
  /\ At(c, "finish")
  /\ RfbSetState(c, "FINISH", "ended")
  /\ UNCHANGED <<objVars, dataVars, posted, gui>>

RfbStep(c) ==
  \/ RfbPost(c) \/ RfbStart(c) \/ RfbNoQueue(c) \/ RfbQueue(c)
  \/ (\E k \in LogonKinds : RfbAsk(c, k))
  \/ RfbAskState(c) \/ RfbAskReset(c) \/ RfbAskWait(c)
  \/ RfbAskTake(c) \/ RfbAskRefuse(c) \/ RfbAskBack(c)
  \/ RfbInitFail(c) \/ RfbForget(c) \/ RfbInitDone(c) \/ RfbReady(c)
  \/ RfbResize(c) \/ RfbResized(c) \/ RfbUpdate(c) \/ RfbUpdated(c) \/ RfbUpdateError(c)
  \/ RfbSend(c) \/ RfbBlock(c) \/ RfbUnblock(c)
  \/ RfbLeaveLoop(c) \/ RfbFinish(c)

-----------------------------------------------------------------------------
(* The GUI thread: the cc* functions.  A function that can block, or that  *)
(* leaves the mutex owned, is a sequence of steps held in gui.             *)

GuiAt(c, p) == gui = [at |-> p, cc |-> c] /\ life[c] = "live"

Call(c, p) == gui' = [at |-> p, cc |-> c]

Return == gui' = Idle

MayCall(c) == gui = Idle /\ life[c] = "live"

\* ccCreate up to _beginthread.
CreateThread(c) ==
  /\ gui = Idle /\ life[c] = "none"
  /\ life' = [life EXCEPT ![c] = "live"]
  /\ iRFBTid' = [iRFBTid EXCEPT ![c] = TRUE]
  /\ pRFBClient' = [pRFBClient EXCEPT ![c] = "live"]
  /\ pc' = [pc EXCEPT ![c] = "start"]
  /\ Call(c, "listed")
  /\ UNCHANGED <<hwnd, lsCCList, syncVars, pLogonInfo, ulStopSigTime, cont,
                 asked, request, posted>>

CreateList(c) ==
  /\ GuiAt(c, "listed")
  /\ lsCCList' = lsCCList \cup {c}
  /\ Call(c, "waitState")
  /\ UNCHANGED <<life, hwnd, syncVars, dataVars, rfbVars, posted>>

\* The loop of ccWaitState( pCC, RFBSTATE_NOTINIT, FALSE ).
CreateWaitState(c) ==
  /\ GuiAt(c, "waitState")
  /\ MayLock(c, "gui")
  /\ gui' = IF ulRFBState[c] = "NOTINIT" THEN [at |-> "waitEvent", cc |-> c] ELSE Idle
  /\ UNCHANGED <<objVars, syncVars, dataVars, rfbVars, posted>>

\* DosWaitEventSem with a time-out: either way the event is not posted after.
CreateWaitEvent(c) ==
  /\ GuiAt(c, "waitEvent")
  /\ hevRFBState' = [hevRFBState EXCEPT ![c] = FALSE]
  /\ Call(c, "waitState")
  /\ UNCHANGED <<objVars, ulRFBState, hmtxRFB, dataVars, rfbVars, posted>>

\* ccDestroy: out of the list...
DestroyUnlist(c) ==
  /\ MayCall(c)
  /\ lsCCList' = lsCCList \ {c}
  /\ Call(c, IF iRFBTid[c] THEN "signal" ELSE "free")
  /\ UNCHANGED <<life, hwnd, syncVars, dataVars, rfbVars, posted>>

\* ... ccDisconnectSignal, which fails if the thread has finished ...
DestroySignal(c) ==
  /\ GuiAt(c, "signal")
  /\ MayLock(c, "gui")
  /\ ulStopSigTime' = [ulStopSigTime EXCEPT ![c] = IF ulRFBState[c] = "FINISH" THEN @ ELSE "set"]
  /\ Call(c, IF ulRFBState[c] = "FINISH" THEN "free" ELSE "waitThread")
  /\ UNCHANGED <<objVars, syncVars, pLogonInfo, iRFBTid, pRFBClient, rfbVars,
                 posted>>

\* Faulty variant: no time-out.
DestroyWaitForever(c) ==
  /\ GuiAt(c, "waitThread")
  /\ hevRFBState[c]
  /\ hevRFBState' = [hevRFBState EXCEPT ![c] = FALSE]
  /\ Call(c, "checkState")
  /\ UNCHANGED <<objVars, ulRFBState, hmtxRFB, dataVars, rfbVars, posted>>

\* ... a wait of 150 ms for the event, whoever posted it and whenever ...
DestroyWait(c) ==
  /\ GuiAt(c, "waitThread")
  /\ hevRFBState' = [hevRFBState EXCEPT ![c] = FALSE]
  /\ Call(c, "checkState")
  /\ UNCHANGED <<objVars, ulRFBState, hmtxRFB, dataVars, rfbVars, posted>>

\* Faulty variant: the event is taken for the end of the thread.
DestroyNoCheck(c) ==
  /\ GuiAt(c, "checkState")
  /\ Call(c, "free")
  /\ UNCHANGED <<objVars, syncVars, dataVars, rfbVars, posted>>

DestroyCheck(c) ==
  /\ GuiAt(c, "checkState")
  /\ Call(c, IF ulRFBState[c] = "FINISH" THEN "free" ELSE "kill")
  /\ UNCHANGED <<objVars, syncVars, dataVars, rfbVars, posted>>

\* DosKillThread.
KillThread(c) ==
  /\ pc' = [pc EXCEPT ![c] = IF @ = "ended" THEN @ ELSE "killed"]
  /\ hmtxRFB' = [hmtxRFB EXCEPT ![c] = DiedWith(@)]
  /\ UNCHANGED <<cont, asked, request>>

DestroyKill(c) ==
  /\ GuiAt(c, "kill")
  /\ KillThread(c)
  /\ Call(c, "free")
  /\ UNCHANGED <<objVars, ulRFBState, hevRFBState, dataVars, posted>>

\* ... and all that the object owns is released, then the object.
DestroyFree(c) ==
  /\ GuiAt(c, "free")
  /\ life' = [life EXCEPT ![c] = "freed"]
  /\ Return
  /\ UNCHANGED <<hwnd, lsCCList, syncVars, dataVars, rfbVars, posted>>

ccLockReadyState(c) ==
  /\ MayCall(c)
  /\ MayLock(c, "gui")
  /\ ulRFBState[c] = "READY"
  /\ hmtxRFB' = [hmtxRFB EXCEPT ![c] = "gui"]
  /\ Call(c, "ready")
  /\ UNCHANGED <<objVars, ulRFBState, hevRFBState, dataVars, rfbVars, posted>>

\* cwCreate: a client window is created and ccSetWindow called for it.
ccSetWindow(c) ==
  /\ GuiAt(c, "ready")
  /\ hwnd' = [hwnd EXCEPT ![c] = "win"]
  /\ UNCHANGED <<life, lsCCList, syncVars, dataVars, rfbVars, posted, gui>>

ccUnlockReadyState(c) ==
  /\ GuiAt(c, "ready")
  /\ hmtxRFB' = [hmtxRFB EXCEPT ![c] = "free"]
  /\ Return
  /\ UNCHANGED <<objVars, ulRFBState, hevRFBState, dataVars, rfbVars, posted>>

ccGetHPS(c) ==
  /\ MayCall(c)
  /\ MayLock(c, "gui")
  /\ hmtxRFB' = [hmtxRFB EXCEPT ![c] = "gui"]
  /\ Call(c, "hps")
  /\ UNCHANGED <<objVars, ulRFBState, hevRFBState, dataVars, rfbVars, posted>>

ccReleaseHPS(c) ==
  /\ GuiAt(c, "hps")
  /\ hmtxRFB' = [hmtxRFB EXCEPT ![c] = "free"]
  /\ Return
  /\ UNCHANGED <<objVars, ulRFBState, hevRFBState, dataVars, rfbVars, posted>>

\* The locked part of ccSendLogonInfo; malloc() may fail, and the thread is
\* woken all the same.
ccSendLogonInfo(c, k) ==
  /\ MayCall(c)
  /\ MayLock(c, "gui")
  /\ ulRFBState[c] = (IF k = "password" THEN "WAITPASSWORD" ELSE "WAITCREDENTIAL")
  /\ \E answer \in {0, asked[c]} : pLogonInfo' = [pLogonInfo EXCEPT ![c] = answer]
  /\ hevRFBState' = [hevRFBState EXCEPT ![c] = TRUE]
  /\ UNCHANGED <<objVars, ulRFBState, hmtxRFB, ulStopSigTime, iRFBTid, pRFBClient,
                 rfbVars, posted, gui>>

ccDisconnectSignal(c) ==
  /\ MayCall(c)
  /\ MayLock(c, "gui")
  /\ ulRFBState[c] # "FINISH"
  /\ ulStopSigTime' = [ulStopSigTime EXCEPT ![c] = "set"]
  /\ UNCHANGED <<objVars, syncVars, pLogonInfo, iRFBTid, pRFBClient, rfbVars,
                 posted, gui>>

\* The window procedure runs for a message a connection thread has sent.
AnswerSent(c) ==
  /\ gui = Idle
  /\ At(c, "sending")
  /\ Goto(c, "loop")
  /\ UNCHANGED <<objVars, syncVars, dataVars, posted, gui>>

\* _WAIT_THREAD_TIME passes after the stop signal.
TimePasses(c) ==
  /\ life[c] = "live" /\ ulStopSigTime[c] = "set"
  /\ ulStopSigTime' = [ulStopSigTime EXCEPT ![c] = "late"]
  /\ UNCHANGED <<objVars, syncVars, pLogonInfo, iRFBTid, pRFBClient, rfbVars,
                 posted, gui>>

\* ccThreadWatchdog for one object of the list.  The main loop calls it when
\* its queue is empty.
WatchdogExpired(c) ==
  /\ gui = Idle /\ posted = <<>>
  /\ c \in lsCCList /\ life[c] = "live"
  /\ ulStopSigTime[c] = "late"
  /\ Call(c, "expired")
  /\ UNCHANGED <<objVars, syncVars, dataVars, rfbVars, posted>>

WatchdogFinish(c) ==
  /\ GuiAt(c, "expired")
  /\ SetState(c, "gui", "FINISH")
  /\ Call(c, "notify")
  /\ UNCHANGED <<objVars, dataVars, rfbVars, posted>>

WatchdogNotify(c) ==
  /\ GuiAt(c, "notify")
  /\ PostState(c, "FINISH")
  /\ Call(c, "killLate")
  /\ UNCHANGED <<objVars, syncVars, dataVars, rfbVars>>

\* One call serves every object of the list that is late when it is called.
WatchdogKill(c) ==
  /\ GuiAt(c, "killLate")
  /\ KillThread(c)
  /\ iRFBTid' = [iRFBTid EXCEPT ![c] = FALSE]
  /\ \/ Return
     \/ \E d \in lsCCList \ {c} : /\ iRFBTid[d] /\ ulStopSigTime[d] = "late"
                                 /\ Call(d, "expired")
  /\ UNCHANGED <<objVars, ulRFBState, hevRFBState, pLogonInfo, ulStopSigTime,
                 pRFBClient, posted>>

\* The next message is taken from the queue; what its handler does is the
\* caller's business.
Dispatch ==
  /\ gui = Idle
  /\ posted # <<>>
  /\ posted' = Tail(posted)
  /\ UNCHANGED <<objVars, syncVars, dataVars, rfbVars, gui>>

GuiStep(c) ==
  \/ CreateThread(c) \/ CreateList(c) \/ CreateWaitState(c) \/ CreateWaitEvent(c)
  \/ DestroyUnlist(c) \/ DestroySignal(c) \/ DestroyWait(c) \/ DestroyCheck(c)
  \/ DestroyKill(c) \/ DestroyFree(c)
  \/ ccLockReadyState(c) \/ ccSetWindow(c) \/ ccUnlockReadyState(c)
  \/ ccGetHPS(c) \/ ccReleaseHPS(c)
  \/ (\E k \in LogonKinds : ccSendLogonInfo(c, k))
  \/ ccDisconnectSignal(c)
  \/ AnswerSent(c)
  \/ WatchdogExpired(c) \/ WatchdogFinish(c) \/ WatchdogNotify(c) \/ WatchdogKill(c)

Next == \/ \E c \in Conns : RfbStep(c) \/ GuiStep(c) \/ TimePasses(c)
        \/ Dispatch

Spec == Init /\ [][Next]_vars

-----------------------------------------------------------------------------
(* Properties. *)

TypeOK ==
  /\ life \in [Conns -> {"none", "live", "freed"}]
  /\ ulRFBState \in [Conns -> RFBStates]
  /\ hmtxRFB \in [Conns -> Owners]
  /\ hevRFBState \in [Conns -> BOOLEAN]
  /\ pLogonInfo \in [Conns -> 0 .. MaxAsk]
  /\ ulStopSigTime \in [Conns -> {"zero", "set", "late"}]
  /\ iRFBTid \in [Conns -> BOOLEAN]
  /\ pRFBClient \in [Conns -> {"live", "freed", "null"}]
  /\ hwnd \in [Conns -> Windows]
  /\ pc \in [Conns -> RFBPoints]
  /\ cont \in [Conns -> [state : RFBStates, next : RFBPoints]]
  /\ asked \in [Conns -> 0 .. MaxAsk]
  /\ request \in [Conns -> LogonKinds]
  /\ lsCCList \in SUBSET Conns
  /\ posted \in Seq([cc : Conns, to : Windows, state : RFBStates])
  /\ gui \in [at : GuiPoints, cc : Conns \cup {NoConn}]

\* ccLockReadyState: "Ensures that state will not change until
\* ccUnlockReadyState()" (clntconn.c:1415), whatever the connection thread and
\* the watchdog do meanwhile.
ReadyHeld ==
  \A c \in Conns : gui = [at |-> "ready", cc |-> c] => ulRFBState[c] = "READY"

\* "Avoid access to bitmap: ccGetHPS() will locks caller" (clntconn.c:273): the
\* GUI thread never draws from a memory bitmap that the connection thread is
\* replacing or writing.
BitmapExclusive ==
  \A c \in Conns : ~ (pc[c] \in {"resize", "update"} /\ gui = [at |-> "hps", cc |-> c])

\* The connection thread is through with an object it has told to be finished,
\* or it has been killed: only the message of its last state is still to be
\* posted.
ThreadDone(c) == \/ pc[c] \in {"ended", "killed"}
                 \/ pc[c] = "post" /\ cont[c].next = "ended"

\* ccDestroy never frees an object whose thread is still at work: not when a
\* stale event ends the 150 ms wait early, not when the watchdog and the
\* thread both set the state.
FreedThreadDone == \A c \in Conns : life[c] = "freed" => ThreadDone(c)

\* The logon information a connection thread takes was sent for the request it
\* is serving, never left over from an earlier one (clntconn.c:153-158).
FreshAnswer ==
  \A c \in Conns : pc[c] = "askTake" /\ pLogonInfo[c] # 0 => pLogonInfo[c] = asked[c]

\* Every cc* call of the GUI thread returns: it never waits for a mutex that is
\* not released or for a state that does not come.
GuiReturns == gui # Idle /\ gui.at \notin {"ready", "hps"} ~> gui = Idle
=============================================================================
