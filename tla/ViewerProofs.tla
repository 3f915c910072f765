---------------------------- MODULE ViewerProofs ----------------------------
(***************************************************************************)
(* Proofs about the viewer's connection objects, and about a session that  *)
(* uses them, for every set of objects, every number of logon requests and *)
(* of attempts, and whether or not calls of the system fail.               *)
(*                                                                         *)
(* The objects (ClientConn).  TypeOK is inductive.  ReadyHeld and          *)
(* BitmapExclusive follow from who owns the mutex (LockInv);               *)
(* FreedThreadDone from what the state FINISH and the thread identifier    *)
(* say of the thread (ThreadInv); FreshAnswer from the number of the       *)
(* request an answer is kept with (AnswerInv).                             *)
(*                                                                         *)
(* The session (ViewerSession): its variables keep their types, its        *)
(* windows hold the objects their messages are about (HeldObjects), and it *)
(* implements the life cycle of Connection (Implements).  It takes steps   *)
(* of ClientConn, whose lemmas on types and on the mutex are used again.   *)
(* What the windows add is the inductive invariant SInv: one object is     *)
(* live at a time (OneLive), each point of its thread goes with a state of *)
(* it (Course), the cc* call in progress is that of the handler in         *)
(* progress (Calls), only a window's connection is told to stop (Stops),   *)
(* and what either window has of the object and its messages (Dialog,      *)
(* Window).                                                                *)
(***************************************************************************)
EXTENDS ViewerSession, TLAPS


LEMMA TypeInit == Init => TypeOK
  BY ConnsAssumption, MaxAskAssumption
  DEF Init, TypeOK, Idle, RFBStates, Owners, Windows, RFBPoints, GuiPoints, LogonKinds

\* Every step keeps the types.
LEMMA TypeStep ==
  ASSUME TypeOK, [Next]_vars
  PROVE  TypeOK'
<1>. USE DEF TypeOK, Idle, RFBStates, Owners, Windows, RFBPoints, GuiPoints,
       LogonKinds, objVars, syncVars, dataVars, rfbVars
<1>1. ASSUME NEW c \in Conns, RfbStep(c) \/ GuiStep(c) \/ TimePasses(c)
      PROVE  TypeOK'
  <2>1. CASE RfbPost(c)
    BY <2>1 DEF RfbPost, At, Goto, PostState, DiedWith
  <2>2. CASE RfbStart(c)
    BY <2>2 DEF RfbStart, At, MayLock, SetState, RfbSetState
  <2>3. CASE RfbNoQueue(c)
    BY <2>3 DEF RfbNoQueue, At, MayLock, SetState, RfbSetState
  <2>4. CASE RfbQueue(c)
    BY <2>4 DEF RfbQueue, At, Goto
  <2>5. CASE RfbAskState(c)
    BY <2>5 DEF RfbAskState, At, MayLock, SetState, RfbSetState
  <2>6. CASE RfbAskReset(c)
    BY <2>6 DEF RfbAskReset, At, Goto
  <2>7. CASE RfbAskWait(c)
    BY <2>7 DEF RfbAskWait, At, Goto
  <2>8. CASE RfbAskTake(c)
    BY <2>8, MaxAskAssumption DEF RfbAskTake, At
  <2>9. CASE RfbAskRefuse(c)
    BY <2>9 DEF RfbAskRefuse, At
  <2>10. CASE RfbAskBack(c)
    BY <2>10 DEF RfbAskBack, At, MayLock, SetState, RfbSetState
  <2>11. CASE RfbInitFail(c)
    BY <2>11 DEF RfbInitFail, At, Goto
  <2>12. CASE RfbForget(c)
    BY <2>12 DEF RfbForget, At, Goto
  <2>13. CASE RfbInitDone(c)
    BY <2>13 DEF RfbInitDone, At, Goto
  <2>14. CASE RfbReady(c)
    BY <2>14 DEF RfbReady, At, MayLock, SetState, RfbSetState
  <2>15. CASE RfbUpdate(c)
    BY <2>15 DEF RfbUpdate, At, Goto, MayLock
  <2>16. CASE RfbUpdated(c)
    BY <2>16 DEF RfbUpdated, At, Goto
  <2>17. CASE RfbUpdateError(c)
    BY <2>17 DEF RfbUpdateError, At, Goto
  <2>47. CASE RfbResize(c)
    BY <2>47 DEF RfbResize, At, Goto, MayLock
  <2>48. CASE RfbResized(c)
    BY <2>48 DEF RfbResized, At, Goto
  <2>18. CASE RfbSend(c)
    BY <2>18 DEF RfbSend, At, Goto
  <2>19. CASE RfbBlock(c)
    BY <2>19 DEF RfbBlock, At, Goto
  <2>20. CASE RfbUnblock(c)
    BY <2>20 DEF RfbUnblock, At, Goto
  <2>21. CASE RfbLeaveLoop(c)
    BY <2>21 DEF RfbLeaveLoop, At, Goto
  <2>22. CASE RfbFinish(c)
    BY <2>22 DEF RfbFinish, At, MayLock, SetState, RfbSetState
  <2>23. CASE CreateThread(c)
    BY <2>23 DEF CreateThread, Call
  <2>24. CASE CreateList(c)
    BY <2>24 DEF CreateList, GuiAt, Call
  <2>25. CASE CreateWaitState(c)
    BY <2>25 DEF CreateWaitState, MayLock, GuiAt
  <2>26. CASE CreateWaitEvent(c)
    BY <2>26 DEF CreateWaitEvent, GuiAt, Call
  <2>27. CASE DestroyUnlist(c)
    BY <2>27 DEF DestroyUnlist, Call, MayCall
  <2>28. CASE DestroySignal(c)
    BY <2>28 DEF DestroySignal, MayLock, GuiAt, Call
  <2>29. CASE DestroyWait(c)
    BY <2>29 DEF DestroyWait, GuiAt, Call
  <2>30. CASE DestroyCheck(c)
    BY <2>30 DEF DestroyCheck, GuiAt, Call
  <2>31. CASE DestroyKill(c)
    BY <2>31 DEF DestroyKill, DiedWith, GuiAt, Call, KillThread
  <2>32. CASE DestroyFree(c)
    BY <2>32 DEF DestroyFree, GuiAt, Return
  <2>33. CASE ccLockReadyState(c)
    BY <2>33 DEF ccLockReadyState, MayLock, Call, MayCall
  <2>34. CASE ccSetWindow(c)
    BY <2>34 DEF ccSetWindow, GuiAt
  <2>35. CASE ccUnlockReadyState(c)
    BY <2>35 DEF ccUnlockReadyState, GuiAt, Return
  <2>36. CASE ccGetHPS(c)
    BY <2>36 DEF ccGetHPS, MayLock, Call, MayCall
  <2>37. CASE ccReleaseHPS(c)
    BY <2>37 DEF ccReleaseHPS, GuiAt, Return
  <2>38. CASE ccDisconnectSignal(c)
    BY <2>38 DEF ccDisconnectSignal, MayLock, MayCall
  <2>39. CASE AnswerSent(c)
    BY <2>39 DEF AnswerSent, At, Goto
  <2>40. CASE WatchdogExpired(c)
    BY <2>40 DEF WatchdogExpired, Call
  <2>41. CASE WatchdogFinish(c)
    BY <2>41 DEF WatchdogFinish, MayLock, SetState, GuiAt, Call
  <2>42. CASE WatchdogNotify(c)
    BY <2>42 DEF WatchdogNotify, PostState, GuiAt, Call
  <2>43. CASE WatchdogKill(c)
    <3>1. CASE Return
      BY <2>43, <3>1 DEF WatchdogKill, DiedWith, GuiAt, Call, Return,
             KillThread
    <3>2. CASE \E d \in lsCCList \ {c} : Call(d, "expired")
      <4>1. PICK d \in lsCCList \ {c} : Call(d, "expired")
        BY <3>2
      <4>. QED
        BY <2>43, <4>1 DEF WatchdogKill, DiedWith, GuiAt, Call, KillThread
    <3>. QED
      BY <2>43, <3>1, <3>2 DEF WatchdogKill
  <2>44. CASE \E k \in LogonKinds : RfbAsk(c, k)
    <3>1. PICK k \in LogonKinds : RfbAsk(c, k)
      BY <2>44
    <3>. QED
      BY <3>1, MaxAskAssumption DEF RfbAsk, At
  <2>45. CASE \E k \in LogonKinds : ccSendLogonInfo(c, k)
    <3>1. PICK k \in LogonKinds : ccSendLogonInfo(c, k)
      BY <2>45 DEF ccSendLogonInfo
    <3>. QED
      BY <3>1, MaxAskAssumption DEF ccSendLogonInfo, MayLock, MayCall
  <2>46. CASE TimePasses(c)
    BY <2>46 DEF TimePasses
  <2>. QED
    BY <1>1, <2>1, <2>2, <2>3, <2>4, <2>5, <2>6, <2>7, <2>8, <2>9, <2>10,
           <2>11, <2>12, <2>13, <2>14, <2>15, <2>16, <2>17, <2>18, <2>19,
           <2>20, <2>21, <2>22, <2>23, <2>24, <2>25, <2>26, <2>27, <2>28,
           <2>29, <2>30, <2>31, <2>32, <2>33, <2>34, <2>35, <2>36, <2>37,
           <2>38, <2>39, <2>40, <2>41, <2>42, <2>43, <2>44, <2>45, <2>46, <2>47, <2>48 DEF
           RfbStep, GuiStep
<1>2. CASE Dispatch
  BY <1>2 DEF Dispatch
<1>3. CASE UNCHANGED vars
  BY <1>3 DEF vars
<1>. QED
  BY <1>1, <1>2, <1>3 DEF Next

\* The variables keep their types: among others RFBSTATE_ERROR is never set,
\* and no more than MaxAsk requests are counted.
THEOREM TypeCorrect == Spec => []TypeOK
<1>1. Init => TypeOK
  BY TypeInit
<1>2. TypeOK /\ [Next]_vars => TypeOK'
  BY TypeStep
<1>. QED
  BY <1>1, <1>2, PTL DEF Spec

-----------------------------------------------------------------------------
(* The mutex. *)

\* The owner of hmtxRFB is where it is to release it; a thread that reports a
\* state never goes straight to the bitmap.
LockInv ==
  \A c \in Conns :
    /\ gui \in {[at |-> "ready", cc |-> c], [at |-> "hps", cc |-> c]} => hmtxRFB[c] = "gui"
    /\ gui = [at |-> "ready", cc |-> c] => ulRFBState[c] = "READY"
    /\ pc[c] \in {"resize", "update"} => hmtxRFB[c] \in {"rfb", "leaked"}
    /\ cont[c].next \notin {"resize", "update"}

LEMMA LockInit == Init => LockInv
  BY DEF Init, LockInv, Idle

\* Who takes the mutex finds it free; who changes the state takes the mutex.
LEMMA LockStep ==
  ASSUME TypeOK, LockInv, [Next]_vars
  PROVE  LockInv'
<1>. USE DEF LockInv, TypeOK, Idle, Owners, objVars, syncVars, dataVars,
       rfbVars
<1>1. ASSUME NEW c \in Conns, RfbStep(c) \/ GuiStep(c) \/ TimePasses(c)
      PROVE  LockInv'
  <2>1. CASE RfbPost(c)
    BY <2>1 DEF RfbPost, At, Goto, PostState, DiedWith
  <2>2. CASE RfbStart(c)
    BY <2>2 DEF RfbStart, At, MayLock, SetState, RfbSetState
  <2>3. CASE RfbNoQueue(c)
    BY <2>3 DEF RfbNoQueue, At, MayLock, SetState, RfbSetState
  <2>4. CASE RfbQueue(c)
    BY <2>4 DEF RfbQueue, At, Goto
  <2>5. CASE RfbAskState(c)
    BY <2>5 DEF RfbAskState, At, MayLock, SetState, RfbSetState
  <2>6. CASE RfbAskReset(c)
    BY <2>6 DEF RfbAskReset, At, Goto
  <2>7. CASE RfbAskWait(c)
    BY <2>7 DEF RfbAskWait, At, Goto
  <2>8. CASE RfbAskTake(c)
    BY <2>8 DEF RfbAskTake, At
  <2>9. CASE RfbAskRefuse(c)
    BY <2>9 DEF RfbAskRefuse, At
  <2>10. CASE RfbAskBack(c)
    BY <2>10 DEF RfbAskBack, At, MayLock, SetState, RfbSetState
  <2>11. CASE RfbInitFail(c)
    BY <2>11 DEF RfbInitFail, At, Goto
  <2>12. CASE RfbForget(c)
    BY <2>12 DEF RfbForget, At, Goto
  <2>13. CASE RfbInitDone(c)
    BY <2>13 DEF RfbInitDone, At, Goto
  <2>14. CASE RfbReady(c)
    BY <2>14 DEF RfbReady, At, MayLock, SetState, RfbSetState
  <2>15. CASE RfbUpdate(c)
    BY <2>15 DEF RfbUpdate, At, Goto, MayLock
  <2>16. CASE RfbUpdated(c)
    BY <2>16 DEF RfbUpdated, At, Goto
  <2>17. CASE RfbUpdateError(c)
    BY <2>17 DEF RfbUpdateError, At, Goto
  <2>47. CASE RfbResize(c)
    BY <2>47 DEF RfbResize, At, Goto, MayLock
  <2>48. CASE RfbResized(c)
    BY <2>48 DEF RfbResized, At, Goto
  <2>18. CASE RfbSend(c)
    BY <2>18 DEF RfbSend, At, Goto
  <2>19. CASE RfbBlock(c)
    BY <2>19 DEF RfbBlock, At, Goto
  <2>20. CASE RfbUnblock(c)
    BY <2>20 DEF RfbUnblock, At, Goto
  <2>21. CASE RfbLeaveLoop(c)
    BY <2>21 DEF RfbLeaveLoop, At, Goto
  <2>22. CASE RfbFinish(c)
    BY <2>22 DEF RfbFinish, At, MayLock, SetState, RfbSetState
  <2>23. CASE CreateThread(c)
    BY <2>23 DEF CreateThread, Call
  <2>24. CASE CreateList(c)
    BY <2>24 DEF CreateList, GuiAt, Call
  <2>25. CASE CreateWaitState(c)
    BY <2>25 DEF CreateWaitState, MayLock, GuiAt
  <2>26. CASE CreateWaitEvent(c)
    BY <2>26 DEF CreateWaitEvent, GuiAt, Call
  <2>27. CASE DestroyUnlist(c)
    BY <2>27 DEF DestroyUnlist, Call, MayCall
  <2>28. CASE DestroySignal(c)
    BY <2>28 DEF DestroySignal, MayLock, GuiAt, Call
  <2>29. CASE DestroyWait(c)
    BY <2>29 DEF DestroyWait, GuiAt, Call
  <2>30. CASE DestroyCheck(c)
    BY <2>30 DEF DestroyCheck, GuiAt, Call
  <2>31. CASE DestroyKill(c)
    BY <2>31 DEF DestroyKill, DiedWith, GuiAt, Call, KillThread
  <2>32. CASE DestroyFree(c)
    BY <2>32 DEF DestroyFree, GuiAt, Return
  <2>33. CASE ccLockReadyState(c)
    BY <2>33 DEF ccLockReadyState, MayLock, Call, MayCall
  <2>34. CASE ccSetWindow(c)
    BY <2>34 DEF ccSetWindow, GuiAt
  <2>35. CASE ccUnlockReadyState(c)
    BY <2>35 DEF ccUnlockReadyState, GuiAt, Return
  <2>36. CASE ccGetHPS(c)
    BY <2>36 DEF ccGetHPS, MayLock, Call, MayCall
  <2>37. CASE ccReleaseHPS(c)
    BY <2>37 DEF ccReleaseHPS, GuiAt, Return
  <2>38. CASE ccDisconnectSignal(c)
    BY <2>38 DEF ccDisconnectSignal, MayLock, MayCall
  <2>39. CASE AnswerSent(c)
    BY <2>39 DEF AnswerSent, At, Goto
  <2>40. CASE WatchdogExpired(c)
    BY <2>40 DEF WatchdogExpired, Call
  <2>41. CASE WatchdogFinish(c)
    BY <2>41 DEF WatchdogFinish, MayLock, SetState, GuiAt, Call
  <2>42. CASE WatchdogNotify(c)
    BY <2>42 DEF WatchdogNotify, PostState, GuiAt, Call
  <2>43. CASE WatchdogKill(c)
    <3>1. CASE Return
      BY <2>43, <3>1 DEF WatchdogKill, DiedWith, GuiAt, Call, Return,
             KillThread
    <3>2. CASE \E d \in lsCCList \ {c} : Call(d, "expired")
      <4>1. PICK d \in lsCCList \ {c} : Call(d, "expired")
        BY <3>2
      <4>. QED
        BY <2>43, <4>1 DEF WatchdogKill, DiedWith, GuiAt, Call, KillThread
    <3>. QED
      BY <2>43, <3>1, <3>2 DEF WatchdogKill
  <2>44. CASE \E k \in LogonKinds : RfbAsk(c, k)
    <3>1. PICK k \in LogonKinds : RfbAsk(c, k)
      BY <2>44
    <3>. QED
      BY <3>1 DEF RfbAsk, At
  <2>45. CASE \E k \in LogonKinds : ccSendLogonInfo(c, k)
    <3>1. PICK k \in LogonKinds : ccSendLogonInfo(c, k)
      BY <2>45 DEF ccSendLogonInfo
    <3>. QED
      BY <3>1 DEF ccSendLogonInfo, MayLock, MayCall
  <2>46. CASE TimePasses(c)
    BY <2>46 DEF TimePasses
  <2>. QED
    BY <1>1, <2>1, <2>2, <2>3, <2>4, <2>5, <2>6, <2>7, <2>8, <2>9, <2>10,
           <2>11, <2>12, <2>13, <2>14, <2>15, <2>16, <2>17, <2>18, <2>19,
           <2>20, <2>21, <2>22, <2>23, <2>24, <2>25, <2>26, <2>27, <2>28,
           <2>29, <2>30, <2>31, <2>32, <2>33, <2>34, <2>35, <2>36, <2>37,
           <2>38, <2>39, <2>40, <2>41, <2>42, <2>43, <2>44, <2>45, <2>46, <2>47, <2>48 DEF
           RfbStep, GuiStep
<1>2. CASE Dispatch
  BY <1>2 DEF Dispatch
<1>3. CASE UNCHANGED vars
  BY <1>3 DEF vars
<1>. QED
  BY <1>1, <1>2, <1>3 DEF Next

LEMMA LockHolds == Spec => []LockInv
<1>1. Init => LockInv
  BY LockInit
<1>2. TypeOK /\ LockInv /\ [Next]_vars => LockInv'
  BY LockStep
<1>. QED
  BY <1>1, <1>2, TypeCorrect, PTL DEF Spec

\* Between ccLockReadyState and ccUnlockReadyState the state stays READY, as
\* the comment at clntconn.c:1415 says.
THEOREM ReadyStaysReady == Spec => []ReadyHeld
<1>1. LockInv => ReadyHeld
  BY DEF LockInv, ReadyHeld
<1>. QED
  BY <1>1, LockHolds, PTL

\* The GUI thread and the connection thread never use the bitmap together.
THEOREM BitmapMutex == Spec => []BitmapExclusive
<1>1. LockInv => BitmapExclusive
  BY DEF LockInv, BitmapExclusive
<1>. QED
  BY <1>1, LockHolds, PTL

-----------------------------------------------------------------------------
(* The end of the thread. *)

\* FINISH means that the thread is through, or that the watchdog is about to
\* kill it; so does a forgotten thread identifier.  The GUI thread frees an
\* object only when one of the two has told it so.
ThreadInv ==
  \A c \in Conns :
    /\ life[c] = "none" => ulRFBState[c] = "NOTINIT"
    /\ life[c] = "live" /\ ulRFBState[c] = "FINISH"
         => ThreadDone(c) \/ gui \in {[at |-> "notify", cc |-> c], [at |-> "killLate", cc |-> c]}
    /\ life[c] = "live" /\ ~iRFBTid[c] => ThreadDone(c)
    /\ gui = [at |-> "free", cc |-> c] => ThreadDone(c)
    /\ life[c] = "freed" => ThreadDone(c)

LEMMA ThreadInit == Init => ThreadInv
  BY DEF Init, ThreadInv, Idle

\* No step of the thread leaves its end, and no step of the GUI thread reaches
\* the release of the object before it.
LEMMA ThreadStep ==
  ASSUME TypeOK, ThreadInv, [Next]_vars
  PROVE  ThreadInv'
<1>. USE DEF ThreadInv, ThreadDone, TypeOK, Idle, objVars, syncVars, dataVars,
       rfbVars
<1>1. ASSUME NEW c \in Conns, RfbStep(c) \/ GuiStep(c) \/ TimePasses(c)
      PROVE  ThreadInv'
  <2>1. CASE RfbPost(c)
    BY <2>1 DEF RfbPost, At, Goto, PostState, DiedWith
  <2>2. CASE RfbStart(c)
    BY <2>2 DEF RfbStart, At, MayLock, SetState, RfbSetState
  <2>3. CASE RfbNoQueue(c)
    BY <2>3 DEF RfbNoQueue, At, MayLock, SetState, RfbSetState
  <2>4. CASE RfbQueue(c)
    BY <2>4 DEF RfbQueue, At, Goto
  <2>5. CASE RfbAskState(c)
    BY <2>5 DEF RfbAskState, At, MayLock, SetState, RfbSetState
  <2>6. CASE RfbAskReset(c)
    BY <2>6 DEF RfbAskReset, At, Goto
  <2>7. CASE RfbAskWait(c)
    BY <2>7 DEF RfbAskWait, At, Goto
  <2>8. CASE RfbAskTake(c)
    BY <2>8 DEF RfbAskTake, At
  <2>9. CASE RfbAskRefuse(c)
    BY <2>9 DEF RfbAskRefuse, At
  <2>10. CASE RfbAskBack(c)
    BY <2>10 DEF RfbAskBack, At, MayLock, SetState, RfbSetState
  <2>11. CASE RfbInitFail(c)
    BY <2>11 DEF RfbInitFail, At, Goto
  <2>12. CASE RfbForget(c)
    BY <2>12 DEF RfbForget, At, Goto
  <2>13. CASE RfbInitDone(c)
    BY <2>13 DEF RfbInitDone, At, Goto
  <2>14. CASE RfbReady(c)
    BY <2>14 DEF RfbReady, At, MayLock, SetState, RfbSetState
  <2>15. CASE RfbUpdate(c)
    BY <2>15 DEF RfbUpdate, At, Goto, MayLock
  <2>16. CASE RfbUpdated(c)
    BY <2>16 DEF RfbUpdated, At, Goto
  <2>17. CASE RfbUpdateError(c)
    BY <2>17 DEF RfbUpdateError, At, Goto
  <2>47. CASE RfbResize(c)
    BY <2>47 DEF RfbResize, At, Goto, MayLock
  <2>48. CASE RfbResized(c)
    BY <2>48 DEF RfbResized, At, Goto
  <2>18. CASE RfbSend(c)
    BY <2>18 DEF RfbSend, At, Goto
  <2>19. CASE RfbBlock(c)
    BY <2>19 DEF RfbBlock, At, Goto
  <2>20. CASE RfbUnblock(c)
    BY <2>20 DEF RfbUnblock, At, Goto
  <2>21. CASE RfbLeaveLoop(c)
    BY <2>21 DEF RfbLeaveLoop, At, Goto
  <2>22. CASE RfbFinish(c)
    BY <2>22 DEF RfbFinish, At, MayLock, SetState, RfbSetState
  <2>23. CASE CreateThread(c)
    BY <2>23 DEF CreateThread, Call
  <2>24. CASE CreateList(c)
    BY <2>24 DEF CreateList, GuiAt, Call
  <2>25. CASE CreateWaitState(c)
    BY <2>25 DEF CreateWaitState, MayLock, GuiAt
  <2>26. CASE CreateWaitEvent(c)
    BY <2>26 DEF CreateWaitEvent, GuiAt, Call
  <2>27. CASE DestroyUnlist(c)
    BY <2>27 DEF DestroyUnlist, Call, MayCall
  <2>28. CASE DestroySignal(c)
    BY <2>28 DEF DestroySignal, MayLock, GuiAt, Call
  <2>29. CASE DestroyWait(c)
    BY <2>29 DEF DestroyWait, GuiAt, Call
  <2>30. CASE DestroyCheck(c)
    BY <2>30 DEF DestroyCheck, GuiAt, Call
  <2>31. CASE DestroyKill(c)
    BY <2>31 DEF DestroyKill, DiedWith, GuiAt, Call, KillThread
  <2>32. CASE DestroyFree(c)
    BY <2>32 DEF DestroyFree, GuiAt, Return
  <2>33. CASE ccLockReadyState(c)
    BY <2>33 DEF ccLockReadyState, MayLock, Call, MayCall
  <2>34. CASE ccSetWindow(c)
    BY <2>34 DEF ccSetWindow, GuiAt
  <2>35. CASE ccUnlockReadyState(c)
    BY <2>35 DEF ccUnlockReadyState, GuiAt, Return
  <2>36. CASE ccGetHPS(c)
    BY <2>36 DEF ccGetHPS, MayLock, Call, MayCall
  <2>37. CASE ccReleaseHPS(c)
    BY <2>37 DEF ccReleaseHPS, GuiAt, Return
  <2>38. CASE ccDisconnectSignal(c)
    BY <2>38 DEF ccDisconnectSignal, MayLock, MayCall
  <2>39. CASE AnswerSent(c)
    BY <2>39 DEF AnswerSent, At, Goto
  <2>40. CASE WatchdogExpired(c)
    BY <2>40 DEF WatchdogExpired, Call
  <2>41. CASE WatchdogFinish(c)
    BY <2>41 DEF WatchdogFinish, MayLock, SetState, GuiAt, Call
  <2>42. CASE WatchdogNotify(c)
    BY <2>42 DEF WatchdogNotify, PostState, GuiAt, Call
  <2>43. CASE WatchdogKill(c)
    <3>1. \A x \in Conns : ThreadDone(x) => ThreadDone(x)'
      BY <2>43 DEF WatchdogKill, KillThread
    <3>2. ThreadDone(c)'
      BY <2>43 DEF WatchdogKill, KillThread
    <3>3. UNCHANGED <<life, ulRFBState>> /\ iRFBTid' = [iRFBTid EXCEPT ![c] = FALSE]
      BY <2>43 DEF WatchdogKill
    <3>4. gui = [at |-> "killLate", cc |-> c]
      BY <2>43 DEF WatchdogKill, GuiAt
    <3>5. gui'.at # "free"
      BY <2>43 DEF WatchdogKill, Call, Return
    <3>. HIDE DEF ThreadDone, TypeOK
    <3>6. \A x \in Conns \ {c} : life[x] = "live" /\ ulRFBState[x] = "FINISH" => ThreadDone(x)
      BY <3>4
    <3>7. \A x \in Conns \ {c} : iRFBTid'[x] = iRFBTid[x]
      BY <3>3 DEF TypeOK
    <3>. QED
      BY <3>1, <3>2, <3>3, <3>5, <3>6, <3>7
  <2>44. CASE \E k \in LogonKinds : RfbAsk(c, k)
    <3>1. PICK k \in LogonKinds : RfbAsk(c, k)
      BY <2>44
    <3>. QED
      BY <3>1 DEF RfbAsk, At
  <2>45. CASE \E k \in LogonKinds : ccSendLogonInfo(c, k)
    <3>1. PICK k \in LogonKinds : ccSendLogonInfo(c, k)
      BY <2>45 DEF ccSendLogonInfo
    <3>. QED
      BY <3>1 DEF ccSendLogonInfo, MayLock, MayCall
  <2>46. CASE TimePasses(c)
    BY <2>46 DEF TimePasses
  <2>. QED
    BY <1>1, <2>1, <2>2, <2>3, <2>4, <2>5, <2>6, <2>7, <2>8, <2>9, <2>10,
           <2>11, <2>12, <2>13, <2>14, <2>15, <2>16, <2>17, <2>18, <2>19,
           <2>20, <2>21, <2>22, <2>23, <2>24, <2>25, <2>26, <2>27, <2>28,
           <2>29, <2>30, <2>31, <2>32, <2>33, <2>34, <2>35, <2>36, <2>37,
           <2>38, <2>39, <2>40, <2>41, <2>42, <2>43, <2>44, <2>45, <2>46, <2>47, <2>48 DEF
           RfbStep, GuiStep
<1>2. CASE Dispatch
  BY <1>2 DEF Dispatch
<1>3. CASE UNCHANGED vars
  BY <1>3 DEF vars
<1>. QED
  BY <1>1, <1>2, <1>3 DEF Next

LEMMA ThreadHolds == Spec => []ThreadInv
<1>1. Init => ThreadInv
  BY ThreadInit
<1>2. TypeOK /\ ThreadInv /\ [Next]_vars => ThreadInv'
  BY ThreadStep
<1>. QED
  BY <1>1, <1>2, TypeCorrect, PTL DEF Spec

\* ccDestroy frees an object only when its thread is killed, ended, or has
\* nothing left but the message of its last state.
THEOREM FreedOnlyDone == Spec => []FreedThreadDone
<1>1. ThreadInv => FreedThreadDone
  BY DEF ThreadInv, FreedThreadDone
<1>. QED
  BY <1>1, ThreadHolds, PTL

-----------------------------------------------------------------------------
(* Logon information. *)

\* What is kept was sent for the latest request.
AnswerInv == \A c \in Conns : pLogonInfo[c] # 0 => pLogonInfo[c] = asked[c]

LEMMA AnswerInit == Init => AnswerInv
  BY DEF Init, AnswerInv

\* A new request begins without an answer.
LEMMA AnswerStep ==
  ASSUME TypeOK, AnswerInv, [Next]_vars
  PROVE  AnswerInv'
<1>. USE DEF AnswerInv, TypeOK, objVars, syncVars, dataVars, rfbVars
<1>1. ASSUME NEW c \in Conns, RfbStep(c) \/ GuiStep(c) \/ TimePasses(c)
      PROVE  AnswerInv'
  <2>1. CASE RfbPost(c)
    BY <2>1 DEF RfbPost, At, Goto, PostState, DiedWith
  <2>2. CASE RfbStart(c)
    BY <2>2 DEF RfbStart, At, MayLock, SetState, RfbSetState
  <2>3. CASE RfbNoQueue(c)
    BY <2>3 DEF RfbNoQueue, At, MayLock, SetState, RfbSetState
  <2>4. CASE RfbQueue(c)
    BY <2>4 DEF RfbQueue, At, Goto
  <2>5. CASE RfbAskState(c)
    BY <2>5 DEF RfbAskState, At, MayLock, SetState, RfbSetState
  <2>6. CASE RfbAskReset(c)
    BY <2>6 DEF RfbAskReset, At, Goto
  <2>7. CASE RfbAskWait(c)
    BY <2>7 DEF RfbAskWait, At, Goto
  <2>8. CASE RfbAskTake(c)
    BY <2>8 DEF RfbAskTake, At
  <2>9. CASE RfbAskRefuse(c)
    BY <2>9 DEF RfbAskRefuse, At
  <2>10. CASE RfbAskBack(c)
    BY <2>10 DEF RfbAskBack, At, MayLock, SetState, RfbSetState
  <2>11. CASE RfbInitFail(c)
    BY <2>11 DEF RfbInitFail, At, Goto
  <2>12. CASE RfbForget(c)
    BY <2>12 DEF RfbForget, At, Goto
  <2>13. CASE RfbInitDone(c)
    BY <2>13 DEF RfbInitDone, At, Goto
  <2>14. CASE RfbReady(c)
    BY <2>14 DEF RfbReady, At, MayLock, SetState, RfbSetState
  <2>15. CASE RfbUpdate(c)
    BY <2>15 DEF RfbUpdate, At, Goto, MayLock
  <2>16. CASE RfbUpdated(c)
    BY <2>16 DEF RfbUpdated, At, Goto
  <2>17. CASE RfbUpdateError(c)
    BY <2>17 DEF RfbUpdateError, At, Goto
  <2>47. CASE RfbResize(c)
    BY <2>47 DEF RfbResize, At, Goto, MayLock
  <2>48. CASE RfbResized(c)
    BY <2>48 DEF RfbResized, At, Goto
  <2>18. CASE RfbSend(c)
    BY <2>18 DEF RfbSend, At, Goto
  <2>19. CASE RfbBlock(c)
    BY <2>19 DEF RfbBlock, At, Goto
  <2>20. CASE RfbUnblock(c)
    BY <2>20 DEF RfbUnblock, At, Goto
  <2>21. CASE RfbLeaveLoop(c)
    BY <2>21 DEF RfbLeaveLoop, At, Goto
  <2>22. CASE RfbFinish(c)
    BY <2>22 DEF RfbFinish, At, MayLock, SetState, RfbSetState
  <2>23. CASE CreateThread(c)
    BY <2>23 DEF CreateThread, Call
  <2>24. CASE CreateList(c)
    BY <2>24 DEF CreateList, GuiAt, Call
  <2>25. CASE CreateWaitState(c)
    BY <2>25 DEF CreateWaitState, MayLock, GuiAt
  <2>26. CASE CreateWaitEvent(c)
    BY <2>26 DEF CreateWaitEvent, GuiAt, Call
  <2>27. CASE DestroyUnlist(c)
    BY <2>27 DEF DestroyUnlist, Call, MayCall
  <2>28. CASE DestroySignal(c)
    BY <2>28 DEF DestroySignal, MayLock, GuiAt, Call
  <2>29. CASE DestroyWait(c)
    BY <2>29 DEF DestroyWait, GuiAt, Call
  <2>30. CASE DestroyCheck(c)
    BY <2>30 DEF DestroyCheck, GuiAt, Call
  <2>31. CASE DestroyKill(c)
    BY <2>31 DEF DestroyKill, DiedWith, GuiAt, Call, KillThread
  <2>32. CASE DestroyFree(c)
    BY <2>32 DEF DestroyFree, GuiAt, Return
  <2>33. CASE ccLockReadyState(c)
    BY <2>33 DEF ccLockReadyState, MayLock, Call, MayCall
  <2>34. CASE ccSetWindow(c)
    BY <2>34 DEF ccSetWindow, GuiAt
  <2>35. CASE ccUnlockReadyState(c)
    BY <2>35 DEF ccUnlockReadyState, GuiAt, Return
  <2>36. CASE ccGetHPS(c)
    BY <2>36 DEF ccGetHPS, MayLock, Call, MayCall
  <2>37. CASE ccReleaseHPS(c)
    BY <2>37 DEF ccReleaseHPS, GuiAt, Return
  <2>38. CASE ccDisconnectSignal(c)
    BY <2>38 DEF ccDisconnectSignal, MayLock, MayCall
  <2>39. CASE AnswerSent(c)
    BY <2>39 DEF AnswerSent, At, Goto
  <2>40. CASE WatchdogExpired(c)
    BY <2>40 DEF WatchdogExpired, Call
  <2>41. CASE WatchdogFinish(c)
    BY <2>41 DEF WatchdogFinish, MayLock, SetState, GuiAt, Call
  <2>42. CASE WatchdogNotify(c)
    BY <2>42 DEF WatchdogNotify, PostState, GuiAt, Call
  <2>43. CASE WatchdogKill(c)
    <3>1. CASE Return
      BY <2>43, <3>1 DEF WatchdogKill, DiedWith, GuiAt, Call, Return,
             KillThread
    <3>2. CASE \E d \in lsCCList \ {c} : Call(d, "expired")
      <4>1. PICK d \in lsCCList \ {c} : Call(d, "expired")
        BY <3>2
      <4>. QED
        BY <2>43, <4>1 DEF WatchdogKill, DiedWith, GuiAt, Call, KillThread
    <3>. QED
      BY <2>43, <3>1, <3>2 DEF WatchdogKill
  <2>44. CASE \E k \in LogonKinds : RfbAsk(c, k)
    <3>1. PICK k \in LogonKinds : RfbAsk(c, k)
      BY <2>44
    <3>. QED
      BY <3>1 DEF RfbAsk, At
  <2>45. CASE \E k \in LogonKinds : ccSendLogonInfo(c, k)
    <3>1. PICK k \in LogonKinds : ccSendLogonInfo(c, k)
      BY <2>45 DEF ccSendLogonInfo
    <3>. QED
      BY <3>1 DEF ccSendLogonInfo, MayLock, MayCall
  <2>46. CASE TimePasses(c)
    BY <2>46 DEF TimePasses
  <2>. QED
    BY <1>1, <2>1, <2>2, <2>3, <2>4, <2>5, <2>6, <2>7, <2>8, <2>9, <2>10,
           <2>11, <2>12, <2>13, <2>14, <2>15, <2>16, <2>17, <2>18, <2>19,
           <2>20, <2>21, <2>22, <2>23, <2>24, <2>25, <2>26, <2>27, <2>28,
           <2>29, <2>30, <2>31, <2>32, <2>33, <2>34, <2>35, <2>36, <2>37,
           <2>38, <2>39, <2>40, <2>41, <2>42, <2>43, <2>44, <2>45, <2>46, <2>47, <2>48 DEF
           RfbStep, GuiStep
<1>2. CASE Dispatch
  BY <1>2 DEF Dispatch
<1>3. CASE UNCHANGED vars
  BY <1>3 DEF vars
<1>. QED
  BY <1>1, <1>2, <1>3 DEF Next

\* A connection thread never takes logon information sent for an earlier
\* request.
THEOREM AnswersFresh == Spec => []FreshAnswer
<1>1. Init => AnswerInv
  BY AnswerInit
<1>2. TypeOK /\ AnswerInv /\ [Next]_vars => AnswerInv'
  BY AnswerStep
<1>3. AnswerInv => FreshAnswer
  BY DEF AnswerInv, FreshAnswer
<1>. QED
  BY <1>1, <1>2, <1>3, TypeCorrect, PTL DEF Spec


-----------------------------------------------------------------------------
(* The inductive invariant. *)

Destroying == {"signal", "waitThread", "checkState", "kill", "free"}
Watching   == {"expired", "notify", "killLate"}
Over       == {"ended", "killed"}
InLoop     == {"loop", "resize", "update", "blocked", "sending"}

\* The thread has reported READY, and its rfbClient is not given up.
Established(c) ==
  /\ ulRFBState[c] \in {"READY", "FINISH"}
  /\ pRFBClient[c] = "live"
  /\ pc[c] \in InLoop \cup Over \cup {"finish", "post"}
  /\ pc[c] = "post" => cont[c].next \in {"loop", "ended"}

\* The state an object shows at each point of its thread.
Course(c) ==
  /\ pc[c] # "none"
  /\ pc[c] = "start" => ulRFBState[c] = "NOTINIT"
  /\ pc[c] \in {"pmInit", "init", "ask", "cleanup", "initFailed", "initDone"}
       => ulRFBState[c] = "INITPROGRESS"
  /\ pc[c] \in {"askReset", "askWait", "askTake", "askBack"}
       => ulRFBState[c] = "WAITPASSWORD"
  /\ pc[c] = "askBack" =>
       cont[c].state = "INITPROGRESS" /\ cont[c].next \in {"init", "cleanup"}
  /\ pc[c] \in {"start", "pmInit", "init", "ask", "initDone",
                "askReset", "askWait", "askTake", "askBack"} => pRFBClient[c] = "live"
  /\ pc[c] \in InLoop => Established(c)
  /\ pc[c] = "finish" => ulRFBState[c] \in {"INITPROGRESS", "READY", "FINISH"}
  /\ ulRFBState[c] = "READY" => Established(c)
  /\ hwnd[c] = "win" => Established(c)
  /\ pc[c] = "post" =>
       \/ /\ cont[c].next \in {"pmInit", "init", "cleanup"}
          /\ ulRFBState[c] = "INITPROGRESS" /\ pRFBClient[c] = "live"
       \/ /\ cont[c].next = "askReset"
          /\ ulRFBState[c] = "WAITPASSWORD" /\ pRFBClient[c] = "live"
       \/ cont[c].next = "loop" /\ Established(c)
       \/ cont[c].next = "ended" /\ ulRFBState[c] = "FINISH"
  /\ pc[c] = "post" /\ cont[c].state = "FINISH" => cont[c].next = "ended"

\* An object that is not made yet is as Init left it.
Fresh(c) == /\ ulRFBState[c] = "NOTINIT" /\ ulStopSigTime[c] = "zero"
            /\ hwnd[c] = "dlg" /\ pRFBClient[c] = "null" /\ pc[c] = "none"

Objects ==
  \A c \in Conns : /\ life[c] = "live" => Course(c)
                   /\ life[c] = "none" => Fresh(c)
                   /\ c \in lsCCList => life[c] = "live"

OneLive == \A c, d \in Conns : life[c] = "live" /\ life[d] = "live" => c = d

NoneLive == \A c \in Conns : life[c] # "live"

\* The cc* call the GUI thread is in belongs to its task.
Calls ==
  /\ gui = Idle \/ (gui.at # "idle" /\ gui.cc \in Conns /\ life[gui.cc] = "live")
  /\ gui.at \in Destroying <=> (gui # Idle /\ task \in {"create", "closeDlg",
        "closeWin", "exit"})
  /\ gui.at \in Destroying => gui.cc \notin lsCCList
  /\ gui.at = "ready" <=> task \in {"window", "unlock"}
  /\ gui.at \in {"listed", "waitState", "waitEvent", "hps"} \cup Watching => task = "none"
  /\ gui.at \in Watching => hwnd[gui.cc] = "win"
  /\ gui = Idle /\ task \in {"create", "closeDlg", "closeWin"} => NoneLive

\* Only a window's connection is told to stop, or one that is being destroyed.
Stops ==
  \A c \in Conns :
    life[c] = "live" /\ ulStopSigTime[c] # "zero" =>
      hwnd[c] = "win" \/ (gui.cc = c /\ gui.at \in Destroying \ {"signal"})

\* The connection thread of the dialog's object is through, and its messages
\* are read.
Quiet == posted = <<>> /\ \A c \in Conns : life[c] = "live" => pc[c] \in Over

Dialog ==
  /\ dlg = "closed" => dlgCC = NoConn
  /\ dlg # "closed" => /\ \A c \in Conns : life[c] = "live" => c = dlgCC
                       /\ \A i \in DOMAIN posted : posted[i].cc = dlgCC
                       /\ \A i \in DOMAIN posted : posted[i].state = "FINISH" =>
                            i = Len(posted) /\ pc[dlgCC] \in Over
  /\ dlg # "closed" /\ dlgCC # NoConn /\ task \notin {"create",
        "closeDlg"} => life[dlgCC] = "live"
  /\ task \in {"create", "lockReady", "window", "unlock", "sendStored"} => dlg = "open"
  /\ task = "closeDlg" => dlg # "closed"
  /\ task \in {"closeWin", "exit"} => dlg = "closed"
  /\ task \in {"lockReady", "window", "unlock", "sendStored"} => dlgCC # NoConn
  /\ task = "create" => Quiet /\ attempt < MaxAttempts /\ ~ timer
  /\ timer => dlg = "open" /\ dlgCC # NoConn /\ attempt < MaxAttempts /\ Quiet
  /\ dlg = "box" => dlgCC # NoConn
  /\ attempt <= MaxAttempts

Window ==
  /\ win = "open" => dlg = "closed" \/ task = "unlock"
  /\ win = "open" /\ task # "closeWin" => winCC \in Conns /\ life[winCC] = "live" /\ hwnd[winCC] = "win"
  /\ \A c \in Conns : life[c] = "live" /\ hwnd[c] = "win" => win = "open" /\ winCC = c
  /\ task = "disconnect" => win = "open"
  /\ task = "exit" => win = "closed"

SInv == Objects /\ OneLive /\ Calls /\ Stops /\ Dialog /\ Window

-----------------------------------------------------------------------------
(* Steps of a session are steps of its connection objects. *)

\* A handler of the last message takes it and enters ccDestroy.
Drop ==
  \E c \in Conns \cup {NoConn} :
    /\ posted # <<>> /\ posted' = Tail(posted)
    /\ lsCCList' = lsCCList \ {c}
    /\ \E p \in {"signal", "free"} : Call(c, p)
    /\ UNCHANGED <<life, hwnd, syncVars, dataVars, rfbVars>>

\* Without an object, nothing is sent to one.
LEMMA NoAnswer ==
  ASSUME TypeOK, ccSendLogonInfo(NoConn, "password")
  PROVE  UNCHANGED vars
<1>1. pLogonInfo' = pLogonInfo /\ hevRFBState' = hevRFBState
  BY ConnsAssumption DEF ccSendLogonInfo, TypeOK
<1>. QED
  BY <1>1 DEF ccSendLogonInfo, vars, objVars, syncVars, dataVars, rfbVars

LEMMA Answers ==
  ASSUME STypeOK, SendAnswer(dlgCC)
  PROVE  [Next]_vars
<1>1. CASE dlgCC \in Conns /\ ccSendLogonInfo(dlgCC, "password")
  BY <1>1 DEF Next, GuiStep, LogonKinds
<1>2. CASE dlgCC = NoConn /\ ccSendLogonInfo(dlgCC, "password")
  BY <1>2, NoAnswer DEF STypeOK
<1>3. CASE UNCHANGED connVars
  BY <1>3 DEF vars, connVars
<1>. QED
  BY <1>1, <1>2, <1>3 DEF SendAnswer, STypeOK

LEMMA StepsOfObjects ==
  ASSUME STypeOK, Calls, dlg = "box" \/ task = "lockReady" \/ timer => dlgCC # NoConn,
         win = "open" /\ task # "closeWin" => winCC \in Conns,
         task = "disconnect" => win = "open",
         [SNext]_svars
  PROVE  [Next]_vars \/ Drop
<1>. USE DEF STypeOK, connVars, vars
<1>1. CASE FromQueue
  <2>1. CASE OnReady \/ OnWaitPasswordStored \/ OnWaitPasswordAsk \/ OnFinishRetry
             \/ OnFinishShow \/ OnOther
    BY <2>1 DEF OnReady, OnWaitPasswordStored, OnWaitPasswordAsk, OnFinishRetry,
         OnFinishShow, OnOther, Next
  <2>2. CASE OnFinishQuiet
    BY <2>2 DEF OnFinishQuiet, Received, Drop
  <2>3. CASE OnWinFinish
    BY <2>3 DEF OnWinFinish, Received, Drop
  <2>. QED
    BY <1>1, <2>1, <2>2, <2>3 DEF FromQueue
<1>2. CASE HandlerGoesOn
  <2>1. CASE StartConnection
    BY <2>1 DEF StartConnection, Next, GuiStep
  <2>2. CASE StartFails \/ ReadyLost \/ CreateWindowFails \/ CloseDlgDone \/ CloseWinDone
    BY <2>2 DEF StartFails, ReadyLost, CreateWindowFails, CloseDlgDone, CloseWinDone
  <2>3. CASE LockReady
    BY <2>3 DEF LockReady, Next, GuiStep
  <2>4. CASE CreateWindow
    <3>1. dlgCC \in Conns
      BY <2>4 DEF CreateWindow, ccSetWindow, GuiAt, Calls, Idle
    <3>. QED
      BY <2>4, <3>1 DEF CreateWindow, Next, GuiStep
  <2>5. CASE UnlockReady
    <3>1. dlgCC \in Conns
      BY <2>5 DEF UnlockReady, ccUnlockReadyState, GuiAt, Calls, Idle
    <3>. QED
      BY <2>5, <3>1 DEF UnlockReady, Next, GuiStep
  <2>6. CASE SendStored \/ SendTyped
    BY <2>6, Answers DEF SendStored, SendTyped
  <2>7. CASE Disconnect
    BY <2>7 DEF Disconnect, Next, GuiStep
  <2>8. CASE Painted
    <3>1. winCC \in Conns
      BY <2>8 DEF Painted, ccReleaseHPS, GuiAt, Calls, Idle
    <3>. QED
      BY <2>8, <3>1 DEF Painted, Next, GuiStep
  <2>9. CASE ccDone
    <3>1. CASE UNCHANGED vars
      BY <3>1
    <3>2. CASE \E c \in lsCCList : DestroyUnlist(c)
      BY <3>2 DEF Next, GuiStep, TypeOK
    <3>. QED
      BY <2>9, <3>1, <3>2 DEF ccDone
  <2>. QED
    BY <1>2, <2>1, <2>2, <2>3, <2>4, <2>5, <2>6, <2>7, <2>8, <2>9 DEF HandlerGoesOn
<1>3. CASE OnCancel
  BY <1>3 DEF OnCancel, Next, GuiStep
<1>4. CASE Reconnect
  BY <1>4 DEF Reconnect, Next, GuiStep
<1>5. CASE User
  <2>1. CASE PswdEnter \/ PressCancel \/ PressClose
    BY <2>1 DEF PswdEnter, PressCancel, PressClose
  <2>2. CASE BoxClosed
    BY <2>2 DEF BoxClosed, Next, GuiStep
  <2>3. CASE Paint
    BY <2>3 DEF Paint, Free, Next, GuiStep
  <2>. QED
    BY <1>5, <2>1, <2>2, <2>3 DEF User
<1>6. CASE Exit
  BY <1>6 DEF Exit
<1>7. CASE \E c \in Conns : OnSent(c) \/ Watchdog(c) \/ CallGoesOn(c) \/ Running(c)
  BY <1>7 DEF OnSent, Watchdog, CallGoesOn, Running, Next, GuiStep
<1>8. CASE UNCHANGED svars
  BY <1>8 DEF svars
<1>. QED
  BY <1>1, <1>2, <1>3, <1>4, <1>5, <1>6, <1>7, <1>8 DEF SNext

LEMMA DropStep ==
  ASSUME TypeOK, LockInv, Drop
  PROVE  TypeOK' /\ LockInv'
<1>1. PICK c \in Conns \cup {NoConn}, p \in {"signal", "free"} :
        /\ posted # <<>> /\ posted' = Tail(posted)
        /\ lsCCList' = lsCCList \ {c}
        /\ gui' = [at |-> p, cc |-> c]
        /\ UNCHANGED <<life, hwnd, syncVars, dataVars, rfbVars>>
  BY DEF Drop, Call
<1>2. TypeOK'
  BY <1>1 DEF TypeOK, GuiPoints, syncVars, dataVars, rfbVars
<1>3. LockInv'
  BY <1>1 DEF LockInv, syncVars, dataVars, rfbVars
<1>. QED
  BY <1>2, <1>3

-----------------------------------------------------------------------------
(* Types. *)

LEMMA SessionTypeInit == SInit => STypeOK
<1>. SUFFICES ASSUME SInit PROVE STypeOK
  OBVIOUS
<1>1. TypeOK
  BY TypeInit DEF SInit
<1>2. MaxAttempts \in Nat \ {0}
  BY AttemptsAssumption
<1>3. attempt \in 0 .. MaxAttempts
  BY <1>2 DEF SInit
<1>4. memo \in BOOLEAN
  BY DEF SInit
<1>. QED
  BY <1>1, <1>3, <1>4 DEF SInit, STypeOK, Tasks

\* Every attempt but the first is started by the timer, which runs only when
\* another one is left.
LEMMA SessionTypeStep ==
  ASSUME STypeOK, TypeOK', [SNext]_svars,
         task = "create" => attempt < MaxAttempts
  PROVE  STypeOK'
<1>. USE DEF STypeOK, dlgVars, winVars
<1>1. CASE FromQueue
  BY <1>1, ZenonT(30) DEF FromQueue, OnReady, OnWaitPasswordStored, OnWaitPasswordAsk, OnFinishRetry,
     OnFinishShow, OnFinishQuiet, OnWinFinish, OnOther, Tasks
<1>2. CASE HandlerGoesOn
  <2>1. CASE StartConnection
    BY <2>1, AttemptsAssumption DEF StartConnection, Tasks
  <2>2. CASE StartFails \/ LockReady \/ ReadyLost \/ CreateWindow \/ CreateWindowFails
    BY <2>2 DEF StartFails, LockReady, ReadyLost, CreateWindow, CreateWindowFails, CloseDlg,
       Tasks
  <2>3. CASE UnlockReady \/ SendStored \/ SendTyped \/ CloseDlgDone
    BY <2>3 DEF UnlockReady, SendStored, SendTyped, CloseDlgDone, CloseDlg, Tasks
  <2>4. CASE Disconnect \/ Painted \/ CloseWinDone \/ ccDone
    BY <2>4 DEF Disconnect, Painted, CloseWinDone, ccDone, Tasks
  <2>. QED
    BY <1>2, <2>1, <2>2, <2>3, <2>4 DEF HandlerGoesOn
<1>3. CASE OnCancel
  BY <1>3 DEF OnCancel, Tasks
<1>4. CASE Reconnect
  BY <1>4 DEF Reconnect, Tasks
<1>5. CASE User
  BY <1>5 DEF User, PswdEnter, PressCancel, BoxClosed, PressClose, Paint, Tasks
<1>6. CASE Exit
  BY <1>6 DEF Exit, Tasks
<1>7. CASE \E c \in Conns : OnSent(c) \/ Watchdog(c) \/ CallGoesOn(c) \/ Running(c)
  BY <1>7 DEF OnSent, Watchdog, CallGoesOn, Running
<1>8. CASE UNCHANGED svars
  BY <1>8 DEF svars
<1>. QED
  BY <1>1, <1>2, <1>3, <1>4, <1>5, <1>6, <1>7, <1>8 DEF SNext

-----------------------------------------------------------------------------
(* Steps of the connection thread. *)

\* What a step of the thread of c may do to the session.
Turn(c) ==
  \/ ulRFBState'[c] = ulRFBState[c]
  \/ ulRFBState[c] = "NOTINIT" /\ ulRFBState'[c] = "INITPROGRESS"
  \/ ulRFBState[c] = "INITPROGRESS" /\ ulRFBState'[c] \in {"WAITPASSWORD", "READY",
        "FINISH"}
  \/ ulRFBState[c] = "WAITPASSWORD" /\ ulRFBState'[c] = "INITPROGRESS"
  \/ ulRFBState[c] = "READY" /\ ulRFBState'[c] = "FINISH"

ThreadMoves(c) ==
  /\ life[c] = "live" /\ pc[c] \notin Over
  /\ UNCHANGED <<objVars, gui>>
  /\ ulStopSigTime' = ulStopSigTime
  /\ \A d \in Conns \ {c} : /\ ulRFBState'[d] = ulRFBState[d] /\ pRFBClient'[d] = pRFBClient[d]
                            /\ pc'[d] = pc[d] /\ cont'[d] = cont[d]
  /\ Course(c)'
  /\ Turn(c)
  /\ \/ posted' = posted
     \/ \E s \in RFBStates, w \in Windows :
          /\ posted' = Append(posted, [cc |-> c, to |-> w, state |-> s])
          /\ s = "FINISH" => pc'[c] \in Over

LEMMA ThreadStays ==
  ASSUME TypeOK, NEW c \in Conns, Course(c), RfbStep(c)
  PROVE  ThreadMoves(c)
<1>. USE DEF ThreadMoves, Turn, Course, Established, TypeOK, Over, InLoop, At, Goto,
       RfbSetState, SetState, MayLock, objVars, syncVars, dataVars, rfbVars
<1>1. CASE RfbPost(c)
  BY <1>1 DEF RfbPost, PostState
<1>2. CASE RfbStart(c)
  BY <1>2 DEF RfbStart
<1>3. CASE RfbNoQueue(c)
  BY <1>3 DEF RfbNoQueue
<1>4. CASE RfbQueue(c)
  BY <1>4 DEF RfbQueue
<1>5. CASE RfbAskState(c)
  BY <1>5 DEF RfbAskState
<1>6. CASE RfbAskReset(c)
  BY <1>6 DEF RfbAskReset
<1>7. CASE RfbAskWait(c)
  BY <1>7 DEF RfbAskWait
<1>8. CASE RfbAskTake(c)
  BY <1>8 DEF RfbAskTake
<1>9. CASE RfbAskRefuse(c)
  BY <1>9 DEF RfbAskRefuse
<1>10. CASE RfbAskBack(c)
  BY <1>10 DEF RfbAskBack
<1>11. CASE RfbInitFail(c)
  BY <1>11 DEF RfbInitFail
<1>12. CASE RfbForget(c)
  BY <1>12 DEF RfbForget
<1>13. CASE RfbInitDone(c)
  BY <1>13 DEF RfbInitDone
<1>14. CASE RfbReady(c)
  BY <1>14 DEF RfbReady
<1>15. CASE RfbResize(c)
  BY <1>15 DEF RfbResize
<1>16. CASE RfbResized(c)
  BY <1>16 DEF RfbResized
<1>17. CASE RfbUpdate(c)
  BY <1>17 DEF RfbUpdate
<1>18. CASE RfbUpdated(c)
  BY <1>18 DEF RfbUpdated
<1>19. CASE RfbUpdateError(c)
  BY <1>19 DEF RfbUpdateError
<1>20. CASE RfbSend(c)
  BY <1>20 DEF RfbSend
<1>21. CASE RfbBlock(c)
  BY <1>21 DEF RfbBlock
<1>22. CASE RfbUnblock(c)
  BY <1>22 DEF RfbUnblock
<1>23. CASE RfbLeaveLoop(c)
  BY <1>23 DEF RfbLeaveLoop
<1>24. CASE RfbFinish(c)
  BY <1>24 DEF RfbFinish
<1>25. CASE \E k \in LogonKinds : RfbAsk(c, k)
  BY <1>25 DEF RfbAsk
<1>. QED
  BY <1>1, <1>2, <1>3, <1>4, <1>5, <1>6, <1>7, <1>8, <1>9, <1>10, <1>11,
     <1>12, <1>13, <1>14, <1>15, <1>16, <1>17, <1>18, <1>19, <1>20, <1>21, <1>22,
     <1>23, <1>24, <1>25 DEF RfbStep

-----------------------------------------------------------------------------
(* The invariant. *)

LEMMA SessionInit == SInit => SInv
<1>. SUFFICES ASSUME SInit PROVE SInv
  OBVIOUS
<1>. USE DEF SInit, Init, Idle
<1>1. Objects
  BY DEF Objects, Course, Fresh
<1>2. OneLive
  BY DEF OneLive
<1>3. Calls
  BY DEF Calls, Destroying, Watching, NoneLive
<1>4. Stops
  BY DEF Stops
<1>5. Dialog
  <2>1. MaxAttempts \in Nat \ {0}
    BY AttemptsAssumption
  <2>. QED
    BY <2>1, ConnsAssumption DEF Dialog, Quiet
<1>6. Window
  BY DEF Window
<1>. QED
  BY <1>1, <1>2, <1>3, <1>4, <1>5, <1>6 DEF SInv

\* The connection thread keeps it: the thread's messages are about the only
\* live object, and the last of them is FINISH.
LEMMA ThreadKeeps ==
  ASSUME STypeOK, SInv, NEW c \in Conns, ThreadMoves(c),
         UNCHANGED <<dlgVars, winVars, task>>
  PROVE  SInv'
<1>. USE DEF SInv, ThreadMoves, STypeOK, objVars, dlgVars, winVars
<1>1. Objects'
  <2>. SUFFICES ASSUME NEW d \in Conns
                PROVE  /\ life[d] = "live" => Course(d)'
                       /\ life[d] = "none" => Fresh(d)'
                       /\ d \in lsCCList => life[d] = "live"
    BY DEF Objects
  <2>1. CASE d = c
    BY <2>1 DEF Objects
  <2>2. CASE d # c
    BY <2>2 DEF Objects, Course, Fresh, Established
  <2>. QED
    BY <2>1, <2>2
<1>2. OneLive'
  BY DEF OneLive
<1>3. Calls'
  BY DEF Calls, NoneLive
<1>4. Stops'
  BY DEF Stops
<1>5. Dialog'
  <2>1. dlg # "closed" => c = dlgCC
    BY DEF Dialog
  <2>2. task # "create" /\ ~ timer
    BY DEF Dialog, Quiet
  <2>3. dlg # "closed" => \A i \in DOMAIN posted : posted[i].state # "FINISH"
    BY <2>1 DEF Dialog
  <2>4. CASE posted' = posted
    BY <2>1, <2>2, <2>3, <2>4 DEF Dialog
  <2>5. CASE posted' # posted
    <3>1. PICK s \in RFBStates, w \in Windows :
            /\ posted' = Append(posted, [cc |-> c, to |-> w, state |-> s])
            /\ s = "FINISH" => pc'[c] \in Over
      BY <2>5
    <3>2. Len(posted') = Len(posted) + 1 /\ DOMAIN posted' = 1 .. Len(posted')
      BY <3>1 DEF TypeOK
    <3>3. \A i \in DOMAIN posted' : posted'[i] = IF i = Len(posted')
                                      THEN [cc |-> c, to |-> w, state |-> s] ELSE posted[i]
      BY <3>1 DEF TypeOK
    <3>6. DOMAIN posted = 1 .. Len(posted) /\ Len(posted) \in Nat
      BY DEF TypeOK
    <3>4. \A i \in DOMAIN posted' : i = Len(posted') \/ i \in DOMAIN posted
      BY <3>2, <3>6
    <3>5. dlg # "closed" => \A i \in DOMAIN posted' :
            /\ posted'[i].cc = dlgCC
            /\ posted'[i].state = "FINISH" => i = Len(posted') /\ pc'[dlgCC] \in Over
      BY <2>1, <2>3, <3>1, <3>3, <3>4 DEF Dialog
    <3>. QED
      BY <2>1, <2>2, <3>5 DEF Dialog
  <2>. QED
    BY <2>4, <2>5
<1>6. Window'
  BY DEF Window
<1>. QED
  BY <1>1, <1>2, <1>3, <1>4, <1>5, <1>6

\* So does time.
LEMMA TimeKeeps ==
  ASSUME STypeOK, SInv, NEW c \in Conns, TimePasses(c),
         UNCHANGED <<dlgVars, winVars, task>>
  PROVE  SInv'
<1>. USE DEF SInv, TimePasses, STypeOK, TypeOK, objVars, syncVars, rfbVars, dlgVars, winVars
<1>1. Objects'
  BY DEF Objects, Course, Fresh, Established
<1>2. OneLive'
  BY DEF OneLive
<1>3. Calls'
  BY DEF Calls, NoneLive
<1>4. Stops'
  BY DEF Stops
<1>5. Dialog'
  BY DEF Dialog, Quiet
<1>6. Window'
  BY DEF Window
<1>. QED
  BY <1>1, <1>2, <1>3, <1>4, <1>5, <1>6

\* A cc* call goes on: the object is the live one, and the watchdog has only a
\* window's object before it.
LEMMA CallKeeps ==
  ASSUME STypeOK, SInv, NEW c \in Conns, CallGoesOn(c)
  PROVE  SInv'
<1>. USE DEF SInv, STypeOK, TypeOK, Idle, Over, Watching, Destroying, objVars, syncVars,
      dataVars, rfbVars,
       dlgVars, winVars
<1>1. ASSUME CreateList(c), UNCHANGED <<dlgVars, winVars, task>>
      PROVE  SInv'
  <2>. USE <1>1 DEF CreateList, GuiAt, Call
  <2>1. Objects'
    BY DEF Objects, Course, Fresh, Established, InLoop
  <2>2. OneLive'
    BY DEF OneLive
  <2>3. Calls'
    BY DEF Calls, NoneLive, OneLive, Objects
  <2>4. Stops'
    BY DEF Stops, Calls, OneLive
  <2>5. Dialog'
    BY DEF Dialog, Quiet, Calls, Window
  <2>6. Window'
    BY DEF Window
  <2>. QED
    BY <2>1, <2>2, <2>3, <2>4, <2>5, <2>6
<1>2. ASSUME CreateWaitState(c), UNCHANGED <<dlgVars, winVars, task>>
      PROVE  SInv'
  <2>. USE <1>2 DEF CreateWaitState, GuiAt, Call
  <2>1. Objects'
    BY DEF Objects, Course, Fresh, Established, InLoop
  <2>2. OneLive'
    BY DEF OneLive
  <2>3. Calls'
    BY DEF Calls, NoneLive, OneLive, Objects
  <2>4. Stops'
    BY DEF Stops, Calls, OneLive
  <2>5. Dialog'
    BY DEF Dialog, Quiet, Calls, Window
  <2>6. Window'
    BY DEF Window
  <2>. QED
    BY <2>1, <2>2, <2>3, <2>4, <2>5, <2>6
<1>3. ASSUME CreateWaitEvent(c), UNCHANGED <<dlgVars, winVars, task>>
      PROVE  SInv'
  <2>. USE <1>3 DEF CreateWaitEvent, GuiAt, Call
  <2>1. Objects'
    BY DEF Objects, Course, Fresh, Established, InLoop
  <2>2. OneLive'
    BY DEF OneLive
  <2>3. Calls'
    BY DEF Calls, NoneLive, OneLive, Objects
  <2>4. Stops'
    BY DEF Stops, Calls, OneLive
  <2>5. Dialog'
    BY DEF Dialog, Quiet, Calls, Window
  <2>6. Window'
    BY DEF Window
  <2>. QED
    BY <2>1, <2>2, <2>3, <2>4, <2>5, <2>6
<1>4. ASSUME DestroySignal(c), UNCHANGED <<dlgVars, winVars, task>>
      PROVE  SInv'
  <2>. USE <1>4 DEF DestroySignal, GuiAt, Call
  <2>1. Objects'
    BY DEF Objects, Course, Fresh, Established, InLoop
  <2>2. OneLive'
    BY DEF OneLive
  <2>3. Calls'
    BY DEF Calls, NoneLive, OneLive, Objects
  <2>4. Stops'
    BY DEF Stops, Calls, OneLive
  <2>5. Dialog'
    BY DEF Dialog, Quiet, Calls, Window
  <2>6. Window'
    BY DEF Window
  <2>. QED
    BY <2>1, <2>2, <2>3, <2>4, <2>5, <2>6
<1>5. ASSUME DestroyWait(c), UNCHANGED <<dlgVars, winVars, task>>
      PROVE  SInv'
  <2>. USE <1>5 DEF DestroyWait, GuiAt, Call
  <2>1. Objects'
    BY DEF Objects, Course, Fresh, Established, InLoop
  <2>2. OneLive'
    BY DEF OneLive
  <2>3. Calls'
    BY DEF Calls, NoneLive, OneLive, Objects
  <2>4. Stops'
    BY DEF Stops, Calls, OneLive
  <2>5. Dialog'
    BY DEF Dialog, Quiet, Calls, Window
  <2>6. Window'
    BY DEF Window
  <2>. QED
    BY <2>1, <2>2, <2>3, <2>4, <2>5, <2>6
<1>6. ASSUME DestroyCheck(c), UNCHANGED <<dlgVars, winVars, task>>
      PROVE  SInv'
  <2>. USE <1>6 DEF DestroyCheck, GuiAt, Call
  <2>1. Objects'
    BY DEF Objects, Course, Fresh, Established, InLoop
  <2>2. OneLive'
    BY DEF OneLive
  <2>3. Calls'
    BY DEF Calls, NoneLive, OneLive, Objects
  <2>4. Stops'
    BY DEF Stops, Calls, OneLive
  <2>5. Dialog'
    BY DEF Dialog, Quiet, Calls, Window
  <2>6. Window'
    BY DEF Window
  <2>. QED
    BY <2>1, <2>2, <2>3, <2>4, <2>5, <2>6
<1>7. ASSUME DestroyKill(c), UNCHANGED <<dlgVars, winVars, task>>
      PROVE  SInv'
  <2>. USE <1>7 DEF DestroyKill, KillThread, GuiAt, Call
  <2>1. Objects'
    BY DEF Objects, Course, Fresh, Established, InLoop
  <2>2. OneLive'
    BY DEF OneLive
  <2>3. Calls'
    BY DEF Calls, NoneLive, OneLive, Objects
  <2>4. Stops'
    BY DEF Stops, Calls, OneLive
  <2>5. Dialog'
    BY DEF Dialog, Quiet, Calls, Window
  <2>6. Window'
    BY DEF Window
  <2>. QED
    BY <2>1, <2>2, <2>3, <2>4, <2>5, <2>6
<1>8. ASSUME DestroyFree(c), UNCHANGED <<dlgVars, winVars, task>>
      PROVE  SInv'
  <2>. USE <1>8 DEF DestroyFree, GuiAt, Return
  <2>1. Objects'
    BY DEF Objects, Course, Fresh, Established, InLoop, Calls
  <2>2. OneLive'
    BY DEF OneLive
  <2>3. Calls'
    BY DEF Calls, NoneLive, OneLive, Objects
  <2>4. Stops'
    BY DEF Stops, Calls, OneLive
  <2>5. Dialog'
    BY DEF Dialog, Quiet, Calls, Window, OneLive
  <2>6. Window'
    BY DEF Window, Calls, Dialog
  <2>. QED
    BY <2>1, <2>2, <2>3, <2>4, <2>5, <2>6
<1>9. ASSUME WatchdogFinish(c), UNCHANGED <<dlgVars, winVars, task>>
      PROVE  SInv'
  <2>. USE <1>9 DEF WatchdogFinish, SetState, GuiAt, Call
  <2>1. Objects'
    BY DEF Objects, Course, Fresh, Established, InLoop, Calls
  <2>2. OneLive'
    BY DEF OneLive
  <2>3. Calls'
    BY DEF Calls, NoneLive, OneLive, Objects
  <2>4. Stops'
    BY DEF Stops, Calls, OneLive
  <2>5. Dialog'
    BY DEF Dialog, Quiet, Calls, Window
  <2>6. Window'
    BY DEF Window
  <2>. QED
    BY <2>1, <2>2, <2>3, <2>4, <2>5, <2>6
<1>10. ASSUME WatchdogNotify(c), UNCHANGED <<dlgVars, winVars, task>>
      PROVE  SInv'
  <2>. USE <1>10 DEF WatchdogNotify, PostState, GuiAt, Call
  <2>1. Objects'
    BY DEF Objects, Course, Fresh, Established, InLoop
  <2>2. OneLive'
    BY DEF OneLive
  <2>3. Calls'
    BY DEF Calls, NoneLive, OneLive, Objects
  <2>4. Stops'
    BY DEF Stops, Calls, OneLive
  <2>5. Dialog'
    BY DEF Dialog, Quiet, Calls, Window
  <2>6. Window'
    BY DEF Window
  <2>. QED
    BY <2>1, <2>2, <2>3, <2>4, <2>5, <2>6
<1>11. ASSUME WatchdogKill(c), UNCHANGED <<dlgVars, winVars, task>>
      PROVE  SInv'
  <2>. USE <1>11 DEF WatchdogKill, KillThread, GuiAt, Call, Return
  <2>1. Objects'
    BY DEF Objects, Course, Fresh, Established, InLoop
  <2>2. OneLive'
    BY DEF OneLive
  <2>3. Calls'
    BY DEF Calls, NoneLive, OneLive, Objects
  <2>4. Stops'
    BY DEF Stops, Calls, OneLive
  <2>5. Dialog'
    BY DEF Dialog, Quiet, Calls, Window
  <2>6. Window'
    BY DEF Window
  <2>. QED
    BY <2>1, <2>2, <2>3, <2>4, <2>5, <2>6
<1>. QED
  BY <1>1, <1>2, <1>3, <1>4, <1>5, <1>6, <1>7, <1>8, <1>9, <1>10, <1>11 DEF
     CallGoesOn

-----------------------------------------------------------------------------
(* Steps of the handlers: the lemma KeepsA says that handler A keeps SInv. *)

LEMMA TailFacts ==
  ASSUME NEW S, NEW q \in Seq(S), q # <<>>
  PROVE  /\ Head(q) = q[1] /\ q[1] \in S /\ 1 \in DOMAIN q
         /\ \E n \in Nat : /\ n > 0 /\ Len(q) = n /\ DOMAIN q = 1 .. n
                         /\ Len(Tail(q)) = n - 1 /\ DOMAIN Tail(q) = 1 .. n - 1
                         /\ \A i \in 1 .. n - 1 : Tail(q)[i] = q[i + 1]
         /\ Len(q) = 1 => Tail(q) = <<>>
<1>1. Len(q) \in Nat /\ Len(q) # 0 /\ DOMAIN q = 1 .. Len(q)
  OBVIOUS
<1>2. Len(q) > 0
  BY <1>1
<1>3. Tail(q) \in Seq(S) /\ Len(Tail(q)) = Len(q) - 1 /\ DOMAIN Tail(q) = 1 .. Len(q) - 1
  OBVIOUS
<1>4. \A i \in 1 .. Len(q) - 1 : Tail(q)[i] = q[i + 1]
  OBVIOUS
<1>5. 1 \in DOMAIN q
  BY <1>1, <1>2
<1>6. Head(q) = q[1] /\ q[1] \in S
  BY <1>5
<1>7. ASSUME Len(q) = 1 PROVE Tail(q) = <<>>
  <2>1. \A t \in Seq(S) : Len(t) = 0 => t = <<>>
    OBVIOUS
  <2>2. Len(Tail(q)) = 0
    BY <1>3, <1>7
  <2>. QED
    BY <1>3, <2>1, <2>2
<1>8. \E n \in Nat : /\ n > 0 /\ Len(q) = n /\ DOMAIN q = 1 .. n
                   /\ Len(Tail(q)) = n - 1 /\ DOMAIN Tail(q) = 1 .. n - 1
                   /\ \A i \in 1 .. n - 1 : Tail(q)[i] = q[i + 1]
  <2>. WITNESS Len(q) \in Nat
  <2>. QED
    BY <1>1, <1>2, <1>3, <1>4
<1>. QED
  BY <1>5, <1>6, <1>7, <1>8

\* What is said of the messages of the queue holds of those that are left.
LEMMA QueueTail ==
  ASSUME STypeOK, SInv, posted # <<>>, dlg # "closed"
  PROVE  /\ \A i \in DOMAIN Tail(posted) : Tail(posted)[i].cc = dlgCC
         /\ \A i \in DOMAIN Tail(posted) : Tail(posted)[i].state = "FINISH" =>
              i = Len(Tail(posted)) /\ pc[dlgCC] \in Over
<1>1. posted \in Seq([cc : Conns, to : Windows, state : RFBStates])
  BY DEF STypeOK, TypeOK
<1>2. PICK n \in Nat : /\ n > 0 /\ Len(posted) = n /\ DOMAIN posted = 1 .. n
                      /\ Len(Tail(posted)) = n - 1 /\ DOMAIN Tail(posted) = 1 .. n - 1
                      /\ \A i \in 1 .. n - 1 : Tail(posted)[i] = posted[i + 1]
  BY <1>1, TailFacts
<1>3. \A i \in 1 .. n - 1 : i + 1 \in 1 .. n /\ (i + 1 = n => i = n - 1)
  BY <1>2
<1>4. \A i \in 1 .. n :
        /\ posted[i].cc = dlgCC
        /\ posted[i].state = "FINISH" => i = n /\ pc[dlgCC] \in Over
  BY <1>2 DEF SInv, Dialog
<1>. QED
  BY <1>2, <1>3, <1>4

\* A message of the queue is about the dialog's object; after FINISH there is
\* none.
LEMMA QueueHead ==
  ASSUME STypeOK, SInv, posted # <<>>, dlg # "closed"
  PROVE  /\ dlgCC \in Conns /\ ~ timer /\ task # "create"
         /\ Head(posted).state = "FINISH" => Tail(posted) = <<>> /\ pc[dlgCC] \in Over
<1>1. posted \in Seq([cc : Conns, to : Windows, state : RFBStates])
  BY DEF STypeOK, TypeOK
<1>2. /\ Head(posted) = posted[1] /\ 1 \in DOMAIN posted
      /\ posted[1] \in [cc : Conns, to : Windows, state : RFBStates]
      /\ Len(posted) = 1 => Tail(posted) = <<>>
  BY <1>1, TailFacts
<1>3. dlgCC \in Conns
  BY <1>2 DEF SInv, Dialog
<1>4. ASSUME Head(posted).state = "FINISH"
      PROVE  Tail(posted) = <<>> /\ pc[dlgCC] \in Over
  BY <1>2, <1>4 DEF SInv, Dialog
<1>. QED
  BY <1>3, <1>4 DEF SInv, Dialog, Quiet

LEMMA KeepsOnReady ==
  ASSUME STypeOK, LockInv, SInv, OnReady
  PROVE  SInv'
<1>. USE DEF OnReady, Free, Received, Dispatch, SInv, STypeOK, TypeOK, Idle, connVars,
       objVars, syncVars, dataVars, rfbVars, dlgVars, winVars
<1>1. Objects'
  BY DEF Objects, Course, Fresh, Established, InLoop
<1>2. OneLive'
  BY DEF OneLive
<1>3. Calls'
  BY DEF Calls, Destroying, Watching, NoneLive, Dialog, Window, Objects
<1>4. Stops'
  BY DEF Stops, Calls, Destroying, Watching
<1>5. Dialog'
  BY QueueHead, QueueTail, ConnsAssumption DEF Dialog, Destroying, Quiet, Calls, Window,
        OneLive, NoneLive
<1>6. Window'
  BY DEF Window, Destroying, Calls, Dialog, NoneLive, OneLive
<1>. QED
  BY <1>1, <1>2, <1>3, <1>4, <1>5, <1>6

LEMMA KeepsOnWaitPasswordStored ==
  ASSUME STypeOK, LockInv, SInv, OnWaitPasswordStored
  PROVE  SInv'
<1>. USE DEF OnWaitPasswordStored, Free, Received, Dispatch, SInv, STypeOK, TypeOK,
      Idle, connVars,
       objVars, syncVars, dataVars, rfbVars, dlgVars, winVars
<1>1. Objects'
  BY DEF Objects, Course, Fresh, Established, InLoop
<1>2. OneLive'
  BY DEF OneLive
<1>3. Calls'
  BY DEF Calls, Destroying, Watching, NoneLive, Dialog, Window, Objects
<1>4. Stops'
  BY DEF Stops, Calls, Destroying, Watching
<1>5. Dialog'
  BY QueueHead, QueueTail, ConnsAssumption DEF Dialog, Destroying, Quiet, Calls, Window,
        OneLive, NoneLive
<1>6. Window'
  BY DEF Window, Destroying, Calls, Dialog, NoneLive, OneLive
<1>. QED
  BY <1>1, <1>2, <1>3, <1>4, <1>5, <1>6

LEMMA KeepsOnWaitPasswordAsk ==
  ASSUME STypeOK, LockInv, SInv, OnWaitPasswordAsk
  PROVE  SInv'
<1>. USE DEF OnWaitPasswordAsk, Free, Received, Dispatch, SInv, STypeOK, TypeOK, Idle,
      connVars,
       objVars, syncVars, dataVars, rfbVars, dlgVars, winVars
<1>1. Objects'
  BY DEF Objects, Course, Fresh, Established, InLoop
<1>2. OneLive'
  BY DEF OneLive
<1>3. Calls'
  BY DEF Calls, Destroying, Watching, NoneLive, Dialog, Window, Objects
<1>4. Stops'
  BY DEF Stops, Calls, Destroying, Watching
<1>5. Dialog'
  BY QueueHead, QueueTail, ConnsAssumption DEF Dialog, Destroying, Quiet, Calls, Window,
        OneLive, NoneLive
<1>6. Window'
  BY DEF Window, Destroying, Calls, Dialog, NoneLive, OneLive
<1>. QED
  BY <1>1, <1>2, <1>3, <1>4, <1>5, <1>6

LEMMA KeepsOnFinishRetry ==
  ASSUME STypeOK, LockInv, SInv, OnFinishRetry
  PROVE  SInv'
<1>. USE DEF OnFinishRetry, Free, Received, Dispatch, SInv, STypeOK, TypeOK, Idle, connVars,
       objVars, syncVars, dataVars, rfbVars, dlgVars, winVars
<1>1. Objects'
  BY DEF Objects, Course, Fresh, Established, InLoop
<1>2. OneLive'
  BY DEF OneLive
<1>3. Calls'
  BY DEF Calls, Destroying, Watching, NoneLive, Dialog, Window, Objects
<1>4. Stops'
  BY DEF Stops, Calls, Destroying, Watching
<1>5. Dialog'
  BY QueueHead, QueueTail, ConnsAssumption DEF Dialog, Destroying, Quiet, Calls, Window,
        OneLive, NoneLive
<1>6. Window'
  BY DEF Window, Destroying, Calls, Dialog, NoneLive, OneLive
<1>. QED
  BY <1>1, <1>2, <1>3, <1>4, <1>5, <1>6

LEMMA KeepsOnFinishShow ==
  ASSUME STypeOK, LockInv, SInv, OnFinishShow
  PROVE  SInv'
<1>. USE DEF OnFinishShow, Free, Received, Dispatch, SInv, STypeOK, TypeOK, Idle, connVars,
       objVars, syncVars, dataVars, rfbVars, dlgVars, winVars
<1>1. Objects'
  BY DEF Objects, Course, Fresh, Established, InLoop
<1>2. OneLive'
  BY DEF OneLive
<1>3. Calls'
  BY DEF Calls, Destroying, Watching, NoneLive, Dialog, Window, Objects
<1>4. Stops'
  BY DEF Stops, Calls, Destroying, Watching
<1>5. Dialog'
  BY QueueHead, QueueTail, ConnsAssumption DEF Dialog, Destroying, Quiet, Calls, Window,
        OneLive, NoneLive
<1>6. Window'
  BY DEF Window, Destroying, Calls, Dialog, NoneLive, OneLive
<1>. QED
  BY <1>1, <1>2, <1>3, <1>4, <1>5, <1>6

LEMMA KeepsOnFinishQuiet ==
  ASSUME STypeOK, LockInv, SInv, OnFinishQuiet
  PROVE  SInv'
<1>. USE DEF OnFinishQuiet, Free, Received, Call, SInv, STypeOK, TypeOK, Idle, connVars,
       objVars, syncVars, dataVars, rfbVars, dlgVars, winVars
<1>1. Objects'
  BY DEF Objects, Course, Fresh, Established, InLoop
<1>2. OneLive'
  BY DEF OneLive
<1>3. Calls'
  <2>1. dlgCC \in Conns /\ life[dlgCC] = "live"
    BY QueueHead, ConnsAssumption DEF Dialog
  <2>. QED
    BY <2>1 DEF Calls, Destroying, Watching
<1>4. Stops'
  BY DEF Stops, Calls, Destroying, Watching
<1>5. Dialog'
  BY QueueHead, QueueTail, ConnsAssumption DEF Dialog, Destroying, Quiet, Calls, Window,
        OneLive, NoneLive
<1>6. Window'
  BY DEF Window, Destroying, Calls, Dialog, NoneLive, OneLive
<1>. QED
  BY <1>1, <1>2, <1>3, <1>4, <1>5, <1>6

LEMMA KeepsOnWinFinish ==
  ASSUME STypeOK, LockInv, SInv, OnWinFinish
  PROVE  SInv'
<1>. USE DEF OnWinFinish, Free, Received, Call, SInv, STypeOK, TypeOK, Idle, connVars,
       objVars, syncVars, dataVars, rfbVars, dlgVars, winVars
<1>1. Objects'
  BY DEF Objects, Course, Fresh, Established, InLoop
<1>2. OneLive'
  BY DEF OneLive
<1>3. Calls'
  BY DEF Calls, Destroying, Watching, NoneLive, Dialog, Window, Objects
<1>4. Stops'
  BY DEF Stops, Calls, Destroying, Watching
<1>5. Dialog'
  BY QueueHead, QueueTail, ConnsAssumption DEF Dialog, Destroying, Quiet, Calls, Window,
        OneLive, NoneLive
<1>6. Window'
  BY DEF Window, Destroying, Calls, Dialog, NoneLive, OneLive
<1>. QED
  BY <1>1, <1>2, <1>3, <1>4, <1>5, <1>6

LEMMA KeepsOnOther ==
  ASSUME STypeOK, LockInv, SInv, OnOther
  PROVE  SInv'
<1>. USE DEF OnOther, Free, Dispatch, SInv, STypeOK, TypeOK, Idle, connVars,
       objVars, syncVars, dataVars, rfbVars, dlgVars, winVars
<1>1. Objects'
  BY DEF Objects, Course, Fresh, Established, InLoop
<1>2. OneLive'
  BY DEF OneLive
<1>3. Calls'
  BY DEF Calls, Destroying, Watching, NoneLive, Dialog, Window, Objects
<1>4. Stops'
  BY DEF Stops, Calls, Destroying, Watching
<1>5. Dialog'
  BY QueueHead, QueueTail, ConnsAssumption DEF Dialog, Destroying, Quiet, Calls, Window,
        OneLive, NoneLive
<1>6. Window'
  BY DEF Window, Destroying, Calls, Dialog, NoneLive, OneLive
<1>. QED
  BY <1>1, <1>2, <1>3, <1>4, <1>5, <1>6

LEMMA KeepsStartConnection ==
  ASSUME STypeOK, LockInv, SInv, StartConnection
  PROVE  SInv'
<1>. USE DEF StartConnection, CreateThread, Call, SInv, STypeOK, TypeOK, Idle, connVars,
       objVars, syncVars, dataVars, rfbVars, dlgVars, winVars
<1>8. PICK c \in Conns : CreateThread(c) /\ dlgCC' = c
  OBVIOUS
<1>9. NoneLive
  BY DEF Calls
<1>10. hwnd[c] = "dlg" /\ ulStopSigTime[c] = "zero"
  BY <1>8 DEF Objects, Fresh
<1>1. Objects'
  BY <1>8, <1>9 DEF Objects, Course, Fresh, Established, InLoop, NoneLive
<1>2. OneLive'
  BY <1>8, <1>9 DEF OneLive, NoneLive
<1>3. Calls'
  BY <1>8, <1>9 DEF Calls, Destroying, Watching, NoneLive, Dialog
<1>4. Stops'
  BY <1>8, <1>9, <1>10 DEF Stops, NoneLive
<1>5. Dialog'
  <2>1. posted = <<>> /\ attempt < MaxAttempts /\ dlg = "open" /\ ~ timer
    BY DEF Dialog, Quiet
  <2>2. \A i \in DOMAIN posted : FALSE
    BY <2>1
  <2>3. attempt' <= MaxAttempts
    BY <2>1, AttemptsAssumption
  <2>4. \A d \in Conns : life'[d] = "live" => d = c
    BY <1>8, <1>9 DEF NoneLive
  <2>. QED
    BY <1>8, <2>1, <2>2, <2>3, <2>4 DEF Dialog
<1>6. Window'
  BY <1>8, <1>9, <1>10 DEF Window, Dialog, NoneLive
<1>. QED
  BY <1>1, <1>2, <1>3, <1>4, <1>5, <1>6

LEMMA KeepsStartFails ==
  ASSUME STypeOK, LockInv, SInv, StartFails
  PROVE  SInv'
<1>. USE DEF StartFails, SInv, STypeOK, TypeOK, Idle, connVars,
       objVars, syncVars, dataVars, rfbVars, dlgVars, winVars
<1>1. Objects'
  BY DEF Objects, Course, Fresh, Established, InLoop
<1>2. OneLive'
  BY DEF OneLive
<1>3. Calls'
  BY DEF Calls, Destroying, Watching, NoneLive, Dialog, Window, Objects
<1>4. Stops'
  BY DEF Stops, Calls, Destroying, Watching
<1>5. Dialog'
  <2>1. NoneLive
    BY DEF Calls
  <2>2. posted = <<>> /\ attempt < MaxAttempts /\ dlg = "open" /\ ~ timer
    BY DEF Dialog, Quiet
  <2>3. \A i \in DOMAIN posted : FALSE
    BY <2>2
  <2>. QED
    BY <2>1, <2>2, <2>3 DEF Dialog, NoneLive
<1>6. Window'
  BY DEF Window, Destroying, Calls, Dialog, NoneLive, OneLive
<1>. QED
  BY <1>1, <1>2, <1>3, <1>4, <1>5, <1>6

LEMMA KeepsLockReady ==
  ASSUME STypeOK, LockInv, SInv, LockReady
  PROVE  SInv'
<1>. USE DEF LockReady, ccLockReadyState, MayCall, Call, SInv, STypeOK, TypeOK, Idle,
      connVars,
       objVars, syncVars, dataVars, rfbVars, dlgVars, winVars
<1>1. Objects'
  BY DEF Objects, Course, Fresh, Established, InLoop
<1>2. OneLive'
  BY DEF OneLive
<1>3. Calls'
  BY DEF Calls, Destroying, Watching, NoneLive, Dialog, Window, Objects
<1>4. Stops'
  BY DEF Stops, Calls, Destroying, Watching
<1>5. Dialog'
  BY DEF Dialog, Destroying, Quiet, Calls, Window, OneLive, NoneLive
<1>6. Window'
  BY DEF Window, Destroying, Calls, Dialog, NoneLive, OneLive
<1>. QED
  BY <1>1, <1>2, <1>3, <1>4, <1>5, <1>6

LEMMA KeepsReadyLost ==
  ASSUME STypeOK, LockInv, SInv, ReadyLost
  PROVE  SInv'
<1>. USE DEF ReadyLost, CloseDlg, SInv, STypeOK, TypeOK, Idle, connVars,
       objVars, syncVars, dataVars, rfbVars, dlgVars, winVars
<1>1. Objects'
  BY DEF Objects, Course, Fresh, Established, InLoop
<1>2. OneLive'
  BY DEF OneLive
<1>3. Calls'
  BY DEF Calls, Destroying, Watching, NoneLive, Dialog, Window, Objects
<1>4. Stops'
  BY DEF Stops, Calls, Destroying, Watching
<1>5. Dialog'
  BY DEF Dialog, Destroying, Quiet, Calls, Window, OneLive, NoneLive
<1>6. Window'
  BY DEF Window, Destroying, Calls, Dialog, NoneLive, OneLive
<1>. QED
  BY <1>1, <1>2, <1>3, <1>4, <1>5, <1>6

LEMMA KeepsCreateWindow ==
  ASSUME STypeOK, LockInv, SInv, CreateWindow
  PROVE  SInv'
<1>. USE DEF CreateWindow, ccSetWindow, GuiAt, SInv, STypeOK, TypeOK, Idle, connVars,
       objVars, syncVars, dataVars, rfbVars, dlgVars, winVars
<1>1. Objects'
  <2>1. dlgCC \in Conns /\ life[dlgCC] = "live" /\ ulRFBState[dlgCC] = "READY"
    BY DEF Calls, LockInv
  <2>2. Established(dlgCC)
    BY <2>1 DEF Objects, Course
  <2>. QED
    BY <2>1, <2>2 DEF Objects, Course, Fresh, Established
<1>2. OneLive'
  BY DEF OneLive
<1>3. Calls'
  BY DEF Calls, Destroying, Watching, NoneLive, Dialog, Window, Objects
<1>4. Stops'
  BY DEF Stops, Calls, Destroying, Watching
<1>5. Dialog'
  BY DEF Dialog, Destroying, Quiet, Calls, Window, OneLive, NoneLive
<1>6. Window'
  BY DEF Window, Destroying, Calls, Dialog, NoneLive, OneLive
<1>. QED
  BY <1>1, <1>2, <1>3, <1>4, <1>5, <1>6

LEMMA KeepsCreateWindowFails ==
  ASSUME STypeOK, LockInv, SInv, CreateWindowFails
  PROVE  SInv'
<1>. USE DEF CreateWindowFails, SInv, STypeOK, TypeOK, Idle, connVars,
       objVars, syncVars, dataVars, rfbVars, dlgVars, winVars
<1>1. Objects'
  BY DEF Objects, Course, Fresh, Established, InLoop
<1>2. OneLive'
  BY DEF OneLive
<1>3. Calls'
  BY DEF Calls, Destroying, Watching, NoneLive, Dialog, Window, Objects
<1>4. Stops'
  BY DEF Stops, Calls, Destroying, Watching
<1>5. Dialog'
  BY DEF Dialog, Destroying, Quiet, Calls, Window, OneLive, NoneLive
<1>6. Window'
  BY DEF Window, Destroying, Calls, Dialog, NoneLive, OneLive
<1>. QED
  BY <1>1, <1>2, <1>3, <1>4, <1>5, <1>6

LEMMA KeepsUnlockReady ==
  ASSUME STypeOK, LockInv, SInv, UnlockReady
  PROVE  SInv'
<1>. USE DEF UnlockReady, ccUnlockReadyState, GuiAt, Return, CloseDlg, SInv, STypeOK,
      TypeOK, Idle, connVars,
       objVars, syncVars, dataVars, rfbVars, dlgVars, winVars
<1>1. Objects'
  BY DEF Objects, Course, Fresh, Established, InLoop
<1>2. OneLive'
  BY DEF OneLive
<1>3. Calls'
  BY DEF Calls, Destroying, Watching, NoneLive, Dialog, Window, Objects
<1>4. Stops'
  BY DEF Stops, Calls, Destroying, Watching
<1>5. Dialog'
  BY DEF Dialog, Destroying, Quiet, Calls, Window, OneLive, NoneLive
<1>6. Window'
  BY DEF Window, Destroying, Calls, Dialog, NoneLive, OneLive
<1>. QED
  BY <1>1, <1>2, <1>3, <1>4, <1>5, <1>6

LEMMA KeepsSendStored ==
  ASSUME STypeOK, LockInv, SInv, SendStored
  PROVE  SInv'
<1>. USE DEF SendStored, SendAnswer, ccSendLogonInfo, MayCall, SInv, STypeOK, TypeOK,
      Idle, connVars,
       objVars, syncVars, dataVars, rfbVars, dlgVars, winVars
<1>1. Objects'
  BY DEF Objects, Course, Fresh, Established, InLoop
<1>2. OneLive'
  BY DEF OneLive
<1>3. Calls'
  BY DEF Calls, Destroying, Watching, NoneLive, Dialog, Window, Objects
<1>4. Stops'
  BY DEF Stops, Calls, Destroying, Watching
<1>5. Dialog'
  BY DEF Dialog, Destroying, Quiet, Calls, Window, OneLive, NoneLive
<1>6. Window'
  BY DEF Window, Destroying, Calls, Dialog, NoneLive, OneLive
<1>. QED
  BY <1>1, <1>2, <1>3, <1>4, <1>5, <1>6

LEMMA KeepsSendTyped ==
  ASSUME STypeOK, LockInv, SInv, SendTyped
  PROVE  SInv'
<1>. USE DEF SendTyped, SendAnswer, ccSendLogonInfo, MayCall, SInv, STypeOK, TypeOK,
      Idle, connVars,
       objVars, syncVars, dataVars, rfbVars, dlgVars, winVars
<1>1. Objects'
  BY DEF Objects, Course, Fresh, Established, InLoop
<1>2. OneLive'
  BY DEF OneLive
<1>3. Calls'
  BY DEF Calls, Destroying, Watching, NoneLive, Dialog, Window, Objects
<1>4. Stops'
  BY DEF Stops, Calls, Destroying, Watching
<1>5. Dialog'
  BY DEF Dialog, Destroying, Quiet, Calls, Window, OneLive, NoneLive
<1>6. Window'
  BY DEF Window, Destroying, Calls, Dialog, NoneLive, OneLive
<1>. QED
  BY <1>1, <1>2, <1>3, <1>4, <1>5, <1>6

LEMMA KeepsCloseDlgDone ==
  ASSUME STypeOK, LockInv, SInv, CloseDlgDone
  PROVE  SInv'
<1>. USE DEF CloseDlgDone, CloseDlg, SInv, STypeOK, TypeOK, Idle, connVars,
       objVars, syncVars, dataVars, rfbVars, dlgVars, winVars
<1>1. Objects'
  BY DEF Objects, Course, Fresh, Established, InLoop
<1>2. OneLive'
  BY DEF OneLive
<1>3. Calls'
  BY DEF Calls, Destroying, Watching, NoneLive, Dialog, Window, Objects
<1>4. Stops'
  BY DEF Stops, Calls, Destroying, Watching
<1>5. Dialog'
  BY DEF Dialog, Destroying, Quiet, Calls, Window, OneLive, NoneLive
<1>6. Window'
  BY DEF Window, Destroying, Calls, Dialog, NoneLive, OneLive
<1>. QED
  BY <1>1, <1>2, <1>3, <1>4, <1>5, <1>6

LEMMA KeepsDisconnect ==
  ASSUME STypeOK, LockInv, SInv, Disconnect
  PROVE  SInv'
<1>. USE DEF Disconnect, ccDisconnectSignal, MayCall, SInv, STypeOK, TypeOK, Idle, connVars,
       objVars, syncVars, dataVars, rfbVars, dlgVars, winVars
<1>1. Objects'
  BY DEF Objects, Course, Fresh, Established, InLoop
<1>2. OneLive'
  BY DEF OneLive
<1>3. Calls'
  BY DEF Calls, Destroying, Watching, NoneLive, Dialog, Window, Objects
<1>4. Stops'
  <2>1. win = "open" /\ hwnd[winCC] = "win" /\ winCC \in Conns
    BY DEF Window
  <2>. QED
    BY <2>1 DEF Stops
<1>5. Dialog'
  BY DEF Dialog, Destroying, Quiet, Calls, Window, OneLive, NoneLive
<1>6. Window'
  BY DEF Window, Destroying, Calls, Dialog, NoneLive, OneLive
<1>. QED
  BY <1>1, <1>2, <1>3, <1>4, <1>5, <1>6

LEMMA KeepsPainted ==
  ASSUME STypeOK, LockInv, SInv, Painted
  PROVE  SInv'
<1>. USE DEF Painted, ccReleaseHPS, GuiAt, Return, SInv, STypeOK, TypeOK, Idle, connVars,
       objVars, syncVars, dataVars, rfbVars, dlgVars, winVars
<1>1. Objects'
  BY DEF Objects, Course, Fresh, Established, InLoop
<1>2. OneLive'
  BY DEF OneLive
<1>3. Calls'
  BY DEF Calls, Destroying, Watching, NoneLive, Dialog, Window, Objects
<1>4. Stops'
  BY DEF Stops, Calls, Destroying, Watching
<1>5. Dialog'
  BY DEF Dialog, Destroying, Quiet, Calls, Window, OneLive, NoneLive
<1>6. Window'
  BY DEF Window, Destroying, Calls, Dialog, NoneLive, OneLive
<1>. QED
  BY <1>1, <1>2, <1>3, <1>4, <1>5, <1>6

LEMMA KeepsCloseWinDone ==
  ASSUME STypeOK, LockInv, SInv, CloseWinDone
  PROVE  SInv'
<1>. USE DEF CloseWinDone, SInv, STypeOK, TypeOK, Idle, connVars,
       objVars, syncVars, dataVars, rfbVars, dlgVars, winVars
<1>1. Objects'
  BY DEF Objects, Course, Fresh, Established, InLoop
<1>2. OneLive'
  BY DEF OneLive
<1>3. Calls'
  BY DEF Calls, Destroying, Watching, NoneLive, Dialog, Window, Objects
<1>4. Stops'
  BY DEF Stops, Calls, Destroying, Watching
<1>5. Dialog'
  BY DEF Dialog, Destroying, Quiet, Calls, Window, OneLive, NoneLive
<1>6. Window'
  BY DEF Window, Destroying, Calls, Dialog, NoneLive, OneLive
<1>. QED
  BY <1>1, <1>2, <1>3, <1>4, <1>5, <1>6

LEMMA KeepsccDone ==
  ASSUME STypeOK, LockInv, SInv, ccDone
  PROVE  SInv'
<1>. USE DEF ccDone, DestroyUnlist, MayCall, Call, SInv, STypeOK, TypeOK, Idle, connVars,
       objVars, syncVars, dataVars, rfbVars, dlgVars, winVars
<1>1. Objects'
  BY DEF Objects, Course, Fresh, Established, InLoop
<1>2. OneLive'
  BY DEF OneLive
<1>3. Calls'
  BY DEF Calls, Destroying, Watching, NoneLive, Dialog, Window, Objects
<1>4. Stops'
  BY DEF Stops, Calls, Destroying, Watching
<1>5. Dialog'
  BY DEF Dialog, Destroying, Quiet, Calls, Window, OneLive, NoneLive
<1>6. Window'
  BY DEF Window, Destroying, Calls, Dialog, NoneLive, OneLive
<1>. QED
  BY <1>1, <1>2, <1>3, <1>4, <1>5, <1>6

LEMMA KeepsOnCancel ==
  ASSUME STypeOK, LockInv, SInv, OnCancel
  PROVE  SInv'
<1>. USE DEF OnCancel, Free, DestroyUnlist, MayCall, Call, SInv, STypeOK, TypeOK, Idle,
      connVars,
       objVars, syncVars, dataVars, rfbVars, dlgVars, winVars
<1>1. Objects'
  BY DEF Objects, Course, Fresh, Established, InLoop
<1>2. OneLive'
  BY DEF OneLive
<1>3. Calls'
  <2>1. CASE dlgCC = NoConn
    BY <2>1, ConnsAssumption DEF Calls, Destroying, Watching, NoneLive, Dialog
  <2>2. CASE dlgCC # NoConn
    BY <2>2 DEF Calls, Destroying, Watching
  <2>. QED
    BY <2>1, <2>2
<1>4. Stops'
  BY DEF Stops, Calls, Destroying, Watching
<1>5. Dialog'
  BY DEF Dialog, Destroying, Quiet, Calls, Window, OneLive, NoneLive
<1>6. Window'
  BY DEF Window, Destroying, Calls, Dialog, NoneLive, OneLive
<1>. QED
  BY <1>1, <1>2, <1>3, <1>4, <1>5, <1>6

LEMMA KeepsReconnect ==
  ASSUME STypeOK, LockInv, SInv, Reconnect
  PROVE  SInv'
<1>. USE DEF Reconnect, Free, DestroyUnlist, MayCall, Call, SInv, STypeOK, TypeOK, Idle,
      connVars,
       objVars, syncVars, dataVars, rfbVars, dlgVars, winVars
<1>1. Objects'
  BY DEF Objects, Course, Fresh, Established, InLoop
<1>2. OneLive'
  BY DEF OneLive
<1>3. Calls'
  BY DEF Calls, Destroying, Watching, NoneLive, Dialog, Window, Objects
<1>4. Stops'
  BY DEF Stops, Calls, Destroying, Watching
<1>5. Dialog'
  BY DEF Dialog, Destroying, Quiet, Calls, Window, OneLive, NoneLive
<1>6. Window'
  BY DEF Window, Destroying, Calls, Dialog, NoneLive, OneLive
<1>. QED
  BY <1>1, <1>2, <1>3, <1>4, <1>5, <1>6

LEMMA KeepsPswdEnter ==
  ASSUME STypeOK, LockInv, SInv, PswdEnter
  PROVE  SInv'
<1>. USE DEF PswdEnter, Free, SInv, STypeOK, TypeOK, Idle, connVars,
       objVars, syncVars, dataVars, rfbVars, dlgVars, winVars
<1>1. Objects'
  BY DEF Objects, Course, Fresh, Established, InLoop
<1>2. OneLive'
  BY DEF OneLive
<1>3. Calls'
  BY DEF Calls, Destroying, Watching, NoneLive, Dialog, Window, Objects
<1>4. Stops'
  BY DEF Stops, Calls, Destroying, Watching
<1>5. Dialog'
  BY DEF Dialog, Destroying, Quiet, Calls, Window, OneLive, NoneLive
<1>6. Window'
  BY DEF Window, Destroying, Calls, Dialog, NoneLive, OneLive
<1>. QED
  BY <1>1, <1>2, <1>3, <1>4, <1>5, <1>6

LEMMA KeepsPressCancel ==
  ASSUME STypeOK, LockInv, SInv, PressCancel
  PROVE  SInv'
<1>. USE DEF PressCancel, Free, SInv, STypeOK, TypeOK, Idle, connVars,
       objVars, syncVars, dataVars, rfbVars, dlgVars, winVars
<1>1. Objects'
  BY DEF Objects, Course, Fresh, Established, InLoop
<1>2. OneLive'
  BY DEF OneLive
<1>3. Calls'
  BY DEF Calls, Destroying, Watching, NoneLive, Dialog, Window, Objects
<1>4. Stops'
  BY DEF Stops, Calls, Destroying, Watching
<1>5. Dialog'
  BY DEF Dialog, Destroying, Quiet, Calls, Window, OneLive, NoneLive
<1>6. Window'
  BY DEF Window, Destroying, Calls, Dialog, NoneLive, OneLive
<1>. QED
  BY <1>1, <1>2, <1>3, <1>4, <1>5, <1>6

LEMMA KeepsPressClose ==
  ASSUME STypeOK, LockInv, SInv, PressClose
  PROVE  SInv'
<1>. USE DEF PressClose, Free, SInv, STypeOK, TypeOK, Idle, connVars,
       objVars, syncVars, dataVars, rfbVars, dlgVars, winVars
<1>1. Objects'
  BY DEF Objects, Course, Fresh, Established, InLoop
<1>2. OneLive'
  BY DEF OneLive
<1>3. Calls'
  BY DEF Calls, Destroying, Watching, NoneLive, Dialog, Window, Objects
<1>4. Stops'
  BY DEF Stops, Calls, Destroying, Watching
<1>5. Dialog'
  BY DEF Dialog, Destroying, Quiet, Calls, Window, OneLive, NoneLive
<1>6. Window'
  BY DEF Window, Destroying, Calls, Dialog, NoneLive, OneLive
<1>. QED
  BY <1>1, <1>2, <1>3, <1>4, <1>5, <1>6

LEMMA KeepsBoxClosed ==
  ASSUME STypeOK, LockInv, SInv, BoxClosed
  PROVE  SInv'
<1>. USE DEF BoxClosed, Free, DestroyUnlist, MayCall, Call, SInv, STypeOK, TypeOK, Idle,
      connVars,
       objVars, syncVars, dataVars, rfbVars, dlgVars, winVars
<1>1. Objects'
  BY DEF Objects, Course, Fresh, Established, InLoop
<1>2. OneLive'
  BY DEF OneLive
<1>3. Calls'
  BY DEF Calls, Destroying, Watching, NoneLive, Dialog, Window, Objects
<1>4. Stops'
  BY DEF Stops, Calls, Destroying, Watching
<1>5. Dialog'
  BY DEF Dialog, Destroying, Quiet, Calls, Window, OneLive, NoneLive
<1>6. Window'
  BY DEF Window, Destroying, Calls, Dialog, NoneLive, OneLive
<1>. QED
  BY <1>1, <1>2, <1>3, <1>4, <1>5, <1>6

LEMMA KeepsPaint ==
  ASSUME STypeOK, LockInv, SInv, Paint
  PROVE  SInv'
<1>. USE DEF Paint, Free, ccGetHPS, MayCall, Call, SInv, STypeOK, TypeOK, Idle, connVars,
       objVars, syncVars, dataVars, rfbVars, dlgVars, winVars
<1>1. Objects'
  BY DEF Objects, Course, Fresh, Established, InLoop
<1>2. OneLive'
  BY DEF OneLive
<1>3. Calls'
  BY DEF Calls, Destroying, Watching, NoneLive, Dialog, Window, Objects
<1>4. Stops'
  BY DEF Stops, Calls, Destroying, Watching
<1>5. Dialog'
  BY DEF Dialog, Destroying, Quiet, Calls, Window, OneLive, NoneLive
<1>6. Window'
  BY DEF Window, Destroying, Calls, Dialog, NoneLive, OneLive
<1>. QED
  BY <1>1, <1>2, <1>3, <1>4, <1>5, <1>6

LEMMA KeepsExit ==
  ASSUME STypeOK, LockInv, SInv, Exit
  PROVE  SInv'
<1>. USE DEF Exit, Free, SInv, STypeOK, TypeOK, Idle, connVars,
       objVars, syncVars, dataVars, rfbVars, dlgVars, winVars
<1>1. Objects'
  BY DEF Objects, Course, Fresh, Established, InLoop
<1>2. OneLive'
  BY DEF OneLive
<1>3. Calls'
  BY DEF Calls, Destroying, Watching, NoneLive, Dialog, Window, Objects
<1>4. Stops'
  BY DEF Stops, Calls, Destroying, Watching
<1>5. Dialog'
  BY DEF Dialog, Destroying, Quiet, Calls, Window, OneLive, NoneLive
<1>6. Window'
  BY DEF Window, Destroying, Calls, Dialog, NoneLive, OneLive
<1>. QED
  BY <1>1, <1>2, <1>3, <1>4, <1>5, <1>6

LEMMA KeepsOnSent ==
  ASSUME STypeOK, LockInv, SInv, NEW c \in Conns, OnSent(c)
  PROVE  SInv'
<1>. USE DEF OnSent, AnswerSent, At, Goto, Over, SInv, STypeOK, TypeOK, Idle, connVars,
       objVars, syncVars, dataVars, rfbVars, dlgVars, winVars
<1>1. Objects'
  BY DEF Objects, Course, Fresh, Established, InLoop
<1>2. OneLive'
  BY DEF OneLive
<1>3. Calls'
  BY DEF Calls, Destroying, Watching, NoneLive
<1>4. Stops'
  BY DEF Stops, Destroying
<1>5. Dialog'
  BY DEF Dialog, Quiet
<1>6. Window'
  BY DEF Window
<1>. QED
  BY <1>1, <1>2, <1>3, <1>4, <1>5, <1>6

LEMMA KeepsWatchdog ==
  ASSUME STypeOK, LockInv, SInv, NEW c \in Conns, Watchdog(c)
  PROVE  SInv'
<1>. USE DEF Watchdog, WatchdogExpired, Call, SInv, STypeOK, TypeOK, Idle, connVars,
       objVars, syncVars, dataVars, rfbVars, dlgVars, winVars
<1>1. Objects'
  BY DEF Objects, Course, Fresh, Established, InLoop
<1>2. OneLive'
  BY DEF OneLive
<1>3. Calls'
  BY DEF Calls, Destroying, Watching, NoneLive, Stops, Objects
<1>4. Stops'
  BY DEF Stops, Destroying
<1>5. Dialog'
  BY DEF Dialog, Quiet
<1>6. Window'
  BY DEF Window
<1>. QED
  BY <1>1, <1>2, <1>3, <1>4, <1>5, <1>6

LEMMA SessionStutters ==
  ASSUME STypeOK, SInv, UNCHANGED svars
  PROVE  SInv'
<1>. USE DEF svars, vars, SInv, STypeOK, TypeOK, Idle, connVars,
       objVars, syncVars, dataVars, rfbVars, dlgVars, winVars
<1>1. Objects'
  BY DEF Objects, Course, Fresh, Established, InLoop
<1>2. OneLive'
  BY DEF OneLive
<1>3. Calls'
  BY DEF Calls, Destroying, Watching, NoneLive
<1>4. Stops'
  BY DEF Stops, Destroying
<1>5. Dialog'
  BY DEF Dialog, Quiet
<1>6. Window'
  BY DEF Window
<1>. QED
  BY <1>1, <1>2, <1>3, <1>4, <1>5, <1>6

LEMMA ThreadOnCourse ==
  ASSUME STypeOK, SInv, NEW c \in Conns, RfbStep(c)
  PROVE  ThreadMoves(c)
<1>1. life[c] = "live"
  BY DEF RfbStep, RfbPost, RfbStart, RfbNoQueue, RfbQueue, RfbAsk, RfbAskState,
     RfbAskReset, RfbAskWait, RfbAskTake, RfbAskRefuse, RfbAskBack, RfbInitFail,
     RfbForget, RfbInitDone, RfbReady, RfbResize, RfbResized, RfbUpdate, RfbUpdated,
     RfbUpdateError, RfbSend, RfbBlock, RfbUnblock, RfbLeaveLoop, RfbFinish, At
<1>. QED
  BY <1>1, ThreadStays DEF SInv, Objects, STypeOK

\* Every step of a session keeps the invariant.
LEMMA SessionStep ==
  ASSUME STypeOK, LockInv, SInv, [SNext]_svars
  PROVE  SInv'
<1>1. CASE FromQueue
  BY <1>1, KeepsOnReady, KeepsOnWaitPasswordStored, KeepsOnWaitPasswordAsk,
     KeepsOnFinishRetry, KeepsOnFinishShow, KeepsOnFinishQuiet, KeepsOnWinFinish,
     KeepsOnOther DEF FromQueue
<1>2. CASE HandlerGoesOn
  BY <1>2, KeepsStartConnection, KeepsStartFails, KeepsLockReady, KeepsReadyLost,
     KeepsCreateWindow, KeepsCreateWindowFails, KeepsUnlockReady, KeepsSendStored,
     KeepsSendTyped, KeepsCloseDlgDone, KeepsDisconnect, KeepsPainted,
     KeepsCloseWinDone, KeepsccDone DEF HandlerGoesOn
<1>3. CASE OnCancel \/ Reconnect \/ Exit
  BY <1>3, KeepsOnCancel, KeepsReconnect, KeepsExit
<1>4. CASE User
  BY <1>4, KeepsPswdEnter, KeepsPressCancel, KeepsBoxClosed, KeepsPressClose,
     KeepsPaint DEF User
<1>5. ASSUME NEW c \in Conns, OnSent(c)
      PROVE  SInv'
  BY <1>5, KeepsOnSent
<1>6. ASSUME NEW c \in Conns, Watchdog(c)
      PROVE  SInv'
  BY <1>6, KeepsWatchdog
<1>7. ASSUME NEW c \in Conns, CallGoesOn(c)
      PROVE  SInv'
  BY <1>7, CallKeeps
<1>8. ASSUME NEW c \in Conns, Running(c)
      PROVE  SInv'
  <2>1. CASE RfbStep(c)
    <3>1. ThreadMoves(c)
      BY <2>1, ThreadOnCourse
    <3>. QED
      BY <1>8, <3>1, ThreadKeeps DEF Running
  <2>2. CASE TimePasses(c)
    BY <1>8, <2>2, TimeKeeps DEF Running
  <2>. QED
    BY <1>8, <2>1, <2>2 DEF Running
<1>9. CASE UNCHANGED svars
  BY <1>9, SessionStutters
<1>. QED
  BY <1>1, <1>2, <1>3, <1>4, <1>5, <1>6, <1>7, <1>8, <1>9 DEF SNext

-----------------------------------------------------------------------------
(* What follows. *)

IInv == STypeOK /\ LockInv /\ SInv

THEOREM SessionInvariant == SSpec => []IInv
<1>1. SInit => IInv
  BY SessionTypeInit, LockInit, SessionInit DEF IInv, SInit
<1>2. IInv /\ [SNext]_svars => IInv'
  <2>. SUFFICES ASSUME IInv, [SNext]_svars PROVE IInv'
    OBVIOUS
  <2>. USE DEF IInv
  <2>1. SInv'
    BY SessionStep
  <2>2. Calls /\ Dialog /\ Window
    BY DEF SInv
  <2>3. [Next]_vars \/ Drop
    BY <2>2, StepsOfObjects DEF Dialog, Window
  <2>4. TypeOK' /\ LockInv'
    BY <2>3, TypeStep, LockStep, DropStep DEF STypeOK
  <2>5. STypeOK'
    BY <2>2, <2>4, SessionTypeStep DEF Dialog
  <2>. QED
    BY <2>1, <2>4, <2>5
<1>. QED
  BY <1>1, <1>2, PTL DEF SSpec

\* The variables of a session keep their types: among others no more attempts
\* are made than the user allows.
THEOREM SessionTyped == SSpec => []STypeOK
<1>1. IInv => STypeOK
  BY DEF IInv
<1>. QED
  BY <1>1, SessionInvariant, PTL

\* The message a window's handler applies to the object the window holds is
\* about that object, and an open client window has an object whose rfbClient
\* is there.
THEOREM WindowsHoldObjects == SSpec => []HeldObjects
<1>1. ASSUME IInv PROVE HeldObjects
  <2>1. dlg # "closed" => \A i \in DOMAIN posted : posted[i].cc = dlgCC
    BY <1>1 DEF IInv, SInv, Dialog
  <2>2. ASSUME win = "open", Free
        PROVE  life[winCC] = "live" /\ pRFBClient[winCC] = "live"
    BY <1>1, <2>2 DEF IInv, SInv, Window, Free, Objects, Course, Established
  <2>. QED
    BY <2>1, <2>2 DEF HeldObjects
<1>. QED
  BY <1>1, SessionInvariant, PTL

-----------------------------------------------------------------------------
(* The session implements the life cycle of Connection. *)

\* The phase of an object depends on its life and its state only.
PhaseIn(l, s) ==
  CASE l = "none"  -> "absent"
    [] l = "freed" -> "gone"
    [] l = "live" /\ s \in {"NOTINIT", "INITPROGRESS"} -> "connecting"
    [] l = "live" /\ s \in {"WAITPASSWORD", "WAITCREDENTIAL"} -> "asking"
    [] l = "live" /\ s = "READY"  -> "ready"
    [] l = "live" /\ s = "FINISH" -> "finished"

LEMMA PhaseOf == phaseOf = [c \in Conns |-> PhaseIn(life[c], ulRFBState[c])]
  BY DEF phaseOf, PhaseIn

LEMMA PhaseOfNext == phaseOf' = [c \in Conns |-> PhaseIn(life'[c], ulRFBState'[c])]
  BY DEF phaseOf, PhaseIn

LEMMA Phases ==
  /\ \A s : PhaseIn("none", s) = "absent" /\ PhaseIn("freed", s) = "gone"
  /\ \A s \in {"NOTINIT", "INITPROGRESS"} : PhaseIn("live", s) = "connecting"
  /\ \A s \in {"WAITPASSWORD", "WAITCREDENTIAL"} : PhaseIn("live", s) = "asking"
  /\ PhaseIn("live", "READY") = "ready" /\ PhaseIn("live", "FINISH") = "finished"
  BY DEF PhaseIn

\* When one object changes, the others keep their phases.
LEMMA OnePhase ==
  ASSUME NEW c \in Conns,
         \A d \in Conns \ {c} : life'[d] = life[d] /\ ulRFBState'[d] = ulRFBState[d]
  PROVE  phaseOf' = [phaseOf EXCEPT ![c] = PhaseIn(life'[c], ulRFBState'[c])]
  BY PhaseOf, PhaseOfNext, Zenon

LEMMA SamePhases ==
  ASSUME UNCHANGED <<life, ulRFBState>>
  PROVE  phaseOf' = phaseOf
  BY PhaseOf, PhaseOfNext

LEMMA ImplementsInit ==
  ASSUME SInit
  PROVE  Abstract!Init
<1>1. \A c \in Conns : life[c] = "none"
  BY DEF SInit, Init
<1>2. phaseOf = [c \in Conns |-> "absent"]
  BY <1>1, PhaseOf, Phases
<1>. QED
  BY <1>2 DEF Abstract!Init

LEMMA BeginStep ==
  ASSUME IInv, StartConnection
  PROVE  Abstract!Next
<1>1. PICK c \in Conns : CreateThread(c)
  BY DEF StartConnection
<1>2. NoneLive /\ life \in [Conns -> {"none", "live", "freed"}]
  BY DEF StartConnection, IInv, SInv, Calls, STypeOK, TypeOK
<1>3. life[c] = "none" /\ ulRFBState[c] = "NOTINIT" /\ life'[c] = "live" /\ ulRFBState' = ulRFBState
  BY <1>1, <1>2 DEF CreateThread, syncVars, IInv, SInv, Objects, Fresh
<1>4. \A d \in Conns \ {c} : life'[d] = life[d]
  BY <1>1, <1>2 DEF CreateThread
<1>5. phaseOf' = [phaseOf EXCEPT ![c] = "connecting"]
  BY <1>3, <1>4, OnePhase, Phases
<1>6. \A d \in Conns : phaseOf[d] \in {"absent", "gone"}
  BY <1>2, PhaseOf, Phases DEF NoneLive
<1>7. phaseOf[c] = "absent"
  BY <1>3, PhaseOf, Phases
<1>8. Abstract!Begin(c)
  BY <1>5, <1>6, <1>7 DEF Abstract!Begin, Abstract!Become
<1>. QED
  BY <1>8 DEF Abstract!Next

LEMMA DiscardStep ==
  ASSUME IInv, NEW c \in Conns, DestroyFree(c)
  PROVE  Abstract!Next
<1>1. life[c] = "live" /\ ulRFBState[c] \in RFBStates /\ life'[c] = "freed"
      /\ \A d \in Conns \ {c} : life'[d] = life[d]
      /\ ulRFBState' = ulRFBState
  BY DEF DestroyFree, GuiAt, syncVars, IInv, STypeOK, TypeOK
<1>2. phaseOf' = [phaseOf EXCEPT ![c] = "gone"]
  BY <1>1, OnePhase, Phases
<1>3. phaseOf[c] \notin {"absent", "gone"}
  BY <1>1, PhaseOf, Phases DEF RFBStates
<1>4. Abstract!Discard(c)
  BY <1>2, <1>3 DEF Abstract!Discard, Abstract!Become
<1>. QED
  BY <1>4 DEF Abstract!Next

\* The thread takes its object from one phase to the next.
LEMMA ThreadPhase ==
  ASSUME NEW c \in Conns, life[c] = "live", life' = life, Turn(c),
         \A d \in Conns \ {c} : ulRFBState'[d] = ulRFBState[d]
  PROVE  Abstract!Next \/ phaseOf' = phaseOf
<1>. DEFINE p == PhaseIn("live", ulRFBState'[c])
<1>1. phaseOf' = [phaseOf EXCEPT ![c] = p]
  BY OnePhase
<1>2. phaseOf[c] = PhaseIn("live", ulRFBState[c])
  BY PhaseOf
<1>3. DOMAIN phaseOf = Conns
  BY PhaseOf
<1>4. CASE p = phaseOf[c]
  <2>1. [phaseOf EXCEPT ![c] = phaseOf[c]] = phaseOf
    BY <1>3, PhaseOf
  <2>. QED
    BY <1>1, <1>4, <2>1
<1>5. CASE ulRFBState[c] = "INITPROGRESS" /\ ulRFBState'[c] = "WAITPASSWORD"
  <2>1. Abstract!Ask(c)
    BY <1>1, <1>2, <1>5, Phases DEF Abstract!Ask, Abstract!Become
  <2>. QED
    BY <2>1 DEF Abstract!Next
<1>6. CASE ulRFBState[c] = "INITPROGRESS" /\ ulRFBState'[c] = "READY"
  <2>1. Abstract!Establish(c)
    BY <1>1, <1>2, <1>6, Phases DEF Abstract!Establish, Abstract!Become
  <2>. QED
    BY <2>1 DEF Abstract!Next
<1>7. CASE ulRFBState[c] \in {"INITPROGRESS", "READY"} /\ ulRFBState'[c] = "FINISH"
  <2>1. Abstract!Finish(c)
    BY <1>1, <1>2, <1>7, Phases DEF Abstract!Finish, Abstract!Become
  <2>. QED
    BY <2>1 DEF Abstract!Next
<1>8. CASE ulRFBState[c] = "WAITPASSWORD" /\ ulRFBState'[c] = "INITPROGRESS"
  <2>1. Abstract!GoOn(c)
    BY <1>1, <1>2, <1>8, Phases DEF Abstract!GoOn, Abstract!Become
  <2>. QED
    BY <2>1 DEF Abstract!Next
<1>9. CASE ulRFBState[c] = "NOTINIT" /\ ulRFBState'[c] = "INITPROGRESS"
  BY <1>2, <1>4, <1>9, Phases
<1>10. CASE ulRFBState'[c] = ulRFBState[c]
  BY <1>2, <1>4, <1>10
<1>. QED
  BY <1>5, <1>6, <1>7, <1>8, <1>9, <1>10 DEF Turn

LEMMA ImplementsStep ==
  ASSUME IInv, [SNext]_svars
  PROVE  [Abstract!Next]_phaseOf
<1>. USE DEF syncVars, objVars
<1>1. CASE FromQueue
  <2>1. UNCHANGED <<life, ulRFBState>>
    BY <1>1 DEF FromQueue, OnReady, OnWaitPasswordStored, OnWaitPasswordAsk, OnFinishRetry,
       OnFinishShow, OnFinishQuiet, OnWinFinish, OnOther, Dispatch
  <2>. QED
    BY <2>1, SamePhases
<1>2. CASE StartConnection
  BY <1>2, BeginStep
<1>3. CASE HandlerGoesOn /\ ~ StartConnection
  <2>1. UNCHANGED <<life, ulRFBState>>
    BY <1>3 DEF HandlerGoesOn, StartFails, LockReady, ReadyLost, CreateWindow,
       CreateWindowFails, UnlockReady, SendStored, SendTyped, SendAnswer, CloseDlgDone,
       Disconnect, Painted, CloseWinDone, ccDone, connVars, ccLockReadyState, ccSetWindow,
       ccUnlockReadyState, ccSendLogonInfo, ccDisconnectSignal, ccReleaseHPS, DestroyUnlist
  <2>. QED
    BY <2>1, SamePhases
<1>4. CASE OnCancel \/ Reconnect \/ Exit \/ User
  <2>1. UNCHANGED <<life, ulRFBState>>
    BY <1>4 DEF OnCancel, Reconnect, Exit, User, PswdEnter, PressCancel, BoxClosed,
       PressClose, Paint, ccGetHPS, DestroyUnlist, connVars
  <2>. QED
    BY <2>1, SamePhases
<1>5. ASSUME NEW c \in Conns, OnSent(c) \/ Watchdog(c)
      PROVE  [Abstract!Next]_phaseOf
  <2>1. UNCHANGED <<life, ulRFBState>>
    BY <1>5 DEF OnSent, AnswerSent, Watchdog, WatchdogExpired
  <2>. QED
    BY <2>1, SamePhases
<1>6. ASSUME NEW c \in Conns, CallGoesOn(c)
      PROVE  [Abstract!Next]_phaseOf
  <2>1. CASE DestroyFree(c)
    BY <2>1, DiscardStep
  <2>2. CASE WatchdogFinish(c)
    <3>1. life[c] = "live" /\ life' = life /\ ulRFBState'[c] = "FINISH"
          /\ \A d \in Conns \ {c} : ulRFBState'[d] = ulRFBState[d]
      BY <2>2 DEF WatchdogFinish, SetState, GuiAt, IInv, STypeOK, TypeOK
    <3>2. hwnd[c] = "win"
      BY <2>2 DEF WatchdogFinish, GuiAt, IInv, SInv, Calls, Watching
    <3>3. ulRFBState[c] \in {"READY", "FINISH"}
      BY <3>1, <3>2 DEF IInv, SInv, Objects, Course, Established
    <3>4. Turn(c)
      BY <3>1, <3>3 DEF Turn
    <3>. QED
      BY <3>1, <3>4, ThreadPhase
  <2>3. CASE CreateList(c) \/ CreateWaitState(c) \/ CreateWaitEvent(c)
             \/ DestroySignal(c) \/ DestroyWait(c) \/ DestroyCheck(c) \/ DestroyKill(c)
             \/ WatchdogNotify(c) \/ WatchdogKill(c)
    <3>1. UNCHANGED <<life, ulRFBState>>
      BY <2>3 DEF CreateList, CreateWaitState, CreateWaitEvent, DestroySignal, DestroyWait,
         DestroyCheck, DestroyKill, WatchdogNotify, WatchdogKill
    <3>. QED
      BY <3>1, SamePhases
  <2>. QED
    BY <1>6, <2>1, <2>2, <2>3 DEF CallGoesOn
<1>7. ASSUME NEW c \in Conns, Running(c)
      PROVE  [Abstract!Next]_phaseOf
  <2>1. CASE RfbStep(c)
    <3>1. ThreadMoves(c)
      BY <2>1, ThreadOnCourse DEF IInv
    <3>. QED
      BY <3>1, ThreadPhase DEF ThreadMoves
  <2>2. CASE TimePasses(c)
    BY <2>2, SamePhases DEF TimePasses
  <2>. QED
    BY <1>7, <2>1, <2>2 DEF Running
<1>8. CASE UNCHANGED svars
  BY <1>8, SamePhases DEF svars, vars
<1>. QED
  BY <1>1, <1>2, <1>3, <1>4, <1>5, <1>6, <1>7, <1>8 DEF SNext

\* One attempt at a time, asked again and again, established once, discarded.
THEOREM SessionImplements == SSpec => Implements
<1>1. SInit => Abstract!Init
  BY ImplementsInit
<1>2. IInv /\ [SNext]_svars => [Abstract!Next]_phaseOf
  BY ImplementsStep
<1>. QED
  BY <1>1, <1>2, SessionInvariant, PTL DEF SSpec, Implements, Abstract!Spec
=============================================================================
